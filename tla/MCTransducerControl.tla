-------------------------- MODULE MCTransducerControl --------------------------
(* Small instances of TransducerControl. *)
EXTENDS TransducerControl

CONSTANTS q1, q2, s1, s2, a1

\* The sensors are alike, and so are the requests: this leaves no pair of
\* transducers out but that of the actuator with itself.
SensorsAndActuator == [q \in Request |-> IF q = q1 THEN {s1, a1} ELSE {s1, s2}]

AnySensor == [q \in Request |-> {s1, s2}]
=============================================================================
