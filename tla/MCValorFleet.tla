------------------------------ MODULE MCValorFleet ------------------------------
(* Small instances of ValorFleet. *)
EXTENDS ValorFleet, TLC

CONSTANTS t1, t2, t3, v1, v2, a1, a2, a3

\* Sound in the runs without liveness.
Symmetry == Permutations({t1, t2, t3}) \cup Permutations({v1, v2}) \cup Permutations({a1, a2, a3})
=============================================================================
