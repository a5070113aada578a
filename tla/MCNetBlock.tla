------------------------------- MODULE MCNetBlock -------------------------------
(* Small instances of NetBlock. *)
EXTENDS NetBlock, TLC

CONSTANTS w1, w2, a1, a2, p1, p2, s1, s2

\* Sound in the runs without liveness.
Symmetry == Permutations({w1, w2}) \cup Permutations({a1, a2}) \cup Permutations({p1, p2}) \cup Permutations({s1, s2})
=============================================================================
