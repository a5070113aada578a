--------------------------- MODULE MCVirtueMigration ---------------------------
(* Small instances of VirtueMigration. *)
EXTENDS VirtueMigration, TLC

CONSTANTS q1, q2, v1, v2, a1, a2, a3

\* Sound in the runs without liveness.
Symmetry == Permutations({q1, q2}) \cup Permutations({v1, v2}) \cup Permutations({a1, a2, a3})
=============================================================================
