--------------------------- MODULE MCVirtueLifecycle ---------------------------
(* Small instances of VirtueLifecycle. *)
EXTENDS VirtueLifecycle, TLC

CONSTANTS q1, q2, v1, v2, a1, a2

\* Sound where FirstValors = {} and in no liveness run.
Symmetry == Permutations({q1, q2}) \cup Permutations({v1, v2}) \cup Permutations({a1, a2})

\* For runs of properties that do not mention calm, which no action reads.
WithoutCalm == <<ldap, rows, nextId, feed, gaius, domU, image, fleet, req, stray, aborts, losses>>
=============================================================================
