-------------------------- MODULE MCBlueForceTracker --------------------------
(* Small instances of BlueForceTracker. *)
EXTENDS BlueForceTracker

CONSTANTS v1, a1, a2, r1, app1

OneRole == [v \in Virtue |-> r1]
OneItem == [i \in Virtue \cup {r1} |-> {app1}]
SmallIds == [r \in DirectoryRoutes |-> IF r = "virtues" THEN Virtue
                                       ELSE IF r = "roles" THEN {r1} ELSE {}]
=============================================================================
