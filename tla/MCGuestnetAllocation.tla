------------------------- MODULE MCGuestnetAllocation -------------------------
(* Small instances of GuestnetAllocation. *)
EXTENDS GuestnetAllocation, TLC

CONSTANTS p1, p2, t1, t2, t3

\* The API server alone: every thread shares one lock.
OneServer == [t \in Thread |-> p1]

\* Thread t2 runs in deploy/setup/create_standby_pools.py.
ServerAndPoolScript == [t \in Thread |-> IF t = t2 THEN p2 ELSE p1]
=============================================================================
