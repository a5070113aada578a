----------------------------- MODULE GuestnetPool -----------------------------
(***************************************************************************)
(* What Excalibur promises about guest network addresses: every row of the *)
(* galahad table that owns an address got, in one indivisible step, one    *)
(* that no other row owned at that moment, and keeps it until the row is   *)
(* deleted.  Row identifiers are RethinkDB primary keys and are never used *)
(* twice.                                                                  *)
(***************************************************************************)
CONSTANTS
    Row,        \* primary keys of the galahad table
    Guestnet,   \* the addresses that can be handed out
    Unborn,     \* the row has not been inserted yet
    Gone        \* the row has been deleted

VARIABLE owned  \* row -> its address, Unborn or Gone

InUse(g) == \E r \in Row : owned[r] = g

Init ==
    owned \in {f \in [Row -> Guestnet \cup {Unborn}] :
                  \A r, s \in Row : r # s /\ f[r] = f[s] => f[r] = Unborn}

Take(r) ==
    /\ owned[r] = Unborn
    /\ \E g \in Guestnet :
          /\ ~ InUse(g)
          /\ owned' = [owned EXCEPT ![r] = g]

Give(r) ==
    /\ owned[r] \in Guestnet
    /\ owned' = [owned EXCEPT ![r] = Gone]

Next == \E r \in Row : Take(r) \/ Give(r)

Spec == Init /\ [][Next]_owned
=============================================================================
