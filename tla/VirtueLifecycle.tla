---------------------------- MODULE VirtueLifecycle ----------------------------
(***************************************************************************)
(* Launching, stopping, reloading and destroying virtues.                  *)
(*                                                                         *)
(* A virtue's state is kept in three places that no transaction spans: its *)
(* LDAP entry (state and ipAddress), its row in RethinkDB's galahad table, *)
(* and the Xen domain (domU) that the Gaius service of a valor creates and *)
(* destroys when RethinkDB's changefeed tells it of a row.  The requests   *)
(* of excalibur/website/apiendpoint.py read LDAP once, work for minutes on *)
(* that copy, and write the copy back; Flask serves them concurrently.     *)
(*                                                                         *)
(* Valors are only added to the fleet here: stopping and destroying them,  *)
(* and migrating virtues between them, are left out of this module.        *)
(***************************************************************************)
EXTENDS Naturals, Sequences, FiniteSets

CONSTANTS
    Request,       \* threads of the API server that can serve a request
    Virtue,        \* virtue identifiers
    Valor,         \* EC2 instances that are, or may become, valors
    FirstValors,   \* the valors that are running at the start
    LastGuestnet,  \* the addresses left to virtues are 1 .. LastGuestnet
    MaxVirtuesPerValor, \* MAX_VIRTUES_PER_VALOR
    MaxAttempts,   \* max_attempts of virtue_launch
    None,
    \* Bounds of the model, not of the code:
    MaxRows,       \* rows inserted in a behaviour
    MaxFeedLosses, \* changefeeds lost in a behaviour
    MaxAborts      \* requests that die half way in a behaviour

ASSUME LifecycleAssumption ==
    /\ IsFiniteSet(Request)
    /\ FirstValors \subseteq Valor
    /\ LastGuestnet \in Nat /\ MaxRows \in Nat
    /\ MaxFeedLosses \in Nat /\ MaxAborts \in Nat
    /\ MaxVirtuesPerValor \in Nat \ {0} /\ MaxAttempts \in Nat \ {0}
    /\ None \notin Virtue \cup Valor \cup Nat

VARIABLES
    ldap,    \* Virtue -> the fields of its LDAP entry
    rows,    \* the virtue rows of the galahad table
    nextId,  \* the primary key of the next row
    feed,    \* Valor -> changes of its virtues Gaius has not handled yet
    gaius,   \* Valor -> whether the thread that reads the feed is alive
    domU,    \* Valor -> Virtue -> the address its domain was booted with
    image,   \* the virtues whose image file exists
    fleet,   \* the valors in state RUNNING
    req,     \* Request -> the local variables of its handler
    stray,   \* history: the valors and virtues whose xl destroy failed
    calm,    \* history: the virtues whose requests have not overlapped
    aborts, losses  \* two counters that only bound the model

vars == <<ldap, rows, nextId, feed, gaius, domU, image, fleet, req, stray, calm, aborts, losses>>

Guestnet == 1 .. LastGuestnet

\* The fields of an LDAP entry these handlers look at.  "ABSENT" stands for
\* an entry that was deleted; None for the address 'NULL'.
Entry == [state : {"STOPPED", "LAUNCHING", "RUNNING", "ABSENT"},
          ipAddress : Guestnet \cup {None}]

Row == [id : 1 .. MaxRows, virtue : Virtue, valor : Valor, guestnet : Guestnet]

\* What the galahad changefeed delivers: new_val or old_val of one row.
Change == [type : {"add", "remove"}, row : Row]

\* A handler: where it is, the virtue dict it read from LDAP and modifies, the
\* valor it chose, the row remove_virtue matched, the connection attempts.
Handler == [pc : {"idle", "pick", "check", "insert", "mark", "probe", "match",
                  "delete", "write", "lookup", "unlink", "unregister"},
            virtue : Virtue \cup {None}, entry : Entry \cup {None},
            valor : Valor \cup {None}, row : Row \cup {None},
            attempts : 0 .. MaxAttempts - 1]

\* A handler that has read an entry and not chosen anything yet.
Fresh(pc, v, e) == [pc |-> pc, virtue |-> v, entry |-> e, valor |-> None,
                    row |-> None, attempts |-> 0]

Idle == Fresh("idle", None, None)

Init ==
    /\ ldap = [v \in Virtue |-> [state |-> "STOPPED", ipAddress |-> None]]
    /\ rows = {}
    /\ nextId = 1
    /\ feed = [a \in Valor |-> << >>]
    /\ gaius = [a \in Valor |-> "listening"]
    /\ domU = [a \in Valor |-> [v \in Virtue |-> None]]
    /\ image = Virtue
    /\ fleet = FirstValors
    /\ req = [q \in Request |-> Idle]
    /\ stray = {}
    /\ calm = Virtue
    /\ aborts = 0
    /\ losses = 0

bounds == <<aborts, losses>>
table == <<rows, nextId, feed>>
hosts == <<gaius, domU, stray>>

RowsOf(v) == {r \in rows : r.virtue = v}
RowsAt(a) == {r \in rows : r.valor = a}
Busy(v) == \E q \in Request : req[q].virtue = v

\* Mutant of Available: the comparison is off by one.
AvailableUpToMax == {a \in fleet : Cardinality(RowsAt(a)) <= MaxVirtuesPerValor}

\* get_available_valors: RUNNING and fewer virtue rows than the maximum.
Available == {a \in fleet : Cardinality(RowsAt(a)) < MaxVirtuesPerValor}

\* The galahad changefeed tells the valor named in the row, if its Gaius
\* still listens; what is published while it does not is never delivered.
Publish(type, r) ==
    feed' = IF gaius[r.valor] = "deaf" THEN feed
            ELSE [feed EXCEPT ![r.valor] = Append(@, [type |-> type, row |-> r])]

\* LDAP.modify_obj replaces the attributes of an existing entry; on a missing
\* one it returns EINVAL, which the handlers ignore.
Modify(v, e) ==
    ldap' = IF ldap[v].state = "ABSENT" THEN ldap ELSE [ldap EXCEPT ![v] = e]

At(q, pc) == req[q].pc = pc
Goto(q, pc) == req' = [req EXCEPT ![q].pc = pc]
End(q) == req' = [req EXCEPT ![q] = Idle]

\* A request that passed its checks starts working on the entry it read.
Begin(q, v, pc, e) ==
    /\ At(q, "idle")
    /\ req' = [req EXCEPT ![q] = Fresh(pc, v, e)]

Overlap(v) == calm' = IF Busy(v) THEN calm \ {v} ELSE calm

(***************************************************************************)
(* virtue_launch                                                           *)
(***************************************************************************)

\* Read the entry; a virtue that is LAUNCHING or RUNNING is refused.
Launch(q, v) ==
    /\ ldap[v].state = "STOPPED"
    /\ Begin(q, v, "pick", ldap[v])
    /\ Overlap(v)
    /\ UNCHANGED <<ldap, table, hosts, image, fleet, bounds>>

\* get_empty_valor takes any available valor.
PickValor(q, a) ==
    /\ At(q, "pick")
    /\ a \in Available
    /\ req' = [req EXCEPT ![q].pc = "check", ![q].valor = a]
    /\ UNCHANGED <<ldap, table, hosts, image, fleet, calm, bounds>>

\* With none available it creates and launches one, and uses that.
CreateValor(q, a) ==
    /\ At(q, "pick")
    /\ Available = {}
    /\ a \notin fleet
    /\ fleet' = fleet \cup {a}
    /\ req' = [req EXCEPT ![q].pc = "check", ![q].valor = a]
    /\ UNCHANGED <<ldap, table, hosts, image, calm, bounds>>

\* EC2 refuses the instance: the exception ends the request.
CreateValorFails(q) ==
    /\ At(q, "pick")
    /\ Available = {}
    /\ End(q)
    /\ UNCHANGED <<ldap, table, hosts, image, fleet, calm, bounds>>

\* add_virtue asserts, without the lock, that the virtue has no row; the
\* AssertionError is answered as "already launched".
CheckNoRow(q) ==
    /\ At(q, "check")
    /\ IF RowsOf(req[q].virtue) = {} THEN Goto(q, "insert") ELSE End(q)
    /\ UNCHANGED <<ldap, table, hosts, image, fleet, calm, bounds>>

\* Mutant of Free: only the rows of virtues that LDAP calls RUNNING count.
FreeOfRunning(g) == \A r \in rows : r.guestnet = g => ldap[r.virtue].state # "RUNNING"

\* An address is free when no row has it.
Free(g) == \A r \in rows : r.guestnet # g

\* Scan and insertion are one step: the lock makes them so (GuestnetPool).
InsertRow(q, g) ==
    LET r == [id |-> nextId, virtue |-> req[q].virtue, valor |-> req[q].valor, guestnet |-> g]
    IN  /\ At(q, "insert")
        /\ nextId <= MaxRows
        /\ Free(g) /\ \A h \in Guestnet : h < g => ~ Free(h)
        /\ rows' = rows \cup {r}
        /\ nextId' = nextId + 1
        /\ Publish("add", r)
        /\ req' = [req EXCEPT ![q].pc = "mark",
                              ![q].entry = [state |-> "LAUNCHING", ipAddress |-> g]]
        /\ UNCHANGED <<ldap, hosts, image, fleet, calm, bounds>>

\* get_free_guestnet's assertion fails, also answered "already launched".  The
\* same answer stands in for a row beyond the model's bound.
NoGuestnet(q) ==
    /\ At(q, "insert")
    /\ nextId > MaxRows \/ \A g \in Guestnet : ~ Free(g)
    /\ End(q)
    /\ UNCHANGED <<ldap, table, hosts, image, fleet, calm, bounds>>

\* The first write of the entry: LAUNCHING, with the new address.
MarkLaunching(q) ==
    /\ At(q, "mark")
    /\ Modify(req[q].virtue, req[q].entry)
    /\ Goto(q, "probe")
    /\ UNCHANGED <<table, hosts, image, fleet, calm, bounds>>

\* ssh to the address works if some domain, whichever, has it.
ProbeSucceeds(q) ==
    /\ At(q, "probe")
    /\ \E a \in Valor, w \in Virtue : domU[a][w] = req[q].entry.ipAddress
    /\ req' = [req EXCEPT ![q].pc = "write", ![q].entry.state = "RUNNING"]
    /\ UNCHANGED <<ldap, table, hosts, image, fleet, calm, bounds>>

\* Mutant of ProbeFails: one attempt too many.
ProbeFailsOnceMore(q) ==
    /\ At(q, "probe")
    /\ req' = IF req[q].attempts + 1 <= MaxAttempts
              THEN [req EXCEPT ![q].attempts = @ + 1]
              ELSE [req EXCEPT ![q].pc = "match", ![q].entry.state = "STOPPED"]
    /\ UNCHANGED <<ldap, table, hosts, image, fleet, calm, bounds>>

\* Mutant of ProbeFails: the rollback of the row is forgotten.
ProbeFailsKeepsRow(q) ==
    /\ At(q, "probe")
    /\ req' = IF req[q].attempts + 1 < MaxAttempts
              THEN [req EXCEPT ![q].attempts = @ + 1]
              ELSE [req EXCEPT ![q].pc = "write", ![q].entry.state = "STOPPED"]
    /\ UNCHANGED <<ldap, table, hosts, image, fleet, calm, bounds>>

\* Mutant of ProbeFails: it tries for ever.
ProbeFailsForever(q) ==
    /\ At(q, "probe")
    /\ UNCHANGED vars

\* An attempt may fail whatever the domain does: it boots, or the set-up of a
\* resource raises.  After the last one the row is rolled back.
ProbeFails(q) ==
    /\ At(q, "probe")
    /\ req' = IF req[q].attempts + 1 < MaxAttempts
              THEN [req EXCEPT ![q].attempts = @ + 1]
              ELSE [req EXCEPT ![q].pc = "match", ![q].entry.state = "STOPPED"]
    /\ UNCHANGED <<ldap, table, hosts, image, fleet, calm, bounds>>

(***************************************************************************)
(* virtue_stop, and remove_virtue, which virtue_launch's rollback shares   *)
(***************************************************************************)

\* Read the entry.  The address stays in it: only the state is changed.
Stop(q, v) ==
    /\ ldap[v].state = "RUNNING"
    /\ Begin(q, v, "match", [ldap[v] EXCEPT !.state = "STOPPED"])
    /\ Overlap(v)
    /\ UNCHANGED <<ldap, table, hosts, image, fleet, bounds>>

\* remove_virtue asserts that exactly one row matches; if not, the handler
\* ends and leaves the LDAP entry as it is.
MatchRow(q) ==
    /\ At(q, "match")
    /\ \/ \E r \in RowsOf(req[q].virtue) :
             /\ RowsOf(req[q].virtue) = {r}
             /\ req' = [req EXCEPT ![q].pc = "delete", ![q].row = r]
       \/ /\ Cardinality(RowsOf(req[q].virtue)) # 1
          /\ End(q)
    /\ UNCHANGED <<ldap, table, hosts, image, fleet, calm, bounds>>

\* Delete by the whole contents of the row, primary key included.
DeleteRow(q) ==
    /\ At(q, "delete")
    /\ rows' = rows \ {req[q].row}
    /\ IF req[q].row \in rows THEN Publish("remove", req[q].row) ELSE UNCHANGED feed
    /\ Goto(q, "write")
    /\ UNCHANGED <<ldap, nextId, hosts, image, fleet, calm, bounds>>

\* The last write of launch, stop and reload: the whole local copy.
WriteEntry(q) ==
    /\ At(q, "write")
    /\ Modify(req[q].virtue, req[q].entry)
    /\ End(q)
    /\ UNCHANGED <<table, hosts, image, fleet, calm, bounds>>

(***************************************************************************)
(* virtue_reload_state                                                     *)
(***************************************************************************)

\* An undisturbed reload is what brings a virtue back to calm.
Reload(q, v) ==
    /\ ldap[v].state # "ABSENT"
    /\ Begin(q, v, "lookup", ldap[v])
    /\ calm' = IF Busy(v) THEN calm \ {v} ELSE calm \cup {v}
    /\ UNCHANGED <<ldap, table, hosts, image, fleet, bounds>>

\* STOPPED without a row, RUNNING at the address of its first row with one.
Actual(v) ==
    IF RowsOf(v) = {} THEN {[state |-> "STOPPED", ipAddress |-> None]}
    ELSE {[state |-> "RUNNING", ipAddress |-> r.guestnet] : r \in RowsOf(v)}

\* Nothing is written when that is what was read.
LookupRow(q) ==
    /\ At(q, "lookup")
    /\ \E e \in Actual(req[q].virtue) :
          IF e = req[q].entry THEN End(q)
          ELSE req' = [req EXCEPT ![q].pc = "write", ![q].entry = e]
    /\ UNCHANGED <<ldap, table, hosts, image, fleet, calm, bounds>>

(***************************************************************************)
(* virtue_destroy                                                          *)
(***************************************************************************)

Destroy(q, v) ==
    /\ ldap[v].state = "STOPPED"
    /\ Begin(q, v, "unlink", ldap[v])
    /\ Overlap(v)
    /\ UNCHANGED <<ldap, table, hosts, image, fleet, bounds>>

\* rm fails if the image is gone, and the entry stays.
UnlinkImage(q) ==
    /\ At(q, "unlink")
    /\ IF req[q].virtue \in image THEN Goto(q, "unregister") ELSE End(q)
    /\ image' = image \ {req[q].virtue}
    /\ UNCHANGED <<ldap, table, hosts, fleet, calm, bounds>>

\* destroy_virtue, called next, is to delete the virtue's commands and acks, which
\* are no part of this module; its filter is a set where a document belongs, so
\* that it raises and leaves them, and the request ends with an error instead.
DeleteEntry(q) ==
    /\ At(q, "unregister")
    /\ ldap' = [ldap EXCEPT ![req[q].virtue] = [state |-> "ABSENT", ipAddress |-> None]]
    /\ End(q)
    /\ UNCHANGED <<table, hosts, image, fleet, calm, bounds>>

\* An LDAP, RethinkDB or ssh call raises, or the server is restarted: what
\* was done so far stays done.
Abort(q) ==
    /\ ~ At(q, "idle")
    /\ aborts < MaxAborts
    /\ aborts' = aborts + 1
    /\ calm' = calm \ {req[q].virtue}
    /\ End(q)
    /\ UNCHANGED <<ldap, table, hosts, image, fleet, losses>>

(***************************************************************************)
(* Gaius: Changes.valor, add and remove, and the domU commands they run    *)
(***************************************************************************)

\* The change the loop over the cursor is at.
Change1(a) == Head(feed[a])

\* xl create refuses a name that is in use on the host and needs the image;
\* its failure is logged and forgotten.
GaiusAdd(a) ==
    /\ feed[a] # << >> /\ Change1(a).type = "add"
    /\ LET r == Change1(a).row
       IN  \/ /\ domU[a][r.virtue] = None /\ r.virtue \in image
              /\ domU' = [domU EXCEPT ![a][r.virtue] = r.guestnet]
           \/ UNCHANGED domU
    /\ feed' = [feed EXCEPT ![a] = Tail(@)]
    /\ UNCHANGED <<ldap, rows, nextId, gaius, stray, image, fleet, req, calm, bounds>>

\* xl destroy goes by the virtue's name, whichever row it was booted for.
DestroyDomU(a, v) ==
    /\ domU' = [domU EXCEPT ![a][v] = None]
    /\ stray' = stray \ {<<a, v>>}

\* It may fail: that is caught, logged and forgotten, and no one tries again.
DestroyFails(a, v) ==
    /\ domU[a][v] # None
    /\ stray' = stray \cup {<<a, v>>}
    /\ UNCHANGED domU

\* Mutant of GaiusRemove: without a .cfg file xl destroy is not reached, which
\* is what the handler's two separate try statements are there for.
GaiusRemoveNeedsCfg(a) ==
    /\ feed[a] # << >> /\ Change1(a).type = "remove"
    /\ LET v == Change1(a).row.virtue
       IN  DestroyDomU(a, v) \/ DestroyFails(a, v) \/ UNCHANGED <<domU, stray>>
    /\ feed' = [feed EXCEPT ![a] = Tail(@)]
    /\ UNCHANGED <<ldap, rows, nextId, gaius, image, fleet, req, calm, bounds>>

GaiusRemove(a) ==
    /\ feed[a] # << >> /\ Change1(a).type = "remove"
    /\ LET v == Change1(a).row.virtue IN DestroyDomU(a, v) \/ DestroyFails(a, v)
    /\ feed' = [feed EXCEPT ![a] = Tail(@)]
    /\ UNCHANGED <<ldap, rows, nextId, gaius, image, fleet, req, calm, bounds>>

\* The feed's connection drops: the loop over the cursor raises and its thread
\* ends, while the main thread goes on sleeping.
FeedLost(a) ==
    /\ gaius[a] # "deaf"
    /\ losses < MaxFeedLosses
    /\ losses' = losses + 1
    /\ gaius' = [gaius EXCEPT ![a] = "deaf"]
    /\ feed' = [feed EXCEPT ![a] = << >>]
    /\ UNCHANGED <<ldap, rows, nextId, domU, stray, image, fleet, req, calm, aborts>>

\* The service is restarted: the new feed starts with the next change.
GaiusRestart(a) ==
    /\ gaius[a] = "deaf"
    /\ gaius' = [gaius EXCEPT ![a] = "resumed"]
    /\ UNCHANGED <<ldap, table, domU, stray, image, fleet, req, calm, bounds>>

\* A standby valor started by create_standby_valors gets to RUNNING.
FleetGrows(a) ==
    /\ a \notin fleet
    /\ fleet' = fleet \cup {a}
    /\ UNCHANGED <<ldap, table, hosts, image, req, calm, bounds>>

Step(q) ==
    \/ \E a \in Valor : PickValor(q, a) \/ CreateValor(q, a)
    \/ CreateValorFails(q)
    \/ CheckNoRow(q)
    \/ \E g \in Guestnet : InsertRow(q, g)
    \/ NoGuestnet(q)
    \/ MarkLaunching(q) \/ ProbeSucceeds(q) \/ ProbeFails(q)
    \/ MatchRow(q) \/ DeleteRow(q) \/ WriteEntry(q) \/ LookupRow(q)
    \/ UnlinkImage(q) \/ DeleteEntry(q)

Gaius(a) == GaiusAdd(a) \/ GaiusRemove(a)

Next ==
    \/ \E q \in Request :
          \/ \E v \in Virtue : Launch(q, v) \/ Stop(q, v) \/ Reload(q, v) \/ Destroy(q, v)
          \/ Step(q)
          \/ Abort(q)
    \/ \E a \in Valor : Gaius(a) \/ FeedLost(a) \/ GaiusRestart(a) \/ FleetGrows(a)

\* Started handlers keep running and Gaius keeps reading its feed; nothing
\* obliges a user to send a request, a failure to happen or a valor to join.
Fairness ==
    /\ \A q \in Request : WF_vars(Step(q))
    /\ \A a \in Valor : WF_vars(Gaius(a))

Spec == Init /\ [][Next]_vars
FairSpec == Spec /\ Fairness

(***************************************************************************)
(* Properties                                                              *)
(***************************************************************************)

\* Type invariant.
TypeOK ==
    /\ ldap \in [Virtue -> Entry]
    /\ rows \subseteq Row
    /\ nextId \in 1 .. MaxRows + 1
    /\ feed \in [Valor -> Seq(Change)]
    /\ gaius \in [Valor -> {"listening", "deaf", "resumed"}]
    /\ domU \in [Valor -> [Virtue -> Guestnet \cup {None}]]
    /\ image \subseteq Virtue
    /\ fleet \subseteq Valor
    /\ req \in [Request -> Handler]
    /\ stray \subseteq Valor \X Virtue
    /\ calm \subseteq Virtue
    /\ aborts \in 0 .. MaxAborts
    /\ losses \in 0 .. MaxFeedLosses

RemovePending(a, v) ==
    \E i \in DOMAIN feed[a] : feed[a][i].type = "remove" /\ feed[a][i].row.virtue = v

\* A domain is forgotten only if its own xl destroy failed: one that runs on a
\* valor has its row in the galahad table, the removal that will destroy it is
\* still on its way, or the attempt to destroy it is what failed
\* (rethink_client.py 46-66 and virtue_client.py 67-80 against valor.py 718-797).
DomUAccounted ==
    \A a \in Valor, v \in Virtue :
        gaius[a] = "listening" /\ domU[a][v] # None =>
            \/ \E r \in RowsOf(v) : r.valor = a /\ r.guestnet = domU[a][v]
            \/ RemovePending(a, v)
            \/ <<a, v>> \in stray

\* Two domains share an address only while one of them is about to be
\* destroyed, or because destroying it failed: the address is free as soon as
\* the row is gone, whatever becomes of the domain (valor.py 704-716, 787-797,
\* rethink_client.py 62-66, virtue_client.py 73-80).
AddressesDistinct ==
    \A a, b \in Valor, v, w \in Virtue :
        /\ gaius[a] = "listening" /\ gaius[b] = "listening"
        /\ <<a, v>> # <<b, w>>
        /\ domU[a][v] # None /\ domU[a][v] = domU[b][w]
        => \/ RemovePending(a, v) \/ RemovePending(b, w)
           \/ <<a, v>> \in stray \/ <<b, w>> \in stray

\* As long as a virtue's requests neither overlap nor die half way, LDAP and
\* RethinkDB agree whenever none is in progress: it is RUNNING, at the row's
\* address, if it has a row, and STOPPED or deleted if it has none.  One
\* undisturbed reload restores that (apiendpoint.py 178-385).
StoresAgree ==
    \A v \in calm : ~ Busy(v) =>
        \/ RowsOf(v) = {} /\ ldap[v].state \in {"STOPPED", "ABSENT"}
        \/ /\ ldap[v].state = "RUNNING"
           /\ \E r \in RowsOf(v) : r.guestnet = ldap[v].ipAddress

Headed(a) == {q \in Request : req[q].valor = a /\ req[q].pc \in {"check", "insert"}}

\* Placing virtues is check-then-act, so a valor can exceed its maximum, but
\* by no more than the other handlers that are placing one at the same time
\* (valor.py 236-249, 289-318; apiendpoint.py 230-240).
OvershootBounded ==
    \A a \in Valor :
        Cardinality(RowsAt(a)) + Cardinality(Headed(a))
            <= (MaxVirtuesPerValor - 1) + Cardinality(Request)

\* The comment on MAX_VIRTUES_PER_VALOR (valor.py 19): no valor hosts more.
ValorCapacity == \A a \in Valor : Cardinality(RowsAt(a)) <= MaxVirtuesPerValor

\* What test_virtue_stop expects (test_user_api.py 369-371): a domain without
\* a row is on its way out, on every valor, whatever happened to its Gaius and
\* to the commands it ran.
NoStrayDomU ==
    \A a \in Valor, v \in Virtue :
        domU[a][v] # None => (\E r \in RowsOf(v) : r.valor = a) \/ RemovePending(a, v)

\* "wait until sshable" (apiendpoint.py 250): the domain that answers a
\* launch's probe is the virtue that is being launched.
ProbeReachesItsVirtue ==
    [][\A q \in Request :
          ProbeSucceeds(q) => \E a \in Valor : domU[a][req[q].virtue] = req[q].entry.ipAddress]_vars

\* Every request is answered: launch gives up after its last attempt and no
\* handler waits for another (apiendpoint.py 212-385).
RequestsAnswered == \A q \in Request : ~ At(q, "idle") ~> At(q, "idle")

\* Once a virtue has no row, its domain on a valor is destroyed or xl destroy
\* has failed, unless the virtue is placed again or the valor's Gaius lost its
\* feed (rethink_client.py 46-66, virtue_client.py 67-80).
StoppedDomUDestroyed ==
    \A a \in Valor, v \in Virtue :
        (domU[a][v] # None /\ RowsOf(v) = {})
            ~> \/ domU[a][v] = None \/ RowsOf(v) # {}
               \/ <<a, v>> \in stray \/ gaius[a] # "listening"
=============================================================================
