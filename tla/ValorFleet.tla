------------------------------- MODULE ValorFleet -------------------------------
(***************************************************************************)
(* The fleet of valors: ValorManager of excalibur/website/valor.py.        *)
(*                                                                         *)
(* A valor is an EC2 instance that hosts virtues.  Its row in RethinkDB's  *)
(* galahad table says CREATING, STOPPED or RUNNING; the instance has a     *)
(* state of its own that only EC2 knows.  Threads create, launch, stop and *)
(* destroy valors and place virtues on them without any lock: each reads   *)
(* the table, calls EC2, waits, and writes the table.                      *)
(*                                                                         *)
(* EC2's passing states (pending, stopping, shutting-down) are not told    *)
(* apart from the state they lead to.                                      *)
(***************************************************************************)
EXTENDS Naturals, FiniteSets

CONSTANTS
    Thread,    \* request handlers and standby-valor threads
    Virtue,    \* virtues, and roles under assembly, that are placed
    Valor,     \* EC2 instance identifiers (bounds the valors ever created)
    MaxVirtuesPerValor, \* MAX_VIRTUES_PER_VALOR
    NumStandbyValors,   \* NUM_STANDBY_VALORS
    MaxFailures,        \* bound: calls to EC2 or ssh that fail
    MaxSpawned,         \* bound: standby threads waiting to run
    None

ASSUME FleetAssumption ==
    /\ IsFiniteSet(Thread) /\ IsFiniteSet(Valor)
    /\ MaxVirtuesPerValor \in Nat \ {0}
    /\ NumStandbyValors \in Nat
    /\ MaxFailures \in Nat /\ MaxSpawned \in Nat
    /\ None \notin Virtue \cup Valor

VARIABLES
    row,       \* Valor -> the state in its galahad row, or "none"
    instance,  \* Valor -> the state of the EC2 instance
    place,     \* Virtue -> the valor its galahad row names
    thr,       \* Thread -> the local state of the thread
    spawned,   \* standby-valor threads started and not yet running
    calm,      \* history: valors whose operations never overlapped nor failed
    missed,    \* history: valors whose row a remove_valor did not find again
    failures   \* bounds the model only

vars == <<row, instance, place, thr, spawned, calm, missed, failures>>

States == {"none", "CREATING", "STOPPED", "RUNNING"}

\* "after" is what a thread does when its valor is launched or created, and
\* "seen" the state in the row that its remove_valor has read.
Local == [pc : {"idle", "register", "setup", "await", "markStopped", "start", "reach",
                "markRunning", "halt", "markHalted", "spawn", "terminate", "removeRow",
                "deleteRow", "verify", "insert"},
          valor : Valor \cup {None},
          virtue : Virtue \cup {None},
          after : {"end", "launch", "verify", "place"},
          seen : States]

Idle == [pc |-> "idle", valor |-> None, virtue |-> None, after |-> "end", seen |-> "none"]

Init ==
    /\ row = [a \in Valor |-> "none"]
    /\ instance = [a \in Valor |-> "none"]
    /\ place = [v \in Virtue |-> None]
    /\ thr = [t \in Thread |-> Idle]
    /\ spawned = 0
    /\ calm = Valor
    /\ missed = {}
    /\ failures = 0

Hosted(a) == {v \in Virtue : place[v] = a}

\* Mutant of Available: the state of the row is not asked.
AvailableInAnyState ==
    {a \in Valor : row[a] # "none" /\ Cardinality(Hosted(a)) < MaxVirtuesPerValor}

\* get_available_valors: RUNNING with room for another virtue.
Available ==
    {a \in Valor : row[a] = "RUNNING" /\ Cardinality(Hosted(a)) < MaxVirtuesPerValor}

\* get_empty_valors: any state, no virtue.
Empty == {a \in Valor : row[a] # "none" /\ Hosted(a) = {}}

At(t, pc) == thr[t].pc = pc
Goto(t, pc) == thr' = [thr EXCEPT ![t].pc = pc]
End(t) == thr' = [thr EXCEPT ![t] = Idle]

\* A thread is operating on a valor, as opposed to placing a virtue on it.
Operates(t, a) ==
    thr[t].valor = a /\ ~ (thr[t].virtue # None /\ thr[t].pc \in {"verify", "spawn", "insert"})

Touch(t, a) ==
    calm' = IF \E u \in Thread \ {t} : Operates(u, a) THEN calm \ {a} ELSE calm

\* Mutant of SetRow: set_valor inserts the row when there is none.
UpsertRow(a, state) == row' = [row EXCEPT ![a] = state]

\* set_valor updates the rows that match: none if the valor was destroyed.
SetRow(a, state) == row' = IF row[a] = "none" THEN row ELSE [row EXCEPT ![a] = state]

(***************************************************************************)
(* create_valor, setup_valor                                               *)
(***************************************************************************)

\* instance_create returns a running instance with a fresh identifier.
CreateInstance(t, a, local) ==
    /\ instance[a] = "none"
    /\ instance' = [instance EXCEPT ![a] = "running"]
    /\ thr' = [thr EXCEPT ![t] = [local EXCEPT !.pc = "register", !.valor = a]]
    /\ UNCHANGED <<row, place, calm, missed, failures>>

\* valor_create of the API.
Create(t, a) ==
    /\ At(t, "idle")
    /\ CreateInstance(t, a, Idle)
    /\ UNCHANGED spawned

\* A standby thread runs create_and_launch_valor.
StandbyThread(t, a) ==
    /\ At(t, "idle")
    /\ spawned > 0
    /\ spawned' = spawned - 1
    /\ CreateInstance(t, a, [Idle EXCEPT !.after = "launch"])

\* add_valor inserts the row.
Register(t) ==
    /\ At(t, "register")
    /\ row' = [row EXCEPT ![thr[t].valor] = "CREATING"]
    /\ Goto(t, "setup")
    /\ UNCHANGED <<instance, place, spawned, calm, missed, failures>>

\* valor.setup waits on the instance until cloud-init has finished, for as long
\* as that takes, and ends with a shutdown; ssh raises if the instance is not
\* there, and then the row stays CREATING.
Setup(t) ==
    LET a == thr[t].valor
    IN  /\ At(t, "setup")
        /\ IF instance[a] = "running"
           THEN /\ instance' = [instance EXCEPT ![a] = "stopped"]
                /\ Goto(t, "await")
           ELSE UNCHANGED instance /\ End(t)
        /\ UNCHANGED <<row, place, spawned, calm, missed, failures>>

\* wait_until_stopped raises on an instance that is terminated, and times out
\* on one that somebody started again.
AwaitStopped(t) ==
    /\ At(t, "await")
    /\ IF instance[thr[t].valor] = "stopped" THEN Goto(t, "markStopped") ELSE End(t)
    /\ UNCHANGED <<row, instance, place, spawned, calm, missed, failures>>

\* Mutant of MarkStopped: the valor is recorded as if setup left it running.
MarkStoppedAsRunning(t) ==
    /\ At(t, "markStopped")
    /\ SetRow(thr[t].valor, "RUNNING")
    /\ IF thr[t].after = "end" THEN End(t) ELSE Goto(t, "start")
    /\ UNCHANGED <<instance, place, spawned, calm, missed, failures>>

MarkStopped(t) ==
    /\ At(t, "markStopped")
    /\ SetRow(thr[t].valor, "STOPPED")
    /\ IF thr[t].after = "end" THEN End(t) ELSE Goto(t, "start")
    /\ UNCHANGED <<instance, place, spawned, calm, missed, failures>>

(***************************************************************************)
(* launch_valor                                                            *)
(***************************************************************************)

\* valor_launch of the API: any identifier of an instance may be given.
Launch(t, a) ==
    /\ At(t, "idle")
    /\ row[a] # "none"
    /\ thr' = [thr EXCEPT ![t] = [Idle EXCEPT !.pc = "start", !.valor = a]]
    /\ Touch(t, a)
    /\ UNCHANGED <<row, instance, place, spawned, missed, failures>>

\* start does nothing to a running instance and raises on a terminated one.
Start(t) ==
    LET a == thr[t].valor
    IN  /\ At(t, "start")
        /\ IF instance[a] = "terminated"
           THEN UNCHANGED instance /\ End(t)
           ELSE instance' = [instance EXCEPT ![a] = "running"] /\ Goto(t, "reach")
        /\ UNCHANGED <<row, place, spawned, calm, missed, failures>>

\* connect_with_ssh raises when the instance went down meanwhile.
Reach(t) ==
    /\ At(t, "reach")
    /\ IF instance[thr[t].valor] = "running" THEN Goto(t, "markRunning") ELSE End(t)
    /\ UNCHANGED <<row, instance, place, spawned, calm, missed, failures>>

\* After set_valor the row is read again for its address: a TypeError if the
\* valor was destroyed.  A launch that serves a placement goes on with it, after
\* one more look at the state if the valor is a new one.
MarkRunning(t) ==
    LET a == thr[t].valor
    IN  /\ At(t, "markRunning")
        /\ SetRow(a, "RUNNING")
        /\ IF thr[t].virtue = None \/ row[a] = "none" THEN End(t)
           ELSE IF thr[t].after = "place" THEN Goto(t, "spawn")
           ELSE thr' = [thr EXCEPT ![t].pc = "verify", ![t].after = "place"]
        /\ UNCHANGED <<instance, place, spawned, calm, missed, failures>>

(***************************************************************************)
(* stop_valor and destroy_valor                                            *)
(***************************************************************************)

\* The valor must have no virtue; nothing keeps it so.
Stop(t, a) ==
    /\ At(t, "idle")
    /\ a \in Empty
    /\ thr' = [thr EXCEPT ![t] = [Idle EXCEPT !.pc = "halt", !.valor = a]]
    /\ Touch(t, a)
    /\ UNCHANGED <<row, instance, place, spawned, missed, failures>>

Halt(t) ==
    LET a == thr[t].valor
    IN  /\ At(t, "halt")
        /\ IF instance[a] = "terminated"
           THEN UNCHANGED instance /\ End(t)
           ELSE instance' = [instance EXCEPT ![a] = "stopped"] /\ Goto(t, "markHalted")
        /\ UNCHANGED <<row, place, spawned, calm, missed, failures>>

\* Mutant of MarkHalted: only a RUNNING valor is recorded as stopped.
MarkHaltedIfRunning(t) ==
    /\ At(t, "markHalted")
    /\ IF row[thr[t].valor] = "RUNNING" THEN SetRow(thr[t].valor, "STOPPED") ELSE UNCHANGED row
    /\ End(t)
    /\ UNCHANGED <<instance, place, spawned, calm, missed, failures>>

MarkHalted(t) ==
    /\ At(t, "markHalted")
    /\ SetRow(thr[t].valor, "STOPPED")
    /\ End(t)
    /\ UNCHANGED <<instance, place, spawned, calm, missed, failures>>

Destroy(t, a) ==
    /\ At(t, "idle")
    /\ a \in Empty
    /\ thr' = [thr EXCEPT ![t] = [Idle EXCEPT !.pc = "spawn", !.valor = a]]
    /\ Touch(t, a)
    /\ UNCHANGED <<row, instance, place, spawned, missed, failures>>

Terminate(t) ==
    /\ At(t, "terminate")
    /\ instance' = [instance EXCEPT ![thr[t].valor] = "terminated"]
    /\ Goto(t, "removeRow")
    /\ UNCHANGED <<row, place, spawned, calm, missed, failures>>

\* remove_valor reads the row; an IndexError if another destroy removed it.
MatchRow(t) ==
    LET a == thr[t].valor
    IN  /\ At(t, "removeRow")
        /\ IF row[a] = "none" THEN End(t)
           ELSE thr' = [thr EXCEPT ![t].pc = "deleteRow", ![t].seen = row[a]]
        /\ UNCHANGED <<row, instance, place, spawned, calm, missed, failures>>

\* It then deletes by the whole contents of what it read: once the state has
\* changed that matches nothing, and nobody notices.
DeleteRow(t) ==
    LET a == thr[t].valor
    IN  /\ At(t, "deleteRow")
        /\ IF row[a] = thr[t].seen
           THEN row' = [row EXCEPT ![a] = "none"] /\ UNCHANGED missed
           ELSE missed' = missed \cup {a} /\ UNCHANGED row
        /\ End(t)
        /\ UNCHANGED <<instance, place, spawned, calm, failures>>

(***************************************************************************)
(* create_standby_valors, get_empty_valor, add_virtue                      *)
(***************************************************************************)

\* How many standby threads are missing.  Valors under creation do not count.
Missing ==
    IF Cardinality(Available) <= NumStandbyValors
    THEN NumStandbyValors - Cardinality(Available) ELSE 0

\* Called by destroy_valor before it terminates the instance, and by
\* add_virtue before it inserts the row.  Threads beyond the model's bound
\* stand for those whose first call to EC2 fails.
CreateStandbyValors(t) ==
    /\ At(t, "spawn")
    /\ spawned' = IF spawned + Missing <= MaxSpawned THEN spawned + Missing ELSE MaxSpawned
    /\ Goto(t, IF thr[t].virtue = None THEN "terminate" ELSE "insert")
    /\ UNCHANGED <<row, instance, place, calm, missed, failures>>

Placing(v) == [Idle EXCEPT !.virtue = v, !.after = "place"]

\* get_empty_valor picks any available valor ...
Pick(t, v, a) ==
    /\ At(t, "idle")
    /\ place[v] = None /\ \A u \in Thread : thr[u].virtue # v
    /\ a \in Available
    /\ thr' = [thr EXCEPT ![t] = [Placing(v) EXCEPT !.pc = "verify", !.valor = a]]
    /\ UNCHANGED <<row, instance, place, spawned, calm, missed, failures>>

\* ... or creates one when there is none.
PickNew(t, v, a) ==
    /\ At(t, "idle")
    /\ place[v] = None /\ \A u \in Thread : thr[u].virtue # v
    /\ Available = {}
    /\ CreateInstance(t, a, [Placing(v) EXCEPT !.after = "verify"])
    /\ UNCHANGED spawned

\* verify_valor_running: a valor stopped since is launched again; one that was
\* destroyed since is a TypeError; for one that is CREATING it waits, without a
\* limit, since the exception of its time-out is made and never raised.
Verify(t) ==
    LET a == thr[t].valor
    IN  /\ At(t, "verify")
        /\ \/ row[a] = "RUNNING" /\ Goto(t, "spawn") /\ UNCHANGED calm
           \/ row[a] = "STOPPED" /\ Goto(t, "start") /\ Touch(t, a)
           \/ row[a] = "none" /\ End(t) /\ UNCHANGED calm
        /\ UNCHANGED <<row, instance, place, spawned, missed, failures>>

\* The virtue's row names the valor that was picked, whatever became of it.
InsertVirtue(t) ==
    /\ At(t, "insert")
    /\ place' = [place EXCEPT ![thr[t].virtue] = thr[t].valor]
    /\ End(t)
    /\ UNCHANGED <<row, instance, spawned, calm, missed, failures>>

\* remove_virtue, when the virtue is stopped or its launch is rolled back.
RemoveVirtue(v) ==
    /\ place[v] # None
    /\ place' = [place EXCEPT ![v] = None]
    /\ UNCHANGED <<row, instance, thr, spawned, calm, missed, failures>>

\* A call to EC2, ssh or RethinkDB raises: the thread ends where it is.
Fail(t) ==
    /\ ~ At(t, "idle")
    /\ failures < MaxFailures
    /\ failures' = failures + 1
    /\ calm' = calm \ {thr[t].valor}
    /\ End(t)
    /\ UNCHANGED <<row, instance, place, spawned, missed>>

\* The steps that end by themselves, each after a bounded number of attempts.
Proceed(t) ==
    \/ Register(t) \/ AwaitStopped(t) \/ MarkStopped(t)
    \/ Start(t) \/ Reach(t) \/ MarkRunning(t)
    \/ Halt(t) \/ MarkHalted(t) \/ Terminate(t) \/ MatchRow(t) \/ DeleteRow(t)
    \/ CreateStandbyValors(t) \/ Verify(t) \/ InsertVirtue(t)

Step(t) == Setup(t) \/ Proceed(t)

Next ==
    \/ \E t \in Thread :
          \/ Step(t)
          \/ Fail(t)
          \/ \E a \in Valor :
                \/ Create(t, a) \/ StandbyThread(t, a)
                \/ Launch(t, a) \/ Stop(t, a) \/ Destroy(t, a)
                \/ \E v \in Virtue : Pick(t, v, a) \/ PickNew(t, v, a)
    \/ \E v \in Virtue : RemoveVirtue(v)

\* Running threads keep running; nothing obliges cloud-init to finish, nor an
\* administrator to call.
Fairness == \A t \in Thread : WF_vars(Proceed(t))

Spec == Init /\ [][Next]_vars
FairSpec == Spec /\ Fairness

(***************************************************************************)
(* Properties                                                              *)
(***************************************************************************)

\* Type invariant.
TypeOK ==
    /\ row \in [Valor -> States]
    /\ instance \in [Valor -> {"none", "running", "stopped", "terminated"}]
    /\ place \in [Virtue -> Valor \cup {None}]
    /\ thr \in [Thread -> Local]
    /\ spawned \in 0 .. MaxSpawned
    /\ calm \subseteq Valor
    /\ missed \subseteq Valor
    /\ failures \in 0 .. MaxFailures

\* When the operations on a valor neither overlap nor fail, its row tells the
\* state of its instance whenever none is in progress (valor.py 336-435,
\* 483-557); placements may interleave with them in any way.
RowMatchesInstance ==
    \A a \in calm :
        (\A t \in Thread : ~ Operates(t, a)) =>
            CASE row[a] = "RUNNING" -> instance[a] = "running"
              [] row[a] = "STOPPED" -> instance[a] = "stopped"
              [] row[a] = "none" -> instance[a] \in {"none", "terminated"}
              [] OTHER -> FALSE

\* As long as no call fails, no valor is left CREATING by an overlap of
\* operations: some thread is still working on it (valor.py 381-404 against
\* 483-557, whose emptiness test does not look at the state).
CreatingIsAttended ==
    failures = 0 =>
        \A a \in Valor : row[a] = "CREATING" => \E t \in Thread : Operates(t, a)

Removes(t, a) == thr[t].valor = a /\ (At(t, "removeRow") \/ At(t, "deleteRow"))

\* As long as no call fails, a valor that was terminated is in the table only
\* until the thread that terminated it deletes its row, or because a set_valor
\* came between that thread's read of the row and its delete: no other order of
\* a launch, a stop, a creation and a destruction leaves or brings back the row
\* (valor.py 401-402, 412, 493, 531-557, 649-656, 694-702).
DestroyedIsRemoved ==
    failures = 0 =>
        \A a \in Valor :
            instance[a] = "terminated" /\ row[a] # "none" =>
                a \in missed \/ \E t \in Thread : Removes(t, a)

\* What test_valor_destroy asserts (test_valor.py 196-203): a destroyed valor is
\* not in the table.  The order DestroyedIsRemoved names refutes it.
DestroyedLeavesTable ==
    failures = 0 =>
        \A a \in Valor :
            instance[a] = "terminated" /\ (\A t \in Thread : ~ Operates(t, a)) => row[a] = "none"

\* A placement never waits for a valor under creation, whatever operations do
\* to the valor between its choice and the look at its state: the wait without
\* a limit is never entered (valor.py 236-249, 297-314, 445-459).
VerifyNeverWaits == \A t \in Thread : At(t, "verify") => row[thr[t].valor] # "CREATING"

\* Every operation ends or is waiting for cloud-init on a new instance: no
\* thread waits for ever for a state of a valor (valor.py 134-148, 399, 437-463).
OperationsEnd == \A t \in Thread : []<>(At(t, "idle") \/ At(t, "setup"))

\* What stop_valor and destroy_valor refuse to do (valor.py 526-529, 554-557):
\* take a valor down while a virtue is on it.
NoVirtueLosesItsValor ==
    [][\A t \in Thread :
          Halt(t) \/ Terminate(t) =>
              Hosted(thr[t].valor) = {} \/ instance[thr[t].valor] # "running"]_vars

\* NUM_STANDBY_VALORS is the number of MAX standby valors to keep provisioned
\* (valor.py 15): the standby threads never leave more valors available.
StandbyAtMost ==
    spawned + Cardinality({t \in Thread : thr[t].after = "launch"}) <= NumStandbyValors
=============================================================================
