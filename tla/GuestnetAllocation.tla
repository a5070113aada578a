-------------------------- MODULE GuestnetAllocation --------------------------
(***************************************************************************)
(* How excalibur/website/valor.py hands out guest network addresses.       *)
(*                                                                         *)
(* Every virtue, valor and router row of RethinkDB's galahad table owns an *)
(* address 10.91.0.n.  RethinkDbManager.add_virtue and add_valor find a    *)
(* free n with one query per candidate (get_free_guestnet) and then insert *)
(* the row; a module-level threading.Lock is held over the scan and the    *)
(* insertion.  Rows are deleted, without the lock, by remove_virtue and    *)
(* remove_valor.  The test that a virtue has no row yet is made before the *)
(* lock is taken.                                                          *)
(*                                                                         *)
(* A Thread is one Flask request handler, role-assembly thread or standby- *)
(* valor thread.  The lock is a Python object, so each operating system    *)
(* Process has its own: the API server is one, the deployment's            *)
(* create_standby_pools.py is another.                                     *)
(***************************************************************************)
EXTENDS Naturals

CONSTANTS
    Process,       \* operating system processes that import valor.py
    Thread,        \* their threads
    ProcessOf,     \* [Thread -> Process]
    Virtue,        \* virtue (and role) identifiers
    Valor,         \* EC2 instance identifiers of valors
    Row,           \* primary keys of the galahad table (bounds insertions)
    RouterRow,     \* the row the router inserted for itself
    RouterGuestnet, \* 254 in the deployed system
    LastGuestnet,  \* 255 in get_free_guestnet
    Unborn, Gone,  \* a row not inserted yet, and a deleted one
    None           \* no thread, no job, no row

ASSUME GuestnetAssumption ==
    /\ ProcessOf \in [Thread -> Process]
    /\ RouterRow \in Row
    /\ LastGuestnet \in Nat
    /\ RouterGuestnet \in 1 .. LastGuestnet
    /\ None \notin Thread \cup Virtue \cup Valor \cup Row
    /\ Unborn # Gone
    /\ Virtue \cap Valor = {}

VARIABLES
    table,    \* Row -> the record stored under that key
    lock,     \* Process -> the thread that holds valor.py's lock
    pc,       \* Thread -> where it is
    job,      \* Thread -> the virtue or valor it is working for
    cand,     \* Thread -> test_number of get_free_guestnet
    target    \* Thread -> matching_virtues[0] / matching_valors[0]

vars == <<table, lock, pc, job, cand, target>>

Guestnet == 1 .. LastGuestnet
Owner == Virtue \cup Valor

\* A virtue row, a valor row or the router's own row; "owner" is its
\* virtue_id or valor_id.  State, image path and host address are left out.
Record ==
    [function : {"virtue"}, owner : Virtue, guestnet : Guestnet]
      \cup [function : {"valor"}, owner : Valor, guestnet : Guestnet]
      \cup [function : {"router"}, owner : {RouterRow}, guestnet : Guestnet]

ASSUME MarkAssumption ==
    Unborn \notin Record \cup Guestnet /\ Gone \notin Record \cup Guestnet

Live(r) == table[r] \notin {Unborn, Gone}

\* The rows the filters {'function': ..., 'virtue_id' or 'valor_id': o} match.
Matching(o) ==
    {r \in Row : Live(r) /\ table[r].function # "router" /\ table[r].owner = o}

\* Mutant of GuestnetTaken: the query also filters on the virtue function.
GuestnetTakenByVirtue(g) ==
    \E r \in Row : Live(r) /\ table[r].function = "virtue" /\ table[r].guestnet = g

\* What the filter {'guestnet': g} finds, whatever the row's function is.
GuestnetTaken(g) == \E r \in Row : Live(r) /\ table[r].guestnet = g

NewRecord(o, g) ==
    [function |-> IF o \in Virtue THEN "virtue" ELSE "valor",
     owner |-> o, guestnet |-> g]

Init ==
    /\ table = [r \in Row |->
                  IF r = RouterRow
                  THEN [function |-> "router", owner |-> RouterRow,
                        guestnet |-> RouterGuestnet]
                  ELSE Unborn]
    /\ lock = [p \in Process |-> None]
    /\ pc = [t \in Thread |-> "idle"]
    /\ job = [t \in Thread |-> None]
    /\ cand = [t \in Thread |-> 1]
    /\ target = [t \in Thread |-> None]

Goto(t, from, to) ==
    /\ pc[t] = from
    /\ pc' = [pc EXCEPT ![t] = to]

(***************************************************************************)
(* add_virtue and add_valor                                                *)
(***************************************************************************)

\* The query and the assertion that no row of the virtue exists, made while
\* the lock is not held.  When the assertion fails nothing changes.
AddVirtueAssert(t, v) ==
    /\ Goto(t, "idle", "acquire")
    /\ Matching(v) = {}
    /\ job' = [job EXCEPT ![t] = v]
    /\ UNCHANGED <<table, lock, cand, target>>

\* Mutant of AddValorStart: add_valor without lock.acquire().
AddValorUnlocked(t, a) ==
    /\ Goto(t, "idle", "scan")
    /\ \A r \in Row : Live(r) => table[r].owner # a
    /\ \A u \in Thread : job[u] # a
    /\ job' = [job EXCEPT ![t] = a]
    /\ UNCHANGED <<table, lock, cand, target>>

\* add_valor starts for an EC2 instance that was created a moment before: it
\* has a fresh instance id, known to this thread only.
AddValorStart(t, a) ==
    /\ Goto(t, "idle", "acquire")
    /\ \A r \in Row : Live(r) => table[r].owner # a
    /\ \A u \in Thread : job[u] # a
    /\ job' = [job EXCEPT ![t] = a]
    /\ UNCHANGED <<table, lock, cand, target>>

Acquire(t) ==
    /\ Goto(t, "acquire", "scan")
    /\ lock[ProcessOf[t]] = None
    /\ lock' = [lock EXCEPT ![ProcessOf[t]] = t]
    /\ UNCHANGED <<table, job, cand, target>>

\* One query of get_free_guestnet's loop that finds the candidate in use.
ScanTaken(t) ==
    /\ pc[t] = "scan"
    /\ cand[t] <= LastGuestnet
    /\ GuestnetTaken(cand[t])
    /\ cand' = [cand EXCEPT ![t] = @ + 1]
    /\ UNCHANGED <<table, lock, pc, job, target>>

\* Mutant of ScanFree: the loop runs one candidate too far.
ScanFreePastEnd(t) ==
    /\ Goto(t, "scan", "insert")
    /\ cand[t] <= LastGuestnet + 1
    /\ ~ GuestnetTaken(cand[t])
    /\ UNCHANGED <<table, lock, job, cand, target>>

\* One query that finds the candidate free: the loop ends.
ScanFree(t) ==
    /\ Goto(t, "scan", "insert")
    /\ cand[t] <= LastGuestnet
    /\ ~ GuestnetTaken(cand[t])
    /\ UNCHANGED <<table, lock, job, cand, target>>

\* The loop ran out of candidates, so the assertion after it fails.
ScanExhausted(t) ==
    /\ Goto(t, "scan", "release")
    /\ cand[t] > LastGuestnet
    /\ UNCHANGED <<table, lock, job, cand, target>>

\* Mutant of QueryFails: release() not in a finally clause.
QueryFailsKeepsLock(t) ==
    /\ pc[t] \in {"scan", "insert"}
    /\ pc' = [pc EXCEPT ![t] = "idle"]
    /\ UNCHANGED <<table, lock, job, cand, target>>

\* RethinkDB raises on a query or on the insertion: the finally clause runs.
QueryFails(t) ==
    /\ pc[t] \in {"scan", "insert"}
    /\ pc' = [pc EXCEPT ![t] = "release"]
    /\ UNCHANGED <<table, lock, job, cand, target>>

Insert(t) ==
    /\ Goto(t, "insert", "release")
    /\ \E r \in Row :
          /\ table[r] = Unborn
          /\ table' = [table EXCEPT ![r] = NewRecord(job[t], cand[t])]
    /\ UNCHANGED <<lock, job, cand, target>>

\* lock.release() in the finally clause.
Release(t) ==
    /\ Goto(t, "release", "idle")
    /\ lock' = [lock EXCEPT ![ProcessOf[t]] = None]
    /\ job' = [job EXCEPT ![t] = None]
    /\ cand' = [cand EXCEPT ![t] = 1]
    /\ UNCHANGED <<table, target>>

(***************************************************************************)
(* remove_virtue and remove_valor: read the matching rows, then delete the *)
(* first one by its whole contents, primary key included.                  *)
(***************************************************************************)

\* remove_virtue asserts that exactly one row matches; remove_valor takes the
\* first of those that match.
RemoveRead(t, o, r) ==
    /\ Goto(t, "idle", "delete")
    /\ r \in Matching(o)
    /\ o \in Virtue => Matching(o) = {r}
    /\ target' = [target EXCEPT ![t] = r]
    /\ UNCHANGED <<table, lock, job, cand>>

\* Deleting a row that another thread has deleted meanwhile has no effect.
RemoveDelete(t) ==
    /\ Goto(t, "delete", "idle")
    /\ table' = [table EXCEPT ![target[t]] = Gone]
    /\ target' = [target EXCEPT ![t] = None]
    /\ UNCHANGED <<lock, job, cand>>

Critical(t) ==
    \/ ScanTaken(t) \/ ScanFree(t) \/ ScanExhausted(t)
    \/ QueryFails(t) \/ Insert(t) \/ Release(t)

Next ==
    \E t \in Thread :
        \/ \E v \in Virtue : AddVirtueAssert(t, v)
        \/ \E a \in Valor : AddValorStart(t, a)
        \/ Acquire(t)
        \/ Critical(t)
        \/ \E o \in Owner, r \in Row : RemoveRead(t, o, r)
        \/ RemoveDelete(t)

\* A thread inside the lock keeps running: its queries return or raise.
Fairness == \A t \in Thread : WF_vars(Critical(t))

Spec == Init /\ [][Next]_vars
FairSpec == Spec /\ Fairness

(***************************************************************************)
(* Properties                                                              *)
(***************************************************************************)

\* Type invariant.
TypeOK ==
    /\ table \in [Row -> Record \cup {Unborn, Gone}]
    /\ lock \in [Process -> Thread \cup {None}]
    /\ pc \in [Thread -> {"idle", "acquire", "scan", "insert", "release", "delete"}]
    /\ job \in [Thread -> Owner \cup {None}]
    /\ cand \in [Thread -> 1 .. LastGuestnet + 1]
    /\ target \in [Thread -> Row \cup {None}]

OneProcess == \A p, q \in Process : p = q

\* No two rows of the galahad table ever hold the same guest address: the
\* scan-then-insert of get_free_guestnet is safe although every query and the
\* insertion are separate and rows are removed without the lock (valor.py
\* 677-742).
GuestnetUnique ==
    \A r, s \in Row :
        Live(r) /\ Live(s) /\ table[r].guestnet = table[s].guestnet => r = s

\* Between the query that found an address free and the insertion that uses
\* it, nobody takes the address (valor.py 704-716 read against 727-743).
ChosenStaysFree ==
    \A t \in Thread : pc[t] = "insert" => ~ GuestnetTaken(cand[t])

InLock(t) == pc[t] \in {"scan", "insert", "release"}

\* A thread is between lock.acquire and lock.release exactly when it is the
\* registered holder of its process's lock.
LockHolder ==
    \A t \in Thread : InLock(t) <=> lock[ProcessOf[t]] = t

\* The local variables a thread's next statement reads have been assigned.
LocalsSet ==
    \A t \in Thread :
        /\ pc[t] \in {"acquire", "scan", "insert"} => job[t] \in Owner
        /\ pc[t] = "insert" => cand[t] \in Guestnet
        /\ pc[t] = "delete" => target[t] \in Row /\ table[target[t]] # Unborn

\* The inductive invariant behind GuestnetUnique.
IInv == TypeOK /\ LocalsSet /\ LockHolder /\ ChosenStaysFree /\ GuestnetUnique

\* A virtue has at most one row: what the assertions of add_virtue (valor.py
\* 725) and remove_virtue (valor.py 794) take for granted.
OneRowPerVirtue ==
    \A r, s \in Row :
        Live(r) /\ Live(s) /\ table[r].owner = table[s].owner => r = s

\* Whatever fails inside it, the critical section is left: no thread keeps
\* valor.py's lock for ever (the finally clauses at 691-692 and 742-743).
LockReleased == \A p \in Process : []<>(lock[p] = None)

\* The row-by-row scan implements an allocator that takes a free address in
\* one indivisible step.
Pool == INSTANCE GuestnetPool WITH
    Guestnet <- Guestnet,
    owned <- [r \in Row |-> IF Live(r) THEN table[r].guestnet ELSE table[r]]

PoolSpec == Pool!Spec
=============================================================================
