----------------------- MODULE GuestnetAllocationProofs -----------------------
(***************************************************************************)
(* Proofs about GuestnetAllocation: within one operating system process    *)
(* the lock makes guest addresses unique and makes the scan-then-insert    *)
(* an atomic allocator, for any number of threads, rows and addresses.     *)
(***************************************************************************)
EXTENDS GuestnetAllocation, TLAPS

\* The router's row is the only one at the start and no thread runs.
LEMMA InitIInv == Init => IInv
<1> USE GuestnetAssumption, MarkAssumption
<1>1. SUFFICES ASSUME Init PROVE IInv
  OBVIOUS
<1>2. [function |-> "router", owner |-> RouterRow, guestnet |-> RouterGuestnet]
        \in Record
  BY DEF Record, Guestnet
<1>3. TypeOK
  BY <1>1, <1>2 DEF Init, TypeOK
<1>4. LocalsSet /\ LockHolder
  BY <1>1 DEF Init, LocalsSet, LockHolder, InLock
<1>5. ChosenStaysFree
  BY <1>1 DEF Init, ChosenStaysFree
<1>6. GuestnetUnique
  BY <1>1 DEF Init, GuestnetUnique, Live
<1>7. QED
  BY <1>3, <1>4, <1>5, <1>6 DEF IInv

\* A record that is inserted is a well-formed row with the chosen address.
LEMMA NewRecordType ==
  ASSUME NEW o \in Owner, NEW g \in Guestnet
  PROVE  /\ NewRecord(o, g) \in Record
         /\ NewRecord(o, g).guestnet = g
BY DEF Owner, NewRecord, Record

\* A step keeps every variable, and every local about to be read, well typed.
LEMMA TypeStep == TypeOK /\ LocalsSet /\ [Next]_vars => TypeOK' /\ LocalsSet'
<1> USE GuestnetAssumption, MarkAssumption DEF TypeOK, LocalsSet, Goto
<1> SUFFICES ASSUME TypeOK, LocalsSet, [Next]_vars PROVE TypeOK' /\ LocalsSet'
  OBVIOUS
<1>1. ASSUME NEW t \in Thread, NEW v \in Virtue, AddVirtueAssert(t, v)
      PROVE  TypeOK' /\ LocalsSet'
  BY <1>1 DEF AddVirtueAssert, Owner
<1>2. ASSUME NEW t \in Thread, NEW a \in Valor, AddValorStart(t, a)
      PROVE  TypeOK' /\ LocalsSet'
  BY <1>2 DEF AddValorStart, Owner
<1>3. ASSUME NEW t \in Thread, Acquire(t) PROVE TypeOK' /\ LocalsSet'
  BY <1>3 DEF Acquire
<1>4. ASSUME NEW t \in Thread, ScanTaken(t) PROVE TypeOK' /\ LocalsSet'
  BY <1>4 DEF ScanTaken
<1>5. ASSUME NEW t \in Thread, ScanFree(t) PROVE TypeOK' /\ LocalsSet'
  BY <1>5 DEF ScanFree, Guestnet
<1>6. ASSUME NEW t \in Thread, ScanExhausted(t) PROVE TypeOK' /\ LocalsSet'
  BY <1>6 DEF ScanExhausted
<1>7. ASSUME NEW t \in Thread, QueryFails(t) PROVE TypeOK' /\ LocalsSet'
  BY <1>7 DEF QueryFails
<1>8. ASSUME NEW t \in Thread, Insert(t) PROVE TypeOK' /\ LocalsSet'
  <2>1. NewRecord(job[t], cand[t]) \in Record
    BY <1>8, NewRecordType DEF Insert
  <2>2. QED
    BY <1>8, <2>1 DEF Insert
<1>9. ASSUME NEW t \in Thread, Release(t) PROVE TypeOK' /\ LocalsSet'
  BY <1>9 DEF Release
<1>10. ASSUME NEW t \in Thread, NEW o \in Owner, NEW r \in Row,
              RemoveRead(t, o, r)
       PROVE  TypeOK' /\ LocalsSet'
  BY <1>10 DEF RemoveRead, Matching, Live
<1>11. ASSUME NEW t \in Thread, RemoveDelete(t) PROVE TypeOK' /\ LocalsSet'
  BY <1>11 DEF RemoveDelete
<1>12. CASE UNCHANGED vars
  BY <1>12 DEF vars
<1>13. QED
  BY <1>1, <1>2, <1>3, <1>4, <1>5, <1>6, <1>7, <1>8, <1>9, <1>10, <1>11, <1>12
  DEF Next, Critical

\* The lock's holder is the one thread of its process in the critical section.
LEMMA LockStep == TypeOK /\ LockHolder /\ [Next]_vars => LockHolder'
<1> USE GuestnetAssumption DEF TypeOK, LockHolder, InLock, Goto
<1> SUFFICES ASSUME TypeOK, LockHolder, [Next]_vars PROVE LockHolder'
  OBVIOUS
<1>1. ASSUME NEW t \in Thread,
             \/ \E v \in Virtue : AddVirtueAssert(t, v)
             \/ \E a \in Valor : AddValorStart(t, a)
      PROVE  LockHolder'
  BY <1>1 DEF AddVirtueAssert, AddValorStart
<1>2. ASSUME NEW t \in Thread, Acquire(t) PROVE LockHolder'
  BY <1>2 DEF Acquire
<1>3. ASSUME NEW t \in Thread,
             ScanTaken(t) \/ ScanFree(t) \/ ScanExhausted(t) \/ QueryFails(t)
      PROVE  LockHolder'
  BY <1>3 DEF ScanTaken, ScanFree, ScanExhausted, QueryFails
<1>4. ASSUME NEW t \in Thread, Insert(t) PROVE LockHolder'
  BY <1>4 DEF Insert
<1>5. ASSUME NEW t \in Thread, Release(t) PROVE LockHolder'
  BY <1>5 DEF Release
<1>6. ASSUME NEW t \in Thread,
             \/ \E o \in Owner, r \in Row : RemoveRead(t, o, r)
             \/ RemoveDelete(t)
      PROVE  LockHolder'
  BY <1>6 DEF RemoveRead, RemoveDelete
<1>7. CASE UNCHANGED vars
  BY <1>7 DEF vars
<1>8. QED
  BY <1>1, <1>2, <1>3, <1>4, <1>5, <1>6, <1>7 DEF Next, Critical

\* With one lock, two threads are never in the critical section together.
LEMMA OneInLock ==
  ASSUME OneProcess, LockHolder, NEW t \in Thread, NEW u \in Thread,
         InLock(t), InLock(u)
  PROVE  t = u
BY GuestnetAssumption DEF OneProcess, LockHolder

\* A step that inserts nothing frees addresses only.
LEMMA NoInsertion ==
  ASSUME \A r \in Row : table'[r] = table[r] \/ table'[r] = Gone
  PROVE  /\ \A r \in Row : Live(r)' => Live(r) /\ table'[r] = table[r]
         /\ \A g : GuestnetTaken(g)' => GuestnetTaken(g)
BY DEF Live, GuestnetTaken

\* Every action but Insert deletes at most one row and inserts none.
LEMMA TableSteps ==
  ASSUME TypeOK, LocalsSet, [Next]_vars,
         ~ \E t \in Thread : Insert(t)
  PROVE  \A r \in Row : table'[r] = table[r] \/ table'[r] = Gone
<1>1. ASSUME NEW t \in Thread, RemoveDelete(t)
      PROVE  \A r \in Row : table'[r] = table[r] \/ table'[r] = Gone
  BY <1>1 DEF RemoveDelete, TypeOK
<1>2. CASE table' = table
  BY <1>2
<1>3. QED
  BY <1>1, <1>2 DEF Next, Critical, vars, AddVirtueAssert, AddValorStart,
     Acquire, ScanTaken, ScanFree, ScanExhausted, QueryFails, Release,
     RemoveRead

\* The heart of the argument: an address found free is still free when it is
\* inserted, because insertions happen under the lock and removals only free.
LEMMA UniqueStep == OneProcess /\ IInv /\ [Next]_vars
                      => ChosenStaysFree' /\ GuestnetUnique'
<1> SUFFICES ASSUME OneProcess, IInv, [Next]_vars
             PROVE  ChosenStaysFree' /\ GuestnetUnique'
  OBVIOUS
<1> USE DEF IInv
<1>1. ASSUME NEW t \in Thread, Insert(t)
      PROVE  ChosenStaysFree' /\ GuestnetUnique'
  <2>1. PICK n \in Row : /\ table[n] = Unborn
                         /\ table' = [table EXCEPT ![n] = NewRecord(job[t], cand[t])]
    BY <1>1 DEF Insert
  <2>2. table'[n].guestnet = cand[t] /\ \A r \in Row \ {n} : table'[r] = table[r]
    BY <1>1, <2>1, NewRecordType DEF Insert, Goto, TypeOK, LocalsSet
  <2>3. ~ GuestnetTaken(cand[t])
    BY <1>1 DEF Insert, Goto, ChosenStaysFree
  <2>4. GuestnetUnique'
    BY <2>2, <2>3 DEF GuestnetUnique, GuestnetTaken, Live
  <2>5. ASSUME NEW u \in Thread, pc'[u] = "insert"
        PROVE  ~ GuestnetTaken(cand[u])'
    <3>1. InLock(t) /\ InLock(u) /\ u # t
      BY <1>1, <2>5 DEF Insert, Goto, TypeOK, InLock
    <3>2. QED
      BY <3>1, OneInLock
  <2>6. QED
    BY <2>4, <2>5 DEF ChosenStaysFree
<1>2. CASE ~ \E t \in Thread : Insert(t)
  <2>1. /\ \A r \in Row : Live(r)' => Live(r) /\ table'[r] = table[r]
        /\ \A g : GuestnetTaken(g)' => GuestnetTaken(g)
    BY <1>2, TableSteps, NoInsertion
  <2>2. GuestnetUnique'
    BY <2>1 DEF GuestnetUnique
  <2>3. ASSUME NEW u \in Thread, pc'[u] = "insert"
        PROVE  ~ GuestnetTaken(cand[u])'
    <3>1. CASE pc[u] = "insert" /\ cand'[u] = cand[u]
      BY <2>1, <3>1 DEF ChosenStaysFree, GuestnetTaken
    <3>2. CASE ScanFree(u)
      BY <2>1, <3>2 DEF ScanFree, GuestnetTaken
    <3>3. QED
      BY <1>2, <2>3, <3>1, <3>2 DEF Next, Critical, vars, AddVirtueAssert,
         AddValorStart, Acquire, ScanTaken, ScanFree, ScanExhausted,
         QueryFails, Release, RemoveRead, RemoveDelete, Goto, TypeOK
  <2>4. QED
    BY <2>2, <2>3 DEF ChosenStaysFree
<1>3. QED
  BY <1>1, <1>2

\* The inductive invariant holds in every state of a single server process.
THEOREM Invariance ==
  ASSUME OneProcess
  PROVE  Spec => []IInv
<1>1. Init => IInv
  BY InitIInv
<1>2. IInv /\ [Next]_vars => IInv'
  BY TypeStep, LockStep, UniqueStep DEF IInv
<1>3. QED
  BY <1>1, <1>2, PTL DEF Spec

\* Within one process no two rows ever own the same guest address, whatever
\* the number of threads, addresses and rows (valor.py 677-742).
THEOREM GuestnetUniqueness ==
  ASSUME OneProcess
  PROVE  Spec => []GuestnetUnique
<1>1. Spec => []IInv
  BY Invariance
<1>2. IInv => GuestnetUnique
  BY DEF IInv
<1>3. QED
  BY <1>1, <1>2, PTL

\* Every variable keeps its type, with any number of processes.
THEOREM TypeCorrectness == Spec => []TypeOK
<1>1. Init => TypeOK /\ LocalsSet
  BY InitIInv DEF IInv
<1>2. TypeOK /\ LocalsSet /\ [Next]_vars => (TypeOK /\ LocalsSet)'
  BY TypeStep
<1>3. QED
  BY <1>1, <1>2, PTL DEF Spec

-------------------------------------------------------------------------------
(***************************************************************************)
(* Refinement of GuestnetPool                                              *)
(***************************************************************************)

\* The address a row owns, as the abstract allocator sees it.
Owned == [r \in Row |-> IF Live(r) THEN table[r].guestnet ELSE table[r]]

\* The router's row owns its address from the start.
LEMMA InitRefines == Init => Pool!Init
<1> SUFFICES ASSUME Init PROVE Pool!Init
  OBVIOUS
<1> USE GuestnetAssumption, MarkAssumption
<1>1. [function |-> "router", owner |-> RouterRow, guestnet |-> RouterGuestnet]
        \in Record
  BY DEF Record, Guestnet
<1>2. /\ Live(RouterRow) /\ Owned[RouterRow] = RouterGuestnet
      /\ \A r \in Row \ {RouterRow} : Owned[r] = Unborn
  BY <1>1 DEF Init, Owned, Live
<1>3. Owned \in [Row -> Guestnet \cup {Unborn}]
  BY <1>2 DEF Owned, Guestnet
<1>4. \A r, s \in Row : r # s /\ Owned[r] = Owned[s] => Owned[r] = Unborn
  BY <1>2 DEF Guestnet
<1>5. QED
  BY <1>3, <1>4 DEF Pool!Init, Owned

\* Insert is Take, a removal is Give, and every other step is a stutter.
LEMMA StepRefines ==
  IInv /\ [Next]_vars => [Pool!Next]_Owned
<1> SUFFICES ASSUME IInv, [Next]_vars PROVE [Pool!Next]_Owned
  OBVIOUS
<1> USE GuestnetAssumption, MarkAssumption DEF IInv
<1>1. ASSUME NEW t \in Thread, Insert(t) PROVE Pool!Next
  <2>1. PICK n \in Row : /\ table[n] = Unborn
                         /\ table' = [table EXCEPT ![n] = NewRecord(job[t], cand[t])]
    BY <1>1 DEF Insert
  <2>2. /\ cand[t] \in Guestnet
        /\ NewRecord(job[t], cand[t]) \in Record
        /\ NewRecord(job[t], cand[t]).guestnet = cand[t]
    BY <1>1, NewRecordType DEF Insert, Goto, LocalsSet
  <2>3. Owned[n] = Unborn
    BY <2>1 DEF Owned, Live
  <2>4. Owned' = [Owned EXCEPT ![n] = cand[t]]
    BY <2>1, <2>2 DEF Owned, Live, TypeOK
  <2>5. ~ Pool!InUse(cand[t])
    BY <1>1, <2>2 DEF Insert, Goto, ChosenStaysFree, GuestnetTaken,
       Pool!InUse, Live
  <2>6. Pool!Take(n)
    BY <2>2, <2>3, <2>4, <2>5 DEF Pool!Take, Owned
  <2>7. QED
    BY <2>6 DEF Pool!Next
<1>2. ASSUME NEW t \in Thread, RemoveDelete(t) PROVE [Pool!Next]_Owned
  <2>1. PICK d \in Row : d = target[t]
    BY <1>2 DEF RemoveDelete, Goto, LocalsSet
  <2>2. Owned' = [Owned EXCEPT ![d] = Gone]
    BY <1>2, <2>1 DEF RemoveDelete, Owned, Live, TypeOK
  <2>3. CASE Live(d)
    <3>1. Owned[d] \in Guestnet
      BY <2>1, <2>3 DEF Owned, Live, TypeOK, Record
    <3>2. Pool!Give(d)
      BY <2>2, <3>1 DEF Pool!Give, Owned
    <3>3. QED
      BY <3>2 DEF Pool!Next
  <2>4. CASE ~ Live(d)
    <3>1. table[d] = Gone
      BY <1>2, <2>1, <2>4 DEF RemoveDelete, Goto, LocalsSet, Live
    <3>2. table' = table
      BY <1>2, <2>1, <3>1 DEF RemoveDelete, TypeOK
    <3>3. QED
      BY <3>2 DEF Owned, Live
  <2>5. QED
    BY <2>3, <2>4
<1>3. CASE table' = table
  BY <1>3 DEF Owned, Live
<1>4. QED
  BY <1>1, <1>2, <1>3 DEF Next, Critical, vars, AddVirtueAssert, AddValorStart,
     Acquire, ScanTaken, ScanFree, ScanExhausted, QueryFails, Release,
     RemoveRead

\* In one process, get_free_guestnet's query loop followed by the insertion is
\* an atomic allocator of unused addresses (valor.py 677-742, 787-797).
THEOREM ImplementsPool ==
  ASSUME OneProcess
  PROVE  Spec => PoolSpec
<1>1. Spec => []IInv
  BY Invariance
<1>2. Init => Pool!Init
  BY InitRefines
<1>3. IInv /\ [Next]_vars => [Pool!Next]_Owned
  BY StepRefines
<1>4. QED
  BY <1>1, <1>2, <1>3, PTL DEF Spec, PoolSpec, Pool!Spec, Owned
=============================================================================
