---------------------------- MODULE ValorFleetProofs ----------------------------
(***************************************************************************)
(* Proofs about the fleet of valors: what its threads, which take no lock, *)
(* keep true of the table and of EC2.                                      *)
(***************************************************************************)
EXTENDS ValorFleet, FiniteSetTheorems, TLAPS

USE DEF States

(***************************************************************************)
(* The inductive invariant                                                 *)
(***************************************************************************)

\* A thread that is not idle works on a valor that exists, and one that is
\* about to place a virtue has a virtue to place.
ThreadInv ==
    \A t \in Thread :
        /\ thr[t].pc = "idle" <=> thr[t].valor = None
        /\ thr[t].pc # "idle" => instance[thr[t].valor] # "none"
        /\ thr[t].pc \in {"verify", "insert"} => thr[t].virtue # None

\* A valor without a row that a thread is about to register is that thread's.
RegisterInv ==
    /\ \A a \in Valor : row[a] # "none" => instance[a] # "none"
    /\ \A t \in Thread : thr[t].pc = "register" =>
          /\ row[thr[t].valor] = "none" /\ instance[thr[t].valor] = "running"
          /\ \A u \in Thread \ {t} : thr[u].valor # thr[t].valor

\* A row's state r and an instance's state i that agree.
InUse(r, i) ==
    \/ r = "RUNNING" /\ i = "running"
    \/ r = "STOPPED" /\ i = "stopped"

Match(r, i) ==
    \/ InUse(r, i)
    \/ r = "none" /\ i \in {"none", "terminated"}

\* What a thread at work on a valor that others leave alone relies on.
Stage(pc, r, i) ==
    /\ pc = "register" => r = "none" /\ i = "running"
    /\ pc = "setup" => r = "CREATING" /\ i = "running"
    /\ pc \in {"await", "markStopped"} => r = "CREATING" /\ i = "stopped"
    /\ pc \in {"start", "halt", "spawn", "terminate"} => InUse(r, i)
    /\ pc \in {"reach", "markRunning"} => r \in {"RUNNING", "STOPPED"} /\ i = "running"
    /\ pc = "markHalted" => r \in {"RUNNING", "STOPPED"} /\ i = "stopped"
    /\ pc \in {"removeRow", "deleteRow"} => r # "none" /\ i = "terminated"

\* Operates, of a local state.
Works(l, a) == l.valor = a /\ ~ (l.virtue # None /\ l.pc \in {"verify", "spawn", "insert"})

CalmInv ==
    \A a \in calm :
        /\ \A t \in Thread : Works(thr[t], a) =>
              /\ Stage(thr[t].pc, row[a], instance[a])
              /\ \A u \in Thread \ {t} : ~ Works(thr[u], a)
        /\ (\A t \in Thread : ~ Works(thr[t], a)) => Match(row[a], instance[a])

\* The thread that will take a valor in state i out of CREATING, or will find it
\* taken out.
Attends(l, i, a) ==
    /\ l.valor = a
    /\ \/ i = "running" /\ l.pc \in {"setup", "reach", "markRunning"}
       \/ i = "stopped" /\ l.pc \in {"await", "markStopped", "markHalted"}
       \/ i = "terminated" /\ l.pc \in {"removeRow", "deleteRow"}

CreatingInv ==
    failures = 0 =>
        \A a \in Valor : row[a] = "CREATING" => \E t \in Thread : Attends(thr[t], instance[a], a)

IInv == TypeOK /\ ThreadInv /\ RegisterInv /\ CalmInv /\ CreatingInv

LEMMA IInit == Init => IInv
  BY FleetAssumption
     DEF Init, IInv, TypeOK, Idle, Local, ThreadInv, RegisterInv, CalmInv, CreatingInv, Works,
         Match, InUse, FleetAssumption

\* A step of one thread about one valor.  The premises say what the thread does
\* to that valor and to itself; the other valors are left alone.
LEMMA ThreadStep ==
    ASSUME IInv, TypeOK', NEW t \in Thread, NEW n \in Local, NEW a \in Valor,
           thr' = [thr EXCEPT ![t] = n],
           thr[t].valor \in {a, None}, n.valor \in {a, None},
           \A b \in Valor \ {a} : row'[b] = row[b] /\ instance'[b] = instance[b],
           instance'[a] # "none",
           n.pc = "idle" <=> n.valor = None,
           n.pc \in {"verify", "insert"} => n.virtue # None,
           \A u \in Thread \ {t} : thr[u].pc = "register" => thr[u].valor # a,
           n.pc = "register" =>
               /\ row'[a] = "none" /\ instance'[a] = "running"
               /\ \A u \in Thread \ {t} : thr[u].valor # a,
           calm' \subseteq calm,
           a \in calm' =>
               \/ /\ \A u \in Thread \ {t} : ~ Works(thr[u], a)
                  /\ Works(n, a) => Stage(n.pc, row'[a], instance'[a])
                  /\ ~ Works(n, a) => Match(row'[a], instance'[a])
               \/ /\ row'[a] = row[a] /\ instance'[a] = instance[a]
                  /\ ~ Works(thr[t], a) /\ ~ Works(n, a),
           failures' = 0 => failures = 0,
           failures' = 0 /\ row'[a] = "CREATING" =>
               \/ Attends(n, instance'[a], a)
               \/ row'[a] = row[a] /\ instance'[a] = instance[a] /\ ~ Attends(thr[t], instance[a], a)
    PROVE  IInv'
<1>1. /\ thr'[t] = n /\ \A u \in Thread \ {t} : thr'[u] = thr[u]
      /\ \A u \in Thread : thr[u].valor \in Valor \cup {None}
  BY DEF IInv, TypeOK, Local
<1>2. None \notin Valor
  BY FleetAssumption DEF FleetAssumption
<1>3. ThreadInv'
  BY <1>1, <1>2 DEF IInv, ThreadInv
<1>4. RegisterInv'
  BY <1>1, <1>2 DEF IInv, RegisterInv, ThreadInv
<1>5. CalmInv'
  <2> SUFFICES ASSUME NEW b \in calm'
               PROVE  /\ \A x \in Thread : Works(thr'[x], b) =>
                            Stage(thr'[x].pc, row'[b], instance'[b]) /\ \A u \in Thread \ {x} : ~ Works(thr'[u], b)
                      /\ (\A x \in Thread : ~ Works(thr'[x], b)) => Match(row'[b], instance'[b])
    BY DEF CalmInv, Works
  <2>1. b \in calm /\ b \in Valor
    BY DEF IInv, TypeOK
  <2>2. CASE b # a
    <3>1. \A x \in Thread : Works(thr'[x], b) <=> Works(thr[x], b)
      BY <1>1, <1>2, <2>1, <2>2 DEF Works
    <3>2. ~ Works(thr[t], b)
      BY <1>2, <2>1, <2>2 DEF Works
    <3>3. row'[b] = row[b] /\ instance'[b] = instance[b]
      BY <2>1, <2>2
    <3> QED
      BY <1>1, <2>1, <3>1, <3>2, <3>3 DEF IInv, CalmInv
  <2>3. CASE b = a /\ row'[a] = row[a] /\ instance'[a] = instance[a]
             /\ ~ Works(thr[t], a) /\ ~ Works(n, a)
    <3>1. \A x \in Thread : Works(thr'[x], b) <=> Works(thr[x], b)
      BY <1>1, <2>3
    <3> QED
      BY <1>1, <2>1, <2>3, <3>1 DEF IInv, CalmInv
  <2>4. CASE /\ b = a /\ \A u \in Thread \ {t} : ~ Works(thr[u], a)
             /\ Works(n, a) => Stage(n.pc, row'[a], instance'[a])
             /\ ~ Works(n, a) => Match(row'[a], instance'[a])
    BY <1>1, <2>4
  <2> QED
    BY <2>2, <2>3, <2>4
<1>6. CreatingInv'
  <2> SUFFICES ASSUME failures' = 0, NEW b \in Valor, row'[b] = "CREATING"
               PROVE  \E x \in Thread : Attends(thr'[x], instance'[b], b)
    BY DEF CreatingInv, Attends
  <2>1. CASE b = a /\ Attends(n, instance'[a], a)
    BY <1>1, <2>1 DEF Attends
  <2>2. CASE b # a \/ (row'[b] = row[b] /\ instance'[b] = instance[b] /\ ~ Attends(thr[t], instance[b], b))
    <3>1. row'[b] = row[b] /\ instance'[b] = instance[b] /\ ~ Attends(thr[t], instance[b], b)
      BY <1>2, <2>2 DEF Attends
    <3>2. PICK x \in Thread : Attends(thr[x], instance[b], b)
      BY <3>1 DEF IInv, CreatingInv
    <3> QED
      BY <1>1, <3>1, <3>2 DEF Attends
  <2> QED
    BY <2>1, <2>2
<1> QED
  BY <1>3, <1>4, <1>5, <1>6 DEF IInv

\* A thread's step in the middle of an operation.
LEMMA OwnStep ==
    ASSUME IInv, NEW t \in Thread, thr[t].pc # "idle", NEW n \in Local,
           \/ n = Idle
           \/ /\ n.pc \notin {"idle", "register"} /\ n.valor = thr[t].valor
              /\ n.virtue = thr[t].virtue /\ (n.pc \in {"verify", "insert"} => n.virtue # None),
           thr' = [thr EXCEPT ![t] = n],
           NEW r \in {"none", "CREATING", "STOPPED", "RUNNING"},
           NEW i \in {"running", "stopped", "terminated"},
           row' = [row EXCEPT ![thr[t].valor] = r],
           instance' = [instance EXCEPT ![thr[t].valor] = i],
           place' \in [Virtue -> Valor \cup {None}], spawned' \in 0 .. MaxSpawned,
           UNCHANGED <<calm, failures>>, missed' \subseteq Valor,
           Works(thr[t], thr[t].valor)
               /\ Stage(thr[t].pc, row[thr[t].valor], instance[thr[t].valor])
           => IF Works(n, thr[t].valor) THEN Stage(n.pc, r, i) ELSE Match(r, i),
           ~ Works(thr[t], thr[t].valor) =>
               /\ ~ Works(n, thr[t].valor)
               /\ r = row[thr[t].valor] /\ i = instance[thr[t].valor],
           r = "CREATING" =>
               \/ Attends(n, i, thr[t].valor)
               \/ /\ r = row[thr[t].valor] /\ i = instance[thr[t].valor]
                  /\ ~ Attends(thr[t], i, thr[t].valor)
    PROVE  IInv'
<1> DEFINE a == thr[t].valor
<1>1. a \in Valor /\ None \notin Valor
  BY FleetAssumption DEF IInv, TypeOK, Local, ThreadInv, FleetAssumption
<1>2. /\ row'[a] = r /\ instance'[a] = i
      /\ \A b \in Valor \ {a} : row'[b] = row[b] /\ instance'[b] = instance[b]
  BY <1>1 DEF IInv, TypeOK
<1>3. TypeOK'
  BY <1>1 DEF IInv, TypeOK
<1>4. n.valor \in {a, None} /\ (n.pc = "idle" <=> n.valor = None)
      /\ n.pc # "register" /\ (n.pc \in {"verify", "insert"} => n.virtue # None)
  BY <1>1 DEF Idle
<1>5. \A u \in Thread \ {t} : thr[u].pc = "register" => thr[u].valor # a
  BY DEF IInv, RegisterInv
<1>6. a \in calm /\ Works(thr[t], a) =>
          Stage(thr[t].pc, row[a], instance[a]) /\ \A u \in Thread \ {t} : ~ Works(thr[u], a)
  BY DEF IInv, CalmInv
<1>7. a \in calm' =>
          \/ /\ \A u \in Thread \ {t} : ~ Works(thr[u], a)
             /\ Works(n, a) => Stage(n.pc, row'[a], instance'[a])
             /\ ~ Works(n, a) => Match(row'[a], instance'[a])
          \/ /\ row'[a] = row[a] /\ instance'[a] = instance[a]
             /\ ~ Works(thr[t], a) /\ ~ Works(n, a)
  BY <1>2, <1>6
<1>8. failures' = 0 /\ row'[a] = "CREATING" =>
          \/ Attends(n, instance'[a], a)
          \/ row'[a] = row[a] /\ instance'[a] = instance[a] /\ ~ Attends(thr[t], instance[a], a)
  BY <1>2
<1>9. instance'[a] # "none" /\ calm' \subseteq calm /\ (failures' = 0 => failures = 0)
  BY <1>2
<1>10. thr[t].valor \in {a, None}
  OBVIOUS
<1>11. /\ n.pc \in {"verify", "insert"} => n.virtue # None
       /\ n.pc = "register" =>
             /\ row'[a] = "none" /\ instance'[a] = "running"
             /\ \A u \in Thread \ {t} : thr[u].valor # a
       /\ a \in Valor /\ n.valor \in {a, None} /\ (n.pc = "idle" <=> n.valor = None)
       /\ \A b \in Valor \ {a} : row'[b] = row[b] /\ instance'[b] = instance[b]
  BY <1>1, <1>2, <1>4
<1> HIDE DEF a
<1> QED
  BY <1>3, <1>5, <1>7, <1>8, <1>9, <1>10, <1>11, ThreadStep, ZenonT(60)

\* What the lemmas on the single steps need of the thread's valor.
LEMMA Own ==
    ASSUME IInv, NEW t \in Thread, thr[t].pc # "idle"
    PROVE  /\ thr[t] \in Local /\ thr[t].valor \in Valor
           /\ row[thr[t].valor] \in {"none", "CREATING", "STOPPED", "RUNNING"}
           /\ instance[thr[t].valor] \in {"running", "stopped", "terminated"}
           /\ row = [row EXCEPT ![thr[t].valor] = row[thr[t].valor]]
           /\ instance = [instance EXCEPT ![thr[t].valor] = instance[thr[t].valor]]
           /\ place \in [Virtue -> Valor \cup {None}] /\ spawned \in 0 .. MaxSpawned
           /\ missed \subseteq Valor
  BY DEF IInv, TypeOK, Local, ThreadInv

LEMMA GotoFacts ==
    ASSUME IInv, NEW t \in Thread,
           NEW pc \in {"setup", "await", "markStopped", "start", "reach", "markRunning", "halt",
                       "markHalted", "spawn", "terminate", "removeRow", "insert"}
    PROVE  LET n == [thr[t] EXCEPT !.pc = pc]
           IN  /\ n \in Local /\ n.pc = pc /\ n.valor = thr[t].valor /\ n.virtue = thr[t].virtue
               /\ Goto(t, pc) => thr' = [thr EXCEPT ![t] = n]
  BY DEF IInv, TypeOK, Local, Goto

LEMMA IdleFacts == Idle \in Local /\ Idle.pc = "idle" /\ Idle.valor = None /\ Idle.virtue = None
  BY DEF Idle, Local

\* A step to another place of the same operation ...
LEMMA Moves ==
    ASSUME IInv, NEW t \in Thread, thr[t].pc \notin {"idle", "verify", "spawn", "insert"},
           NEW pc \in {"setup", "await", "markStopped", "start", "reach", "markRunning", "halt",
                       "markHalted", "spawn", "terminate", "removeRow"},
           Goto(t, pc),
           NEW r \in {"none", "CREATING", "STOPPED", "RUNNING"},
           NEW i \in {"running", "stopped", "terminated"},
           row' = [row EXCEPT ![thr[t].valor] = r],
           instance' = [instance EXCEPT ![thr[t].valor] = i],
           UNCHANGED <<place, spawned, calm, missed, failures>>,
           Stage(thr[t].pc, row[thr[t].valor], instance[thr[t].valor]) => Stage(pc, r, i),
           r = "CREATING" =>
               \/ Attends([valor |-> thr[t].valor, pc |-> pc], i, thr[t].valor)
               \/ /\ r = row[thr[t].valor] /\ i = instance[thr[t].valor]
                  /\ ~ Attends(thr[t], i, thr[t].valor)
    PROVE  IInv'
<1> DEFINE n == [thr[t] EXCEPT !.pc = pc]
<1>1. /\ n \in Local /\ n.pc = pc /\ n.valor = thr[t].valor /\ n.virtue = thr[t].virtue
      /\ thr' = [thr EXCEPT ![t] = n]
  BY DEF IInv, TypeOK, Local, Goto
<1> HIDE DEF n
<1>2. thr[t].pc # "idle" /\ n.pc \notin {"idle", "register", "verify", "insert"}
  BY <1>1
<1>3. place' \in [Virtue -> Valor \cup {None}] /\ spawned' \in 0 .. MaxSpawned
      /\ missed' \subseteq Valor
  BY <1>2, Own
<1>4. Works(thr[t], thr[t].valor)
  BY DEF Works
<1>5. Stage(n.pc, r, i) => IF Works(n, thr[t].valor) THEN Stage(n.pc, r, i) ELSE Match(r, i)
  <2>1. CASE n.pc = "spawn"
    BY <2>1 DEF Stage, Match
  <2>2. CASE n.pc # "spawn"
    <3>1. Works(n, thr[t].valor)
      BY <1>1, <1>2, <2>2 DEF Works
    <3> QED
      BY <3>1
  <2> QED
    BY <2>1, <2>2
<1>6. Attends([valor |-> thr[t].valor, pc |-> pc], i, thr[t].valor) => Attends(n, i, thr[t].valor)
  BY <1>1 DEF Attends
<1> QED
  BY <1>1, <1>2, <1>3, <1>4, <1>5, <1>6, OwnStep, ZenonT(60)

\* ... and its last one.
LEMMA Ends ==
    ASSUME IInv, NEW t \in Thread, thr[t].pc \notin {"idle", "verify", "spawn", "insert"},
           End(t),
           NEW r \in {"none", "CREATING", "STOPPED", "RUNNING"},
           row' = [row EXCEPT ![thr[t].valor] = r],
           UNCHANGED <<instance, place, spawned, calm, missed, failures>>,
           Stage(thr[t].pc, row[thr[t].valor], instance[thr[t].valor])
           => Match(r, instance[thr[t].valor]),
           r = "CREATING" =>
               /\ r = row[thr[t].valor]
               /\ ~ Attends(thr[t], instance[thr[t].valor], thr[t].valor)
    PROVE  IInv'
<1>1. Idle \in Local /\ thr' = [thr EXCEPT ![t] = Idle]
  BY IdleFacts DEF End
<1>2. Works(thr[t], thr[t].valor)
  BY DEF Works
<1>3. thr[t].pc # "idle"
  OBVIOUS
<1>4. ~ Works(Idle, thr[t].valor)
  BY <1>3, Own, IdleFacts, FleetAssumption DEF Works, FleetAssumption
<1>5. /\ place' \in [Virtue -> Valor \cup {None}] /\ spawned' \in 0 .. MaxSpawned
      /\ missed' \subseteq Valor
      /\ instance[thr[t].valor] \in {"running", "stopped", "terminated"}
      /\ instance' = [instance EXCEPT ![thr[t].valor] = instance[thr[t].valor]]
  BY <1>3, Own
<1> QED
  BY <1>1, <1>2, <1>3, <1>4, <1>5, OwnStep, ZenonT(60)

LEMMA RegisterStep == ASSUME IInv, NEW t \in Thread, Register(t) PROVE IInv'
<1>1. /\ thr[t].pc = "register" /\ row[thr[t].valor] = "none" /\ instance[thr[t].valor] = "running"
  BY DEF Register, At, IInv, RegisterInv
<1>2. /\ Goto(t, "setup") /\ UNCHANGED <<place, spawned, calm, missed, failures>>
      /\ row' = [row EXCEPT ![thr[t].valor] = "CREATING"]
      /\ instance' = [instance EXCEPT ![thr[t].valor] = "running"]
  BY <1>1, Own DEF Register
<1>3. Stage("setup", "CREATING", "running")
  BY DEF Stage
<1>4. Attends([valor |-> thr[t].valor, pc |-> "setup"], "running", thr[t].valor)
  BY DEF Attends
<1> QED
  BY <1>1, <1>2, <1>3, <1>4, Moves, ZenonT(60)

LEMMA SetupStep == ASSUME IInv, NEW t \in Thread, Setup(t) PROVE IInv'
<1> DEFINE a == thr[t].valor
<1>1. thr[t].pc = "setup" /\ UNCHANGED <<row, place, spawned, calm, missed, failures>>
  BY DEF Setup, At
<1>2. /\ row[a] \in {"none", "CREATING", "STOPPED", "RUNNING"}
      /\ row' = [row EXCEPT ![a] = row[a]]
  BY <1>1, Own
<1>3. CASE instance[a] = "running"
  <2>1. Goto(t, "await") /\ instance' = [instance EXCEPT ![a] = "stopped"]
    BY <1>3 DEF Setup
  <2>2. Stage("setup", row[a], instance[a]) => Stage("await", row[a], "stopped")
    BY DEF Stage
  <2>3. Attends([valor |-> a, pc |-> "await"], "stopped", a)
    BY DEF Attends
  <2> QED
    BY <1>1, <1>2, <2>1, <2>2, <2>3, Moves, ZenonT(60)
<1>4. CASE instance[a] # "running"
  <2>1. End(t) /\ UNCHANGED instance
    BY <1>4 DEF Setup
  <2>2. ~ Stage("setup", row[a], instance[a])
    BY <1>4 DEF Stage
  <2>3. ~ Attends(thr[t], instance[a], a)
    BY <1>1, <1>4 DEF Attends
  <2> QED
    BY <1>1, <1>2, <2>1, <2>2, <2>3, Ends
<1> QED
  BY <1>3, <1>4

LEMMA AwaitStep == ASSUME IInv, NEW t \in Thread, AwaitStopped(t) PROVE IInv'
<1> DEFINE a == thr[t].valor
<1>1. thr[t].pc = "await" /\ UNCHANGED <<row, instance, place, spawned, calm, missed, failures>>
  BY DEF AwaitStopped, At
<1>2. /\ row[a] \in {"none", "CREATING", "STOPPED", "RUNNING"}
      /\ row' = [row EXCEPT ![a] = row[a]]
  BY <1>1, Own
<1>3. CASE instance[a] = "stopped"
  <2>1. Goto(t, "markStopped") /\ instance' = [instance EXCEPT ![a] = "stopped"]
    BY <1>1, <1>3, Own DEF AwaitStopped
  <2>2. Stage("await", row[a], instance[a]) => Stage("markStopped", row[a], "stopped")
    BY DEF Stage
  <2>3. Attends([valor |-> a, pc |-> "markStopped"], "stopped", a)
    BY DEF Attends
  <2> QED
    BY <1>1, <1>2, <2>1, <2>2, <2>3, Moves, ZenonT(60)
<1>4. CASE instance[a] # "stopped"
  <2>1. End(t)
    BY <1>4 DEF AwaitStopped
  <2>2. ~ Stage("await", row[a], instance[a])
    BY <1>4 DEF Stage
  <2>3. ~ Attends(thr[t], instance[a], a)
    BY <1>1, <1>4 DEF Attends
  <2> QED
    BY <1>1, <1>2, <2>1, <2>2, <2>3, Ends
<1> QED
  BY <1>3, <1>4

\* set_valor leaves a valor without a row without one.
LEMMA SetRowFacts ==
    ASSUME IInv, NEW t \in Thread, thr[t].pc # "idle",
           NEW state \in {"STOPPED", "RUNNING"}, SetRow(thr[t].valor, state)
    PROVE  LET r == IF row[thr[t].valor] = "none" THEN "none" ELSE state
           IN  /\ r \in {"none", "CREATING", "STOPPED", "RUNNING"} /\ r # "CREATING"
               /\ row' = [row EXCEPT ![thr[t].valor] = r]
  BY Own DEF SetRow

LEMMA MarkStoppedStep == ASSUME IInv, NEW t \in Thread, MarkStopped(t) PROVE IInv'
<1> DEFINE a == thr[t].valor
           r == IF row[a] = "none" THEN "none" ELSE "STOPPED"
<1>1. /\ thr[t].pc = "markStopped" /\ UNCHANGED <<instance, place, spawned, calm, missed, failures>>
      /\ SetRow(a, "STOPPED")
  BY DEF MarkStopped, At
<1>2. /\ r \in {"none", "CREATING", "STOPPED", "RUNNING"} /\ r # "CREATING"
      /\ row' = [row EXCEPT ![a] = r]
  BY <1>1, SetRowFacts
<1>3. PICK i \in {"running", "stopped", "terminated"} :
          i = instance[a] /\ instance' = [instance EXCEPT ![a] = i]
  BY <1>1, Own
<1>4. Stage(thr[t].pc, row[a], instance[a])
      => Match(r, instance[a])
  BY <1>1, <1>3 DEF Stage, InUse, Match
<1>5. r = "CREATING" =>
          \/ Attends([valor |-> a, pc |-> "start"], i, a)
          \/ r = row[a] /\ i = instance[a] /\ ~ Attends(thr[t], i, a)
  BY <1>2
<1>6. thr[t].pc \notin {"idle", "verify", "spawn", "insert"}
  BY <1>1
<1>9. Stage(thr[t].pc, row[a], instance[a]) => Stage("start", r, i)
  BY <1>1, <1>3 DEF Stage, InUse
<1> HIDE DEF r
<1>7. CASE thr[t].after = "end"
  <2>1. End(t)
    BY <1>7 DEF MarkStopped
  <2> QED
    BY <1>1, <1>2, <1>4, <2>1, Ends
<1>8. CASE thr[t].after # "end"
  <2>1. Goto(t, "start")
    BY <1>8 DEF MarkStopped
  <2> QED
    BY <1>9, <1>1, <1>2, <1>3, <1>5, <1>6, <2>1, Moves, ZenonT(60)
<1> QED
  BY <1>7, <1>8

LEMMA StartStep == ASSUME IInv, NEW t \in Thread, Start(t) PROVE IInv'
<1> DEFINE a == thr[t].valor
<1>1. thr[t].pc = "start" /\ UNCHANGED <<row, place, spawned, calm, missed, failures>>
  BY DEF Start, At
<1>2. /\ row[a] \in {"none", "CREATING", "STOPPED", "RUNNING"}
      /\ row' = [row EXCEPT ![a] = row[a]]
  BY <1>1, Own
<1>3. CASE instance[a] # "terminated"
  <2>1. Goto(t, "reach") /\ instance' = [instance EXCEPT ![a] = "running"]
    BY <1>3 DEF Start
  <2>2. Stage("start", row[a], instance[a]) => Stage("reach", row[a], "running")
    BY DEF Stage, InUse
  <2>3. Attends([valor |-> a, pc |-> "reach"], "running", a)
    BY DEF Attends
  <2> QED
    BY <1>1, <1>2, <2>1, <2>2, <2>3, Moves, ZenonT(60)
<1>4. CASE instance[a] = "terminated"
  <2>1. End(t) /\ UNCHANGED instance
    BY <1>4 DEF Start
  <2>2. ~ Stage("start", row[a], instance[a])
    BY <1>4 DEF Stage, InUse
  <2>3. ~ Attends(thr[t], instance[a], a)
    BY <1>1 DEF Attends
  <2> QED
    BY <1>1, <1>2, <2>1, <2>2, <2>3, Ends
<1> QED
  BY <1>3, <1>4

LEMMA ReachStep == ASSUME IInv, NEW t \in Thread, Reach(t) PROVE IInv'
<1> DEFINE a == thr[t].valor
<1>1. thr[t].pc = "reach" /\ UNCHANGED <<row, instance, place, spawned, calm, missed, failures>>
  BY DEF Reach, At
<1>2. /\ row[a] \in {"none", "CREATING", "STOPPED", "RUNNING"}
      /\ row' = [row EXCEPT ![a] = row[a]]
  BY <1>1, Own
<1>3. CASE instance[a] = "running"
  <2>1. Goto(t, "markRunning") /\ instance' = [instance EXCEPT ![a] = "running"]
    BY <1>1, <1>3, Own DEF Reach
  <2>2. Stage("reach", row[a], instance[a]) => Stage("markRunning", row[a], "running")
    BY DEF Stage
  <2>3. Attends([valor |-> a, pc |-> "markRunning"], "running", a)
    BY DEF Attends
  <2> QED
    BY <1>1, <1>2, <2>1, <2>2, <2>3, Moves, ZenonT(60)
<1>4. CASE instance[a] # "running"
  <2>1. End(t)
    BY <1>4 DEF Reach
  <2>2. ~ Stage("reach", row[a], instance[a])
    BY <1>4 DEF Stage
  <2>3. ~ Attends(thr[t], instance[a], a)
    BY <1>1, <1>4 DEF Attends
  <2> QED
    BY <1>1, <1>2, <2>1, <2>2, <2>3, Ends
<1> QED
  BY <1>3, <1>4

LEMMA MarkRunningStep == ASSUME IInv, NEW t \in Thread, MarkRunning(t) PROVE IInv'
<1> DEFINE a == thr[t].valor
           r == IF row[a] = "none" THEN "none" ELSE "RUNNING"
<1>1. /\ thr[t].pc = "markRunning" /\ UNCHANGED <<instance, place, spawned, calm, missed, failures>>
      /\ SetRow(a, "RUNNING")
  BY DEF MarkRunning, At
<1>2. /\ r \in {"none", "CREATING", "STOPPED", "RUNNING"} /\ r # "CREATING"
      /\ row' = [row EXCEPT ![a] = r]
  BY <1>1, SetRowFacts
<1>3. PICK i \in {"running", "stopped", "terminated"} :
          i = instance[a] /\ instance' = [instance EXCEPT ![a] = i]
  BY <1>1, Own
<1>4. Stage(thr[t].pc, row[a], instance[a])
      => Match(r, instance[a])
  BY <1>1, <1>3 DEF Stage, InUse, Match
<1>5. r = "CREATING" =>
          \/ Attends([valor |-> a, pc |-> "spawn"], i, a)
          \/ r = row[a] /\ i = instance[a] /\ ~ Attends(thr[t], i, a)
  BY <1>2
<1>6. thr[t].pc \notin {"idle", "verify", "spawn", "insert"}
  BY <1>1
<1>9. Stage(thr[t].pc, row[a], instance[a]) => Stage("spawn", r, i)
  BY <1>1, <1>3 DEF Stage, InUse
<1> HIDE DEF r
<1>7. CASE End(t)
  BY <1>1, <1>2, <1>4, <1>7, Ends
<1>8. CASE Goto(t, "spawn")
  BY <1>9, <1>1, <1>2, <1>3, <1>5, <1>6, <1>8, Moves, ZenonT(60)
<1>10. CASE thr[t].virtue # None
            /\ thr' = [thr EXCEPT ![t].pc = "verify", ![t].after = "place"]
  <2> DEFINE n == [[thr[t] EXCEPT !.pc = "verify"] EXCEPT !.after = "place"]
  <2>1. /\ n \in Local /\ n.pc = "verify" /\ n.valor = a /\ n.virtue = thr[t].virtue
        /\ thr' = [thr EXCEPT ![t] = n]
    BY <1>10 DEF IInv, TypeOK, Local
  <2> HIDE DEF n
  <2>2. ~ Works(n, a)
    BY <1>10, <2>1 DEF Works
  <2>3. Works(thr[t], a)
    BY <1>1 DEF Works
  <2>4. /\ place' \in [Virtue -> Valor \cup {None}] /\ spawned' \in 0 .. MaxSpawned
        /\ missed' \subseteq Valor
    BY <1>1, Own
  <2>5. n.pc \notin {"idle", "register"} /\ n.virtue # None /\ thr[t].pc # "idle"
    BY <1>1, <1>10, <2>1
  <2> QED
    BY <1>1, <1>2, <1>3, <1>4, <2>1, <2>2, <2>3, <2>4, <2>5, OwnStep, ZenonT(60)
<1> QED
  BY <1>7, <1>8, <1>10 DEF MarkRunning

LEMMA HaltStep == ASSUME IInv, NEW t \in Thread, Halt(t) PROVE IInv'
<1> DEFINE a == thr[t].valor
<1>1. thr[t].pc = "halt" /\ UNCHANGED <<row, place, spawned, calm, missed, failures>>
  BY DEF Halt, At
<1>2. /\ row[a] \in {"none", "CREATING", "STOPPED", "RUNNING"}
      /\ row' = [row EXCEPT ![a] = row[a]]
  BY <1>1, Own
<1>3. CASE instance[a] # "terminated"
  <2>1. Goto(t, "markHalted") /\ instance' = [instance EXCEPT ![a] = "stopped"]
    BY <1>3 DEF Halt
  <2>2. Stage("halt", row[a], instance[a]) => Stage("markHalted", row[a], "stopped")
    BY DEF Stage, InUse
  <2>3. Attends([valor |-> a, pc |-> "markHalted"], "stopped", a)
    BY DEF Attends
  <2> QED
    BY <1>1, <1>2, <2>1, <2>2, <2>3, Moves, ZenonT(60)
<1>4. CASE instance[a] = "terminated"
  <2>1. End(t) /\ UNCHANGED instance
    BY <1>4 DEF Halt
  <2>2. ~ Stage("halt", row[a], instance[a])
    BY <1>4 DEF Stage, InUse
  <2>3. ~ Attends(thr[t], instance[a], a)
    BY <1>1 DEF Attends
  <2> QED
    BY <1>1, <1>2, <2>1, <2>2, <2>3, Ends
<1> QED
  BY <1>3, <1>4

LEMMA MarkHaltedStep == ASSUME IInv, NEW t \in Thread, MarkHalted(t) PROVE IInv'
<1> DEFINE a == thr[t].valor
           r == IF row[a] = "none" THEN "none" ELSE "STOPPED"
<1>1. /\ thr[t].pc = "markHalted" /\ UNCHANGED <<instance, place, spawned, calm, missed, failures>>
      /\ SetRow(a, "STOPPED") /\ End(t)
  BY DEF MarkHalted, At
<1>2. /\ r \in {"none", "CREATING", "STOPPED", "RUNNING"} /\ r # "CREATING"
      /\ row' = [row EXCEPT ![a] = r]
  BY <1>1, SetRowFacts
<1>3. Stage("markHalted", row[a], instance[a]) => Match(r, instance[a])
  BY DEF Stage, InUse, Match
<1> HIDE DEF r
<1> QED
  BY <1>1, <1>2, <1>3, Ends

LEMMA TerminateStep == ASSUME IInv, NEW t \in Thread, Terminate(t) PROVE IInv'
<1> DEFINE a == thr[t].valor
<1>1. /\ thr[t].pc = "terminate" /\ UNCHANGED <<row, place, spawned, calm, missed, failures>>
      /\ Goto(t, "removeRow") /\ instance' = [instance EXCEPT ![a] = "terminated"]
  BY DEF Terminate, At
<1>2. /\ row[a] \in {"none", "CREATING", "STOPPED", "RUNNING"}
      /\ row' = [row EXCEPT ![a] = row[a]]
  BY <1>1, Own
<1>3. Stage("terminate", row[a], instance[a]) => Stage("removeRow", row[a], "terminated")
  BY DEF Stage, InUse
<1>4. Attends([valor |-> a, pc |-> "removeRow"], "terminated", a)
  BY DEF Attends
<1> QED
  BY <1>1, <1>2, <1>3, <1>4, Moves, ZenonT(60)

LEMMA MatchRowStep == ASSUME IInv, NEW t \in Thread, MatchRow(t) PROVE IInv'
<1> DEFINE a == thr[t].valor
           n == [[thr[t] EXCEPT !.pc = "deleteRow"] EXCEPT !.seen = row[a]]
<1>1. thr[t].pc = "removeRow" /\ UNCHANGED <<row, instance, place, spawned, calm, missed, failures>>
  BY DEF MatchRow, At
<1>2. /\ row[a] \in {"none", "CREATING", "STOPPED", "RUNNING"}
      /\ instance[a] \in {"running", "stopped", "terminated"}
      /\ row' = [row EXCEPT ![a] = row[a]] /\ instance' = [instance EXCEPT ![a] = instance[a]]
      /\ place' \in [Virtue -> Valor \cup {None}] /\ spawned' \in 0 .. MaxSpawned
      /\ missed' \subseteq Valor /\ a \in Valor
  BY <1>1, Own
<1>3. CASE row[a] = "none"
  <2>1. End(t)
    BY <1>3 DEF MatchRow
  <2>2. ~ Stage("removeRow", row[a], instance[a])
    BY <1>3 DEF Stage
  <2> QED
    BY <1>1, <1>2, <1>3, <2>1, <2>2, Ends
<1>4. CASE row[a] # "none"
  <2>0. thr' = [thr EXCEPT ![t].pc = "deleteRow", ![t].seen = row[a]]
    BY <1>4 DEF MatchRow
  <2>1. /\ n \in Local /\ n.pc = "deleteRow" /\ n.valor = a /\ n.virtue = thr[t].virtue
        /\ thr' = [thr EXCEPT ![t] = n]
    BY <1>2, <2>0 DEF IInv, TypeOK, Local
  <2> HIDE DEF n
  <2>2. Works(thr[t], a) /\ Works(n, a)
    BY <1>1, <2>1 DEF Works
  <2>3. /\ Stage("removeRow", row[a], instance[a]) => Stage("deleteRow", row[a], instance[a])
        /\ Attends(n, instance[a], a) <=> Attends(thr[t], instance[a], a)
    BY <1>1, <2>1 DEF Stage, Attends
  <2>4. n.pc \notin {"idle", "register", "verify", "insert"} /\ thr[t].pc # "idle"
    BY <1>1, <2>1
  <2> QED
    BY <1>1, <1>2, <2>1, <2>2, <2>3, <2>4, OwnStep, ZenonT(60)
<1> QED
  BY <1>3, <1>4

\* What remove_valor read of a row that it is about to delete: the state the row
\* still has, if the operations on the valor take turns or it was never set.
SeenInv ==
    \A t \in Thread : thr[t].pc = "deleteRow" =>
        /\ row[thr[t].valor] = "CREATING" => thr[t].seen = "CREATING"
        /\ thr[t].valor \in calm => thr[t].seen = row[thr[t].valor]

LEMMA DeleteRowStep == ASSUME IInv, SeenInv, NEW t \in Thread, DeleteRow(t) PROVE IInv'
<1> DEFINE a == thr[t].valor
<1>1. /\ thr[t].pc = "deleteRow" /\ UNCHANGED <<instance, place, spawned, calm, failures>>
      /\ End(t)
  BY DEF DeleteRow, At
<1>2. /\ row[a] \in {"none", "CREATING", "STOPPED", "RUNNING"}
      /\ instance[a] \in {"running", "stopped", "terminated"}
      /\ row = [row EXCEPT ![a] = row[a]] /\ instance' = [instance EXCEPT ![a] = instance[a]]
      /\ place' \in [Virtue -> Valor \cup {None}] /\ spawned' \in 0 .. MaxSpawned
      /\ missed \subseteq Valor /\ a \in Valor
  BY <1>1, Own
<1>3. CASE row[a] = thr[t].seen
  <2>1. row' = [row EXCEPT ![a] = "none"] /\ UNCHANGED missed
    BY <1>3 DEF DeleteRow
  <2>2. Stage("deleteRow", row[a], instance[a]) => Match("none", instance[a])
    BY DEF Stage, Match
  <2> QED
    BY <1>1, <2>1, <2>2, Ends
<1>4. CASE row[a] # thr[t].seen
  <2>1. row' = row /\ missed' = missed \cup {a} /\ a \notin calm /\ row[a] # "CREATING"
    BY <1>1, <1>4 DEF DeleteRow, SeenInv
  <2>2. row' = [row EXCEPT ![a] = row[a]] /\ missed' \subseteq Valor /\ calm' = calm
    BY <1>1, <1>2, <2>1
  <2>3. /\ thr' = [thr EXCEPT ![t] = Idle] /\ Idle \in Local
        /\ thr[t].valor \in {a, None} /\ Idle.valor \in {a, None}
        /\ (Idle.pc = "idle" <=> Idle.valor = None)
        /\ (Idle.pc \in {"verify", "insert"} => Idle.virtue # None)
        /\ (Idle.pc = "register" =>
               /\ row'[a] = "none" /\ instance'[a] = "running"
               /\ \A u \in Thread \ {t} : thr[u].valor # a)
    BY <1>1, IdleFacts DEF End
  <2>4. TypeOK'
    BY <1>1, <2>1, <2>2, <2>3 DEF IInv, TypeOK
  <2>5. /\ \A b \in Valor \ {a} : row'[b] = row[b] /\ instance'[b] = instance[b]
        /\ instance'[a] # "none" /\ row'[a] # "CREATING"
        /\ \A u \in Thread \ {t} : thr[u].pc = "register" => thr[u].valor # a
    BY <1>1, <1>2, <2>1 DEF IInv, RegisterInv
  <2>6. a \notin calm' /\ calm' \subseteq calm /\ (failures' = 0 => failures = 0)
    BY <1>1, <2>1
  <2> HIDE DEF a
  <2>7. /\ a \in calm' =>
              \/ /\ \A u \in Thread \ {t} : ~ Works(thr[u], a)
                 /\ Works(Idle, a) => Stage(Idle.pc, row'[a], instance'[a])
                 /\ ~ Works(Idle, a) => Match(row'[a], instance'[a])
              \/ /\ row'[a] = row[a] /\ instance'[a] = instance[a]
                 /\ ~ Works(thr[t], a) /\ ~ Works(Idle, a)
        /\ failures' = 0 /\ row'[a] = "CREATING" =>
              \/ Attends(Idle, instance'[a], a)
              \/ row'[a] = row[a] /\ instance'[a] = instance[a] /\ ~ Attends(thr[t], instance[a], a)
    BY <2>5, <2>6
  <2>8. a \in Valor
    BY <1>2 DEF a
  <2> QED
    BY <2>3, <2>4, <2>5, <2>6, <2>7, <2>8, ThreadStep, ZenonT(60)
<1> QED
  BY <1>3, <1>4

(***************************************************************************)
(* Placing virtues                                                         *)
(***************************************************************************)

LEMMA MissingType == ASSUME TypeOK PROVE Missing \in Nat
<1>1. IsFiniteSet(Available)
  BY FS_Subset, FleetAssumption DEF Available, FleetAssumption
<1>2. Cardinality(Available) \in Nat
  BY <1>1, FS_CardinalityType
<1> QED
  BY <1>2, FleetAssumption DEF Missing, FleetAssumption

LEMMA CreateStandbyStep == ASSUME IInv, NEW t \in Thread, CreateStandbyValors(t) PROVE IInv'
<1> DEFINE a == thr[t].valor
           pc == IF thr[t].virtue = None THEN "terminate" ELSE "insert"
           n == [thr[t] EXCEPT !.pc = pc]
<1>1. /\ thr[t].pc = "spawn" /\ UNCHANGED <<row, instance, place, calm, missed, failures>>
      /\ Goto(t, pc)
  BY DEF CreateStandbyValors, At
<1>2. /\ n \in Local /\ n.pc = pc /\ n.valor = a /\ n.virtue = thr[t].virtue
      /\ thr' = [thr EXCEPT ![t] = n]
  BY <1>1 DEF IInv, TypeOK, Local, Goto
<1>3. spawned' \in 0 .. MaxSpawned
  <2>1. Missing \in Nat /\ MaxSpawned \in Nat /\ spawned \in 0 .. MaxSpawned
    BY MissingType, FleetAssumption DEF IInv, TypeOK, FleetAssumption
  <2>2. spawned' = IF spawned + Missing <= MaxSpawned THEN spawned + Missing ELSE MaxSpawned
    BY DEF CreateStandbyValors
  <2> HIDE DEF Missing
  <2> QED
    BY <2>1, <2>2
<1>4. /\ row[a] \in {"none", "CREATING", "STOPPED", "RUNNING"}
      /\ instance[a] \in {"running", "stopped", "terminated"}
      /\ row' = [row EXCEPT ![a] = row[a]] /\ instance' = [instance EXCEPT ![a] = instance[a]]
      /\ place' \in [Virtue -> Valor \cup {None}] /\ missed' \subseteq Valor
  BY <1>1, Own
<1>5. ~ Attends(thr[t], instance[a], a)
  BY <1>1 DEF Attends
<1>6. pc \notin {"idle", "register"} /\ (pc \in {"verify", "insert"} => thr[t].virtue # None)
  OBVIOUS
<1>7. /\ Works(thr[t], a) <=> thr[t].virtue = None
      /\ Works(n, a) <=> thr[t].virtue = None
  BY <1>1, <1>2 DEF Works
<1>8. Works(thr[t], a) /\ Stage(thr[t].pc, row[a], instance[a])
      => IF Works(n, a) THEN Stage(n.pc, row[a], instance[a]) ELSE Match(row[a], instance[a])
  <2>1. Stage("spawn", row[a], instance[a]) => Stage("terminate", row[a], instance[a])
    BY DEF Stage
  <2> QED
    BY <1>1, <1>2, <1>7, <2>1
<1>9. ~ Works(thr[t], a) => ~ Works(n, a)
  BY <1>7
<1>10. /\ n.pc \notin {"idle", "register"} /\ n.valor = thr[t].valor
       /\ n.virtue = thr[t].virtue /\ (n.pc \in {"verify", "insert"} => n.virtue # None)
  BY <1>2, <1>6
<1>11. UNCHANGED <<calm, missed, failures>> /\ thr[t].pc # "idle"
  BY <1>1
<1> HIDE DEF n, pc
<1> QED
  BY <1>2, <1>3, <1>4, <1>5, <1>8, <1>9, <1>10, <1>11, OwnStep, ZenonT(60)

LEMMA InsertStep == ASSUME IInv, NEW t \in Thread, InsertVirtue(t) PROVE IInv'
<1> DEFINE a == thr[t].valor
<1>1. /\ thr[t].pc = "insert" /\ UNCHANGED <<row, instance, spawned, calm, missed, failures>>
      /\ End(t) /\ thr[t].virtue # None /\ thr[t].virtue \in Virtue
  BY DEF InsertVirtue, At, IInv, ThreadInv, TypeOK, Local
<1>2. Idle \in Local /\ thr' = [thr EXCEPT ![t] = Idle]
  BY <1>1, IdleFacts DEF End
<1>3. /\ row[a] \in {"none", "CREATING", "STOPPED", "RUNNING"}
      /\ instance[a] \in {"running", "stopped", "terminated"}
      /\ row' = [row EXCEPT ![a] = row[a]] /\ instance' = [instance EXCEPT ![a] = instance[a]]
      /\ spawned' \in 0 .. MaxSpawned /\ a \in Valor /\ missed' \subseteq Valor
  BY <1>1, Own
<1>4. place' \in [Virtue -> Valor \cup {None}]
  BY <1>3 DEF InsertVirtue, IInv, TypeOK
<1>5. ~ Attends(thr[t], instance[a], a) /\ ~ Works(thr[t], a)
  BY <1>1 DEF Attends, Works
<1>6. ~ Works(Idle, a)
  BY <1>3, IdleFacts, FleetAssumption DEF Works, FleetAssumption
<1> QED
  BY <1>1, <1>2, <1>3, <1>4, <1>5, <1>6, OwnStep, ZenonT(60)

\* A thread begins to operate on a valor that has a row.
LEMMA Begins ==
    ASSUME IInv, NEW t \in Thread, NEW a \in Valor, NEW n \in Local,
           n.pc \in {"start", "halt", "spawn"}, n.valor = a,
           thr[t].valor \in {a, None}, ~ Works(thr[t], a), ~ Attends(thr[t], instance[a], a),
           thr' = [thr EXCEPT ![t] = n], row[a] # "none", Touch(t, a),
           UNCHANGED <<row, instance, place, spawned, missed, failures>>
    PROVE  IInv'
<1>1. None \notin Valor
  BY FleetAssumption DEF FleetAssumption
<1>2. calm' \subseteq calm
  BY DEF Touch
<1>3. TypeOK'
  BY <1>2 DEF IInv, TypeOK
<1>4. /\ instance'[a] # "none" /\ (n.pc = "idle" <=> n.valor = None)
      /\ \A u \in Thread \ {t} : thr[u].pc = "register" => thr[u].valor # a
  BY <1>1 DEF IInv, RegisterInv
<1>5. a \in calm' =>
          /\ \A u \in Thread \ {t} : ~ Works(thr[u], a)
          /\ Stage(n.pc, row'[a], instance'[a])
  <2> SUFFICES ASSUME a \in calm'
               PROVE  /\ \A u \in Thread \ {t} : ~ Works(thr[u], a)
                      /\ Stage(n.pc, row[a], instance[a])
    OBVIOUS
  <2>1. \A u \in Thread \ {t} : ~ Works(thr[u], a)
    BY DEF Touch, Operates, Works
  <2>2. Match(row[a], instance[a])
    BY <1>2, <2>1 DEF IInv, CalmInv
  <2>3. InUse(row[a], instance[a])
    BY <2>2 DEF Match
  <2> QED
    BY <2>1, <2>3 DEF Stage
<1>6. a \in calm' =>
          \/ /\ \A u \in Thread \ {t} : ~ Works(thr[u], a)
             /\ Works(n, a) => Stage(n.pc, row'[a], instance'[a])
             /\ ~ Works(n, a) => Match(row'[a], instance'[a])
          \/ /\ row'[a] = row[a] /\ instance'[a] = instance[a]
             /\ ~ Works(thr[t], a) /\ ~ Works(n, a)
  BY <1>5
<1>7. n.valor \in {a, None} /\ n.pc \notin {"register", "verify", "insert"}
  OBVIOUS
<1>8. /\ \A b \in Valor \ {a} : row'[b] = row[b] /\ instance'[b] = instance[b]
      /\ failures' = 0 => failures = 0
      /\ failures' = 0 /\ row'[a] = "CREATING" =>
            \/ Attends(n, instance'[a], a)
            \/ row'[a] = row[a] /\ instance'[a] = instance[a] /\ ~ Attends(thr[t], instance[a], a)
      /\ n.pc \in {"verify", "insert"} => n.virtue # None
      /\ n.pc = "register" =>
            /\ row'[a] = "none" /\ instance'[a] = "running"
            /\ \A u \in Thread \ {t} : thr[u].valor # a
  BY <1>7
<1> QED
  <2>1. /\ instance'[a] # "none" /\ (n.pc = "idle" <=> n.valor = None)
        /\ n.valor \in {a, None}
        /\ \A u \in Thread \ {t} : thr[u].pc = "register" => thr[u].valor # a
    BY <1>4, <1>7
  <2> QED
    BY <1>2, <1>3, <1>6, <1>8, <2>1, ThreadStep, ZenonT(60)

LEMMA VerifyStep == ASSUME IInv, NEW t \in Thread, Verify(t) PROVE IInv'
<1> DEFINE a == thr[t].valor
<1>1. /\ thr[t].pc = "verify" /\ UNCHANGED <<row, instance, place, spawned, missed, failures>>
      /\ thr[t].virtue # None
  BY DEF Verify, At, IInv, ThreadInv
<1>2. /\ row[a] \in {"none", "CREATING", "STOPPED", "RUNNING"}
      /\ instance[a] \in {"running", "stopped", "terminated"}
      /\ row' = [row EXCEPT ![a] = row[a]] /\ instance' = [instance EXCEPT ![a] = instance[a]]
      /\ place' \in [Virtue -> Valor \cup {None}] /\ spawned' \in 0 .. MaxSpawned /\ a \in Valor
      /\ missed' \subseteq Valor
  BY <1>1, Own
<1>3. ~ Attends(thr[t], instance[a], a) /\ ~ Works(thr[t], a)
  BY <1>1 DEF Attends, Works
<1>4. CASE row[a] = "RUNNING" /\ Goto(t, "spawn") /\ UNCHANGED calm
  <2> DEFINE n == [thr[t] EXCEPT !.pc = "spawn"]
  <2>1. /\ n \in Local /\ n.pc = "spawn" /\ n.valor = a /\ n.virtue = thr[t].virtue
        /\ thr' = [thr EXCEPT ![t] = n]
    BY <1>4 DEF IInv, TypeOK, Local, Goto
  <2>2. ~ Works(n, a)
    BY <1>1, <2>1 DEF Works
  <2> HIDE DEF n
  <2> QED
    BY <1>1, <1>2, <1>3, <1>4, <2>1, <2>2, OwnStep, ZenonT(60)
<1>5. CASE row[a] = "none" /\ End(t) /\ UNCHANGED calm
  <2>1. Idle \in Local /\ thr' = [thr EXCEPT ![t] = Idle]
    BY <1>5, IdleFacts DEF End
  <2>2. ~ Works(Idle, a)
    BY <1>2, IdleFacts, FleetAssumption DEF Works, FleetAssumption
  <2> QED
    BY <1>1, <1>2, <1>3, <1>5, <2>1, <2>2, OwnStep, ZenonT(60)
<1>6. CASE row[a] = "STOPPED" /\ Goto(t, "start") /\ Touch(t, a)
  <2> DEFINE n == [thr[t] EXCEPT !.pc = "start"]
  <2>1. /\ n \in Local /\ n.pc = "start" /\ n.valor = a
        /\ thr' = [thr EXCEPT ![t] = n]
    BY <1>6 DEF IInv, TypeOK, Local, Goto
  <2> HIDE DEF n
  <2> QED
    BY <1>1, <1>2, <1>3, <1>6, <2>1, Begins
<1> QED
  BY <1>4, <1>5, <1>6 DEF Verify

(***************************************************************************)
(* Operations that begin, and those that fail                              *)
(***************************************************************************)

\* instance_create: nothing else knows the valor yet.
LEMMA CreateInstanceStep ==
    ASSUME IInv, NEW t \in Thread, NEW a \in Valor, NEW local \in Local,
           thr[t].pc = "idle", CreateInstance(t, a, local), spawned' \in 0 .. MaxSpawned
    PROVE  IInv'
<1> DEFINE n == [[local EXCEPT !.pc = "register"] EXCEPT !.valor = a]
<1>1. n \in Local /\ n.pc = "register" /\ n.valor = a
  BY DEF Local
<1>2. /\ instance[a] = "none" /\ instance' = [instance EXCEPT ![a] = "running"]
      /\ thr' = [thr EXCEPT ![t] = n] /\ UNCHANGED <<row, place, calm, missed, failures>>
  BY DEF CreateInstance
<1> HIDE DEF n
<1>3. TypeOK'
  BY <1>1, <1>2 DEF IInv, TypeOK
<1>4. None \notin Valor
  BY FleetAssumption DEF FleetAssumption
<1>5. row[a] = "none" /\ \A u \in Thread : thr[u].valor # a
  BY <1>2, <1>4 DEF IInv, TypeOK, ThreadInv, RegisterInv
<1>6. /\ row'[a] = "none" /\ instance'[a] = "running"
      /\ \A b \in Valor \ {a} : row'[b] = row[b] /\ instance'[b] = instance[b]
  BY <1>2, <1>5 DEF IInv, TypeOK
<1>7. thr[t].valor = None
  BY DEF IInv, ThreadInv
<1>8. \A u \in Thread \ {t} : ~ Works(thr[u], a)
  BY <1>5 DEF Works
<1>9. Stage(n.pc, row'[a], instance'[a]) /\ Works(n, a)
  BY <1>1, <1>6 DEF Stage, Works
<1>10. /\ instance'[a] # "none" /\ (n.pc = "idle" <=> n.valor = None)
       /\ thr[t].valor \in {a, None} /\ n.valor \in {a, None}
       /\ (n.pc \in {"verify", "insert"} => n.virtue # None)
       /\ calm' \subseteq calm /\ (failures' = 0 => failures = 0)
       /\ (\A u \in Thread \ {t} : thr[u].pc = "register" => thr[u].valor # a)
       /\ (n.pc = "register" =>
              /\ row'[a] = "none" /\ instance'[a] = "running"
              /\ \A u \in Thread \ {t} : thr[u].valor # a)
       /\ row'[a] # "CREATING"
  BY <1>1, <1>2, <1>4, <1>5, <1>6, <1>7
<1>11. /\ a \in calm' =>
             \/ /\ \A u \in Thread \ {t} : ~ Works(thr[u], a)
                /\ Works(n, a) => Stage(n.pc, row'[a], instance'[a])
                /\ ~ Works(n, a) => Match(row'[a], instance'[a])
             \/ /\ row'[a] = row[a] /\ instance'[a] = instance[a]
                /\ ~ Works(thr[t], a) /\ ~ Works(n, a)
       /\ failures' = 0 /\ row'[a] = "CREATING" =>
             \/ Attends(n, instance'[a], a)
             \/ row'[a] = row[a] /\ instance'[a] = instance[a] /\ ~ Attends(thr[t], instance[a], a)
  BY <1>8, <1>9, <1>10
<1> QED
  BY <1>1, <1>2, <1>3, <1>6, <1>10, <1>11, ThreadStep, ZenonT(60)

LEMMA CreateStep ==
    ASSUME IInv, NEW t \in Thread, NEW a \in Valor,
           \/ Create(t, a) \/ StandbyThread(t, a)
           \/ \E v \in Virtue : PickNew(t, v, a)
    PROVE  IInv'
<1>1. thr[t].pc = "idle"
  BY DEF Create, StandbyThread, PickNew, At
<1>2. spawned \in 0 .. MaxSpawned
  BY DEF IInv, TypeOK
<1>3. CASE Create(t, a)
  BY <1>1, <1>2, <1>3, IdleFacts, CreateInstanceStep DEF Create
<1>4. CASE StandbyThread(t, a)
  <2>1. [Idle EXCEPT !.after = "launch"] \in Local
    BY DEF Idle, Local
  <2>2. spawned' \in 0 .. MaxSpawned
    BY <1>2, <1>4, FleetAssumption DEF StandbyThread, FleetAssumption
  <2> QED
    BY <1>1, <1>4, <2>1, <2>2, CreateInstanceStep DEF StandbyThread
<1>5. CASE \E v \in Virtue : PickNew(t, v, a)
  <2>1. PICK v \in Virtue : PickNew(t, v, a)
    BY <1>5
  <2>2. [Placing(v) EXCEPT !.after = "verify"] \in Local
    BY DEF Placing, Idle, Local
  <2> QED
    BY <1>1, <1>2, <2>1, <2>2, CreateInstanceStep DEF PickNew
<1> QED
  BY <1>3, <1>4, <1>5

LEMMA BeginStep ==
    ASSUME IInv, NEW t \in Thread, NEW a \in Valor,
           Launch(t, a) \/ Stop(t, a) \/ Destroy(t, a)
    PROVE  IInv'
<1>1. PICK pc \in {"start", "halt", "spawn"} :
          thr' = [thr EXCEPT ![t] = [[Idle EXCEPT !.pc = pc] EXCEPT !.valor = a]]
  BY DEF Launch, Stop, Destroy
<1> DEFINE n == [[Idle EXCEPT !.pc = pc] EXCEPT !.valor = a]
<1>2. n \in Local /\ n.pc = pc /\ n.valor = a
  BY DEF Idle, Local
<1>3. /\ thr[t].pc = "idle" /\ row[a] # "none" /\ Touch(t, a)
      /\ UNCHANGED <<row, instance, place, spawned, missed, failures>>
  BY DEF Launch, Stop, Destroy, Empty, At
<1>4. thr[t].valor = None /\ a # None
  BY <1>3, FleetAssumption DEF IInv, ThreadInv, FleetAssumption
<1>5. ~ Works(thr[t], a) /\ ~ Attends(thr[t], instance[a], a)
  BY <1>4 DEF Works, Attends
<1> HIDE DEF n
<1> QED
  BY <1>1, <1>2, <1>3, <1>4, <1>5, Begins DEF n

LEMMA PickStep ==
    ASSUME IInv, NEW t \in Thread, NEW v \in Virtue, NEW a \in Valor, Pick(t, v, a)
    PROVE  IInv'
<1> DEFINE n == [[Placing(v) EXCEPT !.pc = "verify"] EXCEPT !.valor = a]
<1>1. None \notin Valor /\ None \notin Virtue
  BY FleetAssumption DEF FleetAssumption
<1>2. n \in Local /\ n.pc = "verify" /\ n.valor = a /\ n.virtue = v
  BY DEF Placing, Idle, Local
<1>3. /\ thr[t].pc = "idle" /\ row[a] = "RUNNING" /\ thr' = [thr EXCEPT ![t] = n]
      /\ UNCHANGED <<row, instance, place, spawned, calm, missed, failures>>
  BY DEF Pick, At, Available
<1>4. thr[t].valor = None
  BY <1>3 DEF IInv, ThreadInv
<1>5. ~ Works(thr[t], a) /\ ~ Works(n, a) /\ ~ Attends(thr[t], instance[a], a)
  BY <1>1, <1>2, <1>4 DEF Works, Attends
<1> HIDE DEF n
<1>6. TypeOK'
  BY <1>2, <1>3 DEF IInv, TypeOK
<1>7. /\ instance'[a] # "none"
      /\ (\A u \in Thread \ {t} : thr[u].pc = "register" => thr[u].valor # a)
  BY <1>3 DEF IInv, RegisterInv
<1>8. /\ (n.pc = "idle" <=> n.valor = None)
      /\ thr[t].valor \in {a, None} /\ n.valor \in {a, None}
      /\ (n.pc \in {"verify", "insert"} => n.virtue # None)
      /\ calm' \subseteq calm /\ (failures' = 0 => failures = 0)
      /\ (n.pc = "register" =>
              /\ row'[a] = "none" /\ instance'[a] = "running"
              /\ \A u \in Thread \ {t} : thr[u].valor # a)
      /\ \A b \in Valor \ {a} : row'[b] = row[b] /\ instance'[b] = instance[b]
  BY <1>1, <1>2, <1>3, <1>4
<1>9. /\ a \in calm' =>
            \/ /\ \A u \in Thread \ {t} : ~ Works(thr[u], a)
               /\ Works(n, a) => Stage(n.pc, row'[a], instance'[a])
               /\ ~ Works(n, a) => Match(row'[a], instance'[a])
            \/ /\ row'[a] = row[a] /\ instance'[a] = instance[a]
               /\ ~ Works(thr[t], a) /\ ~ Works(n, a)
      /\ failures' = 0 /\ row'[a] = "CREATING" =>
            \/ Attends(n, instance'[a], a)
            \/ row'[a] = row[a] /\ instance'[a] = instance[a] /\ ~ Attends(thr[t], instance[a], a)
  BY <1>3, <1>5
<1> QED
  BY <1>2, <1>3, <1>6, <1>7, <1>8, <1>9, ThreadStep, ZenonT(60)

LEMMA FailStep == ASSUME IInv, NEW t \in Thread, Fail(t) PROVE IInv'
<1> DEFINE a == thr[t].valor
<1>1. /\ thr[t].pc # "idle" /\ failures < MaxFailures /\ failures' = failures + 1
      /\ calm' = calm \ {a} /\ thr' = [thr EXCEPT ![t] = Idle]
      /\ UNCHANGED <<row, instance, place, spawned, missed>>
  BY DEF Fail, At, End
<1>2. a \in Valor /\ instance'[a] # "none"
  BY <1>1, Own
<1>3. failures' \in 0 .. MaxFailures /\ failures' # 0
  BY <1>1, FleetAssumption DEF IInv, TypeOK, FleetAssumption
<1>4. TypeOK'
  BY <1>1, <1>3, IdleFacts DEF IInv, TypeOK
<1>5. \A u \in Thread \ {t} : thr[u].pc = "register" => thr[u].valor # a
  BY DEF IInv, RegisterInv
<1>6. /\ Idle \in Local /\ (Idle.pc = "idle" <=> Idle.valor = None)
      /\ Idle.valor \in {a, None} /\ thr[t].valor \in {a, None}
      /\ (Idle.pc \in {"verify", "insert"} => Idle.virtue # None)
      /\ (Idle.pc = "register" =>
              /\ row'[a] = "none" /\ instance'[a] = "running"
              /\ \A u \in Thread \ {t} : thr[u].valor # a)
  BY IdleFacts
<1>7. /\ \A b \in Valor \ {a} : row'[b] = row[b] /\ instance'[b] = instance[b]
      /\ calm' \subseteq calm /\ a \notin calm' /\ failures' # 0
  BY <1>1, <1>3
<1> HIDE DEF a
<1>8. /\ a \in calm' =>
            \/ /\ \A u \in Thread \ {t} : ~ Works(thr[u], a)
               /\ Works(Idle, a) => Stage(Idle.pc, row'[a], instance'[a])
               /\ ~ Works(Idle, a) => Match(row'[a], instance'[a])
            \/ /\ row'[a] = row[a] /\ instance'[a] = instance[a]
               /\ ~ Works(thr[t], a) /\ ~ Works(Idle, a)
      /\ failures' = 0 /\ row'[a] = "CREATING" =>
            \/ Attends(Idle, instance'[a], a)
            \/ row'[a] = row[a] /\ instance'[a] = instance[a] /\ ~ Attends(thr[t], instance[a], a)
      /\ failures' = 0 => failures = 0
  BY <1>7
<1> QED
  BY <1>1, <1>2, <1>4, <1>5, <1>6, <1>7, <1>8, ThreadStep, ZenonT(60)

\* What a step leaves alone when it is about virtues only, or stutters.
LEMMA Untouched ==
    ASSUME IInv, TypeOK', UNCHANGED <<row, instance, thr, calm, missed, failures>>
    PROVE  IInv'
  BY DEF IInv, ThreadInv, RegisterInv, CalmInv, CreatingInv

LEMMA IStep == IInv /\ SeenInv /\ [Next]_vars => IInv'
<1> SUFFICES ASSUME IInv, SeenInv, [Next]_vars PROVE IInv'
  OBVIOUS
<1>1. CASE \E t \in Thread : Step(t)
  BY <1>1, RegisterStep, SetupStep, AwaitStep, MarkStoppedStep, StartStep, ReachStep,
     MarkRunningStep, HaltStep, MarkHaltedStep, TerminateStep, MatchRowStep,
     DeleteRowStep, CreateStandbyStep, VerifyStep, InsertStep
     DEF Step, Proceed
<1>2. CASE \E t \in Thread : Fail(t)
  BY <1>2, FailStep
<1>3. CASE \E t \in Thread, a \in Valor :
              \/ Create(t, a) \/ StandbyThread(t, a)
              \/ \E v \in Virtue : PickNew(t, v, a)
  BY <1>3, CreateStep
<1>4. CASE \E t \in Thread, a \in Valor : Launch(t, a) \/ Stop(t, a) \/ Destroy(t, a)
  BY <1>4, BeginStep
<1>5. CASE \E t \in Thread, a \in Valor, v \in Virtue : Pick(t, v, a)
  BY <1>5, PickStep
<1>6. CASE \E v \in Virtue : RemoveVirtue(v)
  BY <1>6, Untouched DEF RemoveVirtue, IInv, TypeOK
<1>7. CASE UNCHANGED vars
  BY <1>7, Untouched DEF vars, IInv, TypeOK
<1> QED
  BY <1>1, <1>2, <1>3, <1>4, <1>5, <1>6, <1>7 DEF Next

(***************************************************************************)
(* What a step changes                                                     *)
(***************************************************************************)

\* A row changes when its valor is registered, set or deleted by a thread that
\* works on it.
LEMMA RowChange ==
    ASSUME IInv, [Next]_vars, NEW a \in Valor, row'[a] # row[a]
    PROVE  \E t \in Thread :
              /\ thr[t].valor = a
              /\ \/ Register(t)
                 \/ MarkStopped(t) /\ row'[a] = "STOPPED" /\ row[a] # "none"
                 \/ MarkRunning(t) /\ row'[a] = "RUNNING" /\ row[a] # "none"
                 \/ MarkHalted(t) /\ row'[a] = "STOPPED" /\ row[a] # "none"
                 \/ DeleteRow(t) /\ row'[a] = "none"
<1>1. row' # row /\ row \in [Valor -> States]
  BY DEF IInv, TypeOK
<1>2. PICK t \in Thread : Step(t)
  BY <1>1, ZenonT(60)
     DEF Next, vars, Fail, Create, StandbyThread, PickNew, CreateInstance, Launch, Stop,
         Destroy, Pick, RemoveVirtue
<1>3. Register(t) \/ MarkStopped(t) \/ MarkRunning(t) \/ MarkHalted(t) \/ DeleteRow(t)
  BY <1>1, <1>2
     DEF Step, Proceed, Setup, AwaitStopped, Start, Reach, Halt, Terminate, MatchRow,
         CreateStandbyValors, Verify, InsertVirtue
<1>4. CASE Register(t) \/ DeleteRow(t)
  BY <1>1, <1>4 DEF Register, DeleteRow
<1>5. CASE MarkStopped(t)
  BY <1>1, <1>5 DEF MarkStopped, SetRow
<1>6. CASE MarkRunning(t)
  BY <1>1, <1>6 DEF MarkRunning, SetRow
<1>7. CASE MarkHalted(t)
  BY <1>1, <1>7 DEF MarkHalted, SetRow
<1> QED
  BY <1>3, <1>4, <1>5, <1>6, <1>7

\* No step calms a valor, forgets a failure or a row that was missed.
LEMMA HistoryGrows ==
    ASSUME IInv, [Next]_vars
    PROVE  calm' \subseteq calm /\ missed \subseteq missed' /\ (failures' = 0 => failures = 0)
<1>1. failures \in Nat
  BY FleetAssumption DEF IInv, TypeOK, FleetAssumption
<1>2. CASE \E t \in Thread : Step(t)
  <2>1. PICK t \in Thread : Step(t)
    BY <1>2
  <2>2. CASE Verify(t)
    BY <2>2 DEF Verify, Touch
  <2>3. CASE DeleteRow(t)
    BY <2>3 DEF DeleteRow
  <2>4. CASE ~ Verify(t) /\ ~ DeleteRow(t)
    BY <2>1, <2>4
       DEF Step, Proceed, Register, Setup, AwaitStopped, MarkStopped, Start, Reach, MarkRunning,
           Halt, MarkHalted, Terminate, MatchRow, CreateStandbyValors, InsertVirtue
  <2> QED
    BY <2>2, <2>3, <2>4
<1>3. CASE \E t \in Thread : Fail(t)
  BY <1>1, <1>3 DEF Fail
<1>4. CASE ~ (\E t \in Thread : Step(t) \/ Fail(t))
  BY <1>4 DEF Next, vars, Create, StandbyThread, PickNew, CreateInstance, Launch, Stop, Destroy,
              Pick, RemoveVirtue, Touch
<1> QED
  BY <1>2, <1>3, <1>4

\* A thread that reaches the deletion of a row has just read it, and one that
\* reaches the look at a valor's state has just found or made it RUNNING.
LEMMA Arrives ==
    ASSUME IInv, [Next]_vars, NEW u \in Thread, thr'[u] # thr[u]
    PROVE  /\ thr'[u].pc = "deleteRow" => MatchRow(u) /\ thr'[u].seen = row[thr[u].valor]
                                          /\ thr'[u].valor = thr[u].valor
           /\ thr'[u].pc = "verify" => row'[thr'[u].valor] = "RUNNING"
<1>1. thr \in [Thread -> Local] /\ row \in [Valor -> States]
  BY DEF IInv, TypeOK
<1>2. ASSUME NEW t \in Thread, Step(t)
      PROVE  /\ t = u
             /\ thr'[t].pc = "deleteRow" => MatchRow(t) /\ thr'[t].seen = row[thr[t].valor]
                                            /\ thr'[t].valor = thr[t].valor
             /\ thr'[t].pc = "verify" => row'[thr'[t].valor] = "RUNNING"
  <2>0. Idle.pc = "idle"
    BY IdleFacts
  <2>1. CASE MatchRow(t)
    <3>1. CASE row[thr[t].valor] = "none"
      BY <1>1, <2>0, <2>1, <3>1 DEF MatchRow, End
    <3>2. CASE row[thr[t].valor] # "none"
      <4>1. thr' = [thr EXCEPT ![t] = [[thr[t] EXCEPT !.pc = "deleteRow"] EXCEPT !.seen = row[thr[t].valor]]]
        BY <1>1, <2>1, <3>2 DEF MatchRow, Local
      <4>2. /\ thr'[t].pc = "deleteRow" /\ thr'[t].seen = row[thr[t].valor]
            /\ thr'[t].valor = thr[t].valor /\ \A x \in Thread \ {t} : thr'[x] = thr[x]
        BY <1>1, <4>1 DEF Local
      <4> QED
        BY <2>1, <4>2
    <3> QED
      BY <3>1, <3>2
  <2>2. CASE MarkRunning(t)
    <3>1. CASE End(t) \/ Goto(t, "spawn")
      BY <1>1, <2>0, <3>1 DEF End, Goto, Local
    <3>2. CASE /\ thr' = [thr EXCEPT ![t].pc = "verify", ![t].after = "place"]
               /\ row[thr[t].valor] # "none"
      <4>1. thr' = [thr EXCEPT ![t] = [[thr[t] EXCEPT !.pc = "verify"] EXCEPT !.after = "place"]]
        BY <1>1, <3>2 DEF Local
      <4>2. /\ thr'[t].pc = "verify" /\ thr'[t].valor = thr[t].valor
            /\ \A x \in Thread \ {t} : thr'[x] = thr[x]
        BY <1>1, <4>1 DEF Local
      <4>3. row'[thr[t].valor] = "RUNNING"
        <5>1. thr[t].valor \in Valor
          BY <2>2, Own DEF MarkRunning, At
        <5> QED
          BY <1>1, <2>2, <3>2, <5>1 DEF MarkRunning, SetRow
      <4> QED
        BY <4>2, <4>3
    <3> QED
      BY <2>2, <3>1, <3>2 DEF MarkRunning
  <2>3. CASE ~ MatchRow(t) /\ ~ MarkRunning(t)
    <3>1. \/ End(t)
          \/ \E pc \in {"setup", "await", "markStopped", "start", "reach", "markRunning", "halt",
                        "markHalted", "spawn", "terminate", "removeRow", "insert"} : Goto(t, pc)
      BY <1>2, <2>3
         DEF Step, Proceed, Register, Setup, AwaitStopped, MarkStopped, Start, Reach,
             Halt, MarkHalted, Terminate, DeleteRow, CreateStandbyValors, Verify, InsertVirtue
    <3>2. CASE End(t)
      BY <1>1, <2>0, <3>2 DEF End
    <3>3. CASE \E pc \in {"setup", "await", "markStopped", "start", "reach", "markRunning", "halt",
                        "markHalted", "spawn", "terminate", "removeRow", "insert"} : Goto(t, pc)
      BY <1>1, <3>3 DEF Goto, Local
    <3> QED
      BY <3>1, <3>2, <3>3
  <2> QED
    BY <2>1, <2>2, <2>3
<1>3. ASSUME NEW t \in Thread, NEW pc, NEW a \in Valor, NEW l \in Local,
             thr' = [thr EXCEPT ![t] = [[l EXCEPT !.pc = pc] EXCEPT !.valor = a]]
      PROVE  /\ t = u
             /\ thr'[t].pc = pc /\ thr'[t].valor = a
  BY <1>1, <1>3 DEF Local
<1>4. ASSUME NEW t \in Thread, NEW a \in Valor,
             \/ Create(t, a) \/ StandbyThread(t, a) \/ Launch(t, a) \/ Stop(t, a) \/ Destroy(t, a)
             \/ \E v \in Virtue : PickNew(t, v, a)
      PROVE  thr'[u].pc \in {"register", "start", "halt", "spawn"}
  <2>1. \E pc \in {"register", "start", "halt", "spawn"}, l \in Local :
           thr' = [thr EXCEPT ![t] = [[l EXCEPT !.pc = pc] EXCEPT !.valor = a]]
    <3>1. /\ Idle \in Local /\ [Idle EXCEPT !.after = "launch"] \in Local
          /\ \A v \in Virtue : [Placing(v) EXCEPT !.after = "verify"] \in Local
      BY DEF Idle, Local, Placing
    <3>2. CASE Create(t, a) \/ StandbyThread(t, a) \/ \E v \in Virtue : PickNew(t, v, a)
      BY <3>1, <3>2 DEF Create, StandbyThread, PickNew, CreateInstance
    <3>3. CASE Launch(t, a) \/ Stop(t, a) \/ Destroy(t, a)
      BY <3>1, <3>3 DEF Launch, Stop, Destroy
    <3> QED
      BY <1>4, <3>2, <3>3
  <2> QED
    BY <1>3, <2>1
<1>5. ASSUME NEW t \in Thread, NEW a \in Valor, NEW v \in Virtue, Pick(t, v, a)
      PROVE  thr'[u].pc = "verify" /\ row'[thr'[u].valor] = "RUNNING"
  <2>1. /\ Placing(v) \in Local /\ row'[a] = "RUNNING"
        /\ thr' = [thr EXCEPT ![t] = [[Placing(v) EXCEPT !.pc = "verify"] EXCEPT !.valor = a]]
    BY <1>5 DEF Pick, Available, Placing, Idle, Local
  <2> QED
    BY <1>3, <2>1
<1>6. ASSUME NEW t \in Thread, Fail(t) PROVE thr'[u].pc = "idle"
  BY <1>1, <1>6, IdleFacts DEF Fail, End
<1>7. CASE UNCHANGED vars \/ \E v \in Virtue : RemoveVirtue(v)
  BY <1>7 DEF vars, RemoveVirtue
<1> QED
  BY <1>2, <1>4, <1>5, <1>6, <1>7 DEF Next

LEMMA SeenStep == IInv /\ SeenInv /\ [Next]_vars => SeenInv'
<1> SUFFICES ASSUME IInv, SeenInv, [Next]_vars, NEW u \in Thread, thr'[u].pc = "deleteRow"
             PROVE  /\ row'[thr'[u].valor] = "CREATING" => thr'[u].seen = "CREATING"
                    /\ thr'[u].valor \in calm' => thr'[u].seen = row'[thr'[u].valor]
  BY DEF SeenInv
<1>1. calm' \subseteq calm
  BY HistoryGrows
<1>2. CASE thr'[u] # thr[u]
  BY <1>2, Arrives DEF MatchRow
<1>3. CASE thr'[u] = thr[u] /\ row'[thr[u].valor] = row[thr[u].valor]
  BY <1>1, <1>3 DEF SeenInv
<1>4. CASE thr'[u] = thr[u] /\ row'[thr[u].valor] # row[thr[u].valor]
  <2> DEFINE a == thr[u].valor
  <2>1. a \in Valor
    BY <1>4, Own
  <2>2. PICK t \in Thread :
            /\ thr[t].valor = a
            /\ \/ Register(t)
               \/ MarkStopped(t) /\ row'[a] = "STOPPED"
               \/ MarkRunning(t) /\ row'[a] = "RUNNING"
               \/ MarkHalted(t) /\ row'[a] = "STOPPED"
               \/ DeleteRow(t) /\ row'[a] = "none"
    BY <1>4, <2>1, RowChange
  <2>3. t # u
    <3>1. CASE DeleteRow(t)
      <4>1. thr'[t] = Idle
        BY <3>1 DEF DeleteRow, End, IInv, TypeOK
      <4> QED
        BY <4>1, IdleFacts
    <3>2. CASE ~ DeleteRow(t)
      BY <1>4, <2>2, <3>2 DEF Register, MarkStopped, MarkRunning, MarkHalted, At
    <3> QED
      BY <3>1, <3>2
  <2>4. ~ Register(t)
    BY <2>2, <2>3 DEF Register, At, IInv, RegisterInv
  <2>5. Works(thr[t], a) /\ Works(thr[u], a)
    BY <1>4, <2>2, <2>4
       DEF Works, MarkStopped, MarkRunning, MarkHalted, DeleteRow, At
  <2>6. a \notin calm
    BY <2>3, <2>5 DEF IInv, CalmInv
  <2> QED
    BY <1>1, <1>4, <2>2, <2>4, <2>6
<1> QED
  BY <1>2, <1>3, <1>4

LEMMA Invariance == Spec => [](IInv /\ SeenInv)
<1>1. Init => SeenInv
  BY IdleFacts DEF Init, SeenInv
<1> QED
  BY IInit, <1>1, IStep, SeenStep, PTL DEF Spec

(***************************************************************************)
(* The theorems                                                            *)
(***************************************************************************)

\* Every variable keeps its type (valor.py 262-593).
THEOREM TypeCorrectness == Spec => []TypeOK
<1>1. IInv => TypeOK
  BY DEF IInv
<1> QED
  BY Invariance, <1>1, PTL

\* The row of a valor whose operations take turns and do not fail tells the
\* state of its instance (valor.py 336-435, 483-557).
THEOREM RowMatchesInstanceAlways == Spec => []RowMatchesInstance
<1>1. IInv => RowMatchesInstance
  <2> SUFFICES ASSUME IInv, NEW a \in calm, \A t \in Thread : ~ Operates(t, a)
               PROVE  CASE row[a] = "RUNNING" -> instance[a] = "running"
                        [] row[a] = "STOPPED" -> instance[a] = "stopped"
                        [] row[a] = "none" -> instance[a] \in {"none", "terminated"}
                        [] OTHER -> FALSE
    BY DEF RowMatchesInstance
  <2>1. Match(row[a], instance[a])
    BY DEF IInv, CalmInv, Works, Operates
  <2> QED
    BY <2>1 DEF Match, InUse
<1> QED
  BY Invariance, <1>1, PTL

\* Without failures no overlap of operations leaves a valor CREATING with
\* nobody at work on it (valor.py 381-404 against 483-557).
THEOREM CreatingIsAttendedAlways == Spec => []CreatingIsAttended
<1>1. IInv => CreatingIsAttended
  BY DEF IInv, CreatingInv, CreatingIsAttended, Attends, Operates
<1> QED
  BY Invariance, <1>1, PTL

\* A thread that removes a row only reads it and deletes it, unless it fails.
LEMMA RemoverMoves ==
    ASSUME IInv, [Next]_vars, NEW u \in Thread, thr[u].pc \in {"removeRow", "deleteRow"},
           thr'[u] # thr[u], failures' = 0
    PROVE  MatchRow(u) \/ DeleteRow(u)
<1>1. thr \in [Thread -> Local]
  BY DEF IInv, TypeOK
<1>2. \A t \in Thread : \A n : thr' = [thr EXCEPT ![t] = n] => t = u
  BY <1>1
<1>3. ASSUME NEW t \in Thread, Step(t) PROVE MatchRow(u) \/ DeleteRow(u)
  <2>1. t = u
    <3>1. \A x \in Thread \ {t} : thr'[x] = thr[x]
      BY <1>1, <1>3
         DEF Step, Proceed, Goto, End, Register, Setup, AwaitStopped, MarkStopped, Start, Reach,
             MarkRunning, Halt, MarkHalted, Terminate, MatchRow, DeleteRow, CreateStandbyValors,
             Verify, InsertVirtue
    <3> QED
      BY <3>1
  <2> QED
    BY <1>3, <2>1
       DEF At, Step, Proceed, Register, Setup, AwaitStopped, MarkStopped, Start, Reach,
           MarkRunning, Halt, MarkHalted, Terminate, CreateStandbyValors, Verify, InsertVirtue
<1>4. ASSUME NEW t \in Thread, Fail(t) PROVE FALSE
  <2>1. failures \in Nat
    BY FleetAssumption DEF IInv, TypeOK, FleetAssumption
  <2> QED
    BY <1>4, <2>1 DEF Fail
<1>5. ASSUME NEW t \in Thread, NEW a \in Valor,
             \/ Create(t, a) \/ StandbyThread(t, a) \/ Launch(t, a) \/ Stop(t, a) \/ Destroy(t, a)
             \/ \E v \in Virtue : Pick(t, v, a) \/ PickNew(t, v, a)
      PROVE  FALSE
  BY <1>2, <1>5
     DEF At, Create, StandbyThread, PickNew, CreateInstance, Launch, Stop, Destroy, Pick
<1>6. CASE UNCHANGED vars \/ \E v \in Virtue : RemoveVirtue(v)
  BY <1>6 DEF vars, RemoveVirtue
<1> QED
  BY <1>3, <1>4, <1>5, <1>6 DEF Next

LEMMA RemovedStep == IInv /\ DestroyedIsRemoved /\ [Next]_vars => DestroyedIsRemoved'
<1> SUFFICES ASSUME IInv, DestroyedIsRemoved, [Next]_vars, failures' = 0,
                    NEW a \in Valor, instance'[a] = "terminated", row'[a] # "none",
                    a \notin missed'
             PROVE  \E t \in Thread : Removes(t, a)'
  BY DEF DestroyedIsRemoved
<1>1. failures = 0 /\ a \notin missed
  BY HistoryGrows
<1>2. thr \in [Thread -> Local] /\ instance \in [Valor -> {"none", "running", "stopped", "terminated"}]
  BY DEF IInv, TypeOK
<1>3. CASE instance[a] # "terminated"
  <2>1. PICK t \in Thread : thr[t].valor = a /\ Terminate(t)
    BY <1>2, <1>3, ZenonT(60)
       DEF Next, vars, Step, Proceed, Fail, Create, StandbyThread, PickNew, CreateInstance, Launch,
           Stop, Destroy, Pick, RemoveVirtue, Register, Setup, AwaitStopped, MarkStopped, Start,
           Reach, MarkRunning, Halt, MarkHalted, Terminate, MatchRow, DeleteRow,
           CreateStandbyValors, Verify, InsertVirtue
  <2>2. thr'[t].valor = a /\ thr'[t].pc = "removeRow"
    BY <1>2, <2>1 DEF Terminate, Goto, Local
  <2> QED
    BY <2>2 DEF Removes, At
<1>4. CASE instance[a] = "terminated"
  <2>1. row[a] # "none"
    <3> SUFFICES ASSUME row[a] = "none" PROVE FALSE
      OBVIOUS
    <3>0. row'[a] # row[a]
      OBVIOUS
    <3>1. PICK t \in Thread : thr[t].valor = a /\ (Register(t) \/ row'[a] = "none")
      BY <3>0, RowChange
    <3>2. Register(t)
      BY <3>1
    <3> QED
      BY <1>4, <3>1, <3>2 DEF Register, At, IInv, RegisterInv
  <2>2. PICK u \in Thread : Removes(u, a)
    BY <1>1, <1>4, <2>1 DEF DestroyedIsRemoved
  <2>3. CASE thr'[u] = thr[u]
    BY <2>2, <2>3 DEF Removes, At
  <2>4. CASE MatchRow(u)
    <3>1. thr' = [thr EXCEPT ![u] = [[thr[u] EXCEPT !.pc = "deleteRow"] EXCEPT !.seen = row[a]]]
      BY <1>2, <2>1, <2>2, <2>4 DEF MatchRow, Removes, Local
    <3>2. thr'[u].valor = a /\ thr'[u].pc = "deleteRow"
      BY <1>2, <2>2, <3>1 DEF Removes, Local
    <3> QED
      BY <3>2 DEF Removes, At
  <2>5. CASE DeleteRow(u)
    BY <2>2, <2>5 DEF DeleteRow, Removes, IInv, TypeOK
  <2>6. CASE thr'[u] # thr[u] /\ ~ MatchRow(u) /\ ~ DeleteRow(u)
    <3>1. thr[u].pc \in {"removeRow", "deleteRow"}
      BY <2>2 DEF Removes, At
    <3> QED
      BY <2>6, <3>1, RemoverMoves
  <2> QED
    BY <2>3, <2>4, <2>5, <2>6
<1> QED
  BY <1>3, <1>4

\* As long as no call fails, no order of the operations leaves or brings back
\* the row of a terminated valor, but for a set_valor between the read and the
\* delete of its removal (valor.py 401-402, 412, 493, 531-557, 694-702).
THEOREM DestroyedIsRemovedAlways == Spec => []DestroyedIsRemoved
<1>1. Init => DestroyedIsRemoved
  BY DEF Init, DestroyedIsRemoved
<1> QED
  BY Invariance, <1>1, RemovedStep, PTL DEF Spec

LEMMA WaitsStep == IInv /\ VerifyNeverWaits /\ [Next]_vars => VerifyNeverWaits'
<1> SUFFICES ASSUME IInv, VerifyNeverWaits, [Next]_vars, NEW u \in Thread, thr'[u].pc = "verify"
             PROVE  row'[thr'[u].valor] # "CREATING"
  BY DEF VerifyNeverWaits, At
<1>1. CASE thr'[u] # thr[u]
  BY <1>1, Arrives
<1>2. CASE thr'[u] = thr[u]
  <2>1. thr[u].valor \in Valor /\ row[thr[u].valor] # "CREATING"
    BY <1>2, Own DEF VerifyNeverWaits, At
  <2>2. ASSUME row'[thr[u].valor] # row[thr[u].valor], row'[thr[u].valor] = "CREATING"
        PROVE  FALSE
    <3>1. PICK t \in Thread : thr[t].valor = thr[u].valor /\ Register(t)
      BY <2>1, <2>2, RowChange
    <3> QED
      BY <1>2, <3>1 DEF Register, At, IInv, RegisterInv
  <2> QED
    BY <1>2, <2>1, <2>2
<1> QED
  BY <1>1, <1>2

\* A placement never waits for a valor under creation, whatever other threads do
\* to the valor it chose or made (valor.py 236-249, 297-314, 445-459).
THEOREM VerifyNeverWaitsAlways == Spec => []VerifyNeverWaits
<1>1. Init => VerifyNeverWaits
  BY IdleFacts DEF Init, VerifyNeverWaits, At
<1> QED
  BY Invariance, <1>1, WaitsStep, PTL DEF Spec
=============================================================================
