------------------------ MODULE VirtueMigrationProofs -------------------------
(***************************************************************************)
(* Where a virtue runs, where its row says it runs and where its migration *)
(* command is heard agree whenever its operations take turns, for any      *)
(* number of valors, virtues, handlers and failures.                       *)
(*                                                                         *)
(* None of the properties is inductive: they speak of the pauses between   *)
(* the operations.  PhaseInv says what the stores, the feeds, the threads  *)
(* and the domains hold at every point of an operation.  A virtue that is  *)
(* calm is in one of six phases; its own steps take it from one to the     *)
(* next, and a step about another virtue leaves it where it is, but for    *)
(* the death of the thread that was to hear its command.                   *)
(***************************************************************************)
EXTENDS VirtueMigration, SequenceTheorems, TLAPS

(***************************************************************************)
(* Feeds                                                                   *)
(***************************************************************************)

\* Nothing in the feed is about the virtue; x is the only thing that is about
\* its virtue; what the feed has about the virtue stays as it becomes t.
Free(s, v) == \A i \in DOMAIN s : s[i].virtue # v
Sole(s, x) == \E i \in DOMAIN s : s[i] = x /\ \A j \in DOMAIN s : s[j].virtue = x.virtue => j = i
Keeps(s, t, v) ==
    /\ Free(s, v) => Free(t, v)
    /\ \A x : x.virtue = v /\ Sole(s, x) => Sole(t, x)

LEMMA KeepsAppend ==
    ASSUME NEW S, NEW s \in Seq(S), NEW x \in S, NEW v, x.virtue # v
    PROVE  Keeps(s, Append(s, x), v)
<1> DEFINE t == Append(s, x)
<1>1. /\ Len(s) \in Nat /\ Len(t) = Len(s) + 1 /\ DOMAIN s = 1 .. Len(s) /\ DOMAIN t = 1 .. Len(t)
      /\ \A i \in 1 .. Len(s) : t[i] = s[i]
      /\ t[Len(t)] = x
  BY AppendProperties
<1> HIDE DEF t
<1>2. \A i \in DOMAIN t : (i \in DOMAIN s /\ t[i] = s[i]) \/ t[i] = x
  BY <1>1
<1>3. \A i \in DOMAIN s : i \in DOMAIN t /\ t[i] = s[i]
  BY <1>1
<1>4. Free(s, v) => Free(t, v)
  BY <1>2 DEF Free
<1>5. ASSUME NEW y, y.virtue = v, Sole(s, y) PROVE Sole(t, y)
  BY <1>2, <1>3, <1>5 DEF Sole
<1> QED
  BY <1>4, <1>5 DEF Keeps, t

LEMMA SoleAppended ==
    ASSUME NEW S, NEW s \in Seq(S), NEW x \in S, Free(s, x.virtue)
    PROVE  Sole(Append(s, x), x)
<1> DEFINE t == Append(s, x)
<1>1. /\ Len(s) \in Nat /\ Len(t) = Len(s) + 1 /\ DOMAIN s = 1 .. Len(s) /\ DOMAIN t = 1 .. Len(t)
      /\ \A i \in 1 .. Len(s) : t[i] = s[i]
      /\ t[Len(t)] = x
  BY AppendProperties
<1> HIDE DEF t
<1>2. \A i \in DOMAIN t : (i \in DOMAIN s /\ t[i] = s[i]) \/ i = Len(t)
  BY <1>1
<1>3. Len(t) \in DOMAIN t
  BY <1>1
<1> QED
  BY <1>1, <1>2, <1>3 DEF Sole, Free, t

LEMMA TailFacts ==
    ASSUME NEW S, NEW s \in Seq(S), s # << >>
    PROVE  /\ Head(s) \in S /\ Tail(s) \in Seq(S) /\ 1 \in DOMAIN s /\ s[1] = Head(s)
           /\ \A i \in DOMAIN Tail(s) : i + 1 \in DOMAIN s /\ Tail(s)[i] = s[i + 1] /\ i + 1 # 1 /\ i \in Nat
           /\ \A i \in DOMAIN s : i # 1 =>
                 i \in Nat /\ i - 1 \in DOMAIN Tail(s) /\ Tail(s)[i - 1] = s[i]
<1>1. /\ Tail(s) \in Seq(S) /\ Len(Tail(s)) = Len(s) - 1 /\ Len(s) \in Nat /\ Len(s) >= 1
      /\ \A i \in 1 .. Len(Tail(s)) : Tail(s)[i] = s[i + 1]
      /\ Head(s) = s[1] /\ DOMAIN s = 1 .. Len(s) /\ DOMAIN Tail(s) = 1 .. Len(Tail(s))
  BY HeadTailProperties, EmptySeq
<1>2. Head(s) \in S
  BY <1>1
<1>3. ASSUME NEW i \in DOMAIN Tail(s)
      PROVE  i + 1 \in DOMAIN s /\ Tail(s)[i] = s[i + 1] /\ i + 1 # 1 /\ i \in Nat
  BY <1>1, <1>3
<1>4. ASSUME NEW i \in DOMAIN s, i # 1
      PROVE  i \in Nat /\ i - 1 \in DOMAIN Tail(s) /\ Tail(s)[i - 1] = s[i]
  <2>1. i - 1 \in 1 .. Len(Tail(s)) /\ (i - 1) + 1 = i /\ i \in Nat
    BY <1>1, <1>4
  <2> QED
    BY <1>1, <2>1
<1> QED
  BY <1>1, <1>2, <1>3, <1>4

LEMMA KeepsTail ==
    ASSUME NEW S, NEW s \in Seq(S), s # << >>, NEW v, Head(s).virtue # v
    PROVE  Keeps(s, Tail(s), v)
<1>1. Free(s, v) => Free(Tail(s), v)
  BY TailFacts DEF Free
<1>2. ASSUME NEW x, x.virtue = v, Sole(s, x) PROVE Sole(Tail(s), x)
  <2>1. PICK i \in DOMAIN s : s[i] = x /\ \A j \in DOMAIN s : s[j].virtue = x.virtue => j = i
    BY <1>2 DEF Sole
  <2>2. i # 1
    BY <2>1, <1>2, TailFacts
  <2>3. i \in Nat /\ i - 1 \in DOMAIN Tail(s) /\ Tail(s)[i - 1] = x
    BY <2>1, <2>2, TailFacts
  <2>4. ASSUME NEW j \in DOMAIN Tail(s), Tail(s)[j].virtue = x.virtue PROVE j = i - 1
    <3>1. j + 1 = i /\ j \in Nat
      BY <2>1, <2>4, TailFacts
    <3> QED
      BY <3>1
  <2> QED
    BY <2>3, <2>4 DEF Sole
<1> QED
  BY <1>1, <1>2 DEF Keeps

LEMMA FreeHead ==
    ASSUME NEW S, NEW s \in Seq(S), s # << >>, NEW v, Free(s, v)
    PROVE  Head(s).virtue # v
BY TailFacts DEF Free

LEMMA SoleHead ==
    ASSUME NEW S, NEW s \in Seq(S), s # << >>, NEW x, Sole(s, x), Head(s).virtue = x.virtue
    PROVE  Head(s) = x /\ Free(Tail(s), x.virtue)
<1>1. PICK i \in DOMAIN s : s[i] = x /\ \A j \in DOMAIN s : s[j].virtue = x.virtue => j = i
  BY DEF Sole
<1>2. i = 1
  BY <1>1, TailFacts
<1>3. Head(s) = x
  BY <1>1, <1>2, TailFacts
<1>4. \A j \in DOMAIN Tail(s) : Tail(s)[j].virtue # x.virtue
  BY <1>1, <1>2, TailFacts
<1> QED
  BY <1>3, <1>4 DEF Free

(***************************************************************************)
(* The local variables of handlers and threads                             *)
(***************************************************************************)

\* What a handler or a thread has set by the time it uses it.
Locals ==
    /\ \A q \in Request :
          /\ req[q].pc = "idle" => req[q].virtue = None
          /\ req[q].pc # "idle" => req[q].virtue \in Virtue
          /\ req[q].pc \in {"read", "count", "update"} => req[q].dest \in Valor
          /\ req[q].pc \in {"count", "update", "find", "place"} => req[q].source \in Valor
          /\ req[q].pc = "delete" => req[q].matched # NoRow
    /\ \A a \in Valor :
          /\ mover[a].pc \in {"idle", "dead"} => mover[a].virtue = None
          /\ mover[a].pc \in {"transfer", "command", "row"} => mover[a].virtue \in Virtue
          /\ mover[a].pc \in {"command", "row"} => mover[a].valor_dest \in Valor

Typed == TypeOK /\ Locals

LEMMA RowFacts ==
    ASSUME MigrationAssumption, NEW r \in Row
    PROVE  /\ r # NoRow => r.valor \in Valor /\ r.valor # None /\ r.id \in 1 .. MaxLaunches
           /\ r = NoRow => r.valor = None
           /\ r.valor \in Valor \cup {None}
BY DEF Row, NoRow, MigrationAssumption

LEMMA IdleFacts ==
    /\ Idle \in Handler /\ Idle.pc = "idle" /\ Idle.virtue = None
    /\ NoMove \in Mover /\ NoMove.pc = "idle" /\ NoMove.virtue = None
    /\ [NoMove EXCEPT !.pc = "dead"] \in Mover
    /\ [NoMove EXCEPT !.pc = "dead"].pc = "dead" /\ [NoMove EXCEPT !.pc = "dead"].virtue = None
<1>1. NoRow \in Row
  BY DEF Row
<1> QED
  BY <1>1 DEF Idle, Handler, NoMove, Mover

\* What a write of a command does to the table and to the feeds.
LEMMA SetCommandFacts ==
    ASSUME TypeOK, MigrationAssumption, NEW v \in Virtue, NEW c \in Command,
           c.enabled => c.valor_ip \in Valor, SetCommand(v, c)
    PROVE  /\ command' \in [Virtue -> Command] /\ cmdFeed' \in [Valor -> Seq(Order)]
           /\ command'[v] = c /\ \A u \in Virtue \ {v} : command'[u] = command[u]
           /\ \A u \in Virtue \ {v}, a \in Valor : Keeps(cmdFeed[a], cmdFeed'[a], u)
           /\ \/ /\ cmdFeed' = cmdFeed
                 /\ \/ c = command[v] \/ c.valor_ip # command[v].valor_ip \/ ~ c.enabled
                    \/ mover[c.valor_ip].pc = "dead"
              \/ /\ c # command[v] /\ c.valor_ip = command[v].valor_ip /\ c.enabled
                 /\ mover[c.valor_ip].pc # "dead"
                 /\ cmdFeed' = [cmdFeed EXCEPT ![c.valor_ip] =
                                  Append(@, [virtue |-> v, valor_dest |-> c.valor_dest])]
<1> DEFINE o == [virtue |-> v, valor_dest |-> c.valor_dest]
<1>1. o \in Order /\ o.virtue = v
  BY DEF Order, Command
<1>2. cmdFeed \in [Valor -> Seq(Order)] /\ command \in [Virtue -> Command]
  BY DEF TypeOK
<1>3. command' = [command EXCEPT ![v] = c]
  BY DEF SetCommand
<1>4. \A u, s : Keeps(s, s, u)
  BY DEF Keeps
<1> HIDE DEF o
<1>5. CASE cmdFeed' = [cmdFeed EXCEPT ![c.valor_ip] = Append(@, o)] /\ c.valor_ip \in Valor
  <2>1. Append(cmdFeed[c.valor_ip], o) \in Seq(Order)
    BY <1>1, <1>2, <1>5, AppendProperties
  <2>2. cmdFeed' \in [Valor -> Seq(Order)]
    BY <1>2, <1>5, <2>1
  <2>3. ASSUME NEW u \in Virtue \ {v}, NEW a \in Valor PROVE Keeps(cmdFeed[a], cmdFeed'[a], u)
    <3>1. CASE a = c.valor_ip
      <4>1. cmdFeed'[a] = Append(cmdFeed[a], o) /\ cmdFeed[a] \in Seq(Order) /\ o.virtue # u
        BY <1>1, <1>2, <1>5, <3>1, <2>3
      <4> QED
        BY <4>1, <1>1, KeepsAppend
    <3>2. CASE a # c.valor_ip
      BY <3>2, <1>2, <1>4, <1>5
    <3> QED
      BY <3>1, <3>2
  <2> QED
    BY <1>2, <1>3, <1>5, <2>2, <2>3 DEF SetCommand, o
<1>6. CASE cmdFeed' = cmdFeed
  BY <1>2, <1>3, <1>4, <1>6 DEF SetCommand, o
<1> QED
  BY <1>5, <1>6 DEF SetCommand, o

LEMMA TInit == MigrationAssumption /\ Init => Typed
<1> SUFFICES ASSUME MigrationAssumption, Init PROVE Typed
  OBVIOUS
<1>1. NoRow \in Row
  BY DEF Row
<1>2. row \in [Virtue -> Row] /\ command \in [Virtue -> Command]
  BY <1>1 DEF Init, Command
<1>3. rowFeed \in [Valor -> Seq(RowChange)] /\ cmdFeed \in [Valor -> Seq(Order)]
  <2>1. << >> \in Seq(RowChange) /\ << >> \in Seq(Order)
    BY EmptySeq
  <2> QED
    BY <2>1 DEF Init
<1>4. req \in [Request -> Handler] /\ mover \in [Valor -> Mover]
  BY IdleFacts DEF Init
<1>5. launches \in 0 .. MaxLaunches /\ migrations \in 0 .. MaxMigrations /\ failures \in 0 .. MaxFailures
  BY DEF Init, MigrationAssumption
<1>6. Locals
  BY IdleFacts DEF Init, Locals
<1> QED
  BY <1>2, <1>3, <1>4, <1>5, <1>6 DEF Init, Typed, TypeOK

\* A step of a handler that changes only what the handler holds.
LEMMA HandlerTyped ==
    ASSUME Typed, NEW q \in Request, NEW h \in Handler, req' = [req EXCEPT ![q] = h],
           h.pc = "idle" => h.virtue = None,
           h.pc # "idle" => h.virtue \in Virtue,
           h.pc \in {"read", "count", "update"} => h.dest \in Valor,
           h.pc \in {"count", "update", "find", "place"} => h.source \in Valor,
           h.pc = "delete" => h.matched # NoRow,
           UNCHANGED mover
    PROVE  req' \in [Request -> Handler] /\ Locals'
<1>1. req \in [Request -> Handler]
  BY DEF Typed, TypeOK
<1>2. \A p \in Request : req'[p] = IF p = q THEN h ELSE req[p]
  BY <1>1
<1>3. req' \in [Request -> Handler]
  BY <1>1
<1> QED
  BY <1>2, <1>3 DEF Typed, Locals

\* A step of a thread that changes what the thread holds.
LEMMA MoverTyped ==
    ASSUME Typed, NEW a \in Valor, NEW m \in Mover, mover' = [mover EXCEPT ![a] = m],
           m.pc \in {"idle", "dead"} => m.virtue = None,
           m.pc \in {"transfer", "command", "row"} => m.virtue \in Virtue,
           m.pc \in {"command", "row"} => m.valor_dest \in Valor,
           UNCHANGED req
    PROVE  mover' \in [Valor -> Mover] /\ Locals'
<1>1. mover \in [Valor -> Mover]
  BY DEF Typed, TypeOK
<1>2. \A b \in Valor : mover'[b] = IF b = a THEN m ELSE mover[b]
  BY <1>1
<1>3. mover' \in [Valor -> Mover]
  BY <1>1
<1> QED
  BY <1>2, <1>3 DEF Typed, Locals

(***************************************************************************)
(* The phases of a virtue                                                  *)
(***************************************************************************)

Host(v) == {a \in Valor : <<a, v>> \in domU}

NoRequest(v) == \A q \in Request : req[q].virtue # v
OnlyRequest(q, v) == \A p \in Request : req[p].virtue = v <=> p = q
NoMover(v) == \A a \in Valor : mover[a].virtue # v
OnlyMover(a, v) == \A b \in Valor : mover[b].virtue = v <=> b = a
NoOrder(v) == \A a \in Valor : Free(cmdFeed[a], v)
OnlyOrder(a, d, v) ==
    /\ Sole(cmdFeed[a], [virtue |-> v, valor_dest |-> d])
    /\ \A b \in Valor \ {a} : Free(cmdFeed[b], v)
NoChange(v) == \A a \in Valor : Free(rowFeed[a], v)
OnlyChange(a, type, v) ==
    /\ Sole(rowFeed[a], [type |-> type, virtue |-> v])
    /\ \A b \in Valor \ {a} : Free(rowFeed[b], v)

\* The thread that should have heard the command has ended, or the flag is
\* left from such a thread.
Lost(v) ==
    \E a \in Valor :
        /\ command[v].valor_ip = a
        /\ \/ mover[a].pc = "dead"
           \/ command[v].valor_dest = None /\ \E b \in Valor : mover[b].pc = "dead"

\* Nothing is under way to move the virtue.
Still(v) == NoOrder(v) /\ NoMover(v) /\ (command[v].enabled => Lost(v))

\* The command names the valor in the row, and the domain is there.
Settled(v) ==
    row[v].valor # None /\ command[v].valor_ip = row[v].valor /\ Host(v) = {row[v].valor}

\* The virtue has its row; what remains of its launch is the command, the
\* creation of its domain, or both.
Placed(v) ==
    /\ Still(v) /\ row[v].valor # None
    /\ \/ NoRequest(v) /\ command[v].valor_ip = row[v].valor
       \/ \E q \in Request :
             /\ OnlyRequest(q, v) /\ req[q].pc \in {"find", "place"} /\ req[q].source = row[v].valor
             /\ req[q].pc = "place" => req[q].enabled = command[v].enabled
    /\ \/ NoChange(v) /\ Host(v) = {row[v].valor}
       \/ OnlyChange(row[v].valor, "add", v) /\ Host(v) = {}

\* The virtue has been stopped; its domain may still have to be destroyed.
Gone(v) ==
    /\ Still(v) /\ row[v] = NoRow /\ NoRequest(v)
    /\ \/ NoChange(v) /\ Host(v) = {}
       \/ \E a \in Valor : OnlyChange(a, "remove", v) /\ Host(v) = {a}

\* A stop is under way.
Leaving(v) ==
    /\ Still(v) /\ Settled(v) /\ NoChange(v)
    /\ \E q \in Request : OnlyRequest(q, v) /\ req[q].pc = "delete" /\ req[q].matched = row[v]

\* A migration has been asked for and is not ordered yet.
Asked(v) ==
    /\ Still(v) /\ Settled(v) /\ NoChange(v)
    /\ \E q \in Request :
          /\ OnlyRequest(q, v) /\ req[q].pc \in {"read", "count", "update"}
          /\ req[q].dest \in Valor \ {row[v].valor}
          /\ req[q].pc # "read" => req[q].source = row[v].valor

\* The order is in the feed of the thread that has the domain.
Ordered(v) ==
    /\ NoRequest(v) /\ NoChange(v) /\ NoMover(v) /\ Settled(v)
    /\ \E d \in Valor \ {row[v].valor} :
          /\ OnlyOrder(row[v].valor, d, v)
          /\ command[v] = [valor_ip |-> row[v].valor, valor_dest |-> d, enabled |-> TRUE]
    /\ mover[row[v].valor].pc # "dead"

\* The thread is at it: domain, command and row follow in this order.
MovedBy(a, d, v) ==
    /\ d # a /\ OnlyMover(a, v) /\ row[v].valor = a /\ mover[a].valor_dest = d
    /\ mover[a].pc \in {"transfer", "command", "row"}
    /\ Host(v) = IF mover[a].pc = "transfer" THEN {a} ELSE {d}
    /\ command[v] = IF mover[a].pc = "row"
                    THEN [valor_ip |-> d, valor_dest |-> None, enabled |-> FALSE]
                    ELSE [valor_ip |-> a, valor_dest |-> d, enabled |-> TRUE]

Moved(v) ==
    /\ NoRequest(v) /\ NoChange(v) /\ NoOrder(v)
    /\ \E a \in Valor, d \in Valor : MovedBy(a, d, v)

Phase(v) == Placed(v) \/ Gone(v) \/ Leaving(v) \/ Asked(v) \/ Ordered(v) \/ Moved(v)

PhaseInv == \A v \in calm : Phase(v)

\* A migration thread has ended over a virtue that is not calm.
DeadInv == (\E a \in Valor : mover[a].pc = "dead") => calm # Virtue

IInv == Typed /\ PhaseInv /\ DeadInv

LEMMA PInit == MigrationAssumption /\ Init => IInv
<1> SUFFICES ASSUME MigrationAssumption, Init PROVE IInv
  OBVIOUS
<1>1. DeadInv
  BY IdleFacts DEF Init, DeadInv
<1>2. ASSUME NEW v \in Virtue PROVE Gone(v)
  <2>1. NoOrder(v) /\ NoChange(v)
    BY DEF Init, NoOrder, NoChange, Free
  <2>2. v # None
    BY DEF MigrationAssumption
  <2>3. NoMover(v) /\ NoRequest(v)
    BY <2>2, IdleFacts DEF Init, NoMover, NoRequest
  <2>4. ~ command[v].enabled /\ row[v] = NoRow /\ Host(v) = {}
    BY DEF Init, Host
  <2> QED
    BY <2>1, <2>3, <2>4 DEF Gone, Still
<1> QED
  BY <1>1, <1>2, TInit DEF Init, IInv, PhaseInv, Phase

(***************************************************************************)
(* Steps about another virtue                                              *)
(***************************************************************************)

\* The step concerns the virtue at most by the end of a migration thread, and
\* then what that thread was to hear is gone.
Spared(v) ==
    /\ row'[v] = row[v] /\ command'[v] = command[v] /\ Host(v)' = Host(v)
    /\ \A q \in Request : req'[q] = req[q] \/ (req[q].virtue # v /\ req'[q].virtue # v)
    /\ \A a \in Valor : Keeps(rowFeed[a], rowFeed'[a], v)
    /\ \A a \in Valor :
          /\ mover'[a] = mover[a] \/ (mover[a].virtue # v /\ mover'[a].virtue # v)
          /\ mover[a].pc = "dead" => mover'[a].pc = "dead"
          /\ \/ Keeps(cmdFeed[a], cmdFeed'[a], v) /\ (mover'[a].pc = "dead" => mover[a].pc = "dead")
             \/ cmdFeed'[a] = << >> /\ mover'[a].pc = "dead"

LEMMA SparedFacts ==
    ASSUME NEW v \in Virtue, Spared(v)
    PROVE  /\ NoRequest(v) => NoRequest(v)'
           /\ \A q \in Request : OnlyRequest(q, v) => OnlyRequest(q, v)' /\ req'[q] = req[q]
           /\ NoMover(v) => NoMover(v)'
           /\ \A a \in Valor : OnlyMover(a, v) => OnlyMover(a, v)' /\ mover'[a] = mover[a]
           /\ NoOrder(v) => NoOrder(v)'
           /\ NoChange(v) => NoChange(v)'
           /\ \A a \in Valor : \A type : OnlyChange(a, type, v) => OnlyChange(a, type, v)'
           /\ Lost(v) => Lost(v)'
<1>1. NoRequest(v) => NoRequest(v)'
  BY DEF Spared, NoRequest
<1>2. ASSUME NEW q \in Request, OnlyRequest(q, v)
      PROVE  OnlyRequest(q, v)' /\ req'[q] = req[q]
  BY <1>2 DEF Spared, OnlyRequest
<1>3. NoMover(v) => NoMover(v)'
  BY DEF Spared, NoMover
<1>4. ASSUME NEW a \in Valor, OnlyMover(a, v)
      PROVE  OnlyMover(a, v)' /\ mover'[a] = mover[a]
  BY <1>4 DEF Spared, OnlyMover
<1>5. NoOrder(v) => NoOrder(v)'
  BY DEF Spared, NoOrder, Keeps, Free
<1>6. NoChange(v) => NoChange(v)'
  BY DEF Spared, NoChange, Keeps
<1>7. ASSUME NEW a \in Valor, NEW type, OnlyChange(a, type, v) PROVE OnlyChange(a, type, v)'
  <2>1. [type |-> type, virtue |-> v].virtue = v
    OBVIOUS
  <2> QED
    BY <1>7, <2>1 DEF Spared, OnlyChange, Keeps
<1>8. Lost(v) => Lost(v)'
  BY DEF Spared, Lost
<1> QED
  BY <1>1, <1>2, <1>3, <1>4, <1>5, <1>6, <1>7, <1>8

LEMMA SparedKept ==
    ASSUME NEW v \in Virtue, MigrationAssumption, Typed, Spared(v), Phase(v) PROVE Phase(v)'
<1>1. Still(v) => Still(v)'
  BY SparedFacts DEF Still, Spared
<1>2. Settled(v) => Settled(v)'
  BY DEF Settled, Spared
<1>3. CASE Placed(v)
  <2>1. \/ NoRequest(v)' /\ command'[v].valor_ip = row'[v].valor
        \/ \E q \in Request :
             /\ OnlyRequest(q, v)' /\ req'[q].pc \in {"find", "place"} /\ req'[q].source = row'[v].valor
             /\ req'[q].pc = "place" => req'[q].enabled = command'[v].enabled
    BY <1>3, SparedFacts DEF Placed, Spared
  <2>2. row[v] \in Row
    BY DEF Typed, TypeOK
  <2>3. row[v].valor \in Valor
    BY <1>3, <2>2, RowFacts DEF Placed
  <2>4. \/ NoChange(v)' /\ Host(v)' = {row'[v].valor}
        \/ OnlyChange(row[v].valor, "add", v)' /\ Host(v)' = {}
    <3>1. OnlyChange(row[v].valor, "add", v) => OnlyChange(row[v].valor, "add", v)'
      <4>1. PICK a \in Valor : a = row[v].valor
        BY <2>3
      <4>2. OnlyChange(a, "add", v) => OnlyChange(a, "add", v)'
        BY SparedFacts
      <4>3. row'[v].valor = a
        BY <4>1 DEF Spared
      <4> QED
        BY <4>1, <4>2, <4>3
    <3> QED
      BY <1>3, <3>1, SparedFacts DEF Placed, Spared
  <2> QED
    BY <1>1, <1>3, <2>1, <2>4 DEF Placed, Phase, Spared
<1>4. CASE Gone(v)
  <2>1. \/ NoChange(v)' /\ Host(v)' = {}
        \/ \E a \in Valor : OnlyChange(a, "remove", v)' /\ Host(v)' = {a}
    BY <1>4, SparedFacts DEF Gone, Spared
  <2> QED
    BY <1>1, <1>4, <2>1, SparedFacts DEF Gone, Phase, Spared
<1>5. CASE Leaving(v)
  <2>1. \E q \in Request : OnlyRequest(q, v)' /\ req'[q].pc = "delete" /\ req'[q].matched = row'[v]
    BY <1>5, SparedFacts DEF Leaving, Spared
  <2> QED
    BY <1>1, <1>2, <1>5, <2>1, SparedFacts DEF Leaving, Phase
<1>6. CASE Asked(v)
  <2>1. \E q \in Request :
          /\ OnlyRequest(q, v)' /\ req'[q].pc \in {"read", "count", "update"}
          /\ req'[q].dest \in Valor \ {row'[v].valor}
          /\ req'[q].pc # "read" => req'[q].source = row'[v].valor
    BY <1>6, SparedFacts DEF Asked, Spared
  <2> QED
    BY <1>1, <1>2, <1>6, <2>1, SparedFacts DEF Asked, Phase
<1>7. CASE Moved(v)
  <2>1. PICK a \in Valor, d \in Valor : MovedBy(a, d, v)
    BY <1>7 DEF Moved
  <2>2. MovedBy(a, d, v)'
    BY <2>1, SparedFacts DEF MovedBy, Spared
  <2> QED
    BY <1>7, <2>2, SparedFacts DEF Moved, Phase
<1>8. CASE Ordered(v)
  <2>1. PICK a \in Valor : a = row[v].valor
    <3>1. row[v] \in Row /\ row[v].valor # None
      BY <1>8 DEF Typed, TypeOK, Ordered, Settled
    <3> QED
      BY <3>1, RowFacts
  <2>2. PICK d \in Valor \ {a} :
          OnlyOrder(a, d, v) /\ command[v] = [valor_ip |-> a, valor_dest |-> d, enabled |-> TRUE]
    BY <1>8, <2>1 DEF Ordered
  <2>3. row'[v].valor = a /\ command'[v] = [valor_ip |-> a, valor_dest |-> d, enabled |-> TRUE]
    BY <2>1, <2>2 DEF Spared
  <2>4. NoRequest(v)' /\ NoChange(v)' /\ NoMover(v)' /\ Settled(v)'
    BY <1>2, <1>8, SparedFacts DEF Ordered
  <2>5. \A b \in Valor \ {a} : Free(cmdFeed'[b], v)
    BY <2>2 DEF OnlyOrder, Spared, Keeps, Free
  <2>6. CASE mover'[a].pc # "dead"
    <3>1. [virtue |-> v, valor_dest |-> d].virtue = v
      OBVIOUS
    <3>2. OnlyOrder(a, d, v)'
      BY <2>2, <2>5, <2>6, <3>1 DEF OnlyOrder, Spared, Keeps
    <3> QED
      BY <2>3, <2>4, <2>6, <3>2 DEF Ordered, Phase
  <2>7. CASE mover'[a].pc = "dead"
    <3>1. mover[a].pc # "dead"
      BY <1>8, <2>1 DEF Ordered
    <3>2. cmdFeed'[a] = << >>
      BY <2>7, <3>1 DEF Spared
    <3>3. NoOrder(v)'
      BY <2>5, <3>2 DEF NoOrder, Free
    <3>4. Lost(v)'
      BY <2>3, <2>7 DEF Lost
    <3>5. Still(v)'
      BY <2>4, <3>3, <3>4 DEF Still
    <3> QED
      BY <2>4, <3>5 DEF Placed, Settled, Phase
  <2> QED
    BY <2>6, <2>7
<1> QED
  BY <1>3, <1>4, <1>5, <1>6, <1>7, <1>8 DEF Phase

LEMMA Unchanged == \A s, v : Keeps(s, s, v)
BY DEF Keeps

\* A step is one about a virtue w: it spares the others, and a thread that
\* ends in it ends over a virtue that is not calm.
LEMMA StepAbout ==
    ASSUME MigrationAssumption, IInv, Typed', NEW w \in Virtue, calm' \subseteq calm,
           \A v \in calm' \ {w} : Spared(v),
           w \in calm' => Phase(w)',
           \A a \in Valor : mover'[a].pc = "dead" => mover[a].pc = "dead" \/ w \notin calm
    PROVE  IInv'
<1>1. PhaseInv'
  <2> SUFFICES ASSUME NEW v \in calm' PROVE Phase(v)'
    BY DEF PhaseInv
  <2>1. CASE v = w
    BY <2>1
  <2>2. CASE v # w
    <3>1. v \in calm /\ v \in Virtue /\ Spared(v)
      BY <2>2 DEF IInv, Typed, TypeOK
    <3>2. Phase(v)
      BY <3>1 DEF IInv, PhaseInv
    <3> QED
      BY <3>1, <3>2, SparedKept DEF IInv
  <2> QED
    BY <2>1, <2>2
<1>2. DeadInv'
  <2> SUFFICES ASSUME NEW a \in Valor, mover'[a].pc = "dead" PROVE calm' # Virtue
    BY DEF DeadInv
  <2>1. calm # Virtue
    BY DEF IInv, DeadInv
  <2> QED
    BY <2>1 DEF IInv, Typed, TypeOK
<1> QED
  BY <1>1, <1>2 DEF IInv

\* A virtue on which nothing is under way.
LEMMA RestingFacts ==
    ASSUME MigrationAssumption, Typed, NEW v \in Virtue, ~ Busy(v)
    PROVE  NoRequest(v) /\ NoMover(v) /\ NoOrder(v) /\ NoChange(v)
<1>1. v # None
  BY DEF MigrationAssumption
<1>2. NoRequest(v)
  BY DEF Busy, Requested, NoRequest
<1>3. NoMover(v)
  BY <1>1 DEF Busy, Moving, NoMover, Typed, Locals
<1>4. NoOrder(v)
  BY DEF Busy, Moving, NoOrder, Free, Elements
<1>5. NoChange(v)
  BY DEF Busy, RowPending, NoChange, Free, Elements
<1> QED
  BY <1>2, <1>3, <1>4, <1>5

LEMMA RestingPhase ==
    ASSUME MigrationAssumption, Typed, NEW v \in Virtue, ~ Busy(v), Phase(v)
    PROVE  /\ Still(v) /\ NoRequest(v) /\ NoChange(v)
           /\ row[v] # NoRow => Settled(v)
           /\ row[v] = NoRow => Host(v) = {}
<1>1. NoRequest(v) /\ NoMover(v) /\ NoOrder(v) /\ NoChange(v)
  BY RestingFacts
<1>2. row[v] \in Row
  BY DEF Typed, TypeOK
<1>3. ASSUME NEW a \in Valor, NEW type, OnlyChange(a, type, v) PROVE FALSE
  <2>1. [type |-> type, virtue |-> v].virtue = v
    OBVIOUS
  <2> QED
    BY <1>1, <1>3, <2>1 DEF OnlyChange, Sole, NoChange, Free
<1>4. CASE Placed(v)
  <2>1. row[v].valor \in Valor /\ row[v] # NoRow
    BY <1>2, <1>4, RowFacts DEF Placed
  <2>2. NoChange(v) /\ Host(v) = {row[v].valor}
    BY <1>3, <1>4, <2>1 DEF Placed
  <2>3. command[v].valor_ip = row[v].valor
    BY <1>1, <1>4 DEF Placed, NoRequest, OnlyRequest
  <2> QED
    BY <1>1, <1>4, <2>1, <2>2, <2>3 DEF Placed, Settled
<1>5. CASE Gone(v)
  BY <1>1, <1>3, <1>5 DEF Gone
<1>6. CASE Leaving(v)
  BY <1>1, <1>6 DEF Leaving, NoRequest, OnlyRequest
<1>7. CASE Asked(v)
  BY <1>1, <1>7 DEF Asked, NoRequest, OnlyRequest
<1>8. CASE Ordered(v)
  <2>1. row[v].valor \in Valor
    BY <1>2, <1>8, RowFacts DEF Ordered, Settled
  <2>2. PICK d \in Valor : Sole(cmdFeed[row[v].valor], [virtue |-> v, valor_dest |-> d])
    BY <1>8 DEF Ordered, OnlyOrder
  <2>3. [virtue |-> v, valor_dest |-> d].virtue = v
    OBVIOUS
  <2> QED
    BY <1>1, <2>1, <2>2, <2>3 DEF NoOrder, Free, Sole
<1>9. CASE Moved(v)
  BY <1>1, <1>9 DEF Moved, MovedBy, NoMover, OnlyMover
<1> QED
  BY <1>4, <1>5, <1>6, <1>7, <1>8, <1>9 DEF Phase

\* A calm virtue that stays so while an operation on it begins was at rest.
LEMMA OverlapFacts ==
    ASSUME Typed, NEW w \in Virtue, Overlap(w)
    PROVE  calm' \subseteq calm /\ (w \in calm' => w \in calm /\ ~ Busy(w)) /\ calm' \subseteq Virtue
BY DEF Overlap, Typed, TypeOK

(***************************************************************************)
(* Requests                                                                *)
(***************************************************************************)

\* A step of a handler for w that touches no store spares the others.
LEMMA HandlerSpares ==
    ASSUME Typed, NEW q \in Request, NEW h, req' = [req EXCEPT ![q] = h],
           NEW v \in Virtue, req[q].virtue # v, h.virtue # v,
           UNCHANGED <<row, command, rowFeed, cmdFeed, mover, domU>>
    PROVE  Spared(v)
<1>1. \A p \in Request : req'[p] = IF p = q THEN h ELSE req[p]
  BY DEF Typed, TypeOK
<1> QED
  BY <1>1, Unchanged DEF Spared, Host

\* The handler is the only one for its virtue, or has left it.
LEMMA HandlerAlone ==
    ASSUME Typed, NEW q \in Request, NEW h, req' = [req EXCEPT ![q] = h], NEW v \in Virtue,
           NoRequest(v) \/ OnlyRequest(q, v)
    PROVE  /\ h.virtue = v => OnlyRequest(q, v)' /\ req'[q] = h
           /\ h.virtue # v => NoRequest(v)'
<1>1. \A p \in Request : req'[p] = IF p = q THEN h ELSE req[p]
  BY DEF Typed, TypeOK
<1> QED
  BY <1>1 DEF NoRequest, OnlyRequest

LEMMA MigrateKeeps ==
    ASSUME MigrationAssumption, IInv, NEW q \in Request, NEW v \in Virtue, NEW d \in Valor,
           Migrate(q, v, d)
    PROVE  IInv'
<1> DEFINE h == [Idle EXCEPT !.pc = "read", !.virtue = v, !.dest = d]
<1>1. h \in Handler /\ h.pc = "read" /\ h.virtue = v /\ h.dest = d
  BY IdleFacts DEF Idle, Handler
<1>2. /\ req' = [req EXCEPT ![q] = h] /\ req[q].virtue = None /\ v # None
      /\ UNCHANGED <<row, command, rowFeed, cmdFeed, mover, domU, launches, failures>>
  BY DEF Migrate, At, IInv, Typed, Locals, MigrationAssumption
<1>3. Typed
  BY DEF IInv
<1> HIDE DEF h
<1>4. req' \in [Request -> Handler] /\ Locals'
  BY <1>1, <1>2, <1>3, HandlerTyped
<1>5. calm' \subseteq calm /\ (v \in calm' => v \in calm /\ ~ Busy(v)) /\ calm' \subseteq Virtue
  BY <1>3, OverlapFacts DEF Migrate
<1>6. migrations' \in 0 .. MaxMigrations
  BY <1>3 DEF Migrate, Typed, TypeOK, MigrationAssumption
<1>7. Typed'
  BY <1>2, <1>3, <1>4, <1>5, <1>6 DEF Typed, TypeOK
<1>8. ASSUME NEW u \in calm' \ {v} PROVE Spared(u)
  <2>1. u \in Virtue /\ u # None /\ u # v
    BY <1>5, <1>8 DEF MigrationAssumption
  <2> QED
    BY <1>1, <1>2, <1>3, <2>1, HandlerSpares
<1>9. ASSUME v \in calm' PROVE Phase(v)'
  <2>1. Phase(v) /\ ~ Busy(v)
    BY <1>5, <1>9 DEF IInv, PhaseInv
  <2>2. Still(v) /\ NoRequest(v) /\ NoChange(v) /\ Settled(v)
    BY <1>3, <2>1, RestingPhase DEF Migrate
  <2>3. Still(v)' /\ NoChange(v)' /\ Settled(v)'
    BY <1>2, <2>2 DEF Still, NoOrder, NoMover, Lost, NoChange, Settled, Host
  <2>4. OnlyRequest(q, v)' /\ req'[q] = h
    BY <1>1, <1>2, <1>3, <2>2, HandlerAlone
  <2>5. d \in Valor \ {row'[v].valor}
    BY <1>2 DEF Migrate
  <2> QED
    BY <1>1, <2>3, <2>4, <2>5 DEF Asked, Phase
<1> QED
  BY <1>2, <1>5, <1>7, <1>8, <1>9, StepAbout

\* What a handler at work on a calm virtue knows.
LEMMA RequestPhase ==
    ASSUME NEW q \in Request, NEW w \in Virtue, req[q].virtue = w, Phase(w)
    PROVE  /\ OnlyRequest(q, w)
           /\ \/ /\ Placed(w) /\ req[q].pc \in {"find", "place"} /\ req[q].source = row[w].valor
                 /\ req[q].pc = "place" => req[q].enabled = command[w].enabled
              \/ Leaving(w) /\ req[q].pc = "delete" /\ req[q].matched = row[w]
              \/ /\ Asked(w) /\ req[q].pc \in {"read", "count", "update"}
                 /\ req[q].dest \in Valor \ {row[w].valor}
                 /\ req[q].pc # "read" => req[q].source = row[w].valor
BY DEF Phase, Placed, Gone, Leaving, Asked, Ordered, Moved, NoRequest, OnlyRequest

\* A step of a handler at work that touches nothing but its own variables.
LEMMA LocalStep ==
    ASSUME MigrationAssumption, IInv, NEW q \in Request, NEW w \in Virtue, req[q].virtue = w,
           NEW h \in Handler, req' = [req EXCEPT ![q] = h], h.virtue \in {w, None},
           h.pc = "idle" <=> h.virtue = None,
           h.pc \in {"read", "count", "update"} => h.dest \in Valor,
           h.pc \in {"count", "update", "find", "place"} => h.source \in Valor,
           h.pc # "delete",
           UNCHANGED <<row, command, rowFeed, cmdFeed, mover, domU, calm, bounds>>,
           w \in calm =>
               \/ h.virtue = None /\ Asked(w)
               \/ /\ Asked(w) /\ h.pc \in {"count", "update"}
                  /\ h.dest \in Valor \ {row[w].valor} /\ h.source = row[w].valor
               \/ Placed(w) /\ h.pc = "place" /\ h.source = row[w].valor /\ h.enabled = command[w].enabled
    PROVE  IInv'
<1>1. Typed /\ w # None
  BY DEF IInv, MigrationAssumption
<1>2. req' \in [Request -> Handler] /\ Locals'
  BY <1>1, HandlerTyped
<1>3. Typed'
  BY <1>1, <1>2 DEF Typed, TypeOK, bounds
<1>4. ASSUME NEW u \in calm' \ {w} PROVE Spared(u)
  <2>1. u \in Virtue /\ u # None /\ u # w
    BY <1>1, <1>4 DEF Typed, TypeOK, MigrationAssumption
  <2> QED
    BY <1>1, <2>1, HandlerSpares
<1>5. ASSUME w \in calm' PROVE Phase(w)'
  <2>1. w \in calm /\ Phase(w)
    BY <1>5 DEF IInv, PhaseInv
  <2>2. OnlyRequest(q, w)
    BY <2>1, RequestPhase
  <2>3. /\ h.virtue = w => OnlyRequest(q, w)' /\ req'[q] = h
        /\ h.virtue = None => NoRequest(w)'
    BY <1>1, <2>2, HandlerAlone
  <2>4. /\ Still(w) => Still(w)'
        /\ NoChange(w) => NoChange(w)'
        /\ Settled(w) => Settled(w)'
        /\ Host(w)' = Host(w)
        /\ OnlyChange(row[w].valor, "add", w) => OnlyChange(row[w].valor, "add", w)'
    BY DEF Still, NoOrder, NoMover, Lost, NoChange, Settled, Host, OnlyChange
  <2>5. CASE h.virtue = None /\ Asked(w)
    <3>1. Still(w)' /\ Settled(w)' /\ NoChange(w)' /\ NoRequest(w)'
      BY <2>3, <2>4, <2>5 DEF Asked
    <3> QED
      BY <3>1 DEF Placed, Settled, Phase
  <2>6. CASE /\ Asked(w) /\ h.pc \in {"count", "update"}
             /\ h.dest \in Valor \ {row[w].valor} /\ h.source = row[w].valor
    <3>1. Still(w)' /\ Settled(w)' /\ NoChange(w)'
      BY <2>4, <2>6 DEF Asked
    <3>2. OnlyRequest(q, w)' /\ req'[q] = h
      BY <2>3, <2>6
    <3> QED
      BY <2>6, <3>1, <3>2 DEF Asked, Phase
  <2>7. CASE Placed(w) /\ h.pc = "place" /\ h.source = row[w].valor /\ h.enabled = command[w].enabled
    <3>1. OnlyRequest(q, w)' /\ req'[q] = h
      BY <2>3, <2>7
    <3> QED
      BY <2>4, <2>7, <3>1 DEF Placed, Phase
  <2> QED
    BY <2>1, <2>5, <2>6, <2>7
<1> QED
  BY <1>3, <1>4, <1>5, StepAbout

\* The virtue of a handler at work.
LEMMA AtWork ==
    ASSUME MigrationAssumption, IInv, NEW q \in Request, req[q].pc # "idle"
    PROVE  /\ Typed /\ req[q] \in Handler
           /\ req[q].virtue \in Virtue /\ req[q].virtue # None
           /\ req[q].virtue \in calm => Phase(req[q].virtue)
BY DEF IInv, Typed, TypeOK, Locals, MigrationAssumption, PhaseInv

LEMMA ReadSourceKeeps ==
    ASSUME MigrationAssumption, IInv, NEW q \in Request, ReadSource(q) PROVE IInv'
<1>1. PICK w : w = req[q].virtue
  OBVIOUS
<1>2. /\ Typed /\ req[q] \in Handler /\ req[q].pc = "read" /\ w \in Virtue /\ w # None
      /\ w \in calm => Phase(w)
      /\ req[q].dest \in Valor
  BY <1>1, AtWork DEF ReadSource, At, Typed, Locals
<1>3. w \in calm => Asked(w) /\ req[q].dest \in Valor \ {row[w].valor}
  BY <1>1, <1>2, RequestPhase
<1>4. UNCHANGED <<row, command, rowFeed, cmdFeed, mover, domU, calm, bounds>>
  BY DEF ReadSource
<1>5. CASE End(q)
  BY <1>1, <1>2, <1>3, <1>4, <1>5, IdleFacts, LocalStep DEF End
<1>6. CASE /\ row[w].valor \notin {None, req[q].dest}
           /\ req' = [req EXCEPT ![q].pc = "count", ![q].source = row[w].valor]
  <2> DEFINE h == [req[q] EXCEPT !.pc = "count", !.source = row[w].valor]
  <2>1. row[w].valor \in Valor
    BY <1>2, <1>6, RowFacts DEF Typed, TypeOK
  <2>2. /\ h \in Handler /\ h.pc = "count" /\ h.virtue = w /\ h.dest = req[q].dest
        /\ h.source = row[w].valor
    BY <1>1, <1>2, <2>1 DEF Handler
  <2>3. req' = [req EXCEPT ![q] = h]
    BY <1>6
  <2> HIDE DEF h
  <2> QED
    BY <1>1, <1>2, <1>3, <1>4, <2>1, <2>2, <2>3, LocalStep
<1> QED
  BY <1>1, <1>5, <1>6 DEF ReadSource

LEMMA CountVirtuesKeeps ==
    ASSUME MigrationAssumption, IInv, NEW q \in Request, CountVirtues(q) PROVE IInv'
<1>1. PICK w : w = req[q].virtue
  OBVIOUS
<1>2. /\ Typed /\ req[q] \in Handler /\ req[q].pc = "count" /\ w \in Virtue /\ w # None
      /\ w \in calm => Phase(w)
      /\ req[q].dest \in Valor /\ req[q].source \in Valor
  BY <1>1, AtWork DEF CountVirtues, At, Typed, Locals
<1>3. w \in calm =>
        Asked(w) /\ req[q].dest \in Valor \ {row[w].valor} /\ req[q].source = row[w].valor
  BY <1>1, <1>2, RequestPhase
<1>4. UNCHANGED <<row, command, rowFeed, cmdFeed, mover, domU, calm, bounds>>
  BY DEF CountVirtues
<1>5. CASE End(q)
  BY <1>1, <1>2, <1>3, <1>4, <1>5, IdleFacts, LocalStep DEF End
<1>6. CASE Goto(q, "update")
  <2> DEFINE h == [req[q] EXCEPT !.pc = "update"]
  <2>1. /\ h \in Handler /\ h.pc = "update" /\ h.virtue = w /\ h.dest = req[q].dest
        /\ h.source = req[q].source
    BY <1>1, <1>2 DEF Handler
  <2>2. req' = [req EXCEPT ![q] = h]
    BY <1>6 DEF Goto
  <2> HIDE DEF h
  <2> QED
    BY <1>1, <1>2, <1>3, <1>4, <2>1, <2>2, LocalStep
<1> QED
  BY <1>5, <1>6 DEF CountVirtues

LEMMA FindCommandKeeps ==
    ASSUME MigrationAssumption, IInv, NEW q \in Request, FindCommand(q) PROVE IInv'
<1>1. PICK w : w = req[q].virtue
  OBVIOUS
<1>2. /\ Typed /\ req[q] \in Handler /\ req[q].pc = "find" /\ w \in Virtue /\ w # None
      /\ w \in calm => Phase(w)
      /\ req[q].source \in Valor
  BY <1>1, AtWork DEF FindCommand, At, Typed, Locals
<1>3. w \in calm => Placed(w) /\ req[q].source = row[w].valor
  BY <1>1, <1>2, RequestPhase
<1>4. UNCHANGED <<row, command, rowFeed, cmdFeed, mover, domU, calm, bounds>>
  BY DEF FindCommand
<1> DEFINE h == [req[q] EXCEPT !.pc = "place", !.enabled = command[w].enabled]
<1>5. command[w].enabled \in BOOLEAN
  BY <1>2 DEF Typed, TypeOK, Command
<1>6. /\ h \in Handler /\ h.pc = "place" /\ h.virtue = w /\ h.source = req[q].source
      /\ h.enabled = command[w].enabled
  BY <1>1, <1>2, <1>5 DEF Handler
<1>7. req' = [req EXCEPT ![q] = h]
  BY <1>1 DEF FindCommand
<1> HIDE DEF h
<1> QED
  BY <1>1, <1>2, <1>3, <1>4, <1>6, <1>7, LocalStep

\* The handler ends with a write of the command of w, which spares the others.
LEMMA LastWrite ==
    ASSUME MigrationAssumption, IInv, NEW q \in Request, NEW w \in Virtue, req[q].virtue = w, End(q),
           \/ UNCHANGED <<command, cmdFeed>>
           \/ \E c \in Command : (c.enabled => c.valor_ip \in Valor) /\ SetCommand(w, c),
           UNCHANGED <<row, rowFeed, mover, domU, calm, bounds>>
    PROVE  Typed' /\ \A u \in calm' \ {w} : Spared(u)
<1>1. Typed /\ w # None
  BY DEF IInv, MigrationAssumption
<1>2. req' \in [Request -> Handler] /\ Locals'
  BY <1>1, IdleFacts, HandlerTyped DEF End
<1>3. /\ command' \in [Virtue -> Command] /\ cmdFeed' \in [Valor -> Seq(Order)]
      /\ \A u \in Virtue \ {w} : command'[u] = command[u]
      /\ \A u \in Virtue \ {w}, a \in Valor : Keeps(cmdFeed[a], cmdFeed'[a], u)
  <2>1. CASE UNCHANGED <<command, cmdFeed>>
    BY <1>1, <2>1, Unchanged DEF Typed, TypeOK
  <2>2. CASE \E c \in Command : (c.enabled => c.valor_ip \in Valor) /\ SetCommand(w, c)
    <3>1. PICK c \in Command : (c.enabled => c.valor_ip \in Valor) /\ SetCommand(w, c)
      BY <2>2
    <3> QED
      BY <1>1, <3>1, SetCommandFacts DEF Typed
  <2> QED
    BY <2>1, <2>2
<1>4. Typed'
  BY <1>1, <1>2, <1>3 DEF Typed, TypeOK, bounds
<1>5. ASSUME NEW u \in calm' \ {w} PROVE Spared(u)
  <2>1. u \in Virtue /\ u # None /\ u # w
    BY <1>1, <1>5 DEF Typed, TypeOK, MigrationAssumption
  <2>2. \A p \in Request : req'[p] = req[p] \/ (req[p].virtue # u /\ req'[p].virtue # u)
    <3>1. \A p \in Request : req'[p] = IF p = q THEN Idle ELSE req[p]
      BY <1>1 DEF Typed, TypeOK, End
    <3> QED
      BY <2>1, <3>1, IdleFacts
  <2> QED
    BY <1>3, <2>1, <2>2, Unchanged DEF Spared, Host
<1> QED
  BY <1>4, <1>5

LEMMA OrderMoveKeeps ==
    ASSUME MigrationAssumption, IInv, NEW q \in Request, OrderMove(q) PROVE IInv'
<1>1. PICK w : w = req[q].virtue
  OBVIOUS
<1>2. /\ Typed /\ req[q] \in Handler /\ req[q].pc = "update" /\ w \in Virtue /\ w # None
      /\ w \in calm => Phase(w)
      /\ req[q].dest \in Valor /\ req[q].source \in Valor
  BY <1>1, AtWork DEF OrderMove, At, Typed, Locals
<1>3. PICK d \in Valor : d = req[q].dest
  BY <1>2
<1>4. PICK c : c = [command[w] EXCEPT !.valor_dest = d, !.enabled = TRUE]
  OBVIOUS
<1>5. command[w] \in Command
  BY <1>2 DEF Typed, TypeOK
<1>6. c \in Command /\ c.valor_ip = command[w].valor_ip /\ c.valor_dest = d /\ c.enabled
  BY <1>4, <1>5 DEF Command
<1>7. /\ UNCHANGED <<row, rowFeed, mover, domU, calm, bounds>> /\ End(q)
      /\ IF command[w].valor_ip = req[q].source THEN SetCommand(w, c)
         ELSE UNCHANGED <<command, cmdFeed>>
  BY <1>1, <1>3, <1>4 DEF OrderMove
<1>8. Typed' /\ \A u \in calm' \ {w} : Spared(u)
  BY <1>1, <1>2, <1>6, <1>7, LastWrite
<1>9. ASSUME w \in calm' PROVE Phase(w)'
  <2>1. /\ Asked(w) /\ OnlyRequest(q, w) /\ d \in Valor \ {row[w].valor}
        /\ req[q].source = row[w].valor /\ w \in calm
    BY <1>1, <1>2, <1>3, <1>7, <1>9, RequestPhase
  <2>2. Still(w) /\ Settled(w) /\ NoChange(w)
    BY <2>1 DEF Asked
  <2>3. PICK a \in Valor : a = row[w].valor /\ a = command[w].valor_ip /\ d # a
    BY <1>2, <2>1, <2>2 DEF Settled
  <2>4. SetCommand(w, c) /\ c = [valor_ip |-> a, valor_dest |-> d, enabled |-> TRUE]
    BY <1>4, <1>5, <1>7, <2>1, <2>3 DEF Command
  <2>5. NoRequest(w)'
    BY <1>2, <1>7, <2>1, IdleFacts, HandlerAlone DEF End
  <2>6. command'[w] = c
    <3>1. TypeOK /\ c.valor_ip \in Valor
      BY <1>2, <1>6, <2>3 DEF Typed
    <3> QED
      BY <1>2, <1>6, <2>4, <3>1, SetCommandFacts
  <2>7. NoChange(w)' /\ Settled(w)' /\ NoMover(w)'
    BY <1>6, <1>7, <2>2, <2>6 DEF NoChange, Settled, Host, Still, NoMover
  <2>8. CASE cmdFeed' = cmdFeed /\ (c = command[w] \/ mover[a].pc = "dead")
    <3>1. NoOrder(w)'
      BY <2>2, <2>8 DEF Still, NoOrder
    <3>2. Lost(w)'
      <4>1. CASE mover[a].pc = "dead"
        BY <1>7, <2>4, <2>6, <4>1 DEF Lost
      <4>2. CASE c = command[w]
        BY <1>6, <1>7, <2>2, <2>6, <4>2 DEF Lost, Still
      <4> QED
        BY <2>8, <4>1, <4>2
    <3> QED
      BY <2>5, <2>7, <3>1, <3>2 DEF Placed, Settled, Still, Phase
  <2>9. CASE /\ mover[a].pc # "dead"
             /\ cmdFeed' = [cmdFeed EXCEPT ![a] = Append(@, [virtue |-> w, valor_dest |-> d])]
    <3>1. PICK o \in Order : o = [virtue |-> w, valor_dest |-> d] /\ o.virtue = w
      <4>1. [virtue |-> w, valor_dest |-> d] \in Order
        BY <1>2 DEF Order
      <4> QED
        BY <4>1
    <3>2. cmdFeed \in [Valor -> Seq(Order)]
      BY <1>2 DEF Typed, TypeOK
    <3>3. \A b \in Valor : cmdFeed'[b] = IF b = a THEN Append(cmdFeed[a], o) ELSE cmdFeed[b]
      BY <2>9, <3>1, <3>2
    <3>4. \A b \in Valor : Free(cmdFeed[b], w)
      BY <2>2 DEF Still, NoOrder
    <3>5. Sole(Append(cmdFeed[a], o), o)
      BY <3>1, <3>2, <3>4, SoleAppended
    <3>6. OnlyOrder(a, d, w)'
      BY <3>1, <3>3, <3>4, <3>5 DEF OnlyOrder
    <3>7. row'[w].valor = a /\ mover'[a].pc # "dead"
      BY <1>7, <2>3, <2>9
    <3> QED
      BY <2>3, <2>4, <2>5, <2>6, <2>7, <3>6, <3>7 DEF Ordered, Phase
  <2> QED
    BY <1>2, <1>6, <2>3, <2>4, <2>8, <2>9, SetCommandFacts DEF Typed
<1> QED
  BY <1>2, <1>7, <1>8, <1>9, StepAbout

LEMMA PlaceCommandKeeps ==
    ASSUME MigrationAssumption, IInv, NEW q \in Request, PlaceCommand(q) PROVE IInv'
<1>1. PICK w : w = req[q].virtue
  OBVIOUS
<1>2. /\ Typed /\ req[q] \in Handler /\ req[q].pc = "place" /\ w \in Virtue /\ w # None
      /\ w \in calm => Phase(w)
      /\ req[q].source \in Valor /\ req[q].enabled \in BOOLEAN
  BY <1>1, AtWork DEF PlaceCommand, At, Typed, Locals, Handler
<1>3. PICK a \in Valor : a = req[q].source
  BY <1>2
<1>4. PICK c : c = [valor_ip |-> a, valor_dest |-> None, enabled |-> req[q].enabled]
  OBVIOUS
<1>5. /\ c \in Command /\ c.valor_ip = a /\ c.valor_dest = None /\ c.enabled = req[q].enabled
  BY <1>2, <1>4 DEF Command
<1>6. /\ UNCHANGED <<row, rowFeed, mover, domU, calm, bounds>> /\ End(q) /\ SetCommand(w, c)
  BY <1>1, <1>3, <1>4 DEF PlaceCommand
<1>7. Typed' /\ \A u \in calm' \ {w} : Spared(u)
  BY <1>1, <1>2, <1>5, <1>6, LastWrite
<1>8. ASSUME w \in calm' PROVE Phase(w)'
  <2>1. /\ Placed(w) /\ OnlyRequest(q, w) /\ a = row[w].valor
        /\ req[q].enabled = command[w].enabled /\ w \in calm
    BY <1>1, <1>2, <1>3, <1>6, <1>8, RequestPhase
  <2>2. Still(w)
    BY <2>1 DEF Placed
  <2>3. command'[w] = c
    BY <1>2, <1>5, <1>6, SetCommandFacts DEF Typed
  <2>4. cmdFeed' = cmdFeed
    <3>1. SUFFICES ASSUME c # command[w], command[w].valor_ip = a, c.enabled, mover[a].pc # "dead"
                   PROVE  FALSE
      BY <1>2, <1>5, <1>6, SetCommandFacts DEF Typed
    <3>2. command[w].enabled /\ command[w].valor_dest = None
      BY <1>5, <2>1, <2>2, <3>1 DEF Still, Lost
    <3>3. command[w] \in Command
      BY <1>2 DEF Typed, TypeOK
    <3>4. command[w] = [valor_ip |-> a, valor_dest |-> None, enabled |-> command[w].enabled]
      BY <3>1, <3>2, <3>3 DEF Command
    <3> QED
      BY <1>4, <2>1, <3>1, <3>4
  <2>5. NoRequest(w)'
    BY <1>2, <1>6, <2>1, IdleFacts, HandlerAlone DEF End
  <2>6. c.enabled => Lost(w)'
    <3> SUFFICES ASSUME c.enabled PROVE Lost(w)'
      OBVIOUS
    <3>1. \E b \in Valor : mover[b].pc = "dead"
      BY <1>5, <2>1, <2>2 DEF Still, Lost
    <3> QED
      BY <1>5, <1>6, <2>3, <3>1 DEF Lost
  <2>7. Still(w)'
    BY <1>6, <2>2, <2>3, <2>4, <2>6 DEF Still, NoOrder, NoMover
  <2>8. command'[w].valor_ip = row'[w].valor /\ row'[w].valor # None
    BY <1>5, <1>6, <2>1, <2>3 DEF Placed
  <2>9. \/ NoChange(w)' /\ Host(w)' = {row'[w].valor}
        \/ OnlyChange(row[w].valor, "add", w)' /\ Host(w)' = {}
    BY <1>6, <2>1 DEF Placed, NoChange, OnlyChange, Host
  <2> QED
    BY <2>5, <2>7, <2>8, <2>9 DEF Placed, Phase
<1> QED
  BY <1>2, <1>6, <1>7, <1>8, StepAbout

\* What publishing a change of the row of w does to the feeds.
LEMMA PublishFacts ==
    ASSUME TypeOK, NEW w \in Virtue, NEW a \in Valor, NEW type \in {"add", "remove"},
           PublishRow(type, w, a)
    PROVE  /\ rowFeed' \in [Valor -> Seq(RowChange)]
           /\ \A u \in Virtue \ {w}, b \in Valor : Keeps(rowFeed[b], rowFeed'[b], u)
           /\ NoChange(w) => OnlyChange(a, type, w)'
<1>1. PICK c \in RowChange : c = [type |-> type, virtue |-> w] /\ c.virtue = w
  <2>1. [type |-> type, virtue |-> w] \in RowChange
    BY DEF RowChange
  <2> QED
    BY <2>1
<1>2. rowFeed \in [Valor -> Seq(RowChange)]
  BY DEF TypeOK
<1>3. Append(rowFeed[a], c) \in Seq(RowChange)
  BY <1>2, AppendProperties
<1>4. \A b \in Valor : rowFeed'[b] = IF b = a THEN Append(rowFeed[a], c) ELSE rowFeed[b]
  BY <1>1, <1>2 DEF PublishRow
<1>5. rowFeed' \in [Valor -> Seq(RowChange)]
  BY <1>1, <1>2, <1>3 DEF PublishRow
<1>6. ASSUME NEW u \in Virtue \ {w}, NEW b \in Valor PROVE Keeps(rowFeed[b], rowFeed'[b], u)
  <2>1. CASE b = a
    <3>1. c.virtue # u /\ rowFeed[a] \in Seq(RowChange)
      BY <1>1, <1>2, <1>6
    <3>2. Keeps(rowFeed[a], Append(rowFeed[a], c), u)
      BY <3>1, KeepsAppend
    <3> QED
      BY <1>4, <2>1, <3>2
  <2>2. CASE b # a
    BY <1>4, <2>2, Unchanged
  <2> QED
    BY <2>1, <2>2
<1>7. ASSUME NoChange(w) PROVE OnlyChange(a, type, w)'
  <2>1. \A b \in Valor : Free(rowFeed[b], w)
    BY <1>7 DEF NoChange
  <2>2. Sole(Append(rowFeed[a], c), c)
    BY <1>1, <1>2, <2>1, SoleAppended
  <2> QED
    BY <1>1, <1>4, <2>1, <2>2 DEF OnlyChange
<1> QED
  BY <1>5, <1>6, <1>7

\* A step of a handler for w that writes the row of w and publishes it spares
\* the others.
LEMMA RowWriteSpares ==
    ASSUME MigrationAssumption, Typed, NEW q \in Request, NEW w \in Virtue, req[q].virtue \in {w, None},
           NEW h, req' = [req EXCEPT ![q] = h], h.virtue \in {w, None},
           NEW r, row' = [row EXCEPT ![w] = r],
           NEW a \in Valor, NEW type \in {"add", "remove"}, PublishRow(type, w, a),
           UNCHANGED <<command, cmdFeed, mover, domU>>, NEW u \in Virtue \ {w}
    PROVE  Spared(u)
<1>1. u # None /\ u # w
  BY DEF MigrationAssumption
<1>2. \A p \in Request : req'[p] = IF p = q THEN h ELSE req[p]
  BY DEF Typed, TypeOK
<1>3. \A p \in Request : req'[p] = req[p] \/ (req[p].virtue # u /\ req'[p].virtue # u)
  BY <1>1, <1>2
<1>4. row'[u] = row[u]
  BY DEF Typed, TypeOK
<1>5. \A b \in Valor : Keeps(rowFeed[b], rowFeed'[b], u)
  BY PublishFacts DEF Typed
<1> QED
  BY <1>3, <1>4, <1>5, Unchanged DEF Spared, Host

LEMMA LaunchKeeps ==
    ASSUME MigrationAssumption, IInv, NEW q \in Request, NEW v \in Virtue, NEW a \in Valor,
           Launch(q, v, a)
    PROVE  IInv'
<1> DEFINE h == [Idle EXCEPT !.pc = "find", !.virtue = v, !.source = a]
           r == [id |-> launches', valor |-> a]
<1>1. h \in Handler /\ h.pc = "find" /\ h.virtue = v /\ h.source = a
  BY IdleFacts DEF Idle, Handler
<1>2. /\ req' = [req EXCEPT ![q] = h] /\ req[q].virtue = None /\ v # None
      /\ row' = [row EXCEPT ![v] = r] /\ PublishRow("add", v, a) /\ row[v] = NoRow
      /\ UNCHANGED <<command, cmdFeed, mover, domU, migrations, failures>>
  BY DEF Launch, At, IInv, Typed, Locals, MigrationAssumption
<1>3. Typed /\ TypeOK
  BY DEF IInv, Typed
<1>4. launches' \in 0 .. MaxLaunches /\ launches' \in 1 .. MaxLaunches
  BY <1>3 DEF Launch, TypeOK, MigrationAssumption
<1>5. r \in Row /\ r.valor = a
  BY <1>4 DEF Row
<1> HIDE DEF h, r
<1>6. req' \in [Request -> Handler] /\ Locals'
  BY <1>1, <1>2, <1>3, HandlerTyped
<1>7. calm' \subseteq calm /\ (v \in calm' => v \in calm /\ ~ Busy(v)) /\ calm' \subseteq Virtue
  BY <1>3, OverlapFacts DEF Launch
<1>8. rowFeed' \in [Valor -> Seq(RowChange)] /\ (NoChange(v) => OnlyChange(a, "add", v)')
  BY <1>2, <1>3, PublishFacts
<1>9. row' \in [Virtue -> Row] /\ row'[v] = r
  BY <1>2, <1>3, <1>5 DEF TypeOK
<1>10. Typed'
  BY <1>2, <1>3, <1>4, <1>6, <1>7, <1>8, <1>9 DEF Typed, TypeOK
<1>11. ASSUME NEW u \in calm' \ {v} PROVE Spared(u)
  <2>1. u \in Virtue \ {v}
    BY <1>7, <1>11
  <2> QED
    BY <1>1, <1>2, <1>3, <2>1, RowWriteSpares
<1>12. ASSUME v \in calm' PROVE Phase(v)'
  <2>1. Phase(v) /\ ~ Busy(v)
    BY <1>7, <1>12 DEF IInv, PhaseInv
  <2>2. Still(v) /\ NoRequest(v) /\ NoChange(v) /\ Host(v) = {}
    BY <1>2, <1>3, <2>1, RestingPhase
  <2>3. Still(v)' /\ Host(v)' = {}
    BY <1>2, <2>2 DEF Still, NoOrder, NoMover, Lost, Host
  <2>4. OnlyRequest(q, v)' /\ req'[q] = h
    BY <1>1, <1>2, <1>3, <2>2, HandlerAlone
  <2>5. row'[v].valor = a /\ a # None
    BY <1>5, <1>9 DEF MigrationAssumption
  <2>6. OnlyChange(row[v].valor, "add", v)'
    BY <1>8, <2>2, <2>5
  <2> QED
    BY <1>1, <2>3, <2>4, <2>5, <2>6 DEF Placed, Phase
<1> QED
  BY <1>2, <1>7, <1>10, <1>11, <1>12, StepAbout

LEMMA StopKeeps ==
    ASSUME MigrationAssumption, IInv, NEW q \in Request, NEW v \in Virtue, Stop(q, v)
    PROVE  IInv'
<1> DEFINE h == [Idle EXCEPT !.pc = "delete", !.virtue = v, !.matched = row[v]]
<1>1. row[v] \in Row
  BY DEF IInv, Typed, TypeOK
<1>2. h \in Handler /\ h.pc = "delete" /\ h.virtue = v /\ h.matched = row[v]
  BY <1>1, IdleFacts DEF Idle, Handler
<1>3. /\ req' = [req EXCEPT ![q] = h] /\ req[q].virtue = None /\ v # None /\ row[v] # NoRow
      /\ UNCHANGED <<row, command, rowFeed, cmdFeed, mover, domU, bounds>>
  BY DEF Stop, At, IInv, Typed, Locals, MigrationAssumption
<1>4. Typed
  BY DEF IInv
<1> HIDE DEF h
<1>5. req' \in [Request -> Handler] /\ Locals'
  BY <1>2, <1>3, <1>4, HandlerTyped
<1>6. calm' \subseteq calm /\ (v \in calm' => v \in calm /\ ~ Busy(v)) /\ calm' \subseteq Virtue
  BY <1>4, OverlapFacts DEF Stop
<1>7. Typed'
  BY <1>3, <1>4, <1>5, <1>6 DEF Typed, TypeOK, bounds
<1>8. ASSUME NEW u \in calm' \ {v} PROVE Spared(u)
  <2>1. u \in Virtue /\ u # None /\ u # v
    BY <1>6, <1>8 DEF MigrationAssumption
  <2> QED
    BY <1>2, <1>3, <1>4, <2>1, HandlerSpares
<1>9. ASSUME v \in calm' PROVE Phase(v)'
  <2>1. Phase(v) /\ ~ Busy(v)
    BY <1>6, <1>9 DEF IInv, PhaseInv
  <2>2. Still(v) /\ NoRequest(v) /\ NoChange(v) /\ Settled(v)
    BY <1>3, <1>4, <2>1, RestingPhase
  <2>3. Still(v)' /\ NoChange(v)' /\ Settled(v)'
    BY <1>3, <2>2 DEF Still, NoOrder, NoMover, Lost, NoChange, Settled, Host
  <2>4. OnlyRequest(q, v)' /\ req'[q] = h
    BY <1>2, <1>3, <1>4, <2>2, HandlerAlone
  <2>5. h.matched = row'[v]
    BY <1>2, <1>3
  <2> QED
    BY <1>2, <2>3, <2>4, <2>5 DEF Leaving, Phase
<1> QED
  BY <1>3, <1>6, <1>7, <1>8, <1>9, StepAbout

LEMMA DeleteRowKeeps ==
    ASSUME MigrationAssumption, IInv, NEW q \in Request, DeleteRow(q) PROVE IInv'
<1>1. PICK w : w = req[q].virtue
  OBVIOUS
<1>2. /\ Typed /\ req[q] \in Handler /\ req[q].pc = "delete" /\ w \in Virtue /\ w # None
      /\ w \in calm => Phase(w)
      /\ req[q].matched # NoRow /\ row[w] \in Row
  BY <1>1, AtWork DEF DeleteRow, At, Typed, TypeOK, Locals
<1>3. UNCHANGED <<command, cmdFeed, mover, domU, calm, bounds>> /\ End(q)
  BY DEF DeleteRow
<1>4. req' \in [Request -> Handler] /\ Locals'
  BY <1>2, <1>3, IdleFacts, HandlerTyped DEF End
<1>5. ASSUME w \in calm
      PROVE  Leaving(w) /\ OnlyRequest(q, w) /\ req[q].matched = row[w] /\ NoRequest(w)'
  <2>1. Leaving(w) /\ OnlyRequest(q, w) /\ req[q].matched = row[w]
    BY <1>1, <1>2, <1>5, RequestPhase
  <2> QED
    BY <1>2, <1>3, <2>1, IdleFacts, HandlerAlone DEF End
<1>6. CASE row[w] # req[q].matched
  <2>1. UNCHANGED <<row, rowFeed>>
    BY <1>1, <1>6 DEF DeleteRow
  <2>2. Typed'
    BY <1>2, <1>3, <1>4, <2>1 DEF Typed, TypeOK, bounds
  <2>3. ASSUME NEW u \in calm' \ {w} PROVE Spared(u)
    <3>1. u \in Virtue /\ u # None /\ u # w
      BY <1>2, <1>3, <2>3 DEF Typed, TypeOK, MigrationAssumption
    <3> QED
      BY <1>1, <1>2, <1>3, <2>1, <3>1, IdleFacts, HandlerSpares DEF End
  <2>4. w \notin calm
    BY <1>5, <1>6
  <2> QED
    BY <1>2, <1>3, <2>2, <2>3, <2>4, StepAbout
<1>7. CASE row[w] = req[q].matched
  <2>1. row' = [row EXCEPT ![w] = NoRow] /\ PublishRow("remove", w, row[w].valor)
    BY <1>1, <1>7 DEF DeleteRow
  <2>2. PICK a \in Valor : a = row[w].valor
    BY <1>2, <1>7, RowFacts
  <2>3. rowFeed' \in [Valor -> Seq(RowChange)] /\ (NoChange(w) => OnlyChange(a, "remove", w)')
    BY <1>2, <2>1, <2>2, PublishFacts DEF Typed
  <2>4. row' \in [Virtue -> Row] /\ row'[w] = NoRow
    BY <1>2, <2>1 DEF Typed, TypeOK, Row
  <2>5. Typed'
    BY <1>2, <1>3, <1>4, <2>3, <2>4 DEF Typed, TypeOK, bounds
  <2>6. ASSUME NEW u \in calm' \ {w} PROVE Spared(u)
    <3>1. u \in Virtue \ {w}
      BY <1>2, <1>3, <2>6 DEF Typed, TypeOK
    <3> QED
      BY <1>1, <1>2, <1>3, <2>1, <2>2, <3>1, IdleFacts, RowWriteSpares DEF End
  <2>7. ASSUME w \in calm' PROVE Phase(w)'
    <3>1. Leaving(w) /\ NoRequest(w)'
      BY <1>3, <1>5, <2>7
    <3>2. Still(w)' /\ Host(w)' = {a}
      BY <1>3, <2>2, <3>1 DEF Leaving, Settled, Still, NoOrder, NoMover, Lost, Host
    <3>3. OnlyChange(a, "remove", w)'
      BY <2>3, <3>1 DEF Leaving
    <3> QED
      BY <2>4, <3>1, <3>2, <3>3 DEF Gone, Phase
  <2> QED
    BY <1>2, <1>3, <2>5, <2>6, <2>7, StepAbout
<1> QED
  BY <1>6, <1>7

(***************************************************************************)
(* Gaius                                                                   *)
(***************************************************************************)

\* An xl command about w: calm virtues are those whose commands succeed.
LEMMA AttemptFacts ==
    ASSUME MigrationAssumption, TypeOK, NEW w \in Virtue, NEW possible \in BOOLEAN, NEW result,
           Attempt(possible, w, result), result \subseteq Valor \X Virtue
    PROVE  /\ calm' \subseteq calm /\ calm \ {w} \subseteq calm' /\ calm' \subseteq Virtue
           /\ failures' \in 0 .. MaxFailures
           /\ domU' \subseteq Valor \X Virtue /\ domU' \in {domU, result}
           /\ w \in calm' /\ possible => domU' = result
BY DEF Attempt, Failure, TypeOK, MigrationAssumption

\* The creation or destruction of the domain of w spares the others.
LEMMA HandleRowSpares ==
    ASSUME TypeOK, NEW a \in Valor, rowFeed[a] # << >>,
           rowFeed' = [rowFeed EXCEPT ![a] = Tail(@)], NEW u \in Virtue, Head(rowFeed[a]).virtue # u,
           Host(u)' = Host(u), UNCHANGED <<row, command, cmdFeed, mover, req>>
    PROVE  Spared(u)
<1>1. rowFeed[a] \in Seq(RowChange)
  BY DEF TypeOK
<1>2. \A b \in Valor : rowFeed'[b] = IF b = a THEN Tail(rowFeed[a]) ELSE rowFeed[b]
  BY DEF TypeOK
<1>3. Keeps(rowFeed[a], Tail(rowFeed[a]), u)
  BY <1>1, KeepsTail
<1> QED
  BY <1>2, <1>3, Unchanged DEF Spared

LEMMA HandleRowKeeps ==
    ASSUME MigrationAssumption, IInv, NEW a \in Valor, HandleRow(a) PROVE IInv'
<1>1. /\ Typed /\ TypeOK /\ rowFeed[a] # << >> /\ rowFeed[a] \in Seq(RowChange)
      /\ rowFeed' = [rowFeed EXCEPT ![a] = Tail(@)]
      /\ UNCHANGED <<row, command, cmdFeed, mover, req, launches, migrations>>
  BY DEF IInv, Typed, TypeOK, HandleRow
<1>2. PICK c \in RowChange : c = Head(rowFeed[a])
  BY <1>1, TailFacts
<1>3. PICK w \in Virtue : w = c.virtue
  BY DEF RowChange
<1>4. PICK here : here = <<a, w>>
  OBVIOUS
<1>5. \/ c.type = "add" /\ Attempt(here \notin domU, w, domU \cup {here})
      \/ c.type = "remove" /\ Attempt(here \in domU, w, domU \ {here})
  BY <1>2, <1>3, <1>4 DEF HandleRow
<1>6. /\ calm' \subseteq calm /\ calm \ {w} \subseteq calm' /\ calm' \subseteq Virtue
      /\ failures' \in 0 .. MaxFailures
      /\ domU' \subseteq Valor \X Virtue /\ domU' \in {domU, domU \cup {here}, domU \ {here}}
      /\ w \in calm' /\ c.type = "add" /\ here \notin domU => domU' = domU \cup {here}
      /\ w \in calm' /\ c.type = "remove" /\ here \in domU => domU' = domU \ {here}
  <2>1. domU \cup {here} \subseteq Valor \X Virtue /\ domU \ {here} \subseteq Valor \X Virtue
    BY <1>1, <1>4 DEF TypeOK
  <2>2. (here \notin domU) \in BOOLEAN /\ (here \in domU) \in BOOLEAN
    OBVIOUS
  <2>3. CASE c.type = "add" /\ Attempt(here \notin domU, w, domU \cup {here})
    BY <1>1, <2>1, <2>2, <2>3, AttemptFacts
  <2>4. CASE c.type = "remove" /\ Attempt(here \in domU, w, domU \ {here})
    <3>1. PICK result : result = domU \ {here}
      OBVIOUS
    <3>2. Attempt(here \in domU, w, result) /\ result \subseteq Valor \X Virtue
      BY <2>1, <2>4, <3>1
    <3>3. /\ calm' \subseteq calm /\ calm \ {w} \subseteq calm' /\ calm' \subseteq Virtue
          /\ failures' \in 0 .. MaxFailures
          /\ domU' \subseteq Valor \X Virtue /\ domU' \in {domU, result}
          /\ w \in calm' /\ here \in domU => domU' = result
      BY <1>1, <2>2, <3>2, AttemptFacts
    <3> QED
      BY <2>4, <3>1, <3>3
  <2> QED
    BY <1>5, <2>3, <2>4
<1>7. rowFeed' \in [Valor -> Seq(RowChange)]
  <2>1. Tail(rowFeed[a]) \in Seq(RowChange)
    BY <1>1, TailFacts
  <2> QED
    BY <1>1, <2>1 DEF TypeOK
<1>8. Typed'
  BY <1>1, <1>6, <1>7 DEF Typed, TypeOK, Locals
<1>9. ASSUME NEW u \in calm' \ {w} PROVE Spared(u)
  <2>1. u \in Virtue /\ u # w
    BY <1>6, <1>9
  <2>2. Host(u)' = Host(u)
    BY <1>4, <1>6, <2>1 DEF Host
  <2> QED
    BY <1>1, <1>2, <1>3, <2>1, <2>2, HandleRowSpares
<1>10. ASSUME w \in calm' PROVE Phase(w)'
  <2>1. Phase(w)
    BY <1>6, <1>10 DEF IInv, PhaseInv
  <2>2. ~ Free(rowFeed[a], w)
    BY <1>1, <1>2, <1>3, FreeHead
  <2>3. ~ NoChange(w) /\ \A b \in Valor : \A type : OnlyChange(b, type, w) => b = a
    BY <2>2 DEF NoChange, OnlyChange
  <2>4. \A b \in Valor : rowFeed'[b] = IF b = a THEN Tail(rowFeed[a]) ELSE rowFeed[b]
    BY <1>1 DEF TypeOK
  <2>5. ASSUME NEW type, OnlyChange(a, type, w)
        PROVE  c.type = type /\ NoChange(w)'
    <3>1. PICK x : x = [type |-> type, virtue |-> w] /\ x.type = type /\ x.virtue = w
      <4>1. [type |-> type, virtue |-> w].type = type /\ [type |-> type, virtue |-> w].virtue = w
        OBVIOUS
      <4> QED
        BY <4>1
    <3>2. Sole(rowFeed[a], x) /\ \A b \in Valor \ {a} : Free(rowFeed[b], w)
      BY <2>5, <3>1 DEF OnlyChange
    <3>3. c = x /\ Free(Tail(rowFeed[a]), w)
      BY <1>1, <1>2, <1>3, <3>1, <3>2, SoleHead
    <3> QED
      BY <2>4, <3>1, <3>2, <3>3 DEF NoChange
  <2>6. Still(w) => Still(w)'
    BY <1>1 DEF Still, NoOrder, NoMover, Lost
  <2>7. NoRequest(w) => NoRequest(w)'
    BY <1>1 DEF NoRequest
  <2>8. row[w] \in Row
    BY <1>1 DEF TypeOK
  <2>9. CASE Placed(w)
    <3>1. PICK b \in Valor : b = row[w].valor
      BY <2>8, <2>9, RowFacts DEF Placed
    <3>2. OnlyChange(b, "add", w) /\ Host(w) = {}
      BY <2>3, <2>9, <3>1 DEF Placed
    <3>3. b = a /\ c.type = "add" /\ NoChange(w)'
      BY <2>3, <2>5, <3>2
    <3>4. here \notin domU
      BY <1>4, <3>2 DEF Host
    <3>5. domU' = domU \cup {here}
      BY <1>6, <1>10, <3>3, <3>4
    <3>6. Host(w)' = {a}
      BY <1>4, <3>2, <3>5 DEF Host
    <3>7. \/ NoRequest(w)' /\ command'[w].valor_ip = row'[w].valor
          \/ \E q \in Request :
               /\ OnlyRequest(q, w)' /\ req'[q].pc \in {"find", "place"}
               /\ req'[q].source = row'[w].valor
               /\ req'[q].pc = "place" => req'[q].enabled = command'[w].enabled
      BY <1>1, <2>7, <2>9 DEF Placed, OnlyRequest
    <3>8. Still(w)' /\ row'[w].valor # None /\ row'[w].valor = a
      BY <1>1, <2>6, <2>9, <3>1, <3>3 DEF Placed
    <3> QED
      BY <3>3, <3>6, <3>7, <3>8 DEF Placed, Phase
  <2>10. CASE Gone(w)
    <3>1. PICK b \in Valor : OnlyChange(b, "remove", w) /\ Host(w) = {b}
      BY <2>3, <2>10 DEF Gone
    <3>2. b = a /\ c.type = "remove" /\ NoChange(w)'
      BY <2>3, <2>5, <3>1
    <3>3. here \in domU
      BY <1>4, <3>1, <3>2 DEF Host
    <3>4. domU' = domU \ {here}
      BY <1>6, <1>10, <3>2, <3>3
    <3>5. Host(w)' = {}
      BY <1>4, <3>1, <3>2, <3>4 DEF Host
    <3>6. Still(w)' /\ row'[w] = NoRow /\ NoRequest(w)'
      BY <1>1, <2>6, <2>7, <2>10 DEF Gone
    <3> QED
      BY <3>2, <3>5, <3>6 DEF Gone, Phase
  <2> QED
    BY <2>1, <2>3, <2>9, <2>10 DEF Phase, Leaving, Asked, Ordered, Moved
<1> QED
  BY <1>1, <1>6, <1>8, <1>9, <1>10, StepAbout

\* The end of a thread that is not at work on the virtue spares it.
LEMMA DieFacts ==
    ASSUME Typed, NEW a \in Valor, Die(a), UNCHANGED req
    PROVE  /\ mover' \in [Valor -> Mover] /\ Locals' /\ cmdFeed' \in [Valor -> Seq(Order)]
           /\ \A b \in Valor : mover'[b].pc = "dead" => mover[b].pc = "dead" \/ b = a
<1>1. mover' \in [Valor -> Mover] /\ Locals'
  BY IdleFacts, MoverTyped DEF Die
<1>2. cmdFeed' \in [Valor -> Seq(Order)]
  <2>1. << >> \in Seq(Order)
    BY EmptySeq
  <2> QED
    BY <2>1 DEF Typed, TypeOK, Die
<1>3. \A b \in Valor : mover'[b].pc = "dead" => mover[b].pc = "dead" \/ b = a
  BY DEF Typed, TypeOK, Die
<1> QED
  BY <1>1, <1>2, <1>3

LEMMA DieSpares ==
    ASSUME MigrationAssumption, Typed, NEW a \in Valor, Die(a), NEW u \in Virtue,
           mover[a].virtue # u, Host(u)' = Host(u), UNCHANGED <<row, command, rowFeed, req>>
    PROVE  Spared(u)
<1>1. u # None
  BY DEF MigrationAssumption
<1>2. \A b \in Valor : b # a => mover'[b] = mover[b] /\ cmdFeed'[b] = cmdFeed[b]
  BY DEF Typed, TypeOK, Die
<1>3. mover'[a].pc = "dead" /\ mover'[a].virtue = None /\ cmdFeed'[a] = << >>
  BY IdleFacts DEF Typed, TypeOK, Die
<1> QED
  BY <1>1, <1>2, <1>3, Unchanged DEF Spared

\* A step of a thread at work on w that leaves the feeds alone spares the
\* others.
LEMMA MoverSpares ==
    ASSUME Typed, NEW a \in Valor, NEW m, mover' = [mover EXCEPT ![a] = m], m.pc # "dead",
           NEW u \in Virtue, mover[a].virtue # u, m.virtue # u, mover[a].pc # "dead",
           row'[u] = row[u], command'[u] = command[u], Host(u)' = Host(u),
           \A b \in Valor : Keeps(cmdFeed[b], cmdFeed'[b], u), UNCHANGED <<rowFeed, req>>
    PROVE  Spared(u)
<1>1. \A b \in Valor : mover'[b] = IF b = a THEN m ELSE mover[b]
  BY DEF Typed, TypeOK
<1> QED
  BY <1>1, Unchanged DEF Spared

\* What a thread that takes an order for a calm virtue finds.
LEMMA OrderPhase ==
    ASSUME NEW a \in Valor, NEW w \in Virtue, Phase(w), ~ Free(cmdFeed[a], w)
    PROVE  /\ Ordered(w) /\ row[w].valor = a
           /\ \E d \in Valor \ {a} :
                 /\ OnlyOrder(a, d, w)
                 /\ command[w] = [valor_ip |-> a, valor_dest |-> d, enabled |-> TRUE]
BY DEF Phase, Placed, Gone, Leaving, Asked, Ordered, Moved, Still, NoOrder, OnlyOrder

\* What a thread at work on a calm virtue knows.
LEMMA MoverPhase ==
    ASSUME NEW a \in Valor, NEW w \in Virtue, Phase(w), mover[a].virtue = w
    PROVE  /\ NoRequest(w) /\ NoChange(w) /\ NoOrder(w)
           /\ \E d \in Valor : MovedBy(a, d, w)
BY DEF Phase, Placed, Gone, Leaving, Asked, Ordered, Moved, Still, NoMover, MovedBy, OnlyMover

\* The thread is the only one for its virtue, or has left it.
LEMMA MoverAlone ==
    ASSUME Typed, NEW a \in Valor, NEW m, mover' = [mover EXCEPT ![a] = m], NEW v \in Virtue,
           NoMover(v) \/ OnlyMover(a, v)
    PROVE  /\ m.virtue = v => OnlyMover(a, v)' /\ mover'[a] = m
           /\ m.virtue # v => NoMover(v)'
<1>1. \A b \in Valor : mover'[b] = IF b = a THEN m ELSE mover[b]
  BY DEF Typed, TypeOK
<1> QED
  BY <1>1 DEF NoMover, OnlyMover

LEMMA TakeOrderKeeps ==
    ASSUME MigrationAssumption, IInv, NEW a \in Valor, TakeOrder(a) PROVE IInv'
<1>1. /\ Typed /\ TypeOK /\ cmdFeed[a] # << >> /\ cmdFeed[a] \in Seq(Order)
      /\ mover[a].pc = "idle" /\ mover[a].virtue = None
      /\ UNCHANGED <<row, command, rowFeed, domU, req, calm, bounds>>
  BY DEF IInv, Typed, TypeOK, Locals, TakeOrder
<1>2. PICK o \in Order : o = Head(cmdFeed[a])
  BY <1>1, TailFacts
<1>3. PICK w \in Virtue : w = o.virtue
  BY DEF Order
<1>4. w # None /\ \A u \in Virtue : u # None
  BY DEF MigrationAssumption
<1>5. ASSUME w \in calm
      PROVE  /\ Ordered(w) /\ row[w].valor = a /\ row[w] # NoRow
             /\ \E d \in Valor \ {a} :
                   /\ OnlyOrder(a, d, w)
                   /\ command[w] = [valor_ip |-> a, valor_dest |-> d, enabled |-> TRUE]
  <2>1. ~ Free(cmdFeed[a], w)
    BY <1>1, <1>2, <1>3, FreeHead
  <2>2. Phase(w)
    BY <1>5 DEF IInv, PhaseInv
  <2>3. row[w].valor # None
    BY <2>1, <2>2, OrderPhase DEF Ordered, Settled
  <2>4. row[w] # NoRow
    BY <2>3 DEF NoRow
  <2> QED
    BY <2>1, <2>2, <2>4, OrderPhase
<1>6. CASE row[w] = NoRow
  <2>1. Die(a)
    BY <1>2, <1>3, <1>6 DEF TakeOrder
  <2>2. Typed' /\ \A b \in Valor : mover'[b].pc = "dead" => mover[b].pc = "dead" \/ b = a
    BY <1>1, <2>1, DieFacts DEF Typed, TypeOK, bounds
  <2>3. ASSUME NEW u \in calm' \ {w} PROVE Spared(u)
    <3>1. u \in Virtue /\ Host(u)' = Host(u)
      BY <1>1, <2>3 DEF TypeOK, Host
    <3> QED
      BY <1>1, <1>4, <2>1, <3>1, DieSpares
  <2>4. w \notin calm
    BY <1>5, <1>6
  <2> QED
    BY <1>1, <2>2, <2>3, <2>4, StepAbout
<1>7. CASE row[w] # NoRow
  <2> DEFINE m == [pc |-> "transfer", virtue |-> w, valor_dest |-> o.valor_dest]
  <2>1. mover' = [mover EXCEPT ![a] = m] /\ cmdFeed' = [cmdFeed EXCEPT ![a] = Tail(@)]
    BY <1>2, <1>3, <1>7 DEF TakeOrder
  <2>2. m \in Mover /\ m.pc = "transfer" /\ m.virtue = w /\ m.valor_dest = o.valor_dest
    BY DEF Mover, Order
  <2> HIDE DEF m
  <2>3. \A b \in Valor : cmdFeed'[b] = IF b = a THEN Tail(cmdFeed[a]) ELSE cmdFeed[b]
    BY <1>1, <2>1 DEF TypeOK
  <2>4. cmdFeed' \in [Valor -> Seq(Order)]
    <3>1. Tail(cmdFeed[a]) \in Seq(Order)
      BY <1>1, TailFacts
    <3> QED
      BY <1>1, <2>1, <3>1 DEF TypeOK
  <2>5. Typed'
    BY <1>1, <2>1, <2>2, <2>4, MoverTyped DEF Typed, TypeOK, bounds
  <2>6. ASSUME NEW u \in calm' \ {w} PROVE Spared(u)
    <3>1. u \in Virtue /\ u # w /\ u # None /\ Host(u)' = Host(u)
      BY <1>1, <1>4, <2>6 DEF TypeOK, Host
    <3>2. Keeps(cmdFeed[a], Tail(cmdFeed[a]), u)
      BY <1>1, <1>2, <1>3, <3>1, KeepsTail
    <3>3. \A b \in Valor : Keeps(cmdFeed[b], cmdFeed'[b], u)
      BY <2>3, <3>2, Unchanged
    <3> QED
      BY <1>1, <2>1, <2>2, <3>1, <3>3, MoverSpares
  <2>7. ASSUME w \in calm' PROVE Phase(w)'
    <3>1. Ordered(w) /\ row[w].valor = a
      BY <1>1, <1>5, <2>7
    <3>2. PICK d \in Valor \ {a} :
             /\ OnlyOrder(a, d, w)
             /\ command[w] = [valor_ip |-> a, valor_dest |-> d, enabled |-> TRUE]
      BY <1>1, <1>5, <2>7
    <3>3. PICK x : x = [virtue |-> w, valor_dest |-> d] /\ x.virtue = w /\ x.valor_dest = d
      <4>1. /\ [virtue |-> w, valor_dest |-> d].virtue = w
            /\ [virtue |-> w, valor_dest |-> d].valor_dest = d
        OBVIOUS
      <4> QED
        BY <4>1
    <3>4. Sole(cmdFeed[a], x) /\ \A b \in Valor \ {a} : Free(cmdFeed[b], w)
      BY <3>2, <3>3 DEF OnlyOrder
    <3>5. o = x /\ Free(Tail(cmdFeed[a]), w)
      BY <1>1, <1>2, <1>3, <3>3, <3>4, SoleHead
    <3>6. NoOrder(w)'
      BY <2>3, <3>4, <3>5 DEF NoOrder
    <3>7. OnlyMover(a, w)' /\ mover'[a] = m
      <4>1. NoMover(w)
        BY <3>1 DEF Ordered
      <4> QED
        BY <1>1, <2>1, <2>2, <4>1, MoverAlone
    <3>8. NoRequest(w)' /\ NoChange(w)' /\ Host(w)' = {a}
      BY <1>1, <3>1 DEF Ordered, Settled, NoRequest, NoChange, Host
    <3>9. MovedBy(a, d, w)'
      BY <1>1, <2>2, <3>1, <3>2, <3>3, <3>5, <3>7, <3>8 DEF MovedBy
    <3> QED
      BY <3>6, <3>8, <3>9 DEF Moved, Phase
  <2>8. \A b \in Valor : mover'[b].pc = "dead" => mover[b].pc = "dead"
    BY <1>1, <2>1, <2>2 DEF TypeOK
  <2> QED
    BY <1>1, <2>5, <2>6, <2>7, <2>8, StepAbout
<1> QED
  BY <1>6, <1>7

\* The virtue a thread is at work on.
LEMMA MoverAtWork ==
    ASSUME MigrationAssumption, IInv, NEW a \in Valor, mover[a].pc \in {"transfer", "command", "row"}
    PROVE  /\ Typed /\ TypeOK /\ mover[a] \in Mover
           /\ mover[a].virtue \in Virtue /\ mover[a].virtue # None
           /\ mover[a].virtue \in calm => Phase(mover[a].virtue)
BY DEF IInv, Typed, TypeOK, Locals, MigrationAssumption, PhaseInv

LEMMA TransferKeeps ==
    ASSUME MigrationAssumption, IInv, NEW a \in Valor, Transfer(a) PROVE IInv'
<1>1. PICK w : w = mover[a].virtue
  OBVIOUS
<1>2. PICK d : d = mover[a].valor_dest
  OBVIOUS
<1>3. /\ Typed /\ TypeOK /\ mover[a] \in Mover /\ mover[a].pc = "transfer"
      /\ w \in Virtue /\ w # None /\ (w \in calm => Phase(w)) /\ d \in Valor \cup {None}
  BY <1>1, <1>2, MoverAtWork DEF Transfer, Mover
<1>4. PICK possible \in BOOLEAN : possible = (<<a, w>> \in domU /\ d # None /\ <<d, w>> \notin domU)
  OBVIOUS
<1>5. PICK result : result = (domU \ {<<a, w>>}) \cup {<<d, w>>}
  OBVIOUS
<1>6. /\ Attempt(possible, w, result)
      /\ IF d = None THEN Die(a)
         ELSE mover' = [mover EXCEPT ![a].pc = "command"] /\ UNCHANGED cmdFeed
      /\ UNCHANGED <<row, command, rowFeed, req, launches, migrations>>
  BY <1>1, <1>2, <1>4, <1>5 DEF Transfer
<1>7. /\ calm' \subseteq calm /\ calm' \subseteq Virtue
      /\ failures' \in 0 .. MaxFailures
      /\ domU' \subseteq Valor \X Virtue /\ domU' \in {domU, result}
      /\ w \in calm' /\ possible => domU' = result
  <2>1. CASE d = None
    <3>1. ~ possible
      BY <1>4, <2>1
    <3> QED
      BY <1>3, <1>6, <3>1 DEF Attempt, TypeOK
  <2>2. CASE d # None
    <3>1. result \subseteq Valor \X Virtue
      BY <1>3, <1>5, <2>2 DEF TypeOK
    <3> QED
      BY <1>3, <1>6, <3>1, AttemptFacts
  <2> QED
    BY <2>1, <2>2
<1>8. \A u \in Virtue \ {w} : Host(u)' = Host(u)
  BY <1>5, <1>7 DEF Host
<1>9. ASSUME w \in calm
      PROVE  /\ NoRequest(w) /\ NoChange(w) /\ NoOrder(w)
             /\ d \in Valor /\ d # None /\ MovedBy(a, d, w)
  <2>1. NoRequest(w) /\ NoChange(w) /\ NoOrder(w)
    BY <1>1, <1>3, <1>9, MoverPhase
  <2>2. PICK e \in Valor : MovedBy(a, e, w)
    BY <1>1, <1>3, <1>9, MoverPhase
  <2>3. e = d
    BY <1>2, <2>2 DEF MovedBy
  <2> QED
    BY <2>1, <2>2, <2>3 DEF MigrationAssumption
<1>10. CASE d = None
  <2>1. Die(a)
    BY <1>6, <1>10
  <2>2. Typed' /\ \A b \in Valor : mover'[b].pc = "dead" => mover[b].pc = "dead" \/ b = a
    BY <1>3, <1>6, <1>7, <2>1, DieFacts DEF Typed, TypeOK
  <2>3. ASSUME NEW u \in calm' \ {w} PROVE Spared(u)
    BY <1>1, <1>3, <1>6, <1>7, <1>8, <2>1, <2>3, DieSpares
  <2>4. w \notin calm
    BY <1>9, <1>10
  <2> QED
    BY <1>3, <1>7, <2>2, <2>3, <2>4, StepAbout
<1>11. CASE d # None
  <2> DEFINE m == [mover[a] EXCEPT !.pc = "command"]
  <2>1. mover' = [mover EXCEPT ![a] = m] /\ cmdFeed' = cmdFeed
    BY <1>6, <1>11
  <2>2. m \in Mover /\ m.pc = "command" /\ m.virtue = w /\ m.valor_dest = d
    BY <1>1, <1>2, <1>3 DEF Mover
  <2> HIDE DEF m
  <2>3. Typed'
    BY <1>3, <1>6, <1>7, <1>11, <2>1, <2>2, MoverTyped DEF Typed, TypeOK
  <2>4. ASSUME NEW u \in calm' \ {w} PROVE Spared(u)
    BY <1>1, <1>3, <1>6, <1>7, <1>8, <2>1, <2>2, <2>4, MoverSpares, Unchanged
  <2>5. ASSUME w \in calm' PROVE Phase(w)'
    <3>1. /\ NoRequest(w) /\ NoChange(w) /\ NoOrder(w) /\ d \in Valor /\ MovedBy(a, d, w)
          /\ d # a /\ Host(w) = {a}
      BY <1>3, <1>7, <1>9, <2>5 DEF MovedBy
    <3>2. domU' = result
      BY <1>4, <1>7, <1>11, <2>5, <3>1 DEF Host
    <3>3. Host(w)' = {d}
      BY <1>5, <3>1, <3>2 DEF Host
    <3>4. OnlyMover(a, w)' /\ mover'[a] = m
      <4>1. OnlyMover(a, w)
        BY <3>1 DEF MovedBy
      <4> QED
        BY <1>3, <2>1, <2>2, <4>1, MoverAlone
    <3>5. NoRequest(w)' /\ NoChange(w)' /\ NoOrder(w)'
      BY <1>6, <2>1, <3>1 DEF NoRequest, NoChange, NoOrder
    <3>6. MovedBy(a, d, w)'
      BY <1>3, <1>6, <2>2, <3>1, <3>3, <3>4 DEF MovedBy
    <3> QED
      BY <3>1, <3>5, <3>6 DEF Moved, Phase
  <2>6. \A b \in Valor : mover'[b].pc = "dead" => mover[b].pc = "dead"
    BY <1>3, <2>1, <2>2 DEF TypeOK
  <2> QED
    BY <1>3, <1>7, <2>3, <2>4, <2>5, <2>6, StepAbout
<1> QED
  BY <1>10, <1>11

LEMMA UpdateCommandKeeps ==
    ASSUME MigrationAssumption, IInv, NEW a \in Valor, UpdateCommand(a) PROVE IInv'
<1>1. PICK w : w = mover[a].virtue
  OBVIOUS
<1>2. PICK d : d = mover[a].valor_dest
  OBVIOUS
<1>3. /\ Typed /\ TypeOK /\ mover[a] \in Mover /\ mover[a].pc = "command"
      /\ w \in Virtue /\ w # None /\ (w \in calm => Phase(w)) /\ d \in Valor
  BY <1>1, <1>2, MoverAtWork DEF UpdateCommand, Typed, Locals
<1>4. PICK c : c = [valor_ip |-> d, valor_dest |-> None, enabled |-> FALSE]
  OBVIOUS
<1>5. c \in Command /\ ~ c.enabled
  BY <1>3, <1>4 DEF Command
<1> DEFINE m == [mover[a] EXCEPT !.pc = "row"]
<1>6. /\ SetCommand(w, c) /\ mover' = [mover EXCEPT ![a] = m]
      /\ UNCHANGED <<row, rowFeed, domU, req, calm, bounds>>
  BY <1>1, <1>2, <1>4 DEF UpdateCommand
<1>7. m \in Mover /\ m.pc = "row" /\ m.virtue = w /\ m.valor_dest = d
  BY <1>1, <1>2, <1>3 DEF Mover
<1> HIDE DEF m
<1>8. /\ command' \in [Virtue -> Command] /\ cmdFeed' = cmdFeed
      /\ command'[w] = c /\ \A u \in Virtue \ {w} : command'[u] = command[u]
  BY <1>3, <1>5, <1>6, SetCommandFacts
<1>9. Typed'
  BY <1>3, <1>6, <1>7, <1>8, MoverTyped DEF Typed, TypeOK, bounds
<1>10. ASSUME NEW u \in calm' \ {w} PROVE Spared(u)
  <2>1. u \in Virtue \ {w} /\ Host(u)' = Host(u)
    BY <1>3, <1>6, <1>10 DEF TypeOK, Host
  <2> QED
    BY <1>1, <1>3, <1>6, <1>7, <1>8, <2>1, MoverSpares, Unchanged
<1>11. ASSUME w \in calm' PROVE Phase(w)'
  <2>1. NoRequest(w) /\ NoChange(w) /\ NoOrder(w)
    BY <1>1, <1>3, <1>6, <1>11, MoverPhase
  <2>2. PICK e \in Valor : MovedBy(a, e, w)
    BY <1>1, <1>3, <1>6, <1>11, MoverPhase
  <2>3. e = d
    BY <1>2, <2>2 DEF MovedBy
  <2>4. OnlyMover(a, w) /\ d # a /\ row[w].valor = a /\ Host(w) = {d}
    BY <1>3, <2>2, <2>3 DEF MovedBy
  <2>5. OnlyMover(a, w)' /\ mover'[a] = m
    <3>1. /\ Typed /\ w \in Virtue /\ mover' = [mover EXCEPT ![a] = m]
          /\ m.virtue = w /\ OnlyMover(a, w)
      BY <1>3, <1>6, <1>7, <2>4
    <3> QED
      BY <3>1, MoverAlone
  <2>6. NoRequest(w)' /\ NoChange(w)' /\ NoOrder(w)' /\ Host(w)' = {d}
    BY <1>6, <1>8, <2>1, <2>4 DEF NoRequest, NoChange, NoOrder, Host
  <2>7. MovedBy(a, d, w)'
    BY <1>4, <1>6, <1>7, <1>8, <2>4, <2>5, <2>6 DEF MovedBy
  <2> QED
    BY <1>3, <2>6, <2>7 DEF Moved, Phase
<1>12. \A b \in Valor : mover'[b].pc = "dead" => mover[b].pc = "dead"
  BY <1>3, <1>6, <1>7 DEF TypeOK
<1> QED
  BY <1>3, <1>6, <1>9, <1>10, <1>11, <1>12, StepAbout

LEMMA UpdateRowKeeps ==
    ASSUME MigrationAssumption, IInv, NEW a \in Valor, UpdateRow(a) PROVE IInv'
<1>1. PICK w : w = mover[a].virtue
  OBVIOUS
<1>2. PICK d : d = mover[a].valor_dest
  OBVIOUS
<1>3. /\ Typed /\ TypeOK /\ mover[a] \in Mover /\ mover[a].pc = "row"
      /\ w \in Virtue /\ w # None /\ (w \in calm => Phase(w)) /\ d \in Valor /\ d # None
      /\ row[w] \in Row
  BY <1>1, <1>2, MoverAtWork DEF UpdateRow, Typed, TypeOK, Locals, MigrationAssumption
<1> DEFINE r == [row[w] EXCEPT !.valor = d]
<1>4. /\ row' = IF row[w] = NoRow THEN row ELSE [row EXCEPT ![w] = r]
      /\ mover' = [mover EXCEPT ![a] = NoMove]
      /\ UNCHANGED <<command, rowFeed, cmdFeed, domU, req, calm, bounds>>
  BY <1>1, <1>2 DEF UpdateRow
<1>5. row[w] # NoRow => r \in Row /\ r.valor = d
  BY <1>3 DEF Row
<1> HIDE DEF r
<1>6. /\ row' \in [Virtue -> Row] /\ \A u \in Virtue \ {w} : row'[u] = row[u]
      /\ row[w] # NoRow => row'[w] = r
  BY <1>3, <1>4, <1>5 DEF TypeOK
<1>7. Typed'
  BY <1>3, <1>4, <1>6, IdleFacts, MoverTyped DEF Typed, TypeOK, bounds
<1>8. ASSUME NEW u \in calm' \ {w} PROVE Spared(u)
  <2>1. u \in Virtue \ {w} /\ u # None /\ Host(u)' = Host(u)
    BY <1>3, <1>4, <1>8 DEF TypeOK, Host, MigrationAssumption
  <2> QED
    BY <1>1, <1>3, <1>4, <1>6, <2>1, IdleFacts, MoverSpares, Unchanged
<1>9. ASSUME w \in calm' PROVE Phase(w)'
  <2>1. NoRequest(w) /\ NoChange(w) /\ NoOrder(w)
    BY <1>1, <1>3, <1>4, <1>9, MoverPhase
  <2>2. PICK e \in Valor : MovedBy(a, e, w)
    BY <1>1, <1>3, <1>4, <1>9, MoverPhase
  <2>3. e = d
    BY <1>2, <2>2 DEF MovedBy
  <2>4. /\ OnlyMover(a, w) /\ row[w].valor = a /\ Host(w) = {d}
        /\ command[w] = [valor_ip |-> d, valor_dest |-> None, enabled |-> FALSE]
    BY <1>3, <2>2, <2>3 DEF MovedBy
  <2>5. row[w] # NoRow
    BY <2>4, RowFacts, <1>3 DEF MigrationAssumption
  <2>6. NoMover(w)'
    BY <1>3, <1>4, <2>4, IdleFacts, MoverAlone
  <2>7. NoRequest(w)' /\ NoChange(w)' /\ NoOrder(w)' /\ Host(w)' = {d}
    BY <1>4, <2>1, <2>4 DEF NoRequest, NoChange, NoOrder, Host
  <2>8. row'[w].valor = d /\ command'[w].valor_ip = d /\ ~ command'[w].enabled
    BY <1>4, <1>5, <1>6, <2>4, <2>5
  <2> QED
    BY <1>3, <2>6, <2>7, <2>8 DEF Placed, Still, Phase
<1>10. \A b \in Valor : mover'[b].pc = "dead" => mover[b].pc = "dead"
  BY <1>3, <1>4, IdleFacts DEF TypeOK
<1> QED
  BY <1>3, <1>4, <1>7, <1>8, <1>9, <1>10, StepAbout

(***************************************************************************)
(* Theorems                                                                *)
(***************************************************************************)

LEMMA StutterKeeps == IInv /\ UNCHANGED vars => IInv'
<1> SUFFICES ASSUME IInv, UNCHANGED vars PROVE IInv'
  OBVIOUS
<1>1. Typed' /\ DeadInv'
  BY DEF IInv, vars, Typed, TypeOK, Locals, DeadInv
<1>2. ASSUME NEW v \in calm' PROVE Phase(v)'
  <2>1. Phase(v)
    BY <1>2 DEF IInv, PhaseInv, vars
  <2>2. /\ Still(v)' = Still(v) /\ Settled(v)' = Settled(v) /\ NoChange(v)' = NoChange(v)
        /\ NoRequest(v)' = NoRequest(v) /\ NoMover(v)' = NoMover(v) /\ NoOrder(v)' = NoOrder(v)
        /\ Host(v)' = Host(v)
    BY DEF vars, Still, Settled, NoChange, NoRequest, NoMover, NoOrder, Host, Lost
  <2> QED
    BY <2>1, <2>2, ZenonT(60) DEF vars, Phase, Placed, Gone, Leaving, Asked, Ordered, Moved, MovedBy,
                      OnlyRequest, OnlyMover, OnlyOrder, OnlyChange
<1> QED
  BY <1>1, <1>2 DEF IInv, PhaseInv

LEMMA IStep == MigrationAssumption /\ IInv /\ [Next]_vars => IInv'
<1> SUFFICES ASSUME MigrationAssumption, IInv, [Next]_vars PROVE IInv'
  OBVIOUS
<1>1. ASSUME NEW q \in Request, NEW v \in Virtue, NEW a \in Valor, Migrate(q, v, a) \/ Launch(q, v, a)
      PROVE  IInv'
  BY <1>1, MigrateKeeps, LaunchKeeps
<1>2. ASSUME NEW q \in Request, NEW v \in Virtue, Stop(q, v) PROVE IInv'
  BY <1>2, StopKeeps
<1>3. ASSUME NEW q \in Request, Step(q) PROVE IInv'
  BY <1>3, ReadSourceKeeps, CountVirtuesKeeps, OrderMoveKeeps, FindCommandKeeps,
     PlaceCommandKeeps, DeleteRowKeeps DEF Step
<1>4. ASSUME NEW a \in Valor, HandleRow(a) \/ Move(a) PROVE IInv'
  BY <1>4, HandleRowKeeps, TakeOrderKeeps, TransferKeeps, UpdateCommandKeeps, UpdateRowKeeps
     DEF Move
<1>5. CASE UNCHANGED vars
  BY <1>5, StutterKeeps
<1> QED
  BY <1>1, <1>2, <1>3, <1>4, <1>5 DEF Next

LEMMA IInvAlways == Spec => []IInv
<1>1. MigrationAssumption
  BY MigrationAssumption
<1>2. Init => IInv
  BY <1>1, PInit
<1>3. IInv /\ [Next]_vars => IInv'
  BY <1>1, IStep
<1> QED
  BY <1>2, <1>3, PTL DEF Spec

\* The tables, the feeds and the threads keep their shape.
THEOREM TypeCorrect == Spec => []TypeOK
<1>1. IInv => TypeOK
  BY DEF IInv, Typed
<1> QED
  BY IInvAlways, <1>1, PTL

\* Between two operations on a virtue whose operations take turns, its domain
\* runs where its row says and nowhere else, however often it was moved.
THEOREM HostMatchesRowTheorem == Spec => []HostMatchesRow
<1>1. IInv => HostMatchesRow
  <2> SUFFICES ASSUME IInv, NEW v \in calm, ~ Busy(v)
               PROVE  {a \in Valor : <<a, v>> \in domU} = {row[v].valor} \ {None}
    BY DEF HostMatchesRow
  <2>1. v \in Virtue /\ Phase(v) /\ Typed /\ row[v] \in Row
    BY DEF IInv, Typed, TypeOK, PhaseInv
  <2>2. (row[v] # NoRow => Settled(v)) /\ (row[v] = NoRow => Host(v) = {})
    BY <2>1, MigrationAssumption, RestingPhase
  <2> QED
    BY <2>1, <2>2, MigrationAssumption, RowFacts DEF Settled, Host
<1> QED
  BY IInvAlways, <1>1, PTL

\* The command then names that valor as well.
THEOREM CommandFollowsVirtueTheorem == Spec => []CommandFollowsVirtue
<1>1. IInv => CommandFollowsVirtue
  <2> SUFFICES ASSUME IInv, NEW v \in calm, ~ Busy(v), row[v] # NoRow
               PROVE  command[v].valor_ip = row[v].valor
    BY DEF CommandFollowsVirtue
  <2>1. v \in Virtue /\ Phase(v) /\ Typed
    BY DEF IInv, Typed, TypeOK, PhaseInv
  <2> QED
    BY <2>1, MigrationAssumption, RestingPhase DEF Settled
<1> QED
  BY IInvAlways, <1>1, PTL

\* An enabled command is with the thread that has to carry it out, or was lost
\* with a thread that has ended.
THEOREM EnabledIsHeardTheorem == Spec => []EnabledIsHeard
<1>1. IInv => EnabledIsHeard
  <2> SUFFICES ASSUME IInv, NEW v \in calm, command[v].enabled
               PROVE  \E a \in Valor :
                         /\ command[v].valor_ip = a
                         /\ \/ mover[a].pc = "dead"
                            \/ /\ command[v].valor_dest = None
                               /\ \E b \in Valor : mover[b].pc = "dead"
                            \/ mover[a].pc \in {"transfer", "command"} /\ mover[a].virtue = v
                            \/ \E o \in Elements(cmdFeed[a]) :
                                  o.virtue = v /\ o.valor_dest = command[v].valor_dest
    BY DEF EnabledIsHeard
  <2>1. Phase(v) /\ v \in Virtue /\ row[v] \in Row
    BY DEF IInv, Typed, TypeOK, PhaseInv
  <2>2. CASE Still(v)
    BY <2>2 DEF Still, Lost
  <2>3. CASE Ordered(v)
    <3>1. row[v].valor \in Valor
      BY <2>1, <2>3, MigrationAssumption, RowFacts DEF Ordered, Settled
    <3>2. PICK a \in Valor : a = row[v].valor
      BY <3>1
    <3>3. PICK d : /\ OnlyOrder(a, d, v)
                   /\ command[v] = [valor_ip |-> a, valor_dest |-> d, enabled |-> TRUE]
      BY <2>3, <3>2 DEF Ordered
    <3>4. \E i \in DOMAIN cmdFeed[a] : cmdFeed[a][i] = [virtue |-> v, valor_dest |-> d]
      BY <3>3 DEF OnlyOrder, Sole
    <3>5. \E o \in Elements(cmdFeed[a]) : o = [virtue |-> v, valor_dest |-> d]
      BY <3>4 DEF Elements
    <3> QED
      BY <3>3, <3>5
  <2>4. CASE Moved(v)
    <3>1. PICK a \in Valor, d \in Valor : MovedBy(a, d, v)
      BY <2>4 DEF Moved
    <3>2. mover[a].virtue = v
      BY <3>1 DEF MovedBy, OnlyMover
    <3> QED
      BY <3>1, <3>2 DEF MovedBy
  <2> QED
    BY <2>1, <2>2, <2>3, <2>4 DEF Phase, Placed, Gone, Leaving, Asked
<1> QED
  BY IInvAlways, <1>1, PTL

\* No migration thread ends while every virtue's operations take turns.
THEOREM MoversSurviveTheorem == Spec => []MoversSurvive
<1>1. IInv => MoversSurvive
  BY DEF IInv, DeadInv, MoversSurvive
<1> QED
  BY IInvAlways, <1>1, PTL
=============================================================================
