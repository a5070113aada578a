------------------------- MODULE VirtueLifecycleProofs -------------------------
(***************************************************************************)
(* Proofs about VirtueLifecycle, for any number of requests, virtues,      *)
(* valors and addresses: types, and the accounting that ties the domains   *)
(* on the valors to the rows of the galahad table through the changefeed.  *)
(***************************************************************************)
EXTENDS VirtueLifecycle, FiniteSetTheorems, TLAPS

(***************************************************************************)
(* Types                                                                   *)
(***************************************************************************)

\* The local variables a handler's next statement reads have been assigned.
LocalsSet ==
    \A q \in Request :
        \/ req[q] = Idle
        \/ /\ req[q].pc # "idle"
           /\ req[q].virtue \in Virtue
           /\ req[q].entry \in Entry
           /\ req[q].pc \in {"check", "insert"} => req[q].valor \in Valor
           /\ req[q].pc = "delete" => req[q].row \in Row

Typed == TypeOK /\ LocalsSet

LEMMA IdleType == Idle \in Handler /\ Idle.pc = "idle"
BY LifecycleAssumption DEF Idle, Fresh, Handler

LEMMA InitTyped == Init => Typed
BY LifecycleAssumption, IdleType
DEF Init, Typed, TypeOK, LocalsSet, Entry, Guestnet

\* What an active handler can be assumed to hold.
LEMMA Active ==
  ASSUME Typed, NEW q \in Request, ~ At(q, "idle")
  PROVE  /\ req[q] \in Handler
         /\ req[q].virtue \in Virtue
         /\ req[q].entry \in Entry
         /\ At(q, "check") \/ At(q, "insert") => req[q].valor \in Valor
         /\ At(q, "delete") => req[q].row \in Row
BY IdleType DEF Typed, TypeOK, LocalsSet, At

\* Publishing a change keeps the feeds well typed.
LEMMA PublishType ==
  ASSUME Typed, NEW r \in Row, NEW type \in {"add", "remove"}, Publish(type, r)
  PROVE  feed' \in [Valor -> Seq(Change)]
<1>1. [type |-> type, row |-> r] \in Change
  BY DEF Change
<1>2. r.valor \in Valor /\ feed \in [Valor -> Seq(Change)]
  BY DEF Row, Typed, TypeOK
<1>3. Append(feed[r.valor], [type |-> type, row |-> r]) \in Seq(Change)
  BY <1>1, <1>2
<1>4. QED
  BY <1>1, <1>2, <1>3 DEF Publish

\* Writing an entry keeps the directory well typed.
LEMMA ModifyType ==
  ASSUME Typed, NEW v \in Virtue, NEW e \in Entry, Modify(v, e)
  PROVE  ldap' \in [Virtue -> Entry]
BY DEF Modify, Typed, TypeOK

\* A request that ends, or one that only moves on, keeps req well typed.
LEMMA EndType ==
  ASSUME Typed, NEW q \in Request, End(q)
  PROVE  req' \in [Request -> Handler] /\ LocalsSet'
BY IdleType DEF End, Typed, TypeOK, LocalsSet

\* What a handler may become while it is active.
Working ==
    {h \in Handler :
        /\ h.pc # "idle" /\ h.virtue \in Virtue /\ h.entry \in Entry
        /\ h.pc \in {"check", "insert"} => h.valor \in Valor
        /\ h.pc = "delete" => h.row \in Row}

LEMMA MoveType ==
  ASSUME Typed, NEW q \in Request, NEW h \in Working, req' = [req EXCEPT ![q] = h]
  PROVE  req' \in [Request -> Handler] /\ LocalsSet'
BY IdleType DEF Typed, TypeOK, LocalsSet, Working

LEMMA BeginType ==
  ASSUME Typed, NEW q \in Request, NEW v \in Virtue, NEW e \in Entry,
         NEW pc \in {"pick", "match", "lookup", "unlink"}, Begin(q, v, pc, e)
  PROVE  req' \in [Request -> Handler] /\ LocalsSet'
<1>1. Fresh(pc, v, e) \in Working
  BY LifecycleAssumption DEF Fresh, Handler, Working
<1>2. QED
  BY <1>1, MoveType DEF Begin

LEMMA GotoType ==
  ASSUME Typed, NEW q \in Request, ~ At(q, "idle"),
         NEW pc \in {"insert", "mark", "probe", "write", "unregister"}, Goto(q, pc),
         pc = "insert" => req[q].valor \in Valor
  PROVE  req' \in [Request -> Handler] /\ LocalsSet'
<1>1. req[q] \in Handler /\ req[q].virtue \in Virtue /\ req[q].entry \in Entry
  BY Active
<1>2. [req[q] EXCEPT !.pc = pc] \in Working
  BY <1>1 DEF Handler, Working
<1>3. req' = [req EXCEPT ![q] = [req[q] EXCEPT !.pc = pc]]
  BY DEF Goto
<1>4. QED
  BY <1>2, <1>3, MoveType

\* A request that starts a handler.
LEMMA TypeStart ==
  ASSUME Typed, NEW q \in Request, NEW v \in Virtue,
         Launch(q, v) \/ Stop(q, v) \/ Reload(q, v) \/ Destroy(q, v)
  PROVE  Typed'
<1>1. ldap[v] \in Entry /\ [ldap[v] EXCEPT !.state = "STOPPED"] \in Entry
  BY DEF Typed, TypeOK, Entry
<1>2. req' \in [Request -> Handler] /\ LocalsSet'
  BY <1>1, BeginType DEF Launch, Stop, Reload, Destroy
<1>3. QED
  BY <1>2 DEF Typed, TypeOK, Launch, Stop, Reload, Destroy, Overlap, table, hosts, bounds

\* A step of virtue_launch, up to the end of its probe loop.
LEMMA TypeLaunch ==
  ASSUME Typed, NEW q \in Request,
         \/ \E a \in Valor : PickValor(q, a) \/ CreateValor(q, a)
         \/ \E g \in Guestnet : InsertRow(q, g)
         \/ CreateValorFails(q) \/ CheckNoRow(q) \/ NoGuestnet(q)
         \/ MarkLaunching(q) \/ ProbeSucceeds(q) \/ ProbeFails(q)
  PROVE  Typed'
<1> USE DEF table, hosts, bounds, Typed, TypeOK
<1>0. ~ At(q, "idle")
  BY DEF At, PickValor, CreateValor, CreateValorFails, CheckNoRow, InsertRow,
         NoGuestnet, MarkLaunching, ProbeSucceeds, ProbeFails
<1>a. /\ req[q] \in Handler
      /\ req[q].virtue \in Virtue
      /\ req[q].entry \in Entry
      /\ At(q, "check") \/ At(q, "insert") => req[q].valor \in Valor
  BY <1>0, Active
<1>1. ASSUME NEW a \in Valor, PickValor(q, a) \/ CreateValor(q, a) PROVE Typed'
  <2>1. [req[q] EXCEPT !.pc = "check", !.valor = a] \in Working
    BY <1>a DEF Handler, Working
  <2>2. req' = [req EXCEPT ![q] = [req[q] EXCEPT !.pc = "check", !.valor = a]]
    BY <1>1 DEF PickValor, CreateValor
  <2>3. req' \in [Request -> Handler] /\ LocalsSet'
    BY <2>1, <2>2, MoveType
  <2>4. QED
    BY <1>1, <2>3 DEF PickValor, CreateValor
<1>2. CASE CreateValorFails(q) \/ NoGuestnet(q)
  BY <1>2, EndType DEF CreateValorFails, NoGuestnet
<1>3. CASE CheckNoRow(q)
  BY <1>0, <1>3, <1>a, EndType, GotoType DEF CheckNoRow
<1>4. ASSUME NEW g \in Guestnet, InsertRow(q, g) PROVE Typed'
  <2> DEFINE r == [id |-> nextId, virtue |-> req[q].virtue,
                   valor |-> req[q].valor, guestnet |-> g]
             e == [state |-> "LAUNCHING", ipAddress |-> g]
  <2>a. At(q, "insert") /\ nextId <= MaxRows
    BY <1>4 DEF InsertRow
  <2>b. nextId \in 1 .. MaxRows /\ nextId + 1 \in 1 .. MaxRows + 1
    BY <2>a, LifecycleAssumption
  <2>c. req[q].valor \in Valor /\ req[q].virtue \in Virtue
    BY <1>a, <2>a
  <2>1. r \in Row
    BY <2>b, <2>c DEF Row
  <2>2. feed' \in [Valor -> Seq(Change)]
    BY <1>4, <2>1, PublishType, ZenonT(40) DEF InsertRow
  <2>3. [req[q] EXCEPT !.pc = "mark", !.entry = e] \in Working
    BY <1>a DEF Handler, Working, Entry
  <2>4. req' = [req EXCEPT ![q] = [req[q] EXCEPT !.pc = "mark", !.entry = e]]
    BY <1>4 DEF InsertRow
  <2>5. req' \in [Request -> Handler] /\ LocalsSet'
    BY <2>3, <2>4, MoveType
  <2>6. nextId' \in 1 .. MaxRows + 1 /\ rows' \subseteq Row
    BY <1>4, <2>1, <2>b DEF InsertRow
  <2>7. QED
    BY <1>4, <2>2, <2>5, <2>6 DEF InsertRow
<1>5. CASE MarkLaunching(q)
  BY <1>0, <1>5, <1>a, ModifyType, GotoType DEF MarkLaunching
<1>6. CASE ProbeSucceeds(q)
  <2> DEFINE e == [req[q].entry EXCEPT !.state = "RUNNING"]
  <2>1. e \in Entry
    BY <1>a DEF Entry
  <2>2. [req[q] EXCEPT !.pc = "write", !.entry = e] \in Working
    BY <1>a, <2>1 DEF Handler, Working
  <2>3. req' = [req EXCEPT ![q] = [req[q] EXCEPT !.pc = "write", !.entry = e]]
    BY <1>6 DEF ProbeSucceeds
  <2>4. QED
    BY <1>6, <2>2, <2>3, MoveType DEF ProbeSucceeds
<1>7. CASE ProbeFails(q)
  <2> DEFINE e == [req[q].entry EXCEPT !.state = "STOPPED"]
             h == [req[q] EXCEPT !.attempts = req[q].attempts + 1]
             k == [req[q] EXCEPT !.pc = "match", !.entry = e]
  <2>1. e \in Entry
    BY <1>a DEF Entry
  <2>2. k \in Working
    BY <1>a, <2>1 DEF Handler, Working
  <2>3. req[q].attempts + 1 < MaxAttempts => h \in Working
    <3>1. /\ req[q].pc = "probe"
          /\ req[q].attempts \in 0 .. MaxAttempts - 1
      BY <1>a, <1>7 DEF Handler, ProbeFails, At
    <3>2. ASSUME req[q].attempts + 1 < MaxAttempts
          PROVE  req[q].attempts + 1 \in 0 .. MaxAttempts - 1
      BY <3>1, <3>2, LifecycleAssumption
    <3>3. QED
      BY <1>a, <3>1, <3>2 DEF Handler, Working
  <2>4. \/ req[q].attempts + 1 < MaxAttempts /\ req' = [req EXCEPT ![q] = h]
        \/ req' = [req EXCEPT ![q] = k]
    BY <1>7 DEF ProbeFails
  <2>5. req' \in [Request -> Handler] /\ LocalsSet'
    BY <2>2, <2>3, <2>4, MoveType
  <2>6. QED
    BY <1>7, <2>5 DEF ProbeFails
<1>8. QED
  BY <1>1, <1>2, <1>3, <1>4, <1>5, <1>6, <1>7

\* A step of remove_virtue, of the last writes, of reload or of destroy.
LEMMA TypeFinish ==
  ASSUME Typed, NEW q \in Request,
         \/ MatchRow(q) \/ DeleteRow(q) \/ WriteEntry(q) \/ LookupRow(q)
         \/ UnlinkImage(q) \/ DeleteEntry(q) \/ Abort(q)
  PROVE  Typed'
<1> USE DEF table, hosts, bounds, Typed, TypeOK
<1>0. ~ At(q, "idle")
  BY DEF At, MatchRow, DeleteRow, WriteEntry, LookupRow, UnlinkImage, DeleteEntry, Abort
<1>a. /\ req[q] \in Handler
      /\ req[q].virtue \in Virtue
      /\ req[q].entry \in Entry
      /\ At(q, "delete") => req[q].row \in Row
  BY <1>0, Active
<1>1. CASE MatchRow(q)
  <2>1. ASSUME NEW r \in RowsOf(req[q].virtue),
               req' = [req EXCEPT ![q].pc = "delete", ![q].row = r]
        PROVE  req' \in [Request -> Handler] /\ LocalsSet'
    <3>1. r \in Row
      BY DEF RowsOf
    <3>2. [req[q] EXCEPT !.pc = "delete", !.row = r] \in Working
      BY <1>a, <3>1 DEF Handler, Working
    <3>3. req' = [req EXCEPT ![q] = [req[q] EXCEPT !.pc = "delete", !.row = r]]
      BY <2>1
    <3>4. QED
      BY <3>2, <3>3, MoveType
  <2>2. QED
    BY <1>1, <2>1, EndType DEF MatchRow
<1>2. CASE DeleteRow(q)
  <2>1. feed' \in [Valor -> Seq(Change)]
    BY <1>2, <1>a, PublishType DEF DeleteRow
  <2>2. QED
    BY <1>0, <1>2, <2>1, GotoType DEF DeleteRow
<1>3. CASE WriteEntry(q)
  BY <1>3, <1>a, ModifyType, EndType DEF WriteEntry
<1>4. CASE LookupRow(q)
  <2>1. PICK e \in Actual(req[q].virtue) :
           \/ End(q)
           \/ req' = [req EXCEPT ![q].pc = "write", ![q].entry = e]
    BY <1>4 DEF LookupRow
  <2>2. e \in Entry
    BY DEF Actual, Entry, RowsOf, Row
  <2>3. [req[q] EXCEPT !.pc = "write", !.entry = e] \in Working
    BY <1>a, <2>2 DEF Handler, Working
  <2>4. ASSUME req' = [req EXCEPT ![q].pc = "write", ![q].entry = e]
        PROVE  req' = [req EXCEPT ![q] = [req[q] EXCEPT !.pc = "write", !.entry = e]]
    BY <2>4
  <2>5. req' \in [Request -> Handler] /\ LocalsSet'
    BY <2>1, <2>3, <2>4, MoveType, EndType
  <2>6. QED
    BY <1>4, <2>5 DEF LookupRow
<1>5. CASE UnlinkImage(q)
  BY <1>0, <1>5, EndType, GotoType DEF UnlinkImage
<1>6. CASE DeleteEntry(q)
  BY <1>6, <1>a, EndType DEF DeleteEntry, Entry
<1>7. CASE Abort(q)
  BY <1>7, EndType, LifecycleAssumption DEF Abort
<1>8. QED
  BY <1>1, <1>2, <1>3, <1>4, <1>5, <1>6, <1>7

\* An xl destroy, done or failed.
LEMMA DestroyType ==
  ASSUME NEW a \in Valor, NEW v \in Virtue,
         domU \in [Valor -> [Virtue -> Guestnet \cup {None}]],
         stray \subseteq Valor \X Virtue,
         DestroyDomU(a, v) \/ DestroyFails(a, v)
  PROVE  /\ domU' \in [Valor -> [Virtue -> Guestnet \cup {None}]]
         /\ stray' \subseteq Valor \X Virtue
<1>1. <<a, v>> \in Valor \X Virtue
  OBVIOUS
<1>2. CASE DestroyDomU(a, v)
  BY <1>2 DEF DestroyDomU
<1>3. CASE DestroyFails(a, v)
  <2>1. domU' = domU /\ stray' = stray \cup {<<a, v>>}
    BY <1>3 DEF DestroyFails
  <2>2. QED
    BY <1>1, <2>1
<1>4. QED
  BY <1>2, <1>3

\* A step of Gaius, of its feed or of the fleet.
LEMMA TypeHost ==
  ASSUME Typed, NEW a \in Valor,
         GaiusAdd(a) \/ GaiusRemove(a) \/ FeedLost(a) \/ GaiusRestart(a) \/ FleetGrows(a)
  PROVE  Typed'
<1> USE DEF table, hosts, bounds, Typed, TypeOK, LocalsSet
<1>1. feed[a] # << >> => Change1(a) \in Change /\ Tail(feed[a]) \in Seq(Change)
  BY DEF Change1
<1>2. CASE GaiusAdd(a)
  <2>1. Change1(a).row.virtue \in Virtue /\ Change1(a).row.guestnet \in Guestnet
    BY <1>1, <1>2 DEF GaiusAdd, Change, Row
  <2>2. domU' \in [Valor -> [Virtue -> Guestnet \cup {None}]]
    <3>1. CASE UNCHANGED domU
      BY <3>1
    <3>2. CASE domU' = [domU EXCEPT ![a][Change1(a).row.virtue] = Change1(a).row.guestnet]
      BY <2>1, <3>2
    <3>3. QED
      BY <1>2, <3>1, <3>2 DEF GaiusAdd
  <2>3. QED
    BY <1>1, <1>2, <2>2 DEF GaiusAdd
<1>3. CASE GaiusRemove(a)
  <2> DEFINE v == Change1(a).row.virtue
  <2>1. v \in Virtue
    BY <1>1, <1>3 DEF GaiusRemove, Change, Row
  <2>2. DestroyDomU(a, v) \/ DestroyFails(a, v)
    BY <1>3 DEF GaiusRemove
  <2>3. /\ domU' \in [Valor -> [Virtue -> Guestnet \cup {None}]]
        /\ stray' \subseteq Valor \X Virtue
    BY <2>1, <2>2, DestroyType
  <2>4. QED
    BY <1>1, <1>3, <2>3 DEF GaiusRemove
<1>4. CASE FeedLost(a)
  BY <1>4, LifecycleAssumption DEF FeedLost
<1>5. CASE GaiusRestart(a) \/ FleetGrows(a)
  BY <1>5 DEF GaiusRestart, FleetGrows
<1>6. QED
  BY <1>2, <1>3, <1>4, <1>5

LEMMA TypeStep == Typed /\ [Next]_vars => Typed'
<1> SUFFICES ASSUME Typed, [Next]_vars PROVE Typed'
  OBVIOUS
<1>1. CASE UNCHANGED vars
  BY <1>1 DEF vars, Typed, TypeOK, LocalsSet
<1>2. ASSUME NEW q \in Request, NEW v \in Virtue,
             Launch(q, v) \/ Stop(q, v) \/ Reload(q, v) \/ Destroy(q, v)
      PROVE  Typed'
  BY <1>2, TypeStart
<1>3. ASSUME NEW q \in Request, Step(q) \/ Abort(q) PROVE Typed'
  BY <1>3, TypeLaunch, TypeFinish DEF Step
<1>4. ASSUME NEW a \in Valor, Gaius(a) \/ FeedLost(a) \/ GaiusRestart(a) \/ FleetGrows(a)
      PROVE  Typed'
  BY <1>4, TypeHost DEF Gaius
<1>5. QED
  BY <1>1, <1>2, <1>3, <1>4 DEF Next
\* Every variable keeps its type in every reachable state.
THEOREM TypeCorrectness == Spec => []TypeOK
<1>1. Typed => TypeOK
  BY DEF Typed
<1>2. QED
  BY InitTyped, TypeStep, <1>1, PTL DEF Spec

(***************************************************************************)
(* Domains, rows and the changefeed                                        *)
(***************************************************************************)

\* A later change in the feed removes the row that change i of it added.
Undone(a, i) ==
    \E j \in DOMAIN feed[a] :
        j > i /\ feed[a][j] = [type |-> "remove", row |-> feed[a][i].row]

\* The changes on their way to a valor are about its own rows, and one that
\* adds a row is about a row that still exists or that a later one removes.
\* DomUAccounted is not inductive without it: it says nothing of the domain
\* that a change not handled yet will create.
FeedAccounted ==
    \A a \in Valor :
        /\ gaius[a] = "deaf" => feed[a] = << >>
        /\ \A i \in DOMAIN feed[a] :
              /\ feed[a][i].row.valor = a
              /\ feed[a][i].type = "add" => feed[a][i].row \in rows \/ Undone(a, i)

Accounting == FeedAccounted /\ DomUAccounted

LEMMA InitAccounting == Init => Accounting
BY DEF Init, Accounting, FeedAccounted, DomUAccounted

\* Appending a change keeps what was pending and what was undone.
LEMMA AppendFacts ==
  ASSUME NEW s \in Seq(Change), NEW c \in Change
  PROVE  /\ DOMAIN Append(s, c) = 1 .. Len(s) + 1
         /\ DOMAIN s = 1 .. Len(s)
         /\ \A i \in DOMAIN s : Append(s, c)[i] = s[i]
         /\ Append(s, c)[Len(s) + 1] = c
         /\ Len(s) \in Nat
OBVIOUS

LEMMA TailFacts ==
  ASSUME NEW s \in Seq(Change), s # << >>
  PROVE  /\ DOMAIN s = 1 .. Len(s)
         /\ Len(s) \in Nat \ {0}
         /\ DOMAIN Tail(s) = 1 .. Len(s) - 1
         /\ \A i \in DOMAIN Tail(s) : Tail(s)[i] = s[i + 1]
         /\ Head(s) = s[1]
OBVIOUS

\* Steps that leave rows, feeds, Gaius and the domains alone.
LEMMA AccountingUnchanged ==
  ASSUME Accounting, UNCHANGED <<rows, feed, gaius, domU, stray>>
  PROVE  Accounting'
BY DEF Accounting, FeedAccounted, DomUAccounted, Undone, RemovePending, RowsOf

LEMMA AccountingInsert ==
  ASSUME Typed, Typed', Accounting, NEW q \in Request, NEW g \in Guestnet, InsertRow(q, g)
  PROVE  Accounting'
<1> DEFINE r == [id |-> nextId, virtue |-> req[q].virtue,
                 valor |-> req[q].valor, guestnet |-> g]
           c == [type |-> "add", row |-> r]
<1>1. rows' = rows \cup {r} /\ UNCHANGED <<gaius, domU, stray>> /\ Publish("add", r)
  BY DEF InsertRow, hosts
<1>2. r \in Row
  BY <1>1 DEF Typed, TypeOK
<1>3. r.valor \in Valor /\ c \in Change
  BY <1>2 DEF Row, Change
<1>4. feed \in [Valor -> Seq(Change)]
  BY DEF Typed, TypeOK
<1>5. ASSUME NEW a \in Valor
      PROVE  \/ feed'[a] = feed[a]
             \/ gaius[a] # "deaf" /\ a = r.valor /\ feed'[a] = Append(feed[a], c)
  <2>1. CASE gaius[r.valor] = "deaf"
    BY <1>1, <2>1 DEF Publish
  <2>2. CASE gaius[r.valor] # "deaf"
    <3>1. feed' = [feed EXCEPT ![r.valor] = Append(feed[r.valor], c)]
      BY <1>1, <2>2 DEF Publish
    <3>2. QED
      BY <1>3, <1>4, <2>2, <3>1
  <2>3. QED
    BY <2>1, <2>2
<1>6. ASSUME NEW a \in Valor, NEW i \in DOMAIN feed[a]
      PROVE  i \in DOMAIN feed'[a] /\ feed'[a][i] = feed[a][i]
  BY <1>3, <1>4, <1>5, AppendFacts
<1>7. ASSUME NEW a \in Valor, NEW i \in DOMAIN feed'[a], i \notin DOMAIN feed[a]
      PROVE  feed'[a][i] = c /\ a = r.valor
  BY <1>3, <1>4, <1>5, <1>7, AppendFacts
<1>8. FeedAccounted'
  <2>1. ASSUME NEW a \in Valor, gaius'[a] = "deaf" PROVE feed'[a] = << >>
    BY <1>1, <1>5, <2>1 DEF Accounting, FeedAccounted
  <2>2. ASSUME NEW a \in Valor, NEW i \in DOMAIN feed[a]
        PROVE  /\ feed'[a][i].row.valor = a
               /\ feed'[a][i].type = "add" => feed'[a][i].row \in rows' \/ Undone(a, i)'
    BY <1>1, <1>6 DEF Accounting, FeedAccounted, Undone
  <2>3. ASSUME NEW a \in Valor, NEW i \in DOMAIN feed'[a], i \notin DOMAIN feed[a]
        PROVE  feed'[a][i].row.valor = a /\ feed'[a][i].row \in rows'
    BY <1>1, <1>7, <2>3
  <2>4. QED
    BY <2>1, <2>2, <2>3 DEF FeedAccounted
<1>9. DomUAccounted'
  BY <1>1, <1>6 DEF Accounting, DomUAccounted, RemovePending, RowsOf
<1>10. QED
  BY <1>8, <1>9 DEF Accounting

LEMMA AccountingDelete ==
  ASSUME Typed, Accounting, NEW q \in Request, DeleteRow(q)
  PROVE  Accounting'
<1> DEFINE r == req[q].row
           c == [type |-> "remove", row |-> r]
<1>1. rows' = rows \ {r} /\ UNCHANGED <<gaius, domU, stray>>
  BY DEF DeleteRow, hosts
<1>2. r \in Row /\ r.valor \in Valor /\ c \in Change
  BY Active DEF DeleteRow, At, Row, Change
<1>3. feed \in [Valor -> Seq(Change)]
  BY DEF Typed, TypeOK
<1>4. CASE r \notin rows
  <2>1. rows' = rows /\ feed' = feed
    BY <1>1, <1>4 DEF DeleteRow
  <2>2. QED
    BY <1>1, <2>1, AccountingUnchanged
<1>5. CASE r \in rows
  <2>1. Publish("remove", r)
    BY <1>5 DEF DeleteRow
  <2>2. ASSUME NEW a \in Valor
        PROVE  \/ feed'[a] = feed[a] /\ (a # r.valor \/ gaius[a] = "deaf")
               \/ gaius[a] # "deaf" /\ a = r.valor /\ feed'[a] = Append(feed[a], c)
    BY <1>2, <1>3, <2>1 DEF Publish
  <2>3. ASSUME NEW a \in Valor, NEW i \in DOMAIN feed[a]
        PROVE  i \in DOMAIN feed'[a] /\ feed'[a][i] = feed[a][i]
    BY <1>2, <1>3, <2>2, AppendFacts
  <2>4. ASSUME NEW a \in Valor, NEW i \in DOMAIN feed'[a], i \notin DOMAIN feed[a]
        PROVE  feed'[a][i] = c /\ a = r.valor
    BY <1>2, <1>3, <2>2, <2>4, AppendFacts
  <2>5. ASSUME gaius[r.valor] # "deaf"
        PROVE  \E j \in DOMAIN feed'[r.valor] :
                  /\ feed'[r.valor][j] = c
                  /\ \A i \in DOMAIN feed[r.valor] : i < j
    <3>1. feed'[r.valor] = Append(feed[r.valor], c)
      BY <1>2, <2>2, <2>5
    <3>2. feed[r.valor] \in Seq(Change)
      BY <1>2, <1>3
    <3>3. /\ Len(feed[r.valor]) + 1 \in DOMAIN feed'[r.valor]
          /\ feed'[r.valor][Len(feed[r.valor]) + 1] = c
          /\ \A i \in DOMAIN feed[r.valor] : i < Len(feed[r.valor]) + 1
      BY <1>2, <3>1, <3>2, AppendFacts, SMTT(30)
    <3>4. QED
      BY <3>3
  <2>6. ASSUME NEW a \in Valor, NEW i \in DOMAIN feed[a], feed[a][i].type = "add"
        PROVE  feed[a][i].row \in rows' \/ Undone(a, i)'
    <3>1. feed[a][i].row.valor = a /\ gaius[a] # "deaf"
      BY <1>3, <2>6 DEF Accounting, FeedAccounted
    <3>2. CASE feed[a][i].row = r
      BY <2>3, <2>5, <3>1, <3>2 DEF Undone
    <3>3. CASE feed[a][i].row \in rows /\ feed[a][i].row # r
      BY <1>1, <3>3
    <3>4. CASE Undone(a, i)
      BY <2>3, <3>4 DEF Undone
    <3>5. QED
      BY <2>6, <3>2, <3>3, <3>4 DEF Accounting, FeedAccounted
  <2>7. FeedAccounted'
    <3>1. ASSUME NEW a \in Valor, gaius'[a] = "deaf" PROVE feed'[a] = << >>
      BY <1>1, <2>2, <3>1 DEF Accounting, FeedAccounted
    <3>2. ASSUME NEW a \in Valor, NEW i \in DOMAIN feed'[a]
          PROVE  /\ feed'[a][i].row.valor = a
                 /\ feed'[a][i].type = "add" => feed'[a][i].row \in rows' \/ Undone(a, i)'
      BY <2>3, <2>4, <2>6 DEF Accounting, FeedAccounted
    <3>3. QED
      BY <3>1, <3>2 DEF FeedAccounted
  <2>8. ASSUME NEW a \in Valor, NEW v \in Virtue, gaius[a] = "listening", domU[a][v] # None
        PROVE  \/ \E s \in RowsOf(v)' : s.valor = a /\ s.guestnet = domU[a][v]
               \/ RemovePending(a, v)'
               \/ <<a, v>> \in stray
    <3>1. CASE RemovePending(a, v)
      BY <2>3, <3>1 DEF RemovePending
    <3>2. ASSUME NEW s \in RowsOf(v), s.valor = a, s.guestnet = domU[a][v]
          PROVE  s \in RowsOf(v)' \/ RemovePending(a, v)'
      BY <1>1, <2>5, <2>8, <3>2 DEF RemovePending, RowsOf
    <3>3. QED
      BY <2>8, <3>1, <3>2 DEF Accounting, DomUAccounted
  <2>9. DomUAccounted'
    BY <1>1, <2>8 DEF DomUAccounted
  <2>10. QED
    BY <2>7, <2>9 DEF Accounting
<1>6. QED
  BY <1>4, <1>5
\* Gaius handles the change at the head of its feed.
LEMMA AccountingHandled ==
  ASSUME Typed, Typed', Accounting, NEW a \in Valor, GaiusAdd(a) \/ GaiusRemove(a)
  PROVE  Accounting'
<1> DEFINE c == Change1(a)
           v == c.row.virtue
<1>1. /\ feed[a] # << >>
      /\ UNCHANGED <<rows, gaius>>
      /\ feed' = [feed EXCEPT ![a] = Tail(feed[a])]
  BY DEF GaiusAdd, GaiusRemove
<1>2. feed \in [Valor -> Seq(Change)] /\ feed[a] \in Seq(Change)
  BY DEF Typed, TypeOK
<1>3. /\ 1 \in DOMAIN feed[a] /\ feed[a][1] = c
      /\ c \in Change /\ c.row.valor = a /\ v \in Virtue
  <2>1. 1 \in DOMAIN feed[a] /\ feed[a][1] = c
    BY <1>1, <1>2, TailFacts DEF Change1
  <2>2. c \in Change
    BY <1>2, <2>1
  <2>3. QED
    BY <2>1, <2>2 DEF Accounting, FeedAccounted, Change, Row
<1>4. ASSUME NEW b \in Valor, b # a PROVE feed'[b] = feed[b]
  BY <1>1, <1>2, <1>4
<1>5. ASSUME NEW i \in DOMAIN feed[a], i # 1
      PROVE  i - 1 \in DOMAIN feed'[a] /\ feed'[a][i - 1] = feed[a][i]
  <2>1. feed'[a] = Tail(feed[a])
    BY <1>1, <1>2
  <2>2. i \in 2 .. Len(feed[a]) /\ i - 1 \in DOMAIN Tail(feed[a])
    BY <1>1, <1>2, <1>5, TailFacts
  <2>3. (i - 1) + 1 = i
    BY <2>2
  <2>4. QED
    BY <1>1, <1>2, <2>1, <2>2, <2>3, TailFacts
<1>6. ASSUME NEW i \in DOMAIN feed'[a]
      PROVE  i \in Nat /\ i + 1 \in DOMAIN feed[a] /\ feed'[a][i] = feed[a][i + 1]
  BY <1>1, <1>2, TailFacts
<1>7. FeedAccounted'
  <2>1. ASSUME NEW i \in DOMAIN feed'[a]
        PROVE  /\ feed'[a][i].row.valor = a
               /\ feed'[a][i].type = "add" => feed'[a][i].row \in rows' \/ Undone(a, i)'
    <3>1. CASE Undone(a, i + 1)
      <4>1. PICK j \in DOMAIN feed[a] :
               j > i + 1 /\ feed[a][j] = [type |-> "remove", row |-> feed[a][i + 1].row]
        BY <3>1 DEF Undone
      <4>2. j \in Nat /\ j # 1
        BY <1>1, <1>2, <1>6, <4>1, TailFacts
      <4>3. j - 1 > i /\ j - 1 \in DOMAIN feed'[a] /\ feed'[a][j - 1] = feed[a][j]
        BY <1>5, <1>6, <4>1, <4>2
      <4>4. Undone(a, i)'
        BY <1>6, <4>1, <4>3 DEF Undone
      <4>5. QED
        BY <1>6, <4>4 DEF Accounting, FeedAccounted
    <3>2. CASE ~ Undone(a, i + 1)
      BY <1>1, <1>6, <3>2 DEF Accounting, FeedAccounted
    <3>3. QED
      BY <3>1, <3>2
  <2>2. ASSUME NEW b \in Valor, b # a, NEW i \in DOMAIN feed'[b]
        PROVE  /\ feed'[b][i].row.valor = b
               /\ feed'[b][i].type = "add" => feed'[b][i].row \in rows' \/ Undone(b, i)'
    BY <1>1, <1>4, <2>2 DEF Accounting, FeedAccounted, Undone
  <2>3. ASSUME NEW b \in Valor, gaius'[b] = "deaf" PROVE feed'[b] = << >>
    BY <1>1, <1>4, <2>3 DEF Accounting, FeedAccounted
  <2>4. QED
    BY <2>1, <2>2, <2>3 DEF FeedAccounted
<1>8. ASSUME NEW b \in Valor, NEW w \in Virtue, b # a \/ w # v \/ c.type # "remove",
             RemovePending(b, w)
      PROVE  RemovePending(b, w)'
  <2>1. PICK i \in DOMAIN feed[b] : feed[b][i].type = "remove" /\ feed[b][i].row.virtue = w
    BY <1>8 DEF RemovePending
  <2>2. CASE b # a
    BY <1>4, <2>1, <2>2 DEF RemovePending
  <2>3. CASE b = a
    BY <1>3, <1>5, <1>8, <2>1, <2>3 DEF RemovePending
  <2>4. QED
    BY <2>2, <2>3
<1>9. domU \in [Valor -> [Virtue -> Guestnet \cup {None}]]
  BY DEF Typed, TypeOK
<1>10. ASSUME NEW b \in Valor, NEW w \in Virtue, gaius[b] = "listening", domU'[b][w] # None
       PROVE  \/ \E r \in RowsOf(w) : r.valor = b /\ r.guestnet = domU'[b][w]
              \/ RemovePending(b, w)'
              \/ <<b, w>> \in stray'
  <2>1. CASE GaiusRemove(a)
    <3>1. c.type = "remove" /\ (DestroyDomU(a, v) \/ DestroyFails(a, v))
      BY <2>1 DEF GaiusRemove
    <3>2. CASE b = a /\ w = v
      BY <1>3, <1>9, <1>10, <3>1, <3>2 DEF DestroyDomU, DestroyFails
    <3>3. CASE b # a \/ w # v
      <4>1. domU'[b][w] = domU[b][w] /\ (<<b, w>> \in stray => <<b, w>> \in stray')
        BY <1>3, <1>9, <3>1, <3>3 DEF DestroyDomU, DestroyFails
      <4>2. QED
        BY <1>8, <1>10, <3>3, <4>1 DEF Accounting, DomUAccounted
    <3>4. QED
      BY <3>2, <3>3
  <2>2. CASE GaiusAdd(a) /\ domU'[b][w] = domU[b][w]
    <3>1. c.type = "add"
      BY <2>2 DEF GaiusAdd
    <3>2. QED
      BY <1>8, <1>10, <2>2, <3>1 DEF Accounting, DomUAccounted, GaiusAdd
  <2>3. CASE GaiusAdd(a) /\ domU'[b][w] # domU[b][w]
    <3>1. c.type = "add" /\ domU' = [domU EXCEPT ![a][v] = c.row.guestnet]
      BY <2>3 DEF GaiusAdd
    <3>2. b = a /\ w = v /\ domU'[b][w] = c.row.guestnet
      BY <1>3, <1>9, <2>3, <3>1
    <3>3. CASE c.row \in rows
      BY <1>3, <3>2, <3>3 DEF RowsOf
    <3>4. CASE Undone(a, 1)
      <4>1. PICK j \in DOMAIN feed[a] :
               j > 1 /\ feed[a][j] = [type |-> "remove", row |-> c.row]
        BY <1>3, <3>4 DEF Undone
      <4>2. j - 1 \in DOMAIN feed'[a] /\ feed'[a][j - 1] = feed[a][j]
        BY <1>5, <4>1
      <4>3. QED
        BY <3>2, <4>1, <4>2 DEF RemovePending
    <3>5. QED
      BY <1>3, <3>1, <3>3, <3>4 DEF Accounting, FeedAccounted
  <2>4. QED
    BY <2>1, <2>2, <2>3
<1>11. DomUAccounted'
  BY <1>1, <1>10 DEF DomUAccounted, RowsOf
<1>12. QED
  BY <1>7, <1>11 DEF Accounting

\* Losing a feed ends the claim about that valor; a new feed starts empty.
LEMMA AccountingFeed ==
  ASSUME Typed, Accounting, NEW a \in Valor, FeedLost(a) \/ GaiusRestart(a)
  PROVE  Accounting'
<1>1. gaius \in [Valor -> {"listening", "deaf", "resumed"}] /\ feed \in [Valor -> Seq(Change)]
  BY DEF Typed, TypeOK
<1>2. UNCHANGED <<rows, domU, stray>>
  BY DEF FeedLost, GaiusRestart, table
<1>3. ASSUME NEW b \in Valor, b # a PROVE gaius'[b] = gaius[b] /\ feed'[b] = feed[b]
  BY <1>1, <1>3 DEF FeedLost, GaiusRestart, table
<1>4. gaius'[a] # "listening" /\ feed'[a] = << >>
  BY <1>1 DEF FeedLost, GaiusRestart, table, Accounting, FeedAccounted
<1>5. FeedAccounted'
  BY <1>2, <1>3, <1>4 DEF Accounting, FeedAccounted, Undone
<1>6. DomUAccounted'
  BY <1>2, <1>3, <1>4 DEF Accounting, DomUAccounted, RemovePending, RowsOf
<1>7. QED
  BY <1>5, <1>6 DEF Accounting

LEMMA AccountingStep == Typed /\ Typed' /\ Accounting /\ [Next]_vars => Accounting'
<1> SUFFICES ASSUME Typed, Typed', Accounting, [Next]_vars PROVE Accounting'
  OBVIOUS
<1>1. CASE UNCHANGED vars
  BY <1>1, AccountingUnchanged DEF vars
<1>2. ASSUME NEW q \in Request, NEW v \in Virtue,
             Launch(q, v) \/ Stop(q, v) \/ Reload(q, v) \/ Destroy(q, v)
      PROVE  Accounting'
  BY <1>2, AccountingUnchanged DEF Launch, Stop, Reload, Destroy, table, hosts
<1>3. ASSUME NEW q \in Request, Step(q) \/ Abort(q) PROVE Accounting'
  <2>1. CASE \E g \in Guestnet : InsertRow(q, g)
    BY <2>1, AccountingInsert
  <2>2. CASE DeleteRow(q)
    BY <2>2, AccountingDelete
  <2>3. CASE \E a \in Valor : PickValor(q, a) \/ CreateValor(q, a)
    BY <2>3, AccountingUnchanged DEF PickValor, CreateValor, table, hosts
  <2>4. CASE \/ CreateValorFails(q) \/ CheckNoRow(q) \/ NoGuestnet(q)
             \/ MarkLaunching(q) \/ ProbeSucceeds(q) \/ ProbeFails(q)
    BY <2>4, AccountingUnchanged
    DEF CreateValorFails, CheckNoRow, NoGuestnet, MarkLaunching, ProbeSucceeds,
        ProbeFails, table, hosts
  <2>5. CASE \/ MatchRow(q) \/ WriteEntry(q) \/ LookupRow(q)
             \/ UnlinkImage(q) \/ DeleteEntry(q) \/ Abort(q)
    BY <2>5, AccountingUnchanged
    DEF MatchRow, WriteEntry, LookupRow, UnlinkImage, DeleteEntry, Abort, table, hosts
  <2>6. QED
    BY <1>3, <2>1, <2>2, <2>3, <2>4, <2>5 DEF Step
<1>4. ASSUME NEW a \in Valor, Gaius(a) \/ FeedLost(a) \/ GaiusRestart(a) \/ FleetGrows(a)
      PROVE  Accounting'
  <2>1. CASE FleetGrows(a)
    BY <2>1, AccountingUnchanged DEF FleetGrows, table, hosts
  <2>2. QED
    BY <1>4, <2>1, AccountingHandled, AccountingFeed DEF Gaius
<1>5. QED
  BY <1>1, <1>2, <1>3, <1>4 DEF Next

\* A domain on a valor whose Gaius never lost its feed has its row, the removal
\* that destroys it is still on its way, or xl destroy failed on it
\* (rethink_client.py 46-66, virtue_client.py 67-80).
THEOREM DomainsAccounted == Spec => []DomUAccounted
<1>1. Accounting => DomUAccounted
  BY DEF Accounting
<1>2. QED
  BY InitTyped, TypeStep, InitAccounting, AccountingStep, <1>1, PTL DEF Spec

(***************************************************************************)
(* Addresses                                                               *)
(***************************************************************************)

\* Row keys are fresh, and two rows never have the same address.
RowsDistinct ==
    /\ \A r \in rows : r.id < nextId
    /\ \A r, s \in rows : r.guestnet = s.guestnet => r = s

LEMMA RowsDistinctStep == Typed /\ RowsDistinct /\ [Next]_vars => RowsDistinct'
<1> SUFFICES ASSUME Typed, RowsDistinct, [Next]_vars PROVE RowsDistinct'
  OBVIOUS
<1>1. ASSUME NEW q \in Request, NEW g \in Guestnet, InsertRow(q, g)
      PROVE  RowsDistinct'
  <2> DEFINE r == [id |-> nextId, virtue |-> req[q].virtue,
                   valor |-> req[q].valor, guestnet |-> g]
  <2>1. rows' = rows \cup {r} /\ nextId' = nextId + 1 /\ \A s \in rows : s.guestnet # g
    BY <1>1 DEF InsertRow, Free
  <2>2. nextId \in Nat /\ \A s \in rows : s.id \in Nat
    BY LifecycleAssumption DEF Typed, TypeOK, Row
  <2>3. r.id = nextId /\ r.guestnet = g
    OBVIOUS
  <2>4. \A s \in rows' : s.id < nextId'
    BY <2>1, <2>2, <2>3 DEF RowsDistinct
  <2>5. \A s, t \in rows' : s.guestnet = t.guestnet => s = t
    BY <2>1, <2>3 DEF RowsDistinct
  <2>6. QED
    BY <2>4, <2>5 DEF RowsDistinct
<1>2. ASSUME rows' \subseteq rows, nextId' = nextId PROVE RowsDistinct'
  BY <1>2 DEF RowsDistinct
<1>3. ASSUME NEW q \in Request, Step(q) PROVE RowsDistinct'
  BY <1>1, <1>2, <1>3
  DEF Step, table, PickValor, CreateValor, CreateValorFails, CheckNoRow, NoGuestnet,
      MarkLaunching, ProbeSucceeds, ProbeFails, MatchRow, DeleteRow, WriteEntry,
      LookupRow, UnlinkImage, DeleteEntry
<1>4. QED
  BY <1>2, <1>3
  DEF Next, vars, table, Launch, Stop, Reload, Destroy, Abort, Gaius, GaiusAdd,
      GaiusRemove, FeedLost, GaiusRestart, FleetGrows

\* Two domains have the same address only while one of them is about to be
\* destroyed (valor.py 704-716 against rethink_client.py 62-66).
THEOREM AddressesDistinctTheorem == Spec => []AddressesDistinct
<1>1. Init => RowsDistinct
  BY DEF Init, RowsDistinct
<1>2. DomUAccounted /\ RowsDistinct => AddressesDistinct
  BY DEF DomUAccounted, RowsDistinct, AddressesDistinct, RowsOf
<1>3. QED
  BY InitTyped, TypeStep, DomainsAccounted, <1>1, RowsDistinctStep, <1>2, PTL DEF Spec

(***************************************************************************)
(* LDAP and RethinkDB                                                      *)
(***************************************************************************)

\* LDAP's entry of a virtue says what the galahad table says.
Agree(v) ==
    \/ RowsOf(v) = {} /\ ldap[v].state \in {"STOPPED", "ABSENT"}
    \/ /\ ldap[v].state = "RUNNING"
       /\ \E r \in RowsOf(v) : r.guestnet = ldap[v].ipAddress

OnlyRow(v, g) == \E r \in RowsOf(v) : RowsOf(v) = {r} /\ r.guestnet = g

\* What the stores hold of a calm virtue while its one request is at each of
\* its statements: the entry it read is still true, and what it has done
\* since is the only difference.
Stage(q) ==
    LET v == req[q].virtue
        e == req[q].entry
    IN  /\ req[q].pc \in {"pick", "check", "insert", "unlink", "unregister"} =>
              RowsOf(v) = {} /\ ldap[v].state = "STOPPED"
        /\ req[q].pc \in {"mark", "probe"} => OnlyRow(v, e.ipAddress)
        /\ req[q].pc = "mark" => e.state # "ABSENT"
        /\ req[q].pc = "match" =>
              e.state = "STOPPED" /\ (Agree(v) \/ \E r \in RowsOf(v) : RowsOf(v) = {r})
        /\ req[q].pc = "delete" => e.state = "STOPPED" /\ RowsOf(v) = {req[q].row}
        /\ req[q].pc = "write" =>
              \/ e.state = "STOPPED" /\ RowsOf(v) = {}
              \/ e.state = "RUNNING" /\ \E r \in RowsOf(v) : r.guestnet = e.ipAddress
        /\ req[q].pc = "lookup" => ldap[v] = e
        /\ req[q].pc \in {"mark", "probe", "match", "delete", "write", "lookup"} =>
              ldap[v].state # "ABSENT"

\* StoresAgree with what makes it inductive: the request of a calm virtue has
\* it for itself and is at a stage that the stores agree with.
CalmInv ==
    \A v \in calm :
        /\ ~ Busy(v) => Agree(v)
        /\ \A q \in Request : req[q].virtue = v =>
              Stage(q) /\ \A p \in Request : req[p].virtue = v => p = q

LEMMA InitCalm == Init => CalmInv
<1> SUFFICES ASSUME Init, NEW v \in Virtue PROVE Agree(v) /\ \A q \in Request : req[q].virtue # v
  BY DEF Init, CalmInv, Busy
<1>1. Agree(v)
  BY DEF Init, Agree, RowsOf
<1>2. \A q \in Request : req[q].virtue # v
  BY LifecycleAssumption DEF Init, Idle, Fresh
<1>3. QED
  BY <1>1, <1>2

\* A step of request q, about virtue u, disturbs no other calm virtue; it is
\* enough to look at the stage q gets to, or at the stores it leaves.
LEMMA CalmLift ==
  ASSUME Typed, CalmInv, NEW q \in Request, NEW u \in Virtue, NEW h,
         req' = [req EXCEPT ![q] = h],
         req[q].virtue \in {u, None}, h.virtue \in {u, None},
         \A v \in Virtue : v # u => RowsOf(v)' = RowsOf(v) /\ ldap'[v] = ldap[v],
         calm' \subseteq calm \cup {u},
         u \in calm' => \A p \in Request \ {q} : req[p].virtue # u,
         u \in calm' /\ h.virtue = u => Stage(q)',
         u \in calm' /\ h.virtue = None => Agree(u)'
  PROVE  CalmInv'
<1>1. req \in [Request -> Handler] /\ calm \subseteq Virtue /\ None \notin Virtue
  BY LifecycleAssumption DEF Typed, TypeOK
<1>2. req'[q] = h /\ \A p \in Request : p # q => req'[p] = req[p]
  BY <1>1
<1>3. ASSUME NEW v \in calm', v # u
      PROVE  /\ ~ Busy(v)' => Agree(v)'
             /\ \A p \in Request : req'[p].virtue = v =>
                   Stage(p)' /\ \A s \in Request : req'[s].virtue = v => s = p
  <2>1. v \in calm /\ v \in Virtue /\ RowsOf(v)' = RowsOf(v) /\ ldap'[v] = ldap[v]
    BY <1>1, <1>3
  <2>2. \A p \in Request : req'[p].virtue = v => p # q /\ req'[p] = req[p]
    BY <1>1, <1>2, <1>3, <2>1
  <2>3. \A p \in Request : req[p].virtue = v => p # q /\ req'[p] = req[p]
    BY <1>1, <1>2, <1>3, <2>1
  <2>4. ~ Busy(v)' => Agree(v)'
    BY <2>1, <2>3 DEF CalmInv, Busy, Agree
  <2>5. ASSUME NEW p \in Request, req'[p].virtue = v PROVE Stage(p)'
    <3>1. Stage(p) /\ req'[p] = req[p] /\ req[p].virtue = v
      BY <2>1, <2>2, <2>5 DEF CalmInv
    <3>2. QED
      BY <2>1, <3>1 DEF Stage, OnlyRow, Agree
  <2>6. QED
    BY <2>1, <2>2, <2>4, <2>5 DEF CalmInv
<1>4. ASSUME u \in calm'
      PROVE  /\ ~ Busy(u)' => Agree(u)'
             /\ \A p \in Request : req'[p].virtue = u =>
                   Stage(p)' /\ \A s \in Request : req'[s].virtue = u => s = p
  <2>1. \A p \in Request : req'[p].virtue = u => p = q /\ h.virtue = u
    BY <1>2, <1>4
  <2>2. ~ Busy(u)' => Agree(u)'
    BY <1>2, <1>4 DEF Busy
  <2>3. QED
    BY <1>4, <2>1, <2>2
<1>5. QED
  BY <1>3, <1>4 DEF CalmInv

LEMMA CalmUnchanged ==
  ASSUME CalmInv, UNCHANGED <<ldap, rows, req, calm>>
  PROVE  CalmInv'
BY DEF CalmInv, Busy, Agree, Stage, OnlyRow, RowsOf

\* A request that starts; an overlap would have ended the calm.
LEMMA CalmStart ==
  ASSUME Typed, CalmInv, NEW q \in Request, NEW v \in Virtue,
         Launch(q, v) \/ Stop(q, v) \/ Reload(q, v) \/ Destroy(q, v)
  PROVE  CalmInv'
<1>1. UNCHANGED <<ldap, rows>>
  BY DEF Launch, Stop, Reload, Destroy, table
<1>2. req[q].virtue = None
  BY DEF Launch, Stop, Reload, Destroy, Begin, At, Typed, LocalsSet, Idle, Fresh
<1>3. calm' \subseteq calm \cup {v} /\ (v \in calm' => ~ Busy(v))
  BY DEF Launch, Stop, Reload, Destroy, Overlap
<1>4. \A w \in Virtue : RowsOf(w)' = RowsOf(w) /\ ldap'[w] = ldap[w]
  BY <1>1 DEF RowsOf
<1>5. v # None /\ ldap[v] \in Entry /\ req \in [Request -> Handler]
  BY LifecycleAssumption DEF Typed, TypeOK
<1>6. ASSUME NEW pc, NEW e, Begin(q, v, pc, e), v \in calm' => Stage(q)'
      PROVE  CalmInv'
  <2>1. /\ req' = [req EXCEPT ![q] = Fresh(pc, v, e)]
        /\ Fresh(pc, v, e).virtue = v
    BY <1>6 DEF Begin, Fresh
  <2>2. v \in calm' => \A p \in Request \ {q} : req[p].virtue # v
    BY <1>3 DEF Busy
  <2> HIDE DEF Fresh
  <2>3. QED
    BY <1>2, <1>3, <1>4, <1>5, <1>6, <2>1, <2>2, CalmLift
<1>7. CASE Launch(q, v) \/ Destroy(q, v)
  <2>1. PICK pc \in {"pick", "unlink"} : Begin(q, v, pc, ldap[v])
    BY <1>7 DEF Launch, Destroy
  <2>2. ldap[v].state = "STOPPED" /\ (v \in calm' => v \in calm)
    BY <1>7 DEF Launch, Destroy, Overlap
  <2>3. v \in calm' => RowsOf(v) = {}
    BY <1>3, <2>2 DEF CalmInv, Agree
  <2>4. req'[q] = Fresh(pc, v, ldap[v])
    BY <1>5, <2>1 DEF Begin
  <2>5. v \in calm' => Stage(q)'
    BY <1>4, <2>2, <2>3, <2>4 DEF Stage, Fresh
  <2>6. QED
    BY <1>6, <2>1, <2>5
<1>8. CASE Stop(q, v)
  <2> DEFINE e == [ldap[v] EXCEPT !.state = "STOPPED"]
  <2>1. Begin(q, v, "match", e) /\ ldap[v].state = "RUNNING" /\ (v \in calm' => v \in calm)
    BY <1>8 DEF Stop, Overlap
  <2>2. v \in calm' => Agree(v)
    BY <1>3, <2>1 DEF CalmInv
  <2>3. req'[q] = Fresh("match", v, e) /\ e.state = "STOPPED"
    BY <1>5, <2>1 DEF Begin, Entry
  <2> HIDE DEF e
  <2>4. v \in calm' => Agree(v)' /\ ldap'[v] = ldap[v]
    BY <1>4, <2>2 DEF Agree
  <2>5. v \in calm' => Stage(q)'
    BY <2>1, <2>3, <2>4 DEF Stage, Fresh, Agree
  <2>6. QED
    BY <1>6, <2>1, <2>5
<1>9. CASE Reload(q, v)
  <2>1. Begin(q, v, "lookup", ldap[v]) /\ ldap[v].state # "ABSENT"
    BY <1>9 DEF Reload
  <2>2. req'[q] = Fresh("lookup", v, ldap[v])
    BY <1>5, <2>1 DEF Begin
  <2>3. Stage(q)'
    BY <1>4, <2>1, <2>2 DEF Stage, Fresh
  <2>4. QED
    BY <1>6, <2>1, <2>3
<1>10. QED
  BY <1>7, <1>8, <1>9

\* What a step of an active handler has to show.
LEMMA CalmWork ==
  ASSUME Typed, CalmInv, NEW q \in Request, ~ At(q, "idle"), UNCHANGED calm,
         NEW u, u = req[q].virtue,
         NEW h, req' = [req EXCEPT ![q] = h], h.virtue \in {u, None},
         \A v \in Virtue : v # u => RowsOf(v)' = RowsOf(v) /\ ldap'[v] = ldap[v],
         Stage(q) /\ h.virtue = u => Stage(q)',
         Stage(q) /\ h.virtue = None => Agree(u)'
  PROVE  CalmInv'
<1>1. u \in Virtue
  BY Active
<1>2. u \in calm => Stage(q) /\ \A p \in Request \ {q} : req[p].virtue # u
  BY DEF CalmInv
<1>3. QED
  BY <1>1, <1>2, CalmLift

LEMMA CalmEnd ==
  ASSUME Typed, CalmInv, NEW q \in Request, ~ At(q, "idle"), UNCHANGED calm, End(q),
         NEW u, u = req[q].virtue,
         \A v \in Virtue : v # u => RowsOf(v)' = RowsOf(v) /\ ldap'[v] = ldap[v],
         Stage(q) => Agree(u)'
  PROVE  CalmInv'
<1>1. req' = [req EXCEPT ![q] = Idle] /\ Idle.virtue = None
  BY DEF End, Idle, Fresh
<1>2. u # None
  BY Active, LifecycleAssumption
<1> HIDE DEF Idle
<1>3. QED
  BY <1>1, <1>2, CalmWork

\* A handler that only moves on, to another statement with another entry.
LEMMA CalmMove ==
  ASSUME Typed, CalmInv, NEW q \in Request, ~ At(q, "idle"), UNCHANGED <<calm, rows, ldap>>,
         NEW h \in Handler, req' = [req EXCEPT ![q] = h], h.virtue = req[q].virtue,
         Stage(q) /\ req'[q] = h => Stage(q)'
  PROVE  CalmInv'
<1>1. req'[q] = h /\ \A v \in Virtue : RowsOf(v)' = RowsOf(v) /\ ldap'[v] = ldap[v]
  BY DEF Typed, TypeOK, RowsOf
<1>2. h.virtue # None
  BY Active, LifecycleAssumption
<1>3. QED
  BY <1>1, <1>2, CalmWork

\* virtue_launch, up to the end of its probe loop.
LEMMA CalmLaunch ==
  ASSUME Typed, Typed', CalmInv, NEW q \in Request,
         \/ \E a \in Valor : PickValor(q, a) \/ CreateValor(q, a)
         \/ \E g \in Guestnet : InsertRow(q, g)
         \/ CreateValorFails(q) \/ CheckNoRow(q) \/ NoGuestnet(q)
         \/ MarkLaunching(q) \/ ProbeSucceeds(q) \/ ProbeFails(q)
  PROVE  CalmInv'
<1>0. ~ At(q, "idle")
  BY DEF At, PickValor, CreateValor, CreateValorFails, CheckNoRow, InsertRow,
         NoGuestnet, MarkLaunching, ProbeSucceeds, ProbeFails
<1>u. PICK u : u = req[q].virtue
  OBVIOUS
<1>a. /\ u = req[q].virtue /\ u \in Virtue /\ u # None /\ req[q].entry \in Entry
      /\ req \in [Request -> Handler] /\ req' \in [Request -> Handler]
      /\ ldap \in [Virtue -> Entry]
  BY <1>0, <1>u, Active, LifecycleAssumption DEF Typed, TypeOK
<1>b. UNCHANGED <<rows, ldap>> => \A v \in Virtue : RowsOf(v)' = RowsOf(v) /\ ldap'[v] = ldap[v]
  BY DEF RowsOf
<1>1. ASSUME NEW a \in Valor, PickValor(q, a) \/ CreateValor(q, a) PROVE CalmInv'
  <2> DEFINE h == [req[q] EXCEPT !.pc = "check", !.valor = a]
  <2>1. req' = [req EXCEPT ![q] = h] /\ UNCHANGED <<calm, rows, ldap>> /\ At(q, "pick")
    BY <1>1 DEF PickValor, CreateValor, table
  <2>2. h = req'[q] /\ h \in Handler
    BY <1>a, <2>1
  <2>3. h.virtue = u /\ h.pc = "check"
    BY <1>a DEF Handler
  <2>4. Stage(q) /\ req'[q] = h => Stage(q)'
    BY <1>b, <1>a, <2>1, <2>3 DEF Stage, At
  <2> HIDE DEF h
  <2>5. QED
    BY <1>0, <1>a, <2>1, <2>2, <2>3, <2>4, CalmMove
<1>2. CASE CreateValorFails(q) \/ NoGuestnet(q)
  <2>1. End(q) /\ UNCHANGED <<calm, rows, ldap>> /\ (At(q, "pick") \/ At(q, "insert"))
    BY <1>2 DEF CreateValorFails, NoGuestnet, table
  <2>2. Stage(q) => Agree(u)'
    BY <1>a, <1>b, <2>1 DEF Stage, Agree, At
  <2>3. QED
    BY <1>0, <1>a, <1>b, <2>1, <2>2, CalmEnd
<1>3. CASE CheckNoRow(q)
  <2>1. UNCHANGED <<calm, rows, ldap>> /\ At(q, "check") /\ (End(q) \/ Goto(q, "insert"))
    BY <1>3 DEF CheckNoRow, table
  <2>2. CASE End(q)
    <3>1. Stage(q) => Agree(u)'
      BY <1>a, <1>b, <2>1 DEF Stage, Agree, At
    <3>2. QED
      BY <1>0, <1>a, <1>b, <2>1, <2>2, <3>1, CalmEnd
  <2>3. CASE Goto(q, "insert")
    <3> DEFINE h == [req[q] EXCEPT !.pc = "insert"]
    <3>1. req' = [req EXCEPT ![q] = h]
      BY <2>3 DEF Goto
    <3>2. h = req'[q] /\ h \in Handler
      BY <1>a, <3>1
    <3>3. h.virtue = u /\ h.pc = "insert"
      BY <1>a DEF Handler
    <3>4. Stage(q) /\ req'[q] = h => Stage(q)'
      BY <1>b, <1>a, <2>1, <3>3 DEF Stage, At
    <3> HIDE DEF h
    <3>5. QED
      BY <1>0, <1>a, <2>1, <3>1, <3>2, <3>3, <3>4, CalmMove
  <2>4. QED
    BY <2>1, <2>2, <2>3
<1>4. ASSUME NEW g \in Guestnet, InsertRow(q, g) PROVE CalmInv'
  <2>r. PICK r : r = [id |-> nextId, virtue |-> u, valor |-> req[q].valor, guestnet |-> g]
    OBVIOUS
  <2> DEFINE e == [state |-> "LAUNCHING", ipAddress |-> g]
             h == [req[q] EXCEPT !.pc = "mark", !.entry = e]
  <2>1. /\ req' = [req EXCEPT ![q] = h]
        /\ UNCHANGED <<calm, ldap>> /\ At(q, "insert")
        /\ rows' = rows \cup {r}
    BY <1>4, <1>u, <2>r DEF InsertRow
  <2>2. h = req'[q]
    BY <1>a, <2>1
  <2>3. /\ h.virtue = u /\ h.pc = "mark"
        /\ h.entry.state # "ABSENT" /\ h.entry.ipAddress = g
    BY <1>a DEF Handler
  <2>4. r.virtue = u /\ r.guestnet = g
    BY <2>r
  <2> HIDE DEF h, e
  <2>5. \A v \in Virtue : v # u => RowsOf(v)' = RowsOf(v) /\ ldap'[v] = ldap[v]
    BY <2>1, <2>4 DEF RowsOf
  <2>6. RowsOf(u) = {} => RowsOf(u)' = {r}
    BY <2>1, <2>4 DEF RowsOf
  <2>7. ASSUME Stage(q) PROVE Stage(q)'
    <3>1. RowsOf(u)' = {r} /\ ldap'[u].state = "STOPPED"
      BY <1>u, <2>1, <2>6, <2>7 DEF Stage, At
    <3>2. OnlyRow(u, g)'
      BY <3>1, <2>4 DEF OnlyRow
    <3>3. req'[q].virtue = u /\ req'[q].entry.ipAddress = g
      BY <2>2, <2>3
    <3>4. OnlyRow(req[q].virtue, req[q].entry.ipAddress)'
      BY <3>2, <3>3 DEF OnlyRow
    <3>5. QED
      BY <2>2, <2>3, <3>1, <3>3, <3>4 DEF Stage
  <2>8. QED
    BY <1>0, <1>a, <2>1, <2>3, <2>5, <2>7, CalmWork
<1>5. CASE MarkLaunching(q)
  <2> DEFINE h == [req[q] EXCEPT !.pc = "probe"]
  <2>1. /\ req' = [req EXCEPT ![q] = h]
        /\ UNCHANGED <<calm, rows>> /\ At(q, "mark")
        /\ Modify(u, req[q].entry)
    BY <1>5, <1>u DEF MarkLaunching, Goto, table
  <2>2. h = req'[q]
    BY <1>a, <2>1
  <2>3. h.virtue = u /\ h.pc = "probe" /\ h.entry = req[q].entry
    BY <1>a DEF Handler
  <2> HIDE DEF h
  <2>4. \A v \in Virtue : v # u => RowsOf(v)' = RowsOf(v) /\ ldap'[v] = ldap[v]
    BY <1>a, <2>1 DEF RowsOf, Modify
  <2>5. ASSUME Stage(q) PROVE Stage(q)'
    <3>1. /\ OnlyRow(u, req[q].entry.ipAddress) /\ RowsOf(u)' = RowsOf(u)
          /\ ldap[u].state # "ABSENT" /\ req[q].entry.state # "ABSENT"
      BY <1>u, <2>1, <2>5 DEF Stage, At, RowsOf
    <3>2. ldap'[u].state # "ABSENT"
      BY <1>a, <2>1, <3>1 DEF Modify
    <3>3. QED
      BY <2>2, <2>3, <3>1, <3>2 DEF Stage, OnlyRow
  <2>6. QED
    BY <1>0, <1>a, <2>1, <2>3, <2>4, <2>5, CalmWork
<1>6. CASE ProbeSucceeds(q)
  <2> DEFINE e == [req[q].entry EXCEPT !.state = "RUNNING"]
             h == [req[q] EXCEPT !.pc = "write", !.entry = e]
  <2>1. req' = [req EXCEPT ![q] = h] /\ UNCHANGED <<calm, rows, ldap>> /\ At(q, "probe")
    BY <1>6 DEF ProbeSucceeds, table
  <2>2. h = req'[q] /\ h \in Handler
    BY <1>a, <2>1
  <2>3. h.virtue = u /\ h.pc = "write" /\ h.entry = e
    BY <1>a DEF Handler
  <2>4. e.state = "RUNNING" /\ e.ipAddress = req[q].entry.ipAddress
    BY <1>a DEF Entry
  <2> HIDE DEF h, e
  <2>5. ASSUME Stage(q), req'[q] = h PROVE Stage(q)'
    <3>1. OnlyRow(u, e.ipAddress) /\ ldap[u].state # "ABSENT"
      BY <1>u, <2>1, <2>4, <2>5 DEF Stage, At
    <3>2. QED
      BY <1>a, <1>b, <2>1, <2>3, <2>4, <2>5, <3>1 DEF Stage, OnlyRow
  <2>6. QED
    BY <1>0, <1>a, <2>1, <2>2, <2>3, <2>5, CalmMove
<1>7. CASE ProbeFails(q)
  <2> DEFINE e == [req[q].entry EXCEPT !.state = "STOPPED"]
             h == [req[q] EXCEPT !.attempts = req[q].attempts + 1]
             k == [req[q] EXCEPT !.pc = "match", !.entry = e]
  <2>1. /\ UNCHANGED <<calm, rows, ldap>> /\ At(q, "probe")
        /\ req' = [req EXCEPT ![q] = h] \/ req' = [req EXCEPT ![q] = k]
    BY <1>7 DEF ProbeFails, table
  <2>2. CASE req' = [req EXCEPT ![q] = h]
    <3>1. h = req'[q] /\ h \in Handler
      BY <1>a, <2>2
    <3>2. h.virtue = u /\ h.pc = "probe" /\ h.entry = req[q].entry
      BY <1>a, <2>1 DEF Handler, At
    <3> HIDE DEF h
    <3>3. Stage(q) /\ req'[q] = h => Stage(q)'
      BY <1>a, <1>b, <2>1, <3>2 DEF Stage, OnlyRow, At
    <3>4. QED
      BY <1>0, <1>a, <2>1, <2>2, <3>1, <3>2, <3>3, CalmMove
  <2>3. CASE req' = [req EXCEPT ![q] = k]
    <3>1. k = req'[q] /\ k \in Handler
      BY <1>a, <2>3
    <3>2. k.virtue = u /\ k.pc = "match" /\ k.entry = e
      BY <1>a DEF Handler
    <3>3. e.state = "STOPPED"
      BY <1>a DEF Entry
    <3> HIDE DEF k, e
    <3>4. Stage(q) /\ req'[q] = k => Stage(q)'
      BY <1>a, <1>b, <2>1, <3>2, <3>3 DEF Stage, OnlyRow, At
    <3>5. QED
      BY <1>0, <1>a, <2>1, <2>3, <3>1, <3>2, <3>4, CalmMove
  <2>4. QED
    BY <2>1, <2>2, <2>3
<1>8. QED
  BY <1>1, <1>2, <1>3, <1>4, <1>5, <1>6, <1>7

\* The row a handler is about to delete is one of its own virtue.
Deleting == \A q \in Request : At(q, "delete") => req[q].row.virtue = req[q].virtue

\* remove_virtue, the last writes, reload and destroy.
LEMMA CalmFinish ==
  ASSUME Typed, Typed', Deleting, CalmInv, NEW q \in Request,
         \/ MatchRow(q) \/ DeleteRow(q) \/ WriteEntry(q) \/ LookupRow(q)
         \/ UnlinkImage(q) \/ DeleteEntry(q) \/ Abort(q)
  PROVE  CalmInv'
<1>0. ~ At(q, "idle")
  BY DEF At, MatchRow, DeleteRow, WriteEntry, LookupRow, UnlinkImage, DeleteEntry, Abort
<1>u. PICK u : u = req[q].virtue
  OBVIOUS
<1>a. /\ u = req[q].virtue /\ u \in Virtue /\ u # None /\ req[q].entry \in Entry
      /\ req[q] \in Handler
      /\ req \in [Request -> Handler] /\ req' \in [Request -> Handler]
      /\ ldap \in [Virtue -> Entry]
  BY <1>0, <1>u, Active, LifecycleAssumption DEF Typed, TypeOK
<1>b. UNCHANGED <<rows, ldap>> => \A v \in Virtue : RowsOf(v)' = RowsOf(v) /\ ldap'[v] = ldap[v]
  BY DEF RowsOf
<1>1. CASE MatchRow(q)
  <2>1. UNCHANGED <<calm, rows, ldap>> /\ At(q, "match")
    BY <1>1 DEF MatchRow, table
  <2>2. ASSUME NEW r \in RowsOf(u), RowsOf(u) = {r},
               req' = [req EXCEPT ![q].pc = "delete", ![q].row = r]
        PROVE  CalmInv'
    <3> DEFINE h == [req[q] EXCEPT !.pc = "delete", !.row = r]
    <3>1. req' = [req EXCEPT ![q] = h]
      BY <2>2
    <3>2. h = req'[q] /\ h \in Handler
      BY <1>a, <3>1
    <3>3. h.virtue = u /\ h.pc = "delete" /\ h.row = r /\ h.entry = req[q].entry
      BY <1>a DEF Handler
    <3> HIDE DEF h
    <3>4. Stage(q) /\ req'[q] = h => Stage(q)'
      BY <1>a, <1>b, <2>1, <2>2, <3>3 DEF Stage, At
    <3>5. QED
      BY <1>0, <1>a, <2>1, <3>1, <3>2, <3>3, <3>4, CalmMove
  <2>3. CASE Cardinality(RowsOf(u)) # 1 /\ End(q)
    <3>1. ~ \E r \in RowsOf(u) : RowsOf(u) = {r}
      BY <2>3, FS_Singleton
    <3>2. Stage(q) => Agree(u)'
      BY <1>a, <1>b, <2>1, <3>1 DEF Stage, Agree, At
    <3>3. QED
      BY <1>0, <1>a, <1>b, <2>1, <2>3, <3>2, CalmEnd
  <2>4. QED
    BY <1>1, <1>u, <2>2, <2>3 DEF MatchRow
<1>2. CASE DeleteRow(q)
  <2> DEFINE h == [req[q] EXCEPT !.pc = "write"]
  <2>1. /\ req' = [req EXCEPT ![q] = h]
        /\ UNCHANGED <<calm, ldap>> /\ At(q, "delete")
        /\ rows' = rows \ {req[q].row}
    BY <1>2 DEF DeleteRow, Goto
  <2>2. h = req'[q]
    BY <1>a, <2>1
  <2>3. h.virtue = u /\ h.pc = "write" /\ h.entry = req[q].entry
    BY <1>a DEF Handler
  <2> HIDE DEF h
  <2>4. req[q].row.virtue = u
    BY <1>a, <2>1 DEF Deleting, At
  <2>5. \A v \in Virtue : v # u => RowsOf(v)' = RowsOf(v) /\ ldap'[v] = ldap[v]
    BY <2>1, <2>4 DEF RowsOf
  <2>6. ASSUME Stage(q) PROVE Stage(q)'
    <3>1. /\ RowsOf(u) = {req[q].row} /\ req[q].entry.state = "STOPPED"
          /\ ldap[u].state # "ABSENT"
      BY <1>a, <2>1, <2>6 DEF Stage, At
    <3>2. RowsOf(u)' = {}
      BY <2>1, <3>1 DEF RowsOf
    <3>3. QED
      BY <2>1, <2>2, <2>3, <3>1, <3>2 DEF Stage
  <2>7. QED
    BY <1>0, <1>a, <2>1, <2>3, <2>5, <2>6, CalmWork
<1>3. CASE WriteEntry(q)
  <2>1. UNCHANGED <<calm, rows>> /\ At(q, "write") /\ Modify(u, req[q].entry) /\ End(q)
    BY <1>3, <1>u DEF WriteEntry, table
  <2>2. \A v \in Virtue : v # u => RowsOf(v)' = RowsOf(v) /\ ldap'[v] = ldap[v]
    BY <1>a, <2>1 DEF RowsOf, Modify
  <2>3. ASSUME Stage(q) PROVE Agree(u)'
    <3>1. /\ ldap[u].state # "ABSENT" /\ RowsOf(u)' = RowsOf(u)
          /\ \/ req[q].entry.state = "STOPPED" /\ RowsOf(u) = {}
             \/ /\ req[q].entry.state = "RUNNING"
                /\ \E r \in RowsOf(u) : r.guestnet = req[q].entry.ipAddress
      BY <1>u, <2>1, <2>3 DEF Stage, At, RowsOf
    <3>2. ldap'[u] = req[q].entry
      BY <1>a, <2>1, <3>1 DEF Modify
    <3>3. QED
      BY <3>1, <3>2 DEF Agree
  <2>4. QED
    BY <1>0, <1>a, <2>1, <2>2, <2>3, CalmEnd
<1>4. CASE LookupRow(q)
  <2>1. UNCHANGED <<calm, rows, ldap>> /\ At(q, "lookup")
    BY <1>4 DEF LookupRow, table
  <2>2. PICK e \in Actual(u) :
           IF e = req[q].entry THEN End(q)
           ELSE req' = [req EXCEPT ![q].pc = "write", ![q].entry = e]
    BY <1>4, <1>u DEF LookupRow
  <2>3. \/ e.state = "STOPPED" /\ RowsOf(u) = {}
        \/ e.state = "RUNNING" /\ \E r \in RowsOf(u) : r.guestnet = e.ipAddress
    BY <2>2 DEF Actual
  <2>4. CASE End(q) /\ e = req[q].entry
    <3>1. Stage(q) => ldap[u] = e
      BY <1>u, <2>1, <2>4 DEF Stage, At
    <3>2. Stage(q) => Agree(u)'
      BY <1>a, <1>b, <2>1, <2>3, <3>1 DEF Agree
    <3>3. QED
      BY <1>0, <1>a, <1>b, <2>1, <2>4, <3>2, CalmEnd
  <2>5. CASE req' = [req EXCEPT ![q].pc = "write", ![q].entry = e]
    <3> DEFINE h == [req[q] EXCEPT !.pc = "write", !.entry = e]
    <3>1. req' = [req EXCEPT ![q] = h]
      BY <2>5
    <3>2. h = req'[q] /\ h \in Handler
      BY <1>a, <3>1
    <3>3. h.virtue = u /\ h.pc = "write" /\ h.entry = e
      BY <1>a DEF Handler
    <3> HIDE DEF h
    <3>4. Stage(q) => ldap[u].state # "ABSENT"
      BY <1>u, <2>1 DEF Stage, At
    <3>5. Stage(q) /\ req'[q] = h => Stage(q)'
      BY <1>a, <1>b, <2>1, <2>3, <3>3, <3>4 DEF Stage
    <3>6. QED
      BY <1>0, <1>a, <2>1, <3>1, <3>2, <3>3, <3>5, CalmMove
  <2>6. QED
    BY <2>2, <2>4, <2>5
<1>5. CASE UnlinkImage(q)
  <2>1. UNCHANGED <<calm, rows, ldap>> /\ At(q, "unlink") /\ (End(q) \/ Goto(q, "unregister"))
    BY <1>5 DEF UnlinkImage, table
  <2>2. CASE End(q)
    <3>1. Stage(q) => Agree(u)'
      BY <1>a, <1>b, <2>1 DEF Stage, Agree, At
    <3>2. QED
      BY <1>0, <1>a, <1>b, <2>1, <2>2, <3>1, CalmEnd
  <2>3. CASE Goto(q, "unregister")
    <3> DEFINE h == [req[q] EXCEPT !.pc = "unregister"]
    <3>1. req' = [req EXCEPT ![q] = h]
      BY <2>3 DEF Goto
    <3>2. h = req'[q] /\ h \in Handler
      BY <1>a, <3>1
    <3>3. h.virtue = u /\ h.pc = "unregister"
      BY <1>a DEF Handler
    <3> HIDE DEF h
    <3>4. Stage(q) /\ req'[q] = h => Stage(q)'
      BY <1>a, <1>b, <2>1, <3>3 DEF Stage, At
    <3>5. QED
      BY <1>0, <1>a, <2>1, <3>1, <3>2, <3>3, <3>4, CalmMove
  <2>4. QED
    BY <2>1, <2>2, <2>3
<1>6. CASE DeleteEntry(q)
  <2>1. /\ UNCHANGED <<calm, rows>> /\ At(q, "unregister") /\ End(q)
        /\ ldap' = [ldap EXCEPT ![u] = [state |-> "ABSENT", ipAddress |-> None]]
    BY <1>6, <1>u DEF DeleteEntry, table
  <2>2. \A v \in Virtue : v # u => RowsOf(v)' = RowsOf(v) /\ ldap'[v] = ldap[v]
    BY <1>a, <2>1 DEF RowsOf
  <2>3. Stage(q) => RowsOf(u)' = {}
    BY <1>u, <2>1 DEF Stage, At, RowsOf
  <2>4. ldap'[u].state = "ABSENT"
    BY <1>a, <2>1
  <2>5. Stage(q) => Agree(u)'
    BY <2>3, <2>4 DEF Agree
  <2>6. QED
    BY <1>0, <1>a, <2>1, <2>2, <2>5, CalmEnd
<1>7. CASE Abort(q)
  <2>1. /\ UNCHANGED <<rows, ldap>> /\ calm' = calm \ {u}
        /\ req' = [req EXCEPT ![q] = Idle] /\ Idle.virtue = None
    BY <1>7, <1>u DEF Abort, End, table, Idle, Fresh
  <2> HIDE DEF Idle
  <2>2. QED
    BY <1>a, <1>b, <2>1, CalmLift
<1>8. QED
  BY <1>1, <1>2, <1>3, <1>4, <1>5, <1>6, <1>7

LEMMA DeletingStep == Typed /\ Typed' /\ Deleting /\ [Next]_vars => Deleting'
<1> SUFFICES ASSUME Typed, Typed', Deleting, [Next]_vars PROVE Deleting'
  OBVIOUS
<1>1. req \in [Request -> Handler]
  BY DEF Typed, TypeOK
<1>2. ASSUME UNCHANGED req PROVE Deleting'
  BY <1>2 DEF Deleting, At
<1>3. ASSUME NEW q \in Request, NEW h, req' = [req EXCEPT ![q] = h],
             h.pc = "delete" => h.row.virtue = h.virtue
      PROVE  Deleting'
  <2>1. req'[q] = h /\ \A p \in Request : p # q => req'[p] = req[p]
    BY <1>1, <1>3
  <2>2. QED
    BY <1>3, <2>1 DEF Deleting, At
<1>4. ASSUME NEW q \in Request, End(q) PROVE Deleting'
  BY <1>3, <1>4, IdleType DEF End
<1>5. ASSUME NEW q \in Request, NEW h \in Handler, req' = [req EXCEPT ![q] = h], h.pc # "delete"
      PROVE  Deleting'
  BY <1>3, <1>5
<1>6. ASSUME NEW q \in Request, NEW pc, Goto(q, pc), pc # "delete" PROVE Deleting'
  <2>1. req' = [req EXCEPT ![q] = [req[q] EXCEPT !.pc = pc]]
    BY <1>6 DEF Goto
  <2>2. [req[q] EXCEPT !.pc = pc].pc = pc
    BY <1>1 DEF Handler
  <2>3. QED
    BY <1>3, <1>6, <2>1, <2>2
<1>7. ASSUME NEW q \in Request, NEW v \in Virtue, NEW pc, NEW e, Begin(q, v, pc, e), pc # "delete"
      PROVE  Deleting'
  BY <1>3, <1>7 DEF Begin, Fresh
<1>8. ASSUME NEW q \in Request, Step(q) PROVE Deleting'
  <2>0. req' \in [Request -> Handler] /\ req[q] \in Handler
    BY <1>1 DEF Typed, TypeOK
  <2>1. ASSUME NEW a \in Valor, PickValor(q, a) \/ CreateValor(q, a) PROVE Deleting'
    <3>1. req' = [req EXCEPT ![q] = [req[q] EXCEPT !.pc = "check", !.valor = a]]
      BY <2>1 DEF PickValor, CreateValor
    <3>2. [req[q] EXCEPT !.pc = "check", !.valor = a].pc = "check"
      BY <2>0 DEF Handler
    <3>3. QED
      BY <1>3, <3>1, <3>2
  <2>2. CASE \/ CreateValorFails(q) \/ CheckNoRow(q) \/ NoGuestnet(q) \/ MarkLaunching(q)
             \/ DeleteRow(q) \/ WriteEntry(q) \/ UnlinkImage(q) \/ DeleteEntry(q)
    BY <1>4, <1>6, <2>2
    DEF CreateValorFails, CheckNoRow, NoGuestnet, MarkLaunching, DeleteRow, WriteEntry,
        UnlinkImage, DeleteEntry
  <2>3. ASSUME NEW pc \in {"mark", "write", "match"}, NEW e,
               req' = [req EXCEPT ![q].pc = pc, ![q].entry = e]
        PROVE  Deleting'
    <3>1. req' = [req EXCEPT ![q] = [req[q] EXCEPT !.pc = pc, !.entry = e]]
      BY <2>3
    <3>2. [req[q] EXCEPT !.pc = pc, !.entry = e].pc = pc
      BY <2>0 DEF Handler
    <3>3. QED
      BY <1>3, <3>1, <3>2
  <2>4. ASSUME NEW g \in Guestnet, InsertRow(q, g) PROVE Deleting'
    BY <2>3, <2>4 DEF InsertRow
  <2>5. CASE ProbeSucceeds(q)
    <3> DEFINE e == [req[q].entry EXCEPT !.state = "RUNNING"]
    <3>1. req' = [req EXCEPT ![q].pc = "write", ![q].entry = e]
      BY <2>5 DEF ProbeSucceeds
    <3>2. QED
      BY <2>3, <3>1
  <2>6. CASE ProbeFails(q)
    <3> DEFINE e == [req[q].entry EXCEPT !.state = "STOPPED"]
               h == [req[q] EXCEPT !.attempts = req[q].attempts + 1]
    <3>1. \/ req' = [req EXCEPT ![q].pc = "match", ![q].entry = e]
          \/ req' = [req EXCEPT ![q] = h]
      BY <2>6 DEF ProbeFails
    <3>2. h.pc = "probe"
      BY <2>0, <2>6 DEF Handler, ProbeFails, At
    <3> HIDE DEF e, h
    <3>3. QED
      BY <1>3, <2>3, <3>1, <3>2
  <2>7. CASE MatchRow(q)
    <3>1. ASSUME NEW r \in RowsOf(req[q].virtue),
                 req' = [req EXCEPT ![q].pc = "delete", ![q].row = r]
          PROVE  Deleting'
      <4> DEFINE h == [req[q] EXCEPT !.pc = "delete", !.row = r]
      <4>1. req' = [req EXCEPT ![q] = h]
        BY <3>1
      <4>2. h.row = r /\ h.virtue = req[q].virtue /\ r.virtue = req[q].virtue
        BY <2>0 DEF Handler, RowsOf
      <4> HIDE DEF h
      <4>3. QED
        BY <1>3, <4>1, <4>2
    <3>2. QED
      BY <1>4, <2>7, <3>1 DEF MatchRow
  <2>8. CASE LookupRow(q)
    BY <1>4, <2>3, <2>8 DEF LookupRow
  <2>9. QED
    BY <1>8, <2>1, <2>2, <2>4, <2>5, <2>6, <2>7, <2>8 DEF Step
<1>9. ASSUME NEW q \in Request, NEW v \in Virtue,
             Launch(q, v) \/ Stop(q, v) \/ Reload(q, v) \/ Destroy(q, v)
      PROVE  Deleting'
  BY <1>7, <1>9 DEF Launch, Stop, Reload, Destroy
<1>10. ASSUME NEW q \in Request, Abort(q) PROVE Deleting'
  BY <1>4, <1>10 DEF Abort
<1>11. QED
  BY <1>2, <1>8, <1>9, <1>10
  DEF Next, vars, Gaius, GaiusAdd, GaiusRemove, FeedLost, GaiusRestart, FleetGrows

LEMMA CalmStep == Typed /\ Typed' /\ Deleting /\ CalmInv /\ [Next]_vars => CalmInv'
<1> SUFFICES ASSUME Typed, Typed', Deleting, CalmInv, [Next]_vars PROVE CalmInv'
  OBVIOUS
<1>1. CASE UNCHANGED vars
  BY <1>1, CalmUnchanged DEF vars
<1>2. ASSUME NEW q \in Request, NEW v \in Virtue,
             Launch(q, v) \/ Stop(q, v) \/ Reload(q, v) \/ Destroy(q, v)
      PROVE  CalmInv'
  BY <1>2, CalmStart
<1>3. ASSUME NEW q \in Request, Step(q) \/ Abort(q) PROVE CalmInv'
  BY <1>3, CalmLaunch, CalmFinish DEF Step
<1>4. ASSUME NEW a \in Valor, Gaius(a) \/ FeedLost(a) \/ GaiusRestart(a) \/ FleetGrows(a)
      PROVE  CalmInv'
  BY <1>4, CalmUnchanged DEF Gaius, GaiusAdd, GaiusRemove, FeedLost, GaiusRestart, FleetGrows, table
<1>5. QED
  BY <1>1, <1>2, <1>3, <1>4 DEF Next

\* While the requests of a virtue neither overlap nor die half way, LDAP and
\* RethinkDB agree about it whenever none is in progress (apiendpoint.py
\* 178-385): every handler but one that overlaps leaves the two stores
\* consistent on each of its exits.
THEOREM StoresAgreeTheorem == Spec => []StoresAgree
<1>1. Init => Deleting
  BY IdleType DEF Init, Deleting, At
<1>2. CalmInv => StoresAgree
  BY DEF CalmInv, StoresAgree, Agree
<1>3. QED
  BY InitTyped, TypeStep, <1>1, DeletingStep, InitCalm, CalmStep, <1>2, PTL DEF Spec

(***************************************************************************)
(* Placement                                                               *)
(***************************************************************************)

\* Rows and handlers that are placing a virtue name valors of the fleet: a
\* valor that is being created has none yet.
Placed ==
    /\ IsFiniteSet(rows)
    /\ \A r \in rows : r.valor \in fleet
    /\ \A q \in Request : req[q].pc \in {"check", "insert"} => req[q].valor \in fleet

\* No handler begins to place a virtue on a valor.
NoneHeads ==
    \A q \in Request :
        req'[q].pc \in {"check", "insert"} =>
            req[q].pc \in {"check", "insert"} /\ req'[q].valor = req[q].valor

\* Only the two ways out of get_empty_valor head for a valor.
LEMMA HeadsKept ==
  ASSUME Typed, Typed', [Next]_vars,
         ~ \E q \in Request, a \in Valor : PickValor(q, a) \/ CreateValor(q, a)
  PROVE  NoneHeads
<1>1. req \in [Request -> Handler]
  BY DEF Typed, TypeOK
<1>2. ASSUME UNCHANGED req PROVE NoneHeads
  BY <1>2 DEF NoneHeads
<1>3. ASSUME NEW q \in Request, NEW h, req' = [req EXCEPT ![q] = h],
             h.pc \in {"check", "insert"} => req[q].pc = "check" /\ h.valor = req[q].valor
      PROVE  NoneHeads
  <2>1. req'[q] = h /\ \A p \in Request : p # q => req'[p] = req[p]
    BY <1>1, <1>3
  <2>2. QED
    BY <1>3, <2>1 DEF NoneHeads
<1>4. ASSUME NEW q \in Request, End(q) PROVE NoneHeads
  BY <1>3, <1>4, IdleType DEF End
<1>5. ASSUME NEW q \in Request, NEW pc, Goto(q, pc),
             pc \in {"check", "insert"} => At(q, "check")
      PROVE  NoneHeads
  <2>1. req' = [req EXCEPT ![q] = [req[q] EXCEPT !.pc = pc]]
    BY <1>5 DEF Goto
  <2>2. [req[q] EXCEPT !.pc = pc].pc = pc /\ [req[q] EXCEPT !.pc = pc].valor = req[q].valor
    BY <1>1 DEF Handler
  <2>3. QED
    BY <1>3, <1>5, <2>1, <2>2 DEF At
<1>6. ASSUME NEW q \in Request, NEW v \in Virtue, NEW pc, NEW e, Begin(q, v, pc, e),
             pc \notin {"check", "insert"}
      PROVE  NoneHeads
  BY <1>3, <1>6 DEF Begin, Fresh
<1>7. ASSUME NEW q \in Request, Step(q) PROVE NoneHeads
  <2>1. ASSUME NEW pc \in {"mark", "write", "match"}, NEW e,
               req' = [req EXCEPT ![q].pc = pc, ![q].entry = e]
        PROVE  NoneHeads
    <3>1. req' = [req EXCEPT ![q] = [req[q] EXCEPT !.pc = pc, !.entry = e]]
      BY <2>1
    <3>2. [req[q] EXCEPT !.pc = pc, !.entry = e].pc = pc
      BY <1>1 DEF Handler
    <3>3. QED
      BY <1>3, <3>1, <3>2
  <2>2. CASE \/ CreateValorFails(q) \/ CheckNoRow(q) \/ NoGuestnet(q) \/ MarkLaunching(q)
             \/ DeleteRow(q) \/ WriteEntry(q) \/ UnlinkImage(q) \/ DeleteEntry(q)
    BY <1>4, <1>5, <2>2
    DEF CreateValorFails, CheckNoRow, NoGuestnet, MarkLaunching, DeleteRow, WriteEntry,
        UnlinkImage, DeleteEntry
  <2>3. ASSUME NEW g \in Guestnet, InsertRow(q, g) PROVE NoneHeads
    BY <2>1, <2>3 DEF InsertRow
  <2>4. CASE ProbeSucceeds(q)
    <3> DEFINE e == [req[q].entry EXCEPT !.state = "RUNNING"]
    <3>1. req' = [req EXCEPT ![q].pc = "write", ![q].entry = e]
      BY <2>4 DEF ProbeSucceeds
    <3>2. QED
      BY <2>1, <3>1
  <2>5. CASE ProbeFails(q)
    <3> DEFINE e == [req[q].entry EXCEPT !.state = "STOPPED"]
               h == [req[q] EXCEPT !.attempts = req[q].attempts + 1]
    <3>1. \/ req' = [req EXCEPT ![q].pc = "match", ![q].entry = e]
          \/ req' = [req EXCEPT ![q] = h]
      BY <2>5 DEF ProbeFails
    <3>2. h.pc = "probe"
      BY <1>1, <2>5 DEF Handler, ProbeFails, At
    <3> HIDE DEF e, h
    <3>3. QED
      BY <1>3, <2>1, <3>1, <3>2
  <2>6. CASE MatchRow(q)
    <3>1. ASSUME NEW r, req' = [req EXCEPT ![q].pc = "delete", ![q].row = r]
          PROVE  NoneHeads
      <4>1. req' = [req EXCEPT ![q] = [req[q] EXCEPT !.pc = "delete", !.row = r]]
        BY <3>1
      <4>2. [req[q] EXCEPT !.pc = "delete", !.row = r].pc = "delete"
        BY <1>1 DEF Handler
      <4>3. QED
        BY <1>3, <4>1, <4>2
    <3>2. QED
      BY <1>4, <2>6, <3>1 DEF MatchRow
  <2>7. CASE LookupRow(q)
    BY <1>4, <2>1, <2>7 DEF LookupRow
  <2>8. QED
    BY <1>7, <2>2, <2>3, <2>4, <2>5, <2>6, <2>7 DEF Step
<1>8. ASSUME NEW q \in Request, NEW v \in Virtue,
             Launch(q, v) \/ Stop(q, v) \/ Reload(q, v) \/ Destroy(q, v)
      PROVE  NoneHeads
  BY <1>6, <1>8 DEF Launch, Stop, Reload, Destroy
<1>9. QED
  BY <1>2, <1>4, <1>7, <1>8
  DEF Next, vars, Abort, Gaius, GaiusAdd, GaiusRemove, FeedLost, GaiusRestart, FleetGrows

\* What a step does to the table and the fleet: a row is inserted or not.
LEMMA RowsAndFleet ==
  ASSUME [Next]_vars
  PROVE  /\ fleet \subseteq fleet'
         /\ \/ rows' \subseteq rows
            \/ \E q \in Request, g \in Guestnet : InsertRow(q, g)
BY ZenonT(60) DEF Next, vars, table, Launch, Stop, Reload, Destroy, Abort, Gaius, GaiusAdd, GaiusRemove,
       FeedLost, GaiusRestart, FleetGrows, Step, PickValor, CreateValor, CreateValorFails,
       CheckNoRow, NoGuestnet, MarkLaunching, ProbeSucceeds, ProbeFails, MatchRow, DeleteRow,
       WriteEntry, LookupRow, UnlinkImage, DeleteEntry, InsertRow

LEMMA PlacedStep == Typed /\ Typed' /\ Placed /\ [Next]_vars => Placed'
<1> SUFFICES ASSUME Typed, Typed', Placed, [Next]_vars PROVE Placed'
  OBVIOUS
<1>1. fleet \subseteq fleet'
  BY RowsAndFleet
<1>2. IsFiniteSet(rows') /\ \A r \in rows' : r.valor \in fleet'
  <2>1. CASE rows' \subseteq rows
    BY <1>1, <2>1, FS_Subset DEF Placed
  <2>2. ASSUME NEW q \in Request, NEW g \in Guestnet, InsertRow(q, g)
        PROVE  IsFiniteSet(rows') /\ \A r \in rows' : r.valor \in fleet'
    <3>1. PICK r : rows' = rows \cup {r} /\ r.valor = req[q].valor
      BY <2>2 DEF InsertRow
    <3>2. req[q].valor \in fleet
      BY <2>2 DEF InsertRow, At, Placed
    <3>3. QED
      BY <1>1, <3>1, <3>2, FS_AddElement DEF Placed
  <2>3. QED
    BY <2>1, <2>2, RowsAndFleet
<1>3. \A q \in Request : req'[q].pc \in {"check", "insert"} => req'[q].valor \in fleet'
  <2>1. ASSUME NEW q \in Request, NEW a \in Valor, PickValor(q, a) \/ CreateValor(q, a)
        PROVE  \A p \in Request : req'[p].pc \in {"check", "insert"} => req'[p].valor \in fleet'
    <3>1. req' = [req EXCEPT ![q] = [req[q] EXCEPT !.pc = "check", !.valor = a]] /\ a \in fleet'
      BY <2>1 DEF PickValor, CreateValor, Available
    <3>2. req'[q].valor = a /\ \A p \in Request : p # q => req'[p] = req[p]
      BY <3>1 DEF Typed, TypeOK, Handler
    <3>3. QED
      BY <1>1, <3>1, <3>2 DEF Placed
  <2>2. NoneHeads => \A p \in Request : req'[p].pc \in {"check", "insert"} => req'[p].valor \in fleet'
    BY <1>1 DEF NoneHeads, Placed
  <2>3. QED
    BY <2>1, <2>2, HeadsKept
<1>4. QED
  BY <1>2, <1>3 DEF Placed

\* The sets that are counted are finite.
LEMMA PlacementFinite ==
  ASSUME Placed, NEW a \in Valor
  PROVE  /\ IsFiniteSet(RowsAt(a)) /\ Cardinality(RowsAt(a)) \in Nat
         /\ IsFiniteSet(Headed(a)) /\ Cardinality(Headed(a)) \in Nat
         /\ Cardinality(Headed(a)) <= Cardinality(Request)
         /\ Cardinality(Request) \in Nat
<1>1. RowsAt(a) \subseteq rows /\ Headed(a) \subseteq Request
  BY DEF RowsAt, Headed
<1>2. IsFiniteSet(rows) /\ IsFiniteSet(Request)
  BY LifecycleAssumption DEF Placed
<1>3. IsFiniteSet(RowsAt(a)) /\ IsFiniteSet(Headed(a))
      /\ Cardinality(Headed(a)) <= Cardinality(Request)
  BY <1>1, <1>2, FS_Subset
<1>4. QED
  BY <1>2, <1>3, FS_CardinalityType

Load(a) == Cardinality(RowsAt(a)) + Cardinality(Headed(a))

\* A valor that neither gets a row nor is headed for does not fill up.
LEMMA LoadShrinks ==
  ASSUME Placed, Placed', NEW a \in Valor,
         RowsAt(a)' \subseteq RowsAt(a), Headed(a)' \subseteq Headed(a)
  PROVE  Load(a)' <= Load(a)
<1>1. Cardinality(RowsAt(a)') <= Cardinality(RowsAt(a))
  BY PlacementFinite, FS_Subset
<1>2. Cardinality(Headed(a)') <= Cardinality(Headed(a))
  BY PlacementFinite, FS_Subset
<1>3. /\ Cardinality(RowsAt(a)) \in Nat /\ Cardinality(Headed(a)) \in Nat
      /\ Cardinality(RowsAt(a)') \in Nat /\ Cardinality(Headed(a)') \in Nat
  <2>1. IsFiniteSet(RowsAt(a)) /\ IsFiniteSet(Headed(a))
    BY PlacementFinite
  <2>2. IsFiniteSet(RowsAt(a)') /\ IsFiniteSet(Headed(a)')
    BY <2>1, FS_Subset
  <2>3. QED
    BY <2>1, <2>2, FS_CardinalityType
<1>4. QED
  BY <1>1, <1>2, <1>3 DEF Load

\* A placement counts once: as long as a handler heads for the valor, and from
\* then on as its row.
LEMMA LoadMoves ==
  ASSUME Typed, Typed', Placed, Placed', NEW q \in Request, NEW g \in Guestnet, InsertRow(q, g),
         NEW a \in Valor
  PROVE  Load(a)' <= Load(a)
<1>1. PICK r : rows' = rows \cup {r} /\ r.valor = req[q].valor
  BY DEF InsertRow
<1>2. /\ req[q].pc = "insert" /\ req'[q].pc = "mark"
      /\ \A p \in Request : p # q => req'[p] = req[p]
  <2>1. req' = [req EXCEPT ![q] = [req[q] EXCEPT !.pc = "mark",
                                      !.entry = [state |-> "LAUNCHING", ipAddress |-> g]]]
    BY DEF InsertRow
  <2>2. QED
    BY <2>1 DEF InsertRow, At, Typed, TypeOK, Handler
<1>3. Headed(a)' = Headed(a) \ {q}
  BY <1>2 DEF Headed
<1>4. CASE req[q].valor # a
  <2>1. RowsAt(a)' = RowsAt(a)
    BY <1>1, <1>4 DEF RowsAt
  <2>2. QED
    BY <1>3, <2>1, LoadShrinks
<1>5. CASE req[q].valor = a
  <2>1. RowsAt(a)' = RowsAt(a) \cup {r} /\ q \in Headed(a)
    BY <1>1, <1>2, <1>5 DEF RowsAt, Headed
  <2>2. Cardinality(RowsAt(a)') <= Cardinality(RowsAt(a)) + 1
    <3>1. IsFiniteSet(RowsAt(a)) /\ Cardinality(RowsAt(a)) \in Nat
      BY PlacementFinite
    <3>2. Cardinality(RowsAt(a) \cup {r}) \in {Cardinality(RowsAt(a)), Cardinality(RowsAt(a)) + 1}
      BY <3>1, FS_AddElement
    <3>3. QED
      BY <2>1, <3>1, <3>2
  <2>3. Cardinality(Headed(a)') = Cardinality(Headed(a)) - 1
    BY <1>3, <2>1, PlacementFinite, FS_RemoveElement
  <2>4. /\ Cardinality(RowsAt(a)) \in Nat /\ Cardinality(Headed(a)) \in Nat
        /\ Cardinality(RowsAt(a)') \in Nat
    BY <2>1, PlacementFinite, FS_AddElement, FS_CardinalityType
  <2>5. QED
    BY <2>2, <2>3, <2>4 DEF Load
<1>6. QED
  BY <1>4, <1>5

LEMMA OvershootStep ==
  Typed /\ Typed' /\ Placed /\ Placed' /\ OvershootBounded /\ [Next]_vars => OvershootBounded'
<1> DEFINE Limit == (MaxVirtuesPerValor - 1) + Cardinality(Request)
<1> SUFFICES ASSUME Typed, Typed', Placed, Placed', OvershootBounded, [Next]_vars,
                    NEW a \in Valor
             PROVE  Load(a)' <= Limit
  BY DEF OvershootBounded, Load
<1>1. /\ Load(a) <= Limit /\ Load(a) \in Nat /\ Limit \in Nat
  BY PlacementFinite, LifecycleAssumption DEF OvershootBounded, Load
<1>2. Load(a)' \in Nat
  <2>1. /\ IsFiniteSet(RowsAt(a)') /\ IsFiniteSet(Headed(a)')
    <3>1. RowsAt(a)' \subseteq rows' /\ Headed(a)' \subseteq Request
      BY DEF RowsAt, Headed
    <3>2. QED
      BY <3>1, FS_Subset, LifecycleAssumption DEF Placed
  <2>2. QED
    BY <2>1, FS_CardinalityType DEF Load
<1>3. ASSUME NEW q \in Request, NEW b \in Valor, PickValor(q, b) \/ CreateValor(q, b)
      PROVE  Load(a)' <= Limit
  <2>1. /\ req' = [req EXCEPT ![q] = [req[q] EXCEPT !.pc = "check", !.valor = b]]
        /\ rows' = rows
    BY <1>3 DEF PickValor, CreateValor, table
  <2>2. req'[q].valor = b /\ \A p \in Request : p # q => req'[p] = req[p]
    BY <2>1 DEF Typed, TypeOK, Handler
  <2>3. RowsAt(a)' = RowsAt(a)
    BY <2>1 DEF RowsAt
  <2>4. CASE a # b
    <3>1. Headed(a)' \subseteq Headed(a)
      BY <2>2, <2>4 DEF Headed
    <3>2. QED
      BY <1>1, <1>2, <2>3, <3>1, LoadShrinks
  <2>5. CASE a = b
    <3>1. Cardinality(RowsAt(a)) < MaxVirtuesPerValor
      <4>1. CASE PickValor(q, b)
        BY <2>5, <4>1 DEF PickValor, Available
      <4>2. CASE CreateValor(q, b)
        <5>1. RowsAt(a) = {}
          BY <2>5, <4>2 DEF CreateValor, Placed, RowsAt
        <5>2. QED
          BY <5>1, FS_EmptySet, LifecycleAssumption
      <4>3. QED
        BY <1>3, <4>1, <4>2
    <3>2. Headed(a)' \subseteq Request
      BY DEF Headed
    <3>3. Cardinality(Headed(a)') <= Cardinality(Request) /\ Cardinality(Headed(a)') \in Nat
      BY <3>2, FS_Subset, FS_CardinalityType, LifecycleAssumption
    <3>4. Cardinality(RowsAt(a)) \in Nat /\ Cardinality(Request) \in Nat
      BY PlacementFinite
    <3>5. QED
      BY <2>3, <3>1, <3>3, <3>4, LifecycleAssumption DEF Load
  <2>6. QED
    BY <2>4, <2>5
<1>4. ASSUME NEW q \in Request, NEW g \in Guestnet, InsertRow(q, g) PROVE Load(a)' <= Limit
  BY <1>1, <1>2, <1>4, LoadMoves
<1>5. CASE NoneHeads /\ rows' \subseteq rows
  <2>1. RowsAt(a)' \subseteq RowsAt(a) /\ Headed(a)' \subseteq Headed(a)
    BY <1>5 DEF NoneHeads, RowsAt, Headed
  <2>2. QED
    BY <1>1, <1>2, <2>1, LoadShrinks
<1>6. QED
  BY <1>3, <1>4, <1>5, HeadsKept, RowsAndFleet

\* A valor exceeds its maximum of virtues by no more than the handlers that
\* chose it at the same time (valor.py 236-249, 289-318).
THEOREM OvershootBoundedTheorem == Spec => []OvershootBounded
<1>1. Init => Placed
  BY IdleType, FS_EmptySet DEF Init, Placed
<1>2. Init => OvershootBounded
  <2> SUFFICES ASSUME Init, NEW a \in Valor
               PROVE  Cardinality(RowsAt(a)) + Cardinality(Headed(a))
                         <= (MaxVirtuesPerValor - 1) + Cardinality(Request)
    BY DEF OvershootBounded
  <2>1. RowsAt(a) = {} /\ Headed(a) = {}
    BY IdleType DEF Init, RowsAt, Headed
  <2>2. Cardinality(Request) \in Nat
    BY FS_CardinalityType, LifecycleAssumption
  <2>3. QED
    BY <2>1, <2>2, FS_EmptySet, LifecycleAssumption
<1>3. QED
  BY InitTyped, TypeStep, <1>1, <1>2, PlacedStep, OvershootStep, PTL DEF Spec
=============================================================================
