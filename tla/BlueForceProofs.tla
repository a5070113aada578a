---------------------------- MODULE BlueForceProofs ----------------------------
(***************************************************************************)
(* The Blue Force Tracker fails only when something fails it, for any      *)
(* number of virtues, valors, pages and outstanding requests.              *)
(*                                                                         *)
(* FailureHasCause is not inductive: that a query does not fail rests on   *)
(* the connection it is on, which other requests opened, and that a        *)
(* handler does not throw rests on the rows, which others write.           *)
(***************************************************************************)
EXTENDS BlueForceTracker, TLAPS

\* m has the fields of a request.
IsRequest(m) ==
    m = [of |-> m.of, slot |-> m.slot, route |-> m.route, arg |-> m.arg, at |-> m.at,
         answer |-> m.answer]

Requests ==
    /\ http = [q \in Request |-> http[q]]
    /\ \A q \in Request : http[q] # None => IsRequest(http[q])

\* No fault yet: connections stand, and a query on RethinkDB has one.
Calm ==
    /\ up
    /\ Orphans = {}
    /\ ldapClient # "lost" /\ rdbConn # "closed"
    /\ \A q \in Request : http[q] # None =>
          /\ http[q].at \notin {"hung", "misread", "failed"}
          /\ http[q].at = "querying" /\ http[q].route \in RethinkDBRoutes => rdbConn = "open"

ConnTyped == rdbConn \in {"none", "open", "closed"}

FInv ==
    /\ faults \in Nat
    /\ Requests
    /\ faults = 0 => Calm

LEMMA RoutesApart ==
    /\ RethinkDBRoutes \cap LDAPRoutes = {}
    /\ ElasticsearchRoutes \cap (RethinkDBRoutes \cup LDAPRoutes) = {}
BY DEF RethinkDBRoutes, LDAPRoutes, DirectoryRoutes, ElasticsearchRoutes

LEMMA ConnInit == Init => ConnTyped
BY DEF Init, ServerInit, ConnTyped

LEMMA ConnStep == ConnTyped /\ [Next]_vars => ConnTyped'
<1> SUFFICES ASSUME ConnTyped, [Next]_vars
             PROVE  ConnTyped'
  OBVIOUS
<1> USE DEF ConnTyped, serverVars, clients, stores
<1>1. ASSUME NEW q \in Request, Serve(q) PROVE ConnTyped'
  BY <1>1 DEF Serve, Refuse, AcceptRethinkDB, AcceptElasticsearch, AcceptLDAP, AcceptOnLost,
              Connected, Answer, QueryOnClosed, HungUp, Crash
<1>2. ASSUME NEW q \in Request, ConnectFails(q) \/ QueryFails(q) PROVE ConnTyped'
  BY <1>2 DEF ConnectFails, QueryFails, Crash
<1>3. CASE Restart \/ LoseConnection \/ Write
  BY <1>3 DEF Restart, LoseConnection, Write
<1> QED
  BY <1>1, <1>2, <1>3 DEF Next, ServerNext, vars

LEMMA FInit == Init => FInv
BY DEF Init, ServerInit, DashboardInit, FInv, Requests, Calm, Orphans

\* What the two helpers that write http do to it.
LEMMA ToFacts ==
    ASSUME Requests, NEW q \in Request, NEW stage, http[q] # None, To(q, stage)
    PROVE  /\ Requests'
           /\ \A o \in Request \ {q} : http'[o] = http[o]
           /\ http'[q].at = stage /\ http'[q].route = http[q].route
<1>1. IsRequest(http[q])
  BY DEF Requests
<1>2. http'[q] = [http[q] EXCEPT !.at = stage]
  BY DEF To, Requests
<1>3. /\ IsRequest(http'[q])
      /\ http'[q].at = stage /\ http'[q].route = http[q].route
  BY <1>1, <1>2 DEF IsRequest
<1>4. \A o \in Request \ {q} : http'[o] = http[o]
  BY DEF To, Requests
<1>5. http' = [o \in Request |-> http'[o]]
  BY DEF To, Requests
<1> QED
  BY <1>3, <1>4, <1>5 DEF Requests

LEMMA AnswerFacts ==
    ASSUME Requests, NEW q \in Request, NEW answer, http[q] # None, AnswerWith(q, answer)
    PROVE  /\ Requests'
           /\ \A o \in Request \ {q} : http'[o] = http[o]
           /\ http'[q].at = "answered"
<1>1. IsRequest(http[q])
  BY DEF Requests
<1>2. http'[q] = [[http[q] EXCEPT !.at = "answered"] EXCEPT !.answer = answer]
  BY DEF AnswerWith, Requests
<1>3. IsRequest(http'[q]) /\ http'[q].at = "answered"
  BY <1>1, <1>2 DEF IsRequest
<1>4. \A o \in Request \ {q} : http'[o] = http[o]
  BY DEF AnswerWith, Requests
<1>5. http' = [o \in Request |-> http'[o]]
  BY DEF AnswerWith, Requests
<1> QED
  BY <1>3, <1>4, <1>5 DEF Requests

LEMMA EndFacts ==
    ASSUME Requests, NEW q \in Request, End(q)
    PROVE  /\ Requests'
           /\ \A o \in Request \ {q} : http'[o] = http[o]
           /\ http'[q] = None
BY DEF End, Requests

LEMMA CrashFacts ==
    ASSUME Requests, Crash
    PROVE  Requests'
BY DEF Crash, Requests

\* While there is no fault, a request that moves on keeps the calm if it goes
\* nowhere bad, and queries RethinkDB only over an open connection.
LEMMA CalmAfter ==
    ASSUME Calm, NEW q \in Request,
           \A o \in Request \ {q} : http'[o] = http[o],
           \/ http'[q] = None
           \/ /\ http'[q].at \notin {"hung", "misread", "failed"}
              /\ http'[q].at = "querying" /\ http'[q].route \in RethinkDBRoutes => rdbConn' = "open",
           up' = up, ldapClient' # "lost", rdbConn' \in {rdbConn, "open"},
           UNCHANGED <<at, valors>>
    PROVE  Calm'
<1>1. Orphans' = Orphans
  BY DEF Orphans
<1>2. ASSUME NEW o \in Request, http'[o] # None
      PROVE  /\ http'[o].at \notin {"hung", "misread", "failed"}
             /\ http'[o].at = "querying" /\ http'[o].route \in RethinkDBRoutes => rdbConn' = "open"
  <2>1. CASE o = q
    BY <2>1, <1>2
  <2>2. CASE o # q
    BY <2>2, <1>2 DEF Calm
  <2> QED
    BY <2>1, <2>2
<1> QED
  BY <1>1, <1>2 DEF Calm

LEMMA ServeStep ==
    ASSUME FInv, ConnTyped, NEW q \in Request, Serve(q)
    PROVE  FInv'
<1> USE DEF FInv, ConnTyped, Calm, serverVars, clients, stores
<1>1. CASE Refuse(q)
  BY <1>1, EndFacts, CalmAfter DEF Refuse
<1>2. CASE AcceptRethinkDB(q)
  <2>1. http[q] # None /\ To(q, IF rdbConn = "none" THEN "connecting" ELSE "querying")
    BY <1>2 DEF AcceptRethinkDB, InStage
  <2>2. Requests' /\ faults' = faults
    BY <1>2, <2>1, ToFacts DEF AcceptRethinkDB
  <2>3. ASSUME Calm PROVE Calm'
    <3>1. http'[q].at = "querying" => rdbConn' = "open"
      BY <1>2, <2>1, <2>3, ToFacts DEF AcceptRethinkDB
    <3> QED
      BY <1>2, <2>1, <2>3, <3>1, ToFacts, CalmAfter DEF AcceptRethinkDB
  <2> QED
    BY <2>2, <2>3
<1>3. CASE AcceptElasticsearch(q)
  <2>1. http[q] # None /\ To(q, IF esClient = "none" THEN "connecting" ELSE "querying")
    BY <1>3 DEF AcceptElasticsearch, InStage
  <2>2. Requests' /\ faults' = faults
    BY <1>3, <2>1, ToFacts DEF AcceptElasticsearch
  <2>3. http'[q].route \notin RethinkDBRoutes
    BY <1>3, <2>1, ToFacts, RoutesApart DEF AcceptElasticsearch
  <2>4. ASSUME Calm PROVE Calm'
    BY <1>3, <2>1, <2>3, <2>4, ToFacts, CalmAfter DEF AcceptElasticsearch
  <2> QED
    BY <2>2, <2>4
<1>4. CASE AcceptLDAP(q)
  <2>1. http[q] # None /\ To(q, IF ldapClient = "none" THEN "connecting" ELSE "querying")
    BY <1>4 DEF AcceptLDAP, InStage
  <2>2. Requests' /\ faults' = faults
    BY <1>4, <2>1, ToFacts DEF AcceptLDAP
  <2>3. http'[q].route \notin RethinkDBRoutes
    BY <1>4, <2>1, ToFacts, RoutesApart DEF AcceptLDAP
  <2>4. ASSUME Calm PROVE Calm'
    BY <1>4, <2>1, <2>3, <2>4, ToFacts, CalmAfter DEF AcceptLDAP
  <2> QED
    BY <2>2, <2>4
<1>5. CASE AcceptOnLost(q)
  <2>1. Requests' /\ faults' = faults
    BY <1>5, ToFacts, CrashFacts DEF AcceptOnLost, InStage
  <2> QED
    BY <1>5, <2>1 DEF AcceptOnLost
<1>6. CASE Connected(q)
  <2>1. http[q] # None /\ To(q, "querying")
    BY <1>6 DEF Connected, InStage
  <2>2. Requests' /\ faults' = faults
    BY <1>6, <2>1, ToFacts DEF Connected
  <2>3. ASSUME Calm PROVE Calm'
    BY <1>6, <2>1, <2>3, ToFacts, CalmAfter DEF Connected
  <2> QED
    BY <2>2, <2>3
<1>7. CASE Answer(q)
  <2>1. http[q] # None
    BY <1>7 DEF Answer, InStage
  <2>2. Requests' /\ faults' = faults
    BY <1>7, <2>1, AnswerFacts, CrashFacts DEF Answer
  <2>3. ASSUME Calm PROVE Calm'
    <3>1. ~ Throws(http[q].route)
      BY <2>3 DEF Throws
    <3>2. PICK answer : AnswerWith(q, answer)
      BY <1>7, <3>1 DEF Answer
    <3>3. /\ \A o \in Request \ {q} : http'[o] = http[o]
          /\ http'[q].at = "answered"
      BY <2>1, <3>2, AnswerFacts
    <3> QED
      BY <1>7, <2>3, <3>1, <3>3, CalmAfter DEF Answer
  <2> QED
    BY <2>2, <2>3
<1>8. CASE QueryOnClosed(q)
  <2>1. http[q] # None /\ http[q].at = "querying"
    BY <1>8 DEF QueryOnClosed, InStage
  <2>2. Requests' /\ faults' = faults
    BY <1>8, <2>1, ToFacts DEF QueryOnClosed, ReportError
  <2>3. Calm => Healthy(http[q].route)
    BY <2>1 DEF Healthy
  <2> QED
    BY <1>8, <2>2, <2>3 DEF QueryOnClosed
<1>9. CASE HungUp(q)
  BY <1>9, EndFacts, CalmAfter DEF HungUp
<1> QED
  BY <1>1, <1>2, <1>3, <1>4, <1>5, <1>6, <1>7, <1>8, <1>9 DEF Serve

\* A step that is a fault ends the calm; it has only to keep the requests.
LEMMA ServerStep ==
    ASSUME FInv, ConnTyped, ServerNext
    PROVE  FInv'
<1> USE DEF FInv
<1>1. ASSUME NEW q \in Request, Serve(q) PROVE FInv'
  BY <1>1, ServeStep
<1>2. ASSUME NEW q \in Request, ConnectFails(q) PROVE FInv'
  BY <1>2, CrashFacts DEF ConnectFails, Fault
<1>3. ASSUME NEW q \in Request, QueryFails(q) PROVE FInv'
  BY <1>3, ToFacts DEF QueryFails, Fault, ReportError, InStage
<1>4. CASE Restart
  BY <1>4 DEF Restart, clients, stores, Calm, Requests
<1>5. CASE LoseConnection
  BY <1>5 DEF LoseConnection, Fault, Requests
<1>6. CASE Write
  <2>1. Requests'
    BY <1>6 DEF Write, Requests
  <2>2. CASE WriteRows
    <3>1. CASE Orphans' \subseteq Orphans
      BY <1>6, <2>1, <2>2, <3>1 DEF Write, WriteRows, clients, Calm
    <3>2. CASE ~ (Orphans' \subseteq Orphans)
      BY <2>1, <2>2, <3>2 DEF WriteRows, Fault
    <3> QED
      BY <3>1, <3>2
  <2>3. CASE WriteEntry
    <3>1. Orphans' = Orphans
      BY <2>3 DEF WriteEntry, Orphans
    <3> QED
      BY <1>6, <2>1, <2>3, <3>1 DEF Write, WriteEntry, clients, Calm
  <2> QED
    BY <1>6, <2>2, <2>3 DEF Write
<1> QED
  BY <1>1, <1>2, <1>3, <1>4, <1>5, <1>6 DEF ServerNext

LEMMA DashboardStep ==
    ASSUME FInv, ConnTyped, DashboardNext, UNCHANGED serverVars
    PROVE  FInv'
<1> USE DEF FInv, serverVars, clients, stores
<1>1. /\ Calm /\ UNCHANGED http => Calm'
      /\ Requests /\ UNCHANGED http => Requests'
  BY DEF Calm, Requests, Orphans
<1>2. ASSUME NEW q \in Request, NEW m, http' = [http EXCEPT ![q] = m],
             IsRequest(m), m.at = "sent"
      PROVE  FInv'
  <2>1. /\ Requests'
        /\ \A o \in Request \ {q} : http'[o] = http[o]
        /\ http'[q] = m
    BY <1>2 DEF Requests
  <2> QED
    BY <1>2, <2>1, CalmAfter DEF Calm
<1>3. ASSUME Unused # {} PROVE NewRequest \in Request
  BY <1>3 DEF NewRequest, Unused
<1>4. ASSUME NEW slot \in Slots, Ask(slot) PROVE FInv'
  <2> DEFINE arg == IF slot = "line" THEN shown.selected ELSE Everything
             m == [of |-> "page", slot |-> slot, route |-> RouteOf(shown.view, slot, arg),
                   arg |-> arg, at |-> "sent", answer |-> NoData]
  <2>1. http' = [http EXCEPT ![NewRequest] = m] /\ Unused # {}
    BY <1>4 DEF Ask
  <2>2. IsRequest(m) /\ m.at = "sent"
    BY DEF IsRequest
  <2> HIDE DEF m
  <2> QED
    BY <1>2, <1>3, <2>1, <2>2
<1>5. CASE AskForLeft
  BY <1>2, <1>3, <1>5 DEF AskForLeft, IsRequest
<1>6. ASSUME NEW q \in Request, Receive(q) PROVE FInv'
  BY <1>6, EndFacts, CalmAfter DEF Receive, Calm
<1>7. ASSUME NEW choice \in Virtue \cup {Everything}, Select(choice) PROVE FInv'
  BY <1>1, <1>7 DEF Select
<1>8. ASSUME NEW view \in Visited, Visit(view) PROVE FInv'
  <2>1. \A q \in Request :
           http'[q] = IF http[q] = None THEN None ELSE [http[q] EXCEPT !.of = "left"]
    BY <1>8 DEF Visit
  <2>2. ASSUME NEW q \in Request, http'[q] # None
        PROVE  /\ http[q] # None
               /\ IsRequest(http'[q])
               /\ http'[q].at = http[q].at /\ http'[q].route = http[q].route
    <3>1. IsRequest(http[q]) /\ http'[q] = [http[q] EXCEPT !.of = "left"]
      BY <2>1, <2>2 DEF Requests
    <3> QED
      BY <2>1, <2>2, <3>1 DEF IsRequest
  <2>3. http' = [q \in Request |-> http'[q]]
    BY <1>8 DEF Visit
  <2>4. Requests' /\ Orphans' = Orphans
    BY <2>2, <2>3 DEF Requests, Orphans
  <2> QED
    BY <2>2, <2>4 DEF Calm
<1> QED
  BY <1>4, <1>5, <1>6, <1>7, <1>8 DEF DashboardNext

LEMMA FStep == FInv /\ ConnTyped /\ [Next]_vars => FInv'
<1> SUFFICES ASSUME FInv, ConnTyped, [Next]_vars
             PROVE  FInv'
  OBVIOUS
<1>1. CASE Next
  BY <1>1, ServerStep, DashboardStep DEF Next
<1>2. CASE UNCHANGED vars
  BY <1>2 DEF vars, serverVars, clients, stores, FInv, Requests, Calm, Orphans
<1> QED
  BY <1>1, <1>2

LEMMA FImplies == FInv => FailureHasCause
BY DEF FInv, Calm, FailureHasCause

\* As long as no connection and no query has failed and every virtue's row
\* names a valor that has a row, the process of index.js lives, every request is
\* answered and no error text is taken for rows, whichever requests come first.
THEOREM FailureHasCauseAlways == Spec => []FailureHasCause
<1>1. Init => FInv /\ ConnTyped
  BY FInit, ConnInit
<1>2. FInv /\ ConnTyped /\ [Next]_vars => FInv' /\ ConnTyped'
  BY FStep, ConnStep
<1>3. FInv => FailureHasCause
  BY FImplies
<1> QED
  BY <1>1, <1>2, <1>3, PTL DEF Spec
=============================================================================
