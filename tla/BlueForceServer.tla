---------------------------- MODULE BlueForceServer ----------------------------
(***************************************************************************)
(* The server of the Blue Force Tracker: back_end/src/index.js, and the    *)
(* stores it reads as far as it can tell.                                  *)
(*                                                                         *)
(* Node runs one callback at a time.  A route's handler gets a client of   *)
(* its store, cached in a variable of the program, sends a query, and      *)
(* answers from the callback.  A callback that throws ends the process;    *)
(* systemd (bft.service, Restart=always) starts it again with no clients.  *)
(***************************************************************************)
EXTENDS BlueForceHttp

CONSTANTS
    Role, RoleOf,   \* the role of each virtue (croleId)
    Ids,            \* directory route -> the identifiers its entries can have
    Item, Lists,    \* what the lists in an entry hold: of a virtue, its applications
    MaxChanges,     \* bound: what Excalibur writes to the stores
    MaxFaults       \* bound: connections refused or lost, and failed queries

ASSUME ServerAssumption ==
    /\ RoleOf \in [Virtue -> Role]
    /\ DOMAIN Ids = DirectoryRoutes
    /\ Lists \in [UNION {Ids[r] : r \in DirectoryRoutes} -> SUBSET Item]
    /\ Ids["virtues"] = Virtue
    /\ MaxChanges \in Nat /\ MaxFaults \in Nat

VARIABLES
    up,         \* the process runs
    ldapClient, \* the cached clients
    esClient,
    rdbConn,
    valors,     \* galahad: the addresses of the valors' rows
    at,         \* galahad: Virtue -> the address in its row
    moves,      \* commands: Virtue -> the length of its migration history, None if it has no row
    directory,  \* directory route -> the entries LDAP returns for it
    changes, faults \* bounds the model only; faults also tells if there was any

clients == <<ldapClient, esClient, rdbConn>>
stores == <<valors, at, moves, directory, changes>>
serverVars == <<up, clients, stores, faults>>

ServerInit ==
    /\ up = TRUE
    /\ ldapClient = "none" /\ esClient = "none" /\ rdbConn = "none"
    /\ valors = Valor
    /\ at \in [Virtue -> Valor \cup {None}]
    /\ moves \in [Virtue -> {None, 0}]
    /\ \A v \in Virtue : at[v] # None => moves[v] = 0
    /\ directory = Ids
    /\ changes = 0 /\ faults = 0

Fault == faults < MaxFaults /\ faults' = faults + 1

(***************************************************************************)
(* What a route computes                                                   *)
(***************************************************************************)

Row(key, n, of) == [key |-> key, n |-> n, of |-> of]

\* An entry of the directory: its identifier and its lists.
Entry(i) == Row(i, 0, Lists[i])

\* Virtues whose row names a valor that has no row.
Orphans == {v \in Virtue : at[v] # None /\ at[v] \notin valors}

Hosted(a) == {v \in Virtue : at[v] = a}

\* Mutant of Throws: one pass over the rows, in the order the table gives them.
ThrowsInOnePass(route) ==
    route \in {"virtues_per_valor", "valors"} /\ \E v \in Virtue : at[v] # None

\* valors[valor_ip]['virtues'] of a row that is not there.
Throws(route) == route \in {"virtues_per_valor", "valors"} /\ Orphans # {}

Computed(route) ==
    CASE route = "virtues_per_valor" -> {Row(a, Cardinality(Hosted(a)), {}) : a \in valors}
      [] route = "valors" -> {Row(a, 0, Hosted(a)) : a \in valors}
      [] route = "migrations_per_virtue" ->
           {Row(v, moves[v], {}) : v \in {w \in Virtue : moves[w] # None}}
      [] route = "virtues_per_role" ->
           LET having(o) == {v \in directory["virtues"] : RoleOf[v] = o}
           IN  {Row(o, Cardinality(having(o)), {}) : o \in {p \in Role : having(p) # {}}}
      [] route \in DirectoryRoutes -> {Entry(i) : i \in directory[route]}
      [] OTHER -> {}

\* The error text goes where the rows go: routes that aggregate walk over its
\* characters, the others send it.
OfError(route) ==
    IF route \in DirectoryRoutes \cup {"transducer_state"} THEN "failed" ELSE "misread"

(***************************************************************************)
(* Handlers and callbacks                                                  *)
(***************************************************************************)

\* A throw in a callback: what was accepted and not answered is reset.
Crash ==
    /\ up' = FALSE
    /\ ldapClient' = "none" /\ esClient' = "none" /\ rdbConn' = "none"
    /\ http' = [q \in Request |-> IF http[q] # None /\ http[q].at \in {"sent"} \cup Finished
                                  THEN http[q] ELSE None]

Refuse(q) ==
    /\ InStage(q, "sent") /\ ~ up
    /\ End(q)
    /\ UNCHANGED serverVars

\* connectRethinkDB; rdbConn is set when the connection stands, so that requests
\* that come before then connect too.
AcceptRethinkDB(q) ==
    /\ InStage(q, "sent") /\ up
    /\ http[q].route \in RethinkDBRoutes
    /\ To(q, IF rdbConn = "none" THEN "connecting" ELSE "querying")
    /\ UNCHANGED serverVars

\* connectElasticSearch; esClient is set before the ping is answered.
AcceptElasticsearch(q) ==
    /\ InStage(q, "sent") /\ up
    /\ http[q].route \in ElasticsearchRoutes
    /\ To(q, IF esClient = "none" THEN "connecting" ELSE "querying")
    /\ esClient' = "set"
    /\ UNCHANGED <<up, ldapClient, rdbConn, stores, faults>>

\* connectLDAP; ldapClient is set before the bind is answered.
AcceptLDAP(q) ==
    /\ InStage(q, "sent") /\ up
    /\ http[q].route \in LDAPRoutes
    /\ ldapClient # "lost"
    /\ To(q, IF ldapClient = "none" THEN "connecting" ELSE "querying")
    /\ ldapClient' = IF ldapClient = "none" THEN "binding" ELSE ldapClient
    /\ UNCHANGED <<up, esClient, rdbConn, stores, faults>>

\* search on a client whose connection was lost: ldapjs reports it, and
\* assert.ifError throws, or keeps the query for a connection that never comes.
AcceptOnLost(q) ==
    /\ InStage(q, "sent") /\ up
    /\ http[q].route \in LDAPRoutes
    /\ ldapClient = "lost"
    /\ Crash \/ (To(q, "hung") /\ UNCHANGED <<up, clients>>)
    /\ UNCHANGED <<stores, faults>>

\* The connection stands, the bind or the ping succeeded.
Connected(q) ==
    /\ InStage(q, "connecting")
    /\ To(q, "querying")
    /\ rdbConn' = IF http[q].route \in RethinkDBRoutes THEN "open" ELSE rdbConn
    /\ ldapClient' = IF http[q].route \in LDAPRoutes THEN "bound" ELSE ldapClient
    /\ UNCHANGED <<up, esClient, stores, faults>>

\* callback(null): the caller uses null.
ConnectFails(q) ==
    /\ InStage(q, "connecting")
    /\ Fault
    /\ Crash
    /\ UNCHANGED stores

\* A query on a connection that stands.
Healthy(route) ==
    /\ route \in RethinkDBRoutes => rdbConn = "open"
    /\ route \in LDAPRoutes => ldapClient # "lost"

Answer(q) ==
    LET m == http[q]
    IN  /\ InStage(q, "querying") /\ Healthy(m.route)
        /\ IF Throws(m.route)
           THEN Crash
           ELSE /\ AnswerWith(q, IF m.route \in ElasticsearchRoutes THEN m.arg ELSE Computed(m.route))
                /\ UNCHANGED <<up, clients>>
        /\ UNCHANGED <<stores, faults>>

\* A query fails.  Routes of Elasticsearch log it and answer nothing.
ReportError(q) ==
    To(q, IF http[q].route \in ElasticsearchRoutes THEN "hung" ELSE OfError(http[q].route))

QueryFails(q) ==
    /\ InStage(q, "querying") /\ Healthy(http[q].route)
    /\ Fault
    /\ ReportError(q)
    /\ UNCHANGED <<up, clients, stores>>

\* Every query on a connection that is gone fails, for as long as the process lives.
QueryOnClosed(q) ==
    /\ InStage(q, "querying") /\ ~ Healthy(http[q].route)
    /\ ReportError(q)
    /\ UNCHANGED serverVars

\* Node closes a connection that is idle for two minutes.
HungUp(q) ==
    /\ InStage(q, "hung")
    /\ End(q)
    /\ UNCHANGED serverVars

Restart ==
    /\ ~ up
    /\ up' = TRUE
    /\ UNCHANGED <<clients, stores, faults, http>>

(***************************************************************************)
(* The stores and the network                                              *)
(***************************************************************************)

LoseConnection ==
    /\ Fault
    /\ \/ ldapClient = "bound" /\ ldapClient' = "lost" /\ UNCHANGED rdbConn
       \/ rdbConn = "open" /\ rdbConn' = "closed" /\ UNCHANGED ldapClient
    /\ UNCHANGED <<up, esClient, stores, http>>

\* Excalibur and Gaius write rows.  A launch replaces the virtue's command, a stop
\* leaves it.  A row that names a missing valor is a fault.
WriteRows ==
    /\ \/ \E v \in Virtue, a \in valors :     \* virtue launched
             /\ at[v] = None
             /\ at' = [at EXCEPT ![v] = a] /\ moves' = [moves EXCEPT ![v] = 0]
             /\ UNCHANGED valors
       \/ \E v \in Virtue, a \in valors :     \* virtue migrated
             /\ at[v] \notin {a, None}
             /\ at' = [at EXCEPT ![v] = a] /\ moves' = [moves EXCEPT ![v] = @ + 1]
             /\ UNCHANGED valors
       \/ \E v \in Virtue :                   \* virtue stopped
             /\ at[v] # None
             /\ at' = [at EXCEPT ![v] = None]
             /\ UNCHANGED <<valors, moves>>
       \/ \E a \in valors :                   \* valor destroyed
             /\ valors' = valors \ {a}
             /\ UNCHANGED <<at, moves>>
    /\ IF Orphans' \subseteq Orphans THEN UNCHANGED faults ELSE Fault
    /\ UNCHANGED directory

WriteEntry ==
    /\ \E r \in DirectoryRoutes : \E i \in Ids[r] :
          directory' = [directory EXCEPT ![r] = IF i \in @ THEN @ \ {i} ELSE @ \cup {i}]
    /\ UNCHANGED <<valors, at, moves, faults>>

Write ==
    /\ changes < MaxChanges
    /\ changes' = changes + 1
    /\ WriteRows \/ WriteEntry
    /\ UNCHANGED <<up, clients, http>>

\* What the server does about one request.
Serve(q) ==
    \/ Refuse(q) \/ AcceptRethinkDB(q) \/ AcceptElasticsearch(q) \/ AcceptLDAP(q)
    \/ AcceptOnLost(q) \/ Connected(q) \/ Answer(q) \/ QueryOnClosed(q) \/ HungUp(q)

ServerNext ==
    \/ \E q \in Request : Serve(q) \/ ConnectFails(q) \/ QueryFails(q)
    \/ Restart \/ LoseConnection \/ Write
=============================================================================
