----------------------------- MODULE BlueForceHttp -----------------------------
(***************************************************************************)
(* What the two halves of the Blue Force Tracker share: the pages, the     *)
(* routes they ask for, and the HTTP requests between the browser          *)
(* (front_end) and the Express server (back_end/src/index.js).             *)
(***************************************************************************)
EXTENDS Naturals, FiniteSets

CONSTANTS
    Virtue,     \* virtues: rows of galahad and commands, entries of the directory
    Valor,      \* valors, by address
    Request,    \* numbers of the requests that can be outstanding at once (bound)
    NoData,     \* a chart or a table that was never filled
    Misread,    \* what is shown when the server took an error for data
    Everything, \* the line graph of all virtues, and a selection of none
    None

ASSUME HttpAssumption == IsFiniteSet(Request)

VARIABLE http   \* Request -> None or the request: which stage it is in, its answer

Views == {"readme", "virtues", "valors", "roles", "users", "transducers",
          "applications", "resources"}
Slots == {"bar", "table", "line"}

\* The routes of the server, by the store each one asks.
RethinkDBRoutes == {"virtues_per_valor", "migrations_per_virtue", "valors", "transducer_state"}
DirectoryRoutes == {"virtues", "roles", "users", "transducers", "applications", "resources"}
LDAPRoutes == DirectoryRoutes \cup {"virtues_per_role"}
ElasticsearchRoutes == {"number_messages", "all_messages", "messages_per_virtue",
                        "messages_per_virtue_per_type", "messages_per_type"}
Routes == RethinkDBRoutes \cup LDAPRoutes \cup ElasticsearchRoutes

\* An answer is data, or an error that the code took for data, or one it sent.
Finished == {"answered", "misread", "failed"}
Stages == {"sent", "connecting", "querying", "hung"} \cup Finished

\* Numbers mean nothing to the code: any that is free will do.
Unused == {q \in Request : http[q] = None}
NewRequest == CHOOSE q \in Unused : TRUE

InStage(q, stage) == http[q] # None /\ http[q].at = stage
To(q, stage) == http' = [http EXCEPT ![q].at = stage]
\* A request that ends in an error: no subscriber handles one.
End(q) == http' = [http EXCEPT ![q] = None]
AnswerWith(q, answer) == http' = [http EXCEPT ![q].at = "answered", ![q].answer = answer]
=============================================================================
