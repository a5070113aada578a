-------------------------- MODULE BlueForceDashboards --------------------------
(***************************************************************************)
(* The Angular pages of the Blue Force Tracker, which ask the server for   *)
(* what they show: some of it once, some of it again every ten seconds.    *)
(*                                                                         *)
(* A page that is left is destroyed, but its subscriptions to the timer    *)
(* are not: it goes on asking, and its answers go nowhere.                 *)
(***************************************************************************)
EXTENDS BlueForceHttp

CONSTANTS
    Visited,        \* bound: the pages the operator visits
    EndsInU,        \* identifiers whose last letter is a u
    Quoted,         \* identifiers that hold an apostrophe
    Clipped,        \* such an identifier without its last letter
    Unreadable,     \* 'ERROR_PROCESSING_JSON'
    Placeholder,    \* the bar that the users page starts with
    MaxVisits,      \* bound: pages opened after the first
    MaxSelections   \* bound: rows selected or unselected

ASSUME DashboardAssumption ==
    /\ Visited \subseteq Views
    /\ MaxVisits \in Nat /\ MaxSelections \in Nat

VARIABLES
    shown,      \* the page on the screen: its charts, its table, the virtue selected
    due,        \* what ngOnInit or a selection has subscribed to and not yet asked
    left,       \* the pages that were left and still poll
    visits, selections  \* bound the model only

dashboardVars == <<shown, due, left, visits, selections>>

(***************************************************************************)
(* The pages: the routes of their bar chart and table, the slots that the  *)
(* timer refreshes, and whether the lists in the table's rows are parsed.  *)
(***************************************************************************)

ReadmePage == [bar |-> None, table |-> None, polled |-> {}, parsed |-> FALSE]

\* Its line graph is of all virtues, or of the one selected.
VirtuesPage ==
    [bar |-> "migrations_per_virtue", table |-> "virtues", polled |-> Slots, parsed |-> TRUE]

ValorsPage ==
    [bar |-> "virtues_per_valor", table |-> "valors", polled |-> {"bar", "table"}, parsed |-> FALSE]

RolesPage ==
    [bar |-> "virtues_per_role", table |-> "roles", polled |-> {"bar", "table"}, parsed |-> TRUE]

UsersPage ==
    [bar |-> "virtues_per_role", table |-> "users", polled |-> {}, parsed |-> TRUE]

TransducersPage == [bar |-> None, table |-> "transducers", polled |-> {}, parsed |-> FALSE]

ApplicationsPage == [bar |-> None, table |-> "applications", polled |-> {}, parsed |-> FALSE]

ResourcesPage == [bar |-> None, table |-> "resources", polled |-> {}, parsed |-> FALSE]

Page(view) ==
    CASE view = "readme" -> ReadmePage
      [] view = "virtues" -> VirtuesPage
      [] view = "valors" -> ValorsPage
      [] view = "roles" -> RolesPage
      [] view = "users" -> UsersPage
      [] view = "transducers" -> TransducersPage
      [] view = "applications" -> ApplicationsPage
      [] view = "resources" -> ResourcesPage

\* Mutant of Polled: the tables of valors and roles are read once.
PollsCharts(view) ==
    IF view = "virtues" THEN Page(view).polled ELSE Page(view).polled \ {"table"}

\* The subscriptions to interval(10000).
Polled(view) == Page(view).polled

\* What ngOnInit subscribes to.
Filled(view) ==
    {slot \in {"bar", "table"} : Page(view)[slot] # None}
        \cup (IF view = "virtues" THEN {"line"} ELSE {})

LineRoute(selected) ==
    IF selected = Everything THEN "messages_per_virtue" ELSE "messages_per_type"

\* The route behind a chart or a table.
RouteOf(view, slot, selected) ==
    IF slot = "line" THEN LineRoute(selected) ELSE Page(view)[slot]

\* parseArray(s): the Python list in an entry becomes an array.  u' turns into '
\* wherever it stands, so that an identifier that ends in u loses it.
Parse(ids) ==
    IF ids \cap Quoted # {} THEN {Unreadable}
    ELSE {IF i \in EndsInU THEN Clipped ELSE i : i \in ids}

ParseTable(rows) == {[row EXCEPT !.of = Parse(@)] : row \in rows}

Opened(view) ==
    [view |-> view, table |-> NoData, line |-> NoData, selected |-> Everything,
     bar |-> IF view = "users" THEN Placeholder ELSE NoData]

DashboardInit ==
    /\ http = [q \in Request |-> None]
    /\ \E view \in Visited : shown = Opened(view) /\ due = Filled(view)
    /\ left = {}
    /\ visits = 0 /\ selections = 0

\* Mutant of Ask: the timer asks for the graph of all virtues.
AskForEverything(slot) ==
    /\ slot \in due \cup Polled(shown.view)
    /\ Unused # {}
    /\ LET arg == IF slot = "line" /\ slot \in due THEN shown.selected ELSE Everything
       IN  http' = [http EXCEPT ![NewRequest] =
              [of |-> "page", slot |-> slot, route |-> RouteOf(shown.view, slot, arg),
               arg |-> arg, at |-> "sent", answer |-> NoData]]
    /\ due' = due \ {slot}
    /\ UNCHANGED <<shown, left, visits, selections>>

\* DataService.get*: the page asks for what is due, or the timer ticks.
Ask(slot) ==
    /\ slot \in due \cup Polled(shown.view)
    /\ Unused # {}
    /\ LET arg == IF slot = "line" THEN shown.selected ELSE Everything
       IN  http' = [http EXCEPT ![NewRequest] =
              [of |-> "page", slot |-> slot, route |-> RouteOf(shown.view, slot, arg),
               arg |-> arg, at |-> "sent", answer |-> NoData]]
    /\ due' = due \ {slot}
    /\ UNCHANGED <<shown, left, visits, selections>>

\* The timer of a page that was left.
AskForLeft ==
    /\ Unused # {}
    /\ \E view \in left : \E slot \in Polled(view) :
          http' = [http EXCEPT ![NewRequest] =
             [of |-> "left", slot |-> slot, route |-> RouteOf(view, slot, Everything),
              arg |-> Everything, at |-> "sent", answer |-> NoData]]
    /\ UNCHANGED dashboardVars

\* The subscriber of the page stores the answer; what is not JSON is an error.
Receive(q) ==
    LET m == http[q]
        data == IF m.slot = "table" /\ Page(shown.view).parsed THEN ParseTable(m.answer) ELSE m.answer
    IN  /\ m # None /\ m.at \in Finished
        /\ shown' = IF m.of = "page" /\ m.at # "failed"
                    THEN [shown EXCEPT ![m.slot] = IF m.at = "misread" THEN Misread ELSE data]
                    ELSE shown
        /\ End(q)
        /\ UNCHANGED <<due, left, visits, selections>>

\* updateLineGraph, from onRowSelect and onRowUnselect.
Select(choice) ==
    /\ shown.view = "virtues"
    /\ choice = Everything \/ (shown.table # NoData /\ \E row \in shown.table : row.key = choice)
    /\ shown.selected # choice
    /\ selections < MaxSelections
    /\ selections' = selections + 1
    /\ shown' = [shown EXCEPT !.selected = choice]
    /\ due' = due \cup {"line"}
    /\ UNCHANGED <<http, left, visits>>

\* The router destroys a component and makes another.
Visit(view) ==
    /\ view # shown.view
    /\ visits < MaxVisits
    /\ visits' = visits + 1
    /\ shown' = Opened(view)
    /\ due' = Filled(view)
    /\ left' = IF Polled(shown.view) # {} THEN left \cup {shown.view} ELSE left
    /\ http' = [q \in Request |-> IF http[q] = None THEN None ELSE [http[q] EXCEPT !.of = "left"]]
    /\ UNCHANGED selections

DashboardNext ==
    \/ \E slot \in Slots : Ask(slot)
    \/ AskForLeft
    \/ \E q \in Request : Receive(q)
    \/ \E choice \in Virtue \cup {Everything} : Select(choice)
    \/ \E view \in Visited : Visit(view)
=============================================================================
