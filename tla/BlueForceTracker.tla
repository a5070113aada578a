--------------------------- MODULE BlueForceTracker ---------------------------
(***************************************************************************)
(* The Blue Force Tracker: its pages, its server and the stores, composed. *)
(* The two halves share the HTTP requests and nothing else.                *)
(***************************************************************************)
EXTENDS BlueForceServer, BlueForceDashboards

CONSTANT MaxEvents  \* bound: faults, writes to the stores and visits, together

ASSUME TrackerAssumption == MaxEvents \in Nat

vars == <<http, serverVars, dashboardVars>>

Init == ServerInit /\ DashboardInit

Next ==
    /\ \/ ServerNext /\ UNCHANGED dashboardVars
       \/ DashboardNext /\ UNCHANGED serverVars
    /\ faults' + changes' + visits' <= MaxEvents

Spec == Init /\ [][Next]_vars

Progress(q) ==
    \/ Serve(q) /\ UNCHANGED dashboardVars
    \/ Receive(q) /\ UNCHANGED serverVars

\* Node and the network serve every request, systemd restarts the process, and
\* a timer of the page on the screen ticks again and again: it is held up only
\* by the bound on outstanding requests.
FairSpec ==
    /\ Spec
    /\ \A q \in Request : WF_vars(Progress(q))
    /\ WF_vars(Restart /\ UNCHANGED dashboardVars)
    /\ \A slot \in Slots : SF_vars(Ask(slot) /\ UNCHANGED serverVars)

(***************************************************************************)
(* Properties                                                              *)
(***************************************************************************)

\* The state has the shape the operators above assume.
TypeOK ==
    /\ \A q \in Request :
          \/ http[q] = None
          \/ /\ http[q].of \in {"page", "left"} /\ http[q].slot \in Slots
             /\ http[q].route \in Routes /\ http[q].at \in Stages
             /\ http[q].arg \in Virtue \cup {Everything}
             /\ (http[q].answer = NoData) = (http[q].at # "answered")
    /\ up \in BOOLEAN
    /\ ldapClient \in {"none", "binding", "bound", "lost"}
    /\ esClient \in {"none", "set"} /\ rdbConn \in {"none", "open", "closed"}
    /\ valors \subseteq Valor /\ at \in [Virtue -> Valor \cup {None}]
    /\ \A v \in Virtue : at[v] # None => moves[v] # None
    /\ shown.view \in Views /\ due \subseteq Filled(shown.view)
    /\ left \subseteq Visited /\ shown.selected \in Virtue \cup {Everything}

\* The tracker fails only when something fails it: as long as no connection and
\* no query has failed, and every virtue's row names a valor that has a row, the
\* process lives, every request is answered, and no error is taken for data -
\* whatever the order of first requests, binds, pings and rows.
FailureHasCause ==
    faults = 0 =>
        /\ up
        /\ \A q \in Request : http[q] # None => http[q].at \notin {"hung", "misread", "failed"}

Sound == <>[](Orphans = {} /\ rdbConn # "closed" /\ ldapClient # "lost")

\* The graph of events ends up being that of the virtue selected, whatever
\* order the answers for earlier selections come in.
GraphSettles ==
    Sound => <>[](shown.view = "virtues" => shown.line = shown.selected)

\* The charts and tables of the pages that refresh end up showing what the
\* stores hold, after faults, restarts and answers to older questions.
ViewsSettle ==
    Sound => <>[](shown.view \in {"virtues", "valors", "roles"} =>
                    \A slot \in {"bar", "table"} :
                       shown[slot] = Computed(RouteOf(shown.view, slot, Everything)))
=============================================================================
