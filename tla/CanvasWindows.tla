----------------------------- MODULE CanvasWindows -----------------------------
(***************************************************************************)
(* The windows of the Canvas desktop: the handlers of canvas/output.js     *)
(* that open, close, minimise, restore and maximise them.                  *)
(*                                                                         *)
(* A window is an element of #appArea, known to the handlers by its id,    *)
(* name_role; opening an application twice makes two elements with one id. *)
(* The name of the role also selects the drawer of the dock that takes     *)
(* the markers of minimised windows; index.html has drawers for the roles  *)
(* admin, editor and viewer only.  A handler that meets a missing element  *)
(* throws, and what it did before stays done.                              *)
(*                                                                         *)
(* Where a window is and what covers it is left out: no handler reads the  *)
(* z-index that bringToFront sets or the position that dragend sets.       *)
(***************************************************************************)
EXTENDS Integers, Sequences, SequencesExt

CONSTANTS
    Role,        \* roles, by name
    Id,          \* ids of windows: an application and a role
    DrawerRoles, \* the roles that have a drawer
    MaxWindows,  \* bound: windows ever opened
    MaxTimers,   \* bound: timers of one role running at once
    MaxCount     \* bound: a drawer's count

ASSUME WindowsAssumption ==
    /\ DrawerRoles \subseteq Role
    /\ \A id \in Id : id[2] \in Role
    /\ MaxWindows \in Nat /\ MaxTimers \in Nat /\ MaxCount \in Nat

VARIABLES
    ids,      \* the ids of the windows in the order they were opened
    attached, \* windows that are in the document
    hidden,   \* windows with style.display 'none'
    faded,    \* windows with class fadeOutRight
    big,      \* windows that fill the screen
    timers,   \* Role -> windows whose 300 ms timer runs, the oldest first
    markers,  \* drawer role -> ids of the markers in the drawer's list
    counts,   \* drawer role -> the count kept for it
    drawer,   \* drawer roles whose drawer is displayed
    open      \* drawer roles whose list of markers is displayed

windowVars == <<ids, attached, hidden, faded, big, timers, markers, counts, drawer, open>>

Windows == 1..Len(ids)
RoleOf(w) == ids[w][2]

WindowsInit ==
    /\ ids = <<>>
    /\ attached = {} /\ hidden = {} /\ faded = {} /\ big = {}
    /\ timers = [r \in Role |-> <<>>]
    /\ markers = [r \in DrawerRoles |-> <<>>]
    /\ counts = [r \in DrawerRoles |-> 0]
    /\ drawer = {} /\ open = {}

\* The animation ends out of the screen after 300 ms: then a faded window
\* cannot be clicked any more, whether or not it was hidden.
Clickable(w) ==
    /\ w \in attached /\ w \notin hidden
    /\ w \in faded => \E i \in 1..Len(timers[RoleOf(w)]) : timers[RoleOf(w)][i] = w

\* displayApp.
OpenWindow(id) ==
    /\ Len(ids) < MaxWindows
    /\ ids' = Append(ids, id)
    /\ attached' = attached \cup {Len(ids) + 1}
    /\ UNCHANGED <<hidden, faded, big, timers, markers, counts, drawer, open>>

ToggleMaximize(w) ==
    /\ Clickable(w)
    /\ big' = IF w \in big THEN big \ {w} ELSE big \cup {w}
    /\ UNCHANGED <<ids, attached, hidden, faded, timers, markers, counts, drawer, open>>

\* What becomes of a window out of the document matters to nobody, save that
\* its timer still runs.
CloseApp(w) ==
    /\ Clickable(w)
    /\ attached' = attached \ {w}
    /\ hidden' = hidden \ {w}
    /\ faded' = faded \ {w}
    /\ big' = big \ {w}
    /\ UNCHANGED <<ids, timers, markers, counts, drawer, open>>

\* Mutant of MinimizeApp: a window that fades already is not counted again.
MinimizeAppCountedOnce(w) ==
    LET role == RoleOf(w)
    IN  /\ Clickable(w)
        /\ Len(timers[role]) < MaxTimers
        /\ role \in DrawerRoles => counts[role] < MaxCount
        /\ faded' = faded \cup {w}
        /\ timers' = [timers EXCEPT ![role] = Append(@, w)]
        /\ counts' = IF role \in DrawerRoles /\ w \notin faded
                     THEN [counts EXCEPT ![role] = @ + 1] ELSE counts
        /\ UNCHANGED <<ids, attached, hidden, big, markers, drawer, open>>

\* The timer is set and the count goes up at once.  There is no count for a
\* role without a drawer, and the handler throws there.
MinimizeApp(w) ==
    LET role == RoleOf(w)
    IN  /\ Clickable(w)
        /\ Len(timers[role]) < MaxTimers
        /\ role \in DrawerRoles => counts[role] < MaxCount
        /\ faded' = faded \cup {w}
        /\ timers' = [timers EXCEPT ![role] = Append(@, w)]
        /\ counts' = IF role \in DrawerRoles THEN [counts EXCEPT ![role] = @ + 1] ELSE counts
        /\ UNCHANGED <<ids, attached, hidden, big, markers, drawer, open>>

\* Mutant of TimerFires: the marker goes to the list only when it is open.
TimerFiresIntoOpenList(role) ==
    /\ timers[role] # <<>>
    /\ timers' = [timers EXCEPT ![role] = Tail(@)]
    /\ IF role \in DrawerRoles
       THEN LET w == Head(timers[role])
            IN  /\ drawer' = drawer \cup {role}
                /\ hidden' = hidden \cup ({w} \cap attached)
                /\ markers' = IF role \in open THEN [markers EXCEPT ![role] = Append(@, ids[w])]
                              ELSE markers
       ELSE UNCHANGED <<drawer, hidden, markers>>
    /\ UNCHANGED <<ids, attached, faded, big, counts, open>>

\* The window is hidden and its marker appears, closed or not; without a drawer
\* the first statement throws.
TimerFires(role) ==
    /\ timers[role] # <<>>
    /\ timers' = [timers EXCEPT ![role] = Tail(@)]
    /\ IF role \in DrawerRoles
       THEN LET w == Head(timers[role])
            IN  /\ drawer' = drawer \cup {role}
                /\ hidden' = hidden \cup ({w} \cap attached)
                /\ markers' = [markers EXCEPT ![role] = Append(@, ids[w])]
       ELSE UNCHANGED <<drawer, hidden, markers>>
    /\ UNCHANGED <<ids, attached, faded, big, counts, open>>

ToggleMinimizedDrawer(role) ==
    /\ role \in drawer
    /\ open' = IF role \in open THEN open \ {role} ELSE open \cup {role}
    /\ UNCHANGED <<ids, attached, hidden, faded, big, timers, markers, counts, drawer>>

\* getElementById: the first element in the document with that id.
Matching(id) == {w \in attached : ids[w] = id}
First(ws) == CHOOSE w \in ws : \A u \in ws : w <= u

\* Mutant of HideDrawer: the last marker is counted before it is taken away.
HideDrawerEarly(role) == drawer' = IF counts[role] <= 2 THEN drawer \ {role} ELSE drawer

\* The drawer goes when the count reaches zero.
HideDrawer(role) == drawer' = IF counts[role] = 1 THEN drawer \ {role} ELSE drawer

\* A click on a marker takes it away; if its window was closed the handler
\* throws there, and the count and the drawer stay.
UnminimizeApp(role, i) ==
    LET id == markers[role][i]
        app == First(Matching(id))
    IN  /\ role \in drawer /\ role \in open
        /\ i \in 1..Len(markers[role])
        /\ markers' = [markers EXCEPT ![role] = RemoveAt(@, i)]
        /\ IF Matching(id) = {}
           THEN UNCHANGED <<hidden, faded, open, counts, drawer>>
           ELSE /\ hidden' = hidden \ {app}
                /\ faded' = faded \ {app}
                /\ open' = open \ {role}
                /\ counts' = [counts EXCEPT ![role] = @ - 1]
                /\ HideDrawer(role)
        /\ UNCHANGED <<ids, attached, big, timers>>

(***************************************************************************)
(* Properties                                                              *)
(***************************************************************************)

\* The state has the shape the handlers assume.
WindowsTypeOK ==
    /\ ids \in Seq(Id) /\ Len(ids) <= MaxWindows
    /\ attached \subseteq Windows
    /\ hidden \subseteq attached /\ faded \subseteq attached /\ big \subseteq attached
    /\ timers \in [Role -> Seq(Windows)]
    /\ markers \in [DrawerRoles -> Seq(Id)]
    /\ counts \in [DrawerRoles -> Int]
    /\ drawer \subseteq DrawerRoles /\ open \subseteq DrawerRoles

\* The count of a role is never less than the markers it has and is about to
\* get, although clicks on markers of closed windows leave it too high.
CountsCoverMarkers ==
    \A r \in DrawerRoles : counts[r] >= Len(markers[r]) + Len(timers[r])

\* A marker is always within reach: while a role has one, its drawer is
\* displayed, however minimising, restoring, closing and timers interleave.
DrawerShowsMarkers ==
    \A r \in DrawerRoles : markers[r] # <<>> => r \in drawer

\* A minimised window can be restored: if no other window was ever opened with
\* its id, one of the markers is for it.
MinimizedReachable ==
    \A w \in attached \cap hidden :
        (\A u \in Windows \ {w} : ids[u] # ids[w])
            => \E i \in 1..Len(markers[RoleOf(w)]) : markers[RoleOf(w)][i] = ids[w]
=============================================================================
