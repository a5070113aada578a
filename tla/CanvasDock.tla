------------------------------ MODULE CanvasDock ------------------------------
(***************************************************************************)
(* The dock of the Canvas (canvas/output.js): logging in through           *)
(* Excalibur, filling the dock with the applications of the user's roles,  *)
(* and opening one.                                                        *)
(*                                                                         *)
(* A click starts a chain of four requests; each answer's callback sends   *)
(* the next and looks at nothing in the answer but what it needs.  At the  *)
(* end ssh is started and the window loads its port at once.  The address  *)
(* ssh connects to is the one in the list of virtues, from before the      *)
(* launch.  Excalibur lets a user have one virtue of a role.               *)
(***************************************************************************)
EXTENDS Integers, Sequences, SequencesExt

CONSTANTS
    RoleList,     \* the user's roles in the order Excalibur lists them
    AppsOf,       \* role -> the applications it lists
    Docks,        \* the places index.html has in the dock
    Address,      \* guestnet addresses
    Null,         \* no address
    None,
    Failed,       \* what a window shows when its load failed
    MaxOpenings,  \* bound: clicks on applications
    MaxCallbacks, \* bound: visits of the page OAuth2 redirects to
    MaxStops      \* bound: virtues stopped

ASSUME DockAssumption ==
    /\ Docks \in Nat /\ MaxOpenings \in Nat /\ MaxCallbacks \in Nat /\ MaxStops \in Nat
    /\ RoleList \in Seq(DOMAIN AppsOf)
    /\ \A i, j \in 1..Len(RoleList) : RoleList[i] = RoleList[j] => i = j
    /\ Null \notin Address

VARIABLES
    login,     \* "button", then "frame" while the login page is there, then "gone"
    callbacks, \* visits so far
    asked,     \* lists of roles asked for
    icons,     \* <<role, application>> -> its icons in the dock
    openings,  \* the chains of requests, in the order of the clicks
    virtue,    \* role -> its virtue, as Excalibur and its stores know it
    ssh,       \* ssh processes that are connecting
    tunnel,    \* local port -> where the ssh that listens there leads, or None
    windows,   \* the windows in the order they were opened
    stops,     \* virtues stopped so far
    freed      \* an address was given back

dockVars == <<login, callbacks, asked, icons, openings, virtue, ssh, tunnel, windows, stops, freed>>
desktopVars == <<ssh, tunnel, windows>>

DockRole == Range(RoleList)
App == UNION {Range(AppsOf[r]) : r \in DockRole}
Icon == {ra \in DockRole \X App : Contains(AppsOf[ra[1]], ra[2])}
RoleIndex(role) == (CHOOSE i \in 1..Len(RoleList) : RoleList[i] = role) - 1
AppIndex(role, app) == (CHOOSE i \in 1..Len(AppsOf[role]) : AppsOf[role][i] = app) - 1

\* Mutant of LocalPort: the application is left out.
LocalPortOfRole(roleIndex, appIndex) == 10000 + 1000 * roleIndex

\* populateApps: the digits `1${roleIndex}${appIndex}00`, of indexes below 100.
LocalPort(roleIndex, appIndex) ==
    IF roleIndex < 10
    THEN IF appIndex < 10 THEN 10000 + 1000 * roleIndex + 100 * appIndex
         ELSE 100000 + 10000 * roleIndex + 100 * appIndex
    ELSE IF appIndex < 10 THEN 100000 + 1000 * roleIndex + 100 * appIndex
         ELSE 1000000 + 10000 * roleIndex + 100 * appIndex

PortOf(role, app) == LocalPort(RoleIndex(role), AppIndex(role, app))
Port == {PortOf(ra[1], ra[2]) : ra \in Icon}

\* The user's virtues exist; some may run, without an application.
DockInit ==
    /\ login = "button"
    /\ callbacks = 0
    /\ asked = 0
    /\ icons = [ra \in Icon |-> 0]
    /\ openings = <<>>
    /\ \E at \in [DockRole -> Address \cup {Null}] :
          /\ \A r, q \in DockRole : at[r] = at[q] /\ at[r] # Null => r = q
          /\ virtue = [r \in DockRole |->
                         [state |-> IF at[r] = Null THEN "STOPPED" ELSE "RUNNING",
                          address |-> at[r], listed |-> at[r], listedApps |-> {}, apps |-> {}]]
    /\ ssh = {}
    /\ tunnel = [p \in Port |-> None]
    /\ windows = <<>>
    /\ stops = 0
    /\ freed = FALSE

(***************************************************************************)
(* Logging in                                                              *)
(***************************************************************************)

\* login and checkOAuth: the button gives way to the page of Excalibur.
Login ==
    /\ login = "button"
    /\ login' = "frame"
    /\ UNCHANGED <<callbacks, asked, icons, openings, virtue, desktopVars, stops, freed>>

\* Mutant of Callback: the frame need not be there.
CallbackAgain(granted) ==
    /\ login # "button" /\ callbacks < MaxCallbacks
    /\ callbacks' = callbacks + 1
    /\ login' = "gone"
    /\ asked' = IF granted THEN asked + 1 ELSE asked
    /\ UNCHANGED <<icons, openings, virtue, desktopVars, stops, freed>>

\* executeExcaliburCallback: the second time the frame has no parent and the
\* first statement throws.  Denied, there is neither button nor dock.
Callback(granted) ==
    /\ login # "button" /\ callbacks < MaxCallbacks
    /\ callbacks' = callbacks + 1
    /\ login' = "gone"
    /\ asked' = IF login = "frame" /\ granted THEN asked + 1 ELSE asked
    /\ UNCHANGED <<icons, openings, virtue, desktopVars, stops, freed>>

\* addVirtuesToSideDock throws at the first role without a place; an error for
\* a list has no length, and nothing is added.
RolesAnswered(ok) ==
    /\ asked > 0
    /\ asked' = asked - 1
    /\ icons' = [ra \in Icon |-> IF ok /\ RoleIndex(ra[1]) < Docks
                                 THEN icons[ra] + 1 ELSE icons[ra]]
    /\ UNCHANGED <<login, callbacks, openings, virtue, desktopVars, stops, freed>>

(***************************************************************************)
(* Opening an application                                                  *)
(***************************************************************************)

\* openApp.
OpenApp(role, app) ==
    /\ icons[role, app] > 0
    /\ Len(openings) < MaxOpenings
    /\ openings' = Append(openings, [role |-> role, app |-> app, step |-> "list",
                                     ip |-> Null, known |-> FALSE])
    /\ UNCHANGED <<login, callbacks, asked, icons, virtue, desktopVars, stops, freed>>

Advance(i, from, to) ==
    /\ openings[i].step = from
    /\ openings' = [openings EXCEPT ![i].step = to]
    /\ UNCHANGED <<login, callbacks, asked, icons, desktopVars, stops>>

\* The address is taken from the list; an error has no virtues in it.
VirtuesAnswered(i) ==
    /\ openings[i].step = "list"
    /\ \/ openings' = [openings EXCEPT ![i].step = "launch",
                                       ![i].ip = virtue[openings[i].role].listed]
       \/ openings' = [openings EXCEPT ![i].step = "ended"]
    /\ UNCHANGED <<login, callbacks, asked, icons, virtue, desktopVars, stops, freed>>

InUse == {virtue[r].address : r \in {q \in DockRole : virtue[q].state # "STOPPED"}}

\* Excalibur launches a stopped virtue at a free address, and answers after it
\* is up or was given up; an error is answered at once, as is that a virtue
\* was launched before.
LaunchRequested(i) ==
    LET role == openings[i].role
    IN  \/ /\ virtue[role].state = "STOPPED"
           /\ \E a \in Address \ InUse :
                 virtue' = [virtue EXCEPT ![role].state = "LAUNCHING",
                                          ![role].address = a, ![role].listed = a]
           /\ Advance(i, "launch", "boot")
           /\ UNCHANGED freed
        \/ /\ Advance(i, "launch", "get")
           /\ UNCHANGED <<virtue, freed>>

\* Which of the applications it once ran start with the virtue is left to its
\* docker.
LaunchAnswered(i) ==
    LET role == openings[i].role
    IN  /\ Advance(i, "boot", "get")
        /\ \/ /\ \E apps \in SUBSET virtue[role].listedApps :
                    virtue' = [virtue EXCEPT ![role].state = "RUNNING", ![role].apps = apps]
              /\ UNCHANGED freed
           \/ /\ virtue' = [virtue EXCEPT ![role].state = "STOPPED", ![role].address = Null]
              /\ freed' = TRUE

\* The answer has the port of the application's own ssh, or is an error and has
\* neither port nor name.
ApplicationAnswered(i) ==
    /\ openings[i].step = "get"
    /\ \E known \in BOOLEAN :
          openings' = [openings EXCEPT ![i].step = "start", ![i].known = known]
    /\ UNCHANGED <<login, callbacks, asked, icons, virtue, desktopVars, stops, freed>>

\* virtue_application_launch: nothing is done for an application that is listed.
StartsIn(role, app) ==
    virtue' = IF virtue[role].state = "RUNNING" /\ app \notin virtue[role].listedApps
              THEN [virtue EXCEPT ![role].listedApps = @ \cup {app}, ![role].apps = @ \cup {app}]
              ELSE virtue

\* createTunnel and displayApp, whatever the answer was; without the name of
\* the application displayApp throws, and ssh ends for want of a port.
AppStarted(i) ==
    LET o == openings[i]
    IN  /\ o.step = "start"
        /\ openings' = [openings EXCEPT ![i].step = "ended"]
        /\ StartsIn(o.role, o.app) \/ UNCHANGED virtue
        /\ IF o.known
           THEN /\ ssh' = ssh \cup {[ip |-> o.ip, app |-> o.app, port |-> PortOf(o.role, o.app)]}
                /\ windows' = Append(windows, [role |-> o.role, app |-> o.app, shows |-> None])
           ELSE UNCHANGED <<ssh, windows>>
        /\ UNCHANGED <<login, callbacks, asked, icons, tunnel, stops, freed>>

(***************************************************************************)
(* Tunnels, loads and virtues that stop                                    *)
(***************************************************************************)

\* The ssh of an application answers at the address of its virtue; whoever
\* listens on the local port first keeps it.  Else ssh ends.
SshConnects(p) ==
    LET there == {r \in DockRole : /\ virtue[r].state = "RUNNING" /\ virtue[r].address = p.ip
                               /\ p.app \in virtue[r].apps}
    IN  /\ p \in ssh
        /\ ssh' = ssh \ {p}
        /\ IF there = {} \/ tunnel[p.port] # None
           THEN UNCHANGED tunnel
           ELSE \E r \in there :
                   tunnel' = [tunnel EXCEPT ![p.port] = [role |-> r, app |-> p.app, up |-> TRUE]]
        /\ UNCHANGED <<login, callbacks, asked, icons, openings, virtue, windows, stops, freed>>

\* The window loads its port once.
Load(w) ==
    LET at == tunnel[PortOf(windows[w].role, windows[w].app)]
    IN  /\ windows[w].shows = None
        /\ windows' = [windows EXCEPT ![w].shows =
                          IF at # None /\ at.up THEN <<at.role, at.app>> ELSE Failed]
        /\ UNCHANGED <<login, callbacks, asked, icons, openings, virtue, ssh, tunnel, stops, freed>>

\* virtue_stop, from another client: the entry keeps the address and the
\* applications.  An ssh into the virtue holds its port until it notices.
Stop(role) ==
    /\ virtue[role].state = "RUNNING" /\ stops < MaxStops
    /\ stops' = stops + 1
    /\ freed' = TRUE
    /\ virtue' = [virtue EXCEPT ![role].state = "STOPPED", ![role].address = Null,
                                ![role].apps = {}]
    /\ tunnel' = [p \in Port |-> IF tunnel[p] # None /\ tunnel[p].role = role
                                 THEN [tunnel[p] EXCEPT !.up = FALSE] ELSE tunnel[p]]
    /\ UNCHANGED <<login, callbacks, asked, icons, openings, ssh, windows>>

SshNotices(p) ==
    /\ tunnel[p] # None /\ ~tunnel[p].up
    /\ tunnel' = [tunnel EXCEPT ![p] = None]
    /\ UNCHANGED <<login, callbacks, asked, icons, openings, virtue, ssh, windows, stops, freed>>

DockNext ==
    \/ Login
    \/ \E answer \in BOOLEAN : Callback(answer) \/ RolesAnswered(answer)
    \/ \E ra \in Icon : OpenApp(ra[1], ra[2])
    \/ \E i \in 1..Len(openings) :
          \/ VirtuesAnswered(i) \/ LaunchRequested(i) \/ LaunchAnswered(i)
          \/ ApplicationAnswered(i) \/ AppStarted(i)
    \/ \E p \in ssh : SshConnects(p)
    \/ \E w \in 1..Len(windows) : Load(w)
    \/ \E r \in DockRole : Stop(r)
    \/ \E p \in Port : SshNotices(p)

DockSpec == DockInit /\ [][DockNext]_dockVars

(***************************************************************************)
(* Properties                                                              *)
(***************************************************************************)

\* However often the page of the redirect is visited, the dock is filled once.
DockFilledOnce ==
    /\ \A ra \in Icon : icons[ra] <= 1
    /\ asked > 0 => \A ra \in Icon : icons[ra] = 0

\* A window shows its own application or none, whatever tunnels are up and
\* however requests and ssh interleave; and it shows it in the virtue of its
\* own role as long as no virtue has given an address back.
WindowShowsItsApp ==
    \A w \in 1..Len(windows) :
        windows[w].shows \notin {None, Failed} =>
            /\ windows[w].shows[2] = windows[w].app
            /\ ~freed => windows[w].shows[1] = windows[w].role

\* Different applications of the dock have different local ports.
PortsDistinct ==
    \A a, b \in Icon : PortOf(a[1], a[2]) = PortOf(b[1], b[2]) => a = b
=============================================================================
