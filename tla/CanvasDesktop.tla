---------------------------- MODULE CanvasDesktop ----------------------------
(***************************************************************************)
(* The desktop of the Canvas: its windows (CanvasWindows) and the engine   *)
(* that draws their icons (IconEngine), which run in one thread.  A window *)
(* has one icon that changes, that of its maximise button: far fa-square,  *)
(* or far fa-clone while the window fills the screen.  Place 0 stands for  *)
(* the icons of index.html, place w for that of window w.                  *)
(*                                                                         *)
(* A user's event and a timer run when the observer has been told of the   *)
(* changes before them; frames come in between, sooner or later.           *)
(***************************************************************************)
EXTENDS CanvasWindows, IconEngine

VARIABLE hasty  \* windows maximised or restored while their icon waited for a frame

\* The icons of the button, and the classes, elements and replacements they
\* give rise to.
Button == {"square", "clone"}
Classes ==
    ToSet(Page) \cup {Replacement} \cup {IconClass(name) : name \in Button}
                \cup {Class("width", Pack[<<"far", name>>]) : name \in Button}
Elements ==
    [tag : {"i", "svg"}, classes : Seq(Classes), prefix : {"far", Absent},
     name : Button \cup {Absent}, drawn : Button \cup {Absent}]
Metas == [prefix : {"far"}, name : Button, rest : {OfKind(Page, "page")}]

\* The button is written as far fa-square, with classes of the page's own.
ASSUME DesktopAssumption ==
    /\ MaxWindows \in Nat /\ Place = 0..MaxWindows /\ Static = {0}
    /\ {<<"far", "square">>, <<"far", "clone">>} \subseteq DOMAIN Pack
    /\ Page \in Seq(ToSet(Page))
    /\ {Class("style", "far"), IconClass("square")} \subseteq ToSet(Page)
    /\ \A c \in ToSet(Page) :
          c.kind = "page" \/ c \in {Class("style", "far"), IconClass("square")}
    /\ NoNode \notin Elements /\ NoMeta \notin Metas /\ Absent \notin Button \cup {"far"}

vars == <<windowVars, engineVars, hasty>>

Init == WindowsInit /\ EngineInit /\ hasty = {}

Open(id) ==
    /\ started /\ Told
    /\ OpenWindow(id)
    /\ AddIcon(Len(ids) + 1, Page, 1..MaxWindows)
    /\ UNCHANGED hasty

\* Mutant of Maximize: the classes are changed one way only.
MaximizeOneWay(w) ==
    /\ Told
    /\ ToggleMaximize(w)
    /\ SwapIcon(w, "square", "clone")
    /\ hasty' = IF waiting[w] # NoMeta THEN hasty \cup {w} ELSE hasty \ {w}

\* toggleMaximizeApp as a whole.
Maximize(w) ==
    /\ Told
    /\ ToggleMaximize(w)
    /\ IF w \in big THEN SwapIcon(w, "clone", "square") ELSE SwapIcon(w, "square", "clone")
    /\ hasty' = IF waiting[w] # NoMeta THEN hasty \cup {w} ELSE hasty \ {w}

Close(w) ==
    /\ Told
    /\ CloseApp(w)
    /\ RemoveIcon(w)
    /\ hasty' = hasty \ {w}

\* Handlers that touch no icon that changes.
OtherHandler ==
    /\ Told
    /\ \/ \E w \in Windows : MinimizeApp(w)
       \/ \E role \in Role : TimerFires(role)
       \/ \E role \in DrawerRoles :
             \/ ToggleMinimizedDrawer(role)
             \/ \E i \in 1..Len(markers[role]) : UnminimizeApp(role, i)
    /\ UNCHANGED <<engineVars, hasty>>

Engine ==
    /\ Bootstrap \/ Deliver \/ Frame
    /\ UNCHANGED <<windowVars, hasty>>

Next ==
    \/ \E id \in Id : Open(id)
    \/ \E w \in Windows : Maximize(w) \/ Close(w)
    \/ OtherHandler
    \/ Engine

Spec == Init /\ [][Next]_vars

\* The browser hands over records at once and gives the page a frame however
\* many events it handles; the deferred script runs.
FairSpec ==
    /\ Spec
    /\ WF_vars((Bootstrap \/ Deliver) /\ UNCHANGED <<windowVars, hasty>>)
    /\ SF_vars(Frame /\ UNCHANGED <<windowVars, hasty>>)

(***************************************************************************)
(* Properties                                                              *)
(***************************************************************************)

\* The state has the shape the handlers and the engine assume.
TypeOK ==
    /\ WindowsTypeOK
    /\ node \in [Place -> Elements \cup {NoNode}]
    /\ waiting \in [Place -> Metas \cup {NoMeta}]
    /\ \A i \in 1..Len(records) : records[i].places \subseteq Place
    /\ pending \in BOOLEAN /\ started \in BOOLEAN
    /\ hasty \subseteq attached

\* When the engine is idle the button of a window shows what it will do, unless
\* it was last used while its icon waited for a frame.
IconMatchesWindow ==
    started /\ Idle =>
        \A w \in attached \ hasty :
            node[w].drawn = IF w \in big THEN "clone" ELSE "square"
=============================================================================
