------------------------------ MODULE IconEngine ------------------------------
(***************************************************************************)
(* The icons of the Canvas: the engine of Font Awesome that index.html     *)
(* loads (fontawesome-all.js), under the defaults of its config and with   *)
(* every pack of icons defined before it starts.                           *)
(*                                                                         *)
(* The engine replaces each <i> that has the classes of an icon by an svg  *)
(* and watches the document.  The browser hands it the records of changes  *)
(* as soon as the running script ends; it computes replacements then and   *)
(* carries them out in the next animation frame.  When the classes of an   *)
(* svg change it sets data-icon, and that change replaces the svg.         *)
(***************************************************************************)
EXTENDS Naturals, Sequences, SequencesExt

CONSTANTS
    Place,    \* where the document can have an icon
    Static,   \* the places of the icons index.html is written with
    Page,     \* the classes an icon of the page is written with
    Pack,     \* <<style, icon>> -> its width in sixteenths of its height
    Missing,  \* the path of an icon that no pack has
    NoNode,   \* no element at a place
    NoMeta,   \* no replacement waits
    Absent    \* an attribute that is not set

ASSUME EngineAssumption == Static \subseteq Place

VARIABLES
    node,     \* Place -> the element there, or NoNode
    records,  \* changes the observer has not been told of
    waiting,  \* Place -> what the next frame replaces the element by, or NoMeta
    pending,  \* <html> has the class fontawesome-i2svg-pending
    started   \* bootstrap is over and the observer is on

engineVars == <<node, records, waiting, pending, started>>

(***************************************************************************)
(* Classes and elements.  A class is what the engine takes it for: a style *)
(* (fas, far, fab), an icon (fa-square), a width (fa-w-14), the mark of a  *)
(* replaced element (svg-inline--fa), or one of the page's own.            *)
(***************************************************************************)

Class(kind, of) == [kind |-> kind, of |-> of]
IconClass(name) == Class("icon", name)
Replacement == Class("replacement", Absent)

\* The classes of C in a list, in their order.
Only(classes, C) ==
    LET kept[n \in 0..Len(classes)] ==
            IF n = 0 THEN <<>>
            ELSE IF classes[n] \in C THEN Append(kept[n - 1], classes[n]) ELSE kept[n - 1]
    IN  kept[Len(classes)]

OfKind(classes, kind) == Only(classes, {c \in ToSet(classes) : c.kind = kind})

\* Each class of a kind takes the place of the one before it.
LastOf(classes, kind) ==
    LET found == OfKind(classes, kind)
    IN  IF found = <<>> THEN Absent ELSE found[Len(found)].of

\* classArray and getCanonicalIcon; no shims are loaded.
GetCanonicalIcon(classes) ==
    [prefix |-> LastOf(classes, "style"), name |-> LastOf(classes, "icon"),
     rest |-> OfKind(classes, "page")]

\* prefix and name are data-prefix and data-icon; drawn is the icon whose path
\* the svg has.
Element(tag, classes, prefix, name, drawn) ==
    [tag |-> tag, classes |-> classes, prefix |-> prefix, name |-> name, drawn |-> drawn]

Written(classes) == Element("i", classes, Absent, Absent, Absent)

\* Mutant of ParseMeta: the classes of the page are dropped.
ParseMetaBare(e) == [GetCanonicalIcon(e.classes) EXCEPT !.rest = <<>>]

\* parseMeta, by classParser: data-prefix and data-icon, where both are set, go
\* before the classes.
ParseMeta(e) ==
    LET val == GetCanonicalIcon(e.classes)
    IN  IF e.prefix # Absent /\ e.name # Absent
        THEN [val EXCEPT !.prefix = e.prefix, !.name = e.name] ELSE val

\* findIcon, with showMissingIcons.
FindIcon(prefix, name) ==
    IF <<prefix, name>> \in DOMAIN Pack
    THEN [path |-> name, width |-> Pack[<<prefix, name>>]]
    ELSE [path |-> Missing, width |-> 16]

\* makeInlineSvgAbstract, of generateSvgReplacementMutation.
Svg(meta) ==
    LET main == FindIcon(meta.prefix, meta.name)
    IN  Element("svg",
                <<Replacement, IconClass(meta.name), Class("width", main.width)>> \o meta.rest,
                meta.prefix, meta.name, main.path)

\* mutators.replace: an element that left the document has no parent.
Replace(e, meta) == IF e = NoNode THEN NoNode ELSE Svg(meta)

HasClass(e, kind) == \E c \in ToSet(e.classes) : c.kind = kind
IsReplaced(e) == HasClass(e, "replacement")

EngineInit ==
    /\ node = [p \in Place |-> IF p \in Static THEN Written(Page) ELSE NoNode]
    /\ records = <<>>
    /\ waiting = [p \in Place |-> NoMeta]
    /\ pending = FALSE
    /\ started = FALSE

\* Records come before any other script; a frame may come later.
Told == records = <<>>
Idle == Told /\ \A p \in Place : waiting[p] = NoMeta

(***************************************************************************)
(* What the page does to the document                                      *)
(***************************************************************************)

\* A node with an icon in it is appended to an element with the places
\* around it.
AddIcon(p, classes, around) ==
    /\ node' = [node EXCEPT ![p] = Written(classes)]
    /\ records' = Append(records, [type |-> "childList", places |-> around])
    /\ UNCHANGED <<waiting, pending, started>>

\* A node with an icon in it is taken out.
RemoveIcon(p) ==
    /\ node' = [node EXCEPT ![p] = NoNode]
    /\ UNCHANGED <<records, waiting, pending, started>>

\* classList.remove and classList.add: two records, alike and told together, for
\* which one stands.
SwapIcon(p, old, new) ==
    LET kept == Only(node[p].classes, ToSet(node[p].classes) \ {IconClass(old)})
    IN  /\ node' = [node EXCEPT ![p].classes =
                        IF Contains(kept, IconClass(new)) THEN kept
                        ELSE Append(kept, IconClass(new))]
        /\ records' = Append(records, [type |-> "class", places |-> {p}])
        /\ UNCHANGED <<waiting, pending, started>>

(***************************************************************************)
(* The engine                                                              *)
(***************************************************************************)

\* perform: replacements wait for a frame.  The first for an element wins, as
\* the later ones find it out of the document.
Perform(places) ==
    waiting' = [p \in Place |-> IF p \in places /\ waiting[p] = NoMeta
                                THEN ParseMeta(node[p]) ELSE waiting[p]]

\* onTree: every element that has a style and was not processed; an svg has none.
OnTree(places) ==
    LET candidates == {p \in places : node[p] # NoNode /\ HasClass(node[p], "style")}
    IN  /\ Perform(candidates)
        /\ pending' = (pending \/ candidates # {})

\* bootstrap: i2svg on the document, then the observer.
Bootstrap ==
    /\ ~started
    /\ OnTree(Place)
    /\ started' = TRUE
    /\ UNCHANGED <<node, records>>

TreeChanged(r) ==
    /\ r.type = "childList"
    /\ OnTree(r.places)
    /\ records' = Tail(records)
    /\ UNCHANGED <<node, started>>

\* Mutant of ClassChanged: data-icon is only given to an element without it.
ClassChangedOnce(r) ==
    /\ r.type = "class"
    /\ \E p \in r.places :
          LET name == GetCanonicalIcon(node[p].classes).name
          IN  IF IsReplaced(node[p]) /\ node[p].name = Absent
              THEN /\ node' = [node EXCEPT ![p].name = name]
                   /\ records' = Append(Tail(records), [type |-> "data", places |-> {p}])
              ELSE /\ records' = Tail(records)
                   /\ UNCHANGED node
    /\ UNCHANGED <<waiting, pending, started>>

\* The classes of an svg name no style, so that data-prefix stays.
ClassChanged(r) ==
    /\ r.type = "class"
    /\ \E p \in r.places :
          LET name == GetCanonicalIcon(node[p].classes).name
          IN  IF IsReplaced(node[p]) /\ name # Absent
              THEN /\ node' = [node EXCEPT ![p].name = name]
                   /\ records' = Append(Tail(records), [type |-> "data", places |-> {p}])
              ELSE /\ records' = Tail(records)
                   /\ UNCHANGED node
    /\ UNCHANGED <<waiting, pending, started>>

\* Mutant of DataChanged: data-icon is set here as well.
DataChangedSets(r) ==
    /\ r.type = "data"
    /\ Perform(r.places)
    /\ records' = Append(Tail(records), r)
    /\ UNCHANGED <<node, pending, started>>

\* onNode.
DataChanged(r) ==
    /\ r.type = "data"
    /\ Perform(r.places)
    /\ records' = Tail(records)
    /\ UNCHANGED <<node, pending, started>>

\* The observer takes its records in order.
Deliver ==
    /\ records # <<>>
    /\ LET r == Head(records)
       IN  TreeChanged(r) \/ ClassChanged(r) \/ DataChanged(r)

\* The replacements are carried out.  The records they cause are of replaced
\* elements that were added, which the observer ignores.
Frame ==
    /\ Told
    /\ \E p \in Place : waiting[p] # NoMeta
    /\ node' = [p \in Place |-> IF waiting[p] = NoMeta THEN node[p]
                                ELSE Replace(node[p], waiting[p])]
    /\ waiting' = [p \in Place |-> NoMeta]
    /\ pending' = FALSE
    /\ UNCHANGED <<records, started>>

(***************************************************************************)
(* Properties                                                              *)
(***************************************************************************)

\* When the engine has nothing left to do, each element is an svg whose classes,
\* data-icon and path are of one icon, and nothing is marked as pending.
IdleIsDrawn ==
    started /\ Idle =>
        /\ ~pending
        /\ \A p \in Place : node[p] # NoNode =>
              /\ node[p].tag = "svg"
              /\ node[p].drawn = node[p].name
              /\ node[p].drawn = GetCanonicalIcon(node[p].classes).name

\* Replacing an element over and over keeps the page's own classes and adds up
\* none of the engine's: the style of a window's button stays with it, and an
\* svg has one width, that of its icon once the engine is idle.
ClassesKept ==
    \A p \in Place : node[p] # NoNode =>
        LET widths == OfKind(node[p].classes, "width")
        IN  /\ OfKind(node[p].classes, "page") = OfKind(Page, "page")
            /\ Len(widths) = IF node[p].tag = "svg" THEN 1 ELSE 0
            /\ started /\ Idle => widths[1].of = Pack[<<node[p].prefix, node[p].name>>]

\* Whatever the page does, the engine comes to rest again and again: its own
\* changes of data-icon do not keep it busy.
EngineSettles == []<>Idle
=============================================================================
