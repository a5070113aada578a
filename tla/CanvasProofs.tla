----------------------------- MODULE CanvasProofs -----------------------------
(***************************************************************************)
(* Proofs about the Canvas.                                                *)
(*                                                                         *)
(* The desktop: a minimised window stays within reach, for any number of   *)
(* windows, roles and timers.  No property is inductive by itself: that a  *)
(* drawer which is hidden has no marker rests on the count, and that a     *)
(* hidden window has a marker rests on which roles have a drawer.  WInv is *)
(* their conjunction.                                                      *)
(*                                                                         *)
(* The icons of the windows: whatever the page does, the engine that draws *)
(* them comes to rest with the icons the page asked for.  EngineInv adds   *)
(* to that what is on its way meanwhile.                                   *)
(*                                                                         *)
(* The dock, which shares no variable with it: it is filled once, and a    *)
(* window shows the application it was opened for.                         *)
(***************************************************************************)
EXTENDS CanvasDesktop, CanvasDock, FiniteSetTheorems, SequenceTheorems, TLAPS

\* What the desktop does to the windows; the engine does nothing to them.
WindowsNext ==
    \/ \E id \in Id : OpenWindow(id)
    \/ \E w \in Windows : ToggleMaximize(w) \/ CloseApp(w) \/ MinimizeApp(w)
    \/ \E role \in Role : TimerFires(role)
    \/ \E role \in DrawerRoles :
          \/ ToggleMinimizedDrawer(role)
          \/ \E i \in 1..Len(markers[role]) : UnminimizeApp(role, i)

\* Only windows of roles with a drawer are hidden.
HiddenHaveDrawer == \A w \in hidden : RoleOf(w) \in DrawerRoles

\* The timers of a role are for its windows.
TimersOfRole == \A r \in Role : \A i \in 1..Len(timers[r]) : RoleOf(timers[r][i]) = r

WInv ==
    /\ WindowsTypeOK
    /\ TimersOfRole
    /\ CountsCoverMarkers
    /\ DrawerShowsMarkers
    /\ HiddenHaveDrawer
    /\ MinimizedReachable

LEMMA NextIsWindows == [Next]_vars => [WindowsNext]_windowVars
BY DEF Next, vars, Open, Maximize, Close, OtherHandler, Engine, WindowsNext

LEMMA WInit == Init => WInv
BY WindowsAssumption
   DEF Init, WindowsInit, WInv, WindowsTypeOK, CountsCoverMarkers, DrawerShowsMarkers,
       HiddenHaveDrawer, MinimizedReachable, TimersOfRole, Windows

\* What is left of a sequence without one of its elements.
LEMMA RemoveAtFacts ==
    ASSUME NEW S, NEW s \in Seq(S), NEW i \in 1..Len(s)
    PROVE  /\ RemoveAt(s, i) \in Seq(S)
           /\ Len(RemoveAt(s, i)) = Len(s) - 1
           /\ \A j \in 1..Len(s) : j # i =>
                 \E k \in 1..Len(RemoveAt(s, i)) : RemoveAt(s, i)[k] = s[j]
<1> DEFINE before == SubSeq(s, 1, i - 1)
           after == SubSeq(s, i + 1, Len(s))
<1>1. /\ before \in Seq(S) /\ Len(before) = i - 1
      /\ \A j \in 1..(i - 1) : before[j] = s[j]
  <2>1. \A j \in 1..(i - 1) : s[j] \in S
    OBVIOUS
  <2> QED
    BY <2>1, SubSeqProperties
<1>2. /\ after \in Seq(S) /\ Len(after) = Len(s) - i
      /\ \A j \in 1..(Len(s) - i) : after[j] = s[i + j]
  <2>1. \A j \in (i + 1)..Len(s) : s[j] \in S
    OBVIOUS
  <2>2. /\ after \in Seq(S)
        /\ Len(after) = IF i + 1 <= Len(s) THEN Len(s) - (i + 1) + 1 ELSE 0
        /\ \A j \in 1..(Len(s) - (i + 1) + 1) : after[j] = s[i + 1 + j - 1]
    BY <2>1, SubSeqProperties
  <2>3. Len(s) \in Nat /\ i \in Nat
    OBVIOUS
  <2> HIDE DEF after
  <2>4. Len(after) = Len(s) - i
    BY <2>2, <2>3
  <2>5. ASSUME NEW j \in 1..(Len(s) - i) PROVE after[j] = s[i + j]
    <3>1. j \in 1..(Len(s) - (i + 1) + 1) /\ i + 1 + j - 1 = i + j
      BY <2>3
    <3> QED
      BY <3>1, <2>2
  <2> QED
    BY <2>2, <2>4, <2>5
<1>3. RemoveAt(s, i) = before \o after
  BY DEF RemoveAt
<1> HIDE DEF before, after
<1>4. /\ before \o after \in Seq(S) /\ Len(before \o after) = Len(s) - 1
      /\ \A k \in 1..(Len(s) - 1) :
            (before \o after)[k] = IF k <= i - 1 THEN before[k] ELSE after[k - (i - 1)]
  BY <1>1, <1>2, ConcatProperties
<1>5. ASSUME NEW j \in 1..Len(s), j # i
      PROVE  \E k \in 1..(Len(s) - 1) : (before \o after)[k] = s[j]
  <2>1. Len(s) \in Nat /\ i \in Nat /\ j \in Nat
    OBVIOUS
  <2>2. CASE j < i
    <3>1. j \in 1..(i - 1) /\ j \in 1..(Len(s) - 1) /\ j <= i - 1
      BY <2>1, <2>2
    <3> QED
      BY <3>1, <1>1, <1>4
  <2>3. CASE j > i
    <3>1. /\ j - 1 \in 1..(Len(s) - 1) /\ ~(j - 1 <= i - 1)
          /\ j - i \in 1..(Len(s) - i) /\ j - 1 - (i - 1) = j - i /\ i + (j - i) = j
      BY <2>1, <2>3
    <3>2. (before \o after)[j - 1] = after[j - i]
      BY <3>1, <1>4
    <3>3. after[j - i] = s[j]
      BY <3>1, <1>2
    <3> QED
      BY <3>1, <3>2, <3>3
  <2>4. j < i \/ j > i
    BY <1>5, <2>1
  <2> QED
    BY <2>2, <2>3, <2>4
<1> QED
  BY <1>3, <1>4, <1>5

LEMMA OpenWindowKeeps == ASSUME WInv, NEW id \in Id, OpenWindow(id) PROVE WInv'
<1> DEFINE n == Len(ids) + 1
<1>1. /\ ids \in Seq(Id) /\ Len(ids) \in Nat /\ Len(ids) < MaxWindows
      /\ attached \subseteq Windows /\ hidden \subseteq attached /\ faded \subseteq attached
      /\ big \subseteq attached /\ timers \in [Role -> Seq(Windows)]
      /\ MaxWindows \in Nat
  BY WindowsAssumption DEF WInv, WindowsTypeOK, OpenWindow
<1>2. /\ ids' \in Seq(Id) /\ Len(ids') = n /\ n \in Nat /\ n <= MaxWindows
      /\ \A w \in Windows : ids'[w] = ids[w]
      /\ ids'[n] = id
  BY <1>1, AppendProperties DEF OpenWindow, Windows
<1>3. Windows' = Windows \cup {n} /\ n \notin Windows
  BY <1>1, <1>2 DEF Windows
<1>4. attached' = attached \cup {n}
  BY DEF OpenWindow
<1>5. timers' \in [Role -> Seq(Windows')]
  <2>1. \A r \in Role : timers[r] \in Seq(Windows')
    BY <1>1, <1>3
  <2> QED
    BY <2>1, <1>1 DEF OpenWindow
<1>6. WindowsTypeOK'
  BY <1>1, <1>2, <1>3, <1>4, <1>5 DEF WInv, WindowsTypeOK, OpenWindow
<1>7. CountsCoverMarkers' /\ DrawerShowsMarkers'
  BY DEF WInv, CountsCoverMarkers, DrawerShowsMarkers, OpenWindow
<1>8. \A w \in hidden : RoleOf(w)' = RoleOf(w) /\ w \in Windows
  BY <1>1, <1>2 DEF RoleOf
<1>9. HiddenHaveDrawer'
  BY <1>8 DEF WInv, HiddenHaveDrawer, OpenWindow
<1>10. TimersOfRole'
  <2> SUFFICES ASSUME NEW r \in Role, NEW i \in 1..Len(timers[r])
               PROVE  ids'[timers[r][i]][2] = r
    BY DEF TimersOfRole, RoleOf, OpenWindow
  <2>1. timers[r][i] \in Windows /\ ids[timers[r][i]][2] = r
    BY <1>1 DEF WInv, TimersOfRole, RoleOf
  <2> QED
    BY <2>1, <1>2
<1>11. MinimizedReachable'
  <2> SUFFICES ASSUME NEW w \in attached' \cap hidden',
                      \A u \in Windows' \ {w} : ids'[u] # ids'[w]
               PROVE  \E i \in 1..Len(markers'[RoleOf(w)']) :
                         markers'[RoleOf(w)'][i] = ids'[w]
    BY DEF MinimizedReachable
  <2>1. w \in attached \cap hidden /\ w \in Windows
    BY <1>1, <1>8 DEF OpenWindow
  <2>2. \A u \in Windows \ {w} : ids[u] # ids[w]
    BY <2>1, <1>2, <1>3
  <2>3. \E i \in 1..Len(markers[RoleOf(w)]) : markers[RoleOf(w)][i] = ids[w]
    BY <2>1, <2>2 DEF WInv, MinimizedReachable
  <2> QED
    BY <2>1, <2>3, <1>2, <1>8 DEF OpenWindow
<1> QED
  BY <1>6, <1>7, <1>9, <1>10, <1>11 DEF WInv

LEMMA ToggleMaximizeKeeps == ASSUME WInv, NEW w \in Windows, ToggleMaximize(w) PROVE WInv'
<1>1. WindowsTypeOK'
  BY DEF WInv, WindowsTypeOK, ToggleMaximize, Clickable, Windows
<1> QED
  BY <1>1 DEF WInv, TimersOfRole, CountsCoverMarkers, DrawerShowsMarkers, HiddenHaveDrawer,
              MinimizedReachable, RoleOf, Windows, ToggleMaximize

LEMMA CloseAppKeeps == ASSUME WInv, NEW w \in Windows, CloseApp(w) PROVE WInv'
<1>1. WindowsTypeOK'
  BY DEF WInv, WindowsTypeOK, CloseApp, Windows
<1>2. TimersOfRole' /\ CountsCoverMarkers' /\ DrawerShowsMarkers' /\ HiddenHaveDrawer'
  BY DEF WInv, TimersOfRole, CountsCoverMarkers, DrawerShowsMarkers, HiddenHaveDrawer,
         RoleOf, CloseApp
<1>3. MinimizedReachable'
  BY DEF WInv, MinimizedReachable, RoleOf, Windows, CloseApp
<1> QED
  BY <1>1, <1>2, <1>3 DEF WInv

\* A window that fades is counted together with its timer.
LEMMA MinimizeAppKeeps == ASSUME WInv, NEW w \in Windows, MinimizeApp(w) PROVE WInv'
<1> DEFINE role == RoleOf(w)
<1>1. /\ timers \in [Role -> Seq(Windows)] /\ counts \in [DrawerRoles -> Int]
      /\ markers \in [DrawerRoles -> Seq(Id)] /\ DrawerRoles \subseteq Role
      /\ role \in Role
  BY WindowsAssumption DEF WInv, WindowsTypeOK, RoleOf, Windows
<1>2. /\ timers' = [timers EXCEPT ![role] = Append(timers[role], w)]
      /\ counts' = IF role \in DrawerRoles THEN [counts EXCEPT ![role] = counts[role] + 1]
                   ELSE counts
      /\ markers' = markers /\ ids' = ids /\ hidden' = hidden /\ attached' = attached
      /\ drawer' = drawer
  BY DEF MinimizeApp
<1>3. /\ Append(timers[role], w) \in Seq(Windows)
      /\ Len(Append(timers[role], w)) = Len(timers[role]) + 1
      /\ \A i \in 1..Len(timers[role]) : Append(timers[role], w)[i] = timers[role][i]
      /\ Append(timers[role], w)[Len(timers[role]) + 1] = w
  BY <1>1, AppendProperties
<1> HIDE DEF role
<1>4. WindowsTypeOK'
  <2>1. timers' \in [Role -> Seq(Windows')] /\ counts' \in [DrawerRoles -> Int]
    BY <1>1, <1>2, <1>3 DEF Windows
  <2>2. faded' \subseteq attached'
    BY DEF WInv, WindowsTypeOK, MinimizeApp, Clickable
  <2> QED
    BY <2>1, <2>2 DEF WInv, WindowsTypeOK, MinimizeApp, Windows
<1>5. TimersOfRole'
  <2> SUFFICES ASSUME NEW r \in Role, NEW i \in 1..Len(timers'[r])
               PROVE  RoleOf(timers'[r][i]) = r
    BY <1>2 DEF TimersOfRole, RoleOf
  <2>1. CASE r # role
    BY <2>1, <1>1, <1>2 DEF WInv, TimersOfRole
  <2>2. CASE r = role
    <3>1. timers'[r] = Append(timers[role], w)
      BY <2>2, <1>1, <1>2
    <3>2. i \in 1..Len(timers[role]) \/ i = Len(timers[role]) + 1
      BY <3>1, <1>1, <1>3
    <3>3. RoleOf(w) = role
      BY DEF role
    <3> QED
      BY <2>2, <3>1, <3>2, <3>3, <1>3 DEF WInv, TimersOfRole
  <2> QED
    BY <2>1, <2>2
<1>6. CountsCoverMarkers'
  <2> SUFFICES ASSUME NEW r \in DrawerRoles
               PROVE  counts'[r] >= Len(markers[r]) + Len(timers'[r])
    BY <1>2 DEF CountsCoverMarkers
  <2>1. /\ counts[r] >= Len(markers[r]) + Len(timers[r]) /\ counts[r] \in Int
        /\ Len(markers[r]) \in Nat /\ Len(timers[r]) \in Nat
    BY <1>1 DEF WInv, CountsCoverMarkers
  <2>2. CASE r # role
    BY <2>1, <2>2, <1>1, <1>2
  <2>3. CASE r = role
    <3> DEFINE m == Len(markers[r])
               t == Len(timers[r])
               u == Len(timers'[r])
               c == counts[r]
               d == counts'[r]
    <3>1. d = c + 1 /\ u = t + 1
      BY <2>3, <1>1, <1>2, <1>3
    <3>2. c >= m + t /\ c \in Int /\ m \in Nat /\ t \in Nat
      BY <2>1
    <3>3. SUFFICES d >= m + u
      OBVIOUS
    <3> HIDE DEF m, t, u, c, d
    <3> QED
      BY <3>1, <3>2
  <2> QED
    BY <2>2, <2>3
<1>7. DrawerShowsMarkers' /\ HiddenHaveDrawer' /\ MinimizedReachable'
  BY <1>2 DEF WInv, DrawerShowsMarkers, HiddenHaveDrawer, MinimizedReachable, RoleOf, Windows
<1> QED
  BY <1>4, <1>5, <1>6, <1>7 DEF WInv

\* The marker of the window whose timer fires joins the list of its role.
LEMMA TimerFiresKeeps == ASSUME WInv, NEW role \in Role, TimerFires(role) PROVE WInv'
<1> DEFINE w == Head(timers[role])
           id == ids[w]
<1>1. /\ timers \in [Role -> Seq(Windows)] /\ counts \in [DrawerRoles -> Int]
      /\ markers \in [DrawerRoles -> Seq(Id)] /\ DrawerRoles \subseteq Role
      /\ timers[role] \in Seq(Windows) /\ timers[role] # <<>>
  BY WindowsAssumption DEF WInv, WindowsTypeOK, TimerFires
<1>2. /\ w \in Windows /\ id \in Id /\ RoleOf(w) = role
      /\ Tail(timers[role]) \in Seq(Windows)
      /\ Len(Tail(timers[role])) = Len(timers[role]) - 1
      /\ \A i \in 1..Len(Tail(timers[role])) : Tail(timers[role])[i] = timers[role][i + 1]
  <2>1. /\ w = timers[role][1] /\ 1 \in 1..Len(timers[role])
        /\ Tail(timers[role]) \in Seq(Windows)
        /\ Len(Tail(timers[role])) = Len(timers[role]) - 1
        /\ \A i \in 1..Len(Tail(timers[role])) : Tail(timers[role])[i] = timers[role][i + 1]
    BY <1>1, HeadTailProperties
  <2>2. w \in Windows /\ RoleOf(w) = role
    BY <2>1, <1>1 DEF WInv, TimersOfRole
  <2> QED
    BY <2>1, <2>2 DEF WInv, WindowsTypeOK, Windows
<1>3. /\ timers' = [timers EXCEPT ![role] = Tail(timers[role])]
      /\ ids' = ids /\ attached' = attached /\ faded' = faded /\ big' = big
      /\ counts' = counts /\ open' = open
  BY DEF TimerFires
<1>4. TimersOfRole'
  <2> SUFFICES ASSUME NEW r \in Role, NEW i \in 1..Len(timers'[r])
               PROVE  RoleOf(timers'[r][i]) = r
    BY <1>3 DEF TimersOfRole, RoleOf
  <2>1. CASE r # role
    BY <2>1, <1>1, <1>3 DEF WInv, TimersOfRole
  <2>2. CASE r = role
    <3>1. timers'[r] = Tail(timers[role])
      BY <2>2, <1>1, <1>3
    <3>2. i + 1 \in 1..Len(timers[role]) /\ timers'[r][i] = timers[role][i + 1]
      BY <3>1, <1>1, <1>2
    <3> QED
      BY <2>2, <3>2 DEF WInv, TimersOfRole
  <2> QED
    BY <2>1, <2>2
<1>5. timers' \in [Role -> Seq(Windows')]
  BY <1>1, <1>2, <1>3 DEF Windows
<1>6. \A r \in Role : /\ Len(timers'[r]) \in Nat /\ Len(timers[r]) \in Nat
                      /\ Len(timers'[r]) = IF r = role THEN Len(timers[r]) - 1
                                           ELSE Len(timers[r])
  BY <1>1, <1>2, <1>3, <1>5
<1>7. CASE role \notin DrawerRoles
  <2>1. drawer' = drawer /\ hidden' = hidden /\ markers' = markers
    BY <1>7 DEF TimerFires
  <2>2. WindowsTypeOK'
    BY <1>3, <1>5, <2>1 DEF WInv, WindowsTypeOK, Windows
  <2>3. CountsCoverMarkers'
    BY <1>1, <1>3, <1>6, <1>7, <2>1 DEF WInv, CountsCoverMarkers
  <2>4. DrawerShowsMarkers' /\ HiddenHaveDrawer' /\ MinimizedReachable'
    BY <1>3, <2>1 DEF WInv, DrawerShowsMarkers, HiddenHaveDrawer, MinimizedReachable,
                      RoleOf, Windows
  <2> QED
    BY <1>4, <2>2, <2>3, <2>4 DEF WInv
<1>8. CASE role \in DrawerRoles
  <2>1. /\ drawer' = drawer \cup {role} /\ hidden' = hidden \cup ({w} \cap attached)
        /\ markers' = [markers EXCEPT ![role] = Append(markers[role], id)]
    BY <1>8 DEF TimerFires
  <2>2. /\ Append(markers[role], id) \in Seq(Id)
        /\ Len(Append(markers[role], id)) = Len(markers[role]) + 1
        /\ \A i \in 1..Len(markers[role]) : Append(markers[role], id)[i] = markers[role][i]
        /\ Append(markers[role], id)[Len(markers[role]) + 1] = id
        /\ Len(markers[role]) \in Nat
    BY <1>1, <1>2, <1>8, AppendProperties
  <2> HIDE DEF w, id
  <2>3. markers' \in [DrawerRoles -> Seq(Id)]
    BY <1>1, <2>1, <2>2
  <2>4. WindowsTypeOK'
    BY <1>3, <1>5, <1>8, <2>1, <2>3 DEF WInv, WindowsTypeOK, Windows
  <2>5. CountsCoverMarkers'
    <3> SUFFICES ASSUME NEW r \in DrawerRoles
                 PROVE  counts[r] >= Len(markers'[r]) + Len(timers'[r])
      BY <1>3 DEF CountsCoverMarkers
    <3>1. /\ counts[r] >= Len(markers[r]) + Len(timers[r]) /\ counts[r] \in Int
          /\ Len(markers[r]) \in Nat /\ Len(timers[r]) \in Nat
      BY <1>1 DEF WInv, CountsCoverMarkers
    <3>2. CASE r # role
      <4>1. markers'[r] = markers[r] /\ Len(timers'[r]) = Len(timers[r])
        BY <3>2, <1>1, <1>6, <2>1
      <4> QED
        BY <3>1, <4>1, Zenon
    <3>3. CASE r = role
      <4> DEFINE m == Len(markers[r])
                 n == Len(markers'[r])
                 t == Len(timers[r])
                 u == Len(timers'[r])
                 c == counts[r]
      <4>1. n = m + 1 /\ u = t - 1
        BY <3>3, <1>1, <1>6, <2>1, <2>2
      <4>2. c >= m + t /\ c \in Int /\ m \in Nat /\ t \in Nat
        BY <3>1
      <4>3. SUFFICES c >= n + u
        OBVIOUS
      <4> HIDE DEF m, n, t, u, c
      <4> QED
        BY <4>1, <4>2
    <3> QED
      BY <3>2, <3>3
  <2>6. DrawerShowsMarkers'
    BY <1>1, <2>1 DEF WInv, DrawerShowsMarkers
  <2>7. HiddenHaveDrawer'
    BY <1>2, <1>3, <1>8, <2>1 DEF WInv, HiddenHaveDrawer, RoleOf
  <2>8. MinimizedReachable'
    <3> SUFFICES ASSUME NEW u \in attached \cap hidden',
                        \A v \in Windows \ {u} : ids[v] # ids[u]
                 PROVE  \E i \in 1..Len(markers'[RoleOf(u)]) : markers'[RoleOf(u)][i] = ids[u]
      BY <1>3 DEF MinimizedReachable, RoleOf, Windows
    <3>1. CASE u = w
      <4>1. RoleOf(u) = role /\ ids[u] = id
        BY <3>1, <1>2 DEF id
      <4>2. markers'[RoleOf(u)] = Append(markers[role], id)
        BY <4>1, <1>1, <1>8, <2>1
      <4>3. Len(markers[role]) + 1 \in 1..Len(markers'[RoleOf(u)])
        BY <4>2, <2>2
      <4> QED
        BY <4>1, <4>2, <4>3, <2>2
    <3>2. CASE u # w
      <4>1. PICK i \in 1..Len(markers[RoleOf(u)]) : markers[RoleOf(u)][i] = ids[u]
        BY <3>2, <2>1 DEF WInv, MinimizedReachable
      <4>2. CASE RoleOf(u) # role
        <5>1. markers'[RoleOf(u)] = markers[RoleOf(u)]
          BY <4>2, <2>1, <1>1
        <5> QED
          BY <4>1, <5>1
      <4>3. CASE RoleOf(u) = role
        <5>1. markers'[RoleOf(u)] = Append(markers[role], id)
          BY <4>3, <1>1, <1>8, <2>1
        <5>2. i \in 1..Len(markers'[RoleOf(u)]) /\ markers'[RoleOf(u)][i] = ids[u]
          BY <4>1, <4>3, <5>1, <2>2
        <5> QED
          BY <5>2
      <4> QED
        BY <4>2, <4>3
    <3> QED
      BY <3>1, <3>2
  <2> QED
    BY <1>4, <2>4, <2>5, <2>6, <2>7, <2>8 DEF WInv
<1> QED
  BY <1>7, <1>8

LEMMA ToggleDrawerKeeps ==
    ASSUME WInv, NEW role \in DrawerRoles, ToggleMinimizedDrawer(role)
    PROVE  WInv'
<1>1. WindowsTypeOK'
  BY DEF WInv, WindowsTypeOK, ToggleMinimizedDrawer, Windows
<1> QED
  BY <1>1 DEF WInv, TimersOfRole, CountsCoverMarkers, DrawerShowsMarkers, HiddenHaveDrawer,
              MinimizedReachable, RoleOf, Windows, ToggleMinimizedDrawer

\* A click takes one marker away.  If that was the marker of a window with an
\* id of its own, the window is the one that is shown again.
LEMMA UnminimizeAppKeeps ==
    ASSUME WInv, NEW role \in DrawerRoles, NEW i \in 1..Len(markers[role]),
           UnminimizeApp(role, i)
    PROVE  WInv'
<1> DEFINE id == markers[role][i]
           app == First(Matching(id))
           rest == RemoveAt(markers[role], i)
<1>1. /\ timers \in [Role -> Seq(Windows)] /\ counts \in [DrawerRoles -> Int]
      /\ markers \in [DrawerRoles -> Seq(Id)] /\ markers[role] \in Seq(Id)
      /\ Len(markers[role]) \in Nat /\ DrawerRoles \subseteq Role
  BY WindowsAssumption DEF WInv, WindowsTypeOK
<1>2. /\ rest \in Seq(Id) /\ Len(rest) = Len(markers[role]) - 1
      /\ \A j \in 1..Len(markers[role]) : j # i =>
            \E k \in 1..Len(rest) : rest[k] = markers[role][j]
  BY <1>1, RemoveAtFacts
<1>3. /\ markers' = [markers EXCEPT ![role] = rest]
      /\ ids' = ids /\ attached' = attached /\ big' = big /\ timers' = timers
  BY DEF UnminimizeApp
<1>4. \/ /\ Matching(id) = {}
         /\ UNCHANGED <<hidden, faded, open, counts, drawer>>
      \/ /\ hidden' = hidden \ {app} /\ faded' = faded \ {app} /\ open' = open \ {role}
         /\ counts' = [counts EXCEPT ![role] = counts[role] - 1]
         /\ drawer' = IF counts[role] = 1 THEN drawer \ {role} ELSE drawer
  BY DEF UnminimizeApp, HideDrawer
<1>5. /\ counts[role] >= Len(markers[role]) + Len(timers[role])
      /\ counts[role] \in Int /\ Len(timers[role]) \in Nat /\ Len(markers[role]) >= 1
  BY <1>1 DEF WInv, CountsCoverMarkers
<1>6. ASSUME NEW w \in Windows, w \in attached, w \in hidden', ids[w] = id,
             \A u \in Windows \ {w} : ids[u] # ids[w]
      PROVE  FALSE
  <2>1. Matching(id) = {w}
    BY <1>6 DEF WInv, WindowsTypeOK, Matching
  <2>2. First({w}) = w
    BY <1>6 DEF First, Windows
  <2> HIDE DEF id
  <2>3. app = w
    BY <2>1, <2>2
  <2> HIDE DEF app
  <2> QED
    BY <1>4, <1>6, <2>1, <2>3
<1> HIDE DEF id, app, rest
<1>7. \A r \in DrawerRoles : markers'[r] = IF r = role THEN rest ELSE markers[r]
  BY <1>1, <1>3
<1>8. WindowsTypeOK'
  <2>1. markers' \in [DrawerRoles -> Seq(Id)] /\ counts' \in [DrawerRoles -> Int]
    BY <1>1, <1>2, <1>3, <1>4, <1>5
  <2> QED
    BY <2>1, <1>3, <1>4 DEF WInv, WindowsTypeOK, Windows
<1>9. TimersOfRole'
  BY <1>3 DEF WInv, TimersOfRole, RoleOf
<1>10. CountsCoverMarkers'
  <2> SUFFICES ASSUME NEW r \in DrawerRoles
               PROVE  counts'[r] >= Len(markers'[r]) + Len(timers[r])
    BY <1>3 DEF CountsCoverMarkers
  <2> DEFINE m == Len(markers[r])
             n == Len(markers'[r])
             t == Len(timers[r])
             c == counts[r]
             d == counts'[r]
  <2>1. c >= m + t /\ c \in Int /\ m \in Nat /\ t \in Nat
    BY <1>1 DEF WInv, CountsCoverMarkers
  <2>2. (n = m /\ d = c) \/ (n = m - 1 /\ (d = c \/ d = c - 1))
    BY <1>1, <1>2, <1>4, <1>7
  <2>3. SUFFICES d >= n + t
    OBVIOUS
  <2> HIDE DEF m, n, t, c, d
  <2> QED
    BY <2>1, <2>2
<1>11. DrawerShowsMarkers'
  <2> SUFFICES ASSUME NEW r \in DrawerRoles, markers'[r] # <<>>
               PROVE  r \in drawer'
    BY DEF DrawerShowsMarkers
  <2>1. CASE r # role
    BY <2>1, <1>4, <1>7 DEF WInv, DrawerShowsMarkers
  <2>2. CASE r = role
    <3>1. Len(rest) # 0
      BY <2>2, <1>2, <1>7, EmptySeq
    <3>2. counts[role] # 1 /\ markers[role] # <<>>
      BY <3>1, <1>1, <1>2, <1>5
    <3> QED
      BY <2>2, <3>2, <1>4 DEF WInv, DrawerShowsMarkers
  <2> QED
    BY <2>1, <2>2
<1>12. HiddenHaveDrawer'
  BY <1>3, <1>4 DEF WInv, HiddenHaveDrawer, RoleOf
<1>13. MinimizedReachable'
  <2> SUFFICES ASSUME NEW w \in attached \cap hidden',
                      \A u \in Windows \ {w} : ids[u] # ids[w]
               PROVE  \E k \in 1..Len(markers'[RoleOf(w)]) : markers'[RoleOf(w)][k] = ids[w]
    BY <1>3 DEF MinimizedReachable, RoleOf, Windows
  <2>1. w \in Windows /\ w \in attached \cap hidden
    BY <1>4 DEF WInv, WindowsTypeOK
  <2>2. RoleOf(w) \in DrawerRoles
    BY <2>1 DEF WInv, HiddenHaveDrawer
  <2>3. PICK j \in 1..Len(markers[RoleOf(w)]) : markers[RoleOf(w)][j] = ids[w]
    BY <2>1 DEF WInv, MinimizedReachable
  <2>4. CASE RoleOf(w) # role
    <3>1. markers'[RoleOf(w)] = markers[RoleOf(w)]
      BY <2>2, <2>4, <1>7
    <3> QED
      BY <2>3, <3>1
  <2>5. CASE RoleOf(w) = role
    <3>1. j # i
      BY <1>6, <2>1, <2>3, <2>5 DEF id
    <3>2. markers'[RoleOf(w)] = rest
      BY <2>2, <2>5, <1>7
    <3> QED
      BY <2>3, <2>5, <3>1, <3>2, <1>2
  <2> QED
    BY <2>4, <2>5
<1> QED
  BY <1>8, <1>9, <1>10, <1>11, <1>12, <1>13 DEF WInv

LEMMA WStep == WInv /\ [WindowsNext]_windowVars => WInv'
<1> SUFFICES ASSUME WInv, [WindowsNext]_windowVars PROVE WInv'
  OBVIOUS
<1>1. CASE UNCHANGED windowVars
  BY <1>1 DEF windowVars, WInv, WindowsTypeOK, TimersOfRole, CountsCoverMarkers,
              DrawerShowsMarkers, HiddenHaveDrawer, MinimizedReachable, RoleOf, Windows
<1>2. ASSUME NEW id \in Id, OpenWindow(id) PROVE WInv'
  BY <1>2, OpenWindowKeeps
<1>3. ASSUME NEW w \in Windows, ToggleMaximize(w) \/ CloseApp(w) \/ MinimizeApp(w) PROVE WInv'
  BY <1>3, ToggleMaximizeKeeps, CloseAppKeeps, MinimizeAppKeeps
<1>4. ASSUME NEW role \in Role, TimerFires(role) PROVE WInv'
  BY <1>4, TimerFiresKeeps
<1>5. ASSUME NEW role \in DrawerRoles, ToggleMinimizedDrawer(role) PROVE WInv'
  BY <1>5, ToggleDrawerKeeps
<1>6. ASSUME NEW role \in DrawerRoles, NEW i \in 1..Len(markers[role]), UnminimizeApp(role, i)
      PROVE  WInv'
  BY <1>6, UnminimizeAppKeeps
<1> QED
  BY <1>1, <1>2, <1>3, <1>4, <1>5, <1>6 DEF WindowsNext

LEMMA WInvAlways == Spec => []WInv
<1>1. WInv /\ [Next]_vars => WInv'
  BY NextIsWindows, WStep
<1> QED
  BY WInit, <1>1, PTL DEF Spec

\* The state of the windows keeps its shape.
THEOREM WindowsTypeCorrect == Spec => []WindowsTypeOK
<1>1. WInv => WindowsTypeOK
  BY DEF WInv
<1> QED
  BY WInvAlways, <1>1, PTL

\* The count of a role is never too low: the drawer is not put away while a
\* marker is in it or on its way.
THEOREM CountsCoverMarkersAlways == Spec => []CountsCoverMarkers
<1>1. WInv => CountsCoverMarkers
  BY DEF WInv
<1> QED
  BY WInvAlways, <1>1, PTL

\* While a role has markers its drawer is displayed.
THEOREM DrawerShowsMarkersAlways == Spec => []DrawerShowsMarkers
<1>1. WInv => DrawerShowsMarkers
  BY DEF WInv
<1> QED
  BY WInvAlways, <1>1, PTL

\* A minimised window whose id is its own has a marker, whatever else was
\* minimised, restored or closed meanwhile.
THEOREM MinimizedReachableAlways == Spec => []MinimizedReachable
<1>1. WInv => MinimizedReachable
  BY DEF WInv
<1> QED
  BY WInvAlways, <1>1, PTL

(***************************************************************************)
(* Lists of classes.  Only is a function defined by recursion: what it does to *)
(* any list is shown by induction, for which a least number outside a set of *)
(* naturals comes from the library's order of finite sets, and from that a set *)
(* of sequences that has the empty one and grows by Append has them all.   *)
(***************************************************************************)

\* A set of naturals has a least one.
LEMMA NatMinimum ==
    ASSUME NEW T \in SUBSET Nat, T # {}
    PROVE  \E m \in T : \A k \in T : m <= k
<1> DEFINE F == {0..k : k \in T}
<1>1. F \subseteq FiniteSubsetsOf(Nat) /\ F # {}
  <2>1. \A k \in T : IsFiniteSet(0..k) /\ 0..k \subseteq Nat
    BY FS_Interval
  <2>2. QED
    BY <2>1 DEF FiniteSubsetsOf
<1>2. IsWellFoundedOn(StrictSubsetOrdering(Nat), FiniteSubsetsOf(Nat))
  BY FS_StrictSubsetOrderingWellFounded
<1>3. PICK x \in F : \A y \in F : <<y, x>> \notin StrictSubsetOrdering(Nat)
  <2> HIDE DEF F
  <2> QED
    BY <1>1, <1>2, WFMin
<1>4. PICK m \in T : x = 0..m
  OBVIOUS
<1>5. ASSUME NEW k \in T, k < m PROVE FALSE
  <2>1. 0..k \in F /\ 0..k \subseteq 0..m /\ m \in 0..m /\ m \notin 0..k
    BY <1>5
  <2>2. 0..k \in SUBSET Nat /\ 0..m \in SUBSET Nat
    OBVIOUS
  <2>3. <<0..k, 0..m>> \in StrictSubsetOrdering(Nat)
    BY <2>1, <2>2 DEF StrictSubsetOrdering
  <2>4. QED
    BY <1>3, <1>4, <2>1, <2>3
<1>6. QED
  BY <1>5

\* Induction over sequences.
LEMMA SeqInduction ==
    ASSUME NEW S, NEW Q \in SUBSET Seq(S), <<>> \in Q,
           \A s \in Q, c \in S : Append(s, c) \in Q
    PROVE  Q = Seq(S)
<1> SUFFICES ASSUME Q # Seq(S) PROVE FALSE
  OBVIOUS
<1> DEFINE T == {Len(s) : s \in Seq(S) \ Q}
<1>1. T \in SUBSET Nat /\ T # {}
  <2>1. \A s \in Seq(S) : Len(s) \in Nat
    OBVIOUS
  <2>2. PICK s \in Seq(S) : s \notin Q
    OBVIOUS
  <2>3. Len(s) \in T
    BY <2>2
  <2>4. QED
    BY <2>1, <2>3
<1>2. PICK m \in T : \A k \in T : m <= k
  <2> HIDE DEF T
  <2> QED
    BY <1>1, NatMinimum
<1>3. PICK s \in Seq(S) : s \notin Q /\ Len(s) = m
  OBVIOUS
<1>4. s # <<>>
  BY <1>3
<1>5. PICK t \in Seq(S), c \in S : s = Append(t, c)
  BY <1>4, SequenceEmptyOrAppend
<1>6. t \in Q
  <2>1. Len(t) \in Nat /\ Len(s) = Len(t) + 1
    BY <1>5
  <2>2. t \notin Q => Len(t) \in T
    OBVIOUS
  <2>3. Len(t) \in T => Len(s) <= Len(t)
    BY <1>2, <1>3
  <2>4. QED
    BY <2>1, <2>2, <2>3
<1>7. QED
  BY <1>3, <1>5, <1>6

\* What the recursion of Only does with the first n elements.
OnlyStep(s, C, f, n) ==
    IF n = 0 THEN <<>> ELSE IF s[n] \in C THEN Append(f[n - 1], s[n]) ELSE f[n - 1]

LEMMA OnlyExists ==
    ASSUME NEW s, NEW C, NEW N \in Nat
    PROVE  \E f : f = [n \in 0..N |-> OnlyStep(s, C, f, n)]
<1> DEFINE T == {k \in Nat : ~ \E f : f = [n \in 0..k |-> OnlyStep(s, C, f, n)]}
<1> SUFFICES ASSUME T # {} PROVE FALSE
  OBVIOUS
<1>1. PICK m \in T : \A k \in T : m <= k
  <2>1. T \in SUBSET Nat
    OBVIOUS
  <2> HIDE DEF T
  <2> QED
    BY <2>1, NatMinimum
<1>2. CASE m = 0
  <2>1. [n \in 0..0 |-> <<>>] = [n \in 0..0 |-> OnlyStep(s, C, [k \in 0..0 |-> <<>>], n)]
    BY DEF OnlyStep
  <2>2. QED
    BY <1>2, <2>1
<1>3. CASE m # 0
  <2>1. m - 1 \in Nat /\ m - 1 \notin T
    BY <1>1, <1>3
  <2>2. PICK f : f = [n \in 0..(m - 1) |-> OnlyStep(s, C, f, n)]
    BY <2>1
  <2> DEFINE g == [n \in 0..m |-> IF n = m THEN OnlyStep(s, C, f, m) ELSE f[n]]
  <2>3. \A n \in 0..m : g[n] = OnlyStep(s, C, g, n)
    <3> SUFFICES ASSUME NEW n \in 0..m PROVE g[n] = OnlyStep(s, C, g, n)
      OBVIOUS
    <3>1. n # 0 => n - 1 \in 0..(m - 1) /\ g[n - 1] = f[n - 1]
      BY <1>3
    <3>2. g[n] = OnlyStep(s, C, f, n)
      <4>1. CASE n = m
        BY <4>1
      <4>2. CASE n # m
        <5>1. n \in 0..(m - 1)
          BY <4>2
        <5>2. f[n] = OnlyStep(s, C, f, n)
          BY <2>2, <5>1
        <5>3. QED
          BY <4>2, <5>2
      <4>3. QED
        BY <4>1, <4>2
    <3>3. QED
      BY <3>1, <3>2 DEF OnlyStep
  <2>4. g = [n \in 0..m |-> OnlyStep(s, C, g, n)]
    <3> HIDE DEF g
    <3>1. g = [n \in 0..m |-> g[n]]
      BY DEF g
    <3>2. QED
      BY <2>3, <3>1
  <2>5. QED
    BY <2>4
<1>4. QED
  BY <1>2, <1>3

LEMMA OnlyIs ==
    ASSUME NEW S, NEW s \in Seq(S), NEW C
    PROVE  \E f : f = [n \in 0..Len(s) |-> OnlyStep(s, C, f, n)] /\ Only(s, C) = f[Len(s)]
<1> DEFINE h == CHOOSE f : f = [n \in 0..Len(s) |->
            IF n = 0 THEN <<>> ELSE IF s[n] \in C THEN Append(f[n - 1], s[n]) ELSE f[n - 1]]
<1>1. Only(s, C) = h[Len(s)]
  BY DEF Only
<1>2. h = [n \in 0..Len(s) |-> OnlyStep(s, C, h, n)]
  <2> DEFINE P(f) == f = [n \in 0..Len(s) |->
            IF n = 0 THEN <<>> ELSE IF s[n] \in C THEN Append(f[n - 1], s[n]) ELSE f[n - 1]]
  <2>1. \E f : P(f)
    <3>1. Len(s) \in Nat
      OBVIOUS
    <3>2. PICK f : f = [n \in 0..Len(s) |-> OnlyStep(s, C, f, n)]
      BY <3>1, OnlyExists
    <3>3. P(f)
      BY <3>2 DEF OnlyStep
    <3>4. QED
      BY <3>3
  <2>2. P(CHOOSE f : P(f))
    <3> HIDE DEF P
    <3> QED
      BY <2>1
  <2>3. QED
    BY <2>2 DEF OnlyStep
<1>3. QED
  BY <1>1, <1>2

\* What the recursion does for two sequences that begin alike.
LEMMA StepsAgree ==
    ASSUME NEW S, NEW s \in Seq(S), NEW t \in Seq(S), NEW C, NEW N \in Nat, NEW f, NEW g,
           N <= Len(s), N <= Len(t), \A i \in 1..N : s[i] = t[i],
           f = [n \in 0..Len(s) |-> OnlyStep(s, C, f, n)],
           g = [n \in 0..Len(t) |-> OnlyStep(t, C, g, n)]
    PROVE  f[N] = g[N]
<1> DEFINE T == {k \in 0..N : f[k] # g[k]}
<1>0. SUFFICES ASSUME T # {} PROVE FALSE
  <2>1. N \in 0..N
    OBVIOUS
  <2> QED
    BY <2>1, Zenon
<1>1. PICK m \in T : \A k \in T : m <= k
  <2>1. T \in SUBSET Nat
    OBVIOUS
  <2> HIDE DEF T
  <2> QED
    BY <1>0, <2>1, NatMinimum
<1>2. /\ m \in 0..Len(s) /\ m \in 0..Len(t)
      /\ f[m] = OnlyStep(s, C, f, m) /\ g[m] = OnlyStep(t, C, g, m)
  <2>1. Len(s) \in Nat /\ Len(t) \in Nat
    OBVIOUS
  <2>2. m \in 0..Len(s) /\ m \in 0..Len(t)
    BY <2>1
  <2>3. QED
    BY <2>2
<1>3. m # 0 => f[m - 1] = g[m - 1] /\ s[m] = t[m]
  <2>1. m \in 0..N
    OBVIOUS
  <2>2. m # 0 => m - 1 \in 0..N /\ m - 1 < m /\ m \in 1..N
    BY <2>1
  <2>3. m # 0 => m - 1 \notin T
    <3>1. m - 1 \in T => m <= m - 1
      BY <1>1
    <3>2. m \in Nat => ~ (m <= m - 1)
      OBVIOUS
    <3> QED
      BY <2>1, <3>1, <3>2
  <2>4. QED
    BY <2>2, <2>3
<1>4. f[m] = g[m]
  BY <1>2, <1>3 DEF OnlyStep
<1>5. QED
  BY <1>4

LEMMA OnlyEmpty == ASSUME NEW C PROVE Only(<<>>, C) = <<>>
<1>1. <<>> \in Seq({}) /\ Len(<<>>) = 0
  OBVIOUS
<1>2. PICK f : f = [n \in 0..0 |-> OnlyStep(<<>>, C, f, n)] /\ Only(<<>>, C) = f[0]
  BY <1>1, OnlyIs
<1>3. QED
  BY <1>2 DEF OnlyStep

LEMMA OnlyAppend ==
    ASSUME NEW S, NEW s \in Seq(S), NEW c \in S, NEW C
    PROVE  Only(Append(s, c), C) = IF c \in C THEN Append(Only(s, C), c) ELSE Only(s, C)
<1> DEFINE t == Append(s, c)
<1>1. /\ t \in Seq(S) /\ Len(t) = Len(s) + 1 /\ Len(s) \in Nat /\ t[Len(s) + 1] = c
      /\ \A i \in 1..Len(s) : t[i] = s[i]
  BY AppendProperties
<1> HIDE DEF t
<1>2. PICK f : f = [n \in 0..Len(s) |-> OnlyStep(s, C, f, n)] /\ Only(s, C) = f[Len(s)]
  BY OnlyIs
<1>3. PICK g : g = [n \in 0..Len(t) |-> OnlyStep(t, C, g, n)] /\ Only(t, C) = g[Len(t)]
  BY <1>1, OnlyIs
<1>4. g[Len(s)] = f[Len(s)]
  BY <1>1, <1>2, <1>3, StepsAgree
<1>5. Len(s) + 1 \in 0..Len(t)
  BY <1>1
<1>6. g[Len(s) + 1] = OnlyStep(t, C, g, Len(s) + 1)
  BY <1>3, <1>5
<1>7. OnlyStep(t, C, g, Len(s) + 1) = IF c \in C THEN Append(f[Len(s)], c) ELSE f[Len(s)]
  BY <1>1, <1>4 DEF OnlyStep
<1>8. QED
  BY <1>1, <1>2, <1>3, <1>6, <1>7 DEF t

\* What is kept are elements of C.
LEMMA OnlyType ==
    ASSUME NEW S, NEW s \in Seq(S), NEW C
    PROVE  Only(s, C) \in Seq(S \cap C)
<1> DEFINE Q == {t \in Seq(S) : Only(t, C) \in Seq(S \cap C)}
<1>1. <<>> \in Q
  <2>1. <<>> \in Seq(S) /\ <<>> \in Seq(S \cap C)
    BY EmptySeq
  <2>2. QED
    BY <2>1, OnlyEmpty
<1>2. \A t \in Q, c \in S : Append(t, c) \in Q
  <2> SUFFICES ASSUME NEW t \in Q, NEW c \in S PROVE Append(t, c) \in Q
    OBVIOUS
  <2>1. Only(Append(t, c), C) = IF c \in C THEN Append(Only(t, C), c) ELSE Only(t, C)
    BY OnlyAppend
  <2>2. c \in C => Append(Only(t, C), c) \in Seq(S \cap C)
    <3>1. Only(t, C) \in Seq(S \cap C)
      OBVIOUS
    <3>2. c \in C => c \in S \cap C
      OBVIOUS
    <3> QED
      BY <3>1, <3>2, AppendProperties
  <2>3. Append(t, c) \in Seq(S)
    OBVIOUS
  <2>4. QED
    BY <2>1, <2>2, <2>3
<1>3. Q \in SUBSET Seq(S)
  OBVIOUS
<1> HIDE DEF Q
<1>4. Q = Seq(S)
  BY <1>1, <1>2, <1>3, SeqInduction
<1>5. QED
  BY <1>4 DEF Q

LEMMA ConcatAppend ==
    ASSUME NEW S, NEW s \in Seq(S), NEW t \in Seq(S), NEW c \in S
    PROVE  s \o t \in Seq(S) /\ s \o Append(t, c) = Append(s \o t, c)
<1>1. <<c>> \in Seq(S)
  OBVIOUS
<1>2. Append(t, c) = t \o <<c>> /\ s \o t \in Seq(S)
  BY AppendIsConcat, ConcatProperties
<1>3. Append(s \o t, c) = (s \o t) \o <<c>>
  <2> DEFINE w == s \o t
  <2> HIDE DEF w
  <2>1. w \in Seq(S)
    BY <1>2 DEF w
  <2>2. Append(w, c) = w \o <<c>>
    BY <2>1, AppendIsConcat
  <2>3. QED
    BY <2>2 DEF w
<1>4. QED
  BY <1>1, <1>2, <1>3, ConcatAssociative

LEMMA OnlyConcat ==
    ASSUME NEW S, NEW s \in Seq(S), NEW u \in Seq(S), NEW C
    PROVE  Only(s \o u, C) = Only(s, C) \o Only(u, C)
<1> DEFINE Q == {t \in Seq(S) : Only(s \o t, C) = Only(s, C) \o Only(t, C)}
<1>1. <<>> \in Q
  <2>1. Only(s, C) \in Seq(S \cap C)
    BY OnlyType
  <2>2. QED
    BY <2>1, OnlyEmpty, ConcatEmptySeq
<1>2. \A t \in Q, c \in S : Append(t, c) \in Q
  <2> SUFFICES ASSUME NEW t \in Q, NEW c \in S PROVE Append(t, c) \in Q
    OBVIOUS
  <2>1. Only(Append(t, c), C) = IF c \in C THEN Append(Only(t, C), c) ELSE Only(t, C)
    BY OnlyAppend
  <2>2. s \o t \in Seq(S) /\ s \o Append(t, c) = Append(s \o t, c)
    BY ConcatAppend
  <2>3. Only(s \o Append(t, c), C)
           = IF c \in C THEN Append(Only(s \o t, C), c) ELSE Only(s \o t, C)
    <3> DEFINE w == s \o t
    <3>1. w \in Seq(S)
      BY <2>2
    <3> HIDE DEF w
    <3>2. Only(Append(w, c), C) = IF c \in C THEN Append(Only(w, C), c) ELSE Only(w, C)
      BY <3>1, OnlyAppend
    <3> QED
      BY <2>2, <3>2 DEF w
  <2>4. Only(s, C) \in Seq(S) /\ Only(t, C) \in Seq(S)
    <3>1. Only(s, C) \in Seq(S \cap C) /\ Only(t, C) \in Seq(S \cap C)
      BY OnlyType
    <3>2. QED
      BY <3>1, SeqMonotonic
  <2>5. Append(Only(s, C) \o Only(t, C), c) = Only(s, C) \o Append(Only(t, C), c)
    <3>1. \A a, b \in Seq(S) : Append(a \o b, c) = a \o Append(b, c)
      <4> HIDE DEF Q
      <4> SUFFICES ASSUME NEW a \in Seq(S), NEW b \in Seq(S)
                   PROVE  Append(a \o b, c) = a \o Append(b, c)
        OBVIOUS
      <4>1. a \o Append(b, c) = Append(a \o b, c)
        BY ConcatAppend
      <4> QED
        BY <4>1
    <3> QED
      BY <2>4, <3>1
  <2>6. Only(s \o t, C) = Only(s, C) \o Only(t, C) /\ Append(t, c) \in Seq(S)
    OBVIOUS
  <2> HIDE DEF Q
  <2>7. Only(s \o Append(t, c), C) = Only(s, C) \o Only(Append(t, c), C)
    BY <2>1, <2>3, <2>5, <2>6
  <2>8. QED
    BY <2>6, <2>7 DEF Q
<1>3. Q \in SUBSET Seq(S)
  OBVIOUS
<1> HIDE DEF Q
<1>4. Q = Seq(S)
  BY <1>1, <1>2, <1>3, SeqInduction
<1>5. QED
  BY <1>4 DEF Q

\* Selecting twice is selecting what passes both.
LEMMA OnlyTwice ==
    ASSUME NEW S, NEW s \in Seq(S), NEW C, NEW D
    PROVE  Only(Only(s, C), D) = Only(s, C \cap D)
<1> DEFINE Q == {t \in Seq(S) : Only(Only(t, C), D) = Only(t, C \cap D)}
<1>1. <<>> \in Q
  BY OnlyEmpty
<1>2. \A t \in Q, c \in S : Append(t, c) \in Q
  <2> SUFFICES ASSUME NEW t \in Q, NEW c \in S PROVE Append(t, c) \in Q
    OBVIOUS
  <2>1. Only(Append(t, c), C) = IF c \in C THEN Append(Only(t, C), c) ELSE Only(t, C)
    BY OnlyAppend
  <2>2. Only(Append(t, c), C \cap D)
           = IF c \in C \cap D THEN Append(Only(t, C \cap D), c) ELSE Only(t, C \cap D)
    BY OnlyAppend
  <2>3. Only(t, C) \in Seq(S)
    <3>1. Only(t, C) \in Seq(S \cap C)
      BY OnlyType
    <3>2. QED
      BY <3>1, SeqMonotonic
  <2>4. Only(Append(Only(t, C), c), D)
           = IF c \in D THEN Append(Only(Only(t, C), D), c) ELSE Only(Only(t, C), D)
    BY <2>3, OnlyAppend
  <2>5. Only(Only(t, C), D) = Only(t, C \cap D) /\ Append(t, c) \in Seq(S)
    OBVIOUS
  <2> HIDE DEF Q
  <2>6. Only(Only(Append(t, c), C), D) = Only(Append(t, c), C \cap D)
    <3>1. CASE c \in C
      <4>1. Only(Append(t, c), C) = Append(Only(t, C), c)
        BY <2>1, <3>1
      <4>2. Only(Only(Append(t, c), C), D)
               = IF c \in D THEN Append(Only(t, C \cap D), c) ELSE Only(t, C \cap D)
        BY <2>4, <2>5, <4>1
      <4> QED
        BY <2>2, <3>1, <4>2
    <3>2. CASE c \notin C
      BY <2>1, <2>2, <2>5, <3>2
    <3> QED
      BY <3>1, <3>2
  <2>7. QED
    BY <2>5, <2>6 DEF Q
<1>3. Q \in SUBSET Seq(S)
  OBVIOUS
<1> HIDE DEF Q
<1>4. Q = Seq(S)
  BY <1>1, <1>2, <1>3, SeqInduction
<1>5. QED
  BY <1>4 DEF Q

\* Which elements matter are those that occur.
LEMMA OnlySame ==
    ASSUME NEW S, NEW s \in Seq(S), NEW C, NEW D, S \cap C = S \cap D
    PROVE  Only(s, C) = Only(s, D)
<1> DEFINE Q == {t \in Seq(S) : Only(t, C) = Only(t, D)}
<1>1. <<>> \in Q
  BY OnlyEmpty
<1>2. \A t \in Q, c \in S : Append(t, c) \in Q
  <2> SUFFICES ASSUME NEW t \in Q, NEW c \in S PROVE Append(t, c) \in Q
    OBVIOUS
  <2>1. Only(Append(t, c), C) = IF c \in C THEN Append(Only(t, C), c) ELSE Only(t, C)
    BY OnlyAppend
  <2>2. Only(Append(t, c), D) = IF c \in D THEN Append(Only(t, D), c) ELSE Only(t, D)
    BY OnlyAppend
  <2>3. QED
    BY <2>1, <2>2
<1>3. Q \in SUBSET Seq(S)
  OBVIOUS
<1> HIDE DEF Q
<1>4. Q = Seq(S)
  BY <1>1, <1>2, <1>3, SeqInduction
<1>5. QED
  BY <1>4 DEF Q

LEMMA OnlyAll ==
    ASSUME NEW S, NEW s \in Seq(S), NEW C, S \subseteq C
    PROVE  Only(s, C) = s
<1> DEFINE Q == {t \in Seq(S) : Only(t, C) = t}
<1>1. <<>> \in Q
  BY OnlyEmpty
<1>2. \A t \in Q, c \in S : Append(t, c) \in Q
  <2> SUFFICES ASSUME NEW t \in Q, NEW c \in S PROVE Append(t, c) \in Q
    OBVIOUS
  <2>1. Only(Append(t, c), C) = IF c \in C THEN Append(Only(t, C), c) ELSE Only(t, C)
    BY OnlyAppend
  <2>2. QED
    BY <2>1
<1>3. Q \in SUBSET Seq(S)
  OBVIOUS
<1> HIDE DEF Q
<1>4. Q = Seq(S)
  BY <1>1, <1>2, <1>3, SeqInduction
<1>5. QED
  BY <1>4 DEF Q

LEMMA ToSetFacts ==
    ASSUME NEW S, NEW s \in Seq(S), NEW c \in S
    PROVE  /\ ToSet(s) \subseteq S /\ s \in Seq(ToSet(s))
           /\ ToSet(Append(s, c)) = ToSet(s) \cup {c}
<1>1. /\ Append(s, c) \in Seq(S) /\ Len(Append(s, c)) = Len(s) + 1
      /\ \A i \in 1..Len(s) : Append(s, c)[i] = s[i]
      /\ Append(s, c)[Len(s) + 1] = c
  BY AppendProperties
<1>2. /\ s = [i \in 1..Len(s) |-> s[i]] /\ DOMAIN s = 1..Len(s) /\ Len(s) \in Nat
      /\ \A i \in 1..Len(s) : s[i] \in S
  OBVIOUS
<1>3. \A i \in 1..Len(s) : s[i] \in ToSet(s)
  BY <1>2 DEF ToSet
<1>4. s \in Seq(ToSet(s))
  <2> DEFINE T == ToSet(s)
  <2> HIDE DEF T
  <2>1. \A i \in 1..Len(s) : s[i] \in T
    BY <1>3 DEF T
  <2>2. s \in Seq(T)
    BY <1>2, <2>1
  <2> QED
    BY <2>2 DEF T
<1>5. ToSet(Append(s, c)) = ToSet(s) \cup {c}
  <2> DEFINE t == Append(s, c)
  <2> HIDE DEF t
  <2>1. DOMAIN t = 1..(Len(s) + 1)
    BY <1>1 DEF t
  <2>2. \A i \in 1..(Len(s) + 1) : i \in 1..Len(s) \/ i = Len(s) + 1
    BY <1>2
  <2>3. 1..Len(s) \subseteq 1..(Len(s) + 1) /\ Len(s) + 1 \in 1..(Len(s) + 1)
    BY <1>2
  <2>4. /\ \A i \in 1..Len(s) : t[i] = s[i]
        /\ t[Len(s) + 1] = c
    BY <1>1 DEF t
  <2>5. ToSet(t) = ToSet(s) \cup {c}
    BY <1>2, <2>1, <2>2, <2>3, <2>4 DEF ToSet
  <2> QED
    BY <2>5 DEF t
<1> QED
  BY <1>2, <1>4, <1>5 DEF ToSet

LEMMA ToSetOfSelf ==
    ASSUME NEW S, NEW s \in Seq(S)
    PROVE  s \in Seq(ToSet(s)) /\ ToSet(s) \subseteq S
<1>1. CASE S = {}
  BY <1>1 DEF ToSet
<1>2. CASE S # {}
  BY <1>2, ToSetFacts
<1> QED
  BY <1>1, <1>2

LEMMA ToSetEmpty == ToSet(<<>>) = {}
BY DEF ToSet

LEMMA OnlySet ==
    ASSUME NEW S, NEW s \in Seq(S), NEW C
    PROVE  ToSet(Only(s, C)) = ToSet(s) \cap C
<1> DEFINE Q == {t \in Seq(S) : ToSet(Only(t, C)) = ToSet(t) \cap C}
<1>1. <<>> \in Q
  BY OnlyEmpty, ToSetEmpty
<1>2. \A t \in Q, c \in S : Append(t, c) \in Q
  <2> SUFFICES ASSUME NEW t \in Q, NEW c \in S PROVE Append(t, c) \in Q
    OBVIOUS
  <2>1. Only(Append(t, c), C) = IF c \in C THEN Append(Only(t, C), c) ELSE Only(t, C)
    BY OnlyAppend
  <2>2. ToSet(Append(t, c)) = ToSet(t) \cup {c}
    BY ToSetFacts
  <2>3. c \in C => ToSet(Append(Only(t, C), c)) = ToSet(Only(t, C)) \cup {c}
    <3>1. Only(t, C) \in Seq(S \cap C)
      BY OnlyType
    <3> QED
      BY <3>1, ToSetFacts
  <2>4. ToSet(Only(t, C)) = ToSet(t) \cap C /\ Append(t, c) \in Seq(S)
    OBVIOUS
  <2> HIDE DEF Q
  <2> QED
    BY <2>1, <2>2, <2>3, <2>4 DEF Q
<1>3. Q \in SUBSET Seq(S)
  OBVIOUS
<1> HIDE DEF Q
<1>4. Q = Seq(S)
  BY <1>1, <1>2, <1>3, SeqInduction
<1>5. QED
  BY <1>4 DEF Q

LEMMA ToSetConcat ==
    ASSUME NEW S, NEW s \in Seq(S), NEW t \in Seq(S)
    PROVE  ToSet(s \o t) = ToSet(s) \cup ToSet(t)
<1> DEFINE u == s \o t
<1>1. /\ u \in Seq(S) /\ Len(u) = Len(s) + Len(t)
      /\ \A i \in 1..(Len(s) + Len(t)) : u[i] = IF i <= Len(s) THEN s[i] ELSE t[i - Len(s)]
  BY ConcatProperties
<1> HIDE DEF u
<1>2. /\ Len(s) \in Nat /\ Len(t) \in Nat
      /\ DOMAIN s = 1..Len(s) /\ DOMAIN t = 1..Len(t) /\ DOMAIN u = 1..(Len(s) + Len(t))
  BY <1>1
<1>3. \A i \in 1..Len(s) : i \in DOMAIN u /\ u[i] = s[i]
  BY <1>1, <1>2
<1>4. \A i \in 1..Len(t) : Len(s) + i \in DOMAIN u /\ u[Len(s) + i] = t[i]
  <2> SUFFICES ASSUME NEW i \in 1..Len(t)
               PROVE  Len(s) + i \in DOMAIN u /\ u[Len(s) + i] = t[i]
    OBVIOUS
  <2>1. /\ Len(s) + i \in 1..(Len(s) + Len(t)) /\ ~(Len(s) + i <= Len(s))
        /\ Len(s) + i - Len(s) = i
    BY <1>2
  <2> QED
    BY <1>1, <1>2, <2>1
<1>5. \A i \in DOMAIN u : u[i] \in ToSet(s) \cup ToSet(t)
  <2> SUFFICES ASSUME NEW i \in DOMAIN u PROVE u[i] \in ToSet(s) \cup ToSet(t)
    OBVIOUS
  <2>1. CASE i <= Len(s)
    BY <1>1, <1>2, <2>1 DEF ToSet
  <2>2. CASE ~(i <= Len(s))
    <3>1. i - Len(s) \in 1..Len(t) /\ u[i] = t[i - Len(s)]
      BY <1>1, <1>2, <2>2
    <3> QED
      BY <1>2, <3>1 DEF ToSet
  <2> QED
    BY <2>1, <2>2
<1>6. ToSet(u) = ToSet(s) \cup ToSet(t)
  <2>1. ToSet(u) \subseteq ToSet(s) \cup ToSet(t)
    <3> DEFINE M == ToSet(s) \cup ToSet(t)
    <3> HIDE DEF M
    <3>1. \A i \in DOMAIN u : u[i] \in M
      BY <1>5 DEF M
    <3>2. ToSet(u) \subseteq M
      BY <3>1 DEF ToSet
    <3> QED
      BY <3>2 DEF M
  <2>2. ToSet(s) \subseteq ToSet(u)
    BY <1>2, <1>3 DEF ToSet
  <2>3. ToSet(t) \subseteq ToSet(u)
    BY <1>2, <1>4 DEF ToSet
  <2> QED
    BY <2>1, <2>2, <2>3
<1> QED
  BY <1>6 DEF u

\* The classes of a kind, from among any classes an element can have.
LEMMA OfKindIs ==
    ASSUME NEW S, NEW s \in Seq(S), NEW k
    PROVE  OfKind(s, k) = Only(s, {c \in S : c.kind = k})
<1>1. ToSet(s) \subseteq S /\ s \in Seq(ToSet(s))
  BY ToSetOfSelf
<1>2. ToSet(s) \cap {c \in ToSet(s) : c.kind = k} = ToSet(s) \cap {c \in S : c.kind = k}
  BY <1>1
<1> QED
  BY <1>1, <1>2, OnlySame DEF OfKind

LEMMA OfKindAppend ==
    ASSUME NEW S, NEW s \in Seq(S), NEW c \in S, NEW k
    PROVE  OfKind(Append(s, c), k) = IF c.kind = k THEN Append(OfKind(s, k), c) ELSE OfKind(s, k)
<1>1. Append(s, c) \in Seq(S)
  OBVIOUS
<1>2. OfKind(Append(s, c), k) = Only(Append(s, c), {d \in S : d.kind = k})
  BY <1>1, OfKindIs
<1>3. OfKind(s, k) = Only(s, {d \in S : d.kind = k})
  BY OfKindIs
<1> QED
  BY <1>2, <1>3, OnlyAppend

LEMMA OfKindConcat ==
    ASSUME NEW S, NEW s \in Seq(S), NEW t \in Seq(S), NEW k
    PROVE  OfKind(s \o t, k) = OfKind(s, k) \o OfKind(t, k)
<1>1. s \o t \in Seq(S)
  OBVIOUS
<1>2. OfKind(s \o t, k) = Only(s \o t, {d \in S : d.kind = k})
  BY <1>1, OfKindIs
<1>3. /\ OfKind(s, k) = Only(s, {d \in S : d.kind = k})
      /\ OfKind(t, k) = Only(t, {d \in S : d.kind = k})
  BY OfKindIs
<1> QED
  BY <1>2, <1>3, OnlyConcat

LEMMA OfKindEmpty == ASSUME NEW k PROVE OfKind(<<>>, k) = <<>>
BY OnlyEmpty DEF OfKind

\* Classes all of one kind, or of none of it.
LEMMA OfKindAll ==
    ASSUME NEW S, NEW s \in Seq(S), NEW k
    PROVE  /\ (\A c \in S : c.kind = k) => OfKind(s, k) = s
           /\ (\A c \in S : c.kind # k) => OfKind(s, k) = <<>>
<1>1. OfKind(s, k) = Only(s, {c \in S : c.kind = k})
  BY OfKindIs
<1>2. ASSUME \A c \in S : c.kind = k PROVE OfKind(s, k) = s
  BY <1>1, <1>2, OnlyAll
<1>3. ASSUME \A c \in S : c.kind # k PROVE OfKind(s, k) = <<>>
  <2>1. Only(s, {c \in S : c.kind = k}) \in Seq(S \cap {c \in S : c.kind = k})
    BY OnlyType
  <2>2. S \cap {c \in S : c.kind = k} = {}
    BY <1>3
  <2>3. \A u \in Seq({}) : u = <<>>
    OBVIOUS
  <2> QED
    BY <1>1, <2>1, <2>2, <2>3
<1> QED
  BY <1>2, <1>3

\* Leaving out a class of another kind.
LEMMA OfKindWithout ==
    ASSUME NEW S, NEW s \in Seq(S), NEW d, NEW k, d.kind # k
    PROVE  OfKind(Only(s, ToSet(s) \ {d}), k) = OfKind(s, k)
<1> DEFINE C == ToSet(s) \ {d}
           K == {c \in S : c.kind = k}
<1>1. Only(s, C) \in Seq(S)
  <2>1. Only(s, C) \in Seq(S \cap C)
    BY OnlyType
  <2> QED
    BY <2>1, SeqMonotonic
<1>2. OfKind(Only(s, C), k) = Only(Only(s, C), K)
  <2> HIDE DEF C
  <2> QED
    BY <1>1, OfKindIs
<1>3. Only(Only(s, C), K) = Only(s, C \cap K)
  BY OnlyTwice
<1>4. Only(s, C \cap K) = Only(s, K)
  <2>1. s \in Seq(ToSet(s))
    BY ToSetOfSelf
  <2>2. ToSet(s) \cap (C \cap K) = ToSet(s) \cap K
    OBVIOUS
  <2> HIDE DEF C, K
  <2> QED
    BY <2>1, <2>2, OnlySame
<1>5. OfKind(s, k) = Only(s, K)
  BY OfKindIs
<1> QED
  BY <1>2, <1>3, <1>4, <1>5

\* Which class of a kind counts, when all of that kind are alike.
LEMMA LastOfOne ==
    ASSUME NEW S, NEW s \in Seq(S), NEW k, NEW d, {c \in ToSet(s) : c.kind = k} = {d}
    PROVE  LastOf(s, k) = d.of
<1> DEFINE found == OfKind(s, k)
<1>1. found = Only(s, {d})
  BY DEF OfKind
<1>2. found \in Seq(S \cap {d})
  BY <1>1, OnlyType
<1>3. ToSet(found) = ToSet(s) \cap {d}
  BY <1>1, OnlySet
<1>4. d \in ToSet(found)
  BY <1>3
<1> HIDE DEF found
<1>5. found # <<>> /\ found[Len(found)] = d
  <2>1. found # <<>>
    BY <1>4, ToSetEmpty
  <2>2. Len(found) \in 1..Len(found)
    BY <1>2, <2>1
  <2>3. found[Len(found)] \in S \cap {d}
    BY <1>2, <2>2
  <2> QED
    BY <2>1, <2>3
<1> QED
  BY <1>5 DEF LastOf, found

(***************************************************************************)
(* The engine: an element fits if its classes, data-prefix and data-icon are *)
(* those of one icon of the button.  What an element shows may be out of date, *)
(* but then a change is on its way or a replacement waits for a frame.     *)
(***************************************************************************)

\* The classes of a kind that an element has, as a set.
Of(e, kind) == {c \in ToSet(e.classes) : c.kind = kind}

\* An element the page has written, its icon changed or not, and one the engine
\* has made.
WrittenFits(e) ==
    /\ e.prefix = Absent
    /\ Of(e, "style") = {Class("style", "far")} /\ Of(e, "replacement") = {}
    /\ OfKind(e.classes, "width") = <<>>
SvgFits(e) ==
    /\ e.prefix = "far" /\ e.name \in Button /\ e.drawn \in Button
    /\ Of(e, "style") = {} /\ Of(e, "replacement") = {Replacement}
    /\ OfKind(e.classes, "width") = <<Class("width", Pack[<<"far", e.drawn>>])>>
Fits(e) ==
    /\ e \in Elements
    /\ OfKind(e.classes, "page") = OfKind(Page, "page")
    /\ \E name \in Button : Of(e, "icon") = {IconClass(name)}
    /\ IF e.tag = "i" THEN WrittenFits(e) ELSE SvgFits(e)

NodesFit == \A p \in Place : node[p] # NoNode => Fits(node[p])

\* The observer is told of one change at a time.
Tree == [type |-> "childList", places |-> 1..MaxWindows]
Changed(type, w) == [type |-> type, places |-> {w}]
OneRecord ==
    records \in {<<>>, <<Tree>>} \cup
                {<<Changed(type, w)>> : type \in {"class", "data"}, w \in attached}

\* Windows in the document are those that have an element.
NodesAreWindows ==
    /\ node[0] # NoNode
    /\ \A w \in 1..MaxWindows : (node[w] # NoNode) <=> (w \in attached)
    /\ \A w \in 1..MaxWindows : w > Len(ids) => waiting[w] = NoMeta

PendingWaits == pending => \E p \in Place : waiting[p] # NoMeta

\* Before the engine starts nothing happens.
StartsAtRest ==
    ~started => /\ ids = <<>> /\ records = <<>> /\ ~pending
                /\ \A p \in Place : waiting[p] = NoMeta

\* What the engine has not taken up is still to be told.
WrittenIsKnown ==
    started => \A p \in Place :
        node[p] # NoNode /\ waiting[p] = NoMeta /\ node[p].tag = "i" =>
            p # 0 /\ records = <<Tree>>

ShownName(e) == GetCanonicalIcon(e.classes).name

\* What an svg shows is out of date only while a change of it is on its way.
SvgIsCurrent ==
    \A p \in Place :
        node[p] # NoNode /\ waiting[p] = NoMeta /\ node[p].tag = "svg" =>
            /\ records # <<Changed("class", p)>> => node[p].name = ShownName(node[p])
            /\ records \notin {<<Changed("class", p)>>, <<Changed("data", p)>>}
                  => node[p].drawn = node[p].name

\* What the button of a window is for.
Wanted(w) == IF w \in big THEN "clone" ELSE "square"
UnhurriedMatch ==
    \A w \in attached \ hasty :
        /\ ShownName(node[w]) = Wanted(w)
        /\ waiting[w] # NoMeta => waiting[w].name = Wanted(w)

EngineTyped ==
    /\ node \in [Place -> Elements \cup {NoNode}]
    /\ waiting \in [Place -> Metas \cup {NoMeta}]
    /\ pending \in BOOLEAN /\ started \in BOOLEAN
    /\ hasty \subseteq attached

EngineInv ==
    /\ EngineTyped /\ NodesFit /\ OneRecord /\ NodesAreWindows /\ PendingWaits /\ StartsAtRest
    /\ WrittenIsKnown /\ SvgIsCurrent /\ UnhurriedMatch

(***************************************************************************)
(* What the engine makes of an element                                     *)
(***************************************************************************)

\* What the button is written with.
LEMMA PageFacts ==
    /\ Page \in Seq(Classes)
    /\ {c \in ToSet(Page) : c.kind = "icon"} = {IconClass("square")}
    /\ {c \in ToSet(Page) : c.kind = "style"} = {Class("style", "far")}
    /\ {c \in ToSet(Page) : c.kind = "replacement"} = {}
    /\ OfKind(Page, "width") = <<>>
<1>1. /\ Page \in Seq(ToSet(Page))
      /\ {Class("style", "far"), IconClass("square")} \subseteq ToSet(Page)
      /\ \A c \in ToSet(Page) :
            c.kind = "page" \/ c = Class("style", "far") \/ c = IconClass("square")
  BY DesktopAssumption
<1>2. Page \in Seq(Classes)
  <2>1. ToSet(Page) \subseteq Classes
    BY DEF Classes
  <2> QED
    BY <1>1, <2>1, SeqMonotonic
<1>3. /\ Class("style", "far").kind = "style"
      /\ IconClass("square").kind = "icon"
  BY DEF Class, IconClass
<1>4. \A c \in ToSet(Page) : c.kind # "width" /\ c.kind # "replacement"
  BY <1>1, <1>3
<1>5. OfKind(Page, "width") = <<>>
  BY <1>1, <1>4, OfKindAll
<1>6. {c \in ToSet(Page) : c.kind = "icon"} = {IconClass("square")}
  BY <1>1, <1>3
<1>7. {c \in ToSet(Page) : c.kind = "style"} = {Class("style", "far")}
  BY <1>1, <1>3
<1> QED
  BY <1>2, <1>4, <1>5, <1>6, <1>7

LEMMA RestFacts ==
    /\ OfKind(Page, "page") \in Seq(Classes)
    /\ OfKind(OfKind(Page, "page"), "page") = OfKind(Page, "page")
    /\ \A k : k # "page" => /\ OfKind(OfKind(Page, "page"), k) = <<>>
                            /\ {c \in ToSet(OfKind(Page, "page")) : c.kind = k} = {}
<1> DEFINE P == {c \in Classes : c.kind = "page"}
           rest == OfKind(Page, "page")
<1>1. rest \in Seq(Classes \cap P)
  <2>1. rest = Only(Page, P)
    BY PageFacts, OfKindIs
  <2> HIDE DEF P
  <2> QED
    BY <2>1, PageFacts, OnlyType
<1>2. Classes \cap P = P /\ P \subseteq Classes
  OBVIOUS
<1>3. \A c \in P : c.kind = "page"
  OBVIOUS
<1> HIDE DEF P, rest
<1>4. rest \in Seq(P) /\ rest \in Seq(Classes)
  BY <1>1, <1>2, SeqMonotonic
<1>5. OfKind(rest, "page") = rest
  BY <1>3, <1>4, OfKindAll
<1>6. ASSUME NEW k, k # "page" PROVE OfKind(rest, k) = <<>> /\ {c \in ToSet(rest) : c.kind = k} = {}
  <2>1. \A c \in P : c.kind # k
    BY <1>3, <1>6
  <2>2. OfKind(rest, k) = <<>>
    BY <1>4, <2>1, OfKindAll
  <2>3. ToSet(rest) \subseteq P
    BY <1>4, ToSetOfSelf
  <2> QED
    BY <2>1, <2>2, <2>3
<1> QED
  BY <1>4, <1>5, <1>6 DEF rest

LEMMA WrittenFacts ==
    /\ Fits(Written(Page)) /\ Written(Page) # NoNode /\ Written(Page).tag = "i"
    /\ ShownName(Written(Page)) = "square"
<1> DEFINE e == Written(Page)
<1>1. /\ e.tag = "i" /\ e.classes = Page /\ e.prefix = Absent /\ e.name = Absent
      /\ e.drawn = Absent
  BY DEF Written, Element
<1>2. e \in Elements
  BY PageFacts DEF Written, Element, Elements
<1>3. e # NoNode
  BY <1>2, DesktopAssumption
<1> HIDE DEF e
<1>4. WrittenFits(e)
  BY <1>1, PageFacts DEF WrittenFits, Of
<1>5. Of(e, "icon") = {IconClass("square")} /\ "square" \in Button
  BY <1>1, PageFacts DEF Of, Button
<1>6. Fits(e)
  BY <1>1, <1>2, <1>4, <1>5 DEF Fits
<1>7. LastOf(Page, "icon") = "square"
  <2>1. LastOf(Page, "icon") = IconClass("square").of
    BY PageFacts, LastOfOne
  <2> QED
    BY <2>1 DEF IconClass, Class
<1>8. ShownName(e) = "square"
  BY <1>1, <1>7 DEF ShownName, GetCanonicalIcon
<1> QED
  BY <1>1, <1>3, <1>6, <1>8 DEF e

\* The name and the classes of an element.
LEMMA ShownFacts ==
    ASSUME NEW e, Fits(e)
    PROVE  /\ ShownName(e) \in Button /\ ShownName(e) # Absent
           /\ \A name : Of(e, "icon") = {IconClass(name)} => ShownName(e) = name
           /\ HasClass(e, "style") <=> e.tag = "i"
           /\ IsReplaced(e) <=> e.tag = "svg"
           /\ e.tag \in {"i", "svg"} /\ e.classes \in Seq(Classes)
<1>1. e.classes \in Seq(Classes) /\ e.tag \in {"i", "svg"}
  BY DEF Fits, Elements
<1>2. ASSUME NEW name, Of(e, "icon") = {IconClass(name)} PROVE ShownName(e) = name
  <2>1. LastOf(e.classes, "icon") = IconClass(name).of
    <3>1. {c \in ToSet(e.classes) : c.kind = "icon"} = {IconClass(name)}
      BY <1>2 DEF Of
    <3> QED
      BY <1>1, <3>1, LastOfOne
  <2>2. IconClass(name).of = name
    BY DEF IconClass, Class
  <2> QED
    BY <2>1, <2>2 DEF ShownName, GetCanonicalIcon
<1>3. PICK name \in Button : Of(e, "icon") = {IconClass(name)}
  BY DEF Fits
<1>4. ShownName(e) \in Button /\ ShownName(e) # Absent
  BY <1>2, <1>3, DesktopAssumption
<1>5. HasClass(e, "style") <=> Of(e, "style") # {}
  BY DEF HasClass, Of
<1>6. IsReplaced(e) <=> Of(e, "replacement") # {}
  BY DEF IsReplaced, HasClass, Of
<1>7. e.tag = "i" => Of(e, "style") # {} /\ Of(e, "replacement") = {}
  BY DEF Fits, WrittenFits
<1>8. e.tag = "svg" => Of(e, "style") = {} /\ Of(e, "replacement") # {}
  BY DEF Fits, SvgFits
<1> QED
  BY <1>1, <1>2, <1>4, <1>5, <1>6, <1>7, <1>8

\* What is to replace an element.
LEMMA ParseFacts ==
    ASSUME NEW e, Fits(e)
    PROVE  /\ ParseMeta(e) \in Metas /\ ParseMeta(e) # NoMeta
           /\ ParseMeta(e).name = IF e.tag = "i" THEN ShownName(e) ELSE e.name
<1>1. GetCanonicalIcon(e.classes)
         = [prefix |-> LastOf(e.classes, "style"), name |-> ShownName(e),
            rest |-> OfKind(Page, "page")]
  BY DEF GetCanonicalIcon, ShownName, Fits
<1>2. ShownName(e) \in Button /\ e.classes \in Seq(Classes) /\ e.tag \in {"i", "svg"}
  BY ShownFacts
<1>3. CASE e.tag = "i"
  <2>1. {c \in ToSet(e.classes) : c.kind = "style"} = {Class("style", "far")} /\ e.prefix = Absent
    BY <1>3 DEF Fits, WrittenFits, Of
  <2>2. LastOf(e.classes, "style") = Class("style", "far").of
    BY <1>2, <2>1, LastOfOne
  <2>3. Class("style", "far").of = "far"
    BY DEF Class
  <2>4. ParseMeta(e) = [prefix |-> "far", name |-> ShownName(e), rest |-> OfKind(Page, "page")]
    BY <1>1, <2>1, <2>2, <2>3 DEF ParseMeta
  <2> QED
    BY <1>2, <1>3, <2>4, DesktopAssumption DEF Metas
<1>4. CASE e.tag = "svg"
  <2>1. e.prefix = "far" /\ e.name \in Button
    BY <1>4 DEF Fits, SvgFits
  <2>2. e.prefix # Absent /\ e.name # Absent
    BY <2>1, DesktopAssumption
  <2>3. ParseMeta(e) = [prefix |-> "far", name |-> e.name, rest |-> OfKind(Page, "page")]
    <3> DEFINE v == GetCanonicalIcon(e.classes)
    <3>1. ParseMeta(e) = [v EXCEPT !.prefix = e.prefix, !.name = e.name]
      BY <2>2 DEF ParseMeta
    <3> HIDE DEF v
    <3>2. PICK first, second :
             v = [prefix |-> first, name |-> second, rest |-> OfKind(Page, "page")]
      BY <1>1 DEF v
    <3>3. PICK w : w = [v EXCEPT !.prefix = e.prefix]
      OBVIOUS
    <3>4. w = [prefix |-> e.prefix, name |-> second, rest |-> OfKind(Page, "page")]
      BY <3>2, <3>3
    <3>5. [w EXCEPT !.name = e.name]
             = [prefix |-> e.prefix, name |-> e.name, rest |-> OfKind(Page, "page")]
      BY <3>4
    <3>6. ParseMeta(e) = [w EXCEPT !.name = e.name]
      BY <3>1, <3>3
    <3> QED
      BY <2>1, <3>5, <3>6
  <2> QED
    BY <1>4, <2>1, <2>3, DesktopAssumption DEF Metas
<1> QED
  BY <1>2, <1>3, <1>4

\* What the engine puts in the place of an element.
LEMMA SvgFacts ==
    ASSUME NEW meta \in Metas
    PROVE  /\ Fits(Svg(meta)) /\ Svg(meta) # NoNode /\ Svg(meta).tag = "svg"
           /\ Svg(meta).name = meta.name /\ Svg(meta).drawn = meta.name
           /\ ShownName(Svg(meta)) = meta.name
<1> DEFINE e == Svg(meta)
           n == meta.name
           rest == OfKind(Page, "page")
           width == Class("width", Pack[<<"far", n>>])
           own == <<Replacement, IconClass(n), width>>
<1>1. n \in Button /\ meta.prefix = "far" /\ meta.rest = rest
  BY DEF Metas
<1>2. <<"far", n>> \in DOMAIN Pack
  BY <1>1, DesktopAssumption DEF Button
<1>3. FindIcon(meta.prefix, n) = [path |-> n, width |-> Pack[<<"far", n>>]]
  BY <1>1, <1>2 DEF FindIcon
<1>4. e = [tag |-> "svg", classes |-> own \o rest, prefix |-> "far", name |-> n, drawn |-> n]
  <2>1. e = Element("svg", own \o rest, "far", n, n)
    BY <1>1, <1>3 DEF Svg
  <2> QED
    BY <2>1 DEF Element
<1>5. /\ Replacement \in Classes /\ IconClass(n) \in Classes /\ width \in Classes
      /\ Replacement.kind = "replacement" /\ IconClass(n).kind = "icon" /\ width.kind = "width"
  BY <1>1 DEF Classes, Class, Replacement, IconClass
<1> HIDE DEF e, n, width, rest
<1>6. /\ own \in Seq(Classes)
      /\ ToSet(own) = {Replacement, IconClass(n), width}
  BY <1>5 DEF ToSet
<1>7. \A k : OfKind(own, k) = IF k = "width" THEN <<width>> ELSE
                              IF k = "icon" THEN <<IconClass(n)>> ELSE
                              IF k = "replacement" THEN <<Replacement>> ELSE <<>>
  <2> DEFINE a == Replacement
             b == IconClass(n)
  <2>1. a \in Classes /\ a.kind = "replacement" /\ b \in Classes /\ b.kind = "icon"
    BY <1>5
  <2> HIDE DEF a, b
  <2>2. <<>> \in Seq(Classes) /\ <<a>> \in Seq(Classes) /\ <<a, b>> \in Seq(Classes)
    BY <2>1
  <2>3. /\ <<a>> = Append(<<>>, a) /\ <<a, b>> = Append(<<a>>, b)
        /\ <<a, b, width>> = Append(<<a, b>>, width)
    OBVIOUS
  <2> SUFFICES ASSUME NEW k
               PROVE  OfKind(<<a, b, width>>, k) = IF k = "width" THEN <<width>> ELSE
                              IF k = "icon" THEN <<b>> ELSE
                              IF k = "replacement" THEN <<a>> ELSE <<>>
    BY DEF a, b
  <2>4. OfKind(<<a>>, k) = IF k = "replacement" THEN <<a>> ELSE <<>>
    <3>1. OfKind(Append(<<>>, a), k) = IF a.kind = k THEN Append(OfKind(<<>>, k), a)
                                       ELSE OfKind(<<>>, k)
      BY <2>1, <2>2, OfKindAppend
    <3> QED
      BY <2>1, <2>3, <3>1, OfKindEmpty
  <2>5. OfKind(<<a, b>>, k) = IF k = "icon" THEN <<b>> ELSE
                              IF k = "replacement" THEN <<a>> ELSE <<>>
    <3>1. OfKind(Append(<<a>>, b), k) = IF b.kind = k THEN Append(OfKind(<<a>>, k), b)
                                        ELSE OfKind(<<a>>, k)
      BY <2>1, <2>2, OfKindAppend
    <3>2. CASE k = "icon"
      <4>1. OfKind(<<a>>, k) = <<>>
        BY <2>4, <3>2
      <4>2. OfKind(<<a, b>>, k) = Append(<<>>, b)
        BY <2>1, <2>3, <3>1, <3>2, <4>1
      <4> QED
        BY <3>2, <4>2
    <3>3. CASE k # "icon"
      BY <2>1, <2>3, <2>4, <3>1, <3>3
    <3> QED
      BY <3>2, <3>3
  <2>6. OfKind(Append(<<a, b>>, width), k)
           = IF width.kind = k THEN Append(OfKind(<<a, b>>, k), width) ELSE OfKind(<<a, b>>, k)
    BY <1>5, <2>2, OfKindAppend
  <2>7. CASE k = "width"
    <3>1. OfKind(<<a, b>>, k) = <<>>
      BY <2>5, <2>7
    <3>2. OfKind(<<a, b, width>>, k) = Append(<<>>, width)
      BY <1>5, <2>3, <2>6, <2>7, <3>1
    <3> QED
      BY <2>7, <3>2
  <2>8. CASE k # "width"
    BY <1>5, <2>3, <2>5, <2>6, <2>8
  <2> QED
    BY <2>7, <2>8
<1> HIDE DEF own
<1>8. /\ rest \in Seq(Classes) /\ OfKind(rest, "page") = rest
      /\ \A k : k # "page" => OfKind(rest, k) = <<>> /\ {c \in ToSet(rest) : c.kind = k} = {}
  BY RestFacts DEF rest
<1>9. /\ own \o rest \in Seq(Classes)
      /\ ToSet(own \o rest) = {Replacement, IconClass(n), width} \cup ToSet(rest)
  BY <1>6, <1>8, ToSetConcat
<1>10. \A k : OfKind(own \o rest, k) = OfKind(own, k) \o OfKind(rest, k)
  BY <1>6, <1>8, OfKindConcat
<1>11. OfKind(own \o rest, "page") = rest /\ OfKind(own \o rest, "width") = <<width>>
  <2>1. OfKind(own, "page") = <<>> /\ OfKind(own, "width") = <<width>>
    BY <1>7
  <2>2. OfKind(rest, "page") = rest /\ OfKind(rest, "width") = <<>>
    BY <1>8
  <2>3. <<>> \o rest = rest /\ <<width>> \o <<>> = <<width>>
    <3>1. <<width>> \in Seq(Classes)
      BY <1>5
    <3> QED
      BY <1>8, <3>1, ConcatEmptySeq
  <2> QED
    BY <1>10, <2>1, <2>2, <2>3
<1>12. /\ Of(e, "icon") = {IconClass(n)} /\ Of(e, "style") = {}
       /\ Of(e, "replacement") = {Replacement}
  <2>1. e.classes = own \o rest
    BY <1>4
  <2>2. \A k : k # "page" => Of(e, k) = {c \in {Replacement, IconClass(n), width} : c.kind = k}
    BY <1>8, <1>9, <2>1 DEF Of
  <2> QED
    BY <1>5, <2>2
<1>13. e \in Elements /\ e # NoNode
  <2>1. e \in Elements
    BY <1>1, <1>4, <1>9 DEF Elements
  <2> QED
    BY <2>1, DesktopAssumption
<1>14. Fits(e)
  <2>1. SvgFits(e)
    BY <1>1, <1>4, <1>11, <1>12 DEF SvgFits, width
  <2>2. OfKind(e.classes, "page") = rest
    BY <1>4, <1>11
  <2> QED
    BY <1>1, <1>4, <1>12, <1>13, <2>1, <2>2 DEF Fits, rest
<1>15. ShownName(e) = n
  BY <1>12, <1>14, ShownFacts
<1> QED
  BY <1>4, <1>13, <1>14, <1>15 DEF e, n

\* Changing the icon class of an element.
Swapped(e, old, new) ==
    LET kept == Only(e.classes, ToSet(e.classes) \ {IconClass(old)})
    IN  [e EXCEPT !.classes = IF Contains(kept, IconClass(new)) THEN kept
                              ELSE Append(kept, IconClass(new))]

LEMMA SwapFacts ==
    ASSUME NEW e, Fits(e), NEW old \in Button, NEW new \in Button, old # new
    PROVE  /\ Fits(Swapped(e, old, new)) /\ Swapped(e, old, new) # NoNode
           /\ Swapped(e, old, new).tag = e.tag
           /\ ShownName(Swapped(e, old, new)) = new
<1> DEFINE f == Swapped(e, old, new)
           C == ToSet(e.classes) \ {IconClass(old)}
           kept == Only(e.classes, C)
           added == IF Contains(kept, IconClass(new)) THEN kept ELSE Append(kept, IconClass(new))
<1>1. e.classes \in Seq(Classes) /\ e.tag \in {"i", "svg"} /\ e \in Elements
  BY DEF Fits, Elements
<1>2. /\ IconClass(old) \in Classes /\ IconClass(new) \in Classes
      /\ IconClass(old).kind = "icon" /\ IconClass(new).kind = "icon"
      /\ IconClass(old) # IconClass(new)
  BY DEF Classes, IconClass, Class
<1>3. f = [e EXCEPT !.classes = added]
  BY DEF Swapped
<1>4. kept \in Seq(Classes) /\ ToSet(kept) = C
  <2>1. kept \in Seq(Classes \cap C) /\ ToSet(kept) = ToSet(e.classes) \cap C
    BY <1>1, OnlyType, OnlySet
  <2>2. ToSet(e.classes) \cap C = C
    OBVIOUS
  <2> HIDE DEF kept, C
  <2>3. kept \in Seq(Classes)
    BY <2>1, SeqMonotonic
  <2> QED
    BY <2>1, <2>2, <2>3
<1>5. \A k : k # "icon" => OfKind(kept, k) = OfKind(e.classes, k)
  <2> SUFFICES ASSUME NEW k, k # "icon" PROVE OfKind(kept, k) = OfKind(e.classes, k)
    OBVIOUS
  <2>1. IconClass(old).kind # k
    BY <1>2
  <2> QED
    BY <1>1, <2>1, OfKindWithout
<1>6. added \in Seq(Classes)
  <2> HIDE DEF kept, C
  <2> QED
    BY <1>2, <1>4
<1>7. \A k : k # "icon" => OfKind(added, k) = OfKind(e.classes, k)
  <2> HIDE DEF kept, C
  <2> SUFFICES ASSUME NEW k, k # "icon" PROVE OfKind(added, k) = OfKind(e.classes, k)
    OBVIOUS
  <2>1. OfKind(Append(kept, IconClass(new)), k) = OfKind(kept, k)
    BY <1>2, <1>4, OfKindAppend
  <2> QED
    BY <1>5, <2>1
<1>8. ToSet(added) = C \cup {IconClass(new)}
  <2> HIDE DEF C, kept
  <2>1. ToSet(Append(kept, IconClass(new))) = C \cup {IconClass(new)}
    BY <1>2, <1>4, ToSetFacts
  <2>2. Contains(kept, IconClass(new)) => IconClass(new) \in C
    <3>1. DOMAIN kept = 1..Len(kept)
      BY <1>4
    <3> QED
      BY <1>4, <3>1 DEF Contains, ToSet
  <2> QED
    BY <1>4, <2>1, <2>2
<1> HIDE DEF f, added, kept
<1>9. /\ f.classes = added /\ f.tag = e.tag /\ f.prefix = e.prefix /\ f.name = e.name
      /\ f.drawn = e.drawn /\ f \in Elements
  BY <1>1, <1>3, <1>6 DEF Elements
<1>10. PICK name \in Button : Of(e, "icon") = {IconClass(name)}
  BY DEF Fits
<1>11. Of(f, "icon") = {IconClass(new)}
  <2>1. name = old \/ name = new
    BY DEF Button
  <2>2. {c \in ToSet(e.classes) : c.kind = "icon"} \subseteq {IconClass(old), IconClass(new)}
    BY <1>10, <2>1 DEF Of
  <2>3. {c \in C \cup {IconClass(new)} : c.kind = "icon"} = {IconClass(new)}
    BY <1>2, <2>2
  <2> QED
    BY <1>8, <1>9, <2>3 DEF Of
<1>12. \A k : k # "icon" => Of(f, k) = Of(e, k)
  BY <1>2, <1>8, <1>9 DEF Of
<1>13. Fits(f)
  <2>1. OfKind(f.classes, "page") = OfKind(Page, "page")
    BY <1>7, <1>9 DEF Fits
  <2>2. OfKind(f.classes, "width") = OfKind(e.classes, "width")
    BY <1>7, <1>9
  <2>3. WrittenFits(e) => WrittenFits(f)
    BY <1>9, <1>12, <2>2 DEF WrittenFits
  <2>4. SvgFits(e) => SvgFits(f)
    BY <1>9, <1>12, <2>2 DEF SvgFits
  <2> QED
    BY <1>9, <1>11, <2>1, <2>3, <2>4 DEF Fits
<1>14. f # NoNode
  BY <1>9, DesktopAssumption
<1> QED
  BY <1>9, <1>11, <1>13, <1>14, ShownFacts DEF f

\* Setting data-icon of an svg.
LEMMA RenameFacts ==
    ASSUME NEW e, Fits(e), e.tag = "svg", NEW f, f = [e EXCEPT !.name = ShownName(e)]
    PROVE  /\ Fits(f) /\ f # NoNode /\ f.tag = "svg"
           /\ f.name = ShownName(e) /\ ShownName(f) = ShownName(e)
<1>1. ShownName(e) \in Button /\ e \in Elements
  BY ShownFacts DEF Fits
<1>2. /\ f \in Elements /\ f.tag = "svg" /\ f.classes = e.classes /\ f.prefix = e.prefix
      /\ f.name = ShownName(e) /\ f.drawn = e.drawn
  BY <1>1 DEF Elements
<1>3. \A k : Of(f, k) = Of(e, k)
  BY <1>2 DEF Of
<1>4. SvgFits(f)
  BY <1>1, <1>2, <1>3 DEF Fits, SvgFits
<1>5. Fits(f)
  BY <1>2, <1>3, <1>4 DEF Fits
<1>6. ShownName(f) = ShownName(e)
  BY <1>2 DEF ShownName
<1> QED
  BY <1>2, <1>5, <1>6, DesktopAssumption

(***************************************************************************)
(* The handlers and the engine, step by step                               *)
(***************************************************************************)

LEMMA PlaceFacts ==
    /\ Place = 0..MaxWindows /\ MaxWindows \in Nat /\ 0 \in Place /\ Static = {0}
    /\ 1..MaxWindows \subseteq Place /\ 0 \notin 1..MaxWindows
    /\ \A p \in Place : p # 0 => p \in 1..MaxWindows
<1>1. Place = 0..MaxWindows /\ MaxWindows \in Nat /\ Static = {0}
  BY DesktopAssumption
<1> QED
  BY <1>1

LEMMA WindowFacts ==
    ASSUME WInv
    PROVE  /\ ids \in Seq(Id) /\ Len(ids) \in Nat /\ Windows = 1..Len(ids)
           /\ Windows \subseteq 1..MaxWindows
           /\ attached \subseteq Windows /\ big \subseteq attached
<1>1. /\ ids \in Seq(Id) /\ Len(ids) <= MaxWindows
      /\ attached \subseteq Windows /\ big \subseteq attached
  BY DEF WInv, WindowsTypeOK
<1>2. Windows \subseteq 1..MaxWindows
  BY <1>1, PlaceFacts DEF Windows
<1> QED
  BY <1>1, <1>2 DEF Windows

LEMMA RecordFacts ==
    ASSUME NEW type, NEW kind, NEW w, NEW u
    PROVE  /\ <<Changed(type, w)>> # <<>> /\ <<Tree>> # <<>>
           /\ type # "childList" => <<Changed(type, w)>> # <<Tree>>
           /\ type # kind \/ u # w => <<Changed(type, w)>> # <<Changed(kind, u)>>
           /\ Changed(type, w).type = type /\ Changed(type, w).places = {w}
           /\ Tree.type = "childList" /\ Tree.places = 1..MaxWindows
           /\ Append(<<>>, Tree) = <<Tree>>
           /\ Append(<<>>, Changed(type, w)) = <<Changed(type, w)>>
           /\ Head(<<Tree>>) = Tree /\ Tail(<<Tree>>) = <<>>
           /\ Head(<<Changed(type, w)>>) = Changed(type, w) /\ Tail(<<Changed(type, w)>>) = <<>>
<1>1. \A x, y : <<x>> = <<y>> => x = y
  OBVIOUS
<1>2. /\ Changed(type, w).type = type /\ Changed(type, w).places = {w}
      /\ Changed(kind, u).type = kind /\ Changed(kind, u).places = {u}
      /\ Tree.type = "childList" /\ Tree.places = 1..MaxWindows
  BY DEF Changed, Tree
<1>3. type # "childList" => <<Changed(type, w)>> # <<Tree>>
  BY <1>1, <1>2
<1>4. type # kind \/ u # w => <<Changed(type, w)>> # <<Changed(kind, u)>>
  BY <1>1, <1>2
<1>5. \A x : <<x>> # <<>> /\ Append(<<>>, x) = <<x>> /\ Head(<<x>>) = x /\ Tail(<<x>>) = <<>>
  OBVIOUS
<1> QED
  BY <1>2, <1>3, <1>4, <1>5

LEMMA EngineInitially == Init => EngineInv
<1> SUFFICES ASSUME Init PROVE EngineInv
  OBVIOUS
<1>1. /\ ids = <<>> /\ attached = {} /\ big = {} /\ hasty = {}
      /\ records = <<>> /\ pending = FALSE /\ started = FALSE
      /\ waiting = [p \in Place |-> NoMeta]
      /\ node = [p \in Place |-> IF p = 0 THEN Written(Page) ELSE NoNode]
  BY PlaceFacts DEF Init, WindowsInit, EngineInit
<1>2. Fits(Written(Page)) /\ Written(Page) # NoNode /\ Written(Page).tag = "i"
  BY WrittenFacts
<1>3. Written(Page) \in Elements
  BY <1>2 DEF Fits
<1>4. EngineTyped
  BY <1>1, <1>3 DEF EngineTyped
<1>5. NodesFit
  BY <1>1, <1>2 DEF NodesFit
<1>6. OneRecord /\ PendingWaits /\ StartsAtRest /\ WrittenIsKnown /\ UnhurriedMatch
  BY <1>1 DEF OneRecord, PendingWaits, StartsAtRest, WrittenIsKnown, UnhurriedMatch
<1>7. NodesAreWindows
  BY <1>1, <1>2, PlaceFacts DEF NodesAreWindows
<1>8. SvgIsCurrent
  <2>1. \A p \in Place : node[p] # NoNode => node[p].tag # "svg"
    BY <1>1, <1>2
  <2> QED
    BY <2>1 DEF SvgIsCurrent
<1> QED
  BY <1>4, <1>5, <1>6, <1>7, <1>8 DEF EngineInv

LEMMA OthersKeepEngine ==
    ASSUME EngineInv, UNCHANGED <<engineVars, hasty, ids, attached, big>>
    PROVE  EngineInv'
<1>1. /\ node' = node /\ records' = records /\ waiting' = waiting /\ pending' = pending
      /\ started' = started /\ hasty' = hasty /\ ids' = ids /\ attached' = attached /\ big' = big
  BY DEF engineVars
<1> QED
  BY <1>1 DEF EngineInv, EngineTyped, NodesFit, OneRecord, NodesAreWindows, PendingWaits,
              StartsAtRest, WrittenIsKnown, SvgIsCurrent, UnhurriedMatch, Wanted

\* A window opens with its button as it is written.
LEMMA OpenKeepsEngine ==
    ASSUME WInv, EngineInv, NEW id \in Id, Open(id) PROVE EngineInv'
<1> DEFINE n == Len(ids) + 1
           e == Written(Page)
<1>1. /\ started /\ records = <<>> /\ Len(ids) < MaxWindows /\ ids' = Append(ids, id)
      /\ attached' = attached \cup {n} /\ big' = big /\ hasty' = hasty
      /\ node' = [node EXCEPT ![n] = e]
      /\ records' = Append(records, Tree)
      /\ waiting' = waiting /\ pending' = pending /\ started' = started
  BY DEF Open, OpenWindow, AddIcon, Told, Tree
<1>2. /\ ids \in Seq(Id) /\ Len(ids) \in Nat /\ Windows = 1..Len(ids)
      /\ attached \subseteq Windows /\ big \subseteq attached /\ Windows \subseteq 1..MaxWindows
  BY WindowFacts
<1>3. /\ n \in 1..MaxWindows /\ n \in Place /\ n \notin Windows /\ n > Len(ids) /\ n # 0
      /\ Len(ids') = n
  BY <1>1, <1>2, PlaceFacts
<1>4. records' = <<Tree>>
  BY <1>1, RecordFacts
<1>5. Fits(e) /\ e \in Elements /\ e # NoNode /\ e.tag = "i" /\ ShownName(e) = "square"
  BY WrittenFacts DEF Fits
<1> HIDE DEF n, e
<1>6. /\ node \in [Place -> Elements \cup {NoNode}] /\ hasty \subseteq attached
      /\ node'[n] = e /\ \A p \in Place : p # n => node'[p] = node[p]
  BY <1>1, <1>3 DEF EngineInv, EngineTyped
<1>7. waiting[n] = NoMeta
  BY <1>3 DEF EngineInv, NodesAreWindows, n
<1>8. EngineTyped'
  BY <1>1, <1>5, <1>6 DEF EngineInv, EngineTyped
<1>9. NodesFit'
  BY <1>5, <1>6 DEF EngineInv, NodesFit
<1>10. OneRecord' /\ StartsAtRest' /\ PendingWaits'
  BY <1>1, <1>4 DEF EngineInv, OneRecord, StartsAtRest, PendingWaits
<1>11. NodesAreWindows'
  <2>1. node'[0] # NoNode
    BY <1>3, <1>6, PlaceFacts DEF EngineInv, NodesAreWindows
  <2>2. ASSUME NEW w \in 1..MaxWindows
        PROVE  /\ (node'[w] # NoNode) <=> (w \in attached')
               /\ w > Len(ids') => waiting'[w] = NoMeta
    <3>1. w \in Place
      BY PlaceFacts
    <3>2. CASE w = n
      BY <1>1, <1>3, <1>5, <1>6, <3>2
    <3>3. CASE w # n
      <4>1. w > n => w > Len(ids)
        BY <1>2 DEF n
      <4> QED
        BY <1>1, <1>3, <1>6, <3>1, <3>3, <4>1 DEF EngineInv, NodesAreWindows
    <3> QED
      BY <3>2, <3>3
  <2> QED
    BY <2>1, <2>2 DEF NodesAreWindows
<1>12. WrittenIsKnown'
  <2> SUFFICES ASSUME NEW p \in Place, node'[p] # NoNode, waiting'[p] = NoMeta, node'[p].tag = "i"
               PROVE  p # 0
    BY <1>4 DEF WrittenIsKnown
  <2>1. p # n => p # 0
    BY <1>1, <1>6 DEF EngineInv, WrittenIsKnown
  <2> QED
    BY <2>1, <1>3
<1>13. SvgIsCurrent'
  <2> SUFFICES ASSUME NEW p \in Place, node'[p] # NoNode, waiting'[p] = NoMeta,
                      node'[p].tag = "svg"
               PROVE  node'[p].name = ShownName(node'[p]) /\ node'[p].drawn = node'[p].name
    BY DEF SvgIsCurrent
  <2>1. p # n
    BY <1>5, <1>6
  <2>2. node'[p] = node[p] /\ waiting[p] = NoMeta
    BY <1>1, <1>6, <2>1
  <2>3. records \notin {<<Changed("class", p)>>, <<Changed("data", p)>>}
    BY <1>1, RecordFacts
  <2> QED
    BY <2>2, <2>3 DEF EngineInv, SvgIsCurrent
<1>14. UnhurriedMatch'
  <2> SUFFICES ASSUME NEW w \in attached' \ hasty'
               PROVE  /\ ShownName(node'[w]) = Wanted(w)
                      /\ waiting[w] # NoMeta => waiting[w].name = Wanted(w)
    BY <1>1 DEF UnhurriedMatch, Wanted
  <2>1. CASE w = n
    <3>1. Wanted(w) = "square"
      BY <1>2, <1>3, <2>1 DEF Wanted
    <3> QED
      BY <1>5, <1>6, <1>7, <2>1, <3>1
  <2>2. CASE w # n
    <3>1. w \in attached \ hasty /\ w \in Place
      BY <1>1, <1>2, <2>2, PlaceFacts
    <3> QED
      BY <1>6, <2>2, <3>1 DEF EngineInv, UnhurriedMatch
  <2> QED
    BY <2>1, <2>2
<1> QED
  BY <1>8, <1>9, <1>10, <1>11, <1>12, <1>13, <1>14 DEF EngineInv

\* Using the button of a window gives it the class of the icon wanted from now on.
LEMMA SwapKeepsEngine ==
    ASSUME WInv, EngineInv, NEW w \in Windows, Told, ToggleMaximize(w),
           NEW old \in Button, NEW new \in Button, old # new, SwapIcon(w, old, new),
           new = IF w \in big THEN "square" ELSE "clone",
           hasty' = IF waiting[w] # NoMeta THEN hasty \cup {w} ELSE hasty \ {w}
    PROVE  EngineInv'
<1> DEFINE e == Swapped(node[w], old, new)
<1>1. /\ records = <<>> /\ w \in attached /\ ids' = ids /\ attached' = attached
      /\ big' = IF w \in big THEN big \ {w} ELSE big \cup {w}
      /\ node' = [node EXCEPT ![w] = e]
      /\ records' = Append(records, Changed("class", w))
      /\ waiting' = waiting /\ pending' = pending /\ started' = started
  BY DEF Told, ToggleMaximize, Clickable, SwapIcon, Swapped, Changed
<1>2. /\ attached \subseteq Windows /\ Windows \subseteq 1..MaxWindows /\ Windows = 1..Len(ids)
      /\ ids \in Seq(Id)
  BY WindowFacts
<1>3. w \in Place /\ w # 0
  BY <1>2, PlaceFacts
<1>4. records' = <<Changed("class", w)>>
  BY <1>1, RecordFacts
<1>5. node[w] # NoNode /\ Fits(node[w])
  BY <1>1, <1>2, <1>3 DEF EngineInv, NodesAreWindows, NodesFit
<1>6. Fits(e) /\ e \in Elements /\ e # NoNode /\ e.tag = node[w].tag /\ ShownName(e) = new
  BY <1>5, SwapFacts DEF Fits
<1> HIDE DEF e
<1>7. /\ node'[w] = e /\ \A p \in Place : p # w => node'[p] = node[p]
  BY <1>1, <1>3 DEF EngineInv, EngineTyped
<1>8. started
  <2>1. ids # <<>>
    BY <1>2
  <2> QED
    BY <2>1 DEF EngineInv, StartsAtRest, EngineTyped
<1>9. EngineTyped'
  BY <1>1, <1>6 DEF EngineInv, EngineTyped
<1>10. NodesFit'
  BY <1>6, <1>7 DEF EngineInv, NodesFit
<1>11. OneRecord' /\ StartsAtRest' /\ PendingWaits'
  BY <1>1, <1>4, <1>8 DEF EngineInv, OneRecord, StartsAtRest, PendingWaits
<1>12. NodesAreWindows'
  <2>1. \A p \in Place : node'[p] # NoNode <=> node[p] # NoNode
    BY <1>5, <1>6, <1>7
  <2> QED
    BY <1>1, <2>1, PlaceFacts DEF EngineInv, NodesAreWindows
<1>13. WrittenIsKnown'
  <2> SUFFICES ASSUME NEW p \in Place, node'[p] # NoNode, waiting'[p] = NoMeta, node'[p].tag = "i"
               PROVE  FALSE
    BY DEF WrittenIsKnown
  <2>1. node[p] # NoNode /\ waiting[p] = NoMeta /\ node[p].tag = "i"
    BY <1>1, <1>5, <1>6, <1>7
  <2>2. records = <<Tree>>
    BY <1>8, <2>1 DEF EngineInv, WrittenIsKnown
  <2> QED
    BY <1>1, <2>2, RecordFacts
<1>14. SvgIsCurrent'
  <2> SUFFICES ASSUME NEW p \in Place, node'[p] # NoNode, waiting'[p] = NoMeta,
                      node'[p].tag = "svg", p # w
               PROVE  node'[p].name = ShownName(node'[p]) /\ node'[p].drawn = node'[p].name
    BY <1>4 DEF SvgIsCurrent
  <2>1. node'[p] = node[p] /\ waiting[p] = NoMeta
    BY <1>1, <1>7
  <2>2. records \notin {<<Changed("class", p)>>, <<Changed("data", p)>>}
    BY <1>1, RecordFacts
  <2> QED
    BY <2>1, <2>2 DEF EngineInv, SvgIsCurrent
<1>15. UnhurriedMatch'
  <2> SUFFICES ASSUME NEW u \in attached' \ hasty'
               PROVE  /\ ShownName(node'[u]) = Wanted(u)'
                      /\ waiting'[u] # NoMeta => waiting'[u].name = Wanted(u)'
    BY DEF UnhurriedMatch
  <2>1. CASE u = w
    <3>1. waiting[w] = NoMeta
      BY <2>1
    <3>2. Wanted(u)' = new
      BY <1>1, <2>1 DEF Wanted
    <3> QED
      BY <1>1, <1>6, <1>7, <2>1, <3>1, <3>2
  <2>2. CASE u # w
    <3>1. u \in attached \ hasty /\ u \in Place
      BY <1>1, <1>2, <2>2, PlaceFacts
    <3>2. Wanted(u)' = Wanted(u)
      BY <1>1, <2>2 DEF Wanted
    <3> QED
      BY <1>1, <1>7, <2>2, <3>1, <3>2 DEF EngineInv, UnhurriedMatch
  <2> QED
    BY <2>1, <2>2
<1> QED
  BY <1>9, <1>10, <1>11, <1>12, <1>13, <1>14, <1>15 DEF EngineInv

LEMMA MaximizeKeepsEngine ==
    ASSUME WInv, EngineInv, NEW w \in Windows, Maximize(w) PROVE EngineInv'
<1>1. /\ Told /\ ToggleMaximize(w)
      /\ hasty' = IF waiting[w] # NoMeta THEN hasty \cup {w} ELSE hasty \ {w}
      /\ "square" \in Button /\ "clone" \in Button /\ "square" # "clone"
  BY DEF Maximize, Button
<1>2. CASE w \in big
  <2>1. SwapIcon(w, "clone", "square")
    BY <1>2 DEF Maximize
  <2> QED
    BY <1>1, <1>2, <2>1, SwapKeepsEngine
<1>3. CASE w \notin big
  <2>1. SwapIcon(w, "square", "clone")
    BY <1>3 DEF Maximize
  <2> QED
    BY <1>1, <1>3, <2>1, SwapKeepsEngine
<1> QED
  BY <1>2, <1>3

\* A window that closes takes its icon along, and what waited for it.
LEMMA CloseKeepsEngine ==
    ASSUME WInv, EngineInv, NEW w \in Windows, Close(w) PROVE EngineInv'
<1>1. /\ records = <<>> /\ w \in attached /\ ids' = ids /\ attached' = attached \ {w}
      /\ big' = big \ {w} /\ hasty' = hasty \ {w}
      /\ node' = [node EXCEPT ![w] = NoNode]
      /\ records' = records /\ waiting' = waiting /\ pending' = pending /\ started' = started
  BY DEF Close, CloseApp, Clickable, RemoveIcon, Told
<1>2. /\ attached \subseteq Windows /\ Windows \subseteq 1..MaxWindows /\ w \in Place /\ w # 0
  BY WindowFacts, PlaceFacts
<1>3. /\ node'[w] = NoNode /\ \A p \in Place : p # w => node'[p] = node[p]
  BY <1>1, <1>2 DEF EngineInv, EngineTyped
<1>4. EngineTyped'
  BY <1>1 DEF EngineInv, EngineTyped
<1>5. NodesFit' /\ OneRecord' /\ StartsAtRest' /\ PendingWaits'
  BY <1>1, <1>3 DEF EngineInv, NodesFit, OneRecord, StartsAtRest, PendingWaits
<1>6. NodesAreWindows'
  BY <1>1, <1>2, <1>3, PlaceFacts DEF EngineInv, NodesAreWindows
<1>7. WrittenIsKnown' /\ SvgIsCurrent'
  BY <1>1, <1>3 DEF EngineInv, WrittenIsKnown, SvgIsCurrent
<1>8. UnhurriedMatch'
  <2> SUFFICES ASSUME NEW u \in attached' \ hasty'
               PROVE  /\ ShownName(node'[u]) = Wanted(u)'
                      /\ waiting'[u] # NoMeta => waiting'[u].name = Wanted(u)'
    BY DEF UnhurriedMatch
  <2>1. u \in attached \ hasty /\ u # w /\ u \in Place
    BY <1>1, <1>2, PlaceFacts
  <2>2. Wanted(u)' = Wanted(u)
    BY <1>1, <2>1 DEF Wanted
  <2> QED
    BY <1>1, <1>3, <2>1, <2>2 DEF EngineInv, UnhurriedMatch
<1> QED
  BY <1>4, <1>5, <1>6, <1>7, <1>8 DEF EngineInv

LEMMA PerformFacts ==
    ASSUME EngineInv, NEW places, Perform(places),
           \A p \in Place : p \in places => node[p] # NoNode
    PROVE  /\ waiting' \in [Place -> Metas \cup {NoMeta}]
           /\ \A p \in Place :
                 /\ waiting'[p] = IF p \in places /\ waiting[p] = NoMeta
                                  THEN ParseMeta(node[p]) ELSE waiting[p]
                 /\ (waiting'[p] = NoMeta) <=> (waiting[p] = NoMeta /\ p \notin places)
<1>1. waiting' = [p \in Place |-> IF p \in places /\ waiting[p] = NoMeta
                                  THEN ParseMeta(node[p]) ELSE waiting[p]]
  BY DEF Perform
<1>2. \A p \in Place : p \in places => ParseMeta(node[p]) \in Metas /\ ParseMeta(node[p]) # NoMeta
  BY ParseFacts DEF EngineInv, NodesFit
<1>3. waiting \in [Place -> Metas \cup {NoMeta}]
  BY DEF EngineInv, EngineTyped
<1> QED
  BY <1>1, <1>2, <1>3

\* A part of the document is looked through that has every element the engine
\* has not taken up.
LEMMA TreeKeepsEngine ==
    ASSUME WInv, EngineInv, NEW places \in SUBSET Place, OnTree(places),
           records \in {<<>>, <<Tree>>},
           \A p \in Place \ places :
               node[p] # NoNode /\ waiting[p] = NoMeta => node[p].tag # "i",
           started', records' = <<>>, started' \in BOOLEAN,
           UNCHANGED <<node, hasty, ids, attached, big>>
    PROVE  EngineInv'
<1> DEFINE candidates == {p \in places : node[p] # NoNode /\ HasClass(node[p], "style")}
<1>1. Perform(candidates) /\ pending' = (pending \/ candidates # {})
  BY DEF OnTree
<1>2. \A p \in Place : node[p] # NoNode => Fits(node[p])
  BY DEF EngineInv, NodesFit
<1>3. \A p \in Place : p \in candidates <=> p \in places /\ node[p] # NoNode /\ node[p].tag = "i"
  BY <1>2, ShownFacts
<1>4. candidates \subseteq Place
  OBVIOUS
<1> HIDE DEF candidates
<1>5. /\ waiting' \in [Place -> Metas \cup {NoMeta}]
      /\ \A p \in Place :
            /\ waiting'[p] = IF p \in candidates /\ waiting[p] = NoMeta
                             THEN ParseMeta(node[p]) ELSE waiting[p]
            /\ (waiting'[p] = NoMeta) <=> (waiting[p] = NoMeta /\ p \notin candidates)
  BY <1>1, <1>3, PerformFacts
<1>6. attached \subseteq 1..MaxWindows
  BY WindowFacts
<1>7. EngineTyped'
  <2>1. pending' \in BOOLEAN
    BY <1>1 DEF EngineInv, EngineTyped
  <2> QED
    BY <1>5, <2>1 DEF EngineInv, EngineTyped
<1>8. NodesFit' /\ OneRecord' /\ StartsAtRest'
  BY DEF EngineInv, NodesFit, OneRecord, StartsAtRest
<1>9. NodesAreWindows'
  <2> SUFFICES ASSUME NEW w \in 1..MaxWindows, w > Len(ids) PROVE waiting'[w] = NoMeta
    BY DEF EngineInv, NodesAreWindows
  <2>1. w \in Place /\ waiting[w] = NoMeta /\ w \notin attached
    <3>1. ~(w \in 1..Len(ids))
      BY WindowFacts
    <3> QED
      BY <3>1, WindowFacts, PlaceFacts DEF EngineInv, NodesAreWindows
  <2>2. node[w] = NoNode
    BY <2>1 DEF EngineInv, NodesAreWindows
  <2> QED
    BY <1>3, <1>5, <2>1, <2>2
<1>10. PendingWaits'
  <2> SUFFICES ASSUME pending' PROVE \E p \in Place : waiting'[p] # NoMeta
    BY DEF PendingWaits
  <2>1. CASE pending
    <3>1. PICK p \in Place : waiting[p] # NoMeta
      BY <2>1 DEF EngineInv, PendingWaits
    <3> QED
      BY <1>5, <3>1
  <2>2. CASE candidates # {}
    BY <1>4, <1>5, <2>2
  <2> QED
    BY <1>1, <2>1, <2>2
<1>11. WrittenIsKnown'
  <2> SUFFICES ASSUME NEW p \in Place, node[p] # NoNode, waiting'[p] = NoMeta, node[p].tag = "i"
               PROVE  FALSE
    BY DEF WrittenIsKnown
  <2>1. waiting[p] = NoMeta /\ p \notin candidates
    BY <1>5
  <2> QED
    BY <1>3, <2>1
<1>12. SvgIsCurrent'
  <2> SUFFICES ASSUME NEW p \in Place, node[p] # NoNode, waiting'[p] = NoMeta,
                      node[p].tag = "svg"
               PROVE  node[p].name = ShownName(node[p]) /\ node[p].drawn = node[p].name
    BY DEF SvgIsCurrent
  <2>1. waiting[p] = NoMeta
    BY <1>5
  <2>2. records \notin {<<Changed("class", p)>>, <<Changed("data", p)>>}
    BY RecordFacts
  <2> QED
    BY <2>1, <2>2 DEF EngineInv, SvgIsCurrent
<1>13. UnhurriedMatch'
  <2> SUFFICES ASSUME NEW w \in attached \ hasty
               PROVE  /\ ShownName(node[w]) = Wanted(w)
                      /\ waiting'[w] # NoMeta => waiting'[w].name = Wanted(w)
    BY DEF UnhurriedMatch, Wanted
  <2>1. /\ ShownName(node[w]) = Wanted(w) /\ w \in Place
        /\ waiting[w] # NoMeta => waiting[w].name = Wanted(w)
    BY <1>6, PlaceFacts DEF EngineInv, UnhurriedMatch
  <2>2. CASE w \in candidates /\ waiting[w] = NoMeta
    <3>1. Fits(node[w]) /\ node[w].tag = "i" /\ waiting'[w] = ParseMeta(node[w])
      BY <1>2, <1>3, <1>5, <2>1, <2>2
    <3> QED
      BY <2>1, <3>1, ParseFacts
  <2>3. CASE ~(w \in candidates /\ waiting[w] = NoMeta)
    BY <1>5, <2>1, <2>3
  <2> QED
    BY <2>1, <2>2, <2>3
<1> QED
  BY <1>7, <1>8, <1>9, <1>10, <1>11, <1>12, <1>13 DEF EngineInv

LEMMA BootstrapKeepsEngine ==
    ASSUME WInv, EngineInv, Bootstrap, UNCHANGED <<windowVars, hasty>> PROVE EngineInv'
<1>1. /\ ~started /\ OnTree(Place) /\ started' = TRUE
      /\ UNCHANGED <<node, records, hasty, ids, attached, big>>
  BY DEF Bootstrap, windowVars
<1>2. records = <<>>
  BY <1>1 DEF EngineInv, StartsAtRest
<1> QED
  BY <1>1, <1>2, TreeKeepsEngine

\* What the observer is told, and that the engine has started by then.
LEMMA RecordCases ==
    ASSUME EngineInv, records # <<>>
    PROVE  /\ started /\ Tail(records) = <<>>
           /\ \/ Head(records) = Tree /\ records = <<Tree>>
              \/ \E w \in attached, type \in {"class", "data"} :
                    Head(records) = Changed(type, w) /\ records = <<Changed(type, w)>>
<1>1. started
  BY DEF EngineInv, StartsAtRest, EngineTyped
<1>2. \/ records = <<Tree>>
      \/ \E w \in attached, type \in {"class", "data"} : records = <<Changed(type, w)>>
  BY DEF EngineInv, OneRecord
<1>3. \A x : Head(<<x>>) = x /\ Tail(<<x>>) = <<>>
  OBVIOUS
<1> QED
  BY <1>1, <1>2, <1>3

LEMMA TreeChangedKeepsEngine ==
    ASSUME WInv, EngineInv, records # <<>>, TreeChanged(Head(records)),
           UNCHANGED <<windowVars, hasty>>
    PROVE  EngineInv'
<1>1. /\ Head(records).type = "childList" /\ OnTree(Head(records).places)
      /\ records' = Tail(records) /\ started' = started
      /\ UNCHANGED <<node, hasty, ids, attached, big>>
  BY DEF TreeChanged, windowVars
<1>2. records = <<Tree>> /\ Head(records) = Tree /\ started /\ records' = <<>>
  BY <1>1, RecordCases, RecordFacts
<1>3. Head(records).places = 1..MaxWindows
  BY <1>2, RecordFacts
<1>4. \A p \in Place \ (1..MaxWindows) :
          node[p] # NoNode /\ waiting[p] = NoMeta => node[p].tag # "i"
  BY <1>2, PlaceFacts DEF EngineInv, WrittenIsKnown
<1> QED
  BY <1>1, <1>2, <1>3, <1>4, PlaceFacts, TreeKeepsEngine

\* The change of a class gives an svg the name of the icon its classes are of.
LEMMA ClassChangedKeepsEngine ==
    ASSUME WInv, EngineInv, records # <<>>, ClassChanged(Head(records)),
           UNCHANGED <<windowVars, hasty>>
    PROVE  EngineInv'
<1>1. PICK w \in attached : records = <<Changed("class", w)>> /\ Head(records) = Changed("class", w)
  BY RecordCases, RecordFacts DEF ClassChanged
<1>2. /\ waiting' = waiting /\ pending' = pending /\ started' = started /\ hasty' = hasty
      /\ ids' = ids /\ attached' = attached /\ big' = big
  BY DEF ClassChanged, windowVars
<1>3. started /\ Tail(records) = <<>>
  BY RecordCases
<1>4. w \in 1..MaxWindows /\ w \in Place /\ attached \subseteq 1..MaxWindows
  BY WindowFacts, PlaceFacts
<1>5. node[w] # NoNode /\ Fits(node[w])
  BY <1>4 DEF EngineInv, NodesAreWindows, NodesFit
<1>6. /\ ShownName(node[w]) # Absent /\ node[w].tag \in {"i", "svg"}
      /\ IsReplaced(node[w]) <=> node[w].tag = "svg"
  BY <1>5, ShownFacts
<1>7. /\ \A p \in Place : node[p] # NoNode /\ waiting[p] = NoMeta => node[p].tag # "i"
      /\ \A p \in Place : p # w => records \notin {<<Changed("class", p)>>, <<Changed("data", p)>>}
  BY <1>1, <1>3, RecordFacts DEF EngineInv, WrittenIsKnown
<1>8. Changed("class", w).places = {w}
  BY RecordFacts
<1>9. CASE node[w].tag = "svg"
  <2> DEFINE f == [node[w] EXCEPT !.name = ShownName(node[w])]
  <2>1. node' = [node EXCEPT ![w] = f] /\ records' = Append(<<>>, Changed("data", w))
    BY <1>1, <1>3, <1>6, <1>8, <1>9 DEF ClassChanged, ShownName, Changed
  <2>2. records' = <<Changed("data", w)>>
    BY <2>1, RecordFacts
  <2>3. /\ Fits(f) /\ f # NoNode /\ f.tag = "svg" /\ f \in Elements
        /\ f.name = ShownName(node[w]) /\ ShownName(f) = ShownName(node[w])
    BY <1>5, <1>9, RenameFacts DEF Fits
  <2> HIDE DEF f
  <2>4. node'[w] = f /\ \A p \in Place : p # w => node'[p] = node[p]
    BY <1>4, <2>1 DEF EngineInv, EngineTyped
  <2>5. EngineTyped'
    BY <1>2, <2>1, <2>3 DEF EngineInv, EngineTyped
  <2>6. NodesFit'
    BY <2>3, <2>4 DEF EngineInv, NodesFit
  <2>7. OneRecord' /\ StartsAtRest' /\ PendingWaits'
    BY <1>2, <1>3, <2>2 DEF EngineInv, OneRecord, StartsAtRest, PendingWaits
  <2>8. NodesAreWindows'
    <3>1. \A p \in Place : node'[p] # NoNode <=> node[p] # NoNode
      BY <1>5, <2>3, <2>4
    <3> QED
      BY <1>2, <3>1, PlaceFacts DEF EngineInv, NodesAreWindows
  <2>9. WrittenIsKnown'
    <3>1. ASSUME NEW p \in Place, node'[p] # NoNode, waiting[p] = NoMeta PROVE node'[p].tag # "i"
      BY <1>7, <2>3, <2>4, <3>1
    <3> QED
      BY <1>2, <3>1 DEF WrittenIsKnown
  <2>10. SvgIsCurrent'
    <3> SUFFICES ASSUME NEW p \in Place, node'[p] # NoNode, waiting[p] = NoMeta,
                        node'[p].tag = "svg"
                 PROVE  /\ node'[p].name = ShownName(node'[p])
                        /\ p # w => node'[p].drawn = node'[p].name
      BY <1>2, <2>2 DEF SvgIsCurrent
    <3>1. CASE p = w
      BY <2>3, <2>4, <3>1
    <3>2. CASE p # w
      BY <1>7, <2>4, <3>2 DEF EngineInv, SvgIsCurrent
    <3> QED
      BY <3>1, <3>2
  <2>11. UnhurriedMatch'
    <3>1. \A u \in attached : ShownName(node'[u]) = ShownName(node[u])
      BY <1>4, <2>3, <2>4, PlaceFacts
    <3> QED
      BY <1>2, <3>1 DEF EngineInv, UnhurriedMatch, Wanted
  <2> QED
    BY <2>5, <2>6, <2>7, <2>8, <2>9, <2>10, <2>11 DEF EngineInv
<1>10. CASE node[w].tag = "i"
  <2>1. node' = node /\ records' = <<>>
    BY <1>1, <1>3, <1>6, <1>8, <1>10 DEF ClassChanged
  <2>2. waiting[w] # NoMeta
    BY <1>4, <1>5, <1>7, <1>10
  <2>3. SvgIsCurrent'
    <3> SUFFICES ASSUME NEW p \in Place, node[p] # NoNode, waiting[p] = NoMeta,
                        node[p].tag = "svg"
                 PROVE  node[p].name = ShownName(node[p]) /\ node[p].drawn = node[p].name
      BY <1>2, <2>1 DEF SvgIsCurrent
    <3> QED
      BY <1>7, <2>2 DEF EngineInv, SvgIsCurrent
  <2>4. WrittenIsKnown'
    BY <1>2, <1>7, <2>1 DEF WrittenIsKnown
  <2> QED
    BY <1>2, <1>3, <2>1, <2>3, <2>4
    DEF EngineInv, EngineTyped, NodesFit, OneRecord, NodesAreWindows, PendingWaits,
        StartsAtRest, UnhurriedMatch, Wanted
<1> QED
  BY <1>6, <1>9, <1>10

\* The change of data-icon has the svg replaced, unless it is to be already.
LEMMA DataChangedKeepsEngine ==
    ASSUME WInv, EngineInv, records # <<>>, DataChanged(Head(records)),
           UNCHANGED <<windowVars, hasty>>
    PROVE  EngineInv'
<1>1. PICK w \in attached : records = <<Changed("data", w)>> /\ Head(records) = Changed("data", w)
  BY RecordCases, RecordFacts DEF DataChanged
<1>2. /\ Perform({w}) /\ records' = <<>> /\ node' = node /\ pending' = pending
      /\ started' = started /\ hasty' = hasty
      /\ ids' = ids /\ attached' = attached /\ big' = big
  <2>1. Tail(records) = <<>> /\ Changed("data", w).places = {w}
    BY RecordCases, RecordFacts
  <2>2. Perform(Head(records).places)
    BY DEF DataChanged
  <2> QED
    BY <1>1, <2>1, <2>2 DEF DataChanged, windowVars
<1>3. started
  BY RecordCases
<1>4. w \in 1..MaxWindows /\ w \in Place /\ w \in Windows /\ attached \subseteq 1..MaxWindows
      /\ Windows = 1..Len(ids)
  BY WindowFacts, PlaceFacts
<1>5. node[w] # NoNode /\ Fits(node[w])
  BY <1>4 DEF EngineInv, NodesAreWindows, NodesFit
<1>6. /\ waiting' \in [Place -> Metas \cup {NoMeta}]
      /\ \A p \in Place :
            /\ waiting'[p] = IF p = w /\ waiting[p] = NoMeta
                             THEN ParseMeta(node[p]) ELSE waiting[p]
            /\ (waiting'[p] = NoMeta) <=> (waiting[p] = NoMeta /\ p # w)
  <2>1. \A p \in Place : p \in {w} => node[p] # NoNode
    BY <1>5
  <2>2. /\ waiting' \in [Place -> Metas \cup {NoMeta}]
        /\ \A p \in Place :
              /\ waiting'[p] = IF p \in {w} /\ waiting[p] = NoMeta
                               THEN ParseMeta(node[p]) ELSE waiting[p]
              /\ (waiting'[p] = NoMeta) <=> (waiting[p] = NoMeta /\ p \notin {w})
    BY <1>2, <2>1, PerformFacts
  <2> QED
    BY <2>2
<1>7. /\ records # <<Tree>> /\ records # <<Changed("class", w)>>
      /\ \A p \in Place : p # w => records \notin {<<Changed("class", p)>>, <<Changed("data", p)>>}
  BY <1>1, RecordFacts
<1>8. EngineTyped'
  BY <1>2, <1>6 DEF EngineInv, EngineTyped
<1>9. NodesFit' /\ OneRecord' /\ StartsAtRest'
  BY <1>2, <1>3 DEF EngineInv, NodesFit, OneRecord, StartsAtRest
<1>10. NodesAreWindows'
  <2> SUFFICES ASSUME NEW u \in 1..MaxWindows, u > Len(ids) PROVE waiting'[u] = NoMeta
    BY <1>2 DEF EngineInv, NodesAreWindows
  <2>1. u # w /\ u \in Place
    BY <1>4, WindowFacts, PlaceFacts
  <2> QED
    BY <1>6, <2>1 DEF EngineInv, NodesAreWindows
<1>11. PendingWaits'
  BY <1>4, <1>6 DEF PendingWaits
<1>12. WrittenIsKnown'
  BY <1>2, <1>3, <1>6, <1>7 DEF EngineInv, WrittenIsKnown
<1>13. SvgIsCurrent'
  <2> SUFFICES ASSUME NEW p \in Place, node[p] # NoNode, waiting'[p] = NoMeta,
                      node[p].tag = "svg"
               PROVE  node[p].name = ShownName(node[p]) /\ node[p].drawn = node[p].name
    BY <1>2 DEF SvgIsCurrent
  <2> QED
    BY <1>6, <1>7 DEF EngineInv, SvgIsCurrent
<1>14. UnhurriedMatch'
  <2> SUFFICES ASSUME NEW u \in attached \ hasty
               PROVE  /\ ShownName(node[u]) = Wanted(u)
                      /\ waiting'[u] # NoMeta => waiting'[u].name = Wanted(u)
    BY <1>2 DEF UnhurriedMatch, Wanted
  <2>1. /\ ShownName(node[u]) = Wanted(u) /\ u \in Place
        /\ waiting[u] # NoMeta => waiting[u].name = Wanted(u)
    BY <1>4, PlaceFacts DEF EngineInv, UnhurriedMatch
  <2>2. CASE u = w /\ waiting[w] = NoMeta
    <3>1. ParseMeta(node[w]).name = ShownName(node[w])
      <4>1. ParseMeta(node[w]).name = IF node[w].tag = "i" THEN ShownName(node[w]) ELSE node[w].name
        BY <1>5, ParseFacts
      <4>2. node[w].tag = "svg" => node[w].name = ShownName(node[w])
        BY <1>4, <1>5, <1>7, <2>2 DEF EngineInv, SvgIsCurrent
      <4>3. node[w].tag \in {"i", "svg"}
        BY <1>5, ShownFacts
      <4> QED
        BY <4>1, <4>2, <4>3
    <3> QED
      BY <1>6, <2>1, <2>2, <3>1
  <2>3. CASE ~(u = w /\ waiting[w] = NoMeta)
    BY <1>6, <2>1, <2>3
  <2> QED
    BY <2>1, <2>2, <2>3
<1> QED
  BY <1>8, <1>9, <1>10, <1>11, <1>12, <1>13, <1>14 DEF EngineInv

\* The frame draws what waits for it.
LEMMA FrameKeepsEngine ==
    ASSUME WInv, EngineInv, Frame, UNCHANGED <<windowVars, hasty>> PROVE EngineInv'
<1>1. /\ records = <<>> /\ \E p \in Place : waiting[p] # NoMeta
      /\ node' = [p \in Place |-> IF waiting[p] = NoMeta THEN node[p]
                                  ELSE Replace(node[p], waiting[p])]
      /\ waiting' = [p \in Place |-> NoMeta] /\ pending' = FALSE
      /\ records' = records /\ started' = started /\ hasty' = hasty
      /\ ids' = ids /\ attached' = attached /\ big' = big
  BY DEF Frame, Told, windowVars
<1>2. started
  BY <1>1 DEF EngineInv, StartsAtRest, EngineTyped
<1>3. attached \subseteq 1..MaxWindows
  BY WindowFacts
<1>4. ASSUME NEW p \in Place, node[p] # NoNode, waiting[p] # NoMeta
      PROVE  /\ node'[p] \in Elements /\ node'[p] # NoNode /\ Fits(node'[p])
             /\ node'[p].tag = "svg" /\ node'[p].name = waiting[p].name
             /\ node'[p].drawn = waiting[p].name /\ ShownName(node'[p]) = waiting[p].name
  <2>1. waiting[p] \in Metas
    BY <1>4 DEF EngineInv, EngineTyped
  <2>2. node'[p] = Svg(waiting[p])
    BY <1>1, <1>4 DEF Replace
  <2>3. Fits(Svg(waiting[p]))
    BY <2>1, SvgFacts
  <2> QED
    BY <2>1, <2>2, <2>3, SvgFacts DEF Fits
<1>5. \A p \in Place : /\ waiting[p] = NoMeta => node'[p] = node[p]
                       /\ node[p] = NoNode => node'[p] = NoNode
  BY <1>1 DEF Replace
<1>6. \A p \in Place : (node'[p] # NoNode) <=> (node[p] # NoNode)
  BY <1>4, <1>5
<1>7. EngineTyped'
  <2>1. \A p \in Place : node'[p] \in Elements \cup {NoNode}
    BY <1>4, <1>5 DEF EngineInv, EngineTyped
  <2>2. node' \in [Place -> Elements \cup {NoNode}]
    BY <1>1, <2>1
  <2> QED
    BY <1>1, <2>2 DEF EngineInv, EngineTyped
<1>8. NodesFit'
  BY <1>4, <1>5 DEF EngineInv, NodesFit
<1>9. OneRecord' /\ PendingWaits' /\ StartsAtRest'
  BY <1>1, <1>2 DEF EngineInv, OneRecord, PendingWaits, StartsAtRest
<1>10. NodesAreWindows'
  BY <1>1, <1>6, PlaceFacts DEF EngineInv, NodesAreWindows
<1>11. WrittenIsKnown'
  <2> SUFFICES ASSUME NEW p \in Place, node'[p] # NoNode, node'[p].tag = "i" PROVE FALSE
    BY DEF WrittenIsKnown
  <2>1. node[p] # NoNode /\ waiting[p] = NoMeta /\ node[p].tag = "i"
    BY <1>4, <1>5
  <2>2. records = <<Tree>>
    BY <1>2, <2>1 DEF EngineInv, WrittenIsKnown
  <2> QED
    BY <1>1, <2>2, RecordFacts
<1>12. SvgIsCurrent'
  <2> SUFFICES ASSUME NEW p \in Place, node'[p] # NoNode, node'[p].tag = "svg"
               PROVE  node'[p].name = ShownName(node'[p]) /\ node'[p].drawn = node'[p].name
    BY DEF SvgIsCurrent
  <2>1. CASE waiting[p] # NoMeta
    BY <1>4, <1>5, <2>1
  <2>2. CASE waiting[p] = NoMeta
    <3>1. records \notin {<<Changed("class", p)>>, <<Changed("data", p)>>}
      BY <1>1, RecordFacts
    <3> QED
      BY <1>5, <2>2, <3>1 DEF EngineInv, SvgIsCurrent
  <2> QED
    BY <2>1, <2>2
<1>13. UnhurriedMatch'
  <2> SUFFICES ASSUME NEW w \in attached \ hasty PROVE ShownName(node'[w]) = Wanted(w)
    BY <1>1, <1>3, PlaceFacts DEF UnhurriedMatch, Wanted
  <2>1. /\ w \in Place /\ node[w] # NoNode /\ ShownName(node[w]) = Wanted(w)
        /\ waiting[w] # NoMeta => waiting[w].name = Wanted(w)
    BY <1>3, PlaceFacts DEF EngineInv, UnhurriedMatch, NodesAreWindows
  <2> QED
    BY <1>4, <1>5, <2>1
<1> QED
  BY <1>7, <1>8, <1>9, <1>10, <1>11, <1>12, <1>13 DEF EngineInv

LEMMA EngineStep == WInv /\ EngineInv /\ [Next]_vars => EngineInv'
<1> SUFFICES ASSUME WInv, EngineInv, [Next]_vars PROVE EngineInv'
  OBVIOUS
<1>1. CASE \E id \in Id : Open(id)
  BY <1>1, OpenKeepsEngine
<1>2. CASE \E w \in Windows : Maximize(w) \/ Close(w)
  BY <1>2, MaximizeKeepsEngine, CloseKeepsEngine
<1>3. CASE OtherHandler
  <2>1. UNCHANGED <<engineVars, hasty>>
    BY <1>3 DEF OtherHandler
  <2>2. UNCHANGED <<ids, attached, big>>
    BY <1>3 DEF OtherHandler, MinimizeApp, TimerFires, ToggleMinimizedDrawer, UnminimizeApp
  <2> QED
    BY <2>1, <2>2, OthersKeepEngine
<1>4. CASE Engine
  <2>1. UNCHANGED <<windowVars, hasty>> /\ (Bootstrap \/ Deliver \/ Frame)
    BY <1>4 DEF Engine
  <2>2. CASE Deliver
    BY <2>1, <2>2, TreeChangedKeepsEngine, ClassChangedKeepsEngine, DataChangedKeepsEngine
       DEF Deliver
  <2> QED
    BY <2>1, <2>2, BootstrapKeepsEngine, FrameKeepsEngine
<1>5. CASE UNCHANGED vars
  BY <1>5, OthersKeepEngine DEF vars, windowVars
<1> QED
  BY <1>1, <1>2, <1>3, <1>4, <1>5 DEF Next

LEMMA EngineInvAlways == Spec => []EngineInv
BY EngineInitially, EngineStep, WInvAlways, PTL DEF Spec

\* Once the engine has nothing left to do, what is drawn is what the page asked
\* for.
LEMMA AtRest ==
    ASSUME EngineInv, started, Idle
    PROVE  /\ ~pending
           /\ \A p \in Place : node[p] # NoNode =>
                 /\ node[p].tag = "svg" /\ node[p].drawn = node[p].name
                 /\ node[p].drawn = ShownName(node[p])
<1>1. records = <<>> /\ \A p \in Place : waiting[p] = NoMeta
  BY DEF Idle, Told
<1>2. ~pending
  BY <1>1 DEF EngineInv, PendingWaits
<1>3. ASSUME NEW p \in Place, node[p] # NoNode
      PROVE  /\ node[p].tag = "svg" /\ node[p].drawn = node[p].name
             /\ node[p].drawn = ShownName(node[p])
  <2>1. records # <<Tree>> /\ records \notin {<<Changed("class", p)>>, <<Changed("data", p)>>}
    BY <1>1, RecordFacts
  <2>2. node[p].tag \in {"i", "svg"}
    BY <1>3, ShownFacts DEF EngineInv, NodesFit
  <2>3. node[p].tag = "svg"
    BY <1>1, <1>3, <2>1, <2>2 DEF EngineInv, WrittenIsKnown
  <2> QED
    BY <1>1, <1>3, <2>1, <2>3 DEF EngineInv, SvgIsCurrent
<1> QED
  BY <1>2, <1>3

\* When Font Awesome's engine rests, every icon of the page is an svg whose
\* classes, data-icon and path agree and nothing is marked as pending (perform,
\* observe and onTree of fontawesome-all.js), for any number of windows.
THEOREM IdleIsDrawnTheorem == Spec => []IdleIsDrawn
<1>1. EngineInv => IdleIsDrawn
  BY AtRest DEF IdleIsDrawn, ShownName
<1> QED
  BY <1>1, EngineInvAlways, PTL

\* However often an icon is replaced, the classes of the page stay and the width
\* is there once, that of the icon shown (makeInlineSvgAbstract and parseMeta of
\* fontawesome-all.js).
THEOREM ClassesKeptTheorem == Spec => []ClassesKept
<1>1. EngineInv => ClassesKept
  <2> SUFFICES ASSUME EngineInv, NEW p \in Place, node[p] # NoNode
               PROVE  LET widths == OfKind(node[p].classes, "width")
                      IN  /\ OfKind(node[p].classes, "page") = OfKind(Page, "page")
                          /\ Len(widths) = IF node[p].tag = "svg" THEN 1 ELSE 0
                          /\ started /\ Idle
                                => widths[1].of = Pack[<<node[p].prefix, node[p].name>>]
    BY DEF ClassesKept
  <2> DEFINE e == node[p]
             widths == OfKind(e.classes, "width")
  <2>1. Fits(e)
    BY DEF EngineInv, NodesFit
  <2>2. OfKind(e.classes, "page") = OfKind(Page, "page") /\ e.tag \in {"i", "svg"}
    BY <2>1 DEF Fits, Elements
  <2>3. CASE e.tag = "i"
    <3>1. widths = <<>>
      BY <2>1, <2>3 DEF Fits, WrittenFits
    <3>2. ~(started /\ Idle)
      BY <2>3, AtRest
    <3> QED
      BY <2>2, <2>3, <3>1, <3>2
  <2>4. CASE e.tag = "svg"
    <3>1. /\ widths = <<Class("width", Pack[<<"far", e.drawn>>])>> /\ e.prefix = "far"
      BY <2>1, <2>4 DEF Fits, SvgFits
    <3>2. Len(widths) = 1 /\ widths[1].of = Pack[<<"far", e.drawn>>]
      BY <3>1 DEF Class
    <3>3. started /\ Idle => e.drawn = e.name
      BY AtRest
    <3> QED
      BY <2>2, <2>4, <3>1, <3>2, <3>3
  <2> QED
    BY <2>2, <2>3, <2>4
<1> QED
  BY <1>1, EngineInvAlways, PTL

\* At rest a window's button shows what it will do, unless it was last used
\* while its icon waited for a frame (toggleMaximizeApp of output.js with the
\* engine), for any number of windows and whatever else happens meanwhile.
THEOREM IconMatchesWindowTheorem == Spec => []IconMatchesWindow
<1>1. WInv /\ EngineInv => IconMatchesWindow
  <2> SUFFICES ASSUME WInv, EngineInv, started, Idle, NEW w \in attached \ hasty
               PROVE  node[w].drawn = Wanted(w)
    BY DEF IconMatchesWindow, Wanted
  <2>1. w \in 1..MaxWindows /\ w \in Place
    BY WindowFacts, PlaceFacts
  <2>2. node[w] # NoNode /\ ShownName(node[w]) = Wanted(w)
    BY <2>1 DEF EngineInv, NodesAreWindows, UnhurriedMatch
  <2> QED
    BY <2>1, <2>2, AtRest
<1> QED
  BY <1>1, WInvAlways, EngineInvAlways, PTL

\* The windows, the elements and the changes on their way keep their shapes
\* under every handler of output.js and every step of the engine.
THEOREM DesktopTypeCorrect == Spec => []TypeOK
<1>1. WInv /\ EngineInv => TypeOK
  <2> SUFFICES ASSUME WInv, EngineInv PROVE TypeOK
    OBVIOUS
  <2>1. \A i \in 1..Len(records) : records[i].places \subseteq Place
    <3>1. CASE records = <<>>
      BY <3>1
    <3>2. CASE records # <<>>
      <4>1. /\ Head(records).places \subseteq Place
        <5>1. attached \subseteq Place
          BY WindowFacts, PlaceFacts
        <5> QED
          BY <3>2, <5>1, RecordCases, RecordFacts, PlaceFacts
      <4>2. \E x : records = <<x>>
        BY <3>2 DEF EngineInv, OneRecord
      <4> QED
        BY <4>1, <4>2
    <3> QED
      BY <3>1, <3>2
  <2> QED
    BY <2>1 DEF TypeOK, WInv, EngineInv, EngineTyped
<1> QED
  BY <1>1, WInvAlways, EngineInvAlways, PTL

(***************************************************************************)
(* The local ports of the dock, for every list of roles and applications   *)
(* short enough: at most ten roles (index.html has places for fewer) and   *)
(* at most a hundred applications in each.  With an eleventh role the      *)
(* digits run into one another: 1 11 0 00 and 1 1 10 00 are one port.      *)
(***************************************************************************)

RoleIndexes == 0..9
AppIndexes == 0..99

\* Ports of five digits, and longer ones.
LEMMA LocalPortValue ==
    ASSUME NEW r \in 0..9, NEW a \in 0..99
    PROVE  /\ a < 10 => LocalPort(r, a) = 10000 + 1000 * r + 100 * a
           /\ ~(a < 10) => LocalPort(r, a) = 100000 + 10000 * r + 100 * a
BY DEF LocalPort

LEMMA LocalPortInjective ==
    ASSUME NEW r \in RoleIndexes, NEW a \in AppIndexes,
           NEW q \in RoleIndexes, NEW b \in AppIndexes,
           LocalPort(r, a) = LocalPort(q, b)
    PROVE  r = q /\ a = b
<1> DEFINE P == LocalPort(r, a)
           Q == LocalPort(q, b)
<1>1. /\ a < 10 => P = 10000 + 1000 * r + 100 * a
      /\ ~(a < 10) => P = 100000 + 10000 * r + 100 * a
  BY LocalPortValue DEF RoleIndexes, AppIndexes
<1>2. /\ b < 10 => Q = 10000 + 1000 * q + 100 * b
      /\ ~(b < 10) => Q = 100000 + 10000 * q + 100 * b
  BY LocalPortValue DEF RoleIndexes, AppIndexes
<1>3. P = Q
  OBVIOUS
<1>4. r \in Int /\ 0 <= r /\ r <= 9 /\ q \in Int /\ 0 <= q /\ q <= 9
  BY DEF RoleIndexes
<1>5. a \in Int /\ 0 <= a /\ a <= 99 /\ b \in Int /\ 0 <= b /\ b <= 99
  BY DEF AppIndexes
<1> HIDE DEF P, Q
<1>6. CASE a < 10 /\ b < 10
  <2>1. 10 * r + a = 10 * q + b
    BY <1>1, <1>2, <1>3, <1>4, <1>5, <1>6
  <2> QED
    BY <2>1, <1>4, <1>5, <1>6
<1>7. CASE ~(a < 10) /\ ~(b < 10)
  <2>1. 100 * r + a = 100 * q + b
    BY <1>1, <1>2, <1>3, <1>4, <1>5, <1>7
  <2> QED
    BY <2>1, <1>4, <1>5
<1>8. CASE a < 10 /\ ~(b < 10)
  BY <1>1, <1>2, <1>3, <1>4, <1>5, <1>8
<1>9. CASE ~(a < 10) /\ b < 10
  BY <1>1, <1>2, <1>3, <1>4, <1>5, <1>9
<1> QED
  BY <1>6, <1>7, <1>8, <1>9

LEMMA RoleIndexFacts ==
    ASSUME Len(RoleList) <= 10, NEW role \in DockRole
    PROVE  RoleIndex(role) \in RoleIndexes /\ RoleList[RoleIndex(role) + 1] = role
<1> DEFINE n == CHOOSE i \in 1..Len(RoleList) : RoleList[i] = role
<1>1. RoleList \in Seq(DOMAIN AppsOf)
  BY DockAssumption
<1>2. \E i \in 1..Len(RoleList) : RoleList[i] = role
  BY <1>1 DEF DockRole, Range
<1>3. n \in 1..Len(RoleList) /\ RoleList[n] = role
  BY <1>2
<1>4. RoleIndex(role) = n - 1
  BY DEF RoleIndex
<1> HIDE DEF n
<1>5. n \in 1..10
  BY <1>1, <1>3
<1> QED
  BY <1>3, <1>4, <1>5 DEF RoleIndexes

LEMMA AppIndexFacts ==
    ASSUME NEW role, NEW app, AppsOf[role] \in Seq(App), Len(AppsOf[role]) <= 100,
           Contains(AppsOf[role], app)
    PROVE  /\ AppIndex(role, app) \in AppIndexes
           /\ AppsOf[role][AppIndex(role, app) + 1] = app
<1> DEFINE n == CHOOSE i \in 1..Len(AppsOf[role]) : AppsOf[role][i] = app
<1>1. \E i \in 1..Len(AppsOf[role]) : AppsOf[role][i] = app
  BY DEF Contains
<1>2. n \in 1..Len(AppsOf[role]) /\ AppsOf[role][n] = app
  BY <1>1
<1>3. AppIndex(role, app) = n - 1
  BY DEF AppIndex
<1> HIDE DEF n
<1>4. n \in 1..100
  BY <1>2
<1> QED
  BY <1>2, <1>3, <1>4 DEF AppIndexes

\* Two applications of the dock have two local ports: the digits of the indexes
\* in output.js can be told apart again.
THEOREM PortsAreDistinct ==
    ASSUME Len(RoleList) <= 10,
           \A role \in DockRole : AppsOf[role] \in Seq(App) /\ Len(AppsOf[role]) <= 100
    PROVE  PortsDistinct
<1> SUFFICES ASSUME NEW ra \in Icon, NEW qb \in Icon,
                    PortOf(ra[1], ra[2]) = PortOf(qb[1], qb[2])
             PROVE  ra = qb
  BY DEF PortsDistinct
<1>1. /\ ra \in DockRole \X App /\ Contains(AppsOf[ra[1]], ra[2])
      /\ qb \in DockRole \X App /\ Contains(AppsOf[qb[1]], qb[2])
  BY DEF Icon
<1>2. /\ RoleIndex(ra[1]) \in RoleIndexes /\ RoleList[RoleIndex(ra[1]) + 1] = ra[1]
      /\ RoleIndex(qb[1]) \in RoleIndexes /\ RoleList[RoleIndex(qb[1]) + 1] = qb[1]
  BY <1>1, RoleIndexFacts
<1>3. /\ AppIndex(ra[1], ra[2]) \in AppIndexes
      /\ AppsOf[ra[1]][AppIndex(ra[1], ra[2]) + 1] = ra[2]
      /\ AppIndex(qb[1], qb[2]) \in AppIndexes
      /\ AppsOf[qb[1]][AppIndex(qb[1], qb[2]) + 1] = qb[2]
  BY <1>1, AppIndexFacts
<1>4. /\ RoleIndex(ra[1]) = RoleIndex(qb[1])
      /\ AppIndex(ra[1], ra[2]) = AppIndex(qb[1], qb[2])
  BY <1>2, <1>3, LocalPortInjective DEF PortOf
<1>5. ra[1] = qb[1]
  BY <1>2, <1>4
<1>6. ra[2] = qb[2]
  BY <1>3, <1>4, <1>5
<1> QED
  BY <1>1, <1>5, <1>6

(***************************************************************************)
(* Filling the dock                                                        *)
(***************************************************************************)

\* The redirect takes effect once: nothing is asked for before it, and the
\* dock is empty until the one question it asks is answered.
FillInv ==
    /\ login \in {"button", "frame", "gone"}
    /\ asked \in {0, 1}
    /\ icons \in [Icon -> {0, 1}]
    /\ login # "gone" => asked = 0
    /\ login # "gone" \/ asked = 1 => \A ra \in Icon : icons[ra] = 0

LEMMA FillStep == FillInv /\ [DockNext]_dockVars => FillInv'
<1> SUFFICES ASSUME FillInv, [DockNext]_dockVars PROVE FillInv'
  OBVIOUS
<1>1. CASE UNCHANGED <<login, asked, icons>>
  BY <1>1 DEF FillInv
<1>2. CASE Login
  BY <1>2 DEF Login, FillInv
<1>3. ASSUME NEW granted \in BOOLEAN, Callback(granted) PROVE FillInv'
  BY <1>3 DEF Callback, FillInv
<1>4. ASSUME NEW ok \in BOOLEAN, RolesAnswered(ok) PROVE FillInv'
  <2>1. asked = 1 /\ login = "gone" /\ \A ra \in Icon : icons[ra] = 0
    BY <1>4 DEF RolesAnswered, FillInv
  <2>2. asked' = 0 /\ login' = "gone"
    BY <1>4, <2>1 DEF RolesAnswered
  <2>3. icons' \in [Icon -> {0, 1}]
    BY <1>4, <2>1 DEF RolesAnswered
  <2>4. QED
    BY <2>2, <2>3 DEF FillInv
<1>5. QED
  BY <1>1, <1>2, <1>3, <1>4
  DEF DockNext, dockVars, desktopVars, OpenApp, Advance, VirtuesAnswered,
      LaunchRequested, LaunchAnswered, ApplicationAnswered, AppStarted,
      SshConnects, Load, Stop, SshNotices

\* The dock is filled once, however often the page of the redirect is visited
\* (output.js: executeExcaliburCallback removes the frame it is found by).
THEOREM DockFilledOnceTheorem == DockSpec => []DockFilledOnce
<1>1. DockInit => FillInv
  BY DEF DockInit, FillInv
<1>2. FillInv => DockFilledOnce
  BY DEF FillInv, DockFilledOnce
<1>3. QED
  BY <1>1, FillStep, <1>2, PTL DEF DockSpec

(***************************************************************************)
(* Windows, tunnels and ssh                                                *)
(***************************************************************************)

\* Types, as far as the invariants below need them.
Opening == [role : DockRole, app : App,
            step : {"list", "launch", "boot", "get", "start", "ended"},
            ip : Address \cup {Null}, known : BOOLEAN]
VirtueState == [state : {"STOPPED", "LAUNCHING", "RUNNING"}, address : Address \cup {Null},
                listed : Address \cup {Null}, listedApps : SUBSET App, apps : SUBSET App]
Ssh == [ip : Address \cup {Null}, app : App, port : Port]
Tunnel == [role : DockRole, app : App, up : BOOLEAN]
Window == [role : DockRole, app : App, shows : (DockRole \X App) \cup {None, Failed}]

\* Openings and windows are of applications in the dock.
DockTyped ==
    /\ openings \in Seq(Opening)
    /\ \A i \in 1..Len(openings) : <<openings[i].role, openings[i].app>> \in Icon
    /\ virtue \in [DockRole -> VirtueState]
    /\ ssh \subseteq Ssh
    /\ tunnel \in [Port -> Tunnel \cup {None}]
    /\ windows \in Seq(Window)
    /\ \A w \in 1..Len(windows) : <<windows[w].role, windows[w].app>> \in Icon
    /\ freed \in BOOLEAN

LEMMA IconFacts ==
    ASSUME NEW ra \in Icon
    PROVE  /\ ra[1] \in DockRole /\ ra[2] \in App /\ ra = <<ra[1], ra[2]>>
           /\ PortOf(ra[1], ra[2]) \in Port
BY DEF Icon, Port

LEMMA InitDockTyped == DockInit => DockTyped
<1> SUFFICES ASSUME DockInit PROVE DockTyped
  OBVIOUS
<1>1. virtue \in [DockRole -> VirtueState]
  <2>1. PICK at \in [DockRole -> Address \cup {Null}] :
           virtue = [r \in DockRole |->
                       [state |-> IF at[r] = Null THEN "STOPPED" ELSE "RUNNING",
                        address |-> at[r], listed |-> at[r], listedApps |-> {}, apps |-> {}]]
    BY DEF DockInit
  <2>2. ASSUME NEW r \in DockRole PROVE virtue[r] \in VirtueState
    <3>1. at[r] \in Address \cup {Null}
      OBVIOUS
    <3>2. QED
      BY <2>1, <3>1 DEF VirtueState
  <2>3. QED
    BY <2>1, <2>2
<1>2. openings = << >> /\ windows = << >>
  BY DEF DockInit
<1>3. ssh = {} /\ tunnel = [p \in Port |-> None] /\ freed = FALSE
  BY DEF DockInit
<1>4. << >> \in Seq(Opening) /\ << >> \in Seq(Window) /\ Len(<< >>) = 0
  OBVIOUS
<1>5. /\ openings \in Seq(Opening) /\ 1..Len(openings) = {}
      /\ windows \in Seq(Window) /\ 1..Len(windows) = {}
  BY <1>2, <1>4
<1>6. tunnel \in [Port -> Tunnel \cup {None}]
  BY <1>3
<1>7. QED
  BY <1>1, <1>3, <1>5, <1>6 DEF DockTyped

\* The parts of a chain and of its virtue.
LEMMA OpeningFacts ==
    ASSUME DockTyped, NEW i \in 1..Len(openings)
    PROVE  /\ openings[i] \in Opening
           /\ openings[i].role \in DockRole /\ openings[i].app \in App
           /\ openings[i].ip \in Address \cup {Null}
           /\ openings[i].known \in BOOLEAN
           /\ virtue[openings[i].role] \in VirtueState
<1>1. openings \in Seq(Opening) /\ virtue \in [DockRole -> VirtueState]
  BY DEF DockTyped
<1>2. openings[i] \in Opening
  BY <1>1
<1>3. /\ openings[i].role \in DockRole /\ openings[i].app \in App
      /\ openings[i].ip \in Address \cup {Null} /\ openings[i].known \in BOOLEAN
  BY <1>2 DEF Opening
<1>4. QED
  BY <1>1, <1>2, <1>3

\* A chain of requests that moves on.
LEMMA MoveTyped ==
    ASSUME DockTyped, NEW i \in 1..Len(openings), NEW o \in Opening,
           openings' = [openings EXCEPT ![i] = o],
           o.role = openings[i].role, o.app = openings[i].app
    PROVE  /\ openings' \in Seq(Opening)
           /\ Len(openings') = Len(openings)
           /\ openings'[i] = o
           /\ \A j \in 1..Len(openings) : j # i => openings'[j] = openings[j]
           /\ \A j \in 1..Len(openings') : <<openings'[j].role, openings'[j].app>> \in Icon
<1>1. openings \in Seq(Opening)
  BY DEF DockTyped
<1>2. /\ openings' \in Seq(Opening) /\ Len(openings') = Len(openings)
      /\ openings'[i] = o
      /\ \A j \in 1..Len(openings) : j # i => openings'[j] = openings[j]
  BY <1>1
<1>3. \A j \in 1..Len(openings') : <<openings'[j].role, openings'[j].app>> \in Icon
  BY <1>2 DEF DockTyped
<1>4. QED
  BY <1>2, <1>3

\* Two virtues never have one address, and a virtue has one unless it is
\* stopped.
AddressesHeld ==
    /\ \A r \in DockRole : virtue[r].address # Null <=> virtue[r].state # "STOPPED"
    /\ \A r, q \in DockRole :
          virtue[r].address = virtue[q].address /\ virtue[r].address # Null => r = q

\* Until an address is given back, the list of virtues is true, and what a
\* callback took from it is the address of that virtue or none.
ListTrue ==
    ~freed =>
        /\ \A r \in DockRole : virtue[r].listed = virtue[r].address
        /\ \A i \in 1..Len(openings) :
              openings[i].ip \in {Null, virtue[openings[i].role].address}

\* An ssh was started for an application of the dock, on the application's own
\* port and, until an address is given back, to its own virtue.
SshOfItsApp ==
    \A p \in ssh : \E ra \in Icon :
        /\ p.app = ra[2] /\ p.port = PortOf(ra[1], ra[2])
        /\ ~freed => p.ip \in {Null, virtue[ra[1]].address}

\* So was the tunnel that listens there.
TunnelOfItsApp ==
    \A p \in Port : tunnel[p] # None =>
        \E ra \in Icon :
            /\ p = PortOf(ra[1], ra[2]) /\ tunnel[p].app = ra[2]
            /\ ~freed => tunnel[p].role = ra[1]

\* WindowShowsItsApp is about the end of the chain; what makes it inductive is
\* the same of every link before it.
WindowInv == /\ DockTyped /\ AddressesHeld /\ ListTrue
             /\ SshOfItsApp /\ TunnelOfItsApp /\ WindowShowsItsApp

LEMMA InitWindowInv == DockInit => WindowInv
<1> SUFFICES ASSUME DockInit PROVE WindowInv
  OBVIOUS
<1>1. DockTyped
  BY InitDockTyped
<1>2. PICK at \in [DockRole -> Address \cup {Null}] :
         /\ \A r, q \in DockRole : at[r] = at[q] /\ at[r] # Null => r = q
         /\ virtue = [r \in DockRole |->
                        [state |-> IF at[r] = Null THEN "STOPPED" ELSE "RUNNING",
                         address |-> at[r], listed |-> at[r], listedApps |-> {}, apps |-> {}]]
  BY DEF DockInit
<1>3. \A r \in DockRole : /\ virtue[r].address = at[r] /\ virtue[r].listed = at[r]
                          /\ virtue[r].state = IF at[r] = Null THEN "STOPPED" ELSE "RUNNING"
  BY <1>2
<1>4. AddressesHeld
  BY <1>2, <1>3 DEF AddressesHeld
<1>5. 1..Len(openings) = {} /\ 1..Len(windows) = {}
  <2>1. openings = << >> /\ windows = << >> /\ Len(<< >>) = 0
    BY DEF DockInit
  <2>2. QED
    BY <2>1
<1>6. ListTrue /\ SshOfItsApp /\ TunnelOfItsApp /\ WindowShowsItsApp
  BY <1>3, <1>5 DEF DockInit, ListTrue, SshOfItsApp, TunnelOfItsApp, WindowShowsItsApp
<1>7. QED
  BY <1>1, <1>4, <1>6 DEF WindowInv

LEMMA WindowUnchanged ==
    ASSUME WindowInv, UNCHANGED <<openings, virtue, ssh, tunnel, windows, freed>>
    PROVE  WindowInv'
BY DEF WindowInv, DockTyped, AddressesHeld, ListTrue, SshOfItsApp, TunnelOfItsApp,
       WindowShowsItsApp

\* A chain takes a step, and its virtue may change as long as no address goes
\* by unnoticed: nothing the windows, the tunnels and ssh rely on is disturbed.
LEMMA ChainMoves ==
    ASSUME WindowInv, NEW i \in 1..Len(openings), NEW o \in Opening,
           openings' = [openings EXCEPT ![i] = o],
           o.role = openings[i].role, o.app = openings[i].app,
           ~freed => o.ip \in {Null, openings[i].ip, virtue[o.role].address},
           virtue' \in [DockRole -> VirtueState], AddressesHeld',
           freed' \in BOOLEAN, freed => freed',
           ~freed' => \A r \in DockRole : /\ virtue'[r].listed = virtue'[r].address
                                          /\ virtue[r].address \in {Null, virtue'[r].address},
           UNCHANGED <<ssh, tunnel, windows>>
    PROVE  WindowInv'
<1>1. /\ openings' \in Seq(Opening)
      /\ Len(openings') = Len(openings)
      /\ openings'[i] = o
      /\ \A j \in 1..Len(openings) : j # i => openings'[j] = openings[j]
      /\ \A j \in 1..Len(openings') : <<openings'[j].role, openings'[j].app>> \in Icon
  BY MoveTyped DEF WindowInv
<1>2. DockTyped'
  BY <1>1 DEF WindowInv, DockTyped
<1>3. ListTrue'
  <2> SUFFICES ASSUME ~freed', NEW j \in 1..Len(openings)
               PROVE  openings'[j].ip \in {Null, virtue'[openings'[j].role].address}
    BY <1>1 DEF ListTrue
  <2>1. openings'[j].role = openings[j].role /\ openings[j].role \in DockRole
    <3>1. openings[j] \in Opening
      BY DEF WindowInv, DockTyped
    <3>2. openings'[j].role = openings[j].role
      BY <1>1
    <3>3. QED
      BY <3>1, <3>2 DEF Opening
  <2>2. openings[j].ip \in {Null, virtue[openings[j].role].address}
    BY DEF WindowInv, ListTrue
  <2>3. openings'[j].ip \in {Null, openings[j].ip, virtue[openings[j].role].address}
    BY <1>1, <2>1
  <2>4. QED
    BY <2>1, <2>2, <2>3
<1>4. SshOfItsApp'
  <2> SUFFICES ASSUME NEW p \in ssh
               PROVE  \E ra \in Icon :
                         /\ p.app = ra[2] /\ p.port = PortOf(ra[1], ra[2])
                         /\ ~freed' => p.ip \in {Null, virtue'[ra[1]].address}
    BY DEF SshOfItsApp
  <2>1. PICK ra \in Icon : /\ p.app = ra[2] /\ p.port = PortOf(ra[1], ra[2])
                           /\ ~freed => p.ip \in {Null, virtue[ra[1]].address}
    BY DEF WindowInv, SshOfItsApp
  <2>2. ra[1] \in DockRole
    BY IconFacts
  <2>3. QED
    BY <2>1, <2>2
<1>5. TunnelOfItsApp' /\ WindowShowsItsApp'
  BY DEF WindowInv, TunnelOfItsApp, WindowShowsItsApp
<1>6. QED
  BY <1>2, <1>3, <1>4, <1>5 DEF WindowInv

\* The callbacks that look at an answer and change nothing else.
LEMMA WindowCallbacks ==
    ASSUME WindowInv, NEW i \in 1..Len(openings),
           VirtuesAnswered(i) \/ ApplicationAnswered(i)
    PROVE  WindowInv'
<1>0. /\ openings[i] \in Opening /\ openings[i].role \in DockRole
      /\ virtue[openings[i].role] \in VirtueState
  BY OpeningFacts DEF WindowInv
<1>1. /\ openings[i] \in Opening /\ openings[i].role \in DockRole
      /\ virtue[openings[i].role].listed \in Address \cup {Null}
      /\ virtue \in [DockRole -> VirtueState] /\ freed \in BOOLEAN
  BY <1>0 DEF WindowInv, DockTyped, VirtueState
<1>2. ~freed => virtue[openings[i].role].listed = virtue[openings[i].role].address
  BY <1>1 DEF WindowInv, ListTrue
<1>3. UNCHANGED <<virtue, ssh, tunnel, windows, freed>>
  BY DEF VirtuesAnswered, ApplicationAnswered, desktopVars
<1>4. ~freed' => \A r \in DockRole : /\ virtue'[r].listed = virtue'[r].address
                                     /\ virtue[r].address \in {Null, virtue'[r].address}
  BY <1>3 DEF WindowInv, ListTrue
<1>5. AddressesHeld'
  BY <1>3 DEF WindowInv, AddressesHeld
<1>6. ASSUME NEW o \in Opening, openings' = [openings EXCEPT ![i] = o],
             o.role = openings[i].role, o.app = openings[i].app,
             ~freed => o.ip \in {Null, openings[i].ip, virtue[o.role].address}
      PROVE  WindowInv'
  BY <1>1, <1>3, <1>4, <1>5, <1>6, ChainMoves
<1>7. CASE VirtuesAnswered(i)
  <2> DEFINE o == [openings[i] EXCEPT !.step = "launch", !.ip = virtue[openings[i].role].listed]
             e == [openings[i] EXCEPT !.step = "ended"]
  <2>1. openings' = [openings EXCEPT ![i] = o] \/ openings' = [openings EXCEPT ![i] = e]
    BY <1>7 DEF VirtuesAnswered
  <2>2. /\ o \in Opening /\ o.role = openings[i].role /\ o.app = openings[i].app
        /\ o.ip = virtue[openings[i].role].listed
    BY <1>1 DEF Opening
  <2>3. /\ e \in Opening /\ e.role = openings[i].role /\ e.app = openings[i].app
        /\ e.ip = openings[i].ip
    BY <1>1 DEF Opening
  <2> HIDE DEF o, e
  <2>4. QED
    BY <1>2, <1>6, <2>1, <2>2, <2>3
<1>8. CASE ApplicationAnswered(i)
  <2>1. PICK known \in BOOLEAN :
           openings' = [openings EXCEPT ![i].step = "start", ![i].known = known]
    BY <1>8 DEF ApplicationAnswered
  <2> DEFINE o == [openings[i] EXCEPT !.step = "start", !.known = known]
  <2>2. openings' = [openings EXCEPT ![i] = o]
    BY <2>1
  <2>3. /\ o \in Opening /\ o.role = openings[i].role /\ o.app = openings[i].app
        /\ o.ip = openings[i].ip
    BY <1>1 DEF Opening
  <2> HIDE DEF o
  <2>4. QED
    BY <1>6, <2>2, <2>3
<1>9. QED
  BY <1>7, <1>8

\* An application is clicked: a chain without an address begins.
LEMMA WindowOpens ==
    ASSUME WindowInv, NEW ra \in Icon, OpenApp(ra[1], ra[2])
    PROVE  WindowInv'
<1> DEFINE o == [role |-> ra[1], app |-> ra[2], step |-> "list", ip |-> Null, known |-> FALSE]
<1>1. o \in Opening /\ <<o.role, o.app>> \in Icon /\ o.ip = Null
  BY IconFacts DEF Opening
<1>2. /\ openings' = Append(openings, o) /\ UNCHANGED <<virtue, ssh, tunnel, windows, freed>>
  BY DEF OpenApp, desktopVars
<1> HIDE DEF o
<1>3. openings \in Seq(Opening)
  BY DEF WindowInv, DockTyped
<1>4. /\ openings' \in Seq(Opening) /\ Len(openings') = Len(openings) + 1
      /\ \A j \in 1..Len(openings') :
            openings'[j] = o \/ (j \in 1..Len(openings) /\ openings'[j] = openings[j])
  BY <1>1, <1>2, <1>3
<1>5. DockTyped'
  BY <1>1, <1>2, <1>4 DEF WindowInv, DockTyped
<1>6. ListTrue'
  BY <1>1, <1>2, <1>4 DEF WindowInv, ListTrue
<1>7. AddressesHeld' /\ SshOfItsApp' /\ TunnelOfItsApp' /\ WindowShowsItsApp'
  BY <1>2 DEF WindowInv, AddressesHeld, SshOfItsApp, TunnelOfItsApp, WindowShowsItsApp
<1>8. QED
  BY <1>5, <1>6, <1>7 DEF WindowInv

\* A chain that waits for its launch is alone with its virtue: Excalibur does
\* not launch one again that it is launching.
BootHeld ==
    \A i \in 1..Len(openings) : openings[i].step = "boot" =>
        /\ virtue[openings[i].role].state = "LAUNCHING"
        /\ \A j \in 1..Len(openings) :
              openings[j].step = "boot" /\ openings[j].role = openings[i].role => j = i

LEMMA BootMoves ==
    ASSUME DockTyped, BootHeld, NEW i \in 1..Len(openings), NEW o,
           openings' = [openings EXCEPT ![i] = o], o.role = openings[i].role,
           o.step = "boot" =>
              /\ virtue'[o.role].state = "LAUNCHING"
              /\ \A j \in 1..Len(openings) :
                    openings[j].step = "boot" => openings[j].role # o.role,
           \A j \in 1..Len(openings) :
              j # i /\ openings[j].step = "boot" => virtue'[openings[j].role].state = "LAUNCHING"
    PROVE  BootHeld'
<1>1. openings \in Seq(Opening)
  BY DEF DockTyped
<1>2. /\ Len(openings') = Len(openings) /\ openings'[i] = o
      /\ \A j \in 1..Len(openings) : j # i => openings'[j] = openings[j]
  BY <1>1
<1>3. QED
  BY <1>2 DEF BootHeld

LEMMA BootUnchanged == BootHeld /\ UNCHANGED <<openings, virtue>> => BootHeld'
BY DEF BootHeld

LEMMA BootStep == DockTyped /\ BootHeld /\ [DockNext]_dockVars => BootHeld'
<1> SUFFICES ASSUME DockTyped, BootHeld, [DockNext]_dockVars PROVE BootHeld'
  OBVIOUS
<1>0. openings \in Seq(Opening) /\ virtue \in [DockRole -> VirtueState]
  BY DEF DockTyped
<1>1. ASSUME NEW ra \in Icon, OpenApp(ra[1], ra[2]) PROVE BootHeld'
  <2> DEFINE o == [role |-> ra[1], app |-> ra[2], step |-> "list", ip |-> Null, known |-> FALSE]
  <2>1. openings' = Append(openings, o) /\ virtue' = virtue /\ o.step = "list"
    BY <1>1 DEF OpenApp
  <2> HIDE DEF o
  <2>2. \A j \in 1..Len(openings') : openings'[j].step = "boot" =>
           j \in 1..Len(openings) /\ openings'[j] = openings[j]
    BY <1>0, <2>1
  <2>3. QED
    BY <2>1, <2>2 DEF BootHeld
<1>2. ASSUME NEW i \in 1..Len(openings),
             \/ VirtuesAnswered(i) \/ ApplicationAnswered(i)
             \/ AppStarted(i) \/ LaunchRequested(i)
             \/ LaunchAnswered(i)
      PROVE  BootHeld'
  <2> DEFINE role == openings[i].role
  <2>0. openings[i] \in Opening /\ role \in DockRole /\ virtue[role] \in VirtueState
    BY OpeningFacts
  <2>1. ASSUME NEW o, openings' = [openings EXCEPT ![i] = o], o.role = role,
               o.step # "boot", \A r \in DockRole : virtue'[r].state = virtue[r].state
        PROVE  BootHeld'
    <3>1. \A j \in 1..Len(openings) : openings[j].role \in DockRole
      BY OpeningFacts
    <3>2. \A j \in 1..Len(openings) :
             j # i /\ openings[j].step = "boot" => virtue'[openings[j].role].state = "LAUNCHING"
      BY <2>1, <3>1 DEF BootHeld
    <3>3. QED
      BY <2>1, <3>2, BootMoves
  <2>2. ASSUME NEW step, openings' = [openings EXCEPT ![i].step = step]
        PROVE  \E o : /\ openings' = [openings EXCEPT ![i] = o]
                      /\ o.role = role /\ o.step = step
    <3>1. openings' = [openings EXCEPT ![i] = [openings[i] EXCEPT !.step = step]]
      BY <2>2
    <3>2. [openings[i] EXCEPT !.step = step].step = step
          /\ [openings[i] EXCEPT !.step = step].role = role
      BY <2>0 DEF Opening
    <3>3. QED
      BY <3>1, <3>2
  <2>a. ASSUME NEW step, openings' = [openings EXCEPT ![i].step = step], step # "boot",
               \A r \in DockRole : virtue'[r].state = virtue[r].state
        PROVE  BootHeld'
    <3>1. PICK o : openings' = [openings EXCEPT ![i] = o] /\ o.role = role /\ o.step = step
      BY <2>2, <2>a
    <3>2. QED
      BY <2>1, <2>a, <3>1
  <2>3. CASE VirtuesAnswered(i)
    <3> DEFINE o == [openings[i] EXCEPT !.step = "launch", !.ip = virtue[openings[i].role].listed]
    <3>1. /\ virtue' = virtue
          /\ openings' = [openings EXCEPT ![i] = o] \/ openings' = [openings EXCEPT ![i].step = "ended"]
      BY <2>3 DEF VirtuesAnswered
    <3>2. o.step = "launch" /\ o.role = role
      BY <2>0 DEF Opening
    <3> HIDE DEF o
    <3>3. QED
      BY <2>1, <2>a, <3>1, <3>2
  <2>4. CASE ApplicationAnswered(i)
    <3>1. PICK known \in BOOLEAN :
             openings' = [openings EXCEPT ![i].step = "start", ![i].known = known]
      BY <2>4 DEF ApplicationAnswered
    <3> DEFINE o == [openings[i] EXCEPT !.step = "start", !.known = known]
    <3>2. openings' = [openings EXCEPT ![i] = o] /\ virtue' = virtue
      BY <2>4, <3>1 DEF ApplicationAnswered
    <3>3. o.step = "start" /\ o.role = role
      BY <2>0 DEF Opening
    <3> HIDE DEF o
    <3>4. QED
      BY <2>1, <3>2, <3>3
  <2>5. CASE AppStarted(i)
    <3>1. openings' = [openings EXCEPT ![i].step = "ended"]
      BY <2>5 DEF AppStarted
    <3>2. \A r \in DockRole : virtue'[r].state = virtue[r].state
      BY <1>0, <2>0, <2>5 DEF AppStarted, StartsIn, VirtueState
    <3>3. QED
      BY <2>a, <3>1, <3>2
  <2>6. CASE LaunchRequested(i)
    <3>1. CASE openings' = [openings EXCEPT ![i].step = "get"] /\ virtue' = virtue
      BY <2>a, <3>1
    <3>2. ASSUME NEW a \in Address, virtue[role].state = "STOPPED",
                 virtue' = [virtue EXCEPT ![role].state = "LAUNCHING",
                                          ![role].address = a, ![role].listed = a],
                 openings' = [openings EXCEPT ![i].step = "boot"]
          PROVE  BootHeld'
      <4>1. virtue'[role].state = "LAUNCHING" /\ \A r \in DockRole : r # role => virtue'[r] = virtue[r]
        BY <1>0, <2>0, <3>2 DEF VirtueState
      <4>2. \A j \in 1..Len(openings) : openings[j].step = "boot" => openings[j].role # role
        BY <3>2 DEF BootHeld
      <4>3. \A j \in 1..Len(openings) :
               openings[j].step = "boot" => virtue'[openings[j].role].state = "LAUNCHING"
        BY <4>1, <4>2, OpeningFacts DEF BootHeld
      <4>4. PICK o : openings' = [openings EXCEPT ![i] = o] /\ o.role = role
        BY <2>2, <3>2
      <4>5. QED
        BY <4>1, <4>2, <4>3, <4>4, BootMoves
    <3>3. QED
      BY <2>6, <3>1, <3>2 DEF LaunchRequested, Advance
  <2>7. CASE LaunchAnswered(i)
    <3>1. openings[i].step = "boot" /\ openings' = [openings EXCEPT ![i].step = "get"]
      BY <2>7 DEF LaunchAnswered, Advance
    <3>2. \A r \in DockRole : r # role => virtue'[r] = virtue[r]
      BY <1>0, <2>7 DEF LaunchAnswered
    <3>3. \A j \in 1..Len(openings) :
             j # i /\ openings[j].step = "boot" => virtue'[openings[j].role].state = "LAUNCHING"
      BY <3>1, <3>2, OpeningFacts DEF BootHeld
    <3>4. PICK o : /\ openings' = [openings EXCEPT ![i] = o]
                   /\ o.role = role /\ o.step = "get"
      BY <2>2, <3>1
    <3>5. QED
      BY <3>3, <3>4, BootMoves
  <2>8. QED
    BY <1>2, <2>3, <2>4, <2>5, <2>6, <2>7
<1>3. ASSUME NEW role \in DockRole, Stop(role) PROVE BootHeld'
  <2>1. openings' = openings /\ virtue[role].state = "RUNNING"
    BY <1>3 DEF Stop
  <2>2. \A r \in DockRole : r # role => virtue'[r] = virtue[r]
    BY <1>0, <1>3 DEF Stop
  <2>3. \A i \in 1..Len(openings) : openings[i].step = "boot" => openings[i].role \in DockRole \ {role}
    BY <2>1, OpeningFacts DEF BootHeld
  <2>4. QED
    BY <2>1, <2>2, <2>3 DEF BootHeld
<1>4. QED
  BY <1>1, <1>2, <1>3, BootUnchanged
  DEF DockNext, dockVars, desktopVars, Login, Callback, RolesAnswered,
      SshConnects, Load, SshNotices

\* Excalibur takes a launch, or has brought a virtue up or given it up.
LEMMA WindowLaunches ==
    ASSUME WindowInv, BootHeld, NEW i \in 1..Len(openings),
           LaunchRequested(i) \/ LaunchAnswered(i)
    PROVE  WindowInv'
<1> DEFINE role == openings[i].role
<1>1. /\ openings[i] \in Opening /\ role \in DockRole
      /\ virtue \in [DockRole -> VirtueState] /\ virtue[role] \in VirtueState /\ freed \in BOOLEAN
  BY OpeningFacts DEF WindowInv, DockTyped
<1>2. PICK step \in {"boot", "get"} : openings' = [openings EXCEPT ![i].step = step]
  BY DEF LaunchRequested, LaunchAnswered, Advance
<1> DEFINE o == [openings[i] EXCEPT !.step = step]
<1>3. openings' = [openings EXCEPT ![i] = o]
  BY <1>2
<1>4. o \in Opening /\ o.role = role /\ o.app = openings[i].app /\ o.ip = openings[i].ip
  BY <1>1, <1>2 DEF Opening
<1>5. UNCHANGED <<ssh, tunnel, windows>>
  BY DEF LaunchRequested, LaunchAnswered, Advance, desktopVars
<1> HIDE DEF o
<1>6. ASSUME virtue' \in [DockRole -> VirtueState], AddressesHeld',
             freed' \in BOOLEAN, freed => freed',
             ~freed' => \A r \in DockRole : /\ virtue'[r].listed = virtue'[r].address
                                            /\ virtue[r].address \in {Null, virtue'[r].address}
      PROVE  WindowInv'
  BY <1>3, <1>4, <1>5, <1>6, ChainMoves
<1>7. CASE UNCHANGED <<virtue, freed>>
  BY <1>1, <1>6, <1>7 DEF WindowInv, AddressesHeld, ListTrue
<1>8. ASSUME NEW h \in VirtueState, virtue' = [virtue EXCEPT ![role] = h],
             h.address # Null <=> h.state # "STOPPED",
             h.address \in {Null, virtue[role].address} \/ h.address \notin InUse,
             freed' \in BOOLEAN, freed => freed',
             ~freed' => /\ h.listed = h.address
                        /\ virtue[role].address \in {Null, h.address}
      PROVE  WindowInv'
  <2>1. /\ virtue' \in [DockRole -> VirtueState] /\ virtue'[role] = h
        /\ \A r \in DockRole : r # role => virtue'[r] = virtue[r]
    BY <1>1, <1>8
  <2>2. \A r \in DockRole : virtue'[r].address # Null <=> virtue'[r].state # "STOPPED"
    BY <1>8, <2>1 DEF WindowInv, AddressesHeld
  <2>3. ASSUME NEW r \in DockRole, r # role, virtue[r].address = h.address, h.address # Null
        PROVE  FALSE
    <3>1. virtue[r].state # "STOPPED"
      BY <2>3 DEF WindowInv, AddressesHeld
    <3>2. h.address \in InUse
      BY <2>3, <3>1 DEF InUse
    <3>3. QED
      BY <1>1, <1>8, <2>3, <3>2 DEF WindowInv, AddressesHeld
  <2>4. \A r, q \in DockRole : virtue'[r].address = virtue'[q].address /\ virtue'[r].address # Null => r = q
    <3> SUFFICES ASSUME NEW r \in DockRole, NEW q \in DockRole, r # q,
                        virtue'[r].address = virtue'[q].address, virtue'[r].address # Null
                 PROVE  FALSE
      OBVIOUS
    <3>1. CASE r = role
      BY <2>1, <2>3, <3>1
    <3>2. CASE q = role
      BY <2>1, <2>3, <3>2
    <3>3. CASE r # role /\ q # role
      BY <2>1, <3>3 DEF WindowInv, AddressesHeld
    <3>4. QED
      BY <3>1, <3>2, <3>3
  <2>5. AddressesHeld'
    BY <2>2, <2>4 DEF AddressesHeld
  <2>6. ~freed' => \A r \in DockRole : /\ virtue'[r].listed = virtue'[r].address
                                       /\ virtue[r].address \in {Null, virtue'[r].address}
    BY <1>1, <1>8, <2>1 DEF WindowInv, ListTrue
  <2>7. QED
    BY <1>6, <1>8, <2>1, <2>5, <2>6
<1>9. CASE LaunchRequested(i) /\ ~ UNCHANGED <<virtue, freed>>
  <2>1. PICK a \in Address \ InUse :
           /\ virtue[role].state = "STOPPED" /\ freed' = freed
           /\ virtue' = [virtue EXCEPT ![role].state = "LAUNCHING",
                                       ![role].address = a, ![role].listed = a]
    BY <1>9 DEF LaunchRequested
  <2> DEFINE h == [virtue[role] EXCEPT !.state = "LAUNCHING", !.address = a, !.listed = a]
  <2>2. virtue' = [virtue EXCEPT ![role] = h]
    BY <2>1
  <2>3. h \in VirtueState /\ h.state = "LAUNCHING" /\ h.address = a /\ h.listed = a
    BY <1>1, <2>1 DEF VirtueState
  <2>4. a # Null /\ virtue[role].address = Null
    BY <1>1, <2>1, DockAssumption DEF WindowInv, AddressesHeld
  <2> HIDE DEF h
  <2>5. freed' \in BOOLEAN /\ (freed => freed')
    BY <1>1, <2>1
  <2>6. (h.address # Null <=> h.state # "STOPPED") /\ h.address \notin InUse
    BY <2>1, <2>3, <2>4
  <2>7. h.listed = h.address /\ virtue[role].address \in {Null, h.address}
    BY <2>3, <2>4
  <2>8. QED
    BY <1>8, <2>2, <2>3, <2>5, <2>6, <2>7
<1>10. CASE LaunchAnswered(i)
  <2>0. openings[i].step = "boot"
    BY <1>10 DEF LaunchAnswered, Advance
  <2>1. ASSUME NEW apps \in SUBSET virtue[role].listedApps, freed' = freed,
               virtue' = [virtue EXCEPT ![role].state = "RUNNING", ![role].apps = apps]
        PROVE  WindowInv'
    <3> DEFINE h == [virtue[role] EXCEPT !.state = "RUNNING", !.apps = apps]
    <3>1. virtue' = [virtue EXCEPT ![role] = h]
      BY <2>1
    <3>2. /\ h \in VirtueState /\ h.state = "RUNNING"
          /\ h.address = virtue[role].address /\ h.listed = virtue[role].listed
      BY <1>1, <2>1 DEF VirtueState
    <3>3. h.address # Null
      BY <1>1, <2>0, <3>2 DEF WindowInv, AddressesHeld, BootHeld
    <3> HIDE DEF h
    <3>4. QED
      BY <1>1, <1>8, <2>1, <3>1, <3>2, <3>3 DEF WindowInv, ListTrue
  <2>2. ASSUME freed' = TRUE,
               virtue' = [virtue EXCEPT ![role].state = "STOPPED", ![role].address = Null]
        PROVE  WindowInv'
    <3> DEFINE h == [virtue[role] EXCEPT !.state = "STOPPED", !.address = Null]
    <3>1. virtue' = [virtue EXCEPT ![role] = h]
      BY <2>2
    <3>2. h \in VirtueState /\ h.state = "STOPPED" /\ h.address = Null
      BY <1>1 DEF VirtueState
    <3> HIDE DEF h
    <3>3. QED
      BY <1>8, <2>2, <3>1, <3>2
  <2>3. QED
    BY <1>10, <2>1, <2>2 DEF LaunchAnswered
<1>11. QED
  BY <1>7, <1>9, <1>10

\* The end of a chain: ssh is started towards the address the chain has, and a
\* window is opened.
LEMMA WindowStarts ==
    ASSUME WindowInv, NEW i \in 1..Len(openings), AppStarted(i)
    PROVE  WindowInv'
<1> DEFINE role == openings[i].role
           app == openings[i].app
           ra == <<role, app>>
<1>1. /\ openings[i] \in Opening /\ role \in DockRole /\ app \in App
      /\ openings[i].ip \in Address \cup {Null} /\ virtue[role] \in VirtueState
      /\ virtue \in [DockRole -> VirtueState]
      /\ windows \in Seq(Window) /\ ssh \subseteq Ssh
  BY OpeningFacts DEF WindowInv, DockTyped
<1>2. ra \in Icon /\ ra[1] = role /\ ra[2] = app /\ PortOf(role, app) \in Port
  <2>1. ra \in Icon
    BY DEF WindowInv, DockTyped
  <2>2. QED
    BY <2>1, IconFacts
<1>3. UNCHANGED <<tunnel, freed>>
  BY DEF AppStarted
<1>4. /\ virtue' \in [DockRole -> VirtueState]
      /\ \A r \in DockRole : /\ virtue'[r].address = virtue[r].address
                             /\ virtue'[r].listed = virtue[r].listed
                             /\ virtue'[r].state = virtue[r].state
  <2> DEFINE h == [virtue[role] EXCEPT !.listedApps = @ \cup {app}, !.apps = @ \cup {app}]
  <2>1. virtue' = virtue \/ virtue' = [virtue EXCEPT ![role] = h]
    BY DEF AppStarted, StartsIn
  <2>2. /\ h \in VirtueState /\ h.address = virtue[role].address
        /\ h.listed = virtue[role].listed /\ h.state = virtue[role].state
    BY <1>1 DEF VirtueState
  <2> HIDE DEF h
  <2>3. QED
    BY <1>1, <2>1, <2>2
<1>5. /\ openings' \in Seq(Opening) /\ Len(openings') = Len(openings)
      /\ \A j \in 1..Len(openings') : <<openings'[j].role, openings'[j].app>> \in Icon
      /\ \A j \in 1..Len(openings) : /\ openings'[j].role = openings[j].role
                                     /\ openings'[j].ip = openings[j].ip
  <2> DEFINE o == [openings[i] EXCEPT !.step = "ended"]
  <2>1. openings' = [openings EXCEPT ![i] = o]
    BY DEF AppStarted
  <2>2. o \in Opening /\ o.role = role /\ o.app = app /\ o.ip = openings[i].ip
    BY <1>1 DEF Opening
  <2> HIDE DEF o
  <2>3. /\ openings' \in Seq(Opening) /\ Len(openings') = Len(openings) /\ openings'[i] = o
        /\ \A j \in 1..Len(openings) : j # i => openings'[j] = openings[j]
        /\ \A j \in 1..Len(openings') : <<openings'[j].role, openings'[j].app>> \in Icon
    BY <2>1, <2>2, MoveTyped DEF WindowInv
  <2>4. \A j \in 1..Len(openings) : /\ openings'[j].role = openings[j].role
                                     /\ openings'[j].ip = openings[j].ip
    BY <2>2, <2>3
  <2>5. QED
    BY <2>3, <2>4
<1>6. AddressesHeld'
  BY <1>4 DEF WindowInv, AddressesHeld
<1>7. ListTrue'
  BY <1>3, <1>4, <1>5, OpeningFacts DEF WindowInv, ListTrue
<1>8. TunnelOfItsApp'
  BY <1>3 DEF WindowInv, TunnelOfItsApp
<1>9. ssh' \subseteq Ssh /\ SshOfItsApp'
  <2> DEFINE p == [ip |-> openings[i].ip, app |-> app, port |-> PortOf(role, app)]
  <2>1. /\ p \in Ssh /\ p.app = ra[2] /\ p.port = PortOf(ra[1], ra[2])
        /\ p.ip = openings[i].ip
    BY <1>1, <1>2 DEF Ssh
  <2>2. ssh' = ssh \/ ssh' = ssh \cup {p}
    BY DEF AppStarted
  <2>3. ~freed => p.ip \in {Null, virtue[role].address}
    BY <2>1 DEF WindowInv, ListTrue
  <2> HIDE DEF p
  <2>4. ASSUME NEW s \in ssh'
        PROVE  \E qb \in Icon : /\ s.app = qb[2] /\ s.port = PortOf(qb[1], qb[2])
                                /\ ~freed' => s.ip \in {Null, virtue'[qb[1]].address}
    <3>1. CASE s \in ssh
      <4>1. PICK qb \in Icon : /\ s.app = qb[2] /\ s.port = PortOf(qb[1], qb[2])
                               /\ ~freed => s.ip \in {Null, virtue[qb[1]].address}
        BY <3>1 DEF WindowInv, SshOfItsApp
      <4>2. virtue'[qb[1]].address = virtue[qb[1]].address
        BY <1>4, IconFacts
      <4>3. QED
        BY <1>3, <4>1, <4>2
    <3>2. CASE s = p
      <4>1. virtue'[ra[1]].address = virtue[role].address
        BY <1>1, <1>2, <1>4
      <4>2. ~freed' => s.ip \in {Null, virtue'[ra[1]].address}
        BY <1>3, <2>3, <3>2, <4>1
      <4>3. QED
        BY <1>2, <2>1, <3>2, <4>2
    <3>3. QED
      BY <2>2, <3>1, <3>2
  <2>5. QED
    BY <1>1, <2>1, <2>2, <2>4 DEF SshOfItsApp
<1>10. /\ windows' \in Seq(Window) /\ WindowShowsItsApp'
       /\ \A w \in 1..Len(windows') : <<windows'[w].role, windows'[w].app>> \in Icon
  <2> DEFINE n == [role |-> role, app |-> app, shows |-> None]
  <2>1. n \in Window /\ <<n.role, n.app>> = ra /\ n.shows = None
    BY <1>1 DEF Window
  <2>2. windows' = windows \/ windows' = Append(windows, n)
    BY DEF AppStarted
  <2> HIDE DEF n
  <2>3. windows' \in Seq(Window)
    BY <1>1, <2>1, <2>2, SMTT(30)
  <2>4. \A w \in 1..Len(windows') :
           windows'[w] = n \/ (w \in 1..Len(windows) /\ windows'[w] = windows[w])
    BY <1>1, <2>1, <2>2
  <2>5. \A w \in 1..Len(windows') : <<windows'[w].role, windows'[w].app>> \in Icon
    BY <1>2, <2>1, <2>4 DEF WindowInv, DockTyped
  <2>6. WindowShowsItsApp'
    BY <1>3, <2>1, <2>4 DEF WindowInv, WindowShowsItsApp
  <2>7. QED
    BY <2>3, <2>5, <2>6
<1>11. DockTyped'
  BY <1>3, <1>4, <1>5, <1>9, <1>10 DEF WindowInv, DockTyped
<1>12. QED
  BY <1>6, <1>7, <1>8, <1>9, <1>10, <1>11 DEF WindowInv

\* ssh gets through to whatever has the address, and keeps the port.
LEMMA WindowConnects ==
    ASSUME WindowInv, NEW p \in ssh, SshConnects(p)
    PROVE  WindowInv'
<1>1. /\ ssh' = ssh \ {p} /\ UNCHANGED <<openings, virtue, windows, freed>>
      /\ p \in Ssh /\ p.port \in Port /\ p.app \in App
      /\ tunnel \in [Port -> Tunnel \cup {None}]
  BY DEF SshConnects, WindowInv, DockTyped, Ssh
<1>2. AddressesHeld' /\ ListTrue' /\ SshOfItsApp' /\ WindowShowsItsApp'
  BY <1>1 DEF WindowInv, AddressesHeld, ListTrue, SshOfItsApp, WindowShowsItsApp
<1>3. CASE UNCHANGED tunnel
  BY <1>1, <1>2, <1>3 DEF WindowInv, DockTyped, TunnelOfItsApp
<1>4. ASSUME NEW r \in DockRole, virtue[r].state = "RUNNING", virtue[r].address = p.ip,
             tunnel' = [tunnel EXCEPT ![p.port] = [role |-> r, app |-> p.app, up |-> TRUE]]
      PROVE  WindowInv'
  <2> DEFINE t == [role |-> r, app |-> p.app, up |-> TRUE]
  <2>1. t \in Tunnel /\ t.role = r /\ t.app = p.app
    BY <1>1 DEF Tunnel
  <2>2. tunnel' = [tunnel EXCEPT ![p.port] = t]
    BY <1>4
  <2> HIDE DEF t
  <2>3. tunnel' \in [Port -> Tunnel \cup {None}]
    BY <1>1, <2>1, <2>2
  <2>4. DockTyped'
    BY <1>1, <2>3 DEF WindowInv, DockTyped
  <2>5. PICK ra \in Icon : /\ p.app = ra[2] /\ p.port = PortOf(ra[1], ra[2])
                           /\ ~freed => p.ip \in {Null, virtue[ra[1]].address}
    BY DEF WindowInv, SshOfItsApp
  <2>6. ra[1] \in DockRole
    BY IconFacts
  <2>7. ~freed => r = ra[1]
    <3>1. virtue[r].address # Null
      BY <1>4 DEF WindowInv, AddressesHeld
    <3>2. QED
      BY <1>4, <2>5, <2>6, <3>1 DEF WindowInv, AddressesHeld
  <2>8. TunnelOfItsApp'
    <3> SUFFICES ASSUME NEW x \in Port, tunnel'[x] # None
                 PROVE  \E qb \in Icon : /\ x = PortOf(qb[1], qb[2]) /\ tunnel'[x].app = qb[2]
                                         /\ ~freed => tunnel'[x].role = qb[1]
      BY <1>1 DEF TunnelOfItsApp
    <3>1. CASE x = p.port
      BY <1>1, <2>1, <2>2, <2>5, <2>7, <3>1
    <3>2. CASE x # p.port
      BY <1>1, <2>2, <3>2 DEF WindowInv, TunnelOfItsApp
    <3>3. QED
      BY <3>1, <3>2
  <2>9. QED
    BY <1>2, <2>4, <2>8 DEF WindowInv
<1>5. QED
  BY <1>3, <1>4 DEF SshConnects

\* A window loads what listens on its port: the application the port is for,
\* as no other application of the dock has that port.
LEMMA WindowLoads ==
    ASSUME PortsDistinct, WindowInv, NEW w \in 1..Len(windows), Load(w)
    PROVE  WindowInv'
<1> DEFINE ra == <<windows[w].role, windows[w].app>>
           port == PortOf(windows[w].role, windows[w].app)
           at == tunnel[port]
           shows == IF at # None /\ at.up THEN <<at.role, at.app>> ELSE Failed
           n == [windows[w] EXCEPT !.shows = shows]
<1>1. /\ windows \in Seq(Window) /\ windows[w] \in Window
      /\ ra \in Icon /\ ra[1] = windows[w].role /\ ra[2] = windows[w].app /\ port \in Port
      /\ tunnel \in [Port -> Tunnel \cup {None}]
  <2>1. windows \in Seq(Window) /\ ra \in Icon /\ tunnel \in [Port -> Tunnel \cup {None}]
    BY DEF WindowInv, DockTyped
  <2>2. PortOf(ra[1], ra[2]) \in Port
    BY <2>1, IconFacts
  <2>3. QED
    BY <2>1, <2>2
<1>2. windows' = [windows EXCEPT ![w] = n] /\ UNCHANGED <<openings, virtue, ssh, tunnel, freed>>
  BY DEF Load
<1>3. at \in Tunnel \cup {None}
  BY <1>1
<1>4. shows \in (DockRole \X App) \cup {None, Failed}
  BY <1>3 DEF Tunnel
<1>5. n \in Window /\ n.role = windows[w].role /\ n.app = windows[w].app /\ n.shows = shows
  BY <1>1, <1>4 DEF Window
<1>6. at # None => at.app = windows[w].app /\ (~freed => at.role = windows[w].role)
  <2> HAVE at # None
  <2>1. PICK qb \in Icon : /\ port = PortOf(qb[1], qb[2]) /\ at.app = qb[2]
                           /\ ~freed => at.role = qb[1]
    BY <1>1 DEF WindowInv, TunnelOfItsApp
  <2>2. PortOf(ra[1], ra[2]) = PortOf(qb[1], qb[2])
    BY <1>1, <2>1
  <2>3. ra = qb
    BY <1>1, <2>1, <2>2 DEF PortsDistinct
  <2>4. QED
    BY <1>1, <2>1, <2>3
<1>7. shows \notin {None, Failed} =>
         shows[2] = windows[w].app /\ (~freed => shows[1] = windows[w].role)
  BY <1>6
<1> HIDE DEF n, shows, at, port, ra
<1>8. /\ windows' \in Seq(Window) /\ Len(windows') = Len(windows) /\ windows'[w] = n
      /\ \A x \in 1..Len(windows) : x # w => windows'[x] = windows[x]
  BY <1>1, <1>2, <1>5
<1>9. \A x \in 1..Len(windows') : <<windows'[x].role, windows'[x].app>> \in Icon
  BY <1>1, <1>5, <1>8 DEF ra, WindowInv, DockTyped
<1>10. DockTyped'
  BY <1>2, <1>8, <1>9 DEF WindowInv, DockTyped
<1>11. WindowShowsItsApp'
  <2> SUFFICES ASSUME NEW x \in 1..Len(windows), windows'[x].shows \notin {None, Failed}
               PROVE  /\ windows'[x].shows[2] = windows'[x].app
                      /\ ~freed => windows'[x].shows[1] = windows'[x].role
    BY <1>2, <1>8 DEF WindowShowsItsApp
  <2>1. CASE x = w
    BY <1>5, <1>7, <1>8, <2>1
  <2>2. CASE x # w
    BY <1>8, <2>2 DEF WindowInv, WindowShowsItsApp
  <2>3. QED
    BY <2>1, <2>2
<1>12. AddressesHeld' /\ ListTrue' /\ SshOfItsApp' /\ TunnelOfItsApp'
  BY <1>2 DEF WindowInv, AddressesHeld, ListTrue, SshOfItsApp, TunnelOfItsApp
<1>13. QED
  BY <1>10, <1>11, <1>12 DEF WindowInv

\* A virtue is stopped: from now on addresses have been given back, and ssh's
\* tunnels into it are down.
LEMMA WindowStops ==
    ASSUME WindowInv, NEW role \in DockRole, Stop(role)
    PROVE  WindowInv'
<1>1. /\ virtue \in [DockRole -> VirtueState] /\ virtue[role] \in VirtueState
      /\ tunnel \in [Port -> Tunnel \cup {None}]
      /\ UNCHANGED <<openings, ssh, windows>> /\ freed' = TRUE
  BY DEF WindowInv, DockTyped, Stop
<1>2. PICK h : /\ virtue' = [virtue EXCEPT ![role] = h]
               /\ h \in VirtueState /\ h.state = "STOPPED" /\ h.address = Null
  <2> DEFINE h == [virtue[role] EXCEPT !.state = "STOPPED", !.address = Null, !.apps = {}]
  <2>1. virtue' = [virtue EXCEPT ![role] = h]
    BY DEF Stop
  <2>2. h \in VirtueState /\ h.state = "STOPPED" /\ h.address = Null
    BY <1>1 DEF VirtueState
  <2> HIDE DEF h
  <2>3. QED
    BY <2>1, <2>2
<1>3. virtue' \in [DockRole -> VirtueState] /\ AddressesHeld'
  <2>1. virtue' \in [DockRole -> VirtueState] /\ virtue'[role] = h
        /\ \A r \in DockRole : r # role => virtue'[r] = virtue[r]
    BY <1>1, <1>2
  <2>2. QED
    BY <1>2, <2>1 DEF WindowInv, AddressesHeld
<1>4. ListTrue' /\ SshOfItsApp'
  BY <1>1 DEF ListTrue, SshOfItsApp, WindowInv
<1>5. \A p \in Port : /\ tunnel'[p] \in Tunnel \cup {None}
                      /\ tunnel'[p] # None => tunnel[p] # None /\ tunnel'[p].app = tunnel[p].app
  <2> SUFFICES ASSUME NEW p \in Port
               PROVE  /\ tunnel'[p] \in Tunnel \cup {None}
                      /\ tunnel'[p] # None => tunnel[p] # None /\ tunnel'[p].app = tunnel[p].app
    OBVIOUS
  <2>1. tunnel'[p] = IF tunnel[p] # None /\ tunnel[p].role = role
                     THEN [tunnel[p] EXCEPT !.up = FALSE] ELSE tunnel[p]
    BY DEF Stop
  <2>2. tunnel[p] # None => tunnel[p] \in Tunnel
    BY <1>1
  <2>3. tunnel[p] # None => /\ [tunnel[p] EXCEPT !.up = FALSE] \in Tunnel
                            /\ [tunnel[p] EXCEPT !.up = FALSE].app = tunnel[p].app
    BY <2>2 DEF Tunnel
  <2>4. QED
    BY <1>1, <2>1, <2>2, <2>3
<1>6. tunnel' \in [Port -> Tunnel \cup {None}]
  BY <1>5 DEF Stop
<1>7. TunnelOfItsApp'
  BY <1>1, <1>5 DEF WindowInv, TunnelOfItsApp
<1>8. DockTyped' /\ WindowShowsItsApp'
  BY <1>1, <1>3, <1>6 DEF WindowInv, DockTyped, WindowShowsItsApp
<1>9. QED
  BY <1>3, <1>4, <1>7, <1>8 DEF WindowInv

LEMMA WindowNotices ==
    ASSUME WindowInv, NEW p \in Port, SshNotices(p)
    PROVE  WindowInv'
<1>1. /\ tunnel' = [tunnel EXCEPT ![p] = None] /\ tunnel \in [Port -> Tunnel \cup {None}]
      /\ UNCHANGED <<openings, virtue, ssh, windows, freed>>
  BY DEF SshNotices, WindowInv, DockTyped
<1>2. TunnelOfItsApp'
  BY <1>1 DEF WindowInv, TunnelOfItsApp
<1>3. tunnel' \in [Port -> Tunnel \cup {None}]
  BY <1>1
<1>4. QED
  BY <1>1, <1>2, <1>3
  DEF WindowInv, DockTyped, AddressesHeld, ListTrue, SshOfItsApp, WindowShowsItsApp

LEMMA WindowStep ==
    ASSUME PortsDistinct, WindowInv, BootHeld, [DockNext]_dockVars
    PROVE  WindowInv'
<1>1. ASSUME UNCHANGED <<openings, virtue, ssh, tunnel, windows, freed>> PROVE WindowInv'
  BY <1>1, WindowUnchanged
<1>2. ASSUME NEW i \in 1..Len(openings),
             \/ VirtuesAnswered(i) \/ LaunchRequested(i) \/ LaunchAnswered(i)
             \/ ApplicationAnswered(i) \/ AppStarted(i)
      PROVE  WindowInv'
  BY <1>2, WindowCallbacks, WindowLaunches, WindowStarts
<1>3. CASE \/ Login
           \/ \E answer \in BOOLEAN : Callback(answer) \/ RolesAnswered(answer)
  BY <1>1, <1>3 DEF Login, Callback, RolesAnswered, desktopVars
<1>4. QED
  BY <1>1, <1>2, <1>3, WindowOpens, WindowConnects, WindowLoads, WindowStops, WindowNotices
  DEF DockNext, dockVars

\* Whatever tunnels are up and however requests and ssh interleave, a window
\* shows its own application or none, and in its own virtue as long as no
\* address has been given back (output.js 27-61, 121-186).
THEOREM WindowsShowTheirApps ==
    ASSUME Len(RoleList) <= 10,
           \A role \in DockRole : AppsOf[role] \in Seq(App) /\ Len(AppsOf[role]) <= 100
    PROVE  DockSpec => []WindowShowsItsApp
<1>1. PortsDistinct
  BY PortsAreDistinct
<1>2. DockInit => WindowInv /\ BootHeld
  <2>1. DockInit => 1..Len(openings) = {}
    BY DEF DockInit
  <2>2. QED
    BY <2>1, InitWindowInv DEF BootHeld
<1>3. WindowInv /\ BootHeld /\ [DockNext]_dockVars => WindowInv' /\ BootHeld'
  BY <1>1, WindowStep, BootStep DEF WindowInv
<1>4. WindowInv => WindowShowsItsApp
  BY DEF WindowInv
<1>5. QED
  BY <1>2, <1>3, <1>4, PTL DEF DockSpec
=============================================================================
