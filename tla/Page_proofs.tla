------------------------------ MODULE Page_proofs ------------------------------
(***************************************************************************)
(* What runs in the page: its tabs and layout, the view of a directory,    *)
(* and the link to the server, each for any size of it.                    *)
(*                                                                         *)
(* Of the link: for any number of calls and any backlog of the worker, the *)
(* calls leave in the order in which they were made.  SentInOrder is not   *)
(* inductive alone: that a later call does not overtake an earlier one     *)
(* rests on the order of the worker's requests (InLine), on the worker     *)
(* holding every request that is being encoded until it answers or fails   *)
(* (InHand), and on no late decoded message touching a call that is still  *)
(* being encoded (Started).  WayInv, above IndInv, says where each call    *)
(* and the sign-in are, so that none waits for what nobody will do.        *)
(*                                                                         *)
(* Of the tabs: a hidden view has none left (HiddenHasNoTabs), and a tab   *)
(* goes only with a request to close its shell (DisposedShells), so that   *)
(* no shell is without one but those whose request came too early; a       *)
(* layout that is not shown yet has its transition (LayoutInv).  Of the    *)
(* view: a dialog is open for what it can be open for (ViewTypeOK), and    *)
(* what loads is an object's file (LoadsAFile).                            *)
(***************************************************************************)
EXTENDS Link, Home, DirectoryView, TLAPS

-----------------------------------------------------------------------------
(* The home page *)

\* splice(index, 1) takes one entry, and keeps the others.
LEMMA RemovedTab ==
    ASSUME NEW S, NEW s \in Seq(S), NEW i \in DOMAIN s
    PROVE  /\ RemoveAt(s, i) \in Seq(S)
           /\ ToSet(RemoveAt(s, i)) \subseteq ToSet(s)
           /\ ToSet(s) \ {s[i]} \subseteq ToSet(RemoveAt(s, i))
<1> DEFINE t == RemoveAt(s, i)
<1>1. i \in 1 .. Len(s) /\ Len(s) \in Nat
  OBVIOUS
<1>2. /\ t \in Seq(S) /\ Len(t) = Len(s) - 1
      /\ \A k \in 1 .. i - 1 : t[k] = s[k]
      /\ \A k \in i .. Len(s) - 1 : t[k] = s[k + 1]
  <2> DEFINE a == SubSeq(s, 1, i - 1)
             b == SubSeq(s, i + 1, Len(s))
  <2>1. a \in Seq(S) /\ Len(a) = i - 1 /\ \A k \in 1 .. i - 1 : a[k] = s[k]
    BY <1>1
  <2>2. b \in Seq(S) /\ Len(b) = Len(s) - i /\ \A k \in 1 .. Len(s) - i : b[k] = s[k + i]
    BY <1>1
  <2>3. t = a \o b
    BY DEF RemoveAt
  <2> HIDE DEF a, b
  <2>4. /\ a \o b \in Seq(S) /\ Len(a \o b) = Len(a) + Len(b)
        /\ \A k \in 1 .. Len(a) + Len(b) : (a \o b)[k] = IF k <= Len(a) THEN a[k] ELSE b[k - Len(a)]
    <3>1. a \in Seq(S) /\ b \in Seq(S)
      BY <2>1, <2>2
    <3> QED BY <3>1
  <2> HIDE DEF t
  <2>5. t \in Seq(S) /\ Len(t) = Len(s) - 1
    BY <1>1, <2>1, <2>2, <2>3, <2>4
  <2>6. \A k \in 1 .. Len(s) - 1 : t[k] = IF k <= i - 1 THEN a[k] ELSE b[k - (i - 1)]
    <3>1. Len(a) + Len(b) = Len(s) - 1 /\ Len(a) = i - 1
      BY <1>1, <2>1, <2>2
    <3>2. \A k \in 1 .. Len(a) + Len(b) : t[k] = IF k <= Len(a) THEN a[k] ELSE b[k - Len(a)]
      BY <2>3, <2>4
    <3> HIDE DEF a, b
    <3> QED BY <3>1, <3>2
  <2> HIDE DEF a, b
  <2>7. ASSUME NEW k \in 1 .. i - 1 PROVE t[k] = s[k]
    <3>1. k \in 1 .. Len(s) - 1 /\ k <= i - 1
      BY <1>1
    <3> QED BY <2>1, <2>6, <3>1
  <2>8. ASSUME NEW k \in i .. Len(s) - 1 PROVE t[k] = s[k + 1]
    <3>1. /\ k \in 1 .. Len(s) - 1 /\ ~(k <= i - 1) /\ k - (i - 1) \in 1 .. Len(s) - i
          /\ k - (i - 1) + i = k + 1
      BY <1>1
    <3>2. t[k] = b[k - (i - 1)]
      BY <2>6, <3>1
    <3> QED BY <2>2, <3>1, <3>2
  <2> QED BY <2>5, <2>7, <2>8
<1> HIDE DEF t
<1>3. ASSUME NEW k \in DOMAIN t PROVE t[k] \in ToSet(s)
  <2>1. k \in 1 .. Len(s) - 1
    BY <1>2
  <2>2. t[k] = s[k] \/ t[k] = s[k + 1]
    BY <1>1, <1>2, <2>1
  <2>3. k \in DOMAIN s /\ k + 1 \in DOMAIN s
    BY <1>1, <2>1
  <2> QED BY <2>2, <2>3 DEF ToSet
<1>4. ASSUME NEW k \in 1 .. Len(s), k # i PROVE s[k] \in ToSet(t)
  <2>1. CASE k < i
    <3>1. k \in DOMAIN t /\ t[k] = s[k]
      BY <1>1, <1>2, <2>1
    <3> QED BY <3>1 DEF ToSet
  <2>2. CASE i < k
    <3>1. k - 1 \in DOMAIN t /\ t[k - 1] = s[k]
      BY <1>1, <1>2, <2>2
    <3> QED BY <3>1 DEF ToSet
  <2> QED BY <1>1, <1>4, <2>1, <2>2
<1>5. ToSet(s) \ {s[i]} \subseteq ToSet(t)
  BY <1>1, <1>4 DEF ToSet
<1>6. ToSet(t) \subseteq ToSet(s)
  BY <1>3 DEF ToSet
<1> QED BY <1>2, <1>5, <1>6 DEF t

LEMMA AddedTab ==
    ASSUME NEW S, NEW s \in Seq(S), NEW e \in S
    PROVE  /\ Append(s, e) \in Seq(S) /\ Append(s, e) # <<>>
           /\ ToSet(Append(s, e)) = ToSet(s) \cup {e}
<1>1. /\ Append(s, e) \in Seq(S) /\ Len(Append(s, e)) = Len(s) + 1
      /\ \A k \in 1 .. Len(s) : Append(s, e)[k] = s[k]
      /\ Append(s, e)[Len(s) + 1] = e
  OBVIOUS
<1>2. Append(s, e) # <<>>
  BY <1>1
<1>3. ToSet(s) \cup {e} \subseteq ToSet(Append(s, e))
  BY <1>1 DEF ToSet
<1>4. ToSet(Append(s, e)) \subseteq ToSet(s) \cup {e}
  BY <1>1 DEF ToSet
<1> QED BY <1>1, <1>2, <1>3, <1>4

LEMMA OneTab ==
    ASSUME NEW S, NEW c \in S
    PROVE  <<c>> \in Seq(S) /\ <<c>> # <<>> /\ ToSet(<<c>>) = {c}
BY DEF ToSet

LEMMA NoTabs == ToSet(<<>>) = {} /\ \A S : <<>> \in Seq(S)
BY DEF ToSet

LEMMA HomeInitInv == HomeInit => HomeInv
<1> SUFFICES ASSUME HomeInit PROVE HomeInv
  OBVIOUS
<1>1. /\ layout \in Layouts /\ shown \in Layouts /\ room \in BOOLEAN /\ missed \in BOOLEAN
      /\ opacity \in [Views -> Gone .. Full] /\ width \in Gone .. Full /\ target \in {Gone, Full}
  <2>1. room \in BOOLEAN /\ missed \in BOOLEAN
    BY DEF HomeInit
  <2> QED BY <2>1 DEF HomeInit, Gone, Full
<1>2. CASE layout = "fileExplorer" /\ tabs = <<>> /\ current = NoTab
  <2>1. tabs \in Seq(Controllers) /\ ToSet(tabs) = {}
    BY <1>2, NoTabs
  <2> QED BY <1>1, <1>2, <2>1 DEF HomeInit, HomeInv, HomeTypeOK, ShellsHaveTabs, Unclosed, HiddenHasNoTabs
<1>3. ASSUME NEW c \in Controllers, layout # "fileExplorer", tabs = <<c>>, current = c PROVE HomeInv
  <2>1. Mounted("terminal")
    BY <1>3 DEF HomeInit, Mounted, Layouts, Views
  <2>2. tabs \in Seq(Controllers) /\ tabs # <<>> /\ ToSet(tabs) = {c}
    BY <1>3, OneTab
  <2> QED BY <1>1, <1>3, <2>1, <2>2
      DEF HomeInit, HomeInv, HomeTypeOK, ShellsHaveTabs, Unclosed, HiddenHasNoTabs
<1> QED BY <1>2, <1>3 DEF HomeInit

\* A click on a tab, and what follows other steps on the tabs.
LEMMA SelectedTab ==
    ASSUME HomeInv, NEW c \in Controllers \cup {NoTab}, SelectTab(c)
    PROVE  current' = c /\ fading' \subseteq Controllers
BY DEF HomeInv, HomeTypeOK, SelectTab

\* A shell is asked for with its tab, and a close with the removal of the tab.
LEMMA OpenedShell ==
    ASSUME HomeInv, NEW c \in Controllers, Open(c), ToSet(tabs) \cup {c} \subseteq ToSet(tabs')
    PROVE  /\ shell' \in [Controllers -> {"none", "opening", "running"}]
           /\ close' \in [Controllers -> {"none", "asked", "early"}]
           /\ Unclosed' \subseteq ToSet(tabs')
BY DEF HomeInv, HomeTypeOK, ShellsHaveTabs, Unclosed, Open

LEMMA DisposedShells ==
    ASSUME HomeInv, NEW S, Dispose(S), ToSet(tabs) \ S \subseteq ToSet(tabs')
    PROVE  /\ shell' \in [Controllers -> {"none", "opening", "running"}]
           /\ close' \in [Controllers -> {"none", "asked", "early"}]
           /\ Unclosed' \subseteq ToSet(tabs')
<1>1. /\ shell' = shell
      /\ close' = [c \in Controllers |-> IF c \in S /\ shell[c] # "none" THEN "asked" ELSE close[c]]
  BY DEF Dispose
<1>2. close' \in [Controllers -> {"none", "asked", "early"}]
  BY <1>1 DEF HomeInv, HomeTypeOK
<1>3. Unclosed' \subseteq Unclosed \ S
  BY <1>1 DEF Unclosed
<1> QED BY <1>1, <1>2, <1>3 DEF HomeInv, HomeTypeOK, ShellsHaveTabs

\* The steps of a shell: its open and its close are served in any order, and it
\* ends.
LEMMA ShellInv == ASSUME HomeInv, NEW c \in Controllers, OfShell(c) PROVE HomeInv' /\ tabs' = tabs
<1>1. UNCHANGED <<myLayout, tabs, current, fading, pressed>>
  BY DEF OfShell, ServeOpen, ServeClose, ShellCloses
<1>2. /\ shell' \in [Controllers -> {"none", "opening", "running"}]
      /\ close' \in [Controllers -> {"none", "asked", "early"}]
  BY DEF HomeInv, HomeTypeOK, OfShell, ServeOpen, ServeClose, ShellCloses
<1>3. Unclosed' \subseteq Unclosed
  BY DEF HomeInv, HomeTypeOK, Unclosed, OfShell, ServeOpen, ServeClose, ShellCloses
<1> QED BY <1>1, <1>2, <1>3
        DEF HomeInv, HomeTypeOK, ShellsHaveTabs, HiddenHasNoTabs, Mounted, myLayout

\* The steps on the tabs.  What goes is the tab whose close button was pressed.
LEMMA TabsInv ==
    ASSUME HomeInv, NEW c \in Controllers,
           Add(c) \/ OnSelected(c) \/ CloseTab(c) \/ FadedOut(c) \/ OfShell(c)
    PROVE  /\ HomeInv'
           /\ ToSet(tabs) \ ToSet(tabs') \subseteq {c}
           /\ ToSet(tabs) \subseteq ToSet(tabs') \/ c \in pressed'
<1> USE DEF HomeInv, HomeTypeOK, ShellsHaveTabs, HiddenHasNoTabs
<1>1. CASE Add(c)
  <2>1. tabs' \in Seq(Controllers) /\ tabs' # <<>> /\ ToSet(tabs') = ToSet(tabs) \cup {c}
    BY <1>1, AddedTab DEF Add
  <2>2. current' = c /\ fading' \subseteq Controllers
    BY <1>1, SelectedTab DEF Add
  <2>3. /\ shell' \in [Controllers -> {"none", "opening", "running"}]
        /\ close' \in [Controllers -> {"none", "asked", "early"}]
        /\ Unclosed' \subseteq ToSet(tabs')
    BY <1>1, <2>1, OpenedShell DEF Add
  <2> QED BY <1>1, <2>1, <2>2, <2>3 DEF Add, Mounted, myLayout
<1>2. CASE OnSelected(c)
  <2>1. current' = c /\ fading' \subseteq Controllers
    BY <1>2, SelectedTab DEF OnSelected
  <2> QED BY <1>2, <2>1 DEF OnSelected, Mounted, myLayout, shells, Unclosed, ToSet
<1>3. CASE CloseTab(c)
  <2>1. CASE c \notin ToSet(tabs) /\ NoRemoval
    BY <1>3, <2>1 DEF CloseTab, NoRemoval, Mounted, myLayout, shells, Unclosed
  <2>2. ASSUME NEW i \in DOMAIN tabs, tabs[i] = c, RemoveTab(i)
        PROVE  /\ HomeInv'
               /\ ToSet(tabs) \ ToSet(tabs') \subseteq {c}
    <3>1. /\ tabs' \in Seq(Controllers)
          /\ ToSet(tabs') \subseteq ToSet(tabs)
          /\ ToSet(tabs) \ {c} \subseteq ToSet(tabs')
      BY <2>2, RemovedTab DEF RemoveTab
    <3>2. /\ shell' \in [Controllers -> {"none", "opening", "running"}]
          /\ close' \in [Controllers -> {"none", "asked", "early"}]
          /\ Unclosed' \subseteq ToSet(tabs')
      <4>1. Dispose({c})
        BY <2>2 DEF RemoveTab
      <4> QED BY <3>1, <4>1, DisposedShells
    <3>6. pressed' \subseteq Controllers
      BY <1>3 DEF CloseTab
    <3>3. tabs # <<>> /\ Mounted("terminal")
      <4>1. tabs # <<>>
        BY <2>2
      <4> QED BY <4>1
    <3>4. CASE current = c
      <4> DEFINE next == IF tabs' = <<>> THEN NoTab ELSE tabs'[1]
      <4>1. next \in Controllers \cup {NoTab} /\ (tabs' # <<>> => next \in ToSet(tabs'))
        BY <3>1 DEF ToSet
      <4>2. SelectTab(next)
        BY <2>2, <3>4 DEF RemoveTab
      <4>3. current' = next /\ fading' \subseteq Controllers
        BY <4>1, <4>2, SelectedTab
      <4>4. IF tabs' = <<>> THEN current' = NoTab ELSE current' \in ToSet(tabs')
        BY <4>1, <4>3
      <4>5. current' \in Controllers \cup {NoTab} /\ fading' \subseteq Controllers
        BY <4>1, <4>3
      <4> HIDE DEF next
      <4>6. HomeTypeOK'
        <5>1. UNCHANGED <<layout, shown, opacity, width, target, room, missed>>
          BY <1>3 DEF CloseTab, myLayout
        <5> QED BY <3>1, <3>2, <3>6, <4>5, <5>1
      <4>7. ShellsHaveTabs'
        BY <3>2, <4>4
      <4>8. HiddenHasNoTabs'
        BY <1>3, <3>3 DEF CloseTab, Mounted, myLayout
      <4> QED BY <3>1, <4>6, <4>7, <4>8
    <3>5. CASE current # c
      <4>1. current \in ToSet(tabs')
        BY <3>1, <3>3, <3>5
      <4>2. tabs' # <<>>
        BY <4>1, NoTabs
      <4> QED BY <1>3, <2>2, <3>1, <3>2, <3>3, <3>5, <3>6, <4>1, <4>2 DEF CloseTab, RemoveTab, Mounted, myLayout
    <3> QED BY <3>1, <3>4, <3>5
  <2>3. c \in pressed'
    BY <1>3 DEF CloseTab
  <2> QED BY <1>3, <2>1, <2>2, <2>3 DEF CloseTab, RemoveOf, NoRemoval
<1>4. CASE FadedOut(c)
  BY <1>4 DEF FadedOut, Mounted, myLayout, shells, Unclosed
<1>5. CASE OfShell(c)
  BY <1>5, ShellInv
<1> QED BY <1>1, <1>2, <1>3, <1>4, <1>5

TabsOK == /\ tabs \in Seq(Controllers) /\ current \in Controllers \cup {NoTab}
          /\ fading \subseteq Controllers /\ pressed \subseteq Controllers
          /\ shell \in [Controllers -> {"none", "opening", "running"}]
          /\ close \in [Controllers -> {"none", "asked", "early"}]
          /\ ShellsHaveTabs /\ HiddenHasNoTabs

\* The view of the terminals opens, closes or stays with the layout shown: it
\* closes only for the layout of the file explorer alone.
LEMMA SyncInv ==
    ASSUME HomeInv, SyncLayout
    PROVE  /\ TabsOK' /\ shown' \in Layouts
           /\ ToSet(tabs) \subseteq ToSet(tabs') \/ layout = "fileExplorer"
<1> USE DEF HomeInv, HomeTypeOK, TabsOK
<1>1. shown' = layout /\ Mount /\ layout \in Layouts
  BY DEF SyncLayout
<1>2. CASE layout = "fileExplorer" /\ DisposeAll
  <2>1. tabs' = <<>> /\ current' = NoTab /\ fading' = {} /\ pressed' = {}
    BY <1>2 DEF DisposeAll
  <2>2. tabs' \in Seq(Controllers) /\ ToSet(tabs') = {}
    BY <2>1, NoTabs
  <2>3. /\ shell' \in [Controllers -> {"none", "opening", "running"}]
        /\ close' \in [Controllers -> {"none", "asked", "early"}]
        /\ Unclosed' \subseteq ToSet(tabs')
    BY <1>2, DisposedShells DEF DisposeAll
  <2> QED BY <1>1, <1>2, <2>1, <2>2, <2>3 DEF ShellsHaveTabs, HiddenHasNoTabs
<1>3. CASE layout # "fileExplorer" /\ UNCHANGED terminals
  <2>1. Mounted("terminal")'
    BY <1>1, <1>3 DEF Mounted, Layouts, Views
  <2> QED BY <1>1, <1>3, <2>1 DEF terminals, shells, ShellsHaveTabs, Unclosed, HiddenHasNoTabs
<1>4. ASSUME NEW c \in Controllers, ~Mounted("terminal"), layout # "fileExplorer", OpenFirst(c)
      PROVE  TabsOK' /\ ToSet(tabs) \subseteq ToSet(tabs')
  <2>1. Mounted("terminal")'
    BY <1>1, <1>4 DEF Mounted, Layouts, Views
  <2>2. tabs' \in Seq(Controllers) /\ tabs' # <<>> /\ ToSet(tabs') = {c}
    BY <1>4, OneTab DEF OpenFirst
  <2>3. ToSet(tabs) = {}
    BY <1>4, NoTabs DEF HiddenHasNoTabs
  <2>4. /\ shell' \in [Controllers -> {"none", "opening", "running"}]
        /\ close' \in [Controllers -> {"none", "asked", "early"}]
        /\ Unclosed' \subseteq ToSet(tabs')
    BY <1>4, <2>2, <2>3, OpenedShell DEF OpenFirst
  <2> QED BY <2>4, <1>4, <2>1, <2>2, <2>3 DEF OpenFirst, ShellsHaveTabs, HiddenHasNoTabs
<1> QED BY <1>1, <1>2, <1>3, <1>4 DEF Mount

LEMMA TowardStep == ASSUME NEW x \in Gone .. Full, NEW g \in {Gone, Full} PROVE Toward(x, g) \in Gone .. Full
BY DEF Toward, Gone, Full

\* What syncLayout leaves of the measures.
LEMMA SyncType ==
    ASSUME HomeInv, SyncLayout
    PROVE  /\ opacity' \in [Views -> Gone .. Full]
           /\ width' \in Gone .. Full /\ target' \in {Gone, Full} /\ missed' \in BOOLEAN
<1> USE DEF HomeInv, HomeTypeOK, SyncLayout, Gone, Full
<1>1. opacity' \in [Views -> Gone .. Full]
  <2>1. [v \in Views |-> Full] \in [Views -> Gone .. Full]
    OBVIOUS
  <2>2. opacity' = opacity \/ opacity' = [v \in Views |-> Full]
    BY Zenon
  <2> QED BY <2>1, <2>2
<1>2. width' \in Gone .. Full /\ target' \in {Gone, Full}
  OBVIOUS
<1>3. missed' = FALSE
  OBVIOUS
<1> QED BY <1>1, <1>2, <1>3

\* A frame.
LEMMA FrameInv ==
    ASSUME HomeInv, Fade \/ Slide
    PROVE  HomeInv' /\ (ToSet(tabs) \subseteq ToSet(tabs') \/ layout = "fileExplorer")
<1> USE DEF HomeInv, HomeTypeOK
<1>1. layout' = layout /\ room' = room
  BY DEF Fade, Slide
<1>2. CASE SyncLayout
  BY <1>1, <1>2, SyncInv, SyncType DEF TabsOK
<1>3. CASE Fade /\ ~SyncLayout
  <2> DEFINE goal(v) == IF layout \in Views \ {v} THEN Gone ELSE Full
             faded == [v \in Views |-> Toward(opacity[v], goal(v))]
  <2>1. \A v \in Views : opacity[v] \in Gone .. Full /\ goal(v) \in {Gone, Full}
    OBVIOUS
  <2>2. \A v \in Views : Toward(opacity[v], goal(v)) \in Gone .. Full
    BY <2>1, TowardStep
  <2> HIDE DEF goal
  <2>3. faded \in [Views -> Gone .. Full]
    BY <2>2
  <2>4. opacity' = faded /\ UNCHANGED <<shown, width, target, missed, terminals>>
    BY <1>3 DEF Fade, goal
  <2> HIDE DEF faded
  <2> QED BY <1>1, <2>3, <2>4 DEF terminals, shells, ShellsHaveTabs, Unclosed, HiddenHasNoTabs, Mounted
<1>4. CASE Slide /\ ~SyncLayout
  <2>1. width' = Toward(width, target) /\ UNCHANGED <<shown, opacity, target, missed, terminals>>
    BY <1>4 DEF Slide
  <2>2. width' \in Gone .. Full
    BY <2>1, TowardStep
  <2> QED BY <1>1, <2>1, <2>2 DEF terminals, shells, ShellsHaveTabs, Unclosed, HiddenHasNoTabs, Mounted
<1> QED BY <1>2, <1>3, <1>4

\* The user asks for another layout, or the window changes.
LEMMA ResizeInv ==
    ASSUME HomeInv, (\E view \in Views : SetLayout(view)) \/ Drag \/ Resize \/ Turn
    PROVE  HomeInv' /\ tabs' = tabs
<1> USE DEF HomeInv, HomeTypeOK
<1>1. shown' = shown /\ opacity' = opacity /\ UNCHANGED terminals
  BY DEF SetLayout, Drag, Resize, Turn
<1>2. layout' \in Layouts
  BY DEF SetLayout, Drag, Resize, Turn, MenuItem, Layouts
<1>3. width' \in Gone .. Full /\ target' \in {Gone, Full}
  BY DEF SetLayout, Drag, Resize, Turn, Retarget, Wanted, Gone, Moving, Full
<1>4. room' \in BOOLEAN
  BY DEF SetLayout, Drag, Resize, Turn
<1>5. missed' \in BOOLEAN
  BY DEF SetLayout, Drag, Resize, Turn
<1> QED BY <1>1, <1>2, <1>3, <1>4, <1>5
        DEF terminals, shells, ShellsHaveTabs, Unclosed, HiddenHasNoTabs, Mounted

LEMMA HomeStepInv ==
    ASSUME HomeInv, [HomeNext]_homeVars
    PROVE  /\ HomeInv'
           /\ \A c \in ToSet(tabs) \ ToSet(tabs') : c \in pressed' \/ layout = "fileExplorer"
<1>1. ASSUME NEW c \in Controllers, Add(c) \/ OnSelected(c) \/ CloseTab(c) \/ FadedOut(c) \/ OfShell(c)
      PROVE  /\ HomeInv'
             /\ \A k \in ToSet(tabs) \ ToSet(tabs') : k \in pressed'
  BY <1>1, TabsInv
<1>2. CASE UNCHANGED homeVars
  BY <1>2 DEF homeVars, myLayout, terminals, shells, HomeInv, HomeTypeOK, ShellsHaveTabs, Unclosed, HiddenHasNoTabs, Mounted
<1> QED BY <1>1, <1>2, FrameInv, ResizeInv DEF HomeNext

THEOREM HomeInvariance == HomeSpec => []HomeInv
BY HomeInitInv, HomeStepInv, PTL DEF HomeSpec

\* Type correctness of the home page.
THEOREM HomeTypeCorrect == HomeSpec => []HomeTypeOK
<1>1. HomeInv => HomeTypeOK
  BY DEF HomeInv
<1> QED BY <1>1, HomeInvariance, PTL

\* A shell runs behind a tab unless its close is on its way or overtook its open,
\* whatever is added, closed, shown and hidden and whenever the server serves it,
\* and a view with tabs selects one of them (MultiTerminalView.tsx lines 26-63,
\* 151-160).
THEOREM EveryShellHasATab == HomeSpec => []ShellsHaveTabs
<1>1. HomeInv => ShellsHaveTabs
  BY DEF HomeInv
<1> QED BY <1>1, HomeInvariance, PTL

\* removeOf and the layouts take no other tab away than the one whose button was
\* pressed, unless the file explorer alone was asked for
\* (MultiTerminalView.tsx lines 45-63, HomePage.tsx lines 98-134).
THEOREM NoOtherTabGoes == HomeSpec => OnlyTheClosedGoes
<1>1. HomeInv /\ [HomeNext]_homeVars
         => [\A c \in ToSet(tabs) \ ToSet(tabs') : c \in pressed' \/ layout = "fileExplorer"]_homeVars
  BY HomeStepInv
<1> QED BY <1>1, HomeInvariance, PTL DEF HomeSpec, OnlyTheClosedGoes

\* A frame of the layout `both` leaves the view that fades visible, or syncs.
LEMMA FrameLayout ==
    ASSUME HomeInv, LayoutInv, Fade \/ Slide
    PROVE  LayoutInv'
<1> USE DEF HomeInv, HomeTypeOK, LayoutInv
<1>1. layout' = layout /\ room' = room
  BY DEF Fade, Slide
<1>2. CASE SyncLayout
  <2>1. shown' = layout
    BY <1>2 DEF SyncLayout
  <2>2. opacity' = opacity \/ opacity' = [v \in Views |-> Full]
    BY <1>2, Zenon DEF SyncLayout
  <2> QED BY <1>1, <2>1, <2>2 DEF Gone, Full
<1>3. CASE Fade /\ ~SyncLayout
  <2> DEFINE goal(v) == IF layout \in Views \ {v} THEN Gone ELSE Full
             faded == [v \in Views |-> Toward(opacity[v], goal(v))]
  <2>1. /\ shown = "both" /\ opacity' = faded /\ UNCHANGED <<shown, width, target, missed, terminals>>
        /\ \A v \in Views : layout # v /\ layout # "both" => faded[v] # Gone
    BY <1>3 DEF Fade
  <2>2. ASSUME NEW v \in Views PROVE faded[v] # Gone
    <3>1. CASE layout # v /\ layout # "both"
      BY <2>1, <3>1
    <3>2. CASE layout = v \/ layout = "both"
      <4>1. goal(v) = Full
        BY <3>2 DEF Views
      <4>2. opacity[v] \in Gone .. Full /\ opacity[v] # Gone
        OBVIOUS
      <4> QED BY <4>1, <4>2 DEF Toward, Gone, Full
    <3> QED BY <3>1, <3>2
  <2> HIDE DEF faded
  <2> QED BY <1>1, <2>1, <2>2 DEF UnderWay
<1>4. CASE Slide /\ ~SyncLayout
  <2>1. /\ shown # "both" /\ width' = Toward(width, target) /\ Toward(width, target) # target
        /\ UNCHANGED <<shown, opacity, target, missed, terminals>>
    BY <1>4 DEF Slide
  <2> QED BY <1>1, <2>1 DEF UnderWay
<1> QED BY <1>2, <1>3, <1>4

\* The user's second thoughts and the window's: what starts no transition is
\* missed, or waits for room.
LEMMA ResizeLayout ==
    ASSUME HomeInv, LayoutInv, (\E view \in Views : SetLayout(view)) \/ Drag \/ Resize \/ Turn
    PROVE  LayoutInv'
<1> USE DEF HomeInv, HomeTypeOK, LayoutInv, UnderWay, NoRoom, Gone, Moving, Full
<1>1. shown' = shown /\ opacity' = opacity
  BY DEF SetLayout, Drag, Resize, Turn
<1>2. ASSUME NEW view \in Views, SetLayout(view) PROVE LayoutInv'
  <2>1. CASE shown = "both"
    BY <1>1, <1>2, <2>1 DEF SetLayout
  <2>2. CASE shown # "both"
    <3>1. view = shown /\ layout' \in {shown, "both"} /\ room' = room
      BY <1>2, <2>2 DEF SetLayout, Mounted, MenuItem, Layouts
    <3>2. CASE layout' = shown
      BY <1>1, <2>2, <3>1, <3>2
    <3>3. CASE layout' = "both"
      <4>1. width' = width /\ Retarget("both") /\ (missed' <=> width = Full /\ target' = Full)
        BY <1>2, <2>2, <3>3 DEF SetLayout
      <4>2. CASE NoRoom
        BY <1>1, <2>2, <3>1, <3>3, <4>2
      <4>3. CASE ~NoRoom
        <5>1. target' = Full
          BY <2>2, <4>1, <4>3 DEF Retarget, Wanted, Refused
        <5> QED BY <1>1, <2>2, <3>1, <3>3, <4>1, <5>1
      <4> QED BY <4>2, <4>3
    <3> QED BY <3>1, <3>2, <3>3
  <2> QED BY <2>1, <2>2
<1>3. CASE Drag
  BY <1>1, <1>3 DEF Drag
<1>4. CASE Resize
  BY <1>1, <1>4 DEF Resize
<1>5. CASE Turn
  <2>1. shown # "both" /\ layout' = layout
    BY <1>5 DEF Turn
  <2>2. CASE width' = Moving /\ target' = Full
    BY <1>1, <2>1, <2>2
  <2>3. CASE ~(shown = "fileExplorer" /\ layout = "both" /\ room')
    <3>1. target' = target /\ (missed' <=> missed \/ width # target)
      BY <1>5, <2>3 DEF Turn
    <3> QED BY <1>1, <2>1, <2>3, <3>1
  <2> QED BY <1>5, <2>2, <2>3 DEF Turn
<1> QED BY <1>2, <1>3, <1>4, <1>5

\* A layout that was asked for and is not shown has its transition under way,
\* waits for room, or has missed it: the page relies on the event of a
\* transition, and there is one to come (HomePage.tsx lines 98-134, 269-292).
THEOREM TransitionComes == HomeSpec => [](layout # shown => UnderWay \/ NoRoom \/ missed)
<1>1. HomeInit => LayoutInv
  BY DEF HomeInit, LayoutInv, Gone, Full
<1>2. HomeInv /\ LayoutInv /\ [HomeNext]_homeVars => LayoutInv'
  <2> SUFFICES ASSUME HomeInv, LayoutInv, [HomeNext]_homeVars PROVE LayoutInv'
    OBVIOUS
  <2>1. ASSUME NEW c \in Controllers, Add(c) \/ OnSelected(c) \/ CloseTab(c) \/ FadedOut(c) \/ OfShell(c)
        PROVE  LayoutInv'
    <3>1. UNCHANGED myLayout
      BY <2>1 DEF Add, OnSelected, CloseTab, FadedOut, OfShell, ServeOpen, ServeClose, ShellCloses
    <3> QED BY <3>1 DEF myLayout, LayoutInv, UnderWay, NoRoom
  <2>2. CASE UNCHANGED homeVars
    BY <2>2 DEF homeVars, myLayout, LayoutInv, UnderWay, NoRoom
  <2> QED BY <2>1, <2>2, FrameLayout, ResizeLayout DEF HomeNext
<1>3. LayoutInv => (layout # shown => UnderWay \/ NoRoom \/ missed)
  BY DEF LayoutInv
<1> QED BY <1>1, <1>2, <1>3, HomeInvariance, PTL DEF HomeSpec

-----------------------------------------------------------------------------
(* The view of a directory *)

\* An object of a listing is one of its directory.
LEMMA Listed ==
    ASSUME NEW d \in Dirs, NEW l \in ListingsOf(d), NEW s \in l
    PROVE  s \in Lstats /\ s[1] \in Paths
BY ViewAssumption DEF ListingsOf, Lstats

\* What is shown of the view but its dialogs and windows.
ShownOK == /\ path \in Dirs /\ listing \in ListingsOf(path)
           /\ selecting \in BOOLEAN /\ selected \subseteq listing
           /\ dragging \in Paths \cup {None} /\ tile \in BOOLEAN
           /\ held \in [path : Paths, named : BOOLEAN] \cup {None}
TextOK == text \in Texts /\ LoadsAFile /\ TextIsOfFile
WindowsOK == preview \in Previews /\ TextOK
DialogsOK == dialog \in Dialogs /\ pending \in Requests \cup {None}

LEMMA Parts == ViewInv <=> ShownOK /\ WindowsOK /\ DialogsOK /\ clicks \in 0 .. MaxClicks
BY Listed DEF ViewInv, ViewTypeOK, SelectedIsListed, ShownOK, WindowsOK, TextOK, DialogsOK

LEMMA Fresh == NoDialog \in Dialogs /\ NoPreview \in Previews /\ NoText \in Texts
<1>1. NoDialog \in Dialogs
  <2>1. NoDialog = [info |-> None, rename |-> None, move |-> None, ask |-> None,
                    copy |-> None, delete |-> None, new |-> None]
    BY DEF NoDialog, Kinds
  <2> QED BY <2>1 DEF Dialogs
<1>2. NoPreview \in Previews
  BY DEF NoPreview, Previews
<1>3. NoText \in Texts
  BY ViewAssumption DEF NoText, Texts
<1> QED BY <1>1, <1>2, <1>3

LEMMA ViewInitInv == ViewInit => ViewInv
<1> SUFFICES ASSUME ViewInit PROVE ViewInv
  OBVIOUS
<1>1. ShownOK
  BY DEF ViewInit, ShownOK
<1>2. WindowsOK /\ DialogsOK
  BY Fresh DEF ViewInit, WindowsOK, TextOK, LoadsAFile, DialogsOK, TextIsOfFile, NoText
<1> QED BY <1>1, <1>2, Parts, ViewAssumption DEF ViewInit

LEMMA DialogUpdate ==
    ASSUME dialog \in Dialogs,
           NEW i \in Abouts \cup {None}, NEW m \in [from : Paths, to : Dirs] \cup {None},
           NEW a \in Lstats \cup {None}
    PROVE  [dialog EXCEPT !.info = i, !.move = m, !.ask = a] \in Dialogs
BY DEF Dialogs

\* What a listing leaves of the dialogs.
LEMMA RefreshedType ==
    ASSUME dialog \in Dialogs, NEW d \in Dirs, NEW l \in ListingsOf(d)
    PROVE  Refreshed(l) \in Dialogs
<1>1. ASSUME NEW p \in PathsOf(l) PROVE (CHOOSE s \in l : s[1] = p) \in Lstats
  BY <1>1, Listed DEF PathsOf
<1>2. dialog.info \in Abouts \cup {None} /\ dialog.move \in [from : Paths, to : Dirs] \cup {None}
      /\ dialog.ask \in Lstats \cup {None}
  BY DEF Dialogs
<1> DEFINE info == IF dialog.info # None /\ dialog.info.stat[1] \in PathsOf(l)
                   THEN [dialog.info EXCEPT !.stat = CHOOSE s \in l : s[1] = dialog.info.stat[1]] ELSE None
           move == IF dialog.move # None /\ dialog.move.from \in PathsOf(l) /\ dialog.move.to \in PathsOf(l)
                   THEN dialog.move ELSE None
           ask == IF dialog.ask # None /\ dialog.ask[1] \in PathsOf(l) THEN dialog.ask ELSE None
<1>4. info \in Abouts \cup {None}
  BY <1>1, <1>2 DEF Abouts, Stats
<1>5. move \in [from : Paths, to : Dirs] \cup {None} /\ ask \in Lstats \cup {None}
  BY <1>2
<1>6. Refreshed(l) = [dialog EXCEPT !.info = info, !.move = move, !.ask = ask]
  BY DEF Refreshed
<1> HIDE DEF info, move, ask
<1>7. [dialog EXCEPT !.info = info, !.move = move, !.ask = ask] \in Dialogs
  BY <1>4, <1>5, DialogUpdate, Zenon
<1> QED BY <1>6, <1>7, Zenon

LEMMA ListingInv ==
    ASSUME ViewInv, NEW d \in Dirs, NEW l \in ListingsOf(d), Show(d, l) \/ Remount(d, l)
    PROVE  ShownOK' /\ WindowsOK' /\ DialogsOK'
<1> USE DEF ShownOK, WindowsOK, DialogsOK
<1>1. CASE Remount(d, l)
  <2>1. ShownOK'
    BY <1>1, Parts DEF Remount
  <2>2. WindowsOK'
    BY <1>1, Fresh DEF Remount, TextOK, LoadsAFile, TextIsOfFile, NoText
  <2>3. DialogsOK'
    BY <1>1, Fresh DEF Remount
  <2> QED BY <2>1, <2>2, <2>3
<1>2. CASE Show(d, l)
  <2>1. tile' \in BOOLEAN
    BY <1>2, Parts DEF Show
  <2>2. selected' \subseteq l /\ selecting' \in BOOLEAN /\ dragging' \in Paths \cup {None}
    BY <1>2, Parts DEF Show, EntriesEffect, PathEffect
  <2>3. ShownOK'
    BY <1>2, <2>1, <2>2, Parts DEF Show
  <2>4. WindowsOK'
    BY <1>2, Parts DEF Show, windows, TextOK, LoadsAFile, TextIsOfFile
  <2>5. dialog' \in Dialogs
    <3>1. [dialog EXCEPT !.info = None, !.move = None, !.ask = None] \in Dialogs
      BY Parts DEF Dialogs
    <3> QED BY <1>2, <3>1, Parts, RefreshedType DEF Show, EntriesEffect, PathEffect
  <2>6. DialogsOK'
    BY <1>2, <2>5, Parts DEF Show
  <2> QED BY <2>3, <2>4, <2>6
<1> QED BY <1>1, <1>2

LEMMA DragInv ==
    ASSUME ViewInv, Grab \/ LetGo
    PROVE  ShownOK' /\ WindowsOK' /\ DialogsOK'
<1> USE DEF ShownOK, WindowsOK, DialogsOK
<1>1. path' = path /\ listing' = listing /\ UNCHANGED <<selection, windows, pending>>
  BY DEF Grab, LetGo, DragParent, DragTile, Scroll, Release, DragEnd, DropOnTile, DropOnParent,
         DropOnDownload, DropOnCopy, DropOnDelete, DropFor, DropToMove, Drop
<1>2. ASSUME NEW s \in listing, DragTile(s) PROVE ShownOK' /\ DialogsOK'
  BY <1>1, <1>2, Listed, Parts DEF DragTile, selection
<1>3. ASSUME DragParent PROVE ShownOK' /\ DialogsOK'
  <2>1. held' \in [path : Paths, named : BOOLEAN] \cup {None}
    BY <1>3, Parts, ViewAssumption DEF DragParent
  <2>2. UNCHANGED <<path, listing, selecting, selected, dragging, tile, dialog, pending>>
    BY <1>3 DEF DragParent, selection
  <2>3. ShownOK'
    BY <2>1, <2>2, Parts
  <2> QED BY <2>2, <2>3, Parts
<1>4. ASSUME Scroll \/ DragEnd PROVE ShownOK' /\ DialogsOK'
  <2>1. tile' \in BOOLEAN /\ dragging' \in Paths \cup {None} /\ held' = held /\ dialog' = dialog
    BY <1>4, Parts DEF Scroll, DragEnd
  <2>2. UNCHANGED <<path, listing, selecting, selected, pending>>
    BY <1>1 DEF selection
  <2>3. ShownOK'
    BY <2>1, <2>2, Parts
  <2> QED BY <2>1, <2>2, <2>3, Parts
<1>5. ASSUME NEW D \in Dialogs, Drop(D) PROVE ShownOK' /\ DialogsOK'
  BY <1>1, <1>5, Parts DEF Drop, selection
<1>6. ASSUME NEW d \in Dirs, DropToMove(d) PROVE ShownOK' /\ DialogsOK'
  <2>1. CASE held # None
    <3>1. [dialog EXCEPT !.move = [from |-> held.path, to |-> d]] \in Dialogs
      BY <2>1, Parts DEF Dialogs
    <3> QED BY <1>5, <1>6, <3>1, Parts DEF DropToMove
  <2> QED BY <1>6, <2>1 DEF DropToMove, Drop
<1>7. ASSUME NEW k \in {"copy", "delete"}, DropFor(k) PROVE ShownOK' /\ DialogsOK'
  <2>1. {s \in listing : s[1] = held.path} \in SUBSET Stats
    BY Parts, Listed DEF Stats
  <2>2. [dialog EXCEPT ![k] = {s \in listing : s[1] = held.path}] \in Dialogs
    BY <2>1, Parts DEF Dialogs
  <2> QED BY <1>5, <1>7, <2>2, Parts DEF DropFor
<1>8. ASSUME Release PROVE ShownOK' /\ DialogsOK'
  <2>1. dialog \in Dialogs /\ Drop(dialog)
    BY <1>8, Parts DEF Release
  <2> QED BY <1>5, <2>1
<1>9. ShownOK' /\ DialogsOK'
  BY <1>2, <1>3, <1>4, <1>6, <1>7, <1>8, Parts, ViewAssumption
     DEF Grab, LetGo, DropOnTile, DropOnParent, DropOnDownload, DropOnCopy, DropOnDelete
<1>10. WindowsOK'
  BY <1>1, Parts DEF windows, TextOK, LoadsAFile, TextIsOfFile
<1> QED BY <1>9, <1>10

LEMMA SelectionInv ==
    ASSUME ViewInv, Selections
    PROVE  ShownOK' /\ WindowsOK' /\ DialogsOK'
<1>1. selecting' \in BOOLEAN /\ selected' \subseteq listing
  BY Parts DEF Selections, CheckList, SelectAll, ExitSelecting, Toggle, Select, ShownOK
<1>2. UNCHANGED <<path, listing, drag, dialog, pending, windows>>
  BY DEF Selections, CheckList, SelectAll, ExitSelecting, Toggle, Select
<1> QED BY <1>1, <1>2, Parts DEF drag, windows, ShownOK, WindowsOK, DialogsOK, TextOK, LoadsAFile, TextIsOfFile

\* A dialog is opened, asks for something, is answered or closed.  OpenFile may
\* open a window instead.
LEMMA DialogInv ==
    ASSUME ViewInv, OpenDialog \/ UseDialog \/ EndDialog
    PROVE  ShownOK' /\ DialogsOK'
<1> USE DEF ShownOK, DialogsOK
<1>1. dialog \in Dialogs /\ pending \in Requests \cup {None} /\ path \in Dirs /\ listing \in ListingsOf(path)
  BY Parts
<1>2. UNCHANGED Base
  BY DEF OpenDialog, UseDialog, EndDialog, CopySelected, DeleteSelected, AboutDirectory, New, About,
         OpenFile, AboutOther, ToDelete, ToRename, AskRename, AskDelete, AskCopy, AskNew, Ask,
         Answered, Close, Info, Dialog
<1>3. ShownOK'
  BY <1>2, Parts DEF Base, selection, drag
<1>4. ASSUME NEW D \in Dialogs, Dialog(D) PROVE DialogsOK'
  BY <1>1, <1>4 DEF Dialog
<1>5. ASSUME NEW s \in Stats, NEW d \in Dirs, Info(s, d) PROVE DialogsOK'
  <2>1. [stat |-> s, dir |-> d] \in Abouts
    BY DEF Abouts
  <2>2. [dialog EXCEPT !.info = [stat |-> s, dir |-> d]] \in Dialogs
    BY <1>1, <2>1 DEF Dialogs
  <2> QED BY <1>4, <1>5, <2>2 DEF Info
<1>6. \A s \in listing : s \in Lstats /\ s \in Stats
  BY <1>1, Listed DEF Stats
<1>7. ASSUME OpenDialog PROVE DialogsOK'
  <2>1. selected \in SUBSET Stats
    BY <1>6, Parts
  <2>2. ASSUME CopySelected \/ DeleteSelected PROVE DialogsOK'
    <3>1. [dialog EXCEPT !.copy = selected] \in Dialogs /\ [dialog EXCEPT !.delete = selected] \in Dialogs
      BY <1>1, <2>1 DEF Dialogs
    <3> QED BY <1>4, <2>2, <3>1 DEF CopySelected, DeleteSelected
  <2>3. ASSUME AboutDirectory PROVE DialogsOK'
    <3>1. <<path, 0>> \in Stats /\ Parent[path] \in Dirs
      BY <1>1, <2>3, ViewAssumption DEF AboutDirectory, Stats
    <3> QED BY <1>5, <2>3, <3>1 DEF AboutDirectory
  <2>4. ASSUME New PROVE DialogsOK'
    <3>1. [dialog EXCEPT !.new = {}] \in Dialogs
      BY <1>1 DEF Dialogs
    <3> QED BY <1>4, <2>4, <3>1 DEF New
  <2>5. ASSUME NEW s \in listing, About(s) PROVE DialogsOK'
    BY <1>1, <1>5, <1>6, <2>5 DEF About
  <2>6. ASSUME NEW s \in listing, OpenFile(s) PROVE DialogsOK'
    <3>1. [dialog EXCEPT !.ask = s] \in Dialogs
      BY <1>1, <1>6 DEF Dialogs
    <3> QED BY <1>1, <1>4, <2>6, <3>1 DEF OpenFile
  <2>7. ASSUME NEW s \in Lstats, AboutOther(s) PROVE DialogsOK'
    BY <1>1, <1>5, <2>7 DEF AboutOther, Stats
  <2>8. ASSUME ToDelete PROVE DialogsOK'
    <3>1. dialog.info \in Abouts
      BY <1>1, <2>8 DEF ToDelete, Informing, Opened, Dialogs
    <3>2. [dialog EXCEPT !.delete = {dialog.info.stat}] \in Dialogs
      BY <1>1, <3>1 DEF Dialogs, Abouts
    <3> QED BY <1>4, <2>8, <3>2 DEF ToDelete
  <2>9. ASSUME ToRename PROVE DialogsOK'
    <3>1. [dialog EXCEPT !.rename = dialog.info] \in Dialogs
      BY <1>1 DEF Dialogs
    <3> QED BY <1>4, <2>9, <3>1 DEF ToRename
  <2> QED BY <1>7, <2>2, <2>3, <2>4, <2>5, <2>6, <2>7, <2>8, <2>9 DEF OpenDialog
<1>8. ASSUME UseDialog PROVE DialogsOK'
  <2>1. ASSUME NEW kind \in {"rename", "delete", "trash", "copy", "new"}, NEW objects \in SUBSET (Stats \cup {None}),
               Ask(kind, objects)
        PROVE  DialogsOK'
    <3>1. [kind |-> kind, objects |-> objects] \in Requests
      BY DEF Requests
    <3> QED BY <1>1, <2>1, <3>1 DEF Ask
  <2>2. {None} \in SUBSET (Stats \cup {None})
    OBVIOUS
  <2>3. ASSUME AskDelete PROVE DialogsOK'
    <3>1. dialog.delete \in SUBSET (Stats \cup {None})
      BY <1>1, <2>3 DEF AskDelete, Opened, Dialogs
    <3> QED BY <2>1, <2>2, <2>3, <3>1 DEF AskDelete
  <2> QED BY <1>8, <2>1, <2>2, <2>3 DEF UseDialog, AskRename, AskCopy, AskNew
<1>9. ASSUME NEW done, Answered(done) PROVE DialogsOK'
  <2>1. PICK r, i, d, c, n \in BOOLEAN :
           dialog' = [dialog EXCEPT !.rename = IF r THEN None ELSE @, !.info = IF i THEN None ELSE @,
                                    !.delete = IF d THEN None ELSE @, !.copy = IF c THEN None ELSE @,
                                    !.new = IF n THEN None ELSE @]
    BY <1>9 DEF Answered
  <2> DEFINE Kept(gone, v) == IF gone THEN None ELSE v
  <2>2. dialog' = [dialog EXCEPT !.rename = Kept(r, @), !.info = Kept(i, @), !.delete = Kept(d, @),
                                 !.copy = Kept(c, @), !.new = Kept(n, @)]
    BY <2>1
  <2>3. /\ Kept(r, dialog.rename) \in Abouts \cup {None}
        /\ Kept(i, dialog.info) \in Abouts \cup {None}
        /\ Kept(d, dialog.delete) \in (SUBSET Stats) \cup {None}
        /\ Kept(c, dialog.copy) \in (SUBSET Stats) \cup {None}
        /\ Kept(n, dialog.new) \in (SUBSET Stats) \cup {None}
    BY <1>1 DEF Dialogs
  <2> HIDE DEF Kept
  <2>4. dialog' \in Dialogs
    BY <1>1, <2>2, <2>3 DEF Dialogs
  <2> QED BY <1>9, <2>4 DEF Answered
<1>10. ASSUME NEW k \in Kinds, Close(k) PROVE DialogsOK'
  <2>1. [dialog EXCEPT ![k] = None] \in Dialogs
    BY <1>1 DEF Dialogs, Kinds
  <2> QED BY <1>4, <1>10, <2>1 DEF Close
<1> QED BY <1>3, <1>7, <1>8, <1>9, <1>10 DEF EndDialog

\* What becomes of the text window when it loads the file of an object.
LEMMA LoadInv ==
    ASSUME ViewInv, NEW s \in Lstats, Load(text, s)
    PROVE  TextOK'
<1>1. text \in Texts /\ MaxLate \in Nat
  BY Parts, ViewAssumption DEF WindowsOK, TextOK
<1> DEFINE n == IF text.stage = "url" THEN text.late + 1 ELSE text.late
<1>2. Cleanup(text) = [text EXCEPT !.late = n, !.stage = "none"] /\ n \in Nat
  BY <1>1 DEF Cleanup, Texts
<1> HIDE DEF n
<1>3. Cleanup(text).late = n
  BY <1>1, <1>2 DEF Texts
<1>4. text' = [text EXCEPT !.late = n, !.open = TRUE, !.lstat = s, !.stage = "url", !.loading = TRUE]
  BY <1>1, <1>2 DEF Load, Texts
<1>5. n \in 0 .. MaxLate
  BY <1>1, <1>2, <1>3 DEF Load
<1>6. text' \in Texts /\ text'.loading /\ text'.lstat = s
  BY <1>1, <1>4, <1>5 DEF Texts
<1> QED BY <1>6 DEF TextOK, LoadsAFile, TextIsOfFile

LEMMA PreviewInv ==
    ASSUME ViewInv, NEW p \in Paths, PreviewOf(p)
    PROVE  preview' \in Previews
<1>1. preview \in Previews
  BY Parts DEF WindowsOK
<1> QED BY <1>1 DEF PreviewOf, Previews

\* What comes, or fails to come, for the text window.  Whenever its progress is
\* hidden it shows nothing, the object it was opened for, or an error for it.
LEMMA TextInv ==
    ASSUME ViewInv,
           CloseText \/ UrlComes \/ UrlFails \/ LateUrlComes \/ LateUrlFails \/ Progress \/ Loaded \/ Breaks
    PROVE  TextOK'
<1> USE DEF TextOK, Text
<1>1. text \in Texts /\ LoadsAFile /\ TextIsOfFile /\ MaxLate \in Nat
  BY Parts, ViewAssumption DEF WindowsOK
<1>2. ASSUME NEW o \in BOOLEAN, NEW g \in {"none", "url", "xhr"}, NEW l \in BOOLEAN, NEW n \in 0 .. MaxLate,
             g = "none" \/ g = text.stage \/ text.stage # "none", l = text.loading \/ l,
             text' = [text EXCEPT !.open = o, !.stage = g, !.loading = l, !.late = n]
      PROVE  TextOK'
  <2>1. text' \in Texts
    BY <1>1, <1>2 DEF Texts
  <2>2. text'.lstat = text.lstat /\ text'.data = text.data /\ text'.stage = g /\ text'.loading = l
    BY <1>1, <1>2 DEF Texts
  <2>3. LoadsAFile'
    BY <1>1, <1>2, <2>2 DEF LoadsAFile
  <2>4. TextIsOfFile'
    BY <1>1, <1>2, <2>2 DEF TextIsOfFile
  <2> QED BY <2>1, <2>3, <2>4
<1>3. ASSUME NEW g \in {"none", text.stage}, NEW n \in 0 .. MaxLate,
             text' = [text EXCEPT !.stage = g, !.data = None, !.loading = FALSE, !.late = n]
      PROVE  TextOK'
  <2>1. text' \in Texts
    BY <1>1, <1>3 DEF Texts
  <2>2. text'.lstat = text.lstat /\ text'.data = None /\ text'.stage = g
    BY <1>1, <1>3 DEF Texts
  <2>3. LoadsAFile' /\ TextIsOfFile'
    BY <1>1, <1>3, <2>2 DEF LoadsAFile, TextIsOfFile
  <2> QED BY <2>1, <2>3
<1>4. /\ text.open \in BOOLEAN /\ text.loading \in BOOLEAN /\ text.stage \in {"none", "url", "xhr"}
      /\ text.late \in 0 .. MaxLate /\ (text.late > 0 => text.late - 1 \in 0 .. MaxLate)
  BY <1>1 DEF Texts
<1>5. ASSUME CloseText PROVE TextOK'
  <2>1. text' = [text EXCEPT !.open = FALSE, !.stage = text.stage, !.loading = text.loading, !.late = text.late]
    BY <1>1, <1>5 DEF CloseText, Texts
  <2> QED BY <1>2, <1>4, <2>1
<1>6. ASSUME UrlComes PROVE TextOK'
  <2>1. text.stage # "none"
        /\ text' = [text EXCEPT !.open = text.open, !.stage = "xhr", !.loading = text.loading, !.late = text.late]
    BY <1>1, <1>6 DEF UrlComes, Texts
  <2> QED BY <1>2, <1>4, <2>1
<1>7. ASSUME LateUrlComes PROVE TextOK'
  <2>1. text.late > 0
        /\ text' = [text EXCEPT !.open = text.open, !.stage = text.stage, !.loading = text.loading, !.late = text.late - 1]
    BY <1>1, <1>7 DEF LateUrlComes, Texts
  <2> QED BY <1>2, <1>4, <2>1
<1>8. ASSUME Progress PROVE TextOK'
  <2>1. text' = [text EXCEPT !.open = text.open, !.stage = text.stage, !.loading = TRUE, !.late = text.late]
    BY <1>1, <1>8 DEF Progress, Texts
  <2> QED BY <1>2, <1>4, <2>1
<1>9. ASSUME UrlFails \/ Breaks PROVE TextOK'
  <2>1. text' = [text EXCEPT !.stage = "none", !.data = None, !.loading = FALSE, !.late = text.late]
    BY <1>1, <1>9 DEF UrlFails, Breaks, Failed, Texts
  <2> QED BY <1>3, <1>4, <2>1
<1>10. ASSUME LateUrlFails PROVE TextOK'
  <2>1. text.late > 0
        /\ text' = [text EXCEPT !.stage = text.stage, !.data = None, !.loading = FALSE, !.late = text.late - 1]
    BY <1>1, <1>10 DEF LateUrlFails, Failed, Texts
  <2> QED BY <1>3, <1>4, <2>1
<1>11. ASSUME Loaded PROVE TextOK'
  <2>1. text.lstat \in Lstats
    BY <1>1, <1>11 DEF Loaded, LoadsAFile
  <2>2. text.lstat[1] \in Paths
    BY <2>1 DEF Lstats
  <2>3. PICK d \in {text.lstat, <<text.lstat[1], 0>>} :
           text' = [text EXCEPT !.stage = "none", !.data = d, !.loading = FALSE]
    BY <1>11 DEF Loaded
  <2>4. d \in Lstats \cup (Paths \X {0}) \cup {None}
    BY <2>1, <2>2
  <2>5. text' \in Texts
    BY <1>1, <2>3, <2>4 DEF Texts
  <2>6. text'.lstat = text.lstat /\ text'.data = d /\ text'.stage = "none"
    BY <1>1, <2>3 DEF Texts
  <2>7. LoadsAFile' /\ TextIsOfFile'
    BY <2>6 DEF LoadsAFile, TextIsOfFile
  <2> QED BY <2>5, <2>7
<1> QED BY <1>5, <1>6, <1>7, <1>8, <1>9, <1>10, <1>11

\* The steps of the two windows.
LEMMA WindowInv ==
    ASSUME ViewInv, View \/ CloseText \/ ClosePreview \/ Network
    PROVE  ShownOK' /\ WindowsOK' /\ DialogsOK'
<1> USE DEF WindowsOK
<1>1. ShownOK /\ DialogsOK /\ preview \in Previews /\ TextOK
  BY Parts
<1>2. UNCHANGED <<Base, pending>>
  BY DEF View, Network, ForceView, PreviewAnyway, Refresh, RefreshFrame, CloseText, ClosePreview, Asked,
         UrlComes, UrlFails, LateUrlComes, LateUrlFails, Progress, Loaded, Breaks, UrlForFrame,
         NoUrlForFrame, FrameLoads, Text, Preview
<1>3. dialog' = dialog \/ dialog' = [dialog EXCEPT !.ask = None]
  BY DEF View, Network, ForceView, PreviewAnyway, Refresh, RefreshFrame, CloseText, ClosePreview, Asked,
         UrlComes, UrlFails, LateUrlComes, LateUrlFails, Progress, Loaded, Breaks, UrlForFrame,
         NoUrlForFrame, FrameLoads, Text, Preview
<1>4. ShownOK'
  BY <1>1, <1>2 DEF ShownOK, Base, selection, drag
<1>5. DialogsOK'
  BY <1>1, <1>2, <1>3 DEF DialogsOK, Dialogs
<1>6. preview' = preview => preview' \in Previews
  BY <1>1
<1>7. text' = text => TextOK'
  BY <1>1 DEF TextOK, LoadsAFile, TextIsOfFile
<1>8. ASSUME ForceView \/ PreviewAnyway PROVE WindowsOK'
  <2>1. dialog.ask \in Lstats /\ dialog.ask[1] \in Paths
    BY <1>1, <1>8 DEF ForceView, PreviewAnyway, Asked, Opened, DialogsOK, Dialogs, Lstats
  <2>2. ASSUME ForceView PROVE WindowsOK'
    <3>1. ASSUME text' = [text EXCEPT !.open = TRUE] PROVE TextOK'
      <4>1. text' \in Texts /\ \A f \in {"lstat", "data", "stage", "loading"} : text'[f] = text[f]
        BY <1>1, <3>1 DEF Texts, TextOK
      <4> QED BY <1>1, <4>1 DEF TextOK, LoadsAFile, TextIsOfFile
    <3> QED BY <1>6, <2>1, <2>2, <3>1, LoadInv DEF ForceView
  <2> QED BY <1>7, <1>8, <2>1, <2>2, PreviewInv DEF PreviewAnyway
<1>9. ASSUME Refresh PROVE WindowsOK'
  <2>1. text.lstat \in Lstats
    BY <1>1, <1>9 DEF Texts, TextOK, Refresh
  <2> QED BY <1>6, <1>9, <2>1, LoadInv DEF Refresh
<1>10. ASSUME CloseText \/ UrlComes \/ UrlFails \/ LateUrlComes \/ LateUrlFails \/ Progress \/ Loaded \/ Breaks
       PROVE  WindowsOK'
  BY <1>6, <1>10, TextInv
     DEF CloseText, UrlComes, UrlFails, LateUrlComes, LateUrlFails, Progress, Loaded, Breaks, Text
<1>11. ASSUME ClosePreview \/ UrlForFrame \/ NoUrlForFrame \/ FrameLoads \/ RefreshFrame PROVE WindowsOK'
  <2>1. preview' \in Previews
    BY <1>1, <1>11 DEF ClosePreview, UrlForFrame, NoUrlForFrame, FrameLoads, RefreshFrame, Preview, Previews
  <2> QED BY <1>7, <1>11, <2>1 DEF ClosePreview, UrlForFrame, NoUrlForFrame, FrameLoads, RefreshFrame, Preview
<1>12. WindowsOK'
  BY <1>8, <1>9, <1>10, <1>11 DEF View, Network
<1> QED BY <1>4, <1>5, <1>12

\* Only a click on a file, of what opens and ends dialogs, concerns a window.
LEMMA DialogWindows ==
    ASSUME ViewInv, OpenDialog \/ UseDialog \/ EndDialog
    PROVE  WindowsOK'
<1> USE DEF WindowsOK
<1>1. preview \in Previews /\ TextOK
  BY Parts
<1>2. text' = text
  BY DEF OpenDialog, UseDialog, EndDialog, CopySelected, DeleteSelected, AboutDirectory, New, About,
         OpenFile, AboutOther, ToDelete, ToRename, AskRename, AskDelete, AskCopy, AskNew, Ask,
         Answered, Close, Info, Dialog, windows
<1>3. preview' = preview \/ \E s \in listing : PreviewOf(s[1])
  BY DEF OpenDialog, UseDialog, EndDialog, CopySelected, DeleteSelected, AboutDirectory, New, About,
         OpenFile, AboutOther, ToDelete, ToRename, AskRename, AskDelete, AskCopy, AskNew, Ask,
         Answered, Close, Info, Dialog, windows
<1>4. preview' \in Previews
  BY <1>1, <1>3, Parts, Listed, PreviewInv DEF ShownOK
<1>5. TextOK'
  BY <1>1, <1>2 DEF TextOK, LoadsAFile, TextIsOfFile
<1> QED BY <1>4, <1>5

LEMMA ViewStepInv == ViewInv /\ [ViewNext]_viewVars => ViewInv'
<1> SUFFICES ASSUME ViewInv, [ViewNext]_viewVars PROVE ViewInv'
  OBVIOUS
<1>1. ASSUME Click \/ Other PROVE ShownOK' /\ WindowsOK' /\ DialogsOK'
  <2>1. ASSUME \E d \in Dirs : \E l \in ListingsOf(d) : Show(d, l) \/ Remount(d, l)
        PROVE  ShownOK' /\ WindowsOK' /\ DialogsOK'
    BY <2>1, ListingInv
  <2> QED BY <1>1, <2>1, DragInv, SelectionInv, DialogInv, DialogWindows, WindowInv DEF Click, Other
<1>2. ASSUME ViewNext PROVE clicks' \in 0 .. MaxClicks
  BY <1>2, Parts, ViewAssumption DEF ViewNext
<1>3. (ShownOK /\ WindowsOK /\ DialogsOK /\ clicks \in 0 .. MaxClicks)' => ViewInv'
  BY Parts, PTL
<1>4. ASSUME UNCHANGED viewVars PROVE ViewInv'
  <2>1. UNCHANGED <<path, listing, selecting, selected, dragging, held, tile, dialog, pending, preview, text, clicks>>
    BY <1>4 DEF viewVars, Base, selection, drag, windows
  <2>2. ShownOK' /\ WindowsOK' /\ DialogsOK' /\ clicks' \in 0 .. MaxClicks
    BY <2>1, Parts DEF ShownOK, WindowsOK, TextOK, LoadsAFile, TextIsOfFile, DialogsOK
  <2> QED BY <1>3, <2>2
<1>5. ASSUME ViewNext PROVE ViewInv'
  BY <1>1, <1>2, <1>3, <1>5 DEF ViewNext
<1> QED BY <1>4, <1>5

THEOREM ViewInvariance == ViewSpec => []ViewInv
BY ViewInitInv, ViewStepInv, PTL DEF ViewSpec

\* Of every directory, listing and number of clicks, each dialog of the view is
\* open for what it can be open for, and so are the requests and the windows
\* (DirectoryPreview.tsx, with the dialogs it opens).
THEOREM ViewTypeCorrect == ViewSpec => []ViewTypeOK
BY ViewInvariance, PTL DEF ViewInv

\* What is selected is always listed as it is now, for any sequence of listings
\* that the watcher sends while the user selects (DirectoryPreview.tsx:38-79).
THEOREM SelectionIsListed == ViewSpec => []SelectedIsListed
BY ViewInvariance, PTL DEF ViewInv

\* Without its progress bar the text window shows nothing, the content of the very
\* object it was opened for, or the body of an error for it, however many
\* requests it left behind (RequestPreviewDialog.tsx:74-112).
THEOREM TextOfTheFile == ViewSpec => []TextIsOfFile
BY ViewInvariance, PTL DEF ViewInv

-----------------------------------------------------------------------------
(* The link to the server *)

USE CallsAssumption, BacklogAssumption

LEMMA ItemType ==
    ASSUME NEW i \in Items
    PROVE  /\ i = [op |-> i.op, of |-> i.of, tag |-> i.tag, live |-> i.live]
           /\ i.op \in {"encode", "decode"} /\ i.live \in BOOLEAN
           /\ i.of = "call" => i.tag \in Tags
           /\ i.of # "call" => i.of \in {"signIn", "token", "error"} /\ i.tag = 0
           /\ i.op = "encode" => i.of \in {"signIn", "call"}
           /\ i.op = "decode" => i.of \in {"token", "error", "call"}
BY DEF Items

LEMMA NewItems ==
    /\ \A c \in Tags : Item("encode", "call", c) \in Items
    /\ Item("encode", "signIn", 0) \in Items
    /\ \A m \in Messages : Item("decode", m.of, m.tag) \in Items
    /\ \A c \in Tags : Call(c) \in Messages
    /\ \A of \in {"token", "error"} : [of |-> of, tag |-> 0] \in Messages
BY DEF Items, Item, Messages, Call

\* What is left of a request of a closed connection.
LEMMA DeadItem ==
    ASSUME NEW i \in Items
    PROVE  LET d == [i EXCEPT !.live = FALSE] IN
             /\ d \in Items /\ ~d.live
             /\ d.op = i.op /\ d.of = i.of /\ d.tag = i.tag
BY DEF Items

LEMMA InitInv == Init => IndInv
<1> SUFFICES ASSUME Init PROVE IndInv
  OBVIOUS
<1> USE DEF Init
<1>1. TypeOK
  <2>1. remember \in BOOLEAN /\ stored \in BOOLEAN
    OBVIOUS
  <2>2. /\ ws \in {"connecting", "open", "closing", "closed"} /\ page \in {"none", "form", "loading", "home"}
        /\ lost \in BOOLEAN /\ listening \in BOOLEAN /\ asked \in BOOLEAN /\ closed \in BOOLEAN
    OBVIOUS
  <2>3. down \subseteq Messages /\ blobs \subseteq {i \in Items : i.op = "decode"} /\ work \in Seq(Items)
    OBVIOUS
  <2>4. tag \in 0 .. Calls /\ old \in 0 .. Calls /\ st \in [Tags -> CallStates]
    BY DEF CallStates
  <2> QED BY <2>1, <2>2, <2>3, <2>4 DEF TypeOK
<1>2. Made /\ InHand /\ InLine /\ Started /\ SentInOrder
  BY DEF Made, InHand, InLine, Started, SentInOrder, Suspended, Tags, Encoding
<1> QED BY <1>1, <1>2 DEF IndInv

\* A request more for the worker, other than the encoding of a call.
LEMMA AppendInv ==
    ASSUME IndInv, ~closed, NEW i \in Items, UNCHANGED <<closed, tag, st>>,
           work' = Append(work, i), ~(i.op = "encode" /\ i.of = "call")
    PROVE  /\ InHand' /\ InLine'
           /\ Suspended' = Suspended \cup {i}
<1> USE DEF IndInv
<1>1. work \in Seq(Items) BY DEF TypeOK
<1>2. Suspended' = Suspended \cup {i}
  BY <1>1 DEF Suspended
<1>3. \A k \in DOMAIN work' : Encoding(k)' => k \in DOMAIN work /\ work'[k] = work[k] /\ Encoding(k)
  BY <1>1 DEF Encoding
<1>4. InHand'
  BY <1>2, <1>3 DEF InHand
<1>5. InLine'
  BY <1>3 DEF InLine
<1> QED BY <1>2, <1>4, <1>5

\* Steps that touch neither the worker nor the calls.
LEMMA QuietInv ==
    ASSUME IndInv, TypeOK', UNCHANGED <<blobs, work, closed, tag, st>>,
           \A c \in Tags : Call(c) \in down' => Call(c) \in down
    PROVE  IndInv'
<1> USE DEF IndInv
<1>1. Suspended' = Suspended
  BY DEF Suspended
<1>2. Made' /\ InHand' /\ InLine' /\ SentInOrder'
  BY <1>1 DEF Made, InHand, InLine, SentInOrder, Encoding
<1>3. Started'
  BY <1>1 DEF Started
<1> QED BY <1>2, <1>3

\* The connection and the user.
LEMMA OnErrorInv == ASSUME IndInv, OnError \/ Reconnect PROVE IndInv'
<1>1. TypeOK'
  BY DEF IndInv, TypeOK, OnError, Reconnect, storage, wire
<1> QED BY <1>1, QuietInv DEF OnError, Reconnect, wire

LEMMA RememberInv == ASSUME IndInv, Remember \/ SignOut PROVE IndInv'
<1>1. remember' \in BOOLEAN /\ stored' \in BOOLEAN
  BY DEF IndInv, TypeOK, Remember, SignOut
<1>2. TypeOK'
  BY <1>1 DEF IndInv, TypeOK, Remember, SignOut, wire
<1> QED BY <1>2, QuietInv DEF Remember, SignOut, wire

LEMMA SignInAnswerInv == ASSUME IndInv, SignInAnswer PROVE IndInv'
<1>1. PICK of \in {"token", "error"} : down' = down \cup {[of |-> of, tag |-> 0]}
  BY DEF SignInAnswer
<1>2. TypeOK'
  <2>1. down' \subseteq Messages
    BY <1>1, NewItems DEF IndInv, TypeOK
  <2>2. asked' = FALSE /\ UNCHANGED <<ws, lost, page, storage, listening, blobs, work, closed, tag, old, st>>
    BY DEF SignInAnswer
  <2> QED BY <2>1, <2>2 DEF IndInv, TypeOK, storage
<1>3. \A c \in Tags : Call(c) \in down' => Call(c) \in down
  BY <1>1 DEF Call
<1> QED BY <1>2, <1>3, QuietInv DEF SignInAnswer

\* The sign-in page mounts, or its form is submitted.
LEMMA SubmitInv == ASSUME IndInv, OnOpen \/ Submit PROVE IndInv'
<1>1. UNCHANGED <<remember, blobs, closed, tag, old, st>>
  BY DEF OnOpen, Submit, storage
<1>2. stored' \in BOOLEAN /\ ws' \in {"open", ws} /\ lost' \in BOOLEAN
  BY DEF IndInv, TypeOK, OnOpen, Submit, storage
<1>3. /\ page' \in {"form", "loading"} /\ listening' \in BOOLEAN /\ asked' \in BOOLEAN
      /\ UNCHANGED down
      /\ \/ UNCHANGED work
         \/ ~closed /\ work' = Append(work, Item("encode", "signIn", 0))
  BY DEF OnOpen, Submit, SubmitNow, SendSignIn, wire, IndInv, TypeOK
<1>4. TypeOK'
  BY <1>1, <1>2, <1>3, NewItems DEF IndInv, TypeOK
<1>5. CASE UNCHANGED work
  BY <1>1, <1>3, <1>4, <1>5, QuietInv
<1>6. CASE ~closed /\ work' = Append(work, Item("encode", "signIn", 0))
  <2>1. InHand' /\ InLine' /\ Suspended' = Suspended \cup {Item("encode", "signIn", 0)}
    BY <1>1, <1>6, AppendInv, NewItems DEF Item
  <2>2. Made' /\ SentInOrder'
    BY <1>1 DEF IndInv, Made, SentInOrder
  <2>3. Started'
    BY <1>1, <1>3, <2>1 DEF IndInv, Started, Item
  <2> QED BY <1>4, <2>1, <2>2, <2>3 DEF IndInv
<1> QED BY <1>3, <1>5, <1>6

\* A message comes in, and its Blob is read.
LEMMA DeliverInv == ASSUME IndInv, NEW m \in Messages, Deliver(m) PROVE IndInv'
<1> USE DEF IndInv
<1>1. /\ UNCHANGED <<work, closed, tag, old, st, asked>> /\ down' = down \ {m} /\ m \in down
      /\ blobs' \subseteq blobs \cup {Item("decode", m.of, m.tag)}
  BY DEF Deliver
<1>2. TypeOK'
  <2>1. Item("decode", m.of, m.tag) \in {i \in Items : i.op = "decode"}
    BY NewItems DEF Item
  <2> QED BY <1>1, <2>1 DEF TypeOK, Deliver, storage
<1>3. Suspended' = Suspended
  BY <1>1 DEF Suspended
<1>4. Made' /\ InHand' /\ InLine' /\ SentInOrder'
  BY <1>1, <1>3 DEF Made, InHand, InLine, SentInOrder, Encoding
<1>5. m.of = "call" => m = Call(m.tag)
  BY DEF Messages, Call
<1>6. Started'
  BY <1>1, <1>3, <1>5 DEF Started, Item
<1> QED BY <1>2, <1>4, <1>6

\* A decoded message touches no call that is still to be sent.
LEMMA HandleInv ==
    ASSUME IndInv, NEW i \in Items, i.op = "decode", i \in blobs \cup Suspended, Handle(i),
           UNCHANGED tag, down' = down, blobs' \subseteq blobs, Suspended' \subseteq Suspended
    PROVE  /\ st' \in [Tags -> CallStates]
           /\ \A c \in Tags : st'[c] \in {"idle", "encoding"} \/ st[c] \in {"idle", "encoding"} => st'[c] = st[c]
           /\ stored' \in BOOLEAN /\ page' \in {"none", "form", "loading", "home"}
           /\ Made' /\ Started' /\ SentInOrder'
<1> USE DEF IndInv
<1>1. i.of = "call" => i.tag \in Tags /\ st[i.tag] \notin {"idle", "encoding"}
  BY ItemType DEF Started
<1>2. st' \in [Tags -> CallStates]
  BY <1>1 DEF Handle, TypeOK, CallStates
<1>3. \A c \in Tags : st'[c] \in {"idle", "encoding"} \/ st[c] \in {"idle", "encoding"} => st'[c] = st[c]
  BY <1>1 DEF Handle, TypeOK, CallStates
<1>4. stored' \in BOOLEAN /\ page' \in {"none", "form", "loading", "home"}
  BY DEF Handle, TypeOK
<1>5. Made'
  BY <1>3 DEF Made
<1>6. Started'
  BY <1>3 DEF Started
<1>7. SentInOrder'
  BY <1>3 DEF SentInOrder
<1> QED BY <1>2, <1>3, <1>4, <1>5, <1>6, <1>7

LEMMA ReadInv == ASSUME IndInv, NEW i \in blobs, Read(i) PROVE IndInv'
<1> USE DEF IndInv
<1>1. i \in Items /\ i.op = "decode" /\ blobs' = blobs \ {i}
  BY DEF TypeOK, Read
<1>2. UNCHANGED <<ws, lost, remember, listening, asked, down, closed, tag, old>>
  BY DEF Read, wire
<1>3. CASE closed /\ Handle(i) /\ UNCHANGED work
  <2>1. Suspended' = Suspended
    BY <1>3 DEF Suspended
  <2>2. /\ st' \in [Tags -> CallStates]
        /\ \A c \in Tags : st'[c] \in {"idle", "encoding"} \/ st[c] \in {"idle", "encoding"} => st'[c] = st[c]
        /\ stored' \in BOOLEAN /\ page' \in {"none", "form", "loading", "home"}
        /\ Made' /\ Started' /\ SentInOrder'
    BY <1>1, <1>2, <1>3, <2>1, HandleInv
  <2>3. TypeOK'
    BY <1>1, <1>2, <1>3, <2>2 DEF TypeOK
  <2>4. InHand' /\ InLine'
    BY <1>2, <1>3, <2>1, <2>2 DEF InHand, InLine, Encoding
  <2> QED BY <2>2, <2>3, <2>4
<1>4. CASE ~closed /\ work' = Append(work, i) /\ UNCHANGED <<st, stored, page>>
  <2>1. InHand' /\ InLine' /\ Suspended' = Suspended \cup {i}
    BY <1>1, <1>2, <1>4, AppendInv
  <2>2. TypeOK'
    BY <1>1, <1>2, <1>4 DEF TypeOK
  <2>3. Made' /\ SentInOrder'
    BY <1>2, <1>4 DEF Made, SentInOrder
  <2>4. Started'
    BY <1>1, <1>2, <1>4, <2>1 DEF Started
  <2> QED BY <2>1, <2>2, <2>3, <2>4
<1> QED BY <1>3, <1>4 DEF Read

\* A call is answered by the server.
LEMMA AnswerInv == ASSUME IndInv, NEW c \in Tags, Answer(c) PROVE IndInv'
<1> USE DEF IndInv
<1>1. /\ st[c] = "pending" /\ st' = [st EXCEPT ![c] = "replied"] /\ down' = down \cup {Call(c)}
      /\ UNCHANGED <<ws, lost, page, remember, stored, listening, asked, blobs, work, closed, tag, old>>
  BY DEF Answer, storage
<1>2. \A d \in Tags : st'[d] \in {"idle", "encoding"} \/ st[d] \in {"idle", "encoding"} => st'[d] = st[d]
  BY <1>1 DEF TypeOK
<1>3. TypeOK'
  BY <1>1, NewItems DEF TypeOK, CallStates
<1>4. Suspended' = Suspended
  BY <1>1 DEF Suspended
<1>5. Made' /\ SentInOrder' /\ InLine'
  BY <1>1, <1>2 DEF Made, SentInOrder, InLine, Encoding
<1>6. InHand'
  <2>1. \A k \in DOMAIN work : Encoding(k) => work[k].tag \in Tags
    BY ItemType DEF TypeOK, Encoding
  <2> QED BY <1>1, <1>2, <1>4, <2>1 DEF InHand, Encoding
<1>7. Started'
  <2>1. st'[c] = "replied" /\ \A d \in Tags : Call(d) = Call(c) => d = c
    BY <1>1 DEF TypeOK, Call
  <2> QED BY <1>1, <1>2, <1>4, <2>1 DEF Started
<1> QED BY <1>3, <1>5, <1>6, <1>7

\* A call is made: the latest one, behind all that are in the worker's hands.
LEMMA RestInv == ASSUME IndInv, Rest PROVE IndInv'
<1> USE DEF IndInv
<1> DEFINE new == tag + 1
           i == Item("encode", "call", new)
<1>1. /\ new \in Tags /\ tag' = new /\ st[new] = "idle"
      /\ UNCHANGED <<ws, lost, page, remember, stored, listening, asked, down, blobs, closed, old>>
  BY DEF Rest, TypeOK, Made, Tags, storage, wire
<1>2. i \in Items /\ i.op = "encode" /\ i.of = "call" /\ i.tag = new /\ i.live
  BY <1>1, NewItems DEF Item
<1>3. \A c \in Tags : Call(c) \in down => c # new
  BY <1>1 DEF Started
<1>4. \A j \in blobs \cup Suspended : j.op = "decode" /\ j.of = "call" => j.tag # new
  BY <1>1 DEF Started
<1>5. CASE closed /\ st' = [st EXCEPT ![new] = Sent] /\ UNCHANGED work
  <2>0. Sent \in {"pending", "forsaken"}
    BY DEF Sent
  <2>1. st' \in [Tags -> CallStates] /\ st'[new] = Sent /\ \A c \in Tags \ {new} : st'[c] = st[c]
    BY <1>1, <1>5, <2>0 DEF TypeOK, CallStates
  <2>2. work = <<>> /\ Suspended' = Suspended /\ Suspended = {}
    BY <1>5 DEF InHand, Suspended
  <2>3. TypeOK'
    BY <1>1, <1>5, <2>1 DEF TypeOK, Tags
  <2>4. Made'
    BY <1>1, <2>1 DEF Made, Tags, TypeOK
  <2>5. \A c \in Tags : st'[c] # "encoding"
    BY <2>0, <2>1, <2>2 DEF InHand
  <2>6. InHand' /\ InLine' /\ SentInOrder'
    BY <1>1, <1>5, <2>2, <2>5 DEF InHand, InLine, SentInOrder
  <2>7. Started'
    BY <1>1, <1>5, <2>0, <2>1, <2>2 DEF Started
  <2> QED BY <2>3, <2>4, <2>6, <2>7
<1>6. CASE ~closed /\ st' = [st EXCEPT ![new] = "encoding"] /\ work' = Append(work, i)
  <2>1. st' \in [Tags -> CallStates] /\ st'[new] = "encoding" /\ \A c \in Tags \ {new} : st'[c] = st[c]
    BY <1>1, <1>6 DEF TypeOK, CallStates
  <2>2. /\ work \in Seq(Items) /\ Len(work) \in Nat
        /\ Len(work') = Len(work) + 1 /\ work'[Len(work) + 1] = i
        /\ \A k \in DOMAIN work : work'[k] = work[k] /\ k < Len(work) + 1
        /\ DOMAIN work' = DOMAIN work \cup {Len(work) + 1}
    BY <1>2, <1>6 DEF TypeOK
  <2>3. Suspended' = Suspended \cup {i}
    BY <2>2 DEF Suspended
  <2>4. TypeOK'
    BY <1>1, <1>2, <1>6, <2>1 DEF TypeOK, Tags
  <2>5. Made'
    BY <1>1, <2>1 DEF Made, Tags, TypeOK
  <2>6. \A k \in DOMAIN work : (Encoding(k)' <=> Encoding(k)) /\ (Encoding(k) => work[k].tag \in Tags /\ work[k].tag < new)
    <3>1. \A k \in DOMAIN work : Encoding(k) => work[k].tag \in Tags /\ work[k].tag <= tag
      BY ItemType, <2>2 DEF Encoding, InHand
    <3> QED BY <2>2, <3>1 DEF Encoding, TypeOK, Tags
  <2>7. InHand'
    <3>1. \A c \in Tags : st'[c] = "encoding" => Item("encode", "call", c) \in Suspended'
      BY <2>1, <2>3 DEF InHand
    <3>2. ASSUME NEW k \in DOMAIN work', Encoding(k)'
          PROVE  work'[k].tag <= tag' /\ st'[work'[k].tag] = "encoding"
      <4>1. CASE k \in DOMAIN work
        BY <1>1, <2>1, <2>2, <2>6, <3>2, <4>1 DEF InHand, Tags, TypeOK
      <4>2. CASE k = Len(work) + 1
        BY <1>1, <1>2, <2>1, <2>2, <4>2 DEF Tags, TypeOK
      <4> QED BY <2>2, <3>2, <4>1, <4>2
    <3> QED BY <1>1, <1>6, <3>1, <3>2 DEF InHand
  <2>8. InLine'
    <3>1. SUFFICES ASSUME NEW j \in DOMAIN work', NEW k \in DOMAIN work', j < k, Encoding(j)', Encoding(k)'
                   PROVE  work'[j].tag < work'[k].tag
      BY DEF InLine
    <3>2. j \in DOMAIN work
      BY <2>2, <3>1
    <3>3. CASE k \in DOMAIN work
      BY <2>2, <2>6, <3>1, <3>2, <3>3 DEF InLine
    <3>4. CASE k = Len(work) + 1
      BY <1>2, <2>2, <2>6, <3>1, <3>2, <3>4
    <3> QED BY <2>2, <3>3, <3>4
  <2>9. Started'
    BY <1>1, <1>2, <1>3, <1>4, <1>6, <2>1, <2>3 DEF Started
  <2>10. SentInOrder'
    <3>1. SUFFICES ASSUME NEW a \in Tags, NEW b \in Tags, a < b, st'[a] = "encoding"
                   PROVE  st'[b] \in {"idle", "encoding"}
      BY DEF SentInOrder
    <3>2. CASE a = new
      BY <1>1, <2>1, <3>1, <3>2 DEF Made, Tags, TypeOK
    <3>3. CASE a # new
      BY <1>1, <2>1, <3>1, <3>3 DEF SentInOrder
    <3> QED BY <3>2, <3>3
  <2> QED BY <2>4, <2>5, <2>7, <2>8, <2>9, <2>10
<1> QED BY <1>5, <1>6 DEF Rest

\* The websocket is closed: every call that has not been answered is forsaken.
LEMMA OnCloseInv == ASSUME IndInv, OnClose PROVE IndInv'
<1> USE DEF IndInv
<1>1. /\ UNCHANGED <<remember, stored, closed, tag>> /\ old' = tag
      /\ ws' \in {"closed", "connecting"} /\ lost' = TRUE /\ page' = "none"
      /\ listening' = FALSE /\ asked' = FALSE /\ down' = {}
      /\ blobs' = {[i EXCEPT !.live = FALSE] : i \in blobs}
      /\ work' = [k \in DOMAIN work |-> [work[k] EXCEPT !.live = FALSE]]
      /\ st' = [c \in Tags |-> IF st[c] \in {"encoding", "pending"} \/ Call(c) \in down
                               THEN "forsaken" ELSE st[c]]
  BY DEF OnClose, storage
<1>2. /\ DOMAIN work' = DOMAIN work /\ work' \in Seq(Items)
      /\ \A k \in DOMAIN work : /\ ~work'[k].live /\ work'[k].op = work[k].op
                               /\ work'[k].of = work[k].of /\ work'[k].tag = work[k].tag
  <2>1. /\ work \in Seq(Items) /\ Len(work) \in Nat /\ DOMAIN work = 1 .. Len(work)
        /\ \A k \in DOMAIN work : work[k] \in Items
    BY DEF TypeOK
  <2>2. \A k \in DOMAIN work : /\ work'[k] = [work[k] EXCEPT !.live = FALSE] /\ work'[k] \in Items
                               /\ ~work'[k].live /\ work'[k].op = work[k].op
                               /\ work'[k].of = work[k].of /\ work'[k].tag = work[k].tag
    BY <1>1, <2>1, DeadItem
  <2>3. work' \in Seq(Items)
    BY <1>1, <2>1, <2>2
  <2> QED BY <1>1, <2>2, <2>3
<1>3. \A i \in blobs' : i \in Items /\ i.op = "decode" /\ \E j \in blobs : j.op = i.op /\ j.of = i.of /\ j.tag = i.tag
  <2> TAKE i \in blobs'
  <2>1. PICK j \in blobs : i = [j EXCEPT !.live = FALSE]
    BY <1>1
  <2>2. j \in Items /\ j.op = "decode"
    BY DEF TypeOK
  <2> QED BY <2>1, <2>2, DeadItem
<1>4. \A i \in Suspended' : \E j \in Suspended : j.op = i.op /\ j.of = i.of /\ j.tag = i.tag
  BY <1>2 DEF Suspended
<1>5. /\ st' \in [Tags -> CallStates]
      /\ \A c \in Tags : st'[c] # "encoding" /\ (st'[c] = "idle" => st[c] = "idle")
      /\ \A c \in Tags : st[c] = "idle" => st'[c] = "idle"
  BY <1>1 DEF TypeOK, CallStates, Started
<1>6. TypeOK'
  BY <1>1, <1>2, <1>3, <1>5 DEF TypeOK
<1>7. \A k \in DOMAIN work' : ~Encoding(k)'
  BY <1>2 DEF Encoding
<1>8. InHand'
  <2>1. closed => work' = <<>>
    BY <1>1, <1>2 DEF InHand
  <2> QED BY <1>1, <1>5, <1>7, <2>1 DEF InHand
<1>9. Made' /\ InLine' /\ SentInOrder'
  BY <1>1, <1>5, <1>7 DEF Made, InLine, SentInOrder
<1>10. Started'
  BY <1>1, <1>3, <1>4, <1>5 DEF Started
<1> QED BY <1>6, <1>8, <1>9, <1>10

\* The worker answers its oldest request.
LEMMA WorkerDoneInv == ASSUME IndInv, WorkerDone PROVE IndInv'
<1> USE DEF IndInv
<1> DEFINE i == Head(work)
<1>1. /\ work \in Seq(Items) /\ Len(work) \in Nat /\ Len(work) > 0 /\ i = work[1] /\ i \in Items
      /\ work' = Tail(work) /\ work' \in Seq(Items)
      /\ \A k \in DOMAIN work' : k + 1 \in DOMAIN work /\ work'[k] = work[k + 1]
  <2>1. work \in Seq(Items) /\ work # <<>> /\ work' = Tail(work)
    BY DEF WorkerDone, TypeOK
  <2>2. Len(work) \in Nat /\ Len(work) > 0 /\ DOMAIN work = 1 .. Len(work) /\ i = work[1] /\ i \in Items
    BY <2>1
  <2>3. work' \in Seq(Items) /\ Len(work') = Len(work) - 1 /\ DOMAIN work' = 1 .. Len(work) - 1
    BY <2>1, <2>2
  <2>4. \A k \in DOMAIN work' : work'[k] = work[k + 1]
    BY <2>1, <2>2, <2>3
  <2>5. \A k \in DOMAIN work' : k + 1 \in DOMAIN work
    BY <2>2, <2>3
  <2> QED BY <2>1, <2>2, <2>3, <2>4, <2>5
<1>2. UNCHANGED <<ws, lost, remember, blobs, closed, tag, old>> /\ ~closed
  <2>1. ~closed
    BY DEF WorkerDone, InHand
  <2> QED BY <2>1 DEF WorkerDone
<1>3. i \in Suspended /\ Suspended' \subseteq Suspended /\ Suspended \subseteq Suspended' \cup {i}
  <2>1. 1 \in DOMAIN work
    BY <1>1
  <2>2. i \in Suspended
    BY <1>1, <2>1 DEF Suspended
  <2>3. Suspended' \subseteq Suspended
    <3>1. SUFFICES ASSUME NEW k \in DOMAIN work' PROVE work'[k] \in Suspended
      BY DEF Suspended
    <3> QED BY <1>1 DEF Suspended
  <2>4. ASSUME NEW k \in DOMAIN work, k # 1 PROVE work[k] \in Suspended'
    <3>1. work \in Seq(Items) /\ Len(work') = Len(work) - 1 /\ DOMAIN work' = 1 .. Len(work) - 1
      BY <1>1
    <3>2. k - 1 \in DOMAIN work' /\ (k - 1) + 1 = k
      BY <2>4, <3>1
    <3>3. work'[k - 1] = work[k]
      BY <1>1, <3>2
    <3> QED BY <3>2, <3>3 DEF Suspended
  <2>5. Suspended \subseteq Suspended' \cup {i}
    BY <1>1, <2>4 DEF Suspended
  <2> QED BY <2>2, <2>3, <2>5
<1>4. \A k \in DOMAIN work' : Encoding(k)' => Encoding(k + 1)
  BY <1>1 DEF Encoding
<1>5. InLine'
  <2>1. SUFFICES ASSUME NEW j \in DOMAIN work', NEW k \in DOMAIN work', j < k, Encoding(j)', Encoding(k)'
                 PROVE  work'[j].tag < work'[k].tag
    BY DEF InLine
  <2>2. j \in Nat /\ k \in Nat
    BY <1>1
  <2>3. /\ j + 1 \in DOMAIN work /\ k + 1 \in DOMAIN work /\ j + 1 < k + 1
        /\ work'[j] = work[j + 1] /\ work'[k] = work[k + 1] /\ Encoding(j + 1) /\ Encoding(k + 1)
    BY <1>1, <1>4, <2>1, <2>2
  <2> QED BY <2>3 DEF InLine
<1>6. CASE i.op = "encode" /\ i.of = "call" /\ i.live
  <2>1. /\ i = Item("encode", "call", i.tag) /\ i.tag \in Tags /\ st[i.tag] = "encoding" /\ Encoding(1)
    <3>1. 1 \in DOMAIN work /\ Encoding(1)
      BY <1>1, <1>6 DEF Encoding
    <3>2. st[i.tag] = "encoding"
      BY <1>1, <3>1 DEF InHand
    <3> QED BY <1>1, <1>6, <3>1, <3>2, ItemType DEF Item
  <2>2. st' = [st EXCEPT ![i.tag] = Sent] /\ UNCHANGED <<listening, asked, down, stored, page>>
    BY <1>6 DEF WorkerDone, wire
  <2>3. Sent \in {"pending", "forsaken"}
    BY DEF Sent
  <2>4. st' \in [Tags -> CallStates] /\ st'[i.tag] = Sent /\ \A c \in Tags \ {i.tag} : st'[c] = st[c]
    BY <2>1, <2>2, <2>3 DEF TypeOK, CallStates
  <2>5. TypeOK'
    BY <1>1, <1>2, <2>2, <2>4 DEF TypeOK
  <2>6. Made'
    BY <1>2, <2>1, <2>4 DEF Made
  <2>7. \A k \in DOMAIN work' : Encoding(k)' => i.tag < work'[k].tag /\ work'[k].tag \in Tags
    <3>1. SUFFICES ASSUME NEW k \in DOMAIN work', Encoding(k)'
                   PROVE  i.tag < work'[k].tag /\ work'[k].tag \in Tags
      OBVIOUS
    <3>2. /\ k + 1 \in DOMAIN work /\ 1 \in DOMAIN work /\ 1 < k + 1
          /\ work'[k] = work[k + 1] /\ work[k + 1] \in Items /\ Encoding(k + 1)
      BY <1>1, <1>4, <3>1
    <3>3. work[1].tag < work[k + 1].tag
      BY <2>1, <3>2 DEF InLine
    <3>4. work[k + 1].tag \in Tags
      BY <3>2, ItemType DEF Encoding
    <3> QED BY <1>1, <3>2, <3>3, <3>4
  <2>8. InHand'
    <3>1. \A c \in Tags : st'[c] = "encoding" => Item("encode", "call", c) \in Suspended'
      <4>1. \A c \in Tags : Item("encode", "call", c) = i => c = i.tag
        BY DEF Item
      <4> QED BY <1>3, <2>3, <2>4, <4>1 DEF InHand
    <3>2. \A k \in DOMAIN work' : Encoding(k)' => work'[k].tag <= tag' /\ st'[work'[k].tag] = "encoding"
      <4>1. SUFFICES ASSUME NEW k \in DOMAIN work', Encoding(k)'
                     PROVE  work'[k].tag <= tag' /\ st'[work'[k].tag] = "encoding"
        OBVIOUS
      <4>2. work'[k].tag \in Tags \ {i.tag}
        BY <2>1, <2>7, <4>1 DEF Tags
      <4>3. k + 1 \in DOMAIN work /\ work'[k] = work[k + 1] /\ Encoding(k + 1)
        BY <1>1, <1>4, <4>1
      <4>4. work[k + 1].tag <= tag /\ st[work[k + 1].tag] = "encoding"
        BY <4>3 DEF InHand
      <4> QED BY <1>2, <2>4, <4>2, <4>3, <4>4
    <3> QED BY <1>2, <3>1, <3>2 DEF InHand
  <2>9. Started'
    BY <1>2, <1>3, <2>2, <2>3, <2>4 DEF Started
  <2>10. SentInOrder'
    <3>1. SUFFICES ASSUME NEW a \in Tags, NEW b \in Tags, a < b, st'[a] = "encoding"
                   PROVE  st'[b] \in {"idle", "encoding"}
      BY DEF SentInOrder
    <3>2. a # i.tag /\ st[a] = "encoding"
      BY <2>3, <2>4, <3>1
    <3>3. CASE b = i.tag
      <4>1. Item("encode", "call", a) \in Suspended'
        BY <2>8, <3>1 DEF InHand
      <4>2. PICK k \in DOMAIN work' : work'[k] = Item("encode", "call", a)
        BY <4>1 DEF Suspended
      <4>3. Encoding(k)' /\ work'[k].tag = a
        BY <4>2 DEF Encoding, Item
      <4> QED BY <2>1, <2>7, <3>1, <3>3, <4>3 DEF Tags
    <3>4. CASE b # i.tag
      BY <2>4, <3>1, <3>2, <3>4 DEF SentInOrder
    <3> QED BY <3>3, <3>4
  <2> QED BY <1>5, <2>5, <2>6, <2>8, <2>9, <2>10
<1>7. CASE ~(i.op = "encode" /\ i.of = "call" /\ i.live)
  <2>1. \A c \in Tags : i # Item("encode", "call", c)
    BY <1>7 DEF Item
  <2>2. /\ st' \in [Tags -> CallStates]
        /\ \A c \in Tags : st'[c] \in {"idle", "encoding"} \/ st[c] \in {"idle", "encoding"} => st'[c] = st[c]
        /\ stored' \in BOOLEAN /\ page' \in {"none", "form", "loading", "home"}
        /\ listening' \in BOOLEAN /\ asked' \in BOOLEAN /\ down' = down
        /\ Made' /\ Started' /\ SentInOrder'
    <3>1. CASE i.op = "decode"
      <4>1. Handle(i) /\ UNCHANGED <<listening, asked, down>>
        BY <1>1, <3>1 DEF WorkerDone, wire
      <4> QED BY <1>1, <1>2, <1>3, <3>1, <4>1, HandleInv DEF TypeOK
    <3>2. CASE i.op = "encode"
      <4>1. UNCHANGED <<st, stored, page, down>> /\ listening' \in BOOLEAN /\ asked' \in BOOLEAN
        BY <1>7, <3>2 DEF WorkerDone, wire, SendSignIn, TypeOK
      <4>2. Made' /\ SentInOrder'
        BY <1>2, <4>1 DEF Made, SentInOrder
      <4>3. Started'
        BY <1>2, <1>3, <4>1 DEF Started
      <4> QED BY <4>1, <4>2, <4>3 DEF TypeOK
    <3> QED BY <1>1, <3>1, <3>2, ItemType
  <2>3. TypeOK'
    BY <1>1, <1>2, <2>2 DEF TypeOK
  <2>4. InHand'
    <3>1. \A c \in Tags : st'[c] = "encoding" => Item("encode", "call", c) \in Suspended'
      BY <1>3, <2>1, <2>2 DEF InHand
    <3>2. \A k \in DOMAIN work' : Encoding(k)' => work'[k].tag <= tag' /\ st'[work'[k].tag] = "encoding"
      <4>1. SUFFICES ASSUME NEW k \in DOMAIN work', Encoding(k)'
                     PROVE  work'[k].tag <= tag' /\ st'[work'[k].tag] = "encoding"
        OBVIOUS
      <4>2. k + 1 \in DOMAIN work /\ work'[k] = work[k + 1] /\ Encoding(k + 1) /\ work[k + 1] \in Items
        BY <1>1, <1>4, <4>1
      <4>3. work[k + 1].tag <= tag /\ st[work[k + 1].tag] = "encoding" /\ work[k + 1].tag \in Tags
        BY <4>2, ItemType DEF InHand, Encoding
      <4> QED BY <1>2, <2>2, <4>2, <4>3
    <3> QED BY <1>2, <3>1, <3>2 DEF InHand
  <2> QED BY <1>5, <2>2, <2>3, <2>4
<1> QED BY <1>6, <1>7

\* The worker fails: all that was being encoded is sent at once, or forsaken.
LEMMA WorkerFailsInv == ASSUME IndInv, WorkerFails PROVE IndInv'
<1> USE DEF IndInv
<1>1. /\ ~closed /\ closed' = TRUE /\ work' = <<>>
      /\ st' = [c \in Tags |-> CASE Item("encode", "call", c) \in Suspended -> Sent
                               [] \E i \in Suspended : i.op = "decode" /\ i.tag = c -> "forsaken"
                               [] OTHER -> st[c]]
      /\ UNCHANGED <<ws, lost, page, remember, stored, blobs, tag, old>>
      /\ UNCHANGED down /\ listening' \in BOOLEAN /\ asked' \in BOOLEAN
  BY DEF WorkerFails, SendSignIn, storage, wire, TypeOK
<1>2. Sent \in {"pending", "forsaken"}
  BY DEF Sent
<1>3. Suspended' = {}
  BY <1>1 DEF Suspended
<1>4. \A c \in Tags : st'[c] \in {"pending", "forsaken", st[c]}
  BY <1>1, <1>2
<1>5. \A c \in Tags : st'[c] # "encoding"
  BY <1>1, <1>2 DEF InHand
<1>6. \A c \in Tags : c > tag => st'[c] = "idle"
  <2>1. SUFFICES ASSUME NEW c \in Tags, c > tag PROVE st'[c] = "idle"
    OBVIOUS
  <2>2. st[c] = "idle"
    BY <2>1 DEF Made
  <2>3. Item("encode", "call", c) \notin Suspended
    <3>1. SUFFICES ASSUME NEW k \in DOMAIN work, work[k] = Item("encode", "call", c) PROVE FALSE
      BY DEF Suspended
    <3>2. Encoding(k) /\ work[k].tag = c
      BY <3>1 DEF Encoding, Item
    <3> QED BY <2>2, <3>2 DEF InHand
  <2>4. \A i \in Suspended : i.op = "decode" => i.tag # c
    <3>1. \A i \in Suspended : i \in Items
      BY DEF TypeOK, Suspended
    <3>2. \A i \in Suspended : i.op = "decode" /\ i.of = "call" => i.tag # c
      BY <2>2 DEF Started
    <3> QED BY <3>1, <3>2, ItemType DEF Tags
  <2> QED BY <1>1, <2>2, <2>3, <2>4
<1>7. TypeOK'
  <2>1. st' \in [Tags -> CallStates]
    BY <1>1, <1>4 DEF TypeOK, CallStates
  <2> QED BY <1>1, <2>1 DEF TypeOK
<1>8. Made' /\ InHand' /\ InLine' /\ SentInOrder'
  BY <1>1, <1>3, <1>5, <1>6 DEF Made, InHand, InLine, SentInOrder
<1>9. Started'
  BY <1>1, <1>2, <1>3, <1>4 DEF Started
<1> QED BY <1>7, <1>8, <1>9

LEMMA StepInv == IndInv /\ [Next]_vars => IndInv'
<1> SUFFICES ASSUME IndInv, [Next]_vars PROVE IndInv'
  OBVIOUS
<1>1. CASE UNCHANGED vars
  BY <1>1 DEF IndInv, TypeOK, Made, InHand, InLine, Started, SentInOrder, Suspended, Encoding,
              vars, storage, wire
<1>2. CASE Next
  BY <1>2, WorkerDoneInv, WorkerFailsInv, SubmitInv, OnErrorInv, OnCloseInv, DeliverInv, ReadInv,
     RememberInv, RestInv, SignInAnswerInv, AnswerInv DEF Next
<1> QED BY <1>1, <1>2

THEOREM Invariance == Spec => []IndInv
BY InitInv, StepInv, PTL DEF Spec

\* Every variable keeps its type, and a call its place among CallStates
\* (App.tsx, SignInPage.tsx, Compress.ts).
THEOREM TypeCorrect == Spec => []TypeOK
<1>1. IndInv => TypeOK
  BY DEF IndInv
<1> QED BY Invariance, <1>1, PTL

\* Calls leave in the order in which they were made, however many there are and
\* whenever the websocket is lost or the worker fails (Compress.ts:20-41, 71-82).
THEOREM CallsLeaveInOrder == Spec => []SentInOrder
<1>1. IndInv => SentInOrder
  BY DEF IndInv
<1> QED BY Invariance, <1>1, PTL

\* A password is stored with the tick set, dropped when the tick goes or a
\* sign-in page mounts without it, and a sign-out closes the connection first.
LEMMA ForgottenStep ==
    ASSUME UntickedIsForgotten, [Next]_vars PROVE UntickedIsForgotten'
<1> USE DEF UntickedIsForgotten, storage
<1>1. CASE UNCHANGED vars
  BY <1>1 DEF vars
<1>2. CASE WorkerDone
  <2>1. UNCHANGED <<ws, remember>>
    BY <1>2 DEF WorkerDone
  <2>2. stored' = stored \/ stored' = (stored \/ (Head(work).of = "token" /\ remember))
    BY <1>2 DEF WorkerDone, Handle
  <2> QED BY <2>1, <2>2
<1>3. CASE \E i \in blobs : Read(i)
  <2>1. PICK i \in blobs : Read(i)
    BY <1>3
  <2>2. UNCHANGED <<ws, remember>>
    BY <2>1 DEF Read
  <2>3. stored' = stored \/ stored' = (stored \/ (i.of = "token" /\ remember))
    BY <2>1 DEF Read, Handle
  <2> QED BY <2>2, <2>3
<1>4. CASE OnOpen
  BY <1>4 DEF OnOpen
<1>5. CASE OnError \/ OnClose \/ Reconnect
  BY <1>5 DEF OnError, OnClose, Reconnect
<1>6. CASE Remember
  <2>1. UNCHANGED ws /\ remember' = ~remember /\ stored' = (stored /\ ~remember)
    BY <1>6 DEF Remember
  <2> QED BY <2>1
<1>7. CASE SignOut
  BY <1>7 DEF SignOut
<1>8. CASE WorkerFails \/ Submit \/ Rest \/ SignInAnswer \/ (\E m \in Messages : Deliver(m)) \/ (\E c \in Tags : Answer(c))
  BY <1>8 DEF WorkerFails, Submit, Rest, SignInAnswer, Deliver, Answer
<1> QED BY <1>1, <1>2, <1>3, <1>4, <1>5, <1>6, <1>7, <1>8 DEF Next

\* No password is stored without the tick while a connection is open, whatever
\* earlier connections and late answers do (SignInPage.tsx:54-63, 82-93, 181-189).
THEOREM PasswordIsForgotten == Spec => []UntickedIsForgotten
<1>1. Init => UntickedIsForgotten
  BY DEF Init, UntickedIsForgotten
<1> QED BY <1>1, ForgottenStep, PTL DEF Spec

\* WayInv, the layer above IndInv: what is still to come for each call and
\* for the sign-in.
\* What the steps below know of the messages and requests.
LEMMA WayTypes ==
    ASSUME IndInv
    PROVE  /\ 0 \notin Tags
           /\ work \in Seq(Items) /\ Suspended \subseteq Items /\ blobs \subseteq Items
           /\ \A i \in blobs : i.op = "decode"
           /\ \A k \in DOMAIN work : work[k] \in Items /\ work[k] \in Suspended
           /\ \A i \in Suspended : \E k \in DOMAIN work : i = work[k]
           /\ \A m \in Messages : m.tag # 0 => m.tag \in Tags /\ m = Call(m.tag)
           /\ \A c \in Tags : Call(c).tag = c
<1>1. 0 \notin Tags
  BY DEF Tags
<1>2. work \in Seq(Items) /\ blobs \subseteq Items /\ \A i \in blobs : i.op = "decode"
  BY DEF IndInv, TypeOK
<1>3. \A k \in DOMAIN work : work[k] \in Items /\ work[k] \in Suspended
  BY <1>2 DEF Suspended
<1>4. \A i \in Suspended : \E k \in DOMAIN work : i = work[k]
  BY DEF Suspended
<1>5. \A m \in Messages : m.tag # 0 => m.tag \in Tags /\ m = Call(m.tag)
  BY DEF Messages, Call
<1>6. \A c \in Tags : Call(c).tag = c
  BY DEF Call
<1> QED BY <1>1, <1>2, <1>3, <1>4, <1>5, <1>6

LEMMA AppendSuspended ==
    ASSUME IndInv, NEW i \in Items, work' = Append(work, i)
    PROVE  Suspended' = Suspended \cup {i}
<1>1. /\ Len(work) \in Nat /\ DOMAIN work' = DOMAIN work \cup {Len(work) + 1}
      /\ work'[Len(work) + 1] = i /\ \A k \in DOMAIN work : work'[k] = work[k]
  BY WayTypes
<1> QED BY <1>1 DEF Suspended

\* Steps of the connection and the user that move no message.
LEMMA QuietWay ==
    ASSUME WayInv, UNCHANGED <<page, asked, down, blobs, work, closed, tag, old, st>>,
           page # "none" => ws' \in {"open", "closing"}, ws = "closing" => ws' = "closing"
    PROVE  WayInv'
<1> USE DEF WayInv
<1>1. Suspended' = Suspended
  BY DEF Suspended
<1>2. PageOK'
  BY DEF PageOK
<1>3. SignInOK'
  BY DEF SignInOK, InWork, InBlobs, InDown
<1>4. \A c \in Tags : OnItsWay(c)'
  BY <1>1 DEF OnItsWay, PageOK
<1> QED BY <1>2, <1>3, <1>4

LEMMA UserWay == ASSUME IndInv, WayInv, OnError \/ Reconnect \/ Remember \/ SignOut PROVE WayInv'
<1>1. /\ UNCHANGED <<page, asked, down, blobs, work, closed, tag, old, st>>
      /\ \/ UNCHANGED ws
         \/ ws \in {"connecting", "open"} /\ ws' = "closing"
         \/ ws = "closed" /\ ws' = "connecting"
  BY DEF OnError, Reconnect, Remember, SignOut, storage, wire
<1>2. page # "none" => ws \in {"open", "closing"}
  BY DEF WayInv, PageOK
<1>3. page # "none" => ws' \in {"open", "closing"}
  BY <1>1, <1>2
<1>4. ws = "closing" => ws' = "closing"
  BY <1>1
<1> QED BY <1>1, <1>3, <1>4, QuietWay

\* The form is submitted: only when nothing of an earlier sign-in is left.
LEMMA SubmitWay == ASSUME IndInv, WayInv, OnOpen \/ Submit PROVE WayInv'
<1> USE DEF WayInv
<1> DEFINE i == Item("encode", "signIn", 0)
<1>1. /\ UNCHANGED <<down, blobs, closed, tag, old, st>>
      /\ page' \in {"form", "loading"} /\ asked' \in BOOLEAN
      /\ \/ UNCHANGED work /\ (asked' => page' = "loading" \/ asked)
         \/ work' = Append(work, i) /\ page' = "loading" /\ UNCHANGED asked
  BY DEF OnOpen, Submit, SubmitNow, SendSignIn, storage, wire, IndInv, TypeOK
<1>2. /\ page \in {"none", "form"} /\ ws' \in {"open", "closing"}
      /\ ws = "closing" => ws' = "closing"
  BY DEF PageOK, OnOpen, Submit, IndInv, TypeOK
<1>3. ~asked /\ ~InDown /\ ~InBlobs /\ ~InWork /\ \A c \in Tags : Call(c) \notin down /\ st[c] \notin {"encoding", "pending"}
  BY <1>2 DEF SignInOK, PageOK
<1>4. PageOK'
  BY <1>1, <1>2, <1>3 DEF PageOK
<1>5. Suspended \subseteq Suspended'
  <2>1. CASE UNCHANGED work
    BY <2>1 DEF Suspended
  <2>2. CASE work' = Append(work, i)
    BY <2>2, NewItems, AppendSuspended
  <2> QED BY <1>1, <2>1, <2>2
<1>6. ~InDown' /\ ~InBlobs'
  BY <1>1, <1>3 DEF InDown, InBlobs
<1>7. SignInOK'
  <2>1. CASE UNCHANGED work
    <3>1. ~InWork'
      BY <1>3, <2>1 DEF InWork
    <3>2. asked' => page' = "loading"
      BY <1>1, <1>3, <2>1
    <3> QED BY <1>6, <3>1, <3>2 DEF SignInOK, InWork, InBlobs, InDown
  <2>2. CASE work' = Append(work, i) /\ page' = "loading" /\ UNCHANGED asked
    <3>1. \A k \in DOMAIN work' : k # Len(work) + 1 => k \in DOMAIN work /\ work'[k] = work[k]
      BY <2>2, WayTypes
    <3>2. \A k \in DOMAIN work' : OfSignIn(work'[k]) => k = Len(work) + 1
      BY <1>3, <3>1 DEF InWork
    <3> QED BY <1>3, <1>6, <2>2, <3>2 DEF SignInOK, InBlobs, InDown
  <2> QED BY <1>1, <2>1, <2>2
<1>8. \A c \in Tags : OnItsWay(c)'
  BY <1>1, <1>2, <1>3, <1>5 DEF OnItsWay
<1> QED BY <1>4, <1>7, <1>8

\* A message comes in: the page it is for has somebody who listens.
LEMMA DeliverWay == ASSUME IndInv, WayInv, NEW m \in Messages, Deliver(m) PROVE WayInv'
<1> USE DEF WayInv
<1> DEFINE i == Item("decode", m.of, m.tag)
<1>1. /\ UNCHANGED <<ws, page, asked, work, closed, tag, old, st>> /\ down' = down \ {m} /\ m \in down
      /\ blobs' = blobs \/ blobs' = blobs \cup {i}
      /\ page = "home" => blobs' = blobs \cup {i}
  BY DEF Deliver
<1>2. i.op = "decode" /\ i.tag = m.tag /\ i.live
  BY DEF Item
<1>3. Suspended' = Suspended /\ (InWork' <=> InWork)
  BY <1>1 DEF Suspended, InWork
<1>4. PageOK'
  BY <1>1 DEF PageOK
<1>5. InDown' => InDown
  BY <1>1 DEF InDown
<1>6. m.tag = 0 => InDown /\ ~InDown' /\ ~InBlobs
  BY <1>1 DEF SignInOK, InDown
<1>7. InBlobs' => InBlobs \/ m.tag = 0
  BY <1>1, <1>2 DEF InBlobs, OfSignIn
<1>8. SignInOK'
  <2>1. /\ asked' \/ InDown' \/ InBlobs' \/ InWork' => page' = "loading"
        /\ asked' => ~InDown' /\ ~InBlobs' /\ ~InWork'
        /\ InDown' => ~InBlobs' /\ ~InWork'
        /\ InBlobs' => ~InWork'
    BY <1>1, <1>3, <1>5, <1>6, <1>7 DEF SignInOK
  <2>2. \A j, k \in DOMAIN work' : OfSignIn(work'[j]) /\ OfSignIn(work'[k]) => j = k
    BY <1>1 DEF SignInOK
  <2>3. \A j, k \in blobs' : OfSignIn(j) /\ OfSignIn(k) => j = k
    BY <1>1, <1>2, <1>6 DEF SignInOK, InBlobs, OfSignIn
  <2>4. \A n, o \in down' : n.tag = 0 /\ o.tag = 0 => n = o
    BY <1>1 DEF SignInOK
  <2> QED BY <2>1, <2>2, <2>3, <2>4 DEF SignInOK
<1>9. ASSUME NEW c \in Tags PROVE OnItsWay(c)'
  <2>1. CASE m = Call(c)
    BY <1>1, <1>2, <1>3, <2>1, WayTypes DEF OnItsWay, PageOK
  <2>2. CASE m # Call(c)
    BY <1>1, <1>3, <2>2 DEF OnItsWay
  <2> QED BY <2>1, <2>2
<1> QED BY <1>4, <1>8, <1>9

\* The server answers.
LEMMA SignInAnswerWay == ASSUME IndInv, WayInv, SignInAnswer PROVE WayInv'
<1> USE DEF WayInv
<1>1. PICK of \in {"token", "error"} : down' = down \cup {[of |-> of, tag |-> 0]}
  BY DEF SignInAnswer
<1>2. asked /\ asked' = FALSE /\ UNCHANGED <<ws, page, blobs, work, closed, tag, old, st>>
  BY DEF SignInAnswer, storage
<1>3. Suspended' = Suspended /\ (InWork' <=> InWork) /\ (InBlobs' <=> InBlobs)
  BY <1>2 DEF Suspended, InWork, InBlobs
<1>4. \A c \in Tags : Call(c) \in down' => Call(c) \in down
  BY <1>1, WayTypes
<1>5. PageOK'
  BY <1>2, <1>4 DEF PageOK
<1>6. ~InDown /\ ~InBlobs /\ ~InWork /\ page = "loading"
  BY <1>2 DEF SignInOK
<1>7. \A m, n \in down' : m.tag = 0 /\ n.tag = 0 => m = n
  BY <1>1, <1>6 DEF InDown
<1>8. SignInOK'
  BY <1>2, <1>3, <1>6, <1>7 DEF SignInOK
<1>9. \A c \in Tags : OnItsWay(c)'
  BY <1>1, <1>2, <1>3 DEF OnItsWay
<1> QED BY <1>5, <1>8, <1>9

LEMMA AnswerWay == ASSUME IndInv, WayInv, NEW c \in Tags, Answer(c) PROVE WayInv'
<1> USE DEF WayInv
<1>1. /\ st[c] = "pending" /\ st' = [st EXCEPT ![c] = "replied"] /\ down' = down \cup {Call(c)}
      /\ UNCHANGED <<ws, page, asked, blobs, work, closed, tag, old>>
  BY DEF Answer
<1>2. st'[c] = "replied" /\ \A d \in Tags \ {c} : st'[d] = st[d]
  BY <1>1 DEF IndInv, TypeOK
<1>3. Suspended' = Suspended /\ (InWork' <=> InWork) /\ (InBlobs' <=> InBlobs)
  BY <1>1 DEF Suspended, InWork, InBlobs
<1>4. \A d \in Tags : Call(d) \in down' => Call(d) \in down \/ d = c
  BY <1>1, WayTypes
<1>5. page = "home"
  BY <1>1 DEF PageOK
<1>6. PageOK'
  BY <1>1, <1>5 DEF PageOK
<1>7. \A m \in down' : m.tag = 0 => m \in down
  BY <1>1, WayTypes
<1>8. InDown' <=> InDown
  BY <1>1, <1>7 DEF InDown
<1>9. \A m, n \in down' : m.tag = 0 /\ n.tag = 0 => m = n
  BY <1>7 DEF SignInOK
<1>10. SignInOK'
  BY <1>1, <1>3, <1>8, <1>9 DEF SignInOK
<1>11. \A d \in Tags : OnItsWay(d)'
  BY <1>1, <1>2, <1>3, <1>5 DEF OnItsWay
<1> QED BY <1>6, <1>10, <1>11

\* A call is made.
LEMMA RestWay == ASSUME IndInv, WayInv, Rest PROVE WayInv'
<1> USE DEF WayInv
<1> DEFINE new == tag + 1
           i == Item("encode", "call", new)
<1>1. /\ page = "home" /\ new \in Tags /\ tag' = new /\ tag \in Nat
      /\ UNCHANGED <<ws, page, asked, down, blobs, closed, old>>
  BY DEF Rest, IndInv, TypeOK, Tags, wire
<1>2. ws \in {"open", "closing"} /\ (Sent = "pending" \/ (Sent = "forsaken" /\ ws = "closing"))
  BY <1>1 DEF PageOK, Sent
<1>3. \A c \in Tags \ {new} : st'[c] = st[c]
  BY DEF Rest, IndInv, TypeOK
<1>4. \/ UNCHANGED work /\ st'[new] = Sent
      \/ work' = Append(work, i) /\ st'[new] = "encoding"
  BY <1>1 DEF Rest, IndInv, TypeOK
<1>5. i \in Items /\ ~OfSignIn(i)
  BY <1>1, NewItems, WayTypes DEF Item, OfSignIn
<1>6. Suspended \subseteq Suspended' /\ (work' = Append(work, i) => i \in Suspended')
  <2>1. CASE UNCHANGED work
    BY <1>5, <2>1, WayTypes DEF Suspended
  <2>2. CASE work' = Append(work, i)
    <3>1. Suspended' = Suspended \cup {i}
      BY <1>5, <2>2, AppendSuspended
    <3> QED BY <3>1
  <2> QED BY <1>4, <2>1, <2>2
<1>7. PageOK'
  BY <1>1, <1>3 DEF PageOK, IndInv, TypeOK
<1>8. \A k \in DOMAIN work' : OfSignIn(work'[k]) => k \in DOMAIN work /\ work'[k] = work[k]
  <2>1. CASE UNCHANGED work
    BY <2>1
  <2>2. CASE work' = Append(work, i)
    BY <1>5, <2>2, WayTypes
  <2> QED BY <1>4, <2>1, <2>2
<1>9. InWork' => InWork
  BY <1>8 DEF InWork
<1>10. (InBlobs' <=> InBlobs) /\ (InDown' <=> InDown)
  BY <1>1 DEF InBlobs, InDown
<1>11. \A j, k \in DOMAIN work' : OfSignIn(work'[j]) /\ OfSignIn(work'[k]) => j = k
  BY <1>8 DEF SignInOK
<1>12. SignInOK'
  BY <1>1, <1>9, <1>10, <1>11 DEF SignInOK
<1>13. ASSUME NEW c \in Tags PROVE OnItsWay(c)'
  <2>1. CASE c = new
    BY <1>1, <1>2, <1>4, <1>6, <2>1 DEF OnItsWay
  <2>2. CASE c # new
    BY <1>1, <1>3, <1>6, <2>2 DEF OnItsWay
  <2> QED BY <2>1, <2>2
<1> QED BY <1>7, <1>12, <1>13

\* A decoded message ends the call or the sign-in it is for.
LEMMA HandleWay ==
    ASSUME IndInv, WayInv, NEW i \in Items, i.op = "decode", i \in blobs \cup Suspended, Handle(i),
           UNCHANGED <<ws, asked, down, closed, tag, old>>,
           blobs' \subseteq blobs, Suspended' \subseteq Suspended,
           blobs \cup Suspended \subseteq blobs' \cup Suspended' \cup {i},
           InWork' => InWork, OfSignIn(i) => ~InBlobs' /\ ~InWork',
           \A j, k \in DOMAIN work' : OfSignIn(work'[j]) /\ OfSignIn(work'[k]) => j = k
    PROVE  WayInv'
<1> USE DEF WayInv
<1>1. InBlobs' => InBlobs
  BY DEF InBlobs
<1>2. InDown' <=> InDown
  BY DEF InDown
<1>3. OfSignIn(i) => InBlobs \/ InWork
  BY WayTypes DEF InBlobs, InWork
<1>4. page' = page \/ (OfSignIn(i) /\ page = "loading" /\ page' \in {"home", "form"})
  BY <1>3, ItemType DEF Handle, OfSignIn, SignInOK
<1>5. \A c \in Tags : st'[c] = st[c] \/ (st'[c] = "answered" /\ i.of = "call" /\ i.tag = c)
  BY DEF Handle, IndInv, TypeOK
<1>6. PageOK'
  <2>1. page' # "none" => ws' \in {"open", "closing"}
    BY <1>4 DEF PageOK
  <2>2. \A c \in Tags : st'[c] \in {"encoding", "pending"} \/ Call(c) \in down' => page' = "home"
    BY <1>4, <1>5 DEF PageOK
  <2> QED BY <2>1, <2>2 DEF PageOK
<1>7. SignInOK'
  <2>1. OfSignIn(i) => ~asked' /\ ~InDown' /\ ~InBlobs' /\ ~InWork'
    BY <1>2, <1>3 DEF SignInOK
  <2>2. asked' \/ InDown' \/ InBlobs' \/ InWork' => page' = "loading"
    BY <1>1, <1>2, <1>4, <2>1 DEF SignInOK
  <2>3. /\ \A j, k \in blobs' : OfSignIn(j) /\ OfSignIn(k) => j = k
        /\ \A m, n \in down' : m.tag = 0 /\ n.tag = 0 => m = n
    BY DEF SignInOK
  <2> QED BY <1>1, <1>2, <2>2, <2>3 DEF SignInOK
<1>8. ASSUME NEW c \in Tags PROVE OnItsWay(c)'
  <2>1. CASE st'[c] = "answered"
    BY <2>1 DEF OnItsWay
  <2>2. CASE st'[c] = st[c] /\ st[c] # "answered"
    <3>1. st[c] = "encoding" => Item("encode", "call", c) \in Suspended'
      BY DEF OnItsWay, IndInv, InHand, Item, TypeOK
    <3>2. st[c] = "replied" => i.tag # c
      BY <1>5, <2>2, ItemType, WayTypes DEF Handle, IndInv, TypeOK
    <3>3. Call(c) \in down => page' = "home"
      BY <1>6 DEF PageOK
    <3>4. st[c] = "replied" => \/ Call(c) \in down' /\ page' = "home"
                               \/ \E j \in blobs' \cup Suspended' : j.op = "decode" /\ j.tag = c
      BY <3>2, <3>3 DEF OnItsWay
    <3> QED BY <2>2, <3>1, <3>4 DEF OnItsWay
  <2> QED BY <1>5, <2>1, <2>2
<1> QED BY <1>6, <1>7, <1>8

LEMMA ReadWay == ASSUME IndInv, WayInv, NEW i \in blobs, Read(i) PROVE WayInv'
<1> USE DEF WayInv
<1>1. i \in Items /\ i.op = "decode" /\ blobs' = blobs \ {i}
  BY WayTypes DEF Read
<1>2. UNCHANGED <<ws, asked, down, closed, tag, old>>
  BY DEF Read, wire
<1>3. OfSignIn(i) => InBlobs /\ ~InBlobs'
  BY <1>1 DEF InBlobs, SignInOK
<1>4. InBlobs' => InBlobs
  BY <1>1 DEF InBlobs
<1>5. CASE Handle(i) /\ UNCHANGED work
  <2>1. Suspended' = Suspended /\ (InWork' <=> InWork)
    BY <1>5 DEF Suspended, InWork
  <2>2. \A j, k \in DOMAIN work' : OfSignIn(work'[j]) /\ OfSignIn(work'[k]) => j = k
    BY <1>5 DEF SignInOK
  <2>3. OfSignIn(i) => ~InBlobs' /\ ~InWork'
    BY <1>3, <2>1 DEF SignInOK
  <2> QED BY <1>1, <1>2, <1>5, <2>1, <2>2, <2>3, HandleWay
<1>6. CASE work' = Append(work, i) /\ UNCHANGED <<st, page>>
  <2>1. /\ Len(work) \in Nat /\ DOMAIN work' = DOMAIN work \cup {Len(work) + 1}
        /\ Len(work) + 1 \notin DOMAIN work /\ work'[Len(work) + 1] = i
        /\ \A k \in DOMAIN work : work'[k] = work[k]
    BY <1>1, <1>6, WayTypes
  <2>2. Suspended' = Suspended \cup {i}
    BY <1>1, <1>6, AppendSuspended
  <2>3. PageOK'
    BY <1>2, <1>6 DEF PageOK
  <2>4. InWork' <=> InWork \/ OfSignIn(i)
    BY <2>1 DEF InWork
  <2>5. InDown' <=> InDown
    BY <1>2 DEF InDown
  <2>6. \A j, k \in DOMAIN work' : OfSignIn(work'[j]) /\ OfSignIn(work'[k]) => j = k
    BY <1>3, <2>1 DEF SignInOK, InWork
  <2>7. /\ \A j, k \in blobs' : OfSignIn(j) /\ OfSignIn(k) => j = k
        /\ \A m, n \in down' : m.tag = 0 /\ n.tag = 0 => m = n
    BY <1>1, <1>2 DEF SignInOK
  <2>8. SignInOK'
    BY <1>2, <1>3, <1>4, <1>6, <2>4, <2>5, <2>6, <2>7 DEF SignInOK
  <2>9. \A c \in Tags : OnItsWay(c)'
    BY <1>1, <1>2, <1>6, <2>2 DEF OnItsWay
  <2> QED BY <2>3, <2>8, <2>9
<1> QED BY <1>5, <1>6 DEF Read

\* The websocket is closed: nothing of it is left alive.
LEMMA OnCloseWay == ASSUME IndInv, WayInv, OnClose PROVE WayInv'
<1> USE DEF WayInv
<1>1. /\ page' = "none" /\ asked' = FALSE /\ down' = {} /\ old' = tag /\ UNCHANGED <<closed, tag>>
      /\ blobs' = {[i EXCEPT !.live = FALSE] : i \in blobs}
      /\ work' = [k \in DOMAIN work |-> [work[k] EXCEPT !.live = FALSE]]
      /\ \A c \in Tags : st'[c] = IF st[c] \in {"encoding", "pending"} \/ Call(c) \in down
                                  THEN "forsaken" ELSE st[c]
  BY DEF OnClose
<1>2. \A k \in DOMAIN work' : k \in DOMAIN work /\ ~work'[k].live /\ work'[k].op = work[k].op /\ work'[k].tag = work[k].tag
  BY <1>1, WayTypes, DeadItem
<1>3. \A j \in blobs' : ~j.live
  <2> TAKE j \in blobs'
  <2>1. PICK i \in blobs : j = [i EXCEPT !.live = FALSE]
    BY <1>1
  <2>2. i \in Items
    BY WayTypes
  <2> QED BY <2>1, <2>2, DeadItem
<1>4. \A i \in blobs : \E j \in blobs' : j.op = i.op /\ j.tag = i.tag
  <2> TAKE i \in blobs
  <2>1. i \in Items /\ [i EXCEPT !.live = FALSE] \in blobs'
    BY <1>1, WayTypes
  <2> QED BY <2>1, DeadItem
<1>5. \A i \in Suspended : \E j \in Suspended' : j.op = i.op /\ j.tag = i.tag
  <2>1. SUFFICES ASSUME NEW k \in DOMAIN work PROVE \E j \in Suspended' : j.op = work[k].op /\ j.tag = work[k].tag
    BY WayTypes
  <2>2. k \in DOMAIN work' /\ work'[k].op = work[k].op /\ work'[k].tag = work[k].tag
    BY <1>1, <1>2
  <2>3. work'[k] \in Suspended'
    BY <2>2 DEF Suspended
  <2> QED BY <2>2, <2>3
<1>6. PageOK'
  BY <1>1 DEF PageOK, IndInv, TypeOK
<1>7. ~asked' /\ ~InDown' /\ ~InBlobs' /\ ~InWork'
  BY <1>1, <1>2, <1>3 DEF InDown, InBlobs, InWork, OfSignIn
<1>8. SignInOK'
  BY <1>1, <1>2, <1>3, <1>7 DEF SignInOK, OfSignIn
<1>9. ASSUME NEW c \in Tags PROVE OnItsWay(c)'
  <2>1. CASE st'[c] = "forsaken"
    <3>1. st[c] # "idle"
      BY <1>1, <2>1 DEF IndInv, Started
    <3>2. c <= old'
      BY <1>1, <3>1 DEF IndInv, Made, TypeOK, Tags
    <3> QED BY <2>1, <3>2 DEF OnItsWay
  <2>2. CASE st'[c] = st[c] /\ st[c] \notin {"encoding", "pending", "forsaken"} /\ Call(c) \notin down
    BY <1>4, <1>5, <2>2 DEF OnItsWay
  <2> QED BY <1>1, <2>1, <2>2
<1> QED BY <1>6, <1>8, <1>9

\* The worker answers its oldest request.
LEMMA WorkerDoneWay == ASSUME IndInv, WayInv, WorkerDone PROVE WayInv'
<1> USE DEF WayInv
<1> DEFINE i == Head(work)
<1>1. /\ Len(work) \in Nat /\ 1 \in DOMAIN work /\ i = work[1] /\ i \in Items /\ i \in Suspended
      /\ \A k \in DOMAIN work' : k \in Nat \ {0} /\ k + 1 \in DOMAIN work /\ work'[k] = work[k + 1]
      /\ \A k \in DOMAIN work : k # 1 => k - 1 \in DOMAIN work' /\ work'[k - 1] = work[k]
  <2>1. work # <<>> /\ work' = Tail(work)
    BY DEF WorkerDone
  <2>2. Len(work) \in Nat /\ Len(work) > 0 /\ DOMAIN work = 1 .. Len(work) /\ i = work[1]
    BY <2>1, WayTypes
  <2>3. DOMAIN work' = 1 .. Len(work) - 1 /\ \A k \in 1 .. Len(work) - 1 : work'[k] = work[k + 1]
    BY <2>1, <2>2, WayTypes
  <2>4. i \in Items /\ i \in Suspended
    BY <2>2, WayTypes
  <2>5. \A k \in DOMAIN work' : k \in Nat \ {0} /\ k + 1 \in DOMAIN work /\ work'[k] = work[k + 1]
    BY <2>2, <2>3
  <2>6. \A k \in DOMAIN work : k # 1 => k - 1 \in DOMAIN work' /\ work'[k - 1] = work[k]
    BY <2>2, <2>3
  <2> QED BY <2>2, <2>4, <2>5, <2>6
<1>2. UNCHANGED <<ws, blobs, closed, tag, old>>
  BY DEF WorkerDone
<1>3. Suspended' \subseteq Suspended
  BY <1>1 DEF Suspended
<1>4. Suspended \subseteq Suspended' \cup {i}
  <2>1. ASSUME NEW k \in DOMAIN work, k # 1 PROVE work[k] \in Suspended'
    BY <1>1, <2>1 DEF Suspended
  <2> QED BY <1>1, <2>1, WayTypes
<1>5. InWork' => InWork
  BY <1>1 DEF InWork
<1>6. \A j, k \in DOMAIN work' : OfSignIn(work'[j]) /\ OfSignIn(work'[k]) => j = k
  <2>1. SUFFICES ASSUME NEW j \in DOMAIN work', NEW k \in DOMAIN work', OfSignIn(work'[j]), OfSignIn(work'[k])
                 PROVE  j = k
    OBVIOUS
  <2>2. j + 1 = k + 1
    BY <1>1, <2>1 DEF SignInOK
  <2> QED BY <1>1, <2>2
<1>7. OfSignIn(i) => InWork /\ ~InWork' /\ ~InBlobs
  <2>1. ASSUME OfSignIn(i), NEW k \in DOMAIN work', OfSignIn(work'[k]) PROVE FALSE
    <3>1. k + 1 = 1
      BY <1>1, <2>1 DEF SignInOK
    <3> QED BY <1>1, <3>1
  <2>2. OfSignIn(i) => InWork
    BY <1>1 DEF InWork
  <2> QED BY <2>1, <2>2 DEF InWork, SignInOK
<1>8. InBlobs' <=> InBlobs
  BY <1>2 DEF InBlobs
<1>9. CASE i.op = "decode"
  <2>1. Handle(i) /\ UNCHANGED <<asked, down>>
    BY <1>1, <1>9 DEF WorkerDone, wire
  <2> QED BY <1>1, <1>2, <1>3, <1>4, <1>5, <1>6, <1>7, <1>8, <1>9, <2>1, HandleWay
<1>10. CASE i.op = "encode"
  <2>1. UNCHANGED <<page, down>>
    BY <1>10 DEF WorkerDone, wire, SendSignIn
  <2>2. InDown' <=> InDown
    BY <2>1 DEF InDown
  <2>3. asked' => asked \/ OfSignIn(i)
    BY <1>1, <1>10, ItemType DEF WorkerDone, wire, SendSignIn, OfSignIn
  <2>4. asked' \/ InDown' \/ InBlobs' \/ InWork' => page' = "loading"
    BY <1>5, <1>7, <1>8, <2>1, <2>2, <2>3 DEF SignInOK
  <2>5. /\ asked' => ~InDown' /\ ~InBlobs' /\ ~InWork'
        /\ InDown' => ~InBlobs' /\ ~InWork'
        /\ InBlobs' => ~InWork'
    BY <1>5, <1>7, <1>8, <2>2, <2>3 DEF SignInOK
  <2>6. /\ \A j, k \in blobs' : OfSignIn(j) /\ OfSignIn(k) => j = k
        /\ \A m, n \in down' : m.tag = 0 /\ n.tag = 0 => m = n
    BY <1>2, <2>1 DEF SignInOK
  <2>7. SignInOK'
    BY <1>6, <2>4, <2>5, <2>6 DEF SignInOK
  <2>8. ASSUME NEW c \in Tags, st'[c] = st[c], i # Item("encode", "call", c) PROVE OnItsWay(c)'
    BY <1>2, <1>3, <1>4, <1>10, <2>1, <2>8 DEF OnItsWay
  <2>9. CASE i.of = "call" /\ i.live
    <3>1. PICK d \in Tags : i = Item("encode", "call", d)
      BY <1>1, <1>10, <2>9, ItemType DEF Item
    <3>2. i.tag = d /\ st[d] = "encoding"
      <4>1. Encoding(1) /\ work[1].tag = d
        BY <1>1, <1>10, <2>9, <3>1 DEF Encoding, Item
      <4> QED BY <1>1, <4>1 DEF IndInv, InHand
    <3>3. page = "home" /\ ws \in {"open", "closing"}
      BY <3>2 DEF PageOK
    <3>4. st'[d] = Sent /\ \A c \in Tags \ {d} : st'[c] = st[c]
      BY <1>10, <2>9, <3>2 DEF WorkerDone, IndInv, TypeOK
    <3>5. Sent = "pending" \/ (Sent = "forsaken" /\ ws = "closing")
      BY <3>3 DEF Sent
    <3>6. PageOK'
      BY <1>2, <2>1, <3>3, <3>4 DEF PageOK
    <3>7. OnItsWay(d)'
      BY <1>2, <3>3, <3>4, <3>5 DEF OnItsWay
    <3>8. \A c \in Tags : c # d => i # Item("encode", "call", c)
      BY <3>1 DEF Item
    <3>9. \A c \in Tags : OnItsWay(c)'
      BY <2>8, <3>4, <3>7, <3>8
    <3> QED BY <2>7, <3>6, <3>9
  <2>10. CASE ~(i.of = "call" /\ i.live)
    <3>1. st' = st
      BY <1>10, <2>10 DEF WorkerDone
    <3>2. PageOK'
      BY <1>2, <2>1, <3>1 DEF PageOK
    <3>3. \A c \in Tags : i # Item("encode", "call", c)
      BY <2>10 DEF Item
    <3>4. \A c \in Tags : OnItsWay(c)'
      BY <2>8, <3>1, <3>3
    <3> QED BY <2>7, <3>2, <3>4
  <2> QED BY <2>9, <2>10
<1> QED BY <1>1, <1>9, <1>10, ItemType

\* The worker fails: what was being encoded is sent, what was being decoded is
\* lost with its call.
LEMMA WorkerFailsWay == ASSUME IndInv, WayInv, WorkerFails PROVE WayInv'
<1> USE DEF WayInv
<1> DEFINE i == Item("encode", "signIn", 0)
<1>1. /\ closed' = TRUE /\ work' = <<>> /\ UNCHANGED <<ws, page, blobs, down, tag, old>>
      /\ \A c \in Tags : st'[c] = CASE Item("encode", "call", c) \in Suspended -> Sent
                                    [] \E j \in Suspended : j.op = "decode" /\ j.tag = c -> "forsaken"
                                    [] OTHER -> st[c]
      /\ asked' => asked \/ i \in Suspended
  BY DEF WorkerFails, SendSignIn, storage, wire
<1>2. ~InWork' /\ Suspended' = {}
  BY <1>1 DEF InWork, Suspended
<1>3. (InBlobs' <=> InBlobs) /\ (InDown' <=> InDown)
  BY <1>1 DEF InBlobs, InDown
<1>4. i \in Suspended => InWork
  BY WayTypes DEF InWork, OfSignIn, Item
<1>5. SignInOK'
  <2>1. /\ asked' \/ InDown' \/ InBlobs' \/ InWork' => page' = "loading"
        /\ asked' => ~InDown' /\ ~InBlobs' /\ ~InWork'
        /\ InDown' => ~InBlobs' /\ ~InWork'
        /\ InBlobs' => ~InWork'
    BY <1>1, <1>2, <1>3, <1>4 DEF SignInOK
  <2>2. \A j, k \in DOMAIN work' : OfSignIn(work'[j]) /\ OfSignIn(work'[k]) => j = k
    BY <1>1
  <2>3. /\ \A j, k \in blobs' : OfSignIn(j) /\ OfSignIn(k) => j = k
        /\ \A m, n \in down' : m.tag = 0 /\ n.tag = 0 => m = n
    BY <1>1 DEF SignInOK
  <2> QED BY <2>1, <2>2, <2>3 DEF SignInOK
<1>6. ASSUME NEW c \in Tags, Item("encode", "call", c) \in Suspended
      PROVE  st[c] = "encoding" /\ page = "home" /\ ws \in {"open", "closing"}
  <2>1. PICK k \in DOMAIN work : work[k] = Item("encode", "call", c)
    BY <1>6, WayTypes
  <2>2. Encoding(k) /\ work[k].tag = c
    BY <2>1 DEF Encoding, Item
  <2>3. st[c] = "encoding"
    BY <2>2 DEF IndInv, InHand
  <2> QED BY <2>3 DEF PageOK
<1>7. Sent \in {"pending", "forsaken"}
  BY DEF Sent
<1>8. \A c \in Tags : \/ Item("encode", "call", c) \in Suspended /\ st'[c] = Sent
                      \/ st'[c] = "forsaken"
                      \/ st'[c] = st[c] /\ st[c] # "encoding"
                         /\ ~\E j \in Suspended : j.op = "decode" /\ j.tag = c
  BY <1>1 DEF IndInv, InHand
<1>9. PageOK'
  <2>1. \A c \in Tags : st'[c] \in {"encoding", "pending"} \/ Call(c) \in down' => page' = "home"
    BY <1>1, <1>6, <1>8 DEF PageOK
  <2> QED BY <1>1, <2>1 DEF PageOK
<1>10. ASSUME NEW c \in Tags PROVE OnItsWay(c)'
  <2>1. CASE Item("encode", "call", c) \in Suspended /\ st'[c] = Sent
    BY <1>1, <1>6, <1>7, <2>1 DEF OnItsWay
  <2>2. CASE st'[c] = "forsaken"
    BY <1>1, <2>2 DEF OnItsWay
  <2>3. CASE st'[c] = st[c] /\ st[c] # "encoding" /\ ~\E j \in Suspended : j.op = "decode" /\ j.tag = c
    BY <1>1, <2>3 DEF OnItsWay
  <2> QED BY <1>8, <2>1, <2>2, <2>3
<1> QED BY <1>5, <1>9, <1>10

LEMMA WayInit == Init => WayInv
<1> SUFFICES ASSUME Init PROVE WayInv
  OBVIOUS
<1>1. PageOK /\ SignInOK
  BY DEF Init, PageOK, SignInOK, InWork, InBlobs, InDown
<1>2. \A c \in Tags : OnItsWay(c)
  BY DEF Init, OnItsWay
<1> QED BY <1>1, <1>2 DEF WayInv

LEMMA WayStep == IndInv /\ WayInv /\ [Next]_vars => WayInv'
<1> SUFFICES ASSUME IndInv, WayInv, [Next]_vars PROVE WayInv'
  OBVIOUS
<1>1. CASE UNCHANGED vars
  BY <1>1, QuietWay DEF vars, storage, wire, WayInv, PageOK
<1>2. CASE Next
  BY <1>2, UserWay, SubmitWay, DeliverWay, ReadWay, SignInAnswerWay, AnswerWay, RestWay, OnCloseWay,
     WorkerDoneWay, WorkerFailsWay DEF Next
<1> QED BY <1>1, <1>2

\* A call that is neither answered nor forsaken is with the worker, the server
\* or a page that listens for its answer, and only a websocket that ends or a
\* worker that fails forsakes one (Compress.ts:10-41, SignInPage.tsx:233-246).
THEOREM CallsGoOn == Spec => [](\A c \in Tags : OnItsWay(c))
<1>1. WayInv => \A c \in Tags : OnItsWay(c)
  BY DEF WayInv
<1> QED BY Invariance, WayInit, WayStep, <1>1, PTL DEF Spec

\* The step of a sign-in that keeps it on its way, but for a worker that fails.
LEMMA SignInStep ==
    ASSUME IndInv, WayInv, Next, page' = "loading", ws' = "open",
           closed' = closed, page = "loading" => SigningIn
    PROVE  SigningIn'
<1> USE DEF WayInv
<1>0. /\ page = "loading" => \A c \in Tags : Call(c) \notin down
      /\ page \in {"none", "form", "loading", "home"}
  BY DEF PageOK, IndInv, TypeOK
<1>1. CASE OnOpen \/ Submit
  <2>1. page # "loading" /\ (~closed => work' = Append(work, Item("encode", "signIn", 0)))
        /\ (closed => listening' = TRUE /\ asked' = TRUE)
    BY <1>1 DEF OnOpen, Submit, SubmitNow, SendSignIn, PageOK
  <2>2. CASE work' = Append(work, Item("encode", "signIn", 0))
    <3>1. Len(work) + 1 \in DOMAIN work' /\ work'[Len(work) + 1] = Item("encode", "signIn", 0)
      BY <2>2, WayTypes, NewItems
    <3> QED BY <3>1 DEF SigningIn, Suspended
  <2> QED BY <2>1, <2>2 DEF SigningIn, IndInv, TypeOK
<1>2. CASE OnError \/ OnClose \/ Reconnect \/ SignOut \/ Rest
  BY <1>2 DEF OnError, OnClose, Reconnect, SignOut, Rest, PageOK
<1>3. CASE Remember
  BY <1>0, <1>3 DEF Remember, wire, SigningIn, Suspended
<1>4. CASE WorkerFails
  BY <1>4 DEF WorkerFails, IndInv, TypeOK
<1>5. CASE SignInAnswer
  <2>1. PICK of \in {"token", "error"} : down' = down \cup {[of |-> of, tag |-> 0]}
    BY <1>5 DEF SignInAnswer
  <2>2. asked /\ UNCHANGED <<page, listening, blobs, work>>
    BY <1>5 DEF SignInAnswer
  <2>3. Suspended' = Suspended
    BY <2>2 DEF Suspended
  <2>4. \E m \in down' : m.tag = 0
    <3>1. [of |-> of, tag |-> 0] \in down' /\ [of |-> of, tag |-> 0].tag = 0
      BY <2>1
    <3> QED BY <3>1
  <2>5. listening \/ Item("encode", "signIn", 0) \in Suspended
          \/ \E i \in blobs \cup Suspended : i.op = "decode" /\ i.tag = 0 /\ i.live
    BY <2>2 DEF SigningIn
  <2> QED BY <2>2, <2>3, <2>4, <2>5 DEF SigningIn
<1>6. CASE \E c \in Tags : Answer(c)
  BY <1>6 DEF Answer, SigningIn, Suspended
<1>7. CASE \E m \in Messages : Deliver(m)
  <2>1. PICK m \in Messages : Deliver(m)
    BY <1>7
  <2>2. /\ page = "loading" /\ m \in down /\ down' = down \ {m} /\ UNCHANGED <<work, asked>>
        /\ blobs \subseteq blobs' /\ (listening => Item("decode", m.of, m.tag) \in blobs')
    BY <2>1 DEF Deliver
  <2>3. m.tag = 0
    BY <1>0, <2>2, WayTypes
  <2>4. listening => \E i \in blobs' : i.op = "decode" /\ i.tag = 0 /\ i.live
    BY <2>2, <2>3 DEF Item
  <2>5. Suspended' = Suspended
    BY <2>2 DEF Suspended
  <2> QED BY <2>2, <2>4, <2>5 DEF SigningIn
<1>8. CASE \E i \in blobs : Read(i)
  <2>1. PICK i \in blobs : Read(i)
    BY <1>8
  <2>2. UNCHANGED <<ws, listening, asked, down>> /\ blobs' = blobs \ {i}
    BY <2>1 DEF Read, wire
  <2>3. CASE Handle(i) /\ UNCHANGED work
    <3>1. page = "loading" /\ ~(i.tag = 0 /\ i.live)
      BY <2>3, WayTypes, ItemType DEF Handle
    <3>2. Suspended' = Suspended
      BY <2>3 DEF Suspended
    <3> QED BY <2>2, <3>1, <3>2 DEF SigningIn
  <2>4. CASE work' = Append(work, i) /\ UNCHANGED page
    <3>1. Suspended' = Suspended \cup {i}
      BY <2>4, WayTypes, AppendSuspended
    <3> QED BY <2>2, <2>4, <3>1 DEF SigningIn
  <2> QED BY <2>1, <2>3, <2>4 DEF Read
<1>9. CASE WorkerDone
  <2> DEFINE i == Head(work)
  <2>1. i \in Items /\ Suspended \subseteq Suspended' \cup {i} /\ UNCHANGED <<ws, blobs>>
    <3>1. work # <<>> /\ work' = Tail(work) /\ UNCHANGED <<ws, blobs>>
      BY <1>9 DEF WorkerDone
    <3>2. Len(work) \in Nat /\ Len(work) > 0 /\ DOMAIN work = 1 .. Len(work) /\ i = work[1]
      BY <3>1, WayTypes
    <3>3. DOMAIN work' = 1 .. Len(work) - 1 /\ \A k \in 1 .. Len(work) - 1 : work'[k] = work[k + 1]
      BY <3>1, <3>2, WayTypes
    <3>4. ASSUME NEW k \in DOMAIN work, k # 1 PROVE work[k] \in Suspended'
      <4>1. k - 1 \in DOMAIN work' /\ work'[k - 1] = work[k]
        BY <3>2, <3>3, <3>4
      <4> QED BY <4>1 DEF Suspended
    <3> QED BY <3>1, <3>2, <3>4, WayTypes
  <2>2. CASE i.op = "decode"
    <3>1. Handle(i) /\ UNCHANGED <<listening, asked, down>>
      BY <1>9, <2>2 DEF WorkerDone, wire
    <3>2. page = "loading" /\ ~(i.tag = 0 /\ i.live)
      BY <2>1, <2>2, <3>1, ItemType, WayTypes DEF Handle
    <3>3. i # Item("encode", "signIn", 0)
      BY <2>2 DEF Item
    <3> QED BY <2>1, <3>1, <3>2, <3>3 DEF SigningIn
  <2>3. CASE i = Item("encode", "signIn", 0)
    <3>1. SendSignIn(ws)
      BY <1>9, <2>3 DEF WorkerDone, Item
    <3> QED BY <2>1, <3>1 DEF SendSignIn, SigningIn
  <2>4. CASE i.op = "encode" /\ i # Item("encode", "signIn", 0)
    <3>1. UNCHANGED <<page, listening, asked, down>>
      BY <1>9, <2>1, <2>4, ItemType DEF WorkerDone, wire, Item
    <3> QED BY <2>1, <2>4, <3>1 DEF SigningIn
  <2> QED BY <2>1, <2>2, <2>3, <2>4, ItemType
<1> QED BY <1>1, <1>2, <1>3, <1>4, <1>5, <1>6, <1>7, <1>8, <1>9 DEF Next

\* While the sign-in page loads its sign-in is on its way, and nothing takes it
\* off but a failure of the worker (App.tsx:50-63, SignInPage.tsx:49-65).
THEOREM SignInGoesOn ==
    Spec => [][page' = "loading" /\ ws' = "open" =>
                 SigningIn' \/ (page = "loading" /\ (closed' # closed \/ ~SigningIn))]_vars
<1>1. ASSUME IndInv, WayInv, [Next]_vars
      PROVE  [page' = "loading" /\ ws' = "open" =>
                SigningIn' \/ (page = "loading" /\ (closed' # closed \/ ~SigningIn))]_vars
  <2>1. CASE UNCHANGED vars
    BY <2>1
  <2>2. CASE Next
    <3>1. closed' # closed => page = page'
      BY <2>2 DEF Next, WorkerDone, WorkerFails, OnOpen, OnError, OnClose, Reconnect, Deliver, Read,
                  Submit, Remember, Rest, SignOut, SignInAnswer, Answer
    <3> QED BY <1>1, <2>2, <3>1, SignInStep
  <2> QED BY <1>1, <2>1, <2>2
<1> QED BY Invariance, WayInit, WayStep, <1>1, PTL DEF Spec
==============================================================================
