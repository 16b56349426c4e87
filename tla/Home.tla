-------------------------------- MODULE Home --------------------------------
(***************************************************************************)
(* The home page: the views of the terminals and of the file explorer, the *)
(* layout the user asks for, the animation that leads to it, and the tabs  *)
(* of the terminals, which live and die with their view.                   *)
(*                                                                         *)
(* The page shows a layout (delayLayout) other than the one asked for      *)
(* until a CSS transition ends: a fade in the layout `both`, the width of  *)
(* a placeholder in a layout of one view.  A style that does not change,   *)
(* or that the browser refuses, starts no transition and no event comes.   *)
(*                                                                         *)
(* A tab is gone at once; the shell behind it lives on the server, where   *)
(* its open and its close are requests of their own, served at any time    *)
(* and in any order (the module Shell).  The id of a disposed controller   *)
(* may be given to a new one, whose shell is then another: the model stops *)
(* following the old one, which it follows as long as other ids are taken. *)
(***************************************************************************)
EXTENDS Naturals, Sequences, SequencesExt

CONSTANTS Controllers,  \* the controllers of terminals there may be at a time
          NoTab

Views == {"terminal", "fileExplorer"}
Layouts == Views \cup {"both"}
Gone == 0  Moving == 1  Full == 2   \* an opacity, or the placeholder's length

VARIABLES layout,   \* what the user asked for last
          shown,    \* delayLayout
          opacity,  \* of the two views' wraps, in the layout `both`
          width,    \* the placeholder's length on the screen
          target,   \* mergeLength: the length its style asks for
          room,     \* the window is larger than the file explorer's length
          missed,   \* the placeholder is at rest and its event does not come
          tabs,     \* _controllers, and the controller that is selected
          current,
          fading,   \* views of controllers that SharedAxis still shows
          shell,    \* of each controller: none, opening (asked for), or running
          close,    \* its close: none, asked, or early when it was served before the open
          pressed   \* controllers whose close button was pressed, while their views show

myLayout == <<layout, shown, opacity, width, target, room, missed>>
shells == <<shell, close>>
terminals == <<tabs, current, fading, shells, pressed>>
homeVars == <<myLayout, terminals>>

Mounted(view) == shown \in {view, "both"}
\* What `length` the placeholder is given; the browser ignores a length that is not positive.
Wanted(l) == IF l = shown THEN Gone ELSE Full
Refused(l) == shown = "fileExplorer" /\ l # shown /\ ~room

\* The layout is restored from the settings; each view mounted with its first tab.
HomeInit == /\ layout \in Layouts /\ shown = layout
            /\ opacity = [v \in Views |-> Full]
            /\ width = Gone /\ target = Gone /\ room \in BOOLEAN /\ missed = FALSE
            /\ \/ layout = "fileExplorer" /\ tabs = <<>> /\ current = NoTab
               \/ layout # "fileExplorer" /\ \E c \in Controllers : tabs = <<c>> /\ current = c
            /\ fading = {} /\ pressed = {}
            /\ shell = [c \in Controllers |-> IF c \in ToSet(tabs) THEN "opening" ELSE "none"]
            /\ close = [c \in Controllers |-> "none"]

-----------------------------------------------------------------------------
(* The tabs of the terminals *)

SelectTab(c) == /\ current' = c
                /\ fading' = IF current = NoTab \/ current = c THEN fading \ {c}
                                                              ELSE (fading \cup {current}) \ {c}

\* A new Controller asks for its shell.
Open(c) == shell' = [shell EXCEPT ![c] = "opening"] /\ close' = [close EXCEPT ![c] = "none"]

\* dispose(): asks for the close of a shell not known to be closed, and waits
\* for nothing.
Dispose(S) == /\ close' = [c \in Controllers |-> IF c \in S /\ shell[c] # "none" THEN "asked" ELSE close[c]]
              /\ UNCHANGED shell

\* add(): a controller with a new id, which opens its shell.
Add(c) == /\ Mounted("terminal") /\ c \notin ToSet(tabs) \cup fading
          /\ tabs' = Append(tabs, c) /\ SelectTab(c)
          /\ Open(c)
          /\ UNCHANGED <<myLayout, pressed>>

\* A click on a tab.
OnSelected(c) == /\ Mounted("terminal") /\ c \in ToSet(tabs) \ {current}
                 /\ SelectTab(c)
                 /\ UNCHANGED <<myLayout, tabs, shells, pressed>>

\* removeAt(): disposes the controller; the first tab follows a closed current one.
RemoveTab(i) == /\ tabs' = RemoveAt(tabs, i) /\ Dispose({tabs[i]})
                /\ IF current = tabs[i] THEN SelectTab(IF tabs' = <<>> THEN NoTab ELSE tabs'[1])
                                        ELSE UNCHANGED <<current, fading>>

NoRemoval == UNCHANGED <<tabs, current, fading, shells>>

\* Mutant of RemoveOf: without the test of the index, the last one goes.
RemoveOfAny(c) == IF tabs = <<>> THEN NoRemoval
                  ELSE \E i \in DOMAIN tabs : /\ IF c \in ToSet(tabs) THEN tabs[i] = c ELSE i = Len(tabs)
                                              /\ RemoveTab(i)

\* removeOf(): a view that fades out still has its button.
RemoveOf(c) == \/ \E i \in DOMAIN tabs : tabs[i] = c /\ RemoveTab(i)
               \/ c \notin ToSet(tabs) /\ NoRemoval

\* The close button of a view.
CloseTab(c) == /\ c \in fading \cup ({current} \ {NoTab})
               /\ pressed' = pressed \cup {c} /\ RemoveOf(c)
               /\ UNCHANGED myLayout

\* SharedAxis is done with a view.
FadedOut(c) == /\ c \in fading /\ fading' = fading \ {c} /\ pressed' = pressed \ {c}
               /\ UNCHANGED <<myLayout, tabs, current, shells>>

\* The server opens the shell, or refuses to and says so.
ServeOpen(c) == /\ shell[c] = "opening"
                /\ \/ shell' = [shell EXCEPT ![c] = "running"] /\ UNCHANGED close
                   \/ shell' = [shell EXCEPT ![c] = "none"] /\ close' = [close EXCEPT ![c] = "none"]
                /\ UNCHANGED <<myLayout, tabs, current, fading, pressed>>

\* The server closes the shell; a shell that is not listed yet is left alone.
ServeClose(c) == /\ close[c] = "asked"
                 /\ IF shell[c] = "running"
                    THEN shell' = [shell EXCEPT ![c] = "none"] /\ close' = [close EXCEPT ![c] = "none"]
                    ELSE close' = [close EXCEPT ![c] = "early"] /\ UNCHANGED shell
                 /\ UNCHANGED <<myLayout, tabs, current, fading, pressed>>

\* A shell ends and its close event arrives: its tab stays.
ShellCloses(c) == /\ shell[c] = "running"
                  /\ shell' = [shell EXCEPT ![c] = "none"] /\ close' = [close EXCEPT ![c] = "none"]
                  /\ UNCHANGED <<myLayout, tabs, current, fading, pressed>>

OfShell(c) == ServeOpen(c) \/ ServeClose(c) \/ ShellCloses(c)

\* The view is mounted with one terminal.
OpenFirst(c) == /\ tabs' = <<c>> /\ current' = c /\ fading' = {}
                /\ Open(c) /\ UNCHANGED pressed

\* Mutant of DisposeAll: the view forgets its controllers without disposing them.
ForgetAll == tabs' = <<>> /\ current' = NoTab /\ fading' = {} /\ pressed' = {} /\ UNCHANGED shells

\* Unmounted, the view disposes every controller.
DisposeAll == /\ tabs' = <<>> /\ current' = NoTab /\ fading' = {} /\ pressed' = {}
              /\ Dispose(ToSet(tabs))

\* The view of the terminals follows the layout that is to be shown.
Mount == IF layout = "fileExplorer" THEN DisposeAll
         ELSE IF Mounted("terminal") THEN UNCHANGED terminals
         ELSE \E c \in Controllers : OpenFirst(c)

-----------------------------------------------------------------------------
(* The layout *)

\* The placeholder is given another length.
Retarget(l) == target' = IF Refused(l) THEN target ELSE Wanted(l)

\* The item of a view's menu: hide the other view, or show it again.
MenuItem(view) == IF layout = "both" THEN view ELSE "both"

\* A click on that item, in the menu of a mounted view.
SetLayout(view) ==
    /\ Mounted(view) /\ layout' = MenuItem(view)
    /\ IF shown = "both" THEN UNCHANGED <<target, missed>>
       ELSE Retarget(layout') /\ missed' = (width = Full /\ target' = Full)
    /\ UNCHANGED <<shown, opacity, width, room, terminals>>

\* Mutant of SyncLayout: it shows one view only and forgets the way back.
SyncOnce == /\ shown' = IF shown = "both" THEN layout ELSE shown
            /\ Mount /\ missed' = FALSE
            /\ IF shown = "both" /\ layout # "both"
               THEN /\ width' = IF layout = "fileExplorer" /\ ~room THEN Gone ELSE Full
                    /\ target' = Gone /\ UNCHANGED opacity
               ELSE /\ width' = target /\ UNCHANGED target
                    /\ opacity' = [v \in Views |-> Full]

\* syncLayout(): a placeholder appears with the length of the view that has
\* faded, or the views it made room for.
SyncLayout == /\ shown' = layout /\ Mount /\ missed' = FALSE
              /\ IF shown = "both" /\ layout # "both"
                 THEN /\ width' = IF layout = "fileExplorer" /\ ~room THEN Gone ELSE Full
                      /\ target' = Gone /\ UNCHANGED opacity
                 ELSE /\ width' = target /\ UNCHANGED target
                      /\ opacity' = [v \in Views |-> Full]

Toward(x, goal) == IF x < goal THEN x + 1 ELSE IF x > goal THEN x - 1 ELSE x

\* A frame of the layout `both`: the view to be hidden fades, the other comes back.
Fade ==
    LET faded == [v \in Views |-> Toward(opacity[v], IF layout \in Views \ {v} THEN Gone ELSE Full)]
    IN /\ shown = "both" /\ faded # opacity
       /\ IF \E v \in Views : layout # v /\ layout # "both" /\ faded[v] = Gone
          THEN SyncLayout
          ELSE opacity' = faded /\ UNCHANGED <<shown, width, target, missed, terminals>>
       /\ UNCHANGED <<layout, room>>

\* A frame of a layout of one view: the placeholder grows or shrinks.
Slide ==
    /\ shown # "both" /\ width # target
    /\ IF Toward(width, target) = target
       THEN SyncLayout
       ELSE /\ width' = Toward(width, target)
            /\ UNCHANGED <<shown, opacity, target, missed, terminals>>
    /\ UNCHANGED <<layout, room>>

\* The window is resized: the length that the file explorer leaves is another one.
Resize ==
    /\ room' \in BOOLEAN
    /\ IF shown = "fileExplorer" /\ layout = "both" /\ room'
       THEN /\ target' = Full /\ missed' = FALSE
            /\ width' = IF width = Full THEN Moving ELSE width
       ELSE UNCHANGED <<target, width, missed>>
    /\ UNCHANGED <<layout, shown, opacity, terminals>>

\* The border between the views is dragged, however far.
Drag == /\ shown = "both" /\ room' = ~room
        /\ UNCHANGED <<layout, shown, opacity, width, target, missed, terminals>>

\* The window passes 800 pixels: the transition of the other axis is cut off,
\* and only a placeholder whose length is another one starts anew.
Turn ==
    /\ shown # "both" /\ room' \in BOOLEAN
    /\ IF shown = "fileExplorer" /\ layout = "both" /\ room'
       THEN width' = Moving /\ target' = Full /\ missed' = FALSE
       ELSE width' = target /\ missed' = (missed \/ width # target) /\ UNCHANGED target
    /\ UNCHANGED <<layout, shown, opacity, terminals>>

HomeNext == \/ \E view \in Views : SetLayout(view)
            \/ Fade \/ Slide \/ Drag \/ Resize \/ Turn
            \/ \E c \in Controllers : Add(c) \/ OnSelected(c) \/ CloseTab(c) \/ FadedOut(c) \/ OfShell(c)

HomeSpec == HomeInit /\ [][HomeNext]_homeVars
\* The browser paints frames.
HomeFairSpec == HomeSpec /\ WF_homeVars(Fade) /\ WF_homeVars(Slide)

-----------------------------------------------------------------------------
(* Properties *)

\* The types of the variables (HomePage.tsx, MultiTerminalView.tsx).
HomeTypeOK == /\ layout \in Layouts /\ shown \in Layouts
              /\ opacity \in [Views -> Gone .. Full]
              /\ width \in Gone .. Full /\ target \in {Gone, Full}
              /\ room \in BOOLEAN /\ missed \in BOOLEAN
              /\ tabs \in Seq(Controllers) /\ current \in Controllers \cup {NoTab}
              /\ fading \subseteq Controllers /\ pressed \subseteq Controllers
              /\ shell \in [Controllers -> {"none", "opening", "running"}]
              /\ close \in [Controllers -> {"none", "asked", "early"}]

\* No shell runs, or will, without a tab to reach it, unless its close is on its
\* way or overtook its open: nobody could type into it or close it, and it would
\* stay until the session ends.  Removing a tab and leaving the view, whatever
\* fades meanwhile, leave no other.  A view without tabs selects none
\* (MultiTerminalView.tsx:26-63, 151-160).
Unclosed == {c \in Controllers : shell[c] # "none" /\ close[c] = "none"}
ShellsHaveTabs == /\ Unclosed \subseteq ToSet(tabs)
                  /\ IF tabs = <<>> THEN current = NoTab ELSE current \in ToSet(tabs)

\* A terminal goes only with its own close button, or with the whole view when
\* the layout asked for is the file explorer alone; a second thought before the
\* fade is over keeps all terminals, and so does the way back
\* (MultiTerminalView.tsx:45-60, HomePage.tsx:98-134).
OnlyTheClosedGoes ==
    [][\A c \in ToSet(tabs) \ ToSet(tabs') : c \in pressed' \/ layout = "fileExplorer"]_homeVars

\* A transition is under way, and its last frame is still to come: the view to
\* be hidden has not faded, or the placeholder has not its length.
UnderWay == IF shown = "both" THEN \A v \in Views \ {layout} : opacity[v] # Gone
            ELSE width # target
NoRoom == shown = "fileExplorer" /\ ~room

\* The page gets to the layout that was asked for, however often the user
\* changes his mind and the window its size, unless a second thought within a
\* frame or the turn of the window left the placeholder without a transition
\* (HomePage.tsx:98-134, 269-292): a layout that is not shown yet has its
\* transition, and frames end that.
LayoutSettles == /\ [](layout # shown => UnderWay \/ NoRoom \/ missed)
                 /\ <>[]room => (layout # shown ~> layout = shown \/ missed)

-----------------------------------------------------------------------------
(* The inductive invariant behind ShellsHaveTabs and OnlyTheClosedGoes *)

\* The view that opens with one terminal had none: nothing is forgotten.
HiddenHasNoTabs == ~Mounted("terminal") => tabs = <<>>

HomeInv == HomeTypeOK /\ ShellsHaveTabs /\ HiddenHasNoTabs

\* What the first part of LayoutSettles needs besides HomeTypeOK: who fades away
\* is unmounted in that frame, and the menu of the only view leads to `both`.
LayoutInv == /\ \A v \in Views : opacity[v] # Gone
             /\ shown # "both" => layout \in {shown, "both"}
             /\ layout # shown => UnderWay \/ NoRoom \/ missed
=============================================================================
