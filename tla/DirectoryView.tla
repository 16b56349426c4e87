---------------------------- MODULE DirectoryView ----------------------------
(***************************************************************************)
(* The view of a directory in the file explorer: the listing, which the    *)
(* watcher replaces at any moment, the selection, drags between its tiles  *)
(* and its tool bar, the dialogs it opens with objects of the listing, and *)
(* the two windows that show the content of a file.                        *)
(*                                                                         *)
(* The objects that a listing holds (Lstat) are pairs of a path and a      *)
(* version: a listing never holds the object of an earlier one.  Dialogs   *)
(* are modal; one that is closed keeps nothing here, except the windows,   *)
(* which go on loading.  An upload by a drop from outside is not in here.  *)
(* A commit of React and the effects that follow it are one step, so that  *)
(* no click falls in the frame between them.                               *)
(***************************************************************************)
EXTENDS Naturals, FiniteSets

CONSTANTS Paths, Dirs,    \* files, and those of them that are directories
          Parent,         \* of each path; None for the root
          Supported,      \* files whose extension has a preview
          Versions,       \* that the objects listed for a path have
          MaxClicks,      \* of the user, those that close something apart: a bound
          MaxLate,        \* requests for a URL that a window may leave behind: a bound
          None

ASSUME ViewAssumption == /\ Dirs \subseteq Paths /\ None \notin Paths /\ \A p \in Paths : 0 \notin Versions[p]
                         /\ Parent \in [Paths -> Dirs \cup {None}] /\ {MaxClicks, MaxLate} \subseteq Nat

Lstats == UNION {{p} \X Versions[p] : p \in Paths}
PathsOf(stats) == {s[1] : s \in stats}
ListingsOf(d) == {l \in SUBSET {s \in Lstats : Parent[s[1]] = d} : Cardinality(l) = Cardinality(PathsOf(l))}

VARIABLES path, listing,        \* what the explorer shows: the path and its entries
          selecting, selected,
          dragging,   \* the path whose tile is being dragged, as the view has it
          held,       \* what the browser drags, until the drop; the button of
                      \* the parent is dragged without a file name
          tile,       \* the tile is there to hear of the drag's end
          dialog,     \* what each dialog is open for, or None
          pending,    \* the request of a dialog that is under way
          preview,    \* PreviewDialog
          text,       \* PreviewWindow of RequestPreviewDialog
          clicks

selection == <<selecting, selected>>
drag == <<dragging, held, tile>>
windows == <<preview, text>>
Base == <<path, listing, selection, drag>>
viewVars == <<Base, dialog, pending, windows, clicks>>

\* information, its rename, fileMove, requestPreview, copyDialog, deleteDialog, NewDialog
Kinds == {"info", "rename", "move", "ask", "copy", "delete", "new"}
Opened(k) == dialog[k] # None

NoDialog == [k \in Kinds |-> None]
NoPreview == [open |-> FALSE, path |-> None, url |-> None, asking |-> FALSE, frame |-> FALSE, loading |-> FALSE]
NoText == [open |-> FALSE, lstat |-> None, stage |-> "none", data |-> None, loading |-> FALSE, late |-> 0]
ViewInit == /\ path \in Dirs /\ listing \in ListingsOf(path)
            /\ selecting = FALSE /\ selected = {} /\ dragging = None
            /\ dialog = NoDialog /\ preview = NoPreview /\ text = NoText
            /\ held = None /\ tile = FALSE /\ pending = None /\ clicks = 0

Modal == preview.open \/ text.open \/ \E k \in Kinds : Opened(k)

-----------------------------------------------------------------------------
(* Listings *)

\* The effect of a path that is another one.
PathEffect == /\ dragging' = None /\ selected' = {} /\ selecting' = FALSE
              /\ dialog' = [dialog EXCEPT !.info = None, !.move = None, !.ask = None]

\* What other entries l leave of the dialogs: that for information goes over to
\* the new object, and those for what is listed no more are closed.
Refreshed(l) ==
    LET listed(p) == p \in PathsOf(l) IN
    [dialog EXCEPT
        !.info = IF @ # None /\ listed(@.stat[1])
                 THEN [@ EXCEPT !.stat = CHOOSE s \in l : s[1] = dialog.info.stat[1]] ELSE None,
        !.move = IF @ # None /\ listed(@.from) /\ listed(@.to) THEN @ ELSE None,
        !.ask = IF @ # None /\ listed(@[1]) THEN @ ELSE None]

\* Mutant of EntriesEffect: the selection keeps the objects of the last listing.
EntriesEffectKeeping(l) == /\ selected' = {s \in selected : s[1] \in PathsOf(l)}
                           /\ dialog' = Refreshed(l) /\ UNCHANGED <<selecting, dragging>>

\* The effect of other entries: the selection goes over to the new objects too.
EntriesEffect(l) == /\ selected' = {s \in l : s[1] \in PathsOf(selected)}
                    /\ dialog' = Refreshed(l) /\ UNCHANGED <<selecting, dragging>>

\* A listing arrives, of this directory or of another one.  A tile that is gone,
\* or that got another row of the list, does not hear of the end of its drag.
Show(d, l) ==
    /\ path' = d /\ listing' = l
    /\ IF d = path THEN EntriesEffect(l) ELSE PathEffect
    /\ tile' \in {FALSE, tile /\ d = path /\ (held # None => held.path \in PathsOf(l))}
    /\ UNCHANGED <<held, pending, windows>>

\* The explorer has shown a file, an error or nothing in between; an answer for
\* the view that is gone changes nothing.
Remount(d, l) == /\ path' = d /\ listing' = l
                 /\ selecting' = FALSE /\ selected' = {} /\ dragging' = None /\ tile' = FALSE
                 /\ dialog' = NoDialog /\ preview' = NoPreview /\ text' = NoText
                 /\ pending' = None /\ UNCHANGED held

-----------------------------------------------------------------------------
(* Drags *)

ToolsBar == ~selecting /\ dragging = None
DraggingToolbar == ~selecting /\ dragging # None

DragTile(s) == /\ s \in listing /\ ~Modal /\ held = None /\ ~tile
               /\ ~selecting /\ dragging \in {None, s[1]}
               /\ dragging' = s[1] /\ held' = [path |-> s[1], named |-> TRUE] /\ tile' = TRUE
               /\ UNCHANGED <<path, listing, selection, dialog, pending, windows>>
DragParent == /\ ToolsBar /\ ~Modal /\ held = None /\ ~tile /\ Parent[path] # None
              /\ held' = [path |-> Parent[path], named |-> FALSE]
              /\ UNCHANGED <<path, listing, selection, dragging, tile, dialog, pending, windows>>
\* The list scrolls, and the rows out of sight are unmounted.
Scroll == /\ held # None /\ tile /\ tile' = FALSE
          /\ UNCHANGED <<path, listing, selection, dragging, held, dialog, pending, windows>>

\* onDrop of a tile or of a button, which may open a dialog.
Drop(dialogs) == /\ held # None /\ held' = None /\ dialog' = dialogs
                 /\ UNCHANGED <<path, listing, selection, dragging, tile, pending, windows>>
Release == Drop(dialog)
DropToMove(d) == Drop(IF held.named /\ held.path # d
                      THEN [dialog EXCEPT !.move = [from |-> held.path, to |-> d]] ELSE dialog)
DropFor(k) == /\ DraggingToolbar
              /\ Drop(IF held.path \in PathsOf(listing)
                      THEN [dialog EXCEPT ![k] = {s \in listing : s[1] = held.path}] ELSE dialog)
DropOnTile(s) == s \in listing /\ s[1] \in Dirs /\ DropToMove(s[1])
DropOnParent == DraggingToolbar /\ Parent[path] # None /\ DropToMove(Parent[path])
DropOnDownload == DraggingToolbar /\ Release
DropOnCopy == DropFor("copy")
DropOnDelete == DropFor("delete")
\* dragend, after the drop or without one.
DragEnd == /\ tile /\ held = None /\ tile' = FALSE /\ dragging' = None
           /\ UNCHANGED <<path, listing, selection, held, dialog, pending, windows>>

Grab == DragParent \/ \E s \in listing : DragTile(s)
LetGo == \/ Scroll \/ Release \/ DragEnd \/ \E s \in listing : DropOnTile(s)
         \/ DropOnParent \/ DropOnDownload \/ DropOnCopy \/ DropOnDelete

-----------------------------------------------------------------------------
(* The selection *)

Select(v, chosen) == /\ selecting' = v /\ selected' = chosen /\ ~Modal
                     /\ UNCHANGED <<path, listing, drag, dialog, pending, windows>>
CheckList == ToolsBar /\ Select(TRUE, selected)
\* A click on a tile; and on the box for all tiles.
Toggle(s) == /\ selecting /\ s \in listing
             /\ Select(TRUE, IF s \in selected THEN selected \ {s} ELSE selected \cup {s})
SelectAll == /\ selecting
             /\ Select(TRUE, IF Cardinality(selected) = Cardinality(listing) THEN {} ELSE listing)
\* What was selected stays so.
ExitSelecting == selecting /\ Select(FALSE, selected)

Selections == CheckList \/ SelectAll \/ ExitSelecting \/ \E s \in listing : Toggle(s)

-----------------------------------------------------------------------------
(* The windows *)

\* PreviewDialog: its effect asks for a URL when the path is another one, which
\* aborts the request of the last one.
PreviewOf(p) == preview' = IF preview.path = p THEN [preview EXCEPT !.open = TRUE]
                           ELSE [preview EXCEPT !.open = TRUE, !.path = p, !.asking = TRUE, !.loading = TRUE]

\* PreviewWindow: its cleanup aborts what is under way; a URL that is still to
\* come is used no more, but its failure is heard of.
Cleanup(t) == [t EXCEPT !.late = IF t.stage = "url" THEN @ + 1 ELSE @, !.stage = "none"]

\* The effect asks for the URL of another object's file, or of the same one.
Load(t, s) == LET u == Cleanup(t) IN
              /\ u.late <= MaxLate
              /\ text' = [u EXCEPT !.open = TRUE, !.lstat = s, !.stage = "url", !.loading = TRUE]

-----------------------------------------------------------------------------
(* Dialogs *)

Dialog(d) == dialog' = d /\ UNCHANGED <<Base, pending, windows>>
Info(s, d) == Dialog([dialog EXCEPT !.info = [stat |-> s, dir |-> d]])

CopySelected == ~Modal /\ selecting /\ selected # {} /\ Dialog([dialog EXCEPT !.copy = selected])
DeleteSelected == ~Modal /\ selecting /\ selected # {} /\ Dialog([dialog EXCEPT !.delete = selected])
\* A tile's button, and `About Directory`, for a directory that has a parent.
About(s) == ~Modal /\ s \in listing /\ Info(s, path)
AboutDirectory == ~Modal /\ ToolsBar /\ Parent[path] # None /\ Info(<<path, 0>>, Parent[path])
New == ~Modal /\ ToolsBar /\ Dialog([dialog EXCEPT !.new = {}])
\* The dialog to copy lists any directory, but goes by the view's own path.
Copying == Opened("copy") /\ ~Opened("info")
AboutOther(s) == Copying /\ Info(s, path)
\* A click on a file; on a directory it is left to the watcher.
OpenFile(s) ==
    /\ ~Modal /\ ~selecting /\ s \in listing /\ s[1] \notin Dirs
    /\ IF s[1] \in Supported THEN PreviewOf(s[1]) /\ UNCHANGED <<Base, dialog, pending, text>>
                             ELSE Dialog([dialog EXCEPT !.ask = s])

\* The information dialog gives way to those it opens.
Informing == Opened("info") /\ ~Opened("rename") /\ ~Opened("delete")
ToDelete == Informing /\ Dialog([dialog EXCEPT !.delete = {dialog.info.stat}])
ToRename == Informing /\ Dialog([dialog EXCEPT !.rename = dialog.info])

\* A dialog asks the client for something, one at a time here; only `delete
\* forever` looks at which of the objects it was done for.
Ask(kind, objects) == /\ pending = None /\ pending' = [kind |-> kind, objects |-> objects]
                      /\ UNCHANGED <<Base, dialog, windows>>
AskRename == Opened("rename") /\ Ask("rename", {None})
AskDelete == Opened("delete") /\ (Ask("delete", dialog.delete) \/ Ask("trash", {None}))
AskCopy == Copying /\ Ask("copy", {None})
AskNew == Opened("new") /\ Ask("new", {None})

\* The answer.  After a failure the dialog stays; otherwise it is closed, or
\* the one is that was opened in its place meanwhile.
Answered(done) ==
    /\ pending # None /\ pending' = None /\ done \subseteq pending.objects
    /\ LET over(kinds) == done # {} /\ pending.kind \in kinds
           deleted == /\ Opened("info") /\ pending.kind = "delete"
                      /\ dialog.info.stat[1] \in PathsOf(done) IN
       dialog' = [dialog EXCEPT
           !.rename = IF over({"rename"}) THEN None ELSE @,
           !.info = IF over({"rename"}) \/ deleted THEN None ELSE @,
           !.delete = IF over({"delete", "trash"}) THEN None ELSE @,
           !.copy = IF over({"copy"}) THEN None ELSE @,
           !.new = IF over({"new"}) THEN None ELSE @]
    /\ UNCHANGED <<Base, windows>>

\* The user closes a dialog that is on top; that for a move is closed by any button.
Close(k) == /\ Opened(k) /\ (k = "info" => Informing) /\ (k = "copy" => Copying)
            /\ Dialog([dialog EXCEPT ![k] = None])

OpenDialog == \/ CopySelected \/ DeleteSelected \/ AboutDirectory \/ New
              \/ \E s \in listing : About(s) \/ OpenFile(s)
              \/ \E s \in Lstats : AboutOther(s)
              \/ ToDelete \/ ToRename
UseDialog == AskRename \/ AskDelete \/ AskCopy \/ AskNew
EndDialog == \/ pending # None /\ \E done \in SUBSET pending.objects : Answered(done)
             \/ \E k \in Kinds : Close(k)

-----------------------------------------------------------------------------
(* The windows, continued *)

\* The two buttons of RequestPreviewDialog.  The effect runs only for an object
\* that is not the one before, which has another version or is only a new object.
Asked == Opened("ask") /\ dialog' = [dialog EXCEPT !.ask = None] /\ UNCHANGED <<Base, pending>>
ForceView == /\ Asked /\ UNCHANGED preview
             /\ \/ Load(text, dialog.ask)
                \/ dialog.ask = text.lstat /\ text' = [text EXCEPT !.open = TRUE]
PreviewAnyway == Asked /\ PreviewOf(dialog.ask[1]) /\ UNCHANGED text

Text(t) == text' = t /\ UNCHANGED <<Base, dialog, pending, preview>>
CloseText == text.open /\ Text([text EXCEPT !.open = FALSE])
Failed(t) == [t EXCEPT !.data = None, !.loading = FALSE]
Refresh == /\ text.open /\ ~text.loading /\ text.lstat # None
           /\ Load(text, text.lstat) /\ UNCHANGED <<Base, dialog, pending, preview>>
UrlComes == text.stage = "url" /\ Text([text EXCEPT !.stage = "xhr"])

\* Mutant of UrlFails: what was shown stays.
UrlFailsKeeping == text.stage = "url" /\ Text([text EXCEPT !.stage = "none", !.loading = FALSE])

UrlFails == text.stage = "url" /\ Text(Failed([text EXCEPT !.stage = "none"]))
LateUrlComes == text.late > 0 /\ Text([text EXCEPT !.late = @ - 1])
LateUrlFails == text.late > 0 /\ Text(Failed([text EXCEPT !.late = @ - 1]))
Progress == text.stage = "xhr" /\ Text([text EXCEPT !.loading = TRUE])
\* The status is not looked at: the body of an error is shown as well (version 0).
Loaded == /\ text.stage = "xhr"
          /\ \E d \in {text.lstat, <<text.lstat[1], 0>>} :
                 Text([text EXCEPT !.stage = "none", !.data = d, !.loading = FALSE])
Breaks == text.stage = "xhr" /\ Text(Failed([text EXCEPT !.stage = "none"]))

\* PreviewDialog gives the URL to a frame, which loads if it is another one or
\* is made anew.
Preview(v) == preview' = v /\ UNCHANGED <<Base, dialog, pending, text>>
ClosePreview == preview.open /\ Preview([preview EXCEPT !.open = FALSE])
UrlForFrame == preview.asking /\ Preview([preview EXCEPT !.asking = FALSE, !.url = preview.path,
                                            !.frame = @ \/ preview.url # preview.path])
NoUrlForFrame == preview.asking /\ Preview([preview EXCEPT !.asking = FALSE])
FrameLoads == preview.frame /\ Preview([preview EXCEPT !.frame = FALSE, !.loading = FALSE])
RefreshFrame == preview.open /\ ~preview.loading /\ Preview([preview EXCEPT !.frame = TRUE, !.loading = TRUE])

View == ForceView \/ PreviewAnyway \/ Refresh \/ RefreshFrame
Network == \/ UrlComes \/ UrlFails \/ LateUrlComes \/ LateUrlFails \/ Progress \/ Loaded \/ Breaks
           \/ UrlForFrame \/ NoUrlForFrame \/ FrameLoads

Click == Grab \/ Selections \/ OpenDialog \/ UseDialog \/ View
Other == \/ \E d \in Dirs : \E l \in ListingsOf(d) : Show(d, l) \/ Remount(d, l)
         \/ LetGo \/ EndDialog \/ CloseText \/ ClosePreview \/ Network

ViewNext == \/ Click /\ clicks < MaxClicks /\ clicks' = clicks + 1
            \/ Other /\ UNCHANGED clicks

ViewSpec == ViewInit /\ [][ViewNext]_viewVars

-----------------------------------------------------------------------------
(* Properties *)

\* What dialogs are open for, the requests they make, and the windows.
Stats == Lstats \cup (Dirs \X {0})
Abouts == [stat : Stats, dir : Dirs]
Dialogs == [info : Abouts \cup {None}, rename : Abouts \cup {None},
            move : [from : Paths, to : Dirs] \cup {None}, ask : Lstats \cup {None},
            copy : (SUBSET Stats) \cup {None}, delete : (SUBSET Stats) \cup {None}, new : (SUBSET Stats) \cup {None}]
Requests == [kind : {"rename", "delete", "trash", "copy", "new"}, objects : SUBSET (Stats \cup {None})]
Previews == [open : BOOLEAN, path : Paths \cup {None}, url : Paths \cup {None},
             asking : BOOLEAN, frame : BOOLEAN, loading : BOOLEAN]
Texts == [open : BOOLEAN, lstat : Lstats \cup {None}, stage : {"none", "url", "xhr"},
          data : Lstats \cup (Paths \X {0}) \cup {None}, loading : BOOLEAN, late : 0..MaxLate]

\* The types of the variables (DirectoryPreview.tsx and the dialogs it opens).
ViewTypeOK == /\ path \in Dirs /\ listing \in ListingsOf(path)
              /\ selecting \in BOOLEAN /\ selected \subseteq Lstats
              /\ dragging \in Paths \cup {None} /\ tile \in BOOLEAN
              /\ held \in [path : Paths, named : BOOLEAN] \cup {None}
              /\ dialog \in Dialogs /\ pending \in Requests \cup {None}
              /\ preview \in Previews /\ text \in Texts
              /\ clicks \in 0..MaxClicks

\* Whatever listings come and go while the user selects, what is selected, and
\* what the buttons to copy, delete and download would act on, is listed as it is now
\* (DirectoryPreview.tsx:38-79, ToolsBar.tsx:319-342).
SelectedIsListed == selected \subseteq listing

\* The text window never presents the content of another file, or of an older
\* state of it, as loaded: not when the file changes while a URL or the file is
\* on its way, nor when the failure of an aborted request comes late
\* (RequestPreviewDialog.tsx:74-112).
TextIsOfFile == ~text.loading => \/ text.data \in {None, text.lstat}
                                 \/ text.data = <<text.lstat[1], 0>>

\* Both are inductive once the records have their fields, and what is loaded is
\* the file of an object: Refresh is only for a window that has one.
LoadsAFile == text.stage # "none" => text.lstat \in Lstats
ViewInv == ViewTypeOK /\ LoadsAFile /\ SelectedIsListed /\ TextIsOfFile
=============================================================================
