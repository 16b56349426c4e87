-------------------------------- MODULE Files --------------------------------
(***************************************************************************)
(* The file operations of the client process and the dialogs of the file   *)
(* explorer that ask for them.  A dialog holds objects as they were listed *)
(* when it was opened; it asks for one operation for each, all at once,    *)
(* and tells the user what became of them.  An operation is a sequence of  *)
(* system calls in threads, between those of the others.                   *)
(*                                                                         *)
(* Paths lead to inodes, so that a file keeps its identity when its name   *)
(* goes.  A directory is one inode with the content of the whole tree; a   *)
(* symbolic link leads to a file or a directory for good; a special file   *)
(* is a fifo, a socket or a device; the session does not end.              *)
(***************************************************************************)
EXTENDS FiniteSets, Naturals

CONSTANTS Dirs, Names,  \* directories, which stay, and names in them
          Batches,      \* the submissions of dialogs, numbered in their order: a bound
          Occupied,     \* the paths that exist at first,
          Regular,      \* those of them that are files,
          Kinds,        \* and the types that the others may have
          None

Paths == Dirs \X Names
Ops == Batches \X Names         \* one operation for an object of a batch
Inodes == Paths \cup Ops        \* what is there first, and what operations create

\* What metadata() tells of each type of inode: it follows links.
Followed == [file |-> "file", fileLink |-> "file", directory |-> "directory",
             directoryLink |-> "directory", special |-> "special"]
Types == DOMAIN Followed
Contents == {"empty", "part", "whole",
             "pruned"}   \* all of a tree but the links and special files in it
Stages == {"idle", "asking", "cp", "joining", "copying", "directory", "rename", "placed",
           "unlink", "rm", "trash", "writeFile", "writing", "mkdir", "ok", "error"}
\* The dialogs and their buttons.
Buttons == [CopyToDialog |-> {"copy", "move"}, FileMoveDialog |-> {"copy", "move"},
            RenameDialog |-> {"rename", "overwrite"}, DeleteDialog |-> {"delete forever", "trash"},
            NewFileDialog |-> {"new"}, NewDirectoryDialog |-> {"new"}]
Dialogs == DOMAIN Buttons
Presses == UNION {Buttons[dlg] : dlg \in Dialogs}

ASSUME NumbersAssumption == Batches \subseteq Nat
ASSUME FilesAssumption == /\ Occupied \subseteq Paths /\ Kinds \subseteq Types \ {"file"} /\ Dirs \cap Batches = {}
                          /\ None \notin Inodes \cup Dialogs \cup Presses

VARIABLES disk,     \* the inode of each path, or None
          type, content,   \* of each inode
          deleted,  \* inodes that somebody asked to be deleted, and the
                    \* placeholders that somebody moved elsewhere
          dialog, button, objects, from, target,   \* of each batch; target: a directory,
                                                   \* or the new name of a rename
          seen,     \* the types of the objects that the dialog has listed
          stage,    \* of each operation
          made, opened,   \* the two halves of copy_file's join!
          src,      \* the inode that is being copied, or was, or was passed over
          message   \* of each batch, when it is over

fs == <<disk, type, content, deleted>>
batch == <<dialog, button, objects, from, target, seen>>
join == <<made, opened, src>>
vars == <<fs, batch, join, stage, message>>

OpsOf(b) == {b} \X objects[b]
Src(o) == <<from[o[1]], o[2]>>
Dst(o) == IF dialog[o[1]] = "RenameDialog" THEN <<from[o[1]], target[o[1]]>> ELSE <<target[o[1]], o[2]>>
Moving(b) == button[b] \in {"move", "rename", "overwrite"}
Over(o) == stage[o] \in {"ok", "error"}

Init == /\ type \in [Inodes -> Types]
        /\ \A i \in Inodes : type[i] \in IF i \in Occupied \ Regular THEN Kinds ELSE {"file"}
        /\ content = [i \in Inodes |-> IF i \in Ops THEN "empty" ELSE "whole"]
        /\ disk = [p \in Paths |-> IF p \in Occupied THEN p ELSE None]
        /\ deleted = {}
        /\ dialog = [b \in Batches |-> None] /\ button = [b \in Batches |-> None]
        /\ objects = [b \in Batches |-> {}]
        /\ from = [b \in Batches |-> None] /\ target = [b \in Batches |-> None]
        /\ seen = [o \in Ops |-> None]
        /\ stage = [o \in Ops |-> "idle"]
        /\ made = [o \in Ops |-> "no"] /\ opened = [o \in Ops |-> "no"] /\ src = [o \in Ops |-> None]
        /\ message = [b \in Batches |-> None]

-----------------------------------------------------------------------------
(* The dialogs *)

IsNext(b) == dialog[b] = None /\ \A c \in Batches : c < b => dialog[c] # None

\* A dialog is opened for objects of a listing that is up to date now, with the
\* types of what links lead to; only those to copy and to delete take several,
\* and a special file, listed without a type, has no button to rename it.
Open(b, dlg, d, chosen) ==
    /\ IsNext(b) /\ \A c \in Batches : dialog[c] = None \/ button[c] # None
    /\ chosen # {} /\ (dlg \notin {"CopyToDialog", "DeleteDialog"} => Cardinality(chosen) = 1)
    /\ LET new == dlg \in {"NewFileDialog", "NewDirectoryDialog"} IN
       /\ ~new => \A n \in chosen : disk[<<d, n>>] # None
       /\ dlg = "RenameDialog" => \A n \in chosen : type[disk[<<d, n>>]] # "special"
       /\ seen' = [o \in Ops |-> IF o[1] = b /\ o[2] \in chosen /\ ~new
                                 THEN Followed[type[disk[<<d, o[2]>>]]] ELSE seen[o]]
    /\ dialog' = [dialog EXCEPT ![b] = dlg] /\ objects' = [objects EXCEPT ![b] = chosen]
    /\ from' = [from EXCEPT ![b] = d]
    /\ UNCHANGED <<fs, button, target, join, stage, message>>

\* What a dialog asks for an object, by its button and the type it has listed:
\* for a special file most ask nothing, but the user is told that it failed.
toCopy(o) == IF seen[o] = "special" THEN "error" ELSE "cp"
toMove(o) == IF seen[o] = "special" THEN "error" ELSE "rename"
FileMoveDialog(press) == IF press = "copy" THEN "cp" ELSE "rename"
RenameDialog(press) == IF press = "rename" THEN "asking" ELSE "rename"
DeleteDialog(o, press) == CASE press = "trash" -> "trash"
                            [] seen[o] = "file" -> "unlink"
                            [] seen[o] = "directory" -> "rm"
                            [] OTHER -> "error"
NewFileDialog == "writeFile"
NewDirectoryDialog == "mkdir"
Request(dlg, o, press) == CASE dlg = "CopyToDialog" -> IF press = "copy" THEN toCopy(o) ELSE toMove(o)
                            [] dlg = "FileMoveDialog" -> FileMoveDialog(press)
                            [] dlg = "RenameDialog" -> RenameDialog(press)
                            [] dlg = "DeleteDialog" -> DeleteDialog(o, press)
                            [] dlg = "NewFileDialog" -> NewFileDialog
                            [] dlg = "NewDirectoryDialog" -> NewDirectoryDialog

\* A button of the dialog of b: a destination or a new name, and the requests of
\* batch c for all objects at once.
Press(b, c, press, t) ==
    /\ press \in Buttons[dialog[b]]
    /\ t \in CASE dialog[b] \in {"CopyToDialog", "FileMoveDialog"} -> Dirs
                [] dialog[b] = "RenameDialog" -> Names
                [] OTHER -> {from[b]}
    /\ button' = [button EXCEPT ![c] = press] /\ target' = [target EXCEPT ![c] = t]
    /\ stage' = [o \in Ops |-> IF o[1] = c /\ o[2] \in objects[b]
                               THEN Request(dialog[b], <<b, o[2]>>, press) ELSE stage[o]]
    /\ UNCHANGED <<fs, join, message>>

\* The submission.
Submit(b, press, t) == /\ dialog[b] # None /\ button[b] = None
                       /\ Press(b, b, press, t) /\ UNCHANGED <<dialog, objects, from, seen>>

\* A dialog that waits for its answers, or stays open after a failure, is
\* submitted once more, for the same objects.
Again(b, c, press, t) ==
    /\ button[b] # None /\ dialog[b] # "FileMoveDialog" /\ message[b] \in {None, "failed"}
    /\ IsNext(c) /\ Press(b, c, press, t)
    /\ dialog' = [dialog EXCEPT ![c] = dialog[b]] /\ objects' = [objects EXCEPT ![c] = objects[b]]
    /\ from' = [from EXCEPT ![c] = from[b]]
    /\ seen' = [o \in Ops |-> IF o[1] = c THEN seen[<<b, o[2]>>] ELSE seen[o]]

\* Mutant of Report: a message only if something came of it.
ReportSome(b) ==
    /\ button[b] # None /\ message[b] = None /\ \A o \in OpsOf(b) : Over(o)
    /\ \E o \in OpsOf(b) : stage[o] = "ok"
    /\ message' = [message EXCEPT ![b] = IF \A o \in OpsOf(b) : stage[o] = "ok" THEN "succeed" ELSE "some"]
    /\ UNCHANGED <<fs, batch, join, stage>>

\* All answers have come: the message, by how many of them are errors.
Report(b) ==
    /\ button[b] # None /\ message[b] = None /\ \A o \in OpsOf(b) : Over(o)
    /\ message' = [message EXCEPT ![b] = IF \A o \in OpsOf(b) : stage[o] = "error" THEN "failed"
                                         ELSE IF \E o \in OpsOf(b) : stage[o] = "error" THEN "some"
                                         ELSE "succeed"]
    /\ UNCHANGED <<fs, batch, join, stage>>

-----------------------------------------------------------------------------
(* The operations of the client *)

Go(o, s) == stage' = [stage EXCEPT ![o] = s] /\ UNCHANGED <<batch, message>>
\* open() with create_new: the name must be free.
CreateNew(o, t) == /\ disk' = [disk EXCEPT ![Dst(o)] = o] /\ type' = [type EXCEPT ![o] = t]
                   /\ UNCHANGED deleted

\* fs.exists, before a rename.
Exists(o) == /\ stage[o] = "asking"
             /\ Go(o, IF disk[Dst(o)] = None THEN "rename" ELSE "error")
             /\ UNCHANGED <<fs, join>>

\* Mutant of Place: an existing file is opened as well.
PlaceAnyway(o) == /\ stage[o] = "rename" /\ Go(o, "placed")
                  /\ IF disk[Dst(o)] = None THEN CreateNew(o, "file") ELSE UNCHANGED <<disk, type, deleted>>
                  /\ UNCHANGED <<content, join>>

\* fs.rename: an empty file takes the destination's name,
Place(o) == /\ stage[o] = "rename"
            /\ IF disk[Dst(o)] = None THEN CreateNew(o, "file") /\ Go(o, "placed")
                                      ELSE UNCHANGED <<disk, type, deleted>> /\ Go(o, "error")
            /\ UNCHANGED <<content, join>>

\* and is replaced by the source: rename(2), onto what is there by now.
Rename(o) ==
    /\ stage[o] = "placed" /\ disk[Src(o)] # None
    /\ disk[Dst(o)] # None => (type[disk[Src(o)]] = "directory" <=> type[disk[Dst(o)]] = "directory")
    /\ IF Src(o) = Dst(o) THEN UNCHANGED <<disk, deleted>>
       ELSE /\ disk' = [disk EXCEPT ![Src(o)] = None, ![Dst(o)] = disk[Src(o)]]
            /\ deleted' = deleted \cup {p \in Ops : p = disk[Src(o)] /\ Moving(p[1])}
    /\ Go(o, "ok") /\ UNCHANGED <<type, content, join>>

\* The source is gone, a directory, or on another file system: the empty file stays.
RenameFails(o) == stage[o] = "placed" /\ Go(o, "error") /\ UNCHANGED <<fs, join>>

\* fs.cp: is what is to be copied, or linked to, a file or a whole directory?
\* Nothing is done for what is neither, and the answer is Ok.
Stat(o) == /\ stage[o] = "cp" /\ UNCHANGED <<fs, made, opened>>
           /\ src' = [src EXCEPT ![o] = disk[Src(o)]]
           /\ Go(o, IF disk[Src(o)] = None THEN "error"
                    ELSE CASE Followed[type[disk[Src(o)]]] = "file" -> "joining"
                           [] Followed[type[disk[Src(o)]]] = "directory" -> "directory"
                           [] OTHER -> "ok")

\* copy_file: the destination is created,
JoinCreate(o) == /\ stage[o] = "joining" /\ made[o] = "no"
                 /\ IF disk[Dst(o)] = None THEN CreateNew(o, "file") /\ made' = [made EXCEPT ![o] = "yes"]
                    ELSE UNCHANGED <<disk, type, deleted>> /\ made' = [made EXCEPT ![o] = "failed"]
                 /\ UNCHANGED <<content, opened, src, batch, stage, message>>

\* while the source is opened,
JoinOpen(o) == /\ stage[o] = "joining" /\ opened[o] = "no"
               /\ src' = [src EXCEPT ![o] = disk[Src(o)]]
               /\ opened' = [opened EXCEPT ![o] = IF disk[Src(o)] = None THEN "failed" ELSE "yes"]
               /\ UNCHANGED <<fs, made, batch, stage, message>>

\* Mutant of Joined: a missing source is nothing to copy.
JoinedAnyway(o) == /\ stage[o] = "joining" /\ made[o] # "no" /\ opened[o] # "no"
                   /\ Go(o, IF made[o] = "failed" THEN "error" ELSE IF opened[o] = "failed" THEN "ok" ELSE "copying")
                   /\ made' = [made EXCEPT ![o] = "no"] /\ opened' = [opened EXCEPT ![o] = "no"]
                   /\ UNCHANGED <<fs, src>>

\* and an error of either ends the copy.
Joined(o) == /\ stage[o] = "joining" /\ made[o] # "no" /\ opened[o] # "no"
             /\ Go(o, IF made[o] = "yes" /\ opened[o] = "yes" THEN "copying" ELSE "error")
             /\ made' = [made EXCEPT ![o] = "no"] /\ opened' = [opened EXCEPT ![o] = "no"]
             /\ UNCHANGED <<fs, src>>

\* tokio::io::copy, up to the end of the source as it is then, or to an error.
Copy(o) == /\ stage[o] = "copying"
           /\ \/ /\ Followed[type[src[o]]] = "file"
                 /\ content' = [content EXCEPT ![o] = content[src[o]]] /\ Go(o, "ok")
              \/ content[o] = "empty" /\ content' = [content EXCEPT ![o] = "part"]
                 /\ UNCHANGED <<stage, batch, message>>
              \/ UNCHANGED content /\ Go(o, "error")
           /\ UNCHANGED <<disk, type, deleted, join>>

\* What a copy of a tree has: the links and special files in it are skipped.
Pruned(c) == IF c = "whole" THEN {"whole", "pruned"} ELSE {c}

\* copy_dir_all, which may stop half way.
CopyDir(o) ==
    /\ stage[o] = "directory" /\ src' = [src EXCEPT ![o] = disk[Src(o)]] /\ UNCHANGED <<made, opened>>
    /\ IF disk[Dst(o)] # None THEN UNCHANGED fs /\ Go(o, "error")
       ELSE /\ CreateNew(o, "directory")
            /\ \/ /\ disk[Src(o)] # None /\ Followed[type[disk[Src(o)]]] = "directory"
                  /\ \E c \in Pruned(content[disk[Src(o)]]) : content' = [content EXCEPT ![o] = c]
                  /\ Go(o, "ok")
               \/ content' = [content EXCEPT ![o] = "part"] /\ Go(o, "error")

\* The path is taken away.
Unlinked(o) == /\ disk' = [disk EXCEPT ![Src(o)] = None] /\ deleted' = deleted \cup {disk[Src(o)]}
               /\ UNCHANGED <<type, content>>

\* fs.unlink, which fails for a directory; the system may not permit it.
Unlink(o) ==
    /\ stage[o] = "unlink" /\ UNCHANGED join
    /\ \/ /\ disk[Src(o)] # None /\ type[disk[Src(o)]] # "directory"
          /\ Unlinked(o) /\ Go(o, "ok")
       \/ UNCHANGED fs /\ Go(o, "error")

\* fs.rm, remove_dir_all, which takes a link away but fails for a file.
Rm(o) ==
    /\ stage[o] = "rm" /\ UNCHANGED join
    /\ \/ /\ disk[Src(o)] # None /\ type[disk[Src(o)]] \notin {"file", "special"}
          /\ Unlinked(o) /\ Go(o, "ok")
       \/ UNCHANGED fs /\ Go(o, "error")

\* fs.trash
Trash(o) ==
    /\ stage[o] = "trash" /\ UNCHANGED join
    /\ \/ disk[Src(o)] # None /\ Unlinked(o) /\ Go(o, "ok")
       \/ UNCHANGED fs /\ Go(o, "error")

\* fs.writeFile creates a file,
WriteFile(o) == /\ stage[o] = "writeFile"
                /\ IF disk[Dst(o)] = None THEN CreateNew(o, "file") /\ Go(o, "writing")
                                          ELSE UNCHANGED <<disk, type, deleted>> /\ Go(o, "error")
                /\ UNCHANGED <<content, join>>

\* and writes it.
Write(o) == /\ stage[o] = "writing"
            /\ \/ content' = [content EXCEPT ![o] = "whole"] /\ Go(o, "ok")
               \/ content' = [content EXCEPT ![o] = "part"] /\ Go(o, "error")
            /\ UNCHANGED <<disk, type, deleted, join>>

\* fs.mkdir: create_dir_all is content with a directory, or a link to one, that
\* exists.
MakeDir(o) == /\ stage[o] = "mkdir" /\ UNCHANGED join
              /\ IF disk[Dst(o)] = None
                 THEN CreateNew(o, "directory") /\ content' = [content EXCEPT ![o] = "whole"] /\ Go(o, "ok")
                 ELSE UNCHANGED fs /\ Go(o, IF Followed[type[disk[Dst(o)]]] = "directory" THEN "ok" ELSE "error")

Operate(o) == \/ Exists(o) \/ Place(o) \/ Rename(o) \/ RenameFails(o)
              \/ Stat(o) \/ JoinCreate(o) \/ JoinOpen(o) \/ Joined(o) \/ Copy(o) \/ CopyDir(o)
              \/ Unlink(o) \/ Rm(o) \/ Trash(o) \/ WriteFile(o) \/ Write(o) \/ MakeDir(o)

Next == \/ \E b \in Batches :
              \/ \E dlg \in Dialogs, d \in Dirs, chosen \in SUBSET Names : Open(b, dlg, d, chosen)
              \/ \E press \in Presses, t \in Dirs \cup Names :
                     Submit(b, press, t) \/ \E c \in Batches : Again(b, c, press, t)
              \/ Report(b)
        \/ \E o \in Ops : Operate(o)

Spec == Init /\ [][Next]_vars
\* The client's threads and the browser go on.
FairSpec == Spec /\ \A o \in Ops : WF_vars(Operate(o)) /\ \A b \in Batches : WF_vars(Report(b))

-----------------------------------------------------------------------------
(* Properties *)

\* The types of the variables (fs_api.rs and the dialogs of the explorer).
TypeOK == /\ disk \in [Paths -> Inodes \cup {None}]
          /\ type \in [Inodes -> Types] /\ content \in [Inodes -> Contents]
          /\ deleted \subseteq Inodes
          /\ dialog \in [Batches -> Dialogs \cup {None}]
          /\ button \in [Batches -> Presses \cup {None}]
          /\ objects \in [Batches -> SUBSET Names]
          /\ from \in [Batches -> Dirs \cup {None}] /\ target \in [Batches -> Dirs \cup Names \cup {None}]
          /\ seen \in [Ops -> Types \cup {None}] /\ stage \in [Ops -> Stages]
          /\ made \in [Ops -> {"no", "yes", "failed"}] /\ opened \in [Ops -> {"no", "yes", "failed"}]
          /\ src \in [Ops -> Inodes \cup {None}]
          /\ message \in [Batches -> {None, "failed", "some", "succeed"}]

Listed(i) == \E p \in Paths : disk[p] = i
\* The placeholder of a move was taken from under it.
Disturbed == \E o \in deleted \cap Ops : Moving(o[1])

\* No file is lost that nobody asked to be deleted: a copy, a move and a new
\* file never take a name that is in use, whatever runs beside them.  Only if a
\* placeholder is deleted or moved on, a move may overwrite what came after it
\* (fs_api.rs:87-118, 181-224).
NothingIsLost ==
    \A i \in Occupied \cup {o \in Ops : content[o] \in {"whole", "pruned"}} :
        Listed(i) \/ i \in deleted \/ Disturbed

\* NothingIsLost made inductive: what a submission is about stays; an operation
\* that has created a file still has it, and whoever is about to rename has the
\* empty file that he placed (fs_api.rs:100-110, 181-222).
BatchOK(b) == /\ dialog[b] = None => button[b] = None
              /\ dialog[b] # None => from[b] \in Dirs
              /\ button[b] # None => /\ button[b] \in Buttons[dialog[b]]
                                    /\ target[b] \in IF dialog[b] = "RenameDialog" THEN Names ELSE Dirs
OpOK(o) == /\ stage[o] # "idle" => button[o[1]] # None
           /\ stage[o] \in {"asking", "rename", "placed"} => Moving(o[1])
           /\ made[o] # "no" \/ opened[o] # "no" => stage[o] = "joining"
           /\ stage[o] = "copying" \/ opened[o] = "yes" => src[o] # None
           /\ content[o] # "empty" => stage[o] \in {"copying", "ok", "error"}
           /\ stage[o] = "placed" => disk[Dst(o)] = o \/ Disturbed
Created(o) == made[o] = "yes" \/ stage[o] \in {"copying", "writing"} \/ content[o] # "empty"
Kept == \A i \in Occupied \cup {o \in Ops : Created(o)} : Listed(i) \/ i \in deleted \/ Disturbed
IndInv == TypeOK /\ (\A b \in Batches : BatchOK(b)) /\ (\A o \in Ops : OpOK(o)) /\ Kept

\* A copy that was answered Ok: whole, or of a source that was itself being
\* written, or of a tree whose links and special files are missing, or of a
\* special file, and then nothing was copied.
Copied(o) == \/ content[o] = "whole"
             \/ src[o] \in Ops
             \/ src[o] \in Paths /\ content[o] = "pruned" /\ Followed[type[src[o]]] = "directory"
             \/ src[o] \in Paths /\ content[o] = "empty" /\ type[src[o]] = "special"

\* What a message calls a success is one, but for what fs.cp passes over: a copy
\* of a file is whole, and one of a tree has all of its files, unless its source
\* was itself being written, and a move has left no placeholder in its place.
\* A move onto itself is not, if its file was deleted meanwhile
\* (fs_api.rs:100-110, 152-206, CopyToDialog.tsx:63-75).
SucceedIsTrue ==
    \A b \in Batches : message[b] \in {"some", "succeed"} => \A o \in OpsOf(b) :
        stage[o] = "ok" =>
            /\ button[b] = "copy" => Copied(o)
            /\ Moving(b) /\ Src(o) # Dst(o) => disk[Dst(o)] # o \/ Disturbed

\* SucceedIsTrue made inductive: which button an operation is done for, and what
\* holds from its success on (fs_api.rs:100-110, 181-191).
Asked(o) == /\ stage[o] \in {"cp", "joining", "copying", "directory"} => button[o[1]] = "copy"
            /\ stage[o] \in {"unlink", "rm", "trash", "writeFile", "writing", "mkdir"} =>
                 button[o[1]] # "copy" /\ ~Moving(o[1])
Fulfilled(o) == stage[o] = "ok" =>
             /\ button[o[1]] = "copy" => Copied(o)
             /\ Moving(o[1]) /\ Src(o) # Dst(o) => disk[Dst(o)] # o \/ Disturbed
SucceedInv == (\A p \in Paths : content[p] = "whole") /\ \A o \in Ops : Asked(o) /\ Fulfilled(o)

\* Every submission ends with a message, whichever of its operations fail, and
\* however another one runs beside it (CopyToDialog.tsx:63-75, DeleteDialog.tsx:42-75).
BatchEnds == \A b \in Batches : button[b] # None ~> message[b] # None
=============================================================================
