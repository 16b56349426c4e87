------------------------------ MODULE Files_proofs ------------------------------
(***************************************************************************)
(* For any directories, names, numbers of dialogs and of objects in them:  *)
(* no file is lost that nobody asked to be deleted.                        *)
(*                                                                         *)
(* NothingIsLost is not inductive alone: rename(2) replaces whatever has   *)
(* the name of the destination.  IndInv adds that this is the empty file   *)
(* that the same operation placed there, unless a placeholder was taken    *)
(* from under its move (OpOK), and that whoever created a file keeps it    *)
(* from then on, not only when its content is whole (Kept).                *)
(* SucceedInv says which button an operation is done for, and what holds   *)
(* from its success on, so that a message sent later is true as well.      *)
(***************************************************************************)
EXTENDS Files, TLAPS

USE FilesAssumption

LEMMA OpParts == \A o \in Ops : o[1] \in Batches /\ o[2] \in Names /\ o = <<o[1], o[2]>>
BY DEF Ops

\* The placeholder of an operation is none of the files that exist at first.
LEMMA Distinct == Ops \cap Paths = {} /\ Occupied \subseteq Inodes /\ Ops \subseteq Inodes
BY DEF Ops, Paths, Inodes

\* What metadata() may tell of an object.
LEMMA FollowedIs ==
    /\ Types = {"file", "fileLink", "directory", "directoryLink", "special"}
    /\ \A t \in Types : /\ Followed[t] \in {"file", "directory", "special"}
                        /\ Followed[t] = "special" <=> t = "special"
    /\ {"file", "directory", "special"} \subseteq Types
BY DEF Types, Followed

LEMMA InitInv == Init => IndInv
<1> SUFFICES ASSUME Init PROVE IndInv
  OBVIOUS
<1> USE DEF Init
<1>1. TypeOK
  <2>1. type \in [Inodes -> Types] /\ content \in [Inodes -> Contents]
    BY DEF Contents
  <2>2. disk \in [Paths -> Inodes \cup {None}]
    BY DEF Inodes
  <2>3. /\ stage \in [Ops -> Stages] /\ made \in [Ops -> {"no", "yes", "failed"}]
        /\ opened \in [Ops -> {"no", "yes", "failed"}]
    BY DEF Stages
  <2> QED BY <2>1, <2>2, <2>3 DEF TypeOK
<1>2. \A b \in Batches : BatchOK(b)
  BY DEF BatchOK
<1>3. \A o \in Ops : OpOK(o)
  BY Distinct DEF OpOK
<1>4. Kept
  <2>1. \A o \in Ops : ~Created(o)
    BY Distinct DEF Created
  <2>2. \A p \in Occupied : Listed(p)
    BY DEF Listed
  <2> QED BY <2>1, <2>2 DEF Kept
<1> QED BY <1>1, <1>2, <1>3, <1>4 DEF IndInv

-----------------------------------------------------------------------------
(* What an operation works on *)

LEMMA Places ==
    ASSUME IndInv, NEW o \in Ops, stage[o] # "idle"
    PROVE  /\ Src(o) \in Paths /\ Dst(o) \in Paths /\ o[1] \in Batches
           /\ button[o[1]] \in Buttons[dialog[o[1]]] /\ dialog[o[1]] # None
<1>1. o[1] \in Batches /\ o[2] \in Names
  BY OpParts
<1>2. button[o[1]] # None /\ BatchOK(o[1])
  BY <1>1 DEF IndInv, OpOK
<1>3. /\ from[o[1]] \in Dirs /\ button[o[1]] \in Buttons[dialog[o[1]]] /\ dialog[o[1]] # None
      /\ target[o[1]] \in IF dialog[o[1]] = "RenameDialog" THEN Names ELSE Dirs
  BY <1>2 DEF BatchOK
<1> QED BY <1>1, <1>3 DEF Src, Dst, Paths

\* Steps of an operation leave its submission as it was, and what was disturbed.
LEMMA Submissions ==
    ASSUME IndInv, UNCHANGED batch, deleted \subseteq deleted'
    PROVE  /\ \A b \in Batches : BatchOK(b)' /\ Moving(b)' = Moving(b)
           /\ \A o \in Ops : Src(o)' = Src(o) /\ Dst(o)' = Dst(o)
           /\ Disturbed => Disturbed'
BY OpParts DEF IndInv, batch, BatchOK, Moving, Src, Dst, Disturbed

\* A step of the operation o that takes no file away from another one.
LEMMA Conclude ==
    ASSUME IndInv, TypeOK', NEW o \in Ops, UNCHANGED batch, deleted \subseteq deleted',
           \A q \in Ops \ {o} : /\ stage'[q] = stage[q] /\ made'[q] = made[q] /\ opened'[q] = opened[q]
                                /\ src'[q] = src[q] /\ content'[q] = content[q],
           \A i \in Occupied \cup {q \in Ops : Created(q)} :
               Listed(i) => Listed(i)' \/ i \in deleted' \/ Disturbed',
           \A q \in Ops \ {o} : stage[q] = "placed" /\ disk[Dst(q)] = q => disk'[Dst(q)] = q \/ Disturbed',
           OpOK(o)', Created(o)' => Created(o) \/ Listed(o)'
    PROVE  IndInv'
<1>1. \A b \in Batches : BatchOK(b)'
  BY Submissions
<1>2. ASSUME NEW q \in Ops \ {o} PROVE OpOK(q)'
  <2>1. Dst(q)' = Dst(q) /\ Moving(q[1])' = Moving(q[1]) /\ (Disturbed => Disturbed')
    BY Submissions, OpParts
  <2>2. OpOK(q)
    BY DEF IndInv
  <2>3. stage'[q] = "placed" => disk'[Dst(q)] = q \/ Disturbed'
    BY <2>1, <2>2 DEF OpOK
  <2>4. button' = button
    BY DEF batch
  <2> QED BY <2>1, <2>2, <2>3, <2>4 DEF OpOK
<1>3. Kept'
  <2>1. \A q \in Ops \ {o} : Created(q)' = Created(q)
    BY DEF Created
  <2>2. ASSUME NEW i \in Occupied \cup {q \in Ops : Created(q)}
        PROVE  Listed(i)' \/ i \in deleted' \/ Disturbed'
    <3>1. Listed(i) \/ i \in deleted \/ Disturbed
      BY DEF IndInv, Kept
    <3> QED BY <3>1, Submissions
  <2>3. \A q \in Ops : Created(q)' => Created(q) \/ Listed(q)'
    BY <2>1
  <2> QED BY <2>2, <2>3 DEF Kept
<1> QED BY <1>1, <1>2, <1>3 DEF IndInv

-----------------------------------------------------------------------------
(* The steps of an operation *)

\* Steps that leave the files as they are.
LEMMA LookInv ==
    ASSUME IndInv, NEW o \in Ops,
           Exists(o) \/ RenameFails(o) \/ Stat(o) \/ JoinOpen(o) \/ Joined(o)
    PROVE  IndInv'
<1> USE DEF IndInv
<1>1. /\ UNCHANGED fs /\ UNCHANGED batch /\ UNCHANGED message
      /\ stage[o] \in {"asking", "placed", "cp", "joining"}
  BY DEF Exists, RenameFails, Stat, JoinOpen, Joined, Go
<1>2. /\ stage' \in [Ops -> Stages] /\ \A q \in Ops \ {o} : stage'[q] = stage[q]
      /\ made' \in [Ops -> {"no", "yes", "failed"}] /\ \A q \in Ops \ {o} : made'[q] = made[q]
      /\ opened' \in [Ops -> {"no", "yes", "failed"}] /\ \A q \in Ops \ {o} : opened'[q] = opened[q]
      /\ src' \in [Ops -> Inodes \cup {None}] /\ \A q \in Ops \ {o} : src'[q] = src[q]
  <2>1. Src(o) \in Paths
    BY <1>1, Places
  <2>2. disk[Src(o)] \in Inodes \cup {None}
    BY <2>1 DEF TypeOK
  <2>3. CASE Exists(o) \/ RenameFails(o)
    BY <2>3 DEF Exists, RenameFails, Go, join, TypeOK, Stages
  <2>6. CASE Stat(o)
    BY <2>2, <2>6 DEF Stat, Go, TypeOK, Stages
  <2>4. CASE JoinOpen(o)
    BY <2>2, <2>4 DEF JoinOpen, TypeOK
  <2>5. CASE Joined(o)
    BY <2>5 DEF Joined, Go, TypeOK, Stages
  <2> QED BY <2>3, <2>4, <2>5, <2>6
<1>3. TypeOK'
  BY <1>1, <1>2 DEF TypeOK, fs, batch
<1>4. OpOK(o)' /\ (Created(o)' => Created(o))
  <2>1. OpOK(o) /\ stage[o] \in Stages
    BY DEF TypeOK
  <2>2. Moving(o[1])' = Moving(o[1]) /\ button' = button /\ content' = content
    BY <1>1 DEF Moving, batch, fs
  <2>3. CASE Exists(o)
    BY <2>1, <2>2, <2>3 DEF Exists, Go, join, OpOK, Created, TypeOK
  <2>4. CASE RenameFails(o)
    BY <2>1, <2>2, <2>4 DEF RenameFails, Go, join, OpOK, Created, TypeOK
  <2>5. CASE Stat(o)
    BY <2>1, <2>2, <2>5 DEF Stat, Go, OpOK, Created, TypeOK
  <2>6. CASE JoinOpen(o)
    BY <2>1, <2>2, <2>6 DEF JoinOpen, OpOK, Created, TypeOK
  <2>7. CASE Joined(o)
    BY <2>1, <2>2, <2>7 DEF Joined, Go, OpOK, Created, TypeOK
  <2> QED BY <2>3, <2>4, <2>5, <2>6, <2>7
<1>5. \A i : Listed(i)' = Listed(i)
  BY <1>1 DEF Listed, fs
<1> QED BY <1>1, <1>2, <1>3, <1>4, <1>5, Conclude DEF fs

\* A new file takes a name that is free.
LEMMA NewName ==
    ASSUME IndInv, NEW o \in Ops, stage[o] # "idle", disk[Dst(o)] = None, NEW t \in Types, CreateNew(o, t)
    PROVE  /\ disk' \in [Paths -> Inodes \cup {None}] /\ type' \in [Inodes -> Types] /\ UNCHANGED deleted
           /\ Listed(o)' /\ disk'[Dst(o)] = o
           /\ \A i \in Inodes : Listed(i) => Listed(i)'
           /\ \A q \in Ops \ {o} : stage[q] = "placed" /\ disk[Dst(q)] = q => disk'[Dst(q)] = q
<1> USE DEF IndInv, TypeOK
<1>1. Dst(o) \in Paths /\ o \in Inodes
  BY Places, Distinct
<1>2. disk' = [disk EXCEPT ![Dst(o)] = o] /\ type' = [type EXCEPT ![o] = t] /\ UNCHANGED deleted
  BY DEF CreateNew
<1>3. disk' \in [Paths -> Inodes \cup {None}] /\ type' \in [Inodes -> Types] /\ disk'[Dst(o)] = o
  BY <1>1, <1>2
<1>4. Listed(o)'
  BY <1>1, <1>3 DEF Listed
<1>5. ASSUME NEW i \in Inodes, Listed(i) PROVE Listed(i)'
  <2>1. PICK p \in Paths : disk[p] = i
    BY <1>5 DEF Listed
  <2>2. p # Dst(o)
    BY <2>1
  <2>3. disk'[p] = i
    BY <1>2, <2>1, <2>2
  <2> QED BY <2>3 DEF Listed
<1>6. ASSUME NEW q \in Ops \ {o}, stage[q] = "placed", disk[Dst(q)] = q PROVE disk'[Dst(q)] = q
  <2>1. Dst(q) \in Paths
    BY <1>6, Places
  <2>2. Dst(q) # Dst(o)
    BY <1>6, Distinct
  <2> QED BY <1>2, <1>6, <2>1, <2>2
<1> QED BY <1>2, <1>3, <1>4, <1>5, <1>6

\* Steps that find the name of the destination in use.
LEMMA TakenInv ==
    ASSUME IndInv, NEW o \in Ops, stage[o] # "idle",
           UNCHANGED <<fs, opened, src>>, UNCHANGED batch, UNCHANGED message,
           \/ UNCHANGED made /\ \E s \in {"ok", "error"} : stage' = [stage EXCEPT ![o] = s]
           \/ UNCHANGED stage /\ stage[o] = "joining" /\ made' = [made EXCEPT ![o] = "failed"],
           made[o] = "no", UNCHANGED made => opened[o] = "no"
    PROVE  IndInv'
<1> USE DEF IndInv
<1>1. TypeOK'
  BY DEF TypeOK, fs, batch, Stages
<1>2. OpOK(o)' /\ (Created(o)' => Created(o))
  <2>1. OpOK(o) /\ content' = content /\ button' = button /\ Moving(o[1])' = Moving(o[1])
    BY DEF fs, batch, Moving
  <2> QED BY <2>1 DEF OpOK, Created, TypeOK
<1>3. \A i : Listed(i)' = Listed(i)
  BY DEF Listed, fs
<1> QED BY <1>1, <1>2, <1>3, Conclude DEF fs, TypeOK

\* Steps that create the destination.
LEMMA CreateInv ==
    ASSUME IndInv, NEW o \in Ops,
           Place(o) \/ JoinCreate(o) \/ WriteFile(o) \/ MakeDir(o) \/ CopyDir(o)
    PROVE  IndInv'
<1> USE DEF IndInv
<1>1. /\ UNCHANGED batch /\ UNCHANGED message /\ UNCHANGED opened
      /\ stage[o] \in {"rename", "joining", "writeFile", "mkdir", "directory"}
      /\ stage[o] = "joining" => made[o] = "no" /\ JoinCreate(o)
  BY DEF Place, JoinCreate, WriteFile, MakeDir, CopyDir, Go, join
<1>2. /\ OpOK(o) /\ made[o] = "no" /\ content[o] = "empty" /\ o[1] \in Batches
      /\ Src(o) \in Paths /\ Dst(o) \in Paths /\ (stage[o] # "joining" => opened[o] = "no")
      /\ disk[Src(o)] \in Inodes \cup {None}
  BY <1>1, Places DEF OpOK, TypeOK
<1>3. CASE disk[Dst(o)] # None
  <2>1. CASE CopyDir(o)
    <3>1. /\ UNCHANGED fs /\ stage' = [stage EXCEPT ![o] = "error"] /\ UNCHANGED <<made, opened>>
          /\ src' = [src EXCEPT ![o] = disk[Src(o)]] /\ stage[o] = "directory"
      BY <1>3, <2>1 DEF CopyDir, Go
    <3>2. TypeOK'
      BY <1>1, <1>2, <3>1 DEF TypeOK, fs, batch, Stages
    <3>3. OpOK(o)' /\ (Created(o)' => Created(o))
      <4>1. button' = button /\ content' = content
        BY <1>1, <3>1 DEF fs, batch
      <4> QED BY <1>2, <3>1, <4>1 DEF OpOK, Created, TypeOK
    <3>4. \A i : Listed(i)' = Listed(i)
      BY <3>1 DEF Listed, fs
    <3> QED BY <1>1, <3>1, <3>2, <3>3, <3>4, Conclude DEF fs, TypeOK
  <2>2. CASE ~CopyDir(o)
    <3>1. /\ UNCHANGED <<fs, opened, src>>
          /\ \/ UNCHANGED made /\ \E s \in {"ok", "error"} : stage' = [stage EXCEPT ![o] = s]
             \/ UNCHANGED stage /\ stage[o] = "joining" /\ made' = [made EXCEPT ![o] = "failed"]
      BY <1>3, <2>2 DEF Place, JoinCreate, WriteFile, MakeDir, Go, join, fs
    <3>2. UNCHANGED made => opened[o] = "no"
      BY <1>1, <1>2, <1>3, <2>2 DEF JoinCreate, TypeOK
    <3> QED BY <1>1, <1>2, <3>1, <3>2, TakenInv
  <2> QED BY <2>1, <2>2
<1>4. CASE disk[Dst(o)] = None
  <2>1. PICK t \in Types : CreateNew(o, t)
    BY <1>4, FollowedIs DEF Place, JoinCreate, WriteFile, MakeDir, CopyDir
  <2>2. /\ disk' \in [Paths -> Inodes \cup {None}] /\ type' \in [Inodes -> Types] /\ UNCHANGED deleted
        /\ Listed(o)' /\ disk'[Dst(o)] = o
        /\ \A i \in Inodes : Listed(i) => Listed(i)'
        /\ \A q \in Ops \ {o} : stage[q] = "placed" /\ disk[Dst(q)] = q => disk'[Dst(q)] = q
    BY <1>1, <1>4, <2>1, NewName
  <2>3. o \in Inodes
    BY Distinct
  <2>4. /\ stage' \in [Ops -> Stages] /\ \A q \in Ops \ {o} : stage'[q] = stage[q]
        /\ made' \in [Ops -> {"no", "yes", "failed"}] /\ \A q \in Ops \ {o} : made'[q] = made[q]
        /\ opened' \in [Ops -> {"no", "yes", "failed"}] /\ \A q \in Ops \ {o} : opened'[q] = opened[q]
        /\ src' \in [Ops -> Inodes \cup {None}] /\ \A q \in Ops \ {o} : src'[q] = src[q]
        /\ content' \in [Inodes -> Contents] /\ \A q \in Ops \ {o} : content'[q] = content[q]
        /\ OpOK(o)'
    <3>1. Dst(o)' = Dst(o) /\ button' = button /\ Moving(o[1])' = Moving(o[1])
      BY <1>1, <1>2, Submissions, <2>2 DEF batch
    <3>2. CASE Place(o)
      BY <1>2, <1>4, <2>2, <3>1, <3>2 DEF Place, Go, join, OpOK, TypeOK, Stages
    <3>3. CASE JoinCreate(o)
      BY <1>2, <1>4, <2>2, <3>1, <3>3 DEF JoinCreate, OpOK, TypeOK
    <3>4. CASE WriteFile(o)
      BY <1>2, <1>4, <2>2, <3>1, <3>4 DEF WriteFile, Go, join, OpOK, TypeOK, Stages
    <3>5. CASE MakeDir(o)
      <4>1. /\ stage' = [stage EXCEPT ![o] = "ok"] /\ content' = [content EXCEPT ![o] = "whole"]
            /\ UNCHANGED <<made, opened, src>> /\ stage[o] = "mkdir"
        BY <1>4, <3>5 DEF MakeDir, Go, join
      <4> QED BY <1>2, <2>2, <2>3, <3>1, <4>1 DEF OpOK, TypeOK, Stages, Contents
    <3>6. CASE CopyDir(o)
      <4>1. /\ src' = [src EXCEPT ![o] = disk[Src(o)]] /\ UNCHANGED <<made, opened>>
            /\ \E s \in {"ok", "error"} : stage' = [stage EXCEPT ![o] = s]
            /\ \E c \in Contents : content' = [content EXCEPT ![o] = c]
        BY <1>2, <1>4, <3>6 DEF CopyDir, Go, TypeOK, Contents, Pruned
      <4> QED BY <1>1, <1>2, <2>2, <2>3, <3>1, <3>6, <4>1 DEF CopyDir, OpOK, TypeOK, Stages
    <3> QED BY <3>2, <3>3, <3>4, <3>5, <3>6
  <2>5. TypeOK'
    BY <1>1, <2>2, <2>4 DEF TypeOK, batch
  <2>6. \A i \in Occupied \cup {q \in Ops : Created(q)} : Listed(i) => Listed(i)'
    BY <2>2, Distinct
  <2> QED BY <1>1, <2>2, <2>4, <2>5, <2>6, Conclude
<1> QED BY <1>3, <1>4

\* Steps that write the content of a file that the operation has created.
LEMMA WriteInv ==
    ASSUME IndInv, NEW o \in Ops, Copy(o) \/ Write(o)
    PROVE  IndInv'
<1> USE DEF IndInv
<1>1. /\ UNCHANGED <<disk, type, deleted, made, opened, src>> /\ UNCHANGED batch /\ UNCHANGED message
      /\ stage[o] \in {"copying", "writing"} /\ Created(o) /\ OpOK(o) /\ o \in Inodes
  BY Distinct DEF Copy, Write, Go, join, Created
<1>2. /\ content' \in [Inodes -> Contents] /\ stage' \in [Ops -> Stages]
      /\ \A q \in Ops \ {o} : stage'[q] = stage[q] /\ content'[q] = content[q]
      /\ stage'[o] \in {"ok", "error"} \/ (stage'[o] = stage[o] /\ stage[o] = "copying")
  <2>1. CASE Copy(o)
    <3>1. src[o] \in Inodes
      BY <1>1, <2>1 DEF Copy, OpOK, TypeOK
    <3>2. \/ stage' = [stage EXCEPT ![o] = "ok"] /\ content' = [content EXCEPT ![o] = content[src[o]]]
          \/ UNCHANGED stage /\ content' = [content EXCEPT ![o] = "part"] /\ stage[o] = "copying"
          \/ stage' = [stage EXCEPT ![o] = "error"] /\ UNCHANGED content
      BY <2>1 DEF Copy, Go
    <3>3. /\ content' \in [Inodes -> Contents]
          /\ \A q \in Inodes \ {o} : content'[q] = content[q]
      BY <1>1, <3>1, <3>2 DEF TypeOK, Contents
    <3> QED BY <1>1, <3>2, <3>3, Distinct DEF TypeOK, Stages
  <2>2. CASE Write(o)
    <3>1. \/ stage' = [stage EXCEPT ![o] = "ok"] /\ content' = [content EXCEPT ![o] = "whole"]
          \/ stage' = [stage EXCEPT ![o] = "error"] /\ content' = [content EXCEPT ![o] = "part"]
      BY <2>2 DEF Write, Go
    <3>2. /\ content' \in [Inodes -> Contents]
          /\ \A q \in Inodes \ {o} : content'[q] = content[q]
      BY <1>1, <3>1 DEF TypeOK, Contents
    <3> QED BY <1>1, <3>1, <3>2, Distinct DEF TypeOK, Stages
  <2> QED BY <2>1, <2>2
<1>3. TypeOK'
  BY <1>1, <1>2 DEF TypeOK, batch
<1>4. OpOK(o)'
  <2>1. button' = button /\ Moving(o[1])' = Moving(o[1])
    BY <1>1 DEF batch, Moving
  <2> QED BY <1>1, <1>2, <2>1 DEF OpOK
<1>5. \A i : Listed(i)' = Listed(i)
  BY <1>1 DEF Listed
<1> QED BY <1>1, <1>2, <1>3, <1>4, <1>5, Conclude

\* Somebody's file is deleted; if it is the placeholder of a move, the move is disturbed.
LEMMA DeleteInv ==
    ASSUME IndInv, NEW o \in Ops, Unlink(o) \/ Rm(o) \/ Trash(o)
    PROVE  IndInv'
<1> USE DEF IndInv
<1>1. /\ UNCHANGED <<type, content, made, opened, src>> /\ UNCHANGED batch /\ UNCHANGED message
      /\ stage[o] \in {"unlink", "rm", "trash"} /\ OpOK(o)
      /\ \E s \in {"ok", "error"} : stage' = [stage EXCEPT ![o] = s]
      /\ \/ UNCHANGED <<disk, deleted>>
         \/ /\ disk[Src(o)] # None
            /\ disk' = [disk EXCEPT ![Src(o)] = None] /\ deleted' = deleted \cup {disk[Src(o)]}
  BY DEF Unlink, Rm, Trash, Unlinked, Go, fs, join
<1>2. Src(o) \in Paths
  BY <1>1, Places
<1>3. TypeOK'
  BY <1>1, <1>2 DEF TypeOK, batch, Stages
<1>4. OpOK(o)' /\ (Created(o)' => Created(o))
  <2>1. button' = button
    BY <1>1 DEF batch
  <2> QED BY <1>1, <2>1 DEF OpOK, Created, TypeOK
<1>5. ASSUME NEW i, Listed(i) PROVE Listed(i)' \/ i \in deleted'
  <2>1. PICK p \in Paths : disk[p] = i
    BY <1>5 DEF Listed
  <2>2. disk'[p] = i \/ i \in deleted'
    BY <1>1, <1>2, <2>1 DEF TypeOK
  <2> QED BY <2>1, <2>2 DEF Listed
<1>6. ASSUME NEW q \in Ops \ {o}, stage[q] = "placed", disk[Dst(q)] = q
      PROVE  disk'[Dst(q)] = q \/ Disturbed'
  <2>1. Dst(q) \in Paths /\ q[1] \in Batches /\ Moving(q[1])
    BY <1>6, Places DEF OpOK
  <2>2. Moving(q[1])'
    BY <1>1, <2>1 DEF Moving, batch
  <2>3. disk'[Dst(q)] = q \/ q \in deleted'
    BY <1>1, <1>2, <1>6, <2>1 DEF TypeOK
  <2> QED BY <2>2, <2>3 DEF Disturbed
<1> QED BY <1>1, <1>3, <1>4, <1>5, <1>6, Conclude DEF TypeOK

\* rename(2) replaces what has the destination's name: the empty file of this
\* very operation, unless a placeholder was taken from under its move.
LEMMA RenameInv == ASSUME IndInv, NEW o \in Ops, Rename(o) PROVE IndInv'
<1> USE DEF IndInv
<1>1. /\ UNCHANGED <<type, content, made, opened, src>> /\ UNCHANGED batch /\ UNCHANGED message
      /\ stage[o] = "placed" /\ stage' = [stage EXCEPT ![o] = "ok"] /\ OpOK(o)
      /\ disk[Src(o)] # None /\ Src(o) \in Paths /\ Dst(o) \in Paths
      /\ disk[Dst(o)] = o \/ Disturbed
  BY Places DEF Rename, Go, join, OpOK
<1>2. CASE UNCHANGED <<disk, deleted>>
  <2>1. TypeOK'
    BY <1>1, <1>2 DEF TypeOK, batch, Stages
  <2>2. OpOK(o)' /\ (Created(o)' => Created(o))
    <3>1. button' = button
      BY <1>1 DEF batch
    <3> QED BY <1>1, <3>1 DEF OpOK, Created, TypeOK
  <2>3. \A i : Listed(i)' = Listed(i)
    BY <1>2 DEF Listed
  <2> QED BY <1>1, <1>2, <2>1, <2>2, <2>3, Conclude DEF TypeOK
<1>3. CASE /\ Src(o) # Dst(o) /\ disk' = [disk EXCEPT ![Src(o)] = None, ![Dst(o)] = disk[Src(o)]]
           /\ deleted' = deleted \cup {p \in Ops : p = disk[Src(o)] /\ Moving(p[1])}
  <2>1. /\ disk' \in [Paths -> Inodes \cup {None}] /\ deleted' \subseteq Inodes
        /\ disk'[Src(o)] = None /\ disk'[Dst(o)] = disk[Src(o)]
        /\ \A p \in Paths \ {Src(o), Dst(o)} : disk'[p] = disk[p]
    BY <1>1, <1>3, Distinct DEF TypeOK
  <2>2. TypeOK'
    BY <1>1, <2>1 DEF TypeOK, batch, Stages
  <2>3. OpOK(o)' /\ (Created(o)' => Created(o))
    <3>1. button' = button
      BY <1>1 DEF batch
    <3> QED BY <1>1, <3>1 DEF OpOK, Created, TypeOK
  <2>4. Disturbed => Disturbed'
    BY <1>1, <1>3, Submissions
  <2>5. ASSUME NEW i \in Occupied \cup {q \in Ops : Created(q)}, Listed(i)
        PROVE  Listed(i)' \/ Disturbed'
    <3>1. PICK p \in Paths : disk[p] = i
      BY <2>5 DEF Listed
    <3>2. CASE p = Dst(o)
      <4>1. i # o
        <5>1. ~Created(o)
          BY <1>1 DEF Created, OpOK, TypeOK
        <5> QED BY <2>5, <5>1, Distinct
      <4> QED BY <1>1, <2>4, <3>1, <3>2, <4>1
    <3>3. CASE p = Src(o)
      BY <1>1, <2>1, <3>1, <3>3 DEF Listed
    <3>4. CASE p \notin {Src(o), Dst(o)}
      BY <2>1, <3>1, <3>4 DEF Listed
    <3> QED BY <3>2, <3>3, <3>4
  <2>6. ASSUME NEW q \in Ops \ {o}, stage[q] = "placed", disk[Dst(q)] = q
        PROVE  disk'[Dst(q)] = q \/ Disturbed'
    <3>1. Dst(q) \in Paths /\ q[1] \in Batches /\ Moving(q[1])
      BY <2>6, Places DEF OpOK
    <3>2. CASE Dst(q) = Src(o)
      <4>1. q \in deleted'
        BY <1>3, <2>6, <3>1, <3>2
      <4>2. Moving(q[1])'
        BY <1>1, <3>1 DEF Moving, batch
      <4> QED BY <4>1, <4>2 DEF Disturbed
    <3>3. CASE Dst(q) = Dst(o)
      BY <1>1, <2>4, <2>6, <3>3
    <3>4. CASE Dst(q) \notin {Src(o), Dst(o)}
      BY <2>1, <2>6, <3>1, <3>4
    <3> QED BY <3>2, <3>3, <3>4
  <2> QED BY <1>1, <1>3, <2>2, <2>3, <2>5, <2>6, Conclude DEF TypeOK
<1> QED BY <1>2, <1>3 DEF Rename

LEMMA OperateInv == ASSUME IndInv, NEW o \in Ops, Operate(o) PROVE IndInv'
BY LookInv, CreateInv, WriteInv, DeleteInv, RenameInv DEF Operate

-----------------------------------------------------------------------------
(* The steps of the dialogs *)

LEMMA ReportInv == ASSUME IndInv, NEW b \in Batches, Report(b) PROVE IndInv'
<1> USE DEF IndInv
<1>1. UNCHANGED fs /\ UNCHANGED batch /\ UNCHANGED join /\ UNCHANGED stage
  BY DEF Report
<1>2. TypeOK'
  BY <1>1 DEF Report, TypeOK, fs, batch, join
<1>3. \A c \in Batches : BatchOK(c)'
  BY <1>1, Submissions DEF fs
<1>4. \A o \in Ops : OpOK(o)'
  BY <1>1 DEF OpOK, Disturbed, Moving, Dst, fs, batch, join
<1>5. Kept'
  BY <1>1 DEF Kept, Created, Listed, Disturbed, Moving, fs, batch, join
<1> QED BY <1>2, <1>3, <1>4, <1>5

\* A dialog that has asked for nothing yet has no operation under way.
LEMMA OpenInv ==
    ASSUME IndInv, NEW b \in Batches, NEW dlg \in Dialogs, NEW d \in Dirs, NEW chosen \in SUBSET Names,
           Open(b, dlg, d, chosen)
    PROVE  IndInv'
<1> USE DEF IndInv
<1>1. /\ UNCHANGED fs /\ UNCHANGED join /\ UNCHANGED <<button, target, stage, message>> /\ dialog[b] = None
      /\ dialog' = [dialog EXCEPT ![b] = dlg] /\ objects' = [objects EXCEPT ![b] = chosen]
      /\ from' = [from EXCEPT ![b] = d] /\ button[b] = None
  BY DEF Open, IsNext, BatchOK
<1>2. seen' \in [Ops -> Types \cup {None}]
  <2>1. \A n \in chosen : <<d, n>> \in Paths
    BY DEF Paths
  <2>2. \A o \in Ops : seen'[o] = seen[o] \/ (\E n \in chosen : disk[<<d, n>>] # None /\ seen'[o] = Followed[type[disk[<<d, n>>]]])
    BY DEF Open
  <2>3. \A n \in chosen : disk[<<d, n>>] # None => Followed[type[disk[<<d, n>>]]] \in Types
    BY <2>1, FollowedIs DEF TypeOK
  <2>4. seen' = [o \in Ops |-> seen'[o]]
    BY DEF Open
  <2>5. \A o \in Ops : seen'[o] \in Types \cup {None}
    BY <2>2, <2>3 DEF TypeOK
  <2> QED BY <2>4, <2>5
<1>3. TypeOK'
  BY <1>1, <1>2 DEF TypeOK, fs, join
<1>4. \A c \in Batches : BatchOK(c)'
  BY <1>1 DEF BatchOK, TypeOK
<1>5. \A i : Listed(i)' = Listed(i) /\ Disturbed' = Disturbed
  BY <1>1 DEF Listed, Disturbed, Moving, fs
<1>6. \A o \in Ops : OpOK(o)'
  <2>1. SUFFICES ASSUME NEW o \in Ops PROVE OpOK(o)'
    OBVIOUS
  <2>2. stage[o] # "idle" => o[1] \in Batches /\ o[1] # b
    BY <1>1, OpParts DEF OpOK
  <2>3. stage[o] # "idle" => Dst(o)' = Dst(o)
    BY <1>1, <2>2 DEF Dst, TypeOK
  <2> QED BY <1>1, <1>5, <2>3 DEF OpOK, Moving, fs, join
<1>7. Kept'
  BY <1>1, <1>5 DEF Kept, Created, fs, join
<1> QED BY <1>3, <1>4, <1>6, <1>7

LEMMA DialogsAre ==
    /\ Dialogs = {"CopyToDialog", "FileMoveDialog", "RenameDialog", "DeleteDialog", "NewFileDialog", "NewDirectoryDialog"}
    /\ Buttons["CopyToDialog"] = {"copy", "move"} /\ Buttons["FileMoveDialog"] = {"copy", "move"}
    /\ Buttons["RenameDialog"] = {"rename", "overwrite"}
    /\ Buttons["DeleteDialog"] = {"delete forever", "trash"}
    /\ Buttons["NewFileDialog"] = {"new"} /\ Buttons["NewDirectoryDialog"] = {"new"}
BY DEF Dialogs, Buttons

LEMMA NoneMoves == \A b : Moving(b) => button[b] # None
<1>1. \A dlg \in Dialogs : Buttons[dlg] \subseteq Presses
  BY DEF Presses
<1>2. {"move", "rename", "overwrite"} \subseteq Presses
  BY <1>1, DialogsAre
<1> QED BY <1>2 DEF Moving

\* Only the buttons that move ask for a rename.
LEMMA Requests ==
    ASSUME NEW dlg \in Dialogs, NEW press \in Buttons[dlg], NEW o
    PROVE  /\ Request(dlg, o, press) \in {"error", "cp", "asking", "rename", "unlink", "rm", "trash", "writeFile", "mkdir"}
           /\ Request(dlg, o, press) \in {"asking", "rename"} => press \in {"move", "rename", "overwrite"}
           /\ Request(dlg, o, press) = "cp" => press = "copy"
           /\ Request(dlg, o, press) \in {"unlink", "rm", "trash", "writeFile", "mkdir"} =>
                press \notin {"copy", "move", "rename", "overwrite"}
<1> USE DialogsAre DEF Request, toCopy, toMove
<1>1. CASE dlg = "CopyToDialog"
  BY <1>1
<1>2. CASE dlg = "FileMoveDialog"
  BY <1>2 DEF FileMoveDialog
<1>3. CASE dlg = "RenameDialog"
  BY <1>3 DEF RenameDialog
<1>4. CASE dlg = "DeleteDialog"
  BY <1>4 DEF DeleteDialog
<1>5. CASE dlg \in {"NewFileDialog", "NewDirectoryDialog"}
  BY <1>5 DEF NewFileDialog, NewDirectoryDialog
<1> QED BY <1>1, <1>2, <1>3, <1>4, <1>5

\* The batch k is submitted, for what the dialog of b holds.
LEMMA PressInv ==
    ASSUME IndInv, NEW b \in Batches, NEW k \in Batches, NEW press, NEW t,
           dialog[b] # None, button[k] = None, Press(b, k, press, t),
           dialog' = [dialog EXCEPT ![k] = dialog[b]], from' = [from EXCEPT ![k] = from[b]],
           objects' = [objects EXCEPT ![k] = objects[b]], seen' \in [Ops -> Types \cup {None}]
    PROVE  IndInv'
<1> USE DEF IndInv
<1>1. /\ dialog[b] \in Dialogs /\ press \in Buttons[dialog[b]] /\ from[b] \in Dirs
      /\ t \in IF dialog[b] = "RenameDialog" THEN Names ELSE Dirs
      /\ press \in Presses /\ press # None
  <2>1. dialog[b] \in Dialogs /\ press \in Buttons[dialog[b]] /\ from[b] \in Dirs
    BY DEF Press, TypeOK, BatchOK
  <2>2. t \in IF dialog[b] = "RenameDialog" THEN Names ELSE Dirs
    BY <2>1, DialogsAre DEF Press
  <2>3. press \in Presses /\ press # None
    BY <2>1 DEF Presses
  <2> QED BY <2>1, <2>2, <2>3
<1>2. /\ UNCHANGED fs /\ UNCHANGED join /\ UNCHANGED message
      /\ button' = [button EXCEPT ![k] = press] /\ target' = [target EXCEPT ![k] = t]
  BY DEF Press
<1>3. /\ stage' \in [Ops -> Stages]
      /\ \A o \in Ops : \/ stage'[o] = stage[o]
                        \/ /\ o[1] = k
                           /\ stage'[o] \in {"error", "cp", "asking", "rename", "unlink", "rm", "trash", "writeFile", "mkdir"}
                           /\ stage'[o] \in {"asking", "rename"} => press \in {"move", "rename", "overwrite"}
  <2>1. stage' = [o \in Ops |-> IF o[1] = k /\ o[2] \in objects[b]
                               THEN Request(dialog[b], <<b, o[2]>>, press) ELSE stage[o]]
    BY DEF Press
  <2>2. ASSUME NEW o \in Ops
        PROVE  \/ stage'[o] = stage[o]
               \/ /\ o[1] = k
                  /\ stage'[o] \in {"error", "cp", "asking", "rename", "unlink", "rm", "trash", "writeFile", "mkdir"}
                  /\ stage'[o] \in {"asking", "rename"} => press \in {"move", "rename", "overwrite"}
    <3>1. CASE o[1] = k /\ o[2] \in objects[b]
      <4>1. stage'[o] = Request(dialog[b], <<b, o[2]>>, press)
        BY <2>1, <3>1
      <4> QED BY <1>1, <3>1, <4>1, Requests
    <3>2. CASE ~(o[1] = k /\ o[2] \in objects[b])
      BY <2>1, <3>2
    <3> QED BY <3>1, <3>2
  <2>3. \A o \in Ops : stage'[o] \in Stages
    BY <2>2 DEF TypeOK, Stages
  <2> QED BY <2>1, <2>2, <2>3
<1>4. TypeOK'
  <2>1. dialog' \in [Batches -> Dialogs \cup {None}] /\ button' \in [Batches -> Presses \cup {None}]
    BY <1>1, <1>2 DEF TypeOK
  <2>2. /\ objects' \in [Batches -> SUBSET Names] /\ from' \in [Batches -> Dirs \cup {None}]
        /\ target' \in [Batches -> Dirs \cup Names \cup {None}]
    BY <1>1, <1>2 DEF TypeOK
  <2> QED BY <1>2, <1>3, <2>1, <2>2 DEF TypeOK, fs, join
<1>5. \A c \in Batches : BatchOK(c)'
  <2>1. ASSUME NEW c \in Batches \ {k} PROVE BatchOK(c)'
    BY <1>2 DEF BatchOK, TypeOK
  <2>2. BatchOK(k)'
    BY <1>1, <1>2 DEF BatchOK, TypeOK
  <2> QED BY <2>1, <2>2
<1>6. \A o \in Ops : o[1] = k => stage[o] = "idle"
  BY DEF OpOK
<1>7. \A c \in Batches \ {k} : Moving(c)' = Moving(c)
  BY <1>2 DEF Moving, TypeOK
<1>8. Disturbed => Disturbed'
  <2>1. SUFFICES ASSUME NEW q \in deleted \cap Ops, Moving(q[1]) PROVE Disturbed'
    BY DEF Disturbed
  <2>2. q[1] # k
    BY <2>1, NoneMoves
  <2> QED BY <1>2, <1>7, <2>1, <2>2, OpParts DEF Disturbed, fs
<1>9. \A i : Listed(i)' = Listed(i)
  BY <1>2 DEF Listed, fs
<1>10. ASSUME NEW o \in Ops PROVE OpOK(o)'
  <2>1. o[1] \in Batches /\ OpOK(o)
    BY OpParts
  <2>2. CASE o[1] # k
    <3>1. stage'[o] = stage[o] /\ Dst(o)' = Dst(o) /\ Moving(o[1])' = Moving(o[1]) /\ button'[o[1]] = button[o[1]]
      BY <1>2, <1>3, <1>7, <2>1, <2>2 DEF Dst, TypeOK
    <3> QED BY <1>2, <1>8, <2>1, <3>1 DEF OpOK, fs, join
  <2>3. CASE o[1] = k
    <3>1. made[o] = "no" /\ opened[o] = "no" /\ content[o] = "empty" /\ stage[o] = "idle"
      BY <1>6, <2>1, <2>3 DEF OpOK, TypeOK
    <3>2. button'[o[1]] = press
      BY <1>2, <2>3 DEF TypeOK
    <3>3. /\ stage'[o] \in {"idle", "error", "cp", "asking", "rename", "unlink", "rm", "trash", "writeFile", "mkdir"}
          /\ stage'[o] \in {"asking", "rename"} => press \in {"move", "rename", "overwrite"}
      BY <1>3, <3>1
    <3> QED BY <1>1, <1>2, <3>1, <3>2, <3>3 DEF OpOK, Moving, fs, join
  <2> QED BY <2>2, <2>3
<1>11. Kept'
  <2>1. \A o \in Ops : Created(o)' => Created(o)
    BY <1>2, <1>3 DEF Created, fs, join
  <2> QED BY <1>2, <1>8, <1>9, <2>1 DEF Kept, fs
<1> QED BY <1>4, <1>5, <1>10, <1>11

LEMMA SubmitInv ==
    ASSUME IndInv, NEW b \in Batches, NEW press, NEW t, Submit(b, press, t)
    PROVE  IndInv'
<1>1. /\ dialog' = [dialog EXCEPT ![b] = dialog[b]] /\ from' = [from EXCEPT ![b] = from[b]]
      /\ objects' = [objects EXCEPT ![b] = objects[b]] /\ seen' \in [Ops -> Types \cup {None}]
  BY DEF Submit, IndInv, TypeOK
<1> QED BY <1>1, PressInv DEF Submit

LEMMA AgainInv ==
    ASSUME IndInv, NEW b \in Batches, NEW c \in Batches, NEW press, NEW t, Again(b, c, press, t)
    PROVE  IndInv'
<1>1. dialog[b] # None /\ button[c] = None
  BY DEF Again, IsNext, IndInv, BatchOK
<1>2. seen' \in [Ops -> Types \cup {None}]
  <2>1. \A o \in Ops : <<b, o[2]>> \in Ops
    BY OpParts DEF Ops
  <2> QED BY <2>1 DEF Again, IndInv, TypeOK
<1> QED BY <1>1, <1>2, PressInv DEF Again

LEMMA StepInv == IndInv /\ [Next]_vars => IndInv'
<1> SUFFICES ASSUME IndInv, [Next]_vars PROVE IndInv'
  OBVIOUS
<1>1. CASE UNCHANGED vars
  BY <1>1 DEF IndInv, TypeOK, BatchOK, OpOK, Kept, Created, Listed, Disturbed, Moving, Dst, vars, fs, batch, join
<1>2. CASE Next
  BY <1>2, OpenInv, SubmitInv, AgainInv, ReportInv, OperateInv DEF Next
<1> QED BY <1>1, <1>2

THEOREM Invariance == Spec => []IndInv
BY InitInv, StepInv, PTL DEF Spec

\* Every variable keeps its type, and an operation its place among Stages
\* (fs_api.rs, CopyToDialog.tsx, DeleteDialog.tsx, InformationDialog.tsx).
THEOREM TypeCorrect == Spec => []TypeOK
<1>1. IndInv => TypeOK
  BY DEF IndInv
<1> QED BY Invariance, <1>1, PTL

\* No file is lost that nobody asked to be deleted, however many dialogs copy,
\* move, rename, create and delete beside each other, as long as no placeholder
\* of a move is taken from under it (fs_api.rs:100-110, 181-222).
THEOREM FilesAreKept == Spec => []NothingIsLost
<1>1. IndInv => NothingIsLost
  <2>1. \A o \in Ops : content[o] \in {"whole", "pruned"} => Created(o)
    BY DEF Created
  <2> QED BY <2>1 DEF IndInv, Kept, NothingIsLost
<1> QED BY Invariance, <1>1, PTL

-----------------------------------------------------------------------------
(* What is told of success *)

LEMMA InitTrue == Init => SucceedInv
BY Distinct DEF Init, SucceedInv, Asked, Fulfilled, Inodes

\* A step of the operation o that gives no other one its placeholder back.
LEMMA ConcludeTrue ==
    ASSUME IndInv, SucceedInv, NEW o \in Ops, UNCHANGED batch, deleted \subseteq deleted',
           \A i \in Inodes \ {o} : content'[i] = content[i] /\ type'[i] = type[i],
           \A q \in Ops \ {o} : stage'[q] = stage[q] /\ src'[q] = src[q],
           \A q \in Ops \ {o} : stage[q] = "ok" /\ disk'[Dst(q)] = q =>
               disk[Dst(q)] = q \/ Disturbed' \/ ~Moving(q[1]),
           Asked(o)', Fulfilled(o)'
    PROVE  SucceedInv'
<1>1. \A p \in Paths : content'[p] = "whole"
  BY Distinct DEF SucceedInv, Inodes
<1>2. ASSUME NEW q \in Ops \ {o} PROVE Asked(q)' /\ Fulfilled(q)'
  <2>1. /\ Dst(q)' = Dst(q) /\ Src(q)' = Src(q) /\ Moving(q[1])' = Moving(q[1]) /\ (Disturbed => Disturbed')
        /\ button' = button
    BY Submissions, OpParts DEF batch
  <2>2. content'[q] = content[q] /\ \A p \in Paths : type'[p] = type[p]
    BY Distinct DEF Inodes
  <2>3. Copied(q) => Copied(q)'
    BY <2>2 DEF Copied
  <2> QED BY <2>1, <2>3 DEF SucceedInv, Asked, Fulfilled
<1> QED BY <1>1, <1>2 DEF SucceedInv

\* All steps but those that rename or copy: no operation for a copy or a move ends well.
LEMMA OtherTrue ==
    ASSUME IndInv, SucceedInv, NEW o \in Ops, Operate(o), ~Rename(o), ~Stat(o), ~Copy(o), ~CopyDir(o)
    PROVE  SucceedInv'
<1> USE DEF IndInv, SucceedInv
<1>1. /\ UNCHANGED batch /\ deleted \subseteq deleted' /\ button' = button /\ Moving(o[1])' = Moving(o[1])
      /\ Asked(o) /\ Fulfilled(o) /\ OpOK(o)
  BY DEF Operate, Exists, Place, RenameFails, JoinCreate, JoinOpen, Joined, Unlink, Rm, Trash,
         Unlinked, WriteFile, Write, MakeDir, CreateNew, Go, fs, batch, Moving
<1>2. \A i \in Inodes \ {o} : content'[i] = content[i] /\ type'[i] = type[i]
  BY DEF Operate, Exists, Place, RenameFails, JoinCreate, JoinOpen, Joined, Unlink, Rm, Trash,
         Unlinked, WriteFile, Write, MakeDir, CreateNew, fs, TypeOK
<1>3. \A q \in Ops \ {o} : stage'[q] = stage[q] /\ src'[q] = src[q]
  BY DEF Operate, Exists, Place, RenameFails, JoinCreate, JoinOpen, Joined, Unlink, Rm, Trash,
         WriteFile, Write, MakeDir, Go, join, TypeOK
<1>4. ASSUME NEW q \in Ops \ {o}, stage[q] = "ok", disk'[Dst(q)] = q PROVE disk[Dst(q)] = q
  <2>1. Dst(q) \in Paths
    BY <1>4, Places
  <2>2. \/ disk' = disk
        \/ disk' = [disk EXCEPT ![Dst(o)] = o]
        \/ disk' = [disk EXCEPT ![Src(o)] = None]
    BY DEF Operate, Exists, Place, RenameFails, JoinCreate, JoinOpen, Joined, Unlink, Rm, Trash,
           Unlinked, WriteFile, Write, MakeDir, CreateNew, fs
  <2> QED BY <1>4, <2>1, <2>2, Distinct DEF TypeOK
<1>5. Asked(o)' /\ Fulfilled(o)'
  <2>1. CASE Exists(o) \/ Place(o) \/ RenameFails(o)
    BY <1>1, <2>1 DEF Exists, Place, RenameFails, Go, Asked, Fulfilled, TypeOK
  <2>2. CASE JoinCreate(o) \/ JoinOpen(o) \/ Joined(o)
    BY <1>1, <2>2 DEF JoinCreate, JoinOpen, Joined, Go, Asked, Fulfilled, TypeOK
  <2>3. CASE Unlink(o) \/ Rm(o) \/ Trash(o)
    BY <1>1, <2>3 DEF Unlink, Rm, Trash, Go, Asked, Fulfilled, TypeOK
  <2>4. CASE WriteFile(o) \/ Write(o) \/ MakeDir(o)
    BY <1>1, <2>4 DEF WriteFile, Write, MakeDir, Go, Asked, Fulfilled, TypeOK
  <2> QED BY <2>1, <2>2, <2>3, <2>4 DEF Operate
<1> QED BY <1>1, <1>2, <1>3, <1>4, <1>5, ConcludeTrue

\* What is neither a file nor a directory is passed over, and that is all right.
LEMMA StatTrue == ASSUME IndInv, SucceedInv, NEW o \in Ops, Stat(o) PROVE SucceedInv'
<1> USE DEF IndInv, SucceedInv
<1>1. /\ UNCHANGED fs /\ UNCHANGED batch /\ button' = button /\ Moving(o[1])' = Moving(o[1])
      /\ Asked(o) /\ OpOK(o) /\ stage[o] = "cp" /\ Src(o) \in Paths
      /\ src' = [src EXCEPT ![o] = disk[Src(o)]]
  BY Places DEF Stat, Go, batch, Moving
<1>2. button[o[1]] = "copy" /\ ~Moving(o[1]) /\ content[o] = "empty"
  BY <1>1 DEF Asked, OpOK, Moving
<1>3. /\ stage' \in [Ops -> Stages] /\ \A q \in Ops \ {o} : stage'[q] = stage[q] /\ src'[q] = src[q]
      /\ src'[o] = disk[Src(o)] /\ stage'[o] \in {"error", "joining", "directory", "ok"}
  BY <1>1 DEF Stat, Go, TypeOK, Stages
<1>4. stage'[o] = "ok" => disk[Src(o)] \in Inodes /\ type[disk[Src(o)]] = "special"
  <2>1. stage'[o] = "ok" => /\ disk[Src(o)] # None
                            /\ Followed[type[disk[Src(o)]]] \notin {"file", "directory"}
    BY <1>1 DEF Stat, Go, TypeOK
  <2>2. disk[Src(o)] # None => disk[Src(o)] \in Inodes /\ type[disk[Src(o)]] \in Types
    BY <1>1 DEF TypeOK
  <2> QED BY <2>1, <2>2, FollowedIs
<1>5. stage'[o] = "ok" => Copied(o)'
  BY <1>1, <1>2, <1>3, <1>4 DEF Copied, Inodes, fs
<1>6. Asked(o)' /\ Fulfilled(o)'
  BY <1>1, <1>2, <1>3, <1>5 DEF Asked, Fulfilled
<1> QED BY <1>1, <1>3, <1>6, ConcludeTrue DEF fs

\* A copy that ends well has the content of its source, which is whole unless
\* an operation has created it; but the copy of a tree may be pruned.
LEMMA CopyTrue ==
    ASSUME IndInv, SucceedInv, NEW o \in Ops, Copy(o) \/ CopyDir(o)
    PROVE  SucceedInv'
<1> USE DEF IndInv, SucceedInv
<1>1. /\ UNCHANGED batch /\ UNCHANGED deleted /\ button' = button /\ Moving(o[1])' = Moving(o[1])
      /\ Asked(o) /\ OpOK(o) /\ o \in Inodes /\ stage[o] \in {"copying", "directory"}
  BY Distinct DEF Copy, CopyDir, CreateNew, Go, fs, batch, Moving
<1>2. button[o[1]] = "copy" /\ ~Moving(o[1])
  BY <1>1 DEF Asked, Moving
<1>3. CASE Copy(o)
  <2>1. /\ UNCHANGED <<disk, src>> /\ src[o] \in Inodes
        /\ \/ content' = [content EXCEPT ![o] = content[src[o]]] /\ stage' = [stage EXCEPT ![o] = "ok"]
           \/ content' = [content EXCEPT ![o] = "part"] /\ UNCHANGED stage
           \/ UNCHANGED content /\ stage' = [stage EXCEPT ![o] = "error"]
    BY <1>1, <1>3 DEF Copy, Go, join, OpOK, TypeOK
  <2>2. src[o] \notin Ops => content[src[o]] = "whole"
    BY <2>1 DEF Inodes
  <2>3. Asked(o)' /\ Fulfilled(o)'
    <3>1. stage'[o] = "ok" => Copied(o)'
      BY <1>1, <2>1, <2>2 DEF Copied, Inodes, TypeOK
    <3> QED BY <1>1, <1>2, <1>3, <2>1, <3>1 DEF Copy, Asked, Fulfilled, TypeOK
  <2>4. \A i \in Inodes \ {o} : content'[i] = content[i] /\ type'[i] = type[i]
    BY <1>3, <2>1 DEF Copy, TypeOK
  <2> QED BY <1>1, <2>1, <2>3, <2>4, ConcludeTrue, Distinct DEF TypeOK
<1>4. CASE CopyDir(o)
  <2>1. /\ src' = [src EXCEPT ![o] = disk[Src(o)]] /\ Src(o) \in Paths
        /\ UNCHANGED disk \/ disk' = [disk EXCEPT ![Dst(o)] = o]
        /\ \/ /\ disk[Src(o)] # None
              /\ Followed[type[disk[Src(o)]]] = "directory"
              /\ content' = [content EXCEPT ![o] = content'[o]] /\ content'[o] \in Pruned(content[disk[Src(o)]])
              /\ stage' = [stage EXCEPT ![o] = "ok"]
           \/ content' = [content EXCEPT ![o] = "part"] /\ stage' = [stage EXCEPT ![o] = "error"]
           \/ UNCHANGED content /\ stage' = [stage EXCEPT ![o] = "error"]
    BY <1>1, <1>4, Places DEF CopyDir, CreateNew, Go, fs, TypeOK
  <2>2. disk[Src(o)] \in Inodes \/ disk[Src(o)] = None
    BY <2>1 DEF TypeOK
  <2>3. disk[Src(o)] \in Inodes \ Ops => disk[Src(o)] \in Paths /\ content[disk[Src(o)]] = "whole"
    BY DEF Inodes
  <2>6. \A i \in Inodes \ {o} : content'[i] = content[i] /\ type'[i] = type[i]
    <3>1. UNCHANGED type \/ \E t : type' = [type EXCEPT ![o] = t]
      BY <1>4 DEF CopyDir, CreateNew, fs
    <3> QED BY <2>1, <3>1 DEF TypeOK
  <2>4. Asked(o)' /\ Fulfilled(o)'
    <3>1. ASSUME stage'[o] = "ok" PROVE Copied(o)'
      <4>1. /\ disk[Src(o)] \in Inodes /\ Followed[type[disk[Src(o)]]] = "directory"
            /\ content'[o] \in Pruned(content[disk[Src(o)]]) /\ src'[o] = disk[Src(o)]
        BY <1>1, <2>1, <2>2, <3>1 DEF TypeOK
      <4>2. CASE disk[Src(o)] \in Ops
        BY <4>1, <4>2 DEF Copied
      <4>3. CASE disk[Src(o)] \notin Ops
        <5>1. disk[Src(o)] \in Paths /\ content'[o] \in {"whole", "pruned"}
          BY <2>3, <4>1, <4>3 DEF Pruned
        <5>2. type'[disk[Src(o)]] = type[disk[Src(o)]]
          BY <2>6, <4>1, <4>3
        <5> QED BY <4>1, <5>1, <5>2 DEF Copied
      <4> QED BY <4>2, <4>3
    <3>2. stage'[o] \in {"ok", "error"}
      BY <1>1, <2>1 DEF TypeOK
    <3> QED BY <1>1, <1>2, <3>1, <3>2 DEF Asked, Fulfilled
  <2>5. ASSUME NEW q \in Ops \ {o}, stage[q] = "ok", disk'[Dst(q)] = q PROVE disk[Dst(q)] = q
    <3>1. Dst(q) \in Paths
      BY <2>5, Places
    <3> QED BY <2>1, <2>5, <3>1 DEF TypeOK
  <2> QED BY <1>1, <2>1, <2>4, <2>5, <2>6, ConcludeTrue, Distinct DEF TypeOK
<1> QED BY <1>3, <1>4

\* A move that ends well has replaced its placeholder, or has moved another one.
LEMMA RenameTrue == ASSUME IndInv, SucceedInv, NEW o \in Ops, Rename(o) PROVE SucceedInv'
<1> USE DEF IndInv, SucceedInv
<1>1. /\ UNCHANGED <<type, content, src>> /\ UNCHANGED batch /\ deleted \subseteq deleted'
      /\ stage[o] = "placed" /\ stage' = [stage EXCEPT ![o] = "ok"] /\ Moving(o[1])
      /\ Src(o) \in Paths /\ Dst(o) \in Paths /\ o[1] \in Batches
      /\ \/ Src(o) = Dst(o) /\ UNCHANGED disk
         \/ /\ Src(o) # Dst(o) /\ disk' = [disk EXCEPT ![Src(o)] = None, ![Dst(o)] = disk[Src(o)]]
            /\ deleted' = deleted \cup {p \in Ops : p = disk[Src(o)] /\ Moving(p[1])}
  BY Places DEF Rename, Go, join, OpOK
<1>2. ASSUME NEW q \in Ops, Moving(q[1]), disk'[Dst(o)] = q, Src(o) # Dst(o) PROVE Disturbed'
  <2>1. q = disk[Src(o)] /\ q \in deleted'
    BY <1>1, <1>2 DEF TypeOK
  <2>2. Moving(q[1])'
    BY <1>1, <1>2, Submissions, OpParts
  <2> QED BY <2>1, <2>2 DEF Disturbed
<1>3. Fulfilled(o)'
  <2>1. Src(o)' = Src(o) /\ Dst(o)' = Dst(o) /\ Moving(o[1])' /\ button' = button
    BY <1>1, Submissions DEF batch
  <2>2. button[o[1]] # "copy"
    BY <1>1 DEF Moving
  <2> QED BY <1>1, <1>2, <2>1, <2>2 DEF Fulfilled
<1>4. Asked(o)'
  BY <1>1 DEF Asked, TypeOK
<1>5. ASSUME NEW q \in Ops \ {o}, stage[q] = "ok", disk'[Dst(q)] = q PROVE disk[Dst(q)] = q \/ Disturbed' \/ ~Moving(q[1])
  <2>1. Dst(q) \in Paths
    BY <1>5, Places
  <2>2. CASE Dst(q) = Dst(o)
    BY <1>1, <1>2, <1>5, <2>2
  <2>3. CASE Dst(q) # Dst(o)
    BY <1>1, <1>5, <2>1, <2>3, Distinct DEF TypeOK
  <2> QED BY <2>2, <2>3
<1> QED BY <1>1, <1>3, <1>4, <1>5, ConcludeTrue DEF TypeOK

\* Dialogs are opened and submitted when none of their operations has begun.
LEMMA DialogTrue ==
    ASSUME IndInv, SucceedInv, NEW k \in Batches, button[k] = None, UNCHANGED fs, UNCHANGED join,
           \A b \in Batches \ {k} : /\ dialog'[b] = dialog[b] /\ button'[b] = button[b]
                                    /\ from'[b] = from[b] /\ target'[b] = target[b],
           Disturbed => Disturbed',
           \A o \in Ops : \/ stage'[o] = stage[o]
                         \/ /\ o[1] = k
                            /\ stage'[o] \in {"error", "cp", "asking", "rename", "unlink", "rm", "trash", "writeFile", "mkdir"}
                            /\ stage'[o] = "cp" => button'[k] = "copy"
                            /\ stage'[o] \in {"unlink", "rm", "trash", "writeFile", "mkdir"} =>
                                 button'[k] \notin {"copy", "move", "rename", "overwrite"}
    PROVE  SucceedInv'
<1> USE DEF IndInv, SucceedInv
<1>1. \A p \in Paths : content'[p] = "whole"
  BY DEF fs
<1>2. ASSUME NEW o \in Ops PROVE Asked(o)' /\ Fulfilled(o)'
  <2>1. o[1] \in Batches /\ Asked(o) /\ Fulfilled(o) /\ (o[1] = k => stage[o] = "idle")
    BY OpParts DEF OpOK
  <2>2. CASE o[1] = k
    BY <2>1, <2>2 DEF Asked, Fulfilled, Moving
  <2>3. CASE o[1] # k
    <3>1. /\ Src(o)' = Src(o) /\ Dst(o)' = Dst(o) /\ Moving(o[1])' = Moving(o[1])
          /\ button'[o[1]] = button[o[1]] /\ stage'[o] = stage[o]
      BY <2>1, <2>3 DEF Src, Dst, Moving
    <3> QED BY <2>1, <3>1 DEF Asked, Fulfilled, Copied, fs, join
  <2> QED BY <2>2, <2>3
<1> QED BY <1>1, <1>2

LEMMA PressTrue ==
    ASSUME IndInv, SucceedInv, NEW b \in Batches, NEW k \in Batches, NEW press, NEW t,
           dialog[b] # None, button[k] = None, Press(b, k, press, t),
           \A c \in Batches \ {k} : dialog'[c] = dialog[c] /\ from'[c] = from[c]
    PROVE  SucceedInv'
<1> USE DEF IndInv
<1>1. dialog[b] \in Dialogs /\ press \in Buttons[dialog[b]]
  BY DEF Press, TypeOK
<1>2. /\ UNCHANGED fs /\ UNCHANGED join
      /\ button' = [button EXCEPT ![k] = press] /\ target' = [target EXCEPT ![k] = t]
  BY DEF Press
<1>3. /\ button'[k] = press
      /\ \A c \in Batches \ {k} : button'[c] = button[c] /\ target'[c] = target[c] /\ Moving(c)' = Moving(c)
  BY <1>2 DEF TypeOK, Moving
<1>4. ASSUME NEW o \in Ops
      PROVE  \/ stage'[o] = stage[o]
             \/ /\ o[1] = k
                /\ stage'[o] \in {"error", "cp", "asking", "rename", "unlink", "rm", "trash", "writeFile", "mkdir"}
                /\ stage'[o] = "cp" => press = "copy"
                /\ stage'[o] \in {"unlink", "rm", "trash", "writeFile", "mkdir"} =>
                     press \notin {"copy", "move", "rename", "overwrite"}
  <2>1. stage' = [q \in Ops |-> IF q[1] = k /\ q[2] \in objects[b]
                               THEN Request(dialog[b], <<b, q[2]>>, press) ELSE stage[q]]
    BY DEF Press
  <2>2. CASE o[1] = k /\ o[2] \in objects[b]
    <3>1. stage'[o] = Request(dialog[b], <<b, o[2]>>, press)
      BY <2>1, <2>2
    <3> QED BY <1>1, <2>2, <3>1, Requests
  <2>3. CASE ~(o[1] = k /\ o[2] \in objects[b])
    BY <2>1, <2>3
  <2> QED BY <2>2, <2>3
<1>5. Disturbed => Disturbed'
  <2>1. SUFFICES ASSUME NEW q \in deleted \cap Ops, Moving(q[1]) PROVE Disturbed'
    BY DEF Disturbed
  <2>2. q[1] # k
    BY <2>1, NoneMoves
  <2> QED BY <1>2, <1>3, <2>1, <2>2, OpParts DEF Disturbed, fs
<1>6. \A c \in Batches \ {k} : /\ dialog'[c] = dialog[c] /\ button'[c] = button[c]
                                 /\ from'[c] = from[c] /\ target'[c] = target[c]
  BY <1>3
<1>7. \A o \in Ops : \/ stage'[o] = stage[o]
                     \/ /\ o[1] = k
                        /\ stage'[o] \in {"error", "cp", "asking", "rename", "unlink", "rm", "trash", "writeFile", "mkdir"}
                        /\ stage'[o] = "cp" => button'[k] = "copy"
                        /\ stage'[o] \in {"unlink", "rm", "trash", "writeFile", "mkdir"} =>
                             button'[k] \notin {"copy", "move", "rename", "overwrite"}
  BY <1>3, <1>4
<1> HIDE DEF IndInv
<1> QED BY <1>2, <1>5, <1>6, <1>7, DialogTrue

LEMMA StepTrue == IndInv /\ SucceedInv /\ [Next]_vars => SucceedInv'
<1> SUFFICES ASSUME IndInv, SucceedInv, [Next]_vars PROVE SucceedInv'
  OBVIOUS
<1>1. CASE UNCHANGED vars \/ \E b \in Batches : Report(b)
  <2>1. UNCHANGED fs /\ UNCHANGED batch /\ UNCHANGED join /\ UNCHANGED stage
    BY <1>1 DEF vars, Report
  <2> QED BY <2>1 DEF SucceedInv, Asked, Fulfilled, Copied, Disturbed, Moving, Src, Dst, fs, batch, join
<1>2. CASE \E b \in Batches, dlg \in Dialogs, d \in Dirs, chosen \in SUBSET Names : Open(b, dlg, d, chosen)
  <2>1. PICK b \in Batches, dlg \in Dialogs, d \in Dirs, chosen \in SUBSET Names : Open(b, dlg, d, chosen)
    BY <1>2
  <2>2. /\ UNCHANGED fs /\ UNCHANGED join /\ UNCHANGED <<button, target, stage>> /\ dialog[b] = None
        /\ dialog' = [dialog EXCEPT ![b] = dlg] /\ from' = [from EXCEPT ![b] = d]
    BY <2>1 DEF Open, IsNext
  <2>3. button[b] = None
    BY <2>2 DEF IndInv, BatchOK
  <2>4. Disturbed => Disturbed'
    BY <2>2 DEF Disturbed, Moving, fs
  <2>5. \A c \in Batches \ {b} : dialog'[c] = dialog[c] /\ from'[c] = from[c] /\ button'[c] = button[c] /\ target'[c] = target[c]
    BY <2>2 DEF IndInv, TypeOK
  <2> QED BY <2>2, <2>3, <2>4, <2>5, DialogTrue
<1>3. ASSUME NEW b \in Batches, NEW press, NEW t, Submit(b, press, t) PROVE SucceedInv'
  BY <1>3, PressTrue DEF Submit
<1>4. ASSUME NEW b \in Batches, NEW c \in Batches, NEW press, NEW t, Again(b, c, press, t) PROVE SucceedInv'
  <2>1. dialog[b] # None /\ button[c] = None
    BY <1>4 DEF Again, IsNext, IndInv, BatchOK
  <2>2. \A a \in Batches \ {c} : dialog'[a] = dialog[a] /\ from'[a] = from[a]
    BY <1>4 DEF Again, IndInv, TypeOK
  <2> QED BY <1>4, <2>1, <2>2, PressTrue DEF Again
<1>5. ASSUME NEW o \in Ops, Operate(o) PROVE SucceedInv'
  BY <1>5, OtherTrue, StatTrue, CopyTrue, RenameTrue
<1> QED BY <1>1, <1>2, <1>3, <1>4, <1>5 DEF Next

\* A copy of a file that is told to have succeeded is whole, and that of a tree
\* has all of its files, unless the source was being written; what is neither
\* file nor directory may be missing from it.  A move left no placeholder behind:
\* for any dialogs beside each other
\* (fs_api.rs:100-110, 152-206, CopyToDialog.tsx, InformationDialog.tsx).
THEOREM SuccessIsTold == Spec => []SucceedIsTrue
<1>1. IndInv /\ SucceedInv => SucceedIsTrue
  <2>1. SUFFICES ASSUME IndInv, SucceedInv, NEW b \in Batches, NEW o \in OpsOf(b), stage[o] = "ok"
                 PROVE  /\ button[b] = "copy" => Copied(o)
                        /\ Moving(b) /\ Src(o) # Dst(o) => disk[Dst(o)] # o \/ Disturbed
    BY DEF SucceedIsTrue
  <2>2. o \in Ops /\ o[1] = b
    BY <2>1 DEF OpsOf, Ops, IndInv, TypeOK
  <2> QED BY <2>1, <2>2 DEF SucceedInv, Fulfilled
<1> QED BY <1>1, Invariance, InitTrue, StepTrue, PTL DEF Spec
=============================================================================
