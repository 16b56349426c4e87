----------------------------- MODULE Upload_proofs -----------------------------
(***************************************************************************)
(* For any uploads, sizes and rivals: what an upload unlinks under the     *)
(* target's name is its own placeholder; a compressed upload is completed  *)
(* only when the whole of it was unzipped, and leaves no temporary file    *)
(* once it is over; and a completed upload whose file nothing disturbed is *)
(* intact.                                                                 *)
(*                                                                         *)
(* IndInv follows the placeholder through the call that creates it,        *)
(* fileGuard and the call that unlinks it: only one of them is at work,    *)
(* and while it is the name is the placeholder's (GuardOK). A request that *)
(* was answered does not reach the client again (RequestOK), which keeps   *)
(* the temporary file away (TempOK), and unzip succeeds on a whole file    *)
(* only (WholeOK). IntactInv, the second layer, follows the data: an open  *)
(* file of one writer has the chunks that landed, in order (HeldOK,        *)
(* StreamOK), and what was answered has all of them (DataOK).  ChargeInv,  *)
(* the third, follows the placeholder on to whoever will unlink or         *)
(* complete it.                                                            *)
(***************************************************************************)
EXTENDS Upload, TLAPS

LEMMA InitInv == Init => IndInv
BY UploadsAssumption, SizeAssumption, NoneAssumption
   DEF Init, IndInv, TypeOK, Inodes, Origins, Contents, Empty, GuardOK, RequestOK, TempOK, WholeOK

\* What remains of a function to BOOLEAN when one value changes.
LEMMA FlagUpdate ==
    ASSUME NEW S, NEW f \in [S -> BOOLEAN], NEW u \in S, NEW g,
           \/ g = f
           \/ g = [f EXCEPT ![u] = FALSE]
           \/ g = [f EXCEPT ![u] = TRUE]
    PROVE  g \in [S -> BOOLEAN]
BY Zenon

\* The same for the contents of the inodes.
LEMMA ContentUpdate ==
    ASSUME NEW c \in [Inodes -> Contents], NEW i, NEW r \in Contents
    PROVE  [c EXCEPT ![i] = r] \in [Inodes -> Contents]
BY Zenon

\* What the browser does changes neither the files nor the transfers.
LEMMA BrowserType ==
    ASSUME IndInv, NEW u \in Uploads, BrowserStep(u) \/ Cancel(u)
    PROVE  TypeOK'
<1> USE DEF IndInv, TypeOK, BrowserStep, Cancel,
            TakeGuard, GuardRefused, Compress, Post, Respond, RefusedPost, Load, Posting,
            TakeUnzip, Cleaned, Released, Proceed, Release, Settle, Goto, calls
<1>1. state' \in [Uploads -> {"running", "completed", "error", "cancel"}]
  OBVIOUS
<1>2. step' \in [Uploads -> {"new", "guarding", "token", "posting", "unzipping",
                            "cleaning", "releasing", "over"}]
  OBVIOUS
<1>3. zipped' \in [Uploads -> {"pending", "ok", "error"}]
  OBVIOUS
<1>4. xhr' \in [Uploads -> {"none", "open", "deaf", "loaded", "broken"}]
  OBVIOUS
<1>5. writes' \in [Uploads -> {"none", "asked", "created", "ok", "taken", "error"}]
  OBVIOUS
<1>6. unlinks' \in [Uploads -> SUBSET {"target", "temp"}]
  OBVIOUS
<1>7. unzip' \in [Uploads -> {"none", "asked", "ok", "error"}]
  OBVIOUS
<1>8. guard' \in [Uploads -> BOOLEAN]
  <2>1. \/ guard' = guard
        \/ guard' = [guard EXCEPT ![u] = FALSE]
        \/ guard' = [guard EXCEPT ![u] = TRUE]
    OBVIOUS
  <2>2. guard \in [Uploads -> BOOLEAN]
    OBVIOUS
  <2> QED BY <2>1, <2>2, FlagUpdate
<1>9. UNCHANGED <<stream, disk, online>>
  BY DEF disk
<1> QED BY <1>1, <1>2, <1>3, <1>4, <1>5, <1>6, <1>7, <1>8, <1>9 DEF stream, disk

\* The steps of the browser's half of an upload.
LEMMA BrowserInv ==
    ASSUME IndInv, NEW u \in Uploads, BrowserStep(u) \/ Cancel(u)
    PROVE  IndInv'
<1> USE UploadsAssumption, SizeAssumption, NoneAssumption
    DEF IndInv, TypeOK, GuardOK, RequestOK, TempOK, WholeOK, browser, calls, stream, disk
<1>1. TypeOK'
  BY BrowserType
<1>2. ASSUME NEW v \in Uploads PROVE GuardOK(v)' /\ RequestOK(v)' /\ WholeOK(v)'
  <2>1. CASE TakeGuard(u)
    BY <2>1 DEF TakeGuard, Proceed, Release, Goto
  <2>2. CASE GuardRefused(u)
    BY <2>2 DEF GuardRefused, Settle, Goto
  <2>3. CASE Compress(u)
    BY <2>3 DEF Compress, Proceed, Release, Goto
  <2>4. CASE Post(u)
    BY <2>4 DEF Post, Goto
  <2>5. CASE Respond(u)
    BY <2>5 DEF Respond, Load, Posting, Settle, Goto
  <2>6. CASE RefusedPost(u)
    BY <2>6 DEF RefusedPost, Load, Posting, Settle, Goto
  <2>7. CASE TakeUnzip(u)
    BY <2>7 DEF TakeUnzip, Goto
  <2>8. CASE Cleaned(u)
    BY <2>8 DEF Cleaned, Release, Settle, Goto
  <2>9. CASE Released(u)
    BY <2>9 DEF Released, Settle, Goto
  <2>10. CASE Cancel(u)
    BY <2>10 DEF Cancel, Goto
  <2> QED BY <2>1, <2>2, <2>3, <2>4, <2>5, <2>6, <2>7, <2>8, <2>9, <2>10 DEF BrowserStep
<1>3. ASSUME NEW v \in Compressed PROVE TempOK(v)'
  <2>1. CASE TakeGuard(u)
    BY <2>1 DEF TakeGuard, Proceed, Release, Goto
  <2>2. CASE GuardRefused(u)
    BY <2>2 DEF GuardRefused, Settle, Goto
  <2>3. CASE Compress(u)
    BY <2>3 DEF Compress, Proceed, Release, Goto
  <2>4. CASE Post(u)
    BY <2>4 DEF Post, Goto
  <2>5. CASE Respond(u)
    BY <2>5 DEF Respond, Load, Posting, Settle, Goto
  <2>6. CASE RefusedPost(u)
    BY <2>6 DEF RefusedPost, Load, Posting, Settle, Goto
  <2>7. CASE TakeUnzip(u)
    BY <2>7 DEF TakeUnzip, Goto
  <2>8. CASE Cleaned(u)
    BY <2>8 DEF Cleaned, Release, Settle, Goto
  <2>9. CASE Released(u)
    BY <2>9 DEF Released, Settle, Goto
  <2>10. CASE Cancel(u)
    BY <2>10 DEF Cancel, Goto
  <2> QED BY <2>1, <2>2, <2>3, <2>4, <2>5, <2>6, <2>7, <2>8, <2>9, <2>10 DEF BrowserStep
<1> QED BY <1>1, <1>2, <1>3

\* The steps of fs.writeFile, fs.unlink and unzip.
LEMMA FileInv ==
    ASSUME IndInv, NEW u \in Uploads, FileStep(u)
    PROVE  IndInv'
<1> USE UploadsAssumption, SizeAssumption, NoneAssumption
    DEF IndInv, TypeOK, Inodes, Origins, GuardOK, RequestOK, TempOK, WholeOK,
        browser, calls, stream, disk
<1>1. CASE CreatePlaceholder(u)
  BY <1>1 DEF CreatePlaceholder
<1>2. CASE RefusePlaceholder(u)
  BY <1>2 DEF RefusePlaceholder
<1>3. CASE WritePlaceholder(u)
  <2>1. content' \in [Inodes -> Contents]
    <3> DEFINE i == <<u, "placeholder">>
    <3>1. content[i] \in Contents
      OBVIOUS
    <3>2. [content[i] EXCEPT !.tail = TRUE] \in Contents
      BY <3>1 DEF Contents
    <3>3. content' = [content EXCEPT ![i] = [content[i] EXCEPT !.tail = TRUE]]
      BY <1>3 DEF WritePlaceholder
    <3> HIDE DEF i
    <3> QED BY <3>2, <3>3, ContentUpdate
  <2>2. TypeOK'
    BY <2>1, <1>3 DEF WritePlaceholder
  <2>3. ASSUME NEW v \in Uploads PROVE GuardOK(v)' /\ RequestOK(v)' /\ WholeOK(v)'
    BY <1>3 DEF WritePlaceholder
  <2>4. ASSUME NEW v \in Compressed PROVE TempOK(v)'
    BY <1>3 DEF WritePlaceholder
  <2> QED BY <2>2, <2>3, <2>4
<1>4. CASE WritePlaceholderFails(u)
  BY <1>4 DEF WritePlaceholderFails
<1>5. CASE \E x \in unlinks[u] : Unlink(u, x)
  BY <1>5 DEF Unlink
<1>6. CASE Unzip(u)
  BY <1>6 DEF Unzip, Dest, Contents
<1>7. CASE UnzipFails(u)
  <2>1. content' \in [Inodes -> Contents]
    <3> DEFINE i == Dest(u)
               r == [content[i] EXCEPT !.from = IF @ \in {None, u} THEN u ELSE "mixed"]
    <3>1. content[i] \in Contents
      BY DEF Dest
    <3>2. r \in Contents
      BY <3>1 DEF Contents
    <3>3. content' = content \/ content' = [content EXCEPT ![i] = r]
      BY <1>7 DEF UnzipFails
    <3> HIDE DEF i, r
    <3> QED BY <3>2, <3>3, ContentUpdate
  <2>2. TypeOK'
    BY <2>1, <1>7 DEF UnzipFails, Dest
  <2>3. ASSUME NEW v \in Uploads PROVE GuardOK(v)' /\ RequestOK(v)' /\ WholeOK(v)'
    BY <1>7 DEF UnzipFails, Dest
  <2>4. ASSUME NEW v \in Compressed PROVE TempOK(v)'
    BY <1>7 DEF UnzipFails, Dest
  <2> QED BY <2>2, <2>3, <2>4
<1> QED BY <1>1, <1>2, <1>3, <1>4, <1>5, <1>6, <1>7 DEF FileStep

\* The steps of upload.rs.
LEMMA TransferInv ==
    ASSUME IndInv, NEW u \in Uploads, TransferStep(u)
    PROVE  IndInv'
<1> USE UploadsAssumption, SizeAssumption, NoneAssumption
    DEF IndInv, TypeOK, Inodes, Origins, GuardOK, RequestOK, TempOK, WholeOK,
        browser, calls, stream, disk
<1>1. CASE Relay(u)
  BY <1>1 DEF Relay
<1>2. CASE CreateFile(u)
  BY <1>2 DEF CreateFile, Opened, Empty, Contents
<1>3. CASE CreateFails(u)
  BY <1>3 DEF CreateFails
<1>4. CASE Receive(u)
  BY <1>4 DEF Receive
<1>5. CASE Land(u)
  <2>1. content' \in [Inodes -> Contents]
    <3> DEFINE i == handle[u]
               r == [from |-> IF content[i].from \in {None, u} THEN u ELSE "mixed",
                     size |-> landed[u] + 1,
                     tail |-> content[i].tail /\ landed[u] + 1 < PlaceholderSize]
    <3>1. i \in Inodes
      BY <1>5 DEF Land, Writing
    <3>2. content[i] \in Contents
      BY <3>1
    <3>3. r \in Contents
      BY <3>2 DEF Contents
    <3>4. content' = [content EXCEPT ![i] = r]
      BY <1>5, <3>1 DEF Land
    <3> HIDE DEF i, r
    <3> QED BY <3>3, <3>4, ContentUpdate
  <2>2. TypeOK'
    BY <2>1, <1>5 DEF Land, Writing
  <2>3. ASSUME NEW v \in Uploads PROVE GuardOK(v)' /\ RequestOK(v)' /\ WholeOK(v)'
    BY <1>5 DEF Land, Writing
  <2>4. ASSUME NEW v \in Compressed PROVE TempOK(v)'
    BY <1>5 DEF Land, Writing
  <2> QED BY <2>2, <2>3, <2>4
<1>6. CASE WriteFails(u)
  BY <1>6 DEF WriteFails, Writing
<1>7. CASE Reply(u)
  BY <1>7 DEF Reply
<1> QED BY <1>1, <1>2, <1>3, <1>4, <1>5, <1>6, <1>7 DEF TransferStep

\* An upload begins, its request breaks, or the session ends.
LEMMA OtherInv ==
    ASSUME IndInv, \/ \E u \in Uploads : Begin(u) \/ PostBreaks(u)
                   \/ Disconnect
    PROVE  IndInv'
<1> USE UploadsAssumption, SizeAssumption, NoneAssumption
    DEF IndInv, TypeOK, Inodes, Origins, GuardOK, RequestOK, TempOK, WholeOK,
        browser, calls, stream, disk
<1>1. ASSUME NEW u \in Uploads, Begin(u) PROVE IndInv'
  BY <1>1 DEF Begin, Goto
<1>2. ASSUME NEW u \in Uploads, PostBreaks(u) PROVE IndInv'
  <2> USE <1>2 DEF PostBreaks, Posting, Release, Goto
  <2>1. TypeOK'
    OBVIOUS
  <2>2. ASSUME NEW v \in Uploads PROVE GuardOK(v)'
    OBVIOUS
  <2>3. ASSUME NEW v \in Uploads PROVE RequestOK(v)'
    OBVIOUS
  <2>4. ASSUME NEW v \in Uploads PROVE WholeOK(v)'
    OBVIOUS
  <2>5. ASSUME NEW v \in Compressed PROVE TempOK(v)'
    OBVIOUS
  <2> HIDE <1>2 DEF TypeOK, GuardOK, RequestOK, TempOK, WholeOK
  <2> QED BY <2>1, <2>2, <2>3, <2>4, <2>5
<1>3. CASE Disconnect
  <2> USE <1>3 DEF Disconnect
  <2>1. TypeOK'
    OBVIOUS
  <2>2. ASSUME NEW v \in Uploads PROVE GuardOK(v)'
    OBVIOUS
  <2>3. ASSUME NEW v \in Uploads PROVE RequestOK(v)' /\ WholeOK(v)'
    OBVIOUS
  <2>4. ASSUME NEW v \in Compressed PROVE TempOK(v)'
    OBVIOUS
  <2> HIDE <1>3 DEF TypeOK, GuardOK, RequestOK, TempOK, WholeOK
  <2> QED BY <2>1, <2>2, <2>3, <2>4
<1> QED BY <1>1, <1>2, <1>3

LEMMA StepInv == IndInv /\ [Next]_vars => IndInv'
<1> SUFFICES ASSUME IndInv, [Next]_vars PROVE IndInv'
  OBVIOUS
<1>1. CASE UNCHANGED vars
  BY <1>1 DEF vars, browser, calls, stream, disk, IndInv, TypeOK, GuardOK, RequestOK, TempOK, WholeOK
<1> QED BY <1>1, BrowserInv, FileInv, TransferInv, OtherInv DEF Next

THEOREM Invariance == Spec => []IndInv
BY InitInv, StepInv, PTL DEF Spec

\* Type correctness of the uploads.
THEOREM TypeCorrect == Spec => []TypeOK
<1>1. IndInv => TypeOK
  BY DEF IndInv
<1> QED BY <1>1, Invariance, PTL

\* A compressed upload is completed only when the temporary file was whole, and
\* leaves none once it is over (MultiFileExplorer.tsx lines 137-151).
THEOREM Temporary == Spec => []PackedIsWholeAndTidy
<1>1. IndInv => TruncatedIsNoticed
  BY UploadsAssumption DEF IndInv, WholeOK, TruncatedIsNoticed
<1>2. IndInv => TempIsRemoved
  BY DEF IndInv, RequestOK, TempOK, TempIsRemoved
<1> QED BY <1>1, <1>2, Invariance, PTL DEF PackedIsWholeAndTidy
-----------------------------------------------------------------------------
(* The second layer: IntactInv, inductive together with IndInv *)

LEMMA InitIntact == Init => IntactInv
<1> SUFFICES ASSUME Init, NEW u \in Uploads PROVE HeldOK(u) /\ StreamOK(u) /\ DataOK(u)
  BY DEF IntactInv
<1>1. HeldOK(u)
  BY DEF Init, HeldOK
<1>2. StreamOK(u)
  BY DEF Init, StreamOK
<1>3. state[u] # "completed" /\ transfer[u] = "none" /\ unzip[u] = "none"
  BY DEF Init
<1> QED BY <1>1, <1>2, <1>3 DEF DataOK, OwnData

\* What the files are given, in terms of Chunks.
LEMMA ChunksEmpty == ASSUME NEW u PROVE Chunks(u, 0) = Empty
BY DEF Chunks, Empty

LEMMA ChunksWhole ==
    ASSUME NEW u \in Uploads, NEW t, Size[u] >= PlaceholderSize
    PROVE  Chunks(u, Size[u]) = [from |-> u, size |-> Size[u], tail |-> t /\ Size[u] < PlaceholderSize]
<1>1. Size[u] # 0 /\ (t /\ Size[u] < PlaceholderSize) = FALSE
  BY SizeAssumption
<1> QED BY <1>1 DEF Chunks

LEMMA ChunksNext ==
    ASSUME NEW u \in Uploads, NEW n \in Nat, NEW c, c = Chunks(u, n)
    PROVE  Chunks(u, n + 1) = [from |-> IF c.from \in {None, u} THEN u ELSE "mixed",
                               size |-> n + 1,
                               tail |-> c.tail /\ n + 1 < PlaceholderSize]
<1>1. c.from \in {None, u} /\ n + 1 # 0 /\ (c.tail /\ n + 1 < PlaceholderSize) = FALSE
  BY DEF Chunks
<1> QED BY <1>1 DEF Chunks

\* Nothing undoes a disturbance, so what holds of an undisturbed upload after a
\* step has only to be shown of one that was undisturbed before it.
LEMMA DisturbedForEver ==
    ASSUME IndInv, [Next]_vars, NEW w \in Uploads, Undisturbed(w)'
    PROVE  Undisturbed(w)
<1> USE DEF IndInv, TypeOK, browser, calls, stream, disk
<1> DEFINE Forward(f, g) == \A v \in Uploads : g[v] = "none" => f[v] = "none"
<1>1. failed \subseteq failed' /\ Forward(transfer, transfer') /\ Forward(unzip, unzip')
  <2>1. ASSUME NEW u \in Uploads, Begin(u) \/ BrowserStep(u) \/ PostBreaks(u) \/ Cancel(u)
        PROVE  failed' = failed /\ transfer' = transfer /\ Forward(unzip, unzip')
    BY <2>1 DEF BrowserStep, Begin, TakeGuard, GuardRefused, Compress, Post, Respond, RefusedPost,
                Load, TakeUnzip, Cleaned, Released, PostBreaks, Cancel
  <2>2. ASSUME NEW u \in Uploads, FileStep(u)
        PROVE  failed \subseteq failed' /\ transfer' = transfer /\ Forward(unzip, unzip')
    <3>1. failed \subseteq failed' /\ transfer' = transfer
      BY <2>2 DEF FileStep, CreatePlaceholder, RefusePlaceholder, WritePlaceholder,
                  WritePlaceholderFails, Unlink, Unzip, UnzipFails
    <3>2. \/ unzip' = unzip
          \/ unzip' = [unzip EXCEPT ![u] = "ok"]
          \/ unzip' = [unzip EXCEPT ![u] = "error"]
      BY <2>2 DEF FileStep, CreatePlaceholder, RefusePlaceholder, WritePlaceholder,
                  WritePlaceholderFails, Unlink, Unzip, UnzipFails
    <3> QED BY <3>1, <3>2
  <2>3. ASSUME NEW u \in Uploads, TransferStep(u)
        PROVE  failed \subseteq failed' /\ unzip' = unzip /\ Forward(transfer, transfer')
    <3>1. failed \subseteq failed' /\ unzip' = unzip
      BY <2>3 DEF TransferStep, Relay, CreateFile, CreateFails, Receive, Land, WriteFails, Reply
    <3>2. \/ transfer' = transfer
          \/ \E t \in {"asked", "receiving", "lost", "replied"} :
                transfer' = [transfer EXCEPT ![u] = t]
      BY <2>3 DEF TransferStep, Relay, CreateFile, CreateFails, Receive, Land, WriteFails, Reply
    <3> QED BY <3>1, <3>2
  <2>4. CASE Disconnect \/ UNCHANGED vars
    BY <2>4 DEF Disconnect, vars
  <2> QED BY <2>1, <2>2, <2>3, <2>4 DEF Next
<1> QED BY <1>1 DEF Undisturbed

\* The browser's half.
LEMMA BrowserIntact ==
    ASSUME IndInv, IntactInv, [Next]_vars, NEW u \in Uploads,
           Begin(u) \/ BrowserStep(u) \/ PostBreaks(u) \/ Cancel(u)
    PROVE  IntactInv'
<1> USE UploadsAssumption, SizeAssumption, NoneAssumption
    DEF IndInv, TypeOK, GuardOK, RequestOK, WholeOK, browser, calls, stream, disk
<1>1. ASSUME NEW v \in Uploads PROVE HeldOK(v)' /\ StreamOK(v)'
  <2> USE DEF IntactInv, HeldOK, StreamOK
  <2>1. CASE TakeGuard(u)
    BY <2>1 DEF TakeGuard, Proceed, Release, Goto
  <2>2. CASE GuardRefused(u)
    BY <2>2 DEF GuardRefused, Settle, Goto
  <2>3. CASE Compress(u)
    BY <2>3 DEF Compress, Proceed, Release, Goto
  <2>4. CASE Post(u)
    BY <2>4 DEF Post, Goto
  <2>5. CASE Respond(u)
    BY <2>5 DEF Respond, Load, Posting, Settle, Goto
  <2>6. CASE RefusedPost(u)
    BY <2>6 DEF RefusedPost, Load, Posting, Settle, Goto
  <2>7. CASE TakeUnzip(u)
    BY <2>7 DEF TakeUnzip, Goto
  <2>8. CASE Cleaned(u)
    BY <2>8 DEF Cleaned, Release, Settle, Goto
  <2>9. CASE Released(u)
    BY <2>9 DEF Released, Settle, Goto
  <2>10. CASE Begin(u)
    BY <2>10 DEF Begin, Goto
  <2>11. CASE PostBreaks(u)
    BY <2>11 DEF PostBreaks, Posting, Release, Goto
  <2>12. CASE Cancel(u)
    BY <2>12 DEF Cancel, Goto
  <2> QED BY <2>1, <2>2, <2>3, <2>4, <2>5, <2>6, <2>7, <2>8, <2>9, <2>10, <2>11, <2>12 DEF BrowserStep
<1>2. ASSUME NEW v \in Uploads, Undisturbed(v)', state'[v] \in {"running", "completed"}
      PROVE  OwnData(v)'
  <2>a. Undisturbed(v)
    BY <1>2, DisturbedForEver
  <2>b. HeldOK(v) /\ StreamOK(v) /\ (state[v] \in {"running", "completed"} => OwnData(v))
    BY <2>a DEF IntactInv, DataOK
  <2> USE <1>2, <2>a, <2>b DEF HeldOK, StreamOK, OwnData
  <2>1. CASE TakeGuard(u)
    BY <2>1 DEF TakeGuard, Proceed, Release, Goto
  <2>2. CASE GuardRefused(u)
    BY <2>2 DEF GuardRefused, Settle, Goto
  <2>3. CASE Compress(u)
    BY <2>3 DEF Compress, Proceed, Release, Goto
  <2>4. CASE Post(u)
    BY <2>4 DEF Post, Goto
  <2>5. CASE Respond(u)
    BY <2>5 DEF Respond, Load, Posting, Settle, Goto
  <2>6. CASE RefusedPost(u)
    BY <2>6 DEF RefusedPost, Load, Posting, Settle, Goto
  <2>7. CASE TakeUnzip(u)
    BY <2>7 DEF TakeUnzip, Goto
  <2>8. CASE Cleaned(u)
    BY <2>8 DEF Cleaned, Release, Settle, Goto
  <2>9. CASE Released(u)
    BY <2>9 DEF Released, Settle, Goto
  <2>10. CASE Begin(u)
    BY <2>10 DEF Begin, Goto
  <2>11. CASE PostBreaks(u)
    BY <2>11 DEF PostBreaks, Posting, Release, Goto
  <2>12. CASE Cancel(u)
    BY <2>12 DEF Cancel, Goto
  <2> QED BY <2>1, <2>2, <2>3, <2>4, <2>5, <2>6, <2>7, <2>8, <2>9, <2>10, <2>11, <2>12 DEF BrowserStep
<1> QED BY <1>1, <1>2 DEF IntactInv, DataOK

\* The steps of fs.writeFile, fs.unlink and unzip.
LEMMA FileIntact ==
    ASSUME IndInv, IntactInv, [Next]_vars, NEW u \in Uploads,
           FileStep(u)
    PROVE  IntactInv'
<1> USE UploadsAssumption, SizeAssumption, NoneAssumption
    DEF IndInv, TypeOK, Inodes, Origins, GuardOK, RequestOK, WholeOK, browser, calls, stream, disk
<1>1. ASSUME NEW v \in Uploads PROVE HeldOK(v)' /\ StreamOK(v)'
  <2> USE DEF IntactInv, HeldOK, StreamOK
  <2>1. CASE CreatePlaceholder(u)
    BY <2>1 DEF CreatePlaceholder
  <2>2. CASE RefusePlaceholder(u)
    BY <2>2 DEF RefusePlaceholder
  <2>3. CASE WritePlaceholder(u)
    BY <2>3 DEF WritePlaceholder
  <2>4. CASE WritePlaceholderFails(u)
    BY <2>4 DEF WritePlaceholderFails
  <2>5. CASE \E x \in unlinks[u] : Unlink(u, x)
    BY <2>5 DEF Unlink
  <2>6. CASE Unzip(u)
    BY <2>6 DEF Unzip, Dest
  <2>7. CASE UnzipFails(u)
    BY <2>7 DEF UnzipFails, Dest
  <2> QED BY <2>1, <2>2, <2>3, <2>4, <2>5, <2>6, <2>7 DEF FileStep
<1>2. ASSUME NEW v \in Uploads, Undisturbed(v)', state'[v] \in {"running", "completed"}
      PROVE  OwnData(v)'
  <2>a. Undisturbed(v)
    BY <1>2, DisturbedForEver
  <2>b. HeldOK(v) /\ StreamOK(v) /\ (state[v] \in {"running", "completed"} => OwnData(v))
    BY <2>a DEF IntactInv, DataOK
  <2> USE <1>2, <2>a, <2>b DEF HeldOK, StreamOK, OwnData, Undisturbed
  <2>1. CASE CreatePlaceholder(u)
    BY <2>1 DEF CreatePlaceholder
  <2>2. CASE RefusePlaceholder(u)
    BY <2>2 DEF RefusePlaceholder
  <2>3. CASE WritePlaceholder(u)
    BY <2>3 DEF WritePlaceholder
  <2>4. CASE WritePlaceholderFails(u)
    BY <2>4 DEF WritePlaceholderFails
  <2>5. CASE \E x \in unlinks[u] : Unlink(u, x)
    BY <2>5 DEF Unlink
  <2>6. CASE Unzip(u)
    <3>1. v = u
      BY <2>6 DEF Unzip
    <3>2. state[u] = "running" /\ entry = <<u, "placeholder">> /\ entry # None
      BY <2>6, <3>1 DEF Unzip
    <3>3. Size[u] >= PlaceholderSize => content'[<<u, "placeholder">>] = Chunks(u, Size[u])
      <4> DEFINE t == content[<<u, "placeholder">>].tail
      <4>1. content' = [content EXCEPT ![<<u, "placeholder">>] =
                [from |-> u, size |-> Size[u], tail |-> t /\ Size[u] < PlaceholderSize]]
        BY <2>6, <3>2 DEF Unzip, Dest
      <4> HIDE DEF t
      <4> QED BY <4>1, ChunksWhole
    <3> QED BY <2>6, <3>1, <3>2, <3>3 DEF Unzip
  <2>7. CASE UnzipFails(u)
    BY <2>7 DEF UnzipFails, Dest
  <2> QED BY <2>1, <2>2, <2>3, <2>4, <2>5, <2>6, <2>7 DEF FileStep
<1> QED BY <1>1, <1>2 DEF IntactInv, DataOK

\* The steps of upload.rs.
LEMMA TransferIntact ==
    ASSUME IndInv, IntactInv, [Next]_vars, NEW u \in Uploads,
           TransferStep(u)
    PROVE  IntactInv'
<1> USE UploadsAssumption, SizeAssumption, NoneAssumption
    DEF IndInv, TypeOK, Inodes, Origins, GuardOK, RequestOK, WholeOK, browser, calls, stream, disk
<1>1. ASSUME NEW v \in Uploads PROVE HeldOK(v)' /\ StreamOK(v)'
  <2> USE DEF IntactInv, HeldOK, StreamOK
  <2>1. CASE Relay(u)
    BY <2>1 DEF Relay
  <2>2. CASE CreateFile(u)
    BY <2>2 DEF CreateFile, Opened, Empty
  <2>3. CASE CreateFails(u)
    BY <2>3 DEF CreateFails
  <2>4. CASE Receive(u)
    BY <2>4 DEF Receive
  <2>5. CASE Land(u)
    BY <2>5 DEF Land, Writing
  <2>6. CASE WriteFails(u)
    BY <2>6 DEF WriteFails, Writing
  <2>7. CASE Reply(u)
    BY <2>7 DEF Reply
  <2> QED BY <2>1, <2>2, <2>3, <2>4, <2>5, <2>6, <2>7 DEF TransferStep
<1>2. ASSUME NEW v \in Uploads, Undisturbed(v)', state'[v] \in {"running", "completed"}
      PROVE  OwnData(v)'
  <2>a. Undisturbed(v)
    BY <1>2, DisturbedForEver
  <2>b. HeldOK(v) /\ StreamOK(v) /\ (state[v] \in {"running", "completed"} => OwnData(v))
    BY <2>a DEF IntactInv, DataOK
  <2> USE <1>2, <2>a, <2>b DEF HeldOK, StreamOK, OwnData, Undisturbed
  <2>1. CASE Relay(u)
    BY <2>1 DEF Relay
  <2>2. CASE CreateFile(u)
    <3>1. v = u
      BY <2>2 DEF CreateFile
    <3>2. state[u] = "running" /\ landed[u] = 0
      BY <2>2, <3>1 DEF CreateFile
    <3>3. CASE u \in Compressed
      BY <2>2, <3>1, <3>2, <3>3 DEF CreateFile, Opened
    <3>4. CASE u \notin Compressed
      <4>1. CASE xhr[u] = "broken"
        BY <2>2, <3>1, <3>2, <3>4, <4>1 DEF CreateFile
      <4>2. CASE xhr[u] # "broken"
        <5>1. entry = <<u, "placeholder">> /\ entry # None
          BY <2>2, <3>1, <3>2, <4>2 DEF CreateFile
        <5>2. Opened(u) = <<u, "placeholder">>
          BY <3>4, <5>1, Zenon DEF Opened
        <5>3. /\ handle'[u] = <<u, "placeholder">>
              /\ content'[<<u, "placeholder">>] = Chunks(u, 0)
          BY <2>2, <5>2, ChunksEmpty DEF CreateFile
        <5> QED BY <2>2, <3>1, <3>2, <3>4, <5>3 DEF CreateFile
      <4> QED BY <4>1, <4>2
    <3> QED BY <3>3, <3>4
  <2>3. CASE CreateFails(u)
    BY <2>3 DEF CreateFails
  <2>4. CASE Receive(u)
    BY <2>4 DEF Receive
  <2>5. CASE Land(u)
    <3>1. v = u
      <4>1. transfer[u] = "none" => landed[u] = taken[u]
        BY DEF IntactInv
      <4> QED BY <2>5, <4>1 DEF Land, Writing
    <3>2. CASE u \in Compressed
      BY <2>5, <3>1, <3>2 DEF Land, Writing
    <3>3. CASE u \notin Compressed /\ xhr[u] # "broken" /\ transfer[u] \in {"receiving", "replied"}
      <4> DEFINE c == content[<<u, "placeholder">>]
      <4>1. handle[u] = <<u, "placeholder">> /\ c = Chunks(u, landed[u])
        BY <2>5, <3>1, <3>3 DEF Land
      <4>2. content' = [content EXCEPT ![<<u, "placeholder">>] =
                           [from |-> IF c.from \in {None, u} THEN u ELSE "mixed",
                            size |-> landed[u] + 1,
                            tail |-> c.tail /\ landed[u] + 1 < PlaceholderSize]]
        BY <2>5, <4>1 DEF Land
      <4> HIDE DEF c
      <4>3. content'[<<u, "placeholder">>] = Chunks(u, landed[u] + 1)
        BY <4>1, <4>2, ChunksNext
      <4> QED BY <2>5, <3>1, <3>3, <4>1, <4>3 DEF Land
    <3>4. CASE u \notin Compressed /\ ~(xhr[u] # "broken" /\ transfer[u] \in {"receiving", "replied"})
      BY <2>5, <3>1, <3>4 DEF Land
    <3> QED BY <3>2, <3>3, <3>4
  <2>6. CASE WriteFails(u)
    BY <2>6 DEF WriteFails, Writing
  <2>7. CASE Reply(u)
    BY <2>7 DEF Reply
  <2> QED BY <2>1, <2>2, <2>3, <2>4, <2>5, <2>6, <2>7 DEF TransferStep
<1> QED BY <1>1, <1>2 DEF IntactInv, DataOK

\* The end of the session, like a stutter, leaves every upload as it is.
LEMMA StillIntact ==
    ASSUME IntactInv, UNCHANGED <<browser, calls, stream, disk>>
    PROVE  IntactInv'
<1> SUFFICES ASSUME NEW u \in Uploads PROVE HeldOK(u)' /\ StreamOK(u)' /\ DataOK(u)'
  BY DEF IntactInv
<1> USE DEF browser, calls, stream, disk
<1>1. HeldOK(u)'
  BY DEF IntactInv, HeldOK
<1>2. StreamOK(u)'
  BY DEF IntactInv, StreamOK
<1>3. (Undisturbed(u)' <=> Undisturbed(u)) /\ (OwnData(u)' <=> OwnData(u))
  BY DEF Undisturbed, OwnData
<1>4. DataOK(u)'
  BY <1>3 DEF IntactInv, DataOK
<1> QED BY <1>1, <1>2, <1>4

LEMMA StepIntact == IndInv /\ IntactInv /\ [Next]_vars => IntactInv'
<1> SUFFICES ASSUME IndInv, IntactInv, [Next]_vars PROVE IntactInv'
  OBVIOUS
<1>1. CASE UNCHANGED vars
  BY <1>1, StillIntact DEF vars
<1>2. CASE Disconnect
  BY <1>2, StillIntact DEF Disconnect
<1> QED BY <1>1, <1>2, BrowserIntact, FileIntact, TransferIntact DEF Next

LEMMA IntactHolds == IndInv /\ IntactInv => CompletedIsIntact
<1> SUFFICES ASSUME IndInv, IntactInv, NEW u \in Uploads,
                    state[u] = "completed", Undisturbed(u), transfer[u] # "none",
                    u \in Compressed => Size[u] >= PlaceholderSize
             PROVE  Intact(u) \/ (Writing(u) /\ entry = handle[u])
  BY DEF CompletedIsIntact
<1> DEFINE placeholder == <<u, "placeholder">>
<1> USE UploadsAssumption, SizeAssumption, NoneAssumption
<1>1. xhr[u] = "loaded" /\ transfer[u] = "replied"
  BY DEF IndInv, RequestOK, IntactInv, HeldOK
<1>2. OwnData(u)
  BY DEF IntactInv, DataOK
<1>3. entry = placeholder
  BY <1>2 DEF OwnData
<1>4. entry # None
  BY <1>3 DEF Inodes, Origins
<1>5. Size[u] # 0 /\ Chunks(u, Size[u]) = [from |-> u, size |-> Size[u], tail |-> FALSE]
  BY DEF Chunks
<1>6. CASE u \in Compressed
  <2>1. unzip[u] = "ok"
    BY <1>6 DEF IndInv, WholeOK
  <2>2. content[placeholder] = Chunks(u, Size[u])
    BY <1>2, <1>6, <2>1 DEF OwnData
  <2> QED BY <1>3, <1>4, <1>5, <2>2 DEF Intact
<1>7. CASE u \notin Compressed
  <2>1. taken[u] = Size[u] /\ u \notin failed
    BY <1>1 DEF IntactInv, StreamOK, Undisturbed
  <2>2. landed[u] = Size[u] \/ landed[u] < taken[u]
    <3>1. landed[u] \in Nat /\ taken[u] \in Nat
      BY DEF IndInv, TypeOK
    <3>2. WholeOK(u)
      BY DEF IndInv
    <3> QED BY <2>1, <3>1, <3>2 DEF WholeOK
  <2> HIDE DEF placeholder
  <2>3. handle[u] = placeholder /\ content[placeholder] = Chunks(u, landed[u])
    <3>1. xhr[u] # "broken" /\ transfer[u] \in {"receiving", "replied"}
      BY <1>1
    <3> QED BY <1>2, <1>7, <3>1 DEF OwnData, placeholder
  <2> QED BY <1>3, <1>4, <1>5, <2>1, <2>2, <2>3 DEF Intact, Writing
<1> QED BY <1>6, <1>7

\* An upload shown as completed is on the disk as it was chosen, or its last
\* chunk is on its way to the file (MultiFileExplorer.tsx lines 100-170,
\* upload.rs lines 30-92).
THEOREM Completed == Spec => []CompletedIsIntact
<1>1. Init => IndInv /\ IntactInv
  BY InitInv, InitIntact
<1>2. IndInv /\ IntactInv /\ [Next]_vars => (IndInv /\ IntactInv)'
  BY StepInv, StepIntact
<1> QED BY <1>1, <1>2, IntactHolds, PTL DEF Spec

-----------------------------------------------------------------------------
(* Who is in charge of a placeholder: ChargeInv, inductive together with both *)

LEMMA InitCharge == Init => ChargeInv
<1> SUFFICES ASSUME Init, NEW u \in Uploads PROVE ChargeOK(u)
  BY DEF ChargeInv
<1>1. entry # <<u, "placeholder">>
  BY NoneAssumption DEF Init, Inodes, Origins
<1>2. ~guard[u] /\ writes[u] = "none" /\ step[u] = "new"
  BY DEF Init
<1> QED BY <1>1, <1>2 DEF ChargeOK

\* The browser's half: what takes the charge from an await gives it to the next.
LEMMA BrowserCharge ==
    ASSUME IndInv, IntactInv, ChargeInv, NEW u \in Uploads,
           Begin(u) \/ BrowserStep(u) \/ PostBreaks(u) \/ Cancel(u)
    PROVE  ChargeInv'
<1> USE UploadsAssumption
    DEF IndInv, TypeOK, GuardOK, RequestOK, IntactInv, HeldOK, ChargeInv, ChargeOK, InCharge,
        browser, calls, stream, disk
<1> SUFFICES ASSUME NEW v \in Uploads PROVE ChargeOK(v)'
  OBVIOUS
<1>1. CASE TakeGuard(u)
  BY <1>1 DEF TakeGuard, Proceed, Release, Goto
<1>2. CASE GuardRefused(u)
  BY <1>2 DEF GuardRefused, Settle, Goto
<1>3. CASE Compress(u)
  BY <1>3 DEF Compress, Proceed, Release, Goto
<1>4. CASE Post(u)
  BY <1>4 DEF Post, Goto
<1>5. CASE Respond(u)
  BY <1>5 DEF Respond, Load, Posting, Settle, Goto
<1>6. CASE RefusedPost(u)
  BY <1>6 DEF RefusedPost, Load, Posting, Settle, Goto
<1>7. CASE TakeUnzip(u)
  BY <1>7 DEF TakeUnzip, Goto
<1>8. CASE Cleaned(u)
  BY <1>8 DEF Cleaned, Release, Settle, Goto
<1>9. CASE Released(u)
  BY <1>9 DEF Released, Settle, Goto
<1>10. CASE Begin(u)
  BY <1>10 DEF Begin, Goto
<1>11. CASE PostBreaks(u)
  BY <1>11 DEF PostBreaks, Posting, Release, Goto
<1>12. CASE Cancel(u)
  BY <1>12 DEF Cancel, Goto
<1> QED BY <1>1, <1>2, <1>3, <1>4, <1>5, <1>6, <1>7, <1>8, <1>9, <1>10, <1>11, <1>12 DEF BrowserStep

\* The client's half.
LEMMA FileCharge ==
    ASSUME IndInv, IntactInv, ChargeInv, NEW u \in Uploads, FileStep(u)
    PROVE  ChargeInv'
<1> USE UploadsAssumption, NoneAssumption
    DEF IndInv, TypeOK, GuardOK, IntactInv, HeldOK, ChargeInv, ChargeOK, InCharge, Inodes, Origins,
        browser, calls, stream, disk
<1> SUFFICES ASSUME NEW v \in Uploads PROVE ChargeOK(v)'
  OBVIOUS
<1>1. CASE CreatePlaceholder(u)
  BY <1>1 DEF CreatePlaceholder
<1>2. CASE RefusePlaceholder(u)
  BY <1>2 DEF RefusePlaceholder
<1>3. CASE WritePlaceholder(u)
  BY <1>3 DEF WritePlaceholder
<1>4. CASE WritePlaceholderFails(u)
  BY <1>4 DEF WritePlaceholderFails
<1>5. CASE \E x \in unlinks[u] : Unlink(u, x)
  BY <1>5 DEF Unlink
<1>6. CASE Unzip(u)
  BY <1>6 DEF Unzip, Dest
<1>7. CASE UnzipFails(u)
  BY <1>7 DEF UnzipFails, Dest
<1> QED BY <1>1, <1>2, <1>3, <1>4, <1>5, <1>6, <1>7 DEF FileStep

LEMMA TransferCharge ==
    ASSUME IndInv, IntactInv, ChargeInv, NEW u \in Uploads, TransferStep(u)
    PROVE  ChargeInv'
<1> USE UploadsAssumption, NoneAssumption
    DEF IndInv, TypeOK, ChargeInv, ChargeOK, InCharge, Inodes, Origins, browser, calls, stream, disk
<1> SUFFICES ASSUME NEW v \in Uploads PROVE ChargeOK(v)'
  OBVIOUS
<1>1. CASE CreateFile(u)
  <2>1. entry' \in {entry, <<u, "transfer">>} /\ UNCHANGED <<browser, calls>>
    BY <1>1 DEF CreateFile, Opened
  <2> QED BY <2>1
<1>2. CASE Relay(u) \/ CreateFails(u) \/ Receive(u) \/ Land(u) \/ WriteFails(u) \/ Reply(u)
  BY <1>2 DEF Relay, CreateFails, Receive, Land, WriteFails, Reply
<1> QED BY <1>1, <1>2 DEF TransferStep

LEMMA StepCharge == IndInv /\ IntactInv /\ ChargeInv /\ [Next]_vars => ChargeInv'
<1> SUFFICES ASSUME IndInv, IntactInv, ChargeInv, [Next]_vars PROVE ChargeInv'
  OBVIOUS
<1>1. CASE UNCHANGED vars \/ Disconnect
  BY <1>1 DEF Disconnect, ChargeInv, ChargeOK, InCharge, vars, browser, calls, stream, disk
<1> QED BY <1>1, BrowserCharge, FileCharge, TransferCharge DEF Next

\* releaseFileGuard, and an fs.unlink of it that is under way, find the
\* placeholder of their own upload; and no placeholder stays without an upload
\* that has still to unlink or to complete it (MultiFileExplorer.tsx lines
\* 55-101 and 137-151).
THEOREM OwnFile == Spec => []GuardIsOwn
<1>1. Init => IndInv /\ IntactInv /\ ChargeInv
  BY InitInv, InitIntact, InitCharge
<1>2. IndInv /\ IntactInv /\ ChargeInv /\ [Next]_vars => (IndInv /\ IntactInv /\ ChargeInv)'
  BY StepInv, StepIntact, StepCharge
<1>3. IndInv /\ ChargeInv => GuardIsOwn
  <2>1. IndInv => UnlinksItsOwn
    BY DEF IndInv, GuardOK, UnlinksItsOwn
  <2>2. ChargeInv => NoneIsAbandoned
    BY DEF ChargeInv, ChargeOK, NoneIsAbandoned
  <2> QED BY <2>1, <2>2 DEF GuardIsOwn
<1> QED BY <1>1, <1>2, <1>3, PTL DEF Spec
===============================================================================
