-------------------------------- MODULE Upload --------------------------------
(***************************************************************************)
(* Uploads to one file name: MultiFileExplorer._upload, UploadController   *)
(* and Auth.upload in the browser, upload.rs, unzip.rs, fs.writeFile and   *)
(* fs.unlink in the internal client.                                       *)
(*                                                                         *)
(* An upload first creates a placeholder, which nobody else can create     *)
(* too, and remembers it in fileGuard.  Then a plain upload is POSTed over *)
(* it; a compressed one is POSTed to a temporary file and unzipped over    *)
(* it.  Cancel may come at any time and unlinks the placeholder, unless    *)
(* fileGuard was given up.                                                 *)
(*                                                                         *)
(* The client runs the file operations in threads, so those that are       *)
(* pending may come in any order.  A file has a name and an inode: who     *)
(* opened it goes on writing when the name is gone.  An inode is named by  *)
(* the upload and the operation that created it.  The browser goes from    *)
(* one await to the next in one action.                                    *)
(***************************************************************************)
EXTENDS Integers

CONSTANTS Uploads, Compressed, \* those made with config.uploadCompress
          Size,                \* of each file, in chunks
          PlaceholderSize,     \* of the placeholder's text, in chunks
          None

ASSUME UploadsAssumption == Compressed \subseteq Uploads
ASSUME SizeAssumption == Size \in [Uploads -> Nat \ {0}] /\ PlaceholderSize \in Nat \ {0}

Origins == {"placeholder", "transfer", "unzip", "temp"}
Inodes == Uploads \X Origins

ASSUME NoneAssumption == None \notin Uploads \cup Inodes

VARIABLES state,    \* UploadController.detail.state
          step,     \* the await props.upload is in
          guard,    \* fileGuard
          zipped,   \* the compressed data: pending, ok or error
          xhr,      \* Auth.upload: open, deaf (to abort), loaded or broken
          writes,   \* the call fs.writeFile
          unlinks,  \* calls of fs.unlink for the target or the temporary file
          unzip,    \* the call unzip
          transfer, \* upload.rs, its task included
          taken,    \* chunks of the body accepted by write_all
          landed,   \* chunks written: at most one is on its way
          failed,   \* uploads one of whose writes failed
          handle,   \* the inode a transfer writes to
          entry,    \* the inode the target names
          temps,    \* uploads whose temporary file exists
          content,  \* of each inode
          online    \* the session exists

browser == <<state, step, guard, zipped, xhr>>
calls == <<writes, unlinks, unzip>>
stream == <<transfer, taken, landed, failed, handle>>
disk == <<entry, temps, content>>
vars == <<browser, calls, stream, disk, online>>

\* Nobody's, or the data of one upload, or of several; the text of the
\* placeholder may stick out behind it.
Contents == [from : Uploads \cup {None, "mixed"}, size : Nat, tail : BOOLEAN]
Empty == [from |-> None, size |-> 0, tail |-> FALSE]

Init == /\ state = [u \in Uploads |-> "running"]
        /\ step = [u \in Uploads |-> "new"]
        /\ guard = [u \in Uploads |-> FALSE]
        /\ zipped = [u \in Uploads |-> IF u \in Compressed THEN "pending" ELSE "ok"]
        /\ xhr = [u \in Uploads |-> "none"]
        /\ writes = [u \in Uploads |-> "none"]
        /\ unlinks = [u \in Uploads |-> {}]
        /\ unzip = [u \in Uploads |-> "none"]
        /\ transfer = [u \in Uploads |-> "none"]
        /\ taken = [u \in Uploads |-> 0]
        /\ landed = [u \in Uploads |-> 0]
        /\ failed = {}
        /\ handle = [u \in Uploads |-> None]
        /\ entry = None
        /\ temps = {}
        /\ content = [i \in Inodes |-> Empty]
        /\ online = TRUE

-----------------------------------------------------------------------------
(* The browser *)

Goto(u, s) == step' = [step EXCEPT ![u] = s]

\* The promise of props.upload settles; a cancel is final.
Settle(u, s) == state' = IF state[u] = "running" THEN [state EXCEPT ![u] = s] ELSE state

\* releaseFileGuard, awaited: the placeholder is unlinked if it is still ours.
Release(u, g) == /\ guard' = [guard EXCEPT ![u] = FALSE]
                 /\ unlinks' = IF g THEN [unlinks EXCEPT ![u] = @ \cup {"target"}] ELSE unlinks
                 /\ Goto(u, "releasing")

Begin(u) == /\ step[u] = "new"
            /\ Goto(u, "guarding")
            /\ writes' = [writes EXCEPT ![u] = "asked"]
            /\ UNCHANGED <<state, guard, zipped, xhr, unlinks, unzip, stream, disk, online>>

\* Placeholder and compressed data are there.
Proceed(u, z) == IF state[u] # "running" \/ z = "error"
                 THEN Release(u, guard[u] \/ writes[u] = "ok")
                 ELSE /\ Goto(u, "token")
                      /\ guard' = [guard EXCEPT ![u] = TRUE]
                      /\ UNCHANGED unlinks

\* fs.writeFile is answered: the placeholder is ours.
TakeGuard(u) == /\ step[u] = "guarding"
                /\ writes[u] = "ok"
                /\ writes' = [writes EXCEPT ![u] = "taken"]
                /\ IF zipped[u] # "pending"
                   THEN Proceed(u, zipped[u])
                   ELSE guard' = [guard EXCEPT ![u] = TRUE] /\ UNCHANGED <<step, unlinks>>
                /\ UNCHANGED <<state, zipped, xhr, unzip, stream, disk, online>>

\* Mutant of GuardRefused: releaseFileGuard without fileGuard.
GuardRefusedUnlinking(u) == /\ step[u] = "guarding"
                            /\ writes[u] = "error"
                            /\ zipped[u] # "pending"
                            /\ Settle(u, "error")
                            /\ Release(u, TRUE)
                            /\ UNCHANGED <<zipped, xhr, writes, unzip, stream, disk, online>>

\* The file exists, or could not be written.
GuardRefused(u) == /\ step[u] = "guarding"
                   /\ writes[u] = "error"
                   /\ zipped[u] # "pending"
                   /\ Settle(u, "error")
                   /\ Goto(u, "over")
                   /\ UNCHANGED <<guard, zipped, xhr, calls, stream, disk, online>>

\* The file is read and compressed, or is not.
Compress(u) == /\ step[u] = "guarding"
               /\ zipped[u] = "pending"
               /\ \E z \in {"ok", "error"} :
                     /\ zipped' = [zipped EXCEPT ![u] = z]
                     /\ IF writes[u] = "taken"
                        THEN Proceed(u, z)
                        ELSE UNCHANGED <<guard, unlinks, step>>
               /\ UNCHANGED <<state, xhr, writes, unzip, stream, disk, online>>

\* auth.upload has its token and POSTs; an abort that came before is not heard.
Post(u) == /\ step[u] = "token"
           /\ online
           /\ Goto(u, "posting")
           /\ xhr' = [xhr EXCEPT ![u] = IF state[u] = "running" THEN "open" ELSE "deaf"]
           /\ UNCHANGED <<state, guard, zipped, calls, stream, disk, online>>

Posting(u) == step[u] = "posting" /\ xhr[u] \in {"open", "deaf"}

\* Mutant of PostBreaks: the upload fails and keeps its placeholder.
PostBreaksKeeping(u) == /\ Posting(u)
                        /\ xhr' = [xhr EXCEPT ![u] = "broken"]
                        /\ Settle(u, "error")
                        /\ Goto(u, "over")
                        /\ UNCHANGED <<guard, zipped, calls, stream, disk, online>>

\* The request breaks, or is answered by something that does not parse.
PostBreaks(u) == /\ Posting(u)
                 /\ xhr' = [xhr EXCEPT ![u] = "broken"]
                 /\ Release(u, guard[u])
                 /\ UNCHANGED <<state, zipped, writes, unzip, stream, disk, online>>

\* xhr.onload: a plain upload is done; a compressed one is unzipped, or removed
\* if it was cancelled.
Load(u) == /\ Posting(u)
           /\ xhr' = [xhr EXCEPT ![u] = "loaded"]
           /\ CASE u \notin Compressed ->
                      /\ guard' = [guard EXCEPT ![u] = FALSE]
                      /\ Settle(u, "completed")
                      /\ Goto(u, "over")
                      /\ UNCHANGED <<unlinks, unzip>>
                [] u \in Compressed /\ state[u] # "running" ->
                      /\ guard' = [guard EXCEPT ![u] = FALSE]
                      /\ unlinks' = [unlinks EXCEPT ![u] = @ \cup {"temp"} \cup
                                        IF guard[u] THEN {"target"} ELSE {}]
                      /\ Goto(u, "cleaning")
                      /\ UNCHANGED <<state, unzip>>
                [] OTHER ->
                      /\ unzip' = [unzip EXCEPT ![u] = "asked"]
                      /\ Goto(u, "unzipping")
                      /\ UNCHANGED <<state, guard, unlinks>>
           /\ UNCHANGED <<zipped, writes, stream, disk, online>>

\* The response of upload.rs comes through.
Respond(u) == transfer[u] = "replied" /\ Load(u)

\* The session is gone: "Auth request failed", with its quotes, does parse.
RefusedPost(u) == ~online /\ transfer[u] = "none" /\ Load(u)

\* unzip is answered, either way.
TakeUnzip(u) == /\ step[u] = "unzipping"
                /\ unzip[u] \in {"ok", "error"}
                /\ unlinks' = [unlinks EXCEPT ![u] = @ \cup {"temp"}]
                /\ Goto(u, "cleaning")
                /\ UNCHANGED <<state, guard, zipped, xhr, writes, unzip, stream, disk, online>>

\* The temporary file is unlinked.
Cleaned(u) == /\ step[u] = "cleaning"
              /\ "temp" \notin unlinks[u]
              /\ CASE unzip[u] = "error" -> Release(u, guard[u]) /\ UNCHANGED state
                   [] unzip[u] = "ok" -> /\ guard' = [guard EXCEPT ![u] = FALSE]
                                         /\ Settle(u, "completed")
                                         /\ Goto(u, "over")
                                         /\ UNCHANGED unlinks
                   [] OTHER -> /\ unlinks[u] = {}
                               /\ Goto(u, "over")
                               /\ UNCHANGED <<state, guard, unlinks>>
              /\ UNCHANGED <<zipped, xhr, writes, unzip, stream, disk, online>>

\* The placeholder is unlinked; what led here is rethrown.
Released(u) == /\ step[u] = "releasing"
               /\ "target" \notin unlinks[u]
               /\ Settle(u, "error")
               /\ Goto(u, "over")
               /\ UNCHANGED <<guard, zipped, xhr, calls, stream, disk, online>>

\* cancel(), or close() of an upload that is not completed; it does not wait.
Cancel(u) == /\ step[u] # "new"
             /\ state[u] # "completed"
             /\ state' = [state EXCEPT ![u] = "cancel"]
             /\ guard' = [guard EXCEPT ![u] = FALSE]
             /\ unlinks' = IF guard[u] THEN [unlinks EXCEPT ![u] = @ \cup {"target"}] ELSE unlinks
             /\ IF step[u] = "posting" /\ xhr[u] = "open"
                THEN xhr' = [xhr EXCEPT ![u] = "broken"] /\ Goto(u, "over")
                ELSE UNCHANGED <<xhr, step>>
             /\ UNCHANGED <<zipped, writes, unzip, stream, disk, online>>

-----------------------------------------------------------------------------
(* fs.writeFile and fs.unlink in the client *)

\* create_new, which fails for a name that exists.
CreatePlaceholder(u) == /\ online
                        /\ writes[u] = "asked"
                        /\ entry = None
                        /\ entry' = <<u, "placeholder">>
                        /\ writes' = [writes EXCEPT ![u] = "created"]
                        /\ UNCHANGED <<browser, unlinks, unzip, stream, temps, content, online>>

RefusePlaceholder(u) == /\ online
                        /\ writes[u] = "asked"
                        /\ writes' = [writes EXCEPT ![u] = "error"]
                        /\ UNCHANGED <<browser, unlinks, unzip, stream, disk, online>>

\* write_all and sync_all of the text.
WritePlaceholder(u) == /\ writes[u] = "created"
                       /\ writes' = [writes EXCEPT ![u] = "ok"]
                       /\ content' = [content EXCEPT ![<<u, "placeholder">>].tail = TRUE]
                       /\ UNCHANGED <<browser, unlinks, unzip, stream, entry, temps, online>>

\* The write fails, and the file stays.
WritePlaceholderFails(u) == /\ writes[u] = "created"
                            /\ writes' = [writes EXCEPT ![u] = "error"]
                            /\ failed' = failed \cup {u}
                            /\ UNCHANGED <<browser, unlinks, unzip, transfer, taken, landed, handle,
                                           disk, online>>

Unlink(u, x) == /\ online
                /\ x \in unlinks[u]
                /\ unlinks' = [unlinks EXCEPT ![u] = @ \ {x}]
                /\ IF x = "target"
                   THEN entry' = None /\ UNCHANGED temps
                   ELSE temps' = temps \ {u} /\ UNCHANGED entry
                /\ UNCHANGED <<browser, writes, unzip, stream, content, online>>

-----------------------------------------------------------------------------
(* upload.rs *)

\* The master has the request and asks the client; an abort it does not see.
Relay(u) == /\ online
            /\ step[u] = "posting" \/ xhr[u] = "broken"
            /\ transfer[u] = "none"
            /\ transfer' = [transfer EXCEPT ![u] = "asked"]
            /\ UNCHANGED <<browser, calls, taken, landed, failed, handle, disk, online>>

\* The inode File::create opens: a new one, unless the name exists.
Opened(u) == CASE u \in Compressed -> <<u, "temp">>
               [] u \notin Compressed /\ entry # None -> entry
               [] OTHER -> <<u, "transfer">>

\* File::create truncates, or creates.  The connection to the master, made at
\* the same time, may fail.
CreateFile(u) == /\ online
                 /\ transfer[u] = "asked"
                 /\ \E t \in {"receiving", "lost"} : transfer' = [transfer EXCEPT ![u] = t]
                 /\ handle' = [handle EXCEPT ![u] = Opened(u)]
                 /\ content' = [content EXCEPT ![Opened(u)] = Empty]
                 /\ IF u \in Compressed
                    THEN temps' = temps \cup {u} /\ UNCHANGED entry
                    ELSE entry' = Opened(u) /\ UNCHANGED temps
                 /\ UNCHANGED <<browser, calls, taken, landed, failed, online>>

\* The PUT is made, but the description of the file is never sent.
CreateFails(u) == /\ online
                  /\ transfer[u] = "asked"
                  /\ transfer' = [transfer EXCEPT ![u] = "lost"]
                  /\ UNCHANGED <<browser, calls, taken, landed, failed, handle, disk, online>>

\* write_all takes a chunk once the one before it is written; it returns before
\* its own is.
Receive(u) == /\ transfer[u] = "receiving"
              /\ taken[u] < Size[u]
              /\ taken[u] = landed[u]
              /\ taken' = [taken EXCEPT ![u] = @ + 1]
              /\ UNCHANGED <<browser, calls, transfer, landed, failed, handle, disk, online>>

Writing(u) == landed[u] < taken[u] /\ u \notin failed

Land(u) == /\ Writing(u)
           /\ landed' = [landed EXCEPT ![u] = @ + 1]
           /\ content' = [content EXCEPT ![handle[u]] =
                 [from |-> IF @.from \in {None, u} THEN u ELSE "mixed",
                  size |-> landed[u] + 1,
                  tail |-> @.tail /\ landed[u] + 1 < PlaceholderSize]]
           /\ UNCHANGED <<browser, calls, transfer, taken, failed, handle, entry, temps, online>>

\* The write fails, which the next write_all is told.
WriteFails(u) == /\ Writing(u)
                 /\ failed' = failed \cup {u}
                 /\ UNCHANGED <<browser, calls, transfer, taken, landed, handle, disk, online>>

\* Mutant of Reply: the body of the response does not wait for that of the
\* request.
ReplyAtOnce(u) == /\ transfer[u] = "receiving"
                  /\ transfer' = [transfer EXCEPT ![u] = "replied"]
                  /\ UNCHANGED <<browser, calls, taken, landed, failed, handle, disk, online>>

\* Mutant of Reply: a failed write leaves the loop, and the task.
ReplyIfWhole(u) == /\ transfer[u] = "receiving"
                   /\ taken[u] = Size[u] \/ xhr[u] = "broken"
                   /\ u \notin failed
                   /\ transfer' = [transfer EXCEPT ![u] = "replied"]
                   /\ UNCHANGED <<browser, calls, taken, landed, failed, handle, disk, online>>

\* The loop ends, at the end of the body or at an error of reading or writing,
\* and the description of the file is sent.
Reply(u) == /\ transfer[u] = "receiving"
            /\ taken[u] = Size[u] \/ u \in failed \/ xhr[u] = "broken"
            /\ transfer' = [transfer EXCEPT ![u] = "replied"]
            /\ UNCHANGED <<browser, calls, taken, landed, failed, handle, disk, online>>

-----------------------------------------------------------------------------
(* unzip.rs, which runs without an await *)

Dest(u) == IF entry = None THEN <<u, "unzip">> ELSE entry

\* The destination is created or overwritten, but not truncated.
Unzip(u) == /\ online
            /\ unzip[u] = "asked"
            /\ u \in temps
            /\ landed[u] = Size[u]
            /\ unzip' = [unzip EXCEPT ![u] = "ok"]
            /\ entry' = Dest(u)
            /\ content' = [content EXCEPT ![Dest(u)] =
                  [from |-> u, size |-> Size[u], tail |-> @.tail /\ Size[u] < PlaceholderSize]]
            /\ UNCHANGED <<browser, writes, unlinks, stream, temps, online>>

\* Mutant of UnzipFails: a file that ends too early is not noticed.
UnzipPart(u) == /\ online
                /\ unzip[u] = "asked"
                /\ unzip' = [unzip EXCEPT ![u] = "ok"]
                /\ entry' = Dest(u)
                /\ content' = [content EXCEPT ![Dest(u)] =
                      [from |-> u, size |-> landed[u], tail |-> @.tail]]
                /\ UNCHANGED <<browser, writes, unlinks, stream, temps, online>>

\* The temporary file is missing, or ends too early for its check sum, or a
\* write fails; the destination may exist by then and be written in part.
UnzipFails(u) == /\ online
                 /\ unzip[u] = "asked"
                 /\ unzip' = [unzip EXCEPT ![u] = "error"]
                 /\ \/ UNCHANGED <<entry, content>>
                    \/ /\ entry' = Dest(u)
                       /\ content' = [content EXCEPT ![Dest(u)].from = IF @ \in {None, u}
                                                                       THEN u ELSE "mixed"]
                 /\ UNCHANGED <<browser, writes, unlinks, stream, temps, online>>

\* The session ends, and the client with it.
Disconnect == /\ online
              /\ online' = FALSE
              /\ UNCHANGED <<browser, calls, stream, disk>>

-----------------------------------------------------------------------------
BrowserStep(u) == \/ TakeGuard(u)
                  \/ GuardRefused(u)
                  \/ Compress(u)
                  \/ Post(u)
                  \/ Respond(u)
                  \/ RefusedPost(u)
                  \/ TakeUnzip(u)
                  \/ Cleaned(u)
                  \/ Released(u)

FileStep(u) == \/ CreatePlaceholder(u)
               \/ RefusePlaceholder(u)
               \/ WritePlaceholder(u)
               \/ WritePlaceholderFails(u)
               \/ \E x \in unlinks[u] : Unlink(u, x)
               \/ Unzip(u)
               \/ UnzipFails(u)

TransferStep(u) == \/ Relay(u)
                   \/ CreateFile(u)
                   \/ CreateFails(u)
                   \/ Receive(u)
                   \/ Land(u)
                   \/ WriteFails(u)
                   \/ Reply(u)

\* The response of a lost description ends early, and its reader is told.
LosePost(u) == transfer[u] = "lost" /\ PostBreaks(u)

Next == \/ \E u \in Uploads : \/ Begin(u)
                              \/ BrowserStep(u)
                              \/ FileStep(u)
                              \/ TransferStep(u)
                              \/ PostBreaks(u)
                              \/ Cancel(u)
        \/ Disconnect

Spec == Init /\ [][Next]_vars

\* Browser, client and master go on with what they have begun.  Nobody has to
\* begin an upload, or to cancel it, and no request has to break unless its
\* response does.
Fairness == \A u \in Uploads : /\ WF_vars(BrowserStep(u))
                               /\ WF_vars(FileStep(u))
                               /\ WF_vars(TransferStep(u))
                               /\ WF_vars(LosePost(u))

FairSpec == Spec /\ Fairness

-----------------------------------------------------------------------------
(* Properties *)

\* What an upload unlinks, or may still unlink, under the target's name is the
\* placeholder it created: not a rival's file, nor its own finished upload,
\* whatever is cancelled, refused or late.
UnlinksItsOwn ==
    \A u \in Uploads : guard[u] \/ "target" \in unlinks[u] => entry = <<u, "placeholder">>

\* And the placeholder is always in somebody's charge: the call that creates it,
\* the guard of an upload that is not over, or the call that unlinks it; until
\* the upload is completed, or the disk refused the text.
InCharge(u) == \/ writes[u] \in {"created", "ok"} /\ step[u] = "guarding"
               \/ guard[u] /\ step[u] # "over"
               \/ "target" \in unlinks[u]
NoneIsAbandoned ==
    \A u \in Uploads : entry = <<u, "placeholder">> =>
        InCharge(u) \/ state[u] = "completed" \/ writes[u] = "error"

\* The placeholder and fileGuard agree at every await and cancel
\* (MultiFileExplorer.tsx:55-101, 137-151).
GuardIsOwn == UnlinksItsOwn /\ NoneIsAbandoned

\* No other upload got as far as writing to the name, and no write of u failed.
Undisturbed(u) == /\ u \notin failed
                  /\ \A v \in Uploads \ {u} : transfer[v] = "none" /\ unzip[v] = "none"

Intact(u) == entry # None /\ content[entry] = [from |-> u, size |-> Size[u], tail |-> FALSE]

\* An upload shown as completed is on the disk as it was chosen, or its last
\* chunk is being written.  Left aside are rivals, failed writes, sessions that
\* ended, and files shorter than the placeholder that are unzipped over it.
CompletedIsIntact ==
    \A u \in Uploads :
        /\ state[u] = "completed" /\ Undisturbed(u) /\ transfer[u] # "none"
        /\ u \in Compressed => Size[u] >= PlaceholderSize
        => Intact(u) \/ (Writing(u) /\ entry = handle[u])

\* Unzipping notices a truncated upload: a compressed one is never completed
\* after a failed write, unlike a plain one.
TruncatedIsNoticed ==
    \A u \in Compressed : state[u] = "completed" /\ xhr[u] = "loaded" => landed[u] = Size[u]

\* A compressed upload that got its response leaves no temporary file, be it
\* cancelled, refused by unzip or completed.
TempIsRemoved ==
    \A u \in Compressed : step[u] = "over" /\ xhr[u] = "loaded" => u \notin temps

\* Whatever fails on the way, a compressed upload is completed with the whole
\* file or not at all, and takes its temporary file away in both cases.
PackedIsWholeAndTidy == TruncatedIsNoticed /\ TempIsRemoved

\* No placeholder is left behind by an upload that was cancelled or failed,
\* unless the session ended or the disk refused its text.
NoPlaceholderLeft ==
    <>[](\A u \in Uploads : state[u] \in {"cancel", "error"} /\ online /\ u \notin failed
                                => entry # <<u, "placeholder">>)

\* Every upload comes to an end.
UploadEnds == \A u \in Uploads : step[u] = "guarding" ~> step[u] = "over" \/ ~online

\* "You can preview/download server's file or upload file to server" (README
\* line 5): a completed upload that nothing disturbed is the chosen file.
UploadedAsIs ==
    \A u \in Uploads : state[u] = "completed" /\ Undisturbed(u) /\ online
                           => Intact(u) \/ Writing(u)

-----------------------------------------------------------------------------
(* The inductive invariant behind GuardIsOwn, TruncatedIsNoticed and TempIsRemoved *)

TypeOK == /\ state \in [Uploads -> {"running", "completed", "error", "cancel"}]
          /\ step \in [Uploads -> {"new", "guarding", "token", "posting", "unzipping",
                                   "cleaning", "releasing", "over"}]
          /\ guard \in [Uploads -> BOOLEAN]
          /\ zipped \in [Uploads -> {"pending", "ok", "error"}]
          /\ xhr \in [Uploads -> {"none", "open", "deaf", "loaded", "broken"}]
          /\ writes \in [Uploads -> {"none", "asked", "created", "ok", "taken", "error"}]
          /\ unlinks \in [Uploads -> SUBSET {"target", "temp"}]
          /\ unzip \in [Uploads -> {"none", "asked", "ok", "error"}]
          /\ transfer \in [Uploads -> {"none", "asked", "receiving", "lost", "replied"}]
          /\ taken \in [Uploads -> Nat]
          /\ landed \in [Uploads -> Nat]
          /\ failed \subseteq Uploads
          /\ handle \in [Uploads -> Inodes \cup {None}]
          /\ entry \in Inodes \cup {None}
          /\ temps \subseteq Uploads
          /\ content \in [Inodes -> Contents]
          /\ online \in BOOLEAN

\* From its creation to the call that unlinks it, and while that is pending, the
\* placeholder has the name; the three do not overlap.
GuardOK(u) ==
    /\ guard[u] \/ "target" \in unlinks[u] \/ writes[u] \in {"created", "ok"}
          => entry = <<u, "placeholder">>
    /\ guard[u] => "target" \notin unlinks[u]
    /\ writes[u] \in {"created", "ok"} => ~guard[u] /\ "target" \notin unlinks[u]
    /\ writes[u] \in {"none", "asked"} => ~guard[u] /\ "target" \notin unlinks[u]
    /\ step[u] = "guarding" /\ writes[u] = "taken" /\ state[u] = "running" => guard[u]
    /\ step[u] = "new" => writes[u] = "none"

\* A request that was answered does not reach the client any more.
RequestOK(u) ==
    /\ step[u] \in {"new", "guarding", "token"} => xhr[u] = "none"
    /\ step[u] = "posting" <=> xhr[u] \in {"open", "deaf"}
    /\ step[u] \in {"unzipping", "cleaning"} => xhr[u] = "loaded"
    /\ xhr[u] = "loaded" => transfer[u] = "replied" \/ (transfer[u] = "none" /\ ~online)

\* A temporary file lives until its unlinking.
TempOK(u) ==
    /\ "temp" \notin unlinks[u] /\ step[u] = "cleaning" => u \notin temps
    /\ xhr[u] = "loaded" /\ step[u] \in {"releasing", "over"} => u \notin temps

\* Only a whole temporary file can be unzipped.
WholeOK(u) ==
    /\ landed[u] <= taken[u] /\ taken[u] <= Size[u]
    /\ transfer[u] = "receiving" \/ landed[u] < taken[u] => handle[u] # None
    /\ unzip[u] = "ok" => landed[u] = Size[u]
    /\ u \in Compressed /\ state[u] = "completed" => unzip[u] = "ok"

IndInv == /\ TypeOK
          /\ \A u \in Uploads : GuardOK(u) /\ RequestOK(u) /\ WholeOK(u)
          /\ \A u \in Compressed : TempOK(u)

-----------------------------------------------------------------------------
(* What CompletedIsIntact needs besides: inductive together with IndInv *)

\* A running upload keeps fileGuard until its promise settles; a completed one
\* has given it up, and asks for nothing any more.
HeldOK(u) ==
    /\ state[u] = "running" /\ step[u] \in {"token", "posting", "unzipping", "cleaning"} => guard[u]
    /\ state[u] = "completed" => /\ step[u] = "over" /\ xhr[u] = "loaded"
                                 /\ ~guard[u] /\ "target" \notin unlinks[u]
    /\ step[u] \notin {"new", "guarding"} => writes[u] \in {"taken", "error"}
    /\ unzip[u] = "asked" => step[u] = "unzipping"

\* The master hears of a request that was made, at most one chunk is on its way,
\* and the response to an open request waits for the end of the body.
StreamOK(u) ==
    /\ xhr[u] = "none" => transfer[u] = "none"
    /\ transfer[u] = "asked" => step[u] = "posting" \/ xhr[u] = "broken"
    /\ transfer[u] \in {"none", "asked"} => taken[u] = 0
    /\ taken[u] <= landed[u] + 1
    /\ transfer[u] = "replied" => taken[u] = Size[u] \/ u \in failed \/ xhr[u] = "broken"
    /\ IF u \in Compressed THEN handle[u] # None => handle[u] = <<u, "temp">> ELSE unzip[u] = "none"

\* The first n chunks of an upload and nothing else.
Chunks(u, n) == [from |-> IF n = 0 THEN None ELSE u, size |-> n, tail |-> FALSE]

\* The bytes of an upload go to its own placeholder, from its start: a plain one
\* is truncated first, a compressed one covers the text.
OwnData(u) ==
    /\ state[u] = "completed" /\ transfer[u] # "none" => entry = <<u, "placeholder">>
    /\ u \notin Compressed /\ xhr[u] # "broken" /\ transfer[u] \in {"receiving", "replied"}
          => /\ handle[u] = <<u, "placeholder">>
             /\ content[<<u, "placeholder">>] = Chunks(u, landed[u])
    /\ unzip[u] = "ok" /\ Size[u] >= PlaceholderSize
          => content[<<u, "placeholder">>] = Chunks(u, Size[u])

DataOK(u) == Undisturbed(u) /\ state[u] \in {"running", "completed"} => OwnData(u)

IntactInv == \A u \in Uploads : HeldOK(u) /\ StreamOK(u) /\ DataOK(u)

-----------------------------------------------------------------------------
(* What NoneIsAbandoned needs besides *)

\* Only a running upload has its guard beyond the first await, a cancelled one
\* gave it up, and a call that is not answered is awaited.
ChargeOK(u) ==
    /\ entry = <<u, "placeholder">> => InCharge(u) \/ state[u] = "completed" \/ writes[u] = "error"
    /\ guard[u] => /\ step[u] \notin {"releasing", "over"} /\ writes[u] = "taken"
                   /\ step[u] # "guarding" => state[u] = "running"
    /\ writes[u] \in {"asked", "created", "ok"} => step[u] = "guarding"
    /\ step[u] = "cleaning" /\ unzip[u] = "none" => state[u] # "running"

ChargeInv == \A u \in Uploads : ChargeOK(u)
=============================================================================
