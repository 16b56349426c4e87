-------------------------------- MODULE Watch --------------------------------
(***************************************************************************)
(* A file explorer's watcher in the client process: watch.rs and the       *)
(* Controller of pages/home-page/file-explorer/Common.tsx that drives it.  *)
(*                                                                         *)
(* Three parties meet: the handlers of the requests, which all run inside  *)
(* one task (for_each_concurrent); poll_event, a task of its own; and the  *)
(* thread of the notify crate, which runs the callback of async_watcher    *)
(* and blocks in it until the event is taken from a channel of capacity    *)
(* zero.  A handler that holds the watcher calls watch() and unwatch(),    *)
(* which block the whole task until that same thread has replied.          *)
(*                                                                         *)
(* The contents of a path are a version number; a missing path has one     *)
(* too.  A listing is the version read when it was begun.  The id of a     *)
(* Controller is a uuid and is opened once.  Requests bounds what the      *)
(* browser asks, Changes what happens to the file system.                  *)
(***************************************************************************)
EXTENDS Integers

CONSTANTS Requests,
          Paths,
          Home,     \* the working directory of the client
          Parent,   \* Path::parent, None for the root
          Changes,
          Poll,     \* poll_event as a holder of the watcher
          None

Kinds == {"open", "cd", "up", "close"}

ASSUME NoneAssumption == None \notin Requests \cup Paths \cup Kinds
ASSUME PollAssumption == Poll \notin Requests \cup {None}
ASSUME PathsAssumption == Home \in Paths /\ Parent \in [Paths -> Paths \cup {None}]
ASSUME ChangesAssumption == Changes \in Nat

VARIABLES kind, target, \* what a request asks for
          pc,           \* where its handler is
          watchers,     \* the handler that holds the Mutex of the map
          listed,       \* the map lists the watcher
          holder,       \* who holds the Mutex of the watcher
          current,      \* current_path
          sent,         \* the last listing sent: its path and version
          reading,      \* the version that the holder has read
          closing,      \* on_close was sent
          poll,         \* where poll_event is
          registered,   \* the path whose changes notify reports
          pending,      \* changes notify has not yet reported
          slot,         \* the channel is full and the thread blocked in its callback
          version,      \* contents of each path
          present,      \* the path exists
          changes       \* how often the file system has changed

request == <<kind, target>>
disk == <<version, present, changes>>
thread == <<registered, pending, slot>>
vars == <<request, pc, watchers, listed, holder, current, sent, reading, closing, poll, thread, disk>>

HandlerStates == {"none", "waiting", "finding", "arriving", "unwatching", "watching",
                  "reading", "sending", "ok", "error"}
PollStates == {"none", "idle", "arriving", "reading", "sending", "done"}

Init == /\ kind = [r \in Requests |-> None]
        /\ target = [r \in Requests |-> None]
        /\ pc = [r \in Requests |-> "none"]
        /\ watchers = None
        /\ listed = FALSE
        /\ holder = None
        /\ current = Home
        /\ sent = None
        /\ reading = 0
        /\ closing = FALSE
        /\ poll = "none"
        /\ registered = None
        /\ pending = 0
        /\ slot = FALSE
        /\ version = [p \in Paths |-> 0]
        /\ present \in [Paths -> BOOLEAN]
        /\ changes = 0

-----------------------------------------------------------------------------
(* The browser *)

Opened == \E r \in Requests : kind[r] = "open"

\* The Controller opens its watcher, then asks without waiting for answers.
Ask(r, k, p) == /\ pc[r] = "none"
                /\ k = "open" <=> ~Opened
                /\ k = "cd" <=> p # None
                /\ pc' = [pc EXCEPT ![r] = "waiting"]
                /\ kind' = [kind EXCEPT ![r] = k]
                /\ target' = [target EXCEPT ![r] = p]
                /\ UNCHANGED <<watchers, listed, holder, current, sent, reading, closing, poll, thread, disk>>

-----------------------------------------------------------------------------
(* The handler of a request *)

\* A handler inside watch() or unwatch() blocks the task of all handlers.
Blocked == \E r \in Requests : pc[r] \in {"unwatching", "watching"}

Goto(r, s) == pc' = [pc EXCEPT ![r] = s]

LockMap(r) == /\ ~Blocked
              /\ pc[r] = "waiting"
              /\ watchers = None
              /\ watchers' = r
              /\ Goto(r, "finding")
              /\ UNCHANGED <<request, listed, holder, current, sent, reading, closing, poll, thread, disk>>

\* Mutant of FindNothing: the early return keeps the map locked.
FindNothingLocked(r) == /\ ~Blocked
                        /\ pc[r] = "finding"
                        /\ kind[r] # "open"
                        /\ ~listed
                        /\ Goto(r, "ok")
                        /\ UNCHANGED <<request, watchers, listed, holder, current, sent, reading, closing, poll, thread, disk>>

\* Not listed (not yet, or no longer): nothing is done, and the answer is Ok.
FindNothing(r) == /\ ~Blocked
                  /\ pc[r] = "finding"
                  /\ kind[r] # "open"
                  /\ ~listed
                  /\ watchers' = None
                  /\ Goto(r, "ok")
                  /\ UNCHANGED <<request, listed, holder, current, sent, reading, closing, poll, thread, disk>>

\* The Arc is cloned, or taken off the map by a close, and the map unlocked.
Find(r) == /\ ~Blocked
           /\ pc[r] = "finding"
           /\ kind[r] # "open"
           /\ listed
           /\ listed' = (kind[r] # "close")
           /\ watchers' = None
           /\ Goto(r, "arriving")
           /\ UNCHANGED <<request, holder, current, sent, reading, closing, poll, thread, disk>>

\* MyWatcher::new: its thread is new and replies at once; the watcher is still
\* its own, and the map stays locked until the first listing is sent.
Open(r) == /\ ~Blocked
           /\ pc[r] = "finding"
           /\ kind[r] = "open"
           /\ holder' = r
           /\ registered' = IF present[Home] THEN Home ELSE None
           /\ Goto(r, "reading")
           /\ UNCHANGED <<request, watchers, listed, current, sent, reading, closing, poll, pending, slot, disk>>

\* RecommendedWatcher::new fails.
OpenFails(r) == /\ ~Blocked
                /\ pc[r] = "finding"
                /\ kind[r] = "open"
                /\ watchers' = None
                /\ Goto(r, "error")
                /\ UNCHANGED <<request, listed, holder, current, sent, reading, closing, poll, thread, disk>>

\* The watcher is locked; it leaves current_path, or reads it again when that
\* has no parent.
LockWatcher(r) == /\ ~Blocked
                  /\ pc[r] = "arriving"
                  /\ holder = None
                  /\ holder' = r
                  /\ IF kind[r] = "up" /\ Parent[current] = None
                     THEN Goto(r, "reading")
                     ELSE Goto(r, "unwatching")
                  /\ UNCHANGED <<request, watchers, listed, current, sent, reading, closing, poll, thread, disk>>

\* The listing is begun: metadata and read_dir of current_path.
Read(r) == /\ ~Blocked
           /\ pc[r] = "reading"
           /\ reading' = version[current]
           /\ Goto(r, "sending")
           /\ UNCHANGED <<request, watchers, listed, holder, current, sent, closing, poll, thread, disk>>

\* The listing is sent and the watcher unlocked.
SendListing(r) == /\ ~Blocked
                  /\ pc[r] = "sending"
                  /\ kind[r] \in {"cd", "up"}
                  /\ sent' = [path |-> current, version |-> reading]
                  /\ holder' = None
                  /\ Goto(r, "ok")
                  /\ UNCHANGED <<request, watchers, listed, current, reading, closing, poll, thread, disk>>

\* The first listing is sent, poll_event spawned and the watcher listed.
SendFirst(r) == /\ ~Blocked
                /\ pc[r] = "sending"
                /\ kind[r] = "open"
                /\ sent' = [path |-> current, version |-> reading]
                /\ holder' = None
                /\ poll' = "idle"
                /\ listed' = TRUE
                /\ watchers' = None
                /\ Goto(r, "ok")
                /\ UNCHANGED <<request, current, reading, closing, thread, disk>>

\* close(): on_close and the close event are sent, and the watcher unlocked.
SendClose(r) == /\ ~Blocked
                /\ pc[r] = "sending"
                /\ kind[r] = "close"
                /\ closing' = TRUE
                /\ holder' = None
                /\ Goto(r, "ok")
                /\ UNCHANGED <<request, watchers, listed, current, sent, reading, poll, thread, disk>>

-----------------------------------------------------------------------------
(* The thread of notify *)

\* The callback is entered: the event fills the channel and the thread blocks.
\* Without a receiver the callback returns at once.
Emit == /\ ~slot
        /\ pending > 0
        /\ pending' = pending - 1
        /\ slot' = (poll # "done")
        /\ UNCHANGED <<request, pc, watchers, listed, holder, current, sent, reading, closing, poll, registered, disk>>

\* The reply to unwatch(): the path is no longer reported.  The handler goes
\* on to watch() the new path, or to the close event.
Unwatch(r) == /\ ~slot
              /\ pc[r] = "unwatching"
              /\ registered' = None
              /\ IF kind[r] = "close"
                 THEN Goto(r, "sending") /\ UNCHANGED current
                 ELSE /\ Goto(r, "watching")
                      /\ current' = IF kind[r] = "cd" THEN target[r] ELSE Parent[current]
              /\ UNCHANGED <<request, watchers, listed, holder, sent, reading, closing, poll, pending, slot, disk>>

\* Mutant of Register: what was listed last is sent, and nothing is read.
RegisterUnread(r) == /\ ~slot
                     /\ pc[r] = "watching"
                     /\ registered' = IF present[current] THEN current ELSE None
                     /\ Goto(r, "sending")
                     /\ UNCHANGED <<request, watchers, listed, holder, current, sent, reading, closing, poll, pending, slot, disk>>

\* The reply to watch(), an error for a missing path; either is then told.
Register(r) == /\ ~slot
               /\ pc[r] = "watching"
               /\ registered' = IF present[current] THEN current ELSE None
               /\ Goto(r, "reading")
               /\ UNCHANGED <<request, watchers, listed, holder, current, sent, reading, closing, poll, pending, slot, disk>>

-----------------------------------------------------------------------------
(* poll_event *)

\* Mutant of TakeEvent: an event is dropped while the watcher is in use.
TakeEventTrying == /\ poll = "idle"
                   /\ slot
                   /\ slot' = FALSE
                   /\ poll' = IF holder = None THEN "arriving" ELSE "idle"
                   /\ UNCHANGED <<request, pc, watchers, listed, holder, current, sent, reading, closing, registered, pending, disk>>

\* rx.next() yields an event, and the thread goes on.
TakeEvent == /\ poll = "idle"
             /\ slot
             /\ slot' = FALSE
             /\ poll' = "arriving"
             /\ UNCHANGED <<request, pc, watchers, listed, holder, current, sent, reading, closing, registered, pending, disk>>

\* Mutant of PollLocks: the watcher is used without its Mutex.
PollEnters == /\ poll = "arriving"
              /\ poll' = "reading"
              /\ UNCHANGED <<request, pc, watchers, listed, holder, current, sent, reading, closing, thread, disk>>

PollLocks == /\ poll = "arriving"
             /\ holder = None
             /\ holder' = Poll
             /\ poll' = "reading"
             /\ UNCHANGED <<request, pc, watchers, listed, current, sent, reading, closing, thread, disk>>

PollReads == /\ poll = "reading"
             /\ reading' = version[current]
             /\ poll' = "sending"
             /\ UNCHANGED <<request, pc, watchers, listed, holder, current, sent, closing, thread, disk>>

PollSends == /\ poll = "sending"
             /\ sent' = [path |-> current, version |-> reading]
             /\ holder' = None
             /\ poll' = "idle"
             /\ UNCHANGED <<request, pc, watchers, listed, current, reading, closing, thread, disk>>

\* on_close: the loop ends, and the receiver is dropped with what is in it.
PollEnds == /\ poll = "idle"
            /\ closing
            /\ poll' = "done"
            /\ slot' = FALSE
            /\ UNCHANGED <<request, pc, watchers, listed, holder, current, sent, reading, closing, registered, pending, disk>>

-----------------------------------------------------------------------------
(* The file system *)

Change(p) == /\ changes < Changes
             /\ changes' = changes + 1
             /\ version' = [version EXCEPT ![p] = @ + 1]
             /\ UNCHANGED <<request, pc, watchers, listed, holder, current, sent, reading, closing, poll, slot>>

Report(p) == pending' = IF registered = p THEN pending + 1 ELSE pending

Modify(p) == /\ present[p]
             /\ Change(p)
             /\ Report(p)
             /\ UNCHANGED <<registered, present>>

\* The kernel's watch goes with the path.
Remove(p) == /\ present[p]
             /\ Change(p)
             /\ Report(p)
             /\ registered' = IF registered = p THEN None ELSE registered
             /\ present' = [present EXCEPT ![p] = FALSE]

Create(p) == /\ ~present[p]
             /\ Change(p)
             /\ present' = [present EXCEPT ![p] = TRUE]
             /\ UNCHANGED <<registered, pending>>

-----------------------------------------------------------------------------
BrowserStep(r) == \/ \E k \in {"open", "up", "close"} : Ask(r, k, None)
                  \/ \E p \in Paths : Ask(r, "cd", p)

HandlerStep(r) == \/ LockMap(r)
                  \/ FindNothing(r)
                  \/ Find(r)
                  \/ Open(r)
                  \/ OpenFails(r)
                  \/ LockWatcher(r)
                  \/ Read(r)
                  \/ SendListing(r)
                  \/ SendFirst(r)
                  \/ SendClose(r)

ThreadStep == Emit \/ \E r \in Requests : Unwatch(r) \/ Register(r)

PollStep == TakeEvent \/ PollLocks \/ PollReads \/ PollSends \/ PollEnds

DiskStep == \E p \in Paths : Modify(p) \/ Remove(p) \/ Create(p)

Next == \/ \E r \in Requests : BrowserStep(r) \/ HandlerStep(r)
        \/ ThreadStep
        \/ PollStep
        \/ DiskStep

Spec == Init /\ [][Next]_vars

\* Tasks and thread run when they can, and what is sent is taken; nothing is
\* asked of the browser or the file system.  With bounded requests and changes
\* nobody is overtaken for ever at a Mutex.
Fairness == /\ \A r \in Requests : WF_vars(HandlerStep(r))
            /\ WF_vars(ThreadStep)
            /\ WF_vars(PollStep)

FairSpec == Spec /\ Fairness

-----------------------------------------------------------------------------
(* Properties *)

InWatcher(r) == pc[r] \in {"unwatching", "watching", "reading", "sending"}

Sending == poll = "sending" \/ \E r \in Requests : pc[r] = "sending"

Now == [path |-> current, version |-> version[current]]

\* poll_event is going to be told of a change.
Reported == pending > 0 \/ slot \/ poll = "arriving"

\* Somebody is going to read current_path, or has just read it and will send it.
RefreshComes ==
    \/ Reported
    \/ poll = "reading"
    \/ \E r \in Requests : InWatcher(r) /\ pc[r] # "sending"
    \/ Sending /\ reading = version[current]

\* No change is missed: as long as the explorer is open and its path reported,
\* an outdated listing has a refresh on its way, however cd, close, changes and
\* events interleave (watch() registers before it reads, lines 157-174).
NoMissedChange ==
    registered = current /\ sent # None /\ ~closing /\ sent # Now => RefreshComes

\* The thread of notify waits for poll_event to take its event, poll_event for
\* the watcher, and the handler that has it for the thread.
Jam == \E r \in Requests : pc[r] \in {"unwatching", "watching"} /\ slot /\ poll = "arriving"

\* While no handler is blocked, whoever has the map or the watcher goes on: a
\* handler by itself, and so does poll_event.
HoldersGoOn == /\ watchers # None => pc[watchers] \in {"finding", "reading", "sending"}
               /\ holder = Poll => poll \in {"reading", "sending"}
               /\ holder \in Requests => pc[holder] \in {"reading", "sending"}

\* The jam stops the requests of a session, and nothing else in the watcher
\* does: a thread that does not reply to a blocked handler is about to be rid of
\* its event.  The three never get out of the jam, and with them no request.
JamIsTheDeadlock ==
    /\ [](Blocked /\ slot => poll = "idle" \/ Jam)
    /\ [](~Blocked => HoldersGoOn)
    /\ [][Jam => Jam' /\ \A r \in Requests : pc'[r] # pc[r] => pc[r] = "none"]_vars

\* Every request is answered, unless the jam closes.
AnsweredUnlessJammed ==
    \A r \in Requests : pc[r] = "waiting" ~> pc[r] \in {"ok", "error"} \/ Jam

\* When the file system rests the last listing is right, unless the path was
\* missing when it was entered or is removed, or the jam closes.
ListingConverges ==
    <>[](registered = current /\ ~closing /\ sent # None => sent = Now \/ Jam)

-----------------------------------------------------------------------------
(* The inductive invariant behind the safety properties *)

TypeOK == /\ kind \in [Requests -> Kinds \cup {None}]
          /\ target \in [Requests -> Paths \cup {None}]
          /\ pc \in [Requests -> HandlerStates]
          /\ watchers \in Requests \cup {None}
          /\ listed \in BOOLEAN
          /\ holder \in Requests \cup {Poll, None}
          /\ current \in Paths
          /\ sent \in [path : Paths, version : Nat] \cup {None}
          /\ reading \in Nat
          /\ closing \in BOOLEAN
          /\ poll \in PollStates
          /\ registered \in Paths \cup {None}
          /\ pending \in Nat
          /\ slot \in BOOLEAN
          /\ version \in [Paths -> Nat]
          /\ present \in [Paths -> BOOLEAN]
          /\ changes \in 0..Changes

\* Who is in the watcher holds it, who looks it up or opens it holds the map,
\* and only requests that change its path talk to the thread.
RequestOK(r) == /\ pc[r] # "none" => kind[r] \in Kinds
                /\ kind[r] = "cd" => target[r] \in Paths
                /\ pc[r] = "none" => kind[r] = None
                /\ InWatcher(r) <=> holder = r
                /\ watchers = r <=> \/ pc[r] = "finding"
                                    \/ kind[r] = "open" /\ pc[r] \in {"reading", "sending"}
                /\ pc[r] \in {"unwatching", "watching", "arriving"} => kind[r] # "open"
                /\ pc[r] = "unwatching" /\ kind[r] = "up" => Parent[current] # None
                /\ pc[r] \in {"watching", "reading"} => kind[r] # "close"
                /\ pc[r] = "watching" => registered = None
                /\ kind[r] = "close" /\ pc[r] = "sending" => registered = None

\* Until its one open is done the watcher is at Home, without poll_event, and
\* no other request has found it.
OpenOK == /\ \A r, s \in Requests : kind[r] = "open" /\ kind[s] = "open" => r = s
          /\ \A r \in Requests :
                /\ kind[r] = "open" /\ pc[r] \notin {"ok", "error"} => poll = "none"
                /\ kind[r] = "open" /\ pc[r] \in {"waiting", "finding"} => registered = None
                /\ kind[r] # "open" /\ (pc[r] = "arriving" \/ InWatcher(r)) => poll # "none"
          /\ ~Opened => poll = "none" /\ registered = None
          /\ poll = "none" => current = Home /\ ~listed /\ ~closing

IndInv == /\ TypeOK
          /\ \A r \in Requests : RequestOK(r)
          /\ OpenOK
          /\ poll \in {"reading", "sending"} <=> holder = Poll
          /\ registered # None => registered = current /\ present[current]
          /\ poll = "done" => closing /\ ~slot
          /\ Sending /\ registered = current /\ ~closing /\ reading # version[current] => Reported
          /\ NoMissedChange
=============================================================================
