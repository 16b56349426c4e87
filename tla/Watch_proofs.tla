------------------------------ MODULE Watch_proofs ------------------------------
(***************************************************************************)
(* For any requests, paths and number of changes: no change of the watched *)
(* directory is missed, and the jam of thread, poll_event and handler is   *)
(* for ever, and the only one.                                             *)
(*                                                                         *)
(* NoMissedChange is not inductive alone: a listing that is about to be    *)
(* sent may be older than the one sent last.  IndInv adds that an outdated *)
(* reading has its change reported, that whoever reads holds the watcher,  *)
(* and that only the holder touches current_path and its registration.     *)
(***************************************************************************)
EXTENDS Watch, TLAPS

USE NoneAssumption, PollAssumption, PathsAssumption, ChangesAssumption DEF Kinds

LEMMA InitInv == Init => IndInv
<1> SUFFICES ASSUME Init PROVE IndInv
  OBVIOUS
<1> USE DEF Init
<1>1. TypeOK
  <2>1. slot \in BOOLEAN /\ listed \in BOOLEAN /\ closing \in BOOLEAN /\ present \in [Paths -> BOOLEAN]
    OBVIOUS
  <2> QED BY <2>1 DEF TypeOK, HandlerStates, PollStates
<1>2. \A r \in Requests : RequestOK(r)
  BY DEF RequestOK, InWatcher
<1>3. OpenOK
  BY DEF OpenOK, Opened, InWatcher
<1>4. NoMissedChange /\ ~Sending
  BY DEF NoMissedChange, Sending
<1> QED BY <1>1, <1>2, <1>3, <1>4 DEF IndInv

\* A request is made.
LEMMA BrowserInv ==
    ASSUME IndInv, NEW r \in Requests, BrowserStep(r)
    PROVE  IndInv'
<1> USE DEF IndInv, TypeOK, HandlerStates, PollStates, RequestOK, InWatcher,
            OpenOK, Opened, Sending, Reported, RefreshComes, NoMissedChange, Now, request, disk, thread
<1>1. CASE \E k \in {"open", "up", "close"} : Ask(r, k, None)
  BY <1>1 DEF Ask
<1>2. CASE \E p \in Paths : Ask(r, "cd", p)
  BY <1>2 DEF Ask
<1> QED BY <1>1, <1>2 DEF BrowserStep

\* The steps of the handler of a request.
LEMMA HandlerInv ==
    ASSUME IndInv, NEW r \in Requests, HandlerStep(r)
    PROVE  IndInv'
<1> USE DEF IndInv, TypeOK, HandlerStates, PollStates, RequestOK, InWatcher,
            OpenOK, Opened, Sending, Reported, RefreshComes, NoMissedChange, Now, request, disk, thread
<1>1. CASE LockMap(r)
  BY <1>1 DEF LockMap, Goto
<1>2. CASE FindNothing(r)
  BY <1>2 DEF FindNothing, Goto
<1>3. CASE Find(r)
  BY <1>3 DEF Find, Goto
<1>4. CASE Open(r)
  BY <1>4 DEF Open, Goto
<1>5. CASE OpenFails(r)
  BY <1>5 DEF OpenFails, Goto
<1>6. CASE LockWatcher(r)
  BY <1>6 DEF LockWatcher, Goto
<1>7. CASE Read(r)
  BY <1>7 DEF Read, Goto
<1>8. CASE SendListing(r)
  BY <1>8 DEF SendListing, Goto
<1>9. CASE SendFirst(r)
  BY <1>9 DEF SendFirst, Goto
<1>10. CASE SendClose(r)
  BY <1>10 DEF SendClose, Goto
<1> QED BY <1>1, <1>2, <1>3, <1>4, <1>5, <1>6, <1>7, <1>8, <1>9, <1>10 DEF HandlerStep

\* The steps of the thread of notify.
LEMMA ThreadInv ==
    ASSUME IndInv, ThreadStep
    PROVE  IndInv'
<1> USE DEF IndInv, TypeOK, HandlerStates, PollStates, RequestOK, InWatcher,
            OpenOK, Opened, Sending, Reported, RefreshComes, NoMissedChange, Now, request, disk, thread
<1>1. CASE Emit
  <2>1. (slot' <=> poll # "done") /\ slot' \in BOOLEAN
    BY <1>1 DEF Emit
  <2>2. /\ pending' = pending - 1 /\ pending > 0
        /\ UNCHANGED <<request, pc, watchers, listed, holder, current, sent, reading, closing, poll, registered, disk>>
    BY <1>1 DEF Emit
  <2> QED BY <2>1, <2>2
<1>2. CASE \E r \in Requests : Unwatch(r)
  BY <1>2 DEF Unwatch, Goto
<1>3. CASE \E r \in Requests : Register(r)
  BY <1>3 DEF Register, Goto
<1> QED BY <1>1, <1>2, <1>3 DEF ThreadStep

\* The steps of poll_event.
LEMMA PollInv ==
    ASSUME IndInv, PollStep
    PROVE  IndInv'
<1> USE DEF IndInv, TypeOK, HandlerStates, PollStates, RequestOK, InWatcher,
            OpenOK, Opened, Sending, Reported, RefreshComes, NoMissedChange, Now, request, disk, thread
<1>1. CASE TakeEvent
  BY <1>1 DEF TakeEvent
<1>2. CASE PollLocks
  BY <1>2 DEF PollLocks
<1>3. CASE PollReads
  BY <1>3 DEF PollReads
<1>4. CASE PollSends
  BY <1>4 DEF PollSends
<1>5. CASE PollEnds
  BY <1>5 DEF PollEnds
<1> QED BY <1>1, <1>2, <1>3, <1>4, <1>5 DEF PollStep

\* What happens to the file system.
LEMMA DiskInv ==
    ASSUME IndInv, NEW p \in Paths, Modify(p) \/ Remove(p) \/ Create(p)
    PROVE  IndInv'
<1> USE DEF IndInv, TypeOK, HandlerStates, PollStates, RequestOK, InWatcher,
            OpenOK, Opened, Sending, Reported, RefreshComes, NoMissedChange, Now, request, disk, thread
<1>1. CASE Modify(p)
  BY <1>1 DEF Modify, Change, Report
<1>2. CASE Remove(p)
  BY <1>2 DEF Remove, Change, Report
<1>3. CASE Create(p)
  <2>1. present' \in [Paths -> BOOLEAN]
    BY <1>3 DEF Create
  <2>2. /\ version' = [version EXCEPT ![p] = @ + 1]
        /\ changes < Changes /\ changes' = changes + 1
        /\ UNCHANGED <<request, pc, watchers, listed, holder, current, sent, reading, closing, poll, thread>>
    BY <1>3 DEF Create, Change
  <2>3. p = current => registered # current
    BY <1>3 DEF Create
  <2>4. registered # None => present'[current]
    BY <1>3 DEF Create
  <2>5. TypeOK'
    BY <2>1, <2>2
  <2>6. registered' # None => registered' = current' /\ present'[current']
    BY <2>2, <2>4
  <2>7. Sending' /\ registered' = current' /\ ~closing' /\ reading' # version'[current'] => Reported'
    BY <2>2, <2>3
  <2>8. NoMissedChange'
    BY <2>2, <2>3
  <2>9. OpenOK' /\ \A r \in Requests : RequestOK(r)'
    BY <2>2
  <2> QED BY <2>2, <2>5, <2>6, <2>7, <2>8, <2>9
<1> QED BY <1>1, <1>2, <1>3

LEMMA StepInv == IndInv /\ [Next]_vars => IndInv'
<1> SUFFICES ASSUME IndInv, [Next]_vars PROVE IndInv'
  OBVIOUS
<1>1. CASE UNCHANGED vars
  BY <1>1 DEF vars, IndInv, TypeOK, HandlerStates, PollStates, RequestOK, InWatcher,
              OpenOK, Opened, Sending, Reported, RefreshComes, NoMissedChange, Now, request, disk, thread
<1> QED BY <1>1, BrowserInv, HandlerInv, ThreadInv, PollInv, DiskInv DEF Next, DiskStep

THEOREM Invariance == Spec => []IndInv
BY InitInv, StepInv, PTL DEF Spec

\* Type correctness of the watcher.
THEOREM TypeCorrect == Spec => []TypeOK
<1>1. IndInv => TypeOK
  BY DEF IndInv
<1> QED BY <1>1, Invariance, PTL

\* An outdated listing has a refresh on its way (watch.rs lines 127-174).
THEOREM Refreshes == Spec => []NoMissedChange
<1>1. IndInv => NoMissedChange
  BY DEF IndInv
<1> QED BY <1>1, Invariance, PTL

\* The jam of thread, poll_event and handler is for ever, no request of the
\* session is handled in it, and nothing else holds a request up: with slot full
\* poll_event is idle or arrives, as a blocked handler has the watcher (watch.rs
\* lines 140, 157-162 and 413-417).
THEOREM Permanence == Spec => JamIsTheDeadlock
<1>1. IndInv => (Blocked /\ slot => poll = "idle" \/ Jam)
  BY DEF Blocked, Jam, IndInv, TypeOK, PollStates, RequestOK, OpenOK, InWatcher
<1>2. IndInv => (~Blocked => HoldersGoOn)
  BY DEF Blocked, HoldersGoOn, IndInv, TypeOK, RequestOK, InWatcher
<1>3. IndInv /\ [Next]_vars =>
         [Jam => Jam' /\ \A r \in Requests : pc'[r] # pc[r] => pc[r] = "none"]_vars
  <2> SUFFICES ASSUME IndInv, Next, Jam
               PROVE  Jam' /\ \A r \in Requests : pc'[r] # pc[r] => pc[r] = "none"
    OBVIOUS
  <2>1. PICK q \in Requests : pc[q] \in {"unwatching", "watching"} /\ slot /\ poll = "arriving"
    BY DEF Jam
  <2>2. Blocked /\ holder # None /\ pc \in [Requests -> HandlerStates]
    BY <2>1 DEF Blocked, IndInv, TypeOK, RequestOK, InWatcher
  <2>3. /\ pc'[q] = pc[q] /\ slot' = slot /\ poll' = poll
        /\ \A r \in Requests : pc'[r] # pc[r] => pc[r] = "none"
    <3>1. CASE \E r \in Requests : BrowserStep(r)
      BY <2>1, <2>2, <3>1 DEF BrowserStep, Ask, thread
    <3>2. CASE \E r \in Requests : HandlerStep(r)
      BY <2>2, <3>2 DEF HandlerStep, LockMap, FindNothing, Find, Open, OpenFails,
                        LockWatcher, Read, SendListing, SendFirst, SendClose
    <3>3. CASE ThreadStep
      BY <2>1, <3>3 DEF ThreadStep, Emit, Unwatch, Register
    <3>4. CASE PollStep
      BY <2>1, <2>2, <3>4 DEF PollStep, TakeEvent, PollLocks, PollReads, PollSends, PollEnds
    <3>5. CASE DiskStep
      BY <3>5 DEF DiskStep, Modify, Remove, Create, Change
    <3> QED BY <3>1, <3>2, <3>3, <3>4, <3>5 DEF Next
  <2> QED BY <2>1, <2>3 DEF Jam
<1> QED BY <1>1, <1>2, <1>3, Invariance, PTL DEF Spec, JamIsTheDeadlock
===============================================================================
