------------------------- MODULE WebSocketPeer_proofs -------------------------
(***************************************************************************)
(* For any calls, fetches, events and limit: a fetch whose client said     *)
(* null never waits, no response gets lost, no map keeps the entry of a    *)
(* request that is over unless its browser gave it up, a call orphaned by  *)
(* a crash or a jam keeps its session for ever, and all of it together     *)
(* implements Session.                                                     *)
(*                                                                         *)
(* The heart of IndInv is FetchOK: an answered PUT has emptied the         *)
(* registration, unless the callback that would bring the null is gone.    *)
(* A PUT that finds no peer was looked up after the teardown unlocked the  *)
(* map (SessionOK), when all callbacks were dropped already.               *)
(* Session needs PromiseInv besides: what was not sent was not acted on,   *)
(* and nothing is joined once the registrations were dropped.              *)
(***************************************************************************)
EXTENDS WebSocketPeer, TLAPS

LEMMA InitInv == Init => IndInv
<1> SUFFICES ASSUME Init PROVE IndInv
  OBVIOUS
<1> USE DisjointAssumption DEF Init, Requests, Notifiers
<1>1. TypeOK
  BY DEF TypeOK, RequestStates
<1>2. SessionOK /\ \A x \in Requests \cup Events : HolderOK(x)
  BY DEF SessionOK, InProgress, HolderOK
<1>3. (\A x \in Requests : RelayOK(x)) /\ \A h \in Fetches : FetchOK(h)
  BY DEF RelayOK, FetchOK, Unasked
<1> QED BY <1>1, <1>2, <1>3 DEF IndInv

\* The steps of the relay of a request.
LEMMA RelayInv ==
    ASSUME IndInv, NEW x \in Requests, RelayStep(x) \/ SendRequest(x)
    PROVE  IndInv'
<1> USE DisjointAssumption
    DEF IndInv, TypeOK, SessionOK, HolderOK, RelayOK, FetchOK, InProgress, Requests, Notifiers,
        RequestStates, Unasked, Goto, peerSide, relay, rendezvous, eventSide, clientSide
<1>1. CASE BeginSend(x)
  BY <1>1 DEF BeginSend
<1>2. CASE SendRequest(x)
  BY <1>2 DEF SendRequest
<1>3. CASE SendFails(x)
  BY <1>3 DEF SendFails, Unsendable
<1>4. CASE FeedResponse(x)
  BY <1>4 DEF FeedResponse
<1> QED BY <1>1, <1>2, <1>3, <1>4 DEF RelayStep

\* The steps of forward_event.
LEMMA NotifyInv ==
    ASSUME IndInv, NEW x \in Notifiers, NotifyStep(x)
    PROVE  IndInv'
<1> USE DisjointAssumption
    DEF IndInv, TypeOK, SessionOK, HolderOK, RelayOK, FetchOK, InProgress, Requests, Notifiers,
        RequestStates, Unasked, Goto, peerSide, relay, rendezvous, eventSide, clientSide
<1>1. CASE ForwardEvent(x)
  BY <1>1 DEF ForwardEvent
<1>2. CASE EventForwarded(x)
  BY <1>2 DEF EventForwarded
<1>3. CASE ForwardFails(x)
  BY <1>3 DEF ForwardFails
<1>4. CASE LockConn(x)
  BY <1>4 DEF LockConn
<1> QED BY <1>1, <1>2, <1>3, <1>4 DEF NotifyStep

\* The steps of a call.
LEMMA CallInv ==
    ASSUME IndInv, NEW k \in Calls, ReadCall(k) \/ CallStep(k)
    PROVE  IndInv'
<1> USE DisjointAssumption
    DEF IndInv, TypeOK, SessionOK, HolderOK, RelayOK, FetchOK, InProgress, Requests, Notifiers,
        RequestStates, Unasked, Goto, peerSide, relay, rendezvous, eventSide, clientSide
<1>1. CASE ReadCall(k)
  BY <1>1 DEF ReadCall
<1>2. CASE TakeReply(k)
  BY <1>2 DEF TakeReply
<1>3. CASE AnswerCall(k)
  BY <1>3 DEF AnswerCall
<1> QED BY <1>1, <1>2, <1>3 DEF CallStep

\* The steps of a fetch and of its PUT in the master.
LEMMA FetchInv ==
    ASSUME IndInv, NEW h \in Fetches,
           \/ FindPeer(h) \/ FindNoPeer(h) \/ FetchStep(h) \/ PutStep(h)
           \/ Abandon(h) \/ DropPut(h)
    PROVE  IndInv'
<1> USE DisjointAssumption
    DEF IndInv, TypeOK, SessionOK, HolderOK, RelayOK, FetchOK, InProgress, Requests, Notifiers,
        RequestStates, Unasked, Goto, peerSide, relay, rendezvous, eventSide, clientSide
<1>1. CASE FindPeer(h)
  BY <1>1 DEF FindPeer
<1>2. CASE FindNoPeer(h)
  BY <1>2 DEF FindNoPeer
<1>3. CASE Register(h)
  BY <1>3 DEF Register
<1>4. CASE TakeAck(h)
  BY <1>4 DEF TakeAck
<1>5. CASE TakeRefusal(h)
  BY <1>5 DEF TakeRefusal
<1>6. CASE CancelRegister(h)
  BY <1>6 DEF CancelRegister
<1>7. CASE Match(h)
  BY <1>7 DEF Match
<1>8. CASE LookupPut(h)
  BY <1>8 DEF LookupPut
<1>9. CASE FeedPut(h)
  BY <1>9 DEF FeedPut
<1>10. CASE Abandon(h)
  BY <1>10 DEF Abandon, AtAwait
<1>11. CASE DropPut(h)
  BY <1>11 DEF DropPut
<1> QED BY <1>1, <1>2, <1>3, <1>4, <1>5, <1>6, <1>7, <1>8, <1>9, <1>10, <1>11 DEF FetchStep, PutStep

\* The steps of poll_event, of the browser's hangup and of the teardown.
LEMMA SessionInv ==
    ASSUME IndInv, PollStep \/ HangUp \/ TeardownStep
    PROVE  IndInv'
<1> USE DisjointAssumption
    DEF IndInv, TypeOK, SessionOK, HolderOK, RelayOK, FetchOK, InProgress, Requests, Notifiers,
        RequestStates, Unasked, Goto, peerSide, relay, rendezvous, eventSide, clientSide
<1>1. CASE PopEvent
  BY <1>1 DEF PopEvent
<1>2. CASE WriteEvent
  BY <1>2 DEF WriteEvent
<1>3. CASE EndPoller
  BY <1>3 DEF EndPoller
<1>4. CASE HangUp
  BY <1>4 DEF HangUp
<1>5. CASE RemovePeer
  <2>1. TypeOK'
    BY <1>5 DEF RemovePeer
  <2>2. SessionOK' /\ \A x \in Requests \cup Events : HolderOK(x)'
    BY <1>5 DEF RemovePeer
  <2>3. ASSUME NEW x \in Requests PROVE RelayOK(x)'
    BY <1>5 DEF RemovePeer
  <2>4. ASSUME NEW h \in Fetches PROVE FetchOK(h)'
    BY <1>5 DEF RemovePeer
  <2> HIDE DEF TypeOK, SessionOK, HolderOK, RelayOK, FetchOK
  <2> QED BY <2>1, <2>2, <2>3, <2>4
<1>6. CASE ClearQueue
  BY <1>6 DEF ClearQueue
<1>7. CASE CloseConn
  <2>1. TypeOK'
    BY <1>7 DEF CloseConn
  <2>2. SessionOK' /\ \A x \in Requests \cup Events : HolderOK(x)'
    BY <1>7 DEF CloseConn
  <2>3. ASSUME NEW x \in Requests PROVE RelayOK(x)'
    BY <1>7 DEF CloseConn
  <2>4. ASSUME NEW h \in Fetches PROVE FetchOK(h)'
    BY <1>7 DEF CloseConn
  <2> HIDE DEF TypeOK, SessionOK, HolderOK, RelayOK, FetchOK
  <2> QED BY <2>1, <2>2, <2>3, <2>4
<1>8. CASE Close
  <2>1. TypeOK'
    BY <1>8 DEF Close
  <2>2. SessionOK' /\ \A x \in Requests \cup Events : HolderOK(x)'
    BY <1>8 DEF Close
  <2>3. ASSUME NEW x \in Requests PROVE RelayOK(x)'
    BY <1>8 DEF Close
  <2>4. ASSUME NEW h \in Fetches PROVE FetchOK(h)'
    BY <1>8 DEF Close
  <2> HIDE DEF TypeOK, SessionOK, HolderOK, RelayOK, FetchOK
  <2> QED BY <2>1, <2>2, <2>3, <2>4
<1> QED BY <1>1, <1>2, <1>3, <1>4, <1>5, <1>6, <1>7, <1>8 DEF PollStep, TeardownStep

\* The steps of the internal client, its jam and its crash.
LEMMA ClientInv ==
    ASSUME IndInv, (\E x \in Requests : ClientStep(x)) \/ (\E e \in Events : EmitEvent(e)) \/ Jam \/ Crash
    PROVE  IndInv'
<1> USE DisjointAssumption
    DEF IndInv, TypeOK, SessionOK, HolderOK, RelayOK, FetchOK, InProgress, Requests, Notifiers,
        RequestStates, Unasked, Goto, peerSide, relay, rendezvous, eventSide, clientSide
<1>1. ASSUME NEW x \in Requests, HandleRequest(x) PROVE IndInv'
  <2>1. TypeOK' /\ SessionOK' /\ (\A y \in Requests : RelayOK(y)')
    BY <1>1 DEF HandleRequest, Respond
  <2>3. \A y \in Requests \cup Events : HolderOK(y)'
    BY <1>1 DEF HandleRequest
  <2>2. ASSUME NEW g \in Fetches PROVE FetchOK(g)'
    BY <1>1 DEF HandleRequest, Respond
  <2> HIDE DEF TypeOK, SessionOK, HolderOK, RelayOK, FetchOK
  <2> QED BY <2>1, <2>2, <2>3
<1>2. ASSUME NEW h \in Fetches, SendPut(h) PROVE IndInv'
  <2>1. TypeOK' /\ SessionOK' /\ \A y \in Requests \cup Events : HolderOK(y)'
    BY <1>2 DEF SendPut
  <2>2. ASSUME NEW y \in Requests PROVE RelayOK(y)'
    BY <1>2 DEF SendPut
  <2>3. ASSUME NEW g \in Fetches PROVE FetchOK(g)'
    BY <1>2 DEF SendPut
  <2> HIDE DEF TypeOK, SessionOK, HolderOK, RelayOK, FetchOK
  <2> QED BY <2>1, <2>2, <2>3
<1>3. ASSUME NEW h \in Fetches, Acknowledge(h) PROVE IndInv'
  <2>1. TypeOK' /\ SessionOK' /\ (\A y \in Requests : RelayOK(y)')
    BY <1>3 DEF Acknowledge, Respond
  <2>3. \A y \in Requests \cup Events : HolderOK(y)'
    BY <1>3 DEF Acknowledge
  <2>2. ASSUME NEW g \in Fetches PROVE FetchOK(g)'
    BY <1>3 DEF Acknowledge, Respond
  <2> HIDE DEF TypeOK, SessionOK, HolderOK, RelayOK, FetchOK
  <2> QED BY <2>1, <2>2, <2>3
<1>4. ASSUME NEW h \in Fetches, PutBreaks(h) PROVE IndInv'
  <2>1. TypeOK' /\ SessionOK' /\ (\A y \in Requests : RelayOK(y)')
    BY <1>4 DEF PutBreaks, Respond
  <2>3. \A y \in Requests \cup Events : HolderOK(y)'
    BY <1>4 DEF PutBreaks
  <2>2. ASSUME NEW g \in Fetches PROVE FetchOK(g)'
    BY <1>4 DEF PutBreaks, Respond
  <2> HIDE DEF TypeOK, SessionOK, HolderOK, RelayOK, FetchOK
  <2> QED BY <2>1, <2>2, <2>3
<1>5. ASSUME NEW e \in Events, EmitEvent(e) PROVE IndInv'
  BY <1>5 DEF EmitEvent
<1>6. CASE Crash
  <2>1. \A x \in Requests : outbox'[x] \in {"none", outbox[x]}
    BY <1>6 DEF Crash
  <2>2. outbox' \in [Requests -> {"none", "value", "null", "error"}]
    BY <1>6 DEF Crash
  <2>3. /\ client' = "gone" /\ inbox' = {}
        /\ UNCHANGED <<pc, peerSide, relay, rendezvous, eventSide, link, told, put>>
    BY <1>6 DEF Crash
  <2>4. TypeOK' /\ SessionOK' /\ \A x \in Requests \cup Events : HolderOK(x)'
    <3>1. TypeOK'
      BY <2>2, <2>3
    <3>2. SessionOK' /\ \A x \in Requests \cup Events : HolderOK(x)'
      BY <2>3
    <3> QED BY <3>1, <3>2
  <2>5. ASSUME NEW x \in Requests PROVE RelayOK(x)'
    BY <2>3
  <2>6. ASSUME NEW h \in Fetches PROVE FetchOK(h)'
    BY <2>1, <2>3
  <2> HIDE DEF TypeOK, SessionOK, HolderOK, RelayOK, FetchOK
  <2> QED BY <2>4, <2>5, <2>6
<1>7. CASE Jam
  BY <1>7 DEF Jam
<1> QED BY <1>1, <1>2, <1>3, <1>4, <1>5, <1>6, <1>7 DEF ClientStep

LEMMA StepInv == IndInv /\ [Next]_vars => IndInv'
<1> SUFFICES ASSUME IndInv, [Next]_vars PROVE IndInv'
  OBVIOUS
<1>1. CASE UNCHANGED vars
  BY <1>1 DEF vars, IndInv, TypeOK, SessionOK, HolderOK, RelayOK, FetchOK, InProgress, Unasked
<1> QED BY <1>1, RelayInv, NotifyInv, CallInv, FetchInv, SessionInv, ClientInv DEF Next

\* The inductive invariant holds in every reachable state.
THEOREM Invariance == Spec => []IndInv
BY InitInv, StepInv, PTL DEF Spec

\* Every variable of the session keeps its type.
THEOREM TypeCorrect == Spec => []TypeOK
<1>1. IndInv => TypeOK
  BY DEF IndInv
<1> QED BY <1>1, Invariance, PTL

\* The rendezvous of a fetch with its PUT never blocks after the client's null,
\* whatever the teardown, the crash and the breaking of PUTs interleave with.
THEOREM Rendezvous == Spec => []MatchingNeverWaits
<1>1. IndInv => MatchingNeverWaits
  BY DEF IndInv, FetchOK, MatchingNeverWaits
<1> QED BY <1>1, Invariance, PTL

\* Responses and map entries, whatever requests are dropped at whatever await:
\* none lost, none left over but those of fetches that were given up, no request
\* that waits and is owed nothing by a client that runs, none of a call left for
\* disconnect() to drop, and no callback left by it.
THEOREM Relay == Spec => []MapsAreExact
<1>1. IndInv => NoReplyIsLost /\ NoStaleEntry
  BY DEF IndInv, TypeOK, RelayOK, FetchOK, NoReplyIsLost, NoStaleEntry
<1>2. ASSUME IndInv PROVE DisconnectFindsNoCall
  <2>1. ASSUME session \in {"removing", "closed"}, NEW k \in callbacks, k \in Calls PROVE FALSE
    <3>1. k \in Requests /\ k \notin Fetches
      BY <2>1, DisjointAssumption DEF Requests
    <3>2. pc[k] \in {"sending", "awaiting"}
      BY <1>2, <2>1, <3>1 DEF IndInv, RelayOK
    <3> QED BY <1>2, <2>1, <3>2 DEF IndInv, SessionOK, InProgress
  <2> QED BY <1>2, <2>1 DEF IndInv, SessionOK, DisconnectFindsNoCall
<1>3. IndInv => AwaitedIsOwed
  BY DEF IndInv, TypeOK, RelayOK, AwaitedIsOwed
<1> QED BY <1>1, <1>2, <1>3, Invariance, PTL DEF MapsAreExact

\* A call whose client crashed or jammed before it answered is never released, and its
\* session never comes to the disconnect() that would drop its callback.
THEOREM Orphans == Spec => OrphanIsForever
<1>1. IndInv /\ IndInv' /\ [Next]_vars
          => [Orphan => Orphan' /\ session' \notin {"removing", "closed"}]_vars
  <2> SUFFICES ASSUME IndInv, IndInv', Next, Orphan
               PROVE  Orphan' /\ session' \notin {"removing", "closed"}
    OBVIOUS
  <2>1. PICK k \in Calls : pc[k] = "awaiting" /\ k \in callbacks /\ client # "runs" /\ outbox[k] = "none"
    BY DEF Orphan
  <2>2. k \in Requests /\ k \notin Fetches /\ k \notin Events /\ k \in InProgress /\ reply[k] = "none"
    BY <2>1, DisjointAssumption DEF Requests, InProgress, IndInv, RelayOK
  <2>3. session \notin {"removing", "closed"} /\ undone = {}
    BY <2>2 DEF IndInv, SessionOK
  <2>4. pc'[k] = "awaiting" /\ k \in callbacks' /\ client' # "runs" /\ outbox'[k] = "none"
    <3> USE <2>1, <2>2, <2>3 DEF Goto, IndInv, TypeOK, peerSide, relay, rendezvous, eventSide, clientSide
    <3>1. CASE \E x \in Requests : RelayStep(x) \/ SendRequest(x)
      BY <3>1 DEF RelayStep, BeginSend, SendRequest, SendFails, Unsendable, FeedResponse
    <3>2. CASE \E x \in Requests : ClientStep(x)
      BY <3>2 DEF ClientStep, HandleRequest, SendPut, Acknowledge, PutBreaks
    <3>3. CASE \E x \in Notifiers : NotifyStep(x)
      BY <3>3 DEF NotifyStep, LockConn, ForwardEvent, EventForwarded, ForwardFails, Notifiers
    <3>4. CASE \E c \in Calls : ReadCall(c) \/ CallStep(c)
      BY <3>4 DEF CallStep, ReadCall, TakeReply, AnswerCall
    <3>5. CASE \E h \in Fetches : \/ FindPeer(h) \/ FindNoPeer(h) \/ FetchStep(h) \/ PutStep(h)
                                   \/ Abandon(h) \/ DropPut(h)
      BY <3>5 DEF FetchStep, PutStep, Abandon, DropPut, FindPeer, FindNoPeer, Register, TakeAck, TakeRefusal,
                  CancelRegister, Match, LookupPut, FeedPut
    <3>6. CASE (\E e \in Events : EmitEvent(e)) \/ PollStep \/ HangUp \/ TeardownStep \/ Jam \/ Crash
      BY <3>6 DEF EmitEvent, Jam, PollStep, PopEvent, WriteEvent, EndPoller, HangUp, TeardownStep,
                  RemovePeer, ClearQueue, CloseConn, Close, Crash
    <3> QED BY <3>1, <3>2, <3>3, <3>4, <3>5, <3>6 DEF Next
  <2>5. session' \notin {"removing", "closed"}
    BY <2>4 DEF IndInv, SessionOK, InProgress
  <2> QED BY <2>4, <2>5 DEF Orphan
<1> QED BY <1>1, Invariance, PTL DEF Spec, OrphanIsForever

-----------------------------------------------------------------------------
(* The promise of a session *)

LEMMA InitPromise == Init => PromiseInv
BY DisjointAssumption DEF Init, PromiseInv, AskedOK, JoinOK, Requests

\* No step but its own touches what a request was asked and answered.
LEMMA StepAsked ==
    ASSUME IndInv, PromiseInv, Next, NEW y \in Requests
    PROVE  AskedOK(y)'
<1> USE DisjointAssumption
    DEF IndInv, PromiseInv, TypeOK, SessionOK, RelayOK, FetchOK, AskedOK, InProgress, Requests, Notifiers,
        RequestStates, Unasked, Goto, peerSide, relay, rendezvous, eventSide, clientSide
<1>1. ASSUME NEW x \in Requests, RelayStep(x) \/ SendRequest(x) PROVE AskedOK(y)'
  <2>1. CASE SendRequest(x)
    BY <2>1 DEF SendRequest
  <2>2. CASE SendFails(x)
    BY <2>2 DEF SendFails, Unsendable
  <2>3. CASE FeedResponse(x)
    BY <2>3 DEF FeedResponse
  <2>4. CASE BeginSend(x)
    BY <2>4 DEF BeginSend
  <2> QED BY <1>1, <2>1, <2>2, <2>3, <2>4 DEF RelayStep
<1>2. ASSUME NEW x \in Requests, ClientStep(x) PROVE AskedOK(y)'
  <2>1. CASE HandleRequest(x)
    BY <2>1 DEF HandleRequest, Respond
  <2>2. ASSUME x \in Fetches, SendPut(x) PROVE AskedOK(y)'
    BY <2>2 DEF SendPut
  <2>3. ASSUME x \in Fetches, Acknowledge(x) PROVE AskedOK(y)'
    BY <2>3 DEF Acknowledge, Respond
  <2>4. ASSUME x \in Fetches, PutBreaks(x) PROVE AskedOK(y)'
    BY <2>4 DEF PutBreaks, Respond
  <2> QED BY <1>2, <2>1, <2>2, <2>3, <2>4 DEF ClientStep
<1>3. ASSUME NEW x \in Notifiers, NotifyStep(x) PROVE AskedOK(y)'
  BY <1>3 DEF NotifyStep, LockConn, ForwardEvent, EventForwarded, ForwardFails
<1>4. ASSUME NEW k \in Calls, ReadCall(k) \/ CallStep(k) PROVE AskedOK(y)'
  BY <1>4 DEF ReadCall, CallStep, TakeReply, AnswerCall
<1>5. ASSUME NEW h \in Fetches,
             \/ FindPeer(h) \/ FindNoPeer(h) \/ FetchStep(h) \/ PutStep(h)
             \/ Abandon(h) \/ DropPut(h)
      PROVE  AskedOK(y)'
  BY <1>5 DEF Abandon, AtAwait, DropPut, FindPeer, FindNoPeer, FetchStep, PutStep, Register, TakeAck, TakeRefusal, CancelRegister,
              Match, LookupPut, FeedPut
<1>6. ASSUME NEW e \in Events, EmitEvent(e) PROVE AskedOK(y)'
  BY <1>6 DEF EmitEvent
<1>7. ASSUME PollStep \/ HangUp \/ Jam PROVE AskedOK(y)'
  BY <1>7 DEF Jam, PollStep, PopEvent, WriteEvent, EndPoller, HangUp
<1>8. ASSUME TeardownStep PROVE AskedOK(y)'
  BY <1>8 DEF TeardownStep, RemovePeer, ClearQueue, CloseConn, Close
<1>9. ASSUME Crash PROVE AskedOK(y)'
  <2>1. outbox'[y] \in {"none", outbox[y]}
    BY <1>9 DEF Crash
  <2> QED BY <1>9, <2>1 DEF Crash
<1> QED BY <1>1, <1>2, <1>3, <1>4, <1>5, <1>6, <1>7, <1>8, <1>9 DEF Next

\* A registration that is there when the map is unlocked again is one whose PUT
\* was not found.
LEMMA StepJoin ==
    ASSUME IndInv, PromiseInv, Next, NEW g \in Fetches
    PROVE  JoinOK(g)'
<1> USE DisjointAssumption
    DEF IndInv, PromiseInv, TypeOK, SessionOK, FetchOK, JoinOK, Unasked, Goto,
        peerSide, relay, rendezvous, eventSide, clientSide
<1>1. ASSUME NEW x \in Requests, RelayStep(x) \/ SendRequest(x) PROVE JoinOK(g)'
  BY <1>1 DEF RelayStep, BeginSend, SendRequest, SendFails, FeedResponse
<1>2. ASSUME NEW x \in Requests, ClientStep(x) PROVE JoinOK(g)'
  BY <1>2 DEF ClientStep, HandleRequest, SendPut, Acknowledge, PutBreaks
<1>3. ASSUME NEW x \in Notifiers, NotifyStep(x) PROVE JoinOK(g)'
  BY <1>3 DEF NotifyStep, LockConn, ForwardEvent, EventForwarded, ForwardFails
<1>4. ASSUME NEW k \in Calls, ReadCall(k) \/ CallStep(k) PROVE JoinOK(g)'
  BY <1>4 DEF ReadCall, CallStep, TakeReply, AnswerCall
<1>5. ASSUME NEW h \in Fetches, FindPeer(h) \/ FindNoPeer(h) \/ FetchStep(h) \/ Abandon(h)
      PROVE  JoinOK(g)'
  BY <1>5 DEF Abandon, FindPeer, FindNoPeer, FetchStep, Register, TakeAck, TakeRefusal, CancelRegister, Match
<1>6. ASSUME NEW h \in Fetches, PutStep(h) \/ DropPut(h) PROVE JoinOK(g)'
  BY <1>6 DEF PutStep, LookupPut, FeedPut, DropPut
<1>7. ASSUME (\E e \in Events : EmitEvent(e)) \/ PollStep \/ HangUp \/ Jam \/ Crash PROVE JoinOK(g)'
  BY <1>7 DEF EmitEvent, Jam, PollStep, PopEvent, WriteEvent, EndPoller, HangUp, Crash
<1>8. ASSUME TeardownStep PROVE JoinOK(g)'
  BY <1>8 DEF TeardownStep, RemovePeer, ClearQueue, CloseConn, Close
<1> QED BY <1>1, <1>2, <1>3, <1>4, <1>5, <1>6, <1>7, <1>8 DEF Next

LEMMA StepPromise == IndInv /\ PromiseInv /\ [Next]_vars => PromiseInv'
<1>1. PromiseInv /\ UNCHANGED vars => PromiseInv'
  BY DEF vars, PromiseInv, AskedOK, JoinOK, Unasked
<1> QED BY <1>1, StepAsked, StepJoin DEF PromiseInv

LEMMA PromiseHolds == Spec => []PromiseInv
BY InitPromise, StepPromise, Invariance, PTL DEF Spec

LEMMA InitRefines == Init => Promise!Init
BY DisjointAssumption DEF Init, Promise!Init, Phase, Handled, Stage, CallStage, FetchStage, Requests

\* What Session sees of a state: unchanged unless one of these is.
LEMMA Stutter ==
    ASSUME UNCHANGED <<session, undone, pc, reply, slot, told, put>>
    PROVE  UNCHANGED Promise!vars
BY DEF Promise!vars, Phase, Handled, Stage, CallStage, FetchStage

\* A step that moves one request, from one of its stages to another.
LEMMA Moved ==
    ASSUME NEW x \in Requests, NEW to, NEW from,
           Stage(x) = from, Stage(x)' = to, \A y \in Requests : y # x => Stage(y)' = Stage(y)
    PROVE  Promise!Move(x, from, to)
<1> DEFINE stages == [y \in Calls \cup Fetches |-> Stage(y)]
<1>1. stages' = [stages EXCEPT ![x] = to] /\ stages[x] = from
  BY DEF Requests
<1> QED BY <1>1 DEF Promise!Move

\* The steps of a call.
LEMMA CallRefines ==
    ASSUME IndInv, PromiseInv, NEW k \in Calls, ReadCall(k) \/ CallStep(k)
    PROVE  [Promise!Next]_(Promise!vars)
<1> USE DisjointAssumption DEF IndInv, PromiseInv, TypeOK, Goto, Requests
<1>1. k \in Requests /\ k \notin Fetches /\ k \notin Events
  OBVIOUS
<1>2. \A y \in Requests : y # k => Stage(y)' = Stage(y)
  BY DEF ReadCall, CallStep, TakeReply, AnswerCall, peerSide, relay, rendezvous, eventSide, clientSide,
         Stage, CallStage, FetchStage
<1>3. Phase' = Phase /\ Handled' = Handled
  BY DEF ReadCall, CallStep, TakeReply, AnswerCall, peerSide, relay, rendezvous, eventSide, clientSide,
         Phase, Handled
<1>4. ASSUME ReadCall(k) PROVE Promise!Take(k)
  <2>1. Promise!UnderWay = InProgress
    BY DEF Promise!UnderWay, InProgress, Stage, CallStage
  <2>2. Phase = "open" /\ Cardinality(InProgress) < Limit
    BY <1>4 DEF ReadCall, Phase
  <2>3. Stage(k) = "new" /\ Stage(k)' = "taken"
    BY <1>1, <1>4 DEF ReadCall, Stage, CallStage
  <2>4. Promise!Move(k, "new", "taken")
    BY <1>1, <1>2, <2>3, Moved
  <2>5. Promise!Cardinality(InProgress) = Cardinality(InProgress)
    BY DEF Promise!Cardinality, Cardinality
  <2> QED BY <1>3, <2>1, <2>2, <2>4, <2>5 DEF Promise!Take
<1>5. ASSUME TakeReply(k) PROVE UNCHANGED Promise!vars
  <2>1. Stage(k)' = Stage(k)
    BY <1>1, <1>5 DEF TakeReply, Stage, CallStage
  <2>2. \A y \in Calls \cup Fetches : Stage(y)' = Stage(y)
    BY <1>2, <2>1
  <2> QED BY <1>3, <2>2 DEF Promise!vars
<1>6. ASSUME AnswerCall(k) PROVE Promise!Answer(k) \/ Promise!Refuse(k)
  <2>1. Stage(k) = "taken" /\ Stage(k)' = IF reply[k] = "value" THEN "answered" ELSE "refused"
    BY <1>1, <1>6 DEF AnswerCall, relay, Stage, CallStage
  <2>2. CASE reply[k] = "value"
    <3>1. Promise!Move(k, "taken", "answered")
      BY <1>1, <1>2, <2>1, <2>2, Moved
    <3>2. k \in Handled
      BY <1>1, <2>2 DEF Handled, AskedOK
    <3> QED BY <1>3, <3>1, <3>2 DEF Promise!Answer
  <2>3. CASE reply[k] # "value"
    <3>1. Promise!Move(k, "taken", "refused")
      BY <1>1, <1>2, <2>1, <2>3, Moved
    <3>2. k \notin Handled
      BY <1>1, <1>6, <2>3 DEF AnswerCall, Handled, AskedOK
    <3> QED BY <1>3, <3>1, <3>2 DEF Promise!Refuse
  <2> QED BY <2>2, <2>3
<1> QED BY <1>4, <1>5, <1>6 DEF CallStep, Promise!Next

\* The steps of a fetch.
LEMMA FetchRefines ==
    ASSUME IndInv, PromiseInv, NEW h \in Fetches,
           FindPeer(h) \/ FindNoPeer(h) \/ FetchStep(h) \/ Abandon(h)
    PROVE  [Promise!Next]_(Promise!vars)
<1> USE DisjointAssumption DEF IndInv, PromiseInv, TypeOK, SessionOK, FetchOK, JoinOK, Goto, Requests, Unasked,
        Stage, CallStage, FetchStage
<1>1. h \in Requests /\ h \notin Calls
  OBVIOUS
<1>2. \A y \in Requests : y # h => Stage(y)' = Stage(y)
  BY DEF Abandon, FindPeer, FindNoPeer, FetchStep, Register, TakeAck, TakeRefusal, CancelRegister, Match,
         peerSide, relay, rendezvous, eventSide, clientSide
<1>3. UNCHANGED <<Phase, Handled>>
  BY DEF Abandon, FindPeer, FindNoPeer, FetchStep, Register, TakeAck, TakeRefusal, CancelRegister, Match,
         peerSide, relay, rendezvous, eventSide, clientSide, Phase, Handled
<1>4. ASSUME FindPeer(h) PROVE Promise!Enter(h)
  <2>1. Phase # "over" /\ slot[h] # "fed"
    BY <1>4 DEF FindPeer, Phase
  <2>2. Promise!Move(h, "new", "waiting")
    BY <1>1, <1>2, <1>4, <2>1, Moved DEF FindPeer, rendezvous
  <2> QED BY <1>3, <2>1, <2>2 DEF Promise!Enter
<1>5. ASSUME FindNoPeer(h) PROVE Promise!TurnAway(h)
  <2>1. Phase = "over"
    BY <1>5 DEF FindNoPeer, Phase
  <2>2. Promise!Move(h, "new", "failed")
    BY <1>1, <1>2, <1>5, Moved DEF FindNoPeer
  <2> QED BY <1>3, <2>1, <2>2 DEF Promise!TurnAway
<1>6. ASSUME Register(h) \/ TakeAck(h) \/ TakeRefusal(h) PROVE UNCHANGED Promise!vars
  <2>1. \A y \in Requests : Stage(y)' = Stage(y)
    BY <1>1, <1>2, <1>6 DEF Register, TakeAck, TakeRefusal, rendezvous
  <2> QED BY <1>3, <2>1 DEF Promise!vars
<1>7. ASSUME CancelRegister(h) PROVE Promise!Fail(h)
  <2>1. Stage(h) \in {"waiting", "joined"} /\ Stage(h)' = "failed"
    BY <1>1, <1>7 DEF CancelRegister
  <2> QED BY <1>1, <1>2, <1>3, <2>1, Moved DEF Promise!Fail
<1>8. ASSUME Match(h) PROVE Promise!Serve(h) \/ Promise!Fail(h)
  <2>1. \/ Stage(h) = "joined" /\ Stage(h)' = "served"
        \/ Stage(h) = "waiting" /\ Stage(h)' = "failed"
    BY <1>1, <1>8 DEF Match
  <2> QED BY <1>1, <1>2, <1>3, <2>1, Moved DEF Promise!Serve, Promise!Fail
<1>9. ASSUME Abandon(h) PROVE Promise!Fail(h)
  <2>1. Stage(h) \in {"waiting", "joined"} /\ Stage(h)' = "failed"
    BY <1>1, <1>9 DEF Abandon, AtAwait
  <2> QED BY <1>1, <1>2, <1>3, <2>1, Moved DEF Promise!Fail
<1> QED BY <1>4, <1>5, <1>6, <1>7, <1>8, <1>9 DEF FetchStep, Promise!Next

\* The steps of a PUT: only the one that feeds a registered fetch is seen, and
\* the session is not over then.
LEMMA PutRefines ==
    ASSUME IndInv, PromiseInv, NEW h \in Fetches, PutStep(h)
    PROVE  [Promise!Next]_(Promise!vars)
<1> USE DisjointAssumption DEF IndInv, PromiseInv, TypeOK, SessionOK, FetchOK, JoinOK, Requests
<1>1. UNCHANGED Phase /\ h \in Requests /\ h \notin Calls
  BY DEF PutStep, LookupPut, FeedPut, Phase, peerSide
<1>2. put[h] # "none" /\ put'[h] # "none" /\ \A g \in Fetches : g # h => put'[g] = put[g]
  BY DEF PutStep, LookupPut, FeedPut
<1>3. told' = told /\ pc' = pc /\ reply' = reply
  BY DEF PutStep, LookupPut, FeedPut, relay
<1>4. UNCHANGED Handled /\ h \in Handled
  BY <1>1, <1>2, <1>3 DEF Handled
<1>5. ASSUME slot' = slot PROVE UNCHANGED Promise!vars
  <2>1. \A y \in Requests : Stage(y)' = Stage(y)
    BY <1>3, <1>5 DEF Stage, CallStage, FetchStage
  <2> QED BY <1>1, <1>4, <2>1 DEF Promise!vars
<1>6. ASSUME slot' # slot PROVE Promise!Join(h) \/ UNCHANGED Promise!vars
  <2>1. FeedPut(h) /\ h \in queue
    BY <1>6 DEF PutStep, LookupPut, FeedPut, rendezvous
  <2>2. Phase # "over"
    BY <2>1 DEF FeedPut, Phase
  <2>3. slot[h] = "open" /\ slot' = [slot EXCEPT ![h] = "fed"]
        /\ pc[h] \in {"calling", "sending", "awaiting", "rejected", "abandoned"}
    BY <2>1 DEF FeedPut
  <2>4. \A y \in Requests : y # h => Stage(y)' = Stage(y)
    BY <1>1, <1>3, <2>3 DEF Stage, CallStage, FetchStage
  <2>5. CASE pc[h] = "abandoned"
    <3>1. Stage(h)' = Stage(h)
      BY <1>1, <1>3, <2>5 DEF Stage, FetchStage
    <3>2. \A y \in Calls \cup Fetches : Stage(y)' = Stage(y)
      BY <2>4, <3>1
    <3> QED BY <1>1, <1>4, <3>2 DEF Promise!vars
  <2>6. CASE pc[h] # "abandoned"
    <3>1. Stage(h) = "waiting" /\ Stage(h)' = "joined"
      BY <1>1, <1>3, <2>3, <2>6 DEF Stage, FetchStage
    <3> QED BY <1>1, <1>4, <2>2, <2>4, <3>1, Moved DEF Promise!Join
  <2> QED BY <2>5, <2>6
<1> QED BY <1>5, <1>6 DEF Promise!Next

\* The steps of the relay: one gives a fetch up, the others are not seen, as what
\* a callback brings decides nothing yet.
LEMMA RelayRefines ==
    ASSUME IndInv, PromiseInv, NEW x \in Requests, RelayStep(x) \/ SendRequest(x)
    PROVE  UNCHANGED Promise!vars
<1> USE DisjointAssumption DEF IndInv, PromiseInv, TypeOK, RelayOK, Goto, Requests,
        peerSide, relay, rendezvous, eventSide, clientSide
<1>1. UNCHANGED <<session, undone, slot, told, put>>
  BY DEF RelayStep, BeginSend, SendRequest, SendFails, Unsendable, FeedResponse
<1>2. UNCHANGED <<Phase, Handled>>
  BY <1>1 DEF Phase, Handled
<1>3. ASSUME NEW y \in Calls PROVE CallStage(y)' = CallStage(y)
  <2>1. pc[y] = "done" => reply'[y] = reply[y] /\ pc'[y] = "done"
    BY DEF RelayStep, BeginSend, SendRequest, SendFails, Unsendable, FeedResponse
  <2>2. pc[y] \in {"calling", "sending", "awaiting", "replying"} <=> pc'[y] \in {"calling", "sending", "awaiting", "replying"}
    BY DEF RelayStep, BeginSend, SendRequest, SendFails, Unsendable, FeedResponse
  <2>3. pc'[y] = "done" => pc[y] = "done"
    BY DEF RelayStep, BeginSend, SendRequest, SendFails, Unsendable, FeedResponse
  <2> QED BY <2>1, <2>2, <2>3 DEF CallStage
<1>4. ASSUME NEW y \in Fetches PROVE FetchStage(y)' = FetchStage(y)
  <2>1. pc[y] \in {"unsent", "served", "failed", "abandoned"} \/ pc'[y] \in {"unsent", "served", "failed", "abandoned"} => pc'[y] = pc[y]
    BY DEF RelayStep, BeginSend, SendRequest, SendFails, Unsendable, FeedResponse
  <2> QED BY <1>1, <2>1 DEF FetchStage
<1>5. \A y \in Requests : Stage(y)' = Stage(y)
  BY <1>3, <1>4 DEF Stage
<1> QED BY <1>2, <1>5 DEF Promise!vars

\* The steps of the client: what it acts on was asked of it, and not refused.
LEMMA ClientRefines ==
    ASSUME IndInv, PromiseInv, NEW x \in Requests, ClientStep(x)
    PROVE  [Promise!Next]_(Promise!vars)
<1> USE DisjointAssumption DEF IndInv, PromiseInv, TypeOK, Requests
<1>1. UNCHANGED <<session, undone, pc, reply, slot>>
  BY DEF ClientStep, HandleRequest, SendPut, Acknowledge, PutBreaks, peerSide, relay, rendezvous
<1>2. Phase' = Phase /\ \A y \in Requests : Stage(y)' = Stage(y)
  BY <1>1 DEF Phase, Stage, CallStage, FetchStage
<1>3. ASSUME HandleRequest(x) \/ (x \in Fetches /\ SendPut(x)) PROVE Promise!Handle(x)
  <2>1. x \in inbox
    BY <1>3 DEF HandleRequest, SendPut
  <2>2. Handled' = Handled \cup {x}
    BY <1>3 DEF HandleRequest, SendPut, Respond, Handled
  <2>3. Stage(x) \notin {"new", "refused"}
    <3>1. ~Unasked(x)
      BY <2>1 DEF AskedOK
    <3>2. CASE x \in Calls
      BY <2>1, <3>1, <3>2 DEF Stage, CallStage, Unasked, AskedOK, RequestStates
    <3>3. CASE x \in Fetches
      BY <3>1, <3>3 DEF Stage, FetchStage, Unasked
    <3> QED BY <3>2, <3>3
  <2> QED BY <1>2, <2>2, <2>3 DEF Promise!Handle
<1>4. ASSUME x \in Fetches, Acknowledge(x) \/ PutBreaks(x) PROVE UNCHANGED Promise!vars
  <2>1. put' = put /\ put[x] # "none" /\ told' = told \cup {x}
    BY <1>4 DEF Acknowledge, PutBreaks, Respond
  <2>2. Handled' = Handled
    BY <1>4, <2>1 DEF Handled
  <2> QED BY <1>2, <2>2 DEF Promise!vars
<1> QED BY <1>3, <1>4 DEF ClientStep, Promise!Next

\* The end of the session; disconnect() drops the registrations when no call is
\* under way.
LEMMA SessionRefines ==
    ASSUME IndInv, PromiseInv, HangUp \/ TeardownStep
    PROVE  [Promise!Next]_(Promise!vars)
<1> USE DEF IndInv, TypeOK, SessionOK
<1>1. UNCHANGED <<pc, told, put>>
  BY DEF HangUp, TeardownStep, RemovePeer, ClearQueue, CloseConn, Close, clientSide
<1>2. Handled' = Handled
  BY <1>1 DEF Handled
<1>3. \A y \in Requests : Stage(y)' = Stage(y)
  <2>1. ASSUME NEW y \in Calls PROVE CallStage(y)' = CallStage(y)
    <3>1. pc[y] = "done" => reply'[y] = reply[y]
      BY DisjointAssumption DEF HangUp, TeardownStep, RemovePeer, ClearQueue, CloseConn, Close, relay, RelayOK, Requests
    <3> QED BY <1>1, <3>1 DEF CallStage
  <2>2. ASSUME NEW y \in Fetches PROVE FetchStage(y)' = FetchStage(y)
    <3>1. slot'[y] = "fed" <=> slot[y] = "fed"
      BY DEF HangUp, TeardownStep, RemovePeer, ClearQueue, CloseConn, Close, rendezvous, FetchOK
    <3> QED BY <1>1, <3>1 DEF FetchStage
  <2> QED BY <2>1, <2>2 DEF Stage, Requests
<1>4. ASSUME HangUp PROVE Promise!Leave
  <2>1. Phase = "open" /\ Phase' = "left"
    BY <1>4 DEF HangUp, Phase
  <2> QED BY <1>2, <1>3, <2>1 DEF Promise!Leave, Requests
<1>5. ASSUME ClearQueue PROVE Promise!End
  <2>1. Phase = "left" /\ Phase' = "over"
    BY <1>5 DEF ClearQueue, Phase
  <2>2. InProgress = {}
    BY <1>5 DEF ClearQueue
  <2>3. Promise!UnderWay = {}
    BY <2>2 DEF Promise!UnderWay, InProgress, Stage, CallStage
  <2> QED BY <1>2, <1>3, <2>1, <2>3 DEF Promise!End, Requests
<1>6. ASSUME RemovePeer \/ CloseConn \/ Close PROVE UNCHANGED Promise!vars
  <2>1. Phase' = Phase
    BY <1>6 DEF RemovePeer, CloseConn, Close, Phase
  <2> QED BY <1>2, <1>3, <2>1 DEF Promise!vars, Requests
<1> QED BY <1>4, <1>5, <1>6 DEF TeardownStep, Promise!Next

LEMMA StepRefines == IndInv /\ PromiseInv /\ [Next]_vars => [Promise!Next]_(Promise!vars)
<1> SUFFICES ASSUME IndInv, PromiseInv, [Next]_vars PROVE [Promise!Next]_(Promise!vars)
  OBVIOUS
<1>1. ASSUME \/ \E x \in Notifiers : NotifyStep(x)
             \/ \E e \in Events : EmitEvent(e)
             \/ PollStep
             \/ Jam \/ Crash
      PROVE  UNCHANGED Promise!vars
  <2>1. UNCHANGED <<session, undone, reply, slot, told, put>>
    BY <1>1 DEF Jam, NotifyStep, LockConn, ForwardEvent, EventForwarded, ForwardFails, EmitEvent, PollStep, PopEvent,
                WriteEvent, EndPoller, Crash, peerSide, relay, rendezvous, clientSide
  <2>2. \A y \in Requests : Stage(y)' = Stage(y)
    <3>1. ASSUME NEW y \in Calls PROVE pc'[y] = pc[y]
      BY <1>1, <3>1, DisjointAssumption
         DEF Jam, NotifyStep, LockConn, ForwardEvent, EventForwarded, ForwardFails, EmitEvent, PollStep, PopEvent,
             WriteEvent, EndPoller, Crash, Goto, Notifiers, IndInv, TypeOK, Requests
    <3>2. ASSUME NEW y \in Fetches
          PROVE  \/ pc'[y] = pc[y]
                 \/ {pc[y], pc'[y]} \cap {"unsent", "served", "failed", "abandoned"} = {}
      BY <1>1, <3>2, DisjointAssumption
         DEF Jam, NotifyStep, LockConn, ForwardEvent, EventForwarded, ForwardFails, EmitEvent, PollStep, PopEvent,
             WriteEvent, EndPoller, Crash, Goto, Notifiers, IndInv, TypeOK, Requests
    <3> QED BY <2>1, <3>1, <3>2 DEF Stage, CallStage, FetchStage, Requests
  <2>3. Phase' = Phase /\ Handled' = Handled
    BY <2>1 DEF Phase, Handled
  <2> QED BY <2>2, <2>3 DEF Promise!vars, Requests
<1>2. ASSUME UNCHANGED vars PROVE UNCHANGED Promise!vars
  BY <1>2, Stutter DEF vars
<1>4. ASSUME NEW h \in Fetches, DropPut(h) PROVE UNCHANGED Promise!vars
  <2>1. UNCHANGED <<session, undone, pc, reply, slot, told>>
    BY <1>4 DEF DropPut, peerSide, relay, rendezvous
  <2>2. \A g \in Fetches : put'[g] # "none" <=> put[g] # "none"
    BY <1>4 DEF DropPut, IndInv, TypeOK
  <2>3. Phase' = Phase /\ Handled' = Handled /\ \A y \in Requests : Stage(y)' = Stage(y)
    BY <2>1, <2>2 DEF Phase, Handled, Stage, CallStage, FetchStage
  <2> QED BY <2>3 DEF Promise!vars, Requests
<1>3. ASSUME Next PROVE [Promise!Next]_(Promise!vars)
  BY <1>1, <1>3, <1>4, RelayRefines, ClientRefines, CallRefines, FetchRefines, PutRefines, SessionRefines DEF Next
<1> QED BY <1>2, <1>3

\* The maps, Mutexes, callbacks and messages of a session keep the promise, for any
\* number of calls, fetches and events, wherever the client crashes, a PUT breaks
\* or the browser leaves (websocket_peer.rs, http_server/components.rs).
THEOREM Refinement == Spec => KeepsItsPromise
BY InitRefines, StepRefines, Invariance, PromiseHolds, PTL DEF Spec, KeepsItsPromise, Promise!Spec
==============================================================================
