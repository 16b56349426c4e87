---------------------------- MODULE WebSocketPeer ----------------------------
(***************************************************************************)
(* One signed-in session of the master server: common/websocket_peer.rs    *)
(* with the handlers that share it.                                        *)
(*                                                                         *)
(*   calls    requests of the browser on its websocket, relayed to the     *)
(*            internal client (websocket_server/on_authenticate.rs)        *)
(*   fetches  HTTP requests with the session's token: download, upload,    *)
(*            preview (http_server/mod.rs, components.rs); each registers  *)
(*            in ClientHttp, asks the client through the websocket, and is *)
(*            joined with the PUT /client the client makes in return       *)
(*   events   what the client reports by itself (websocket_server/         *)
(*            on_client.rs)                                                *)
(*                                                                         *)
(* ClientWebsocket is one Mutex: send_request, feed_response and           *)
(* forward_event take it.  send_request keeps it until the socket took the *)
(* message, forward_event until the session's poll_event has popped the    *)
(* event (the channel has no capacity).  The ids of ClientWebsocket and    *)
(* ClientHttp are u64 counters that never repeat, so that here a request   *)
(* is its own id.                                                          *)
(*                                                                         *)
(* hyper drops the handler of a fetch at any await when the browser drops  *)
(* its HTTP request.  The handlers of the internal client are one task,    *)
(* which a relayed watch may block for ever (the jam of Watch) while the   *)
(* client stays connected.                                                 *)
(*                                                                         *)
(* What all of it promises to browser and HTTP requests is Session.        *)
(***************************************************************************)
EXTENDS FiniteSets, Naturals

CONSTANTS Calls, Fetches, Events, \* requests and events, each made once
          Limit,                  \* for_each_concurrent: calls in progress
          None

ASSUME LimitAssumption == Limit \in Nat \ {0}
ASSUME DisjointAssumption ==
    /\ Calls \cap Fetches = {} /\ Calls \cap Events = {} /\ Fetches \cap Events = {}
    /\ None \notin Calls \cup Fetches \cup Events

Requests == Calls \cup Fetches
Notifiers == Fetches \cup Events

VARIABLES
    pc,         \* where each call, fetch and event is
    session,    \* the browser's websocket and its handler
    listed,     \* websocket_peers has this session's peer
    mapLocked,  \* the handler keeps the map locked while it disconnects the peer
    undone,     \* the halves of disconnect() still to do
    connHolder, \* who keeps the Mutex of ClientWebsocket across an await
    callbacks,  \* ClientWebsocket.callbacks: requests that wait for a response
    reply,      \* what the oneshot of a request's response holds
    queue,      \* ClientHttp.queue: fetches that wait for their PUT
    slot,       \* what the oneshot of a fetch's PUT holds
    event,      \* whose message lies in event_channel, not popped yet
    poller,     \* poll_event: ready, writing, or ended with its receiver
    link,       \* the master's half of the client's websocket: open or closed
    client,     \* the internal client: it runs, is jammed, or gone
    inbox,      \* requests the client has not handled
    outbox,     \* responses the master has not read
    told,       \* requests the client has responded to
    put         \* the PUT /client of each fetch

peerSide == <<session, listed, mapLocked, undone>>
relay == <<connHolder, callbacks, reply>>
rendezvous == <<queue, slot>>
eventSide == <<event, poller>>
clientSide == <<client, inbox, outbox, told, put>>
vars == <<pc, session, listed, mapLocked, undone, connHolder, callbacks, reply, queue, slot,
          event, poller, link, client, inbox, outbox, told, put>>

Init == /\ pc = [x \in Requests \cup Events |-> "unsent"]
        /\ session = "open"
        /\ listed = TRUE
        /\ mapLocked = FALSE
        /\ undone = {}
        /\ connHolder = None
        /\ callbacks = {}
        /\ reply = [x \in Requests |-> "none"]
        /\ queue = {}
        /\ slot = [h \in Fetches |-> "none"]
        /\ event = None
        /\ poller = "ready"
        /\ link = "open"
        /\ client = "runs"
        /\ inbox = {}
        /\ outbox = [x \in Requests |-> "none"]
        /\ told = {}
        /\ put = [h \in Fetches |-> "none"]

Goto(x, state) == pc' = [pc EXCEPT ![x] = state]

InProgress == {k \in Calls : pc[k] \in {"calling", "sending", "awaiting", "replying"}}

-----------------------------------------------------------------------------
(* ClientWebsocket *)

\* send_request: the lock is kept until the socket takes the message, which it
\* may never do for a client that is jammed and reads no more.
BeginSend(x) == /\ pc[x] = "calling"
                /\ connHolder = None
                /\ link = "open"
                /\ connHolder' = x
                /\ callbacks' = callbacks \cup {x}
                /\ Goto(x, "sending")
                /\ UNCHANGED <<peerSide, reply, rendezvous, eventSide, link, clientSide>>

\* A client that is gone gets nothing, though the socket may still take it.
SendRequest(x) == /\ pc[x] = "sending"
                  /\ connHolder' = None
                  /\ inbox' = IF client # "gone" THEN inbox \cup {x} ELSE inbox
                  /\ Goto(x, "awaiting")
                  /\ UNCHANGED <<peerSide, callbacks, reply, rendezvous, eventSide, link,
                                 client, outbox, told, put>>

Unsendable(x) == \/ pc[x] = "calling" /\ connHolder = None /\ link = "closed"
                 \/ pc[x] = "sending" /\ client = "gone"

\* Mutant of SendFails: the failed fetch gives up without cancel_register.
SendFailsForgetting(x) == /\ Unsendable(x)
                          /\ connHolder' = None
                          /\ callbacks' = callbacks \ {x}
                          /\ Goto(x, IF x \in Calls THEN "replying" ELSE "failed")
                          /\ UNCHANGED <<peerSide, reply, rendezvous, eventSide, link, clientSide>>

\* "Websocket send message failed": the callback is taken back.  A fetch goes on
\* to cancel its registration, a call is answered with the error.
SendFails(x) == /\ Unsendable(x)
                /\ connHolder' = None
                /\ callbacks' = callbacks \ {x}
                /\ Goto(x, IF x \in Calls THEN "replying" ELSE "rejected")
                /\ UNCHANGED <<peerSide, reply, rendezvous, eventSide, link, clientSide>>

\* on_client reads a response and feeds it to its callback, if it has one.
FeedResponse(x) == /\ outbox[x] # "none"
                   /\ connHolder = None
                   /\ outbox' = [outbox EXCEPT ![x] = "none"]
                   /\ reply' = [reply EXCEPT ![x] = IF x \in callbacks THEN outbox[x] ELSE @]
                   /\ callbacks' = callbacks \ {x}
                   /\ UNCHANGED <<pc, peerSide, connHolder, rendezvous, eventSide, link,
                                  client, inbox, told, put>>

\* A message is to be forwarded: the Mutex is locked ...
LockConn(x) == /\ pc[x] = "notifying"
               /\ connHolder = None
               /\ connHolder' = x
               /\ Goto(x, "forwarding")
               /\ UNCHANGED <<peerSide, callbacks, reply, rendezvous, eventSide, link, clientSide>>

\* ... forward_event: it enters event_channel, when that has room ...
ForwardEvent(x) == /\ pc[x] = "forwarding"
                   /\ event = None
                   /\ poller # "ended" /\ link = "open"
                   /\ event' = x
                   /\ Goto(x, "notified")
                   /\ UNCHANGED <<peerSide, relay, rendezvous, poller, link, clientSide>>

\* ... and the lock is kept until it is popped, or the receiver is gone.
EventForwarded(x) == /\ pc[x] = "notified"
                     /\ event # x \/ poller = "ended"
                     /\ connHolder' = None
                     /\ event' = IF event = x THEN None ELSE event
                     /\ Goto(x, IF x \in Fetches THEN "registering" ELSE "done")
                     /\ UNCHANGED <<peerSide, callbacks, reply, rendezvous, poller, link, clientSide>>

\* Nobody receives events any more: EventChannelClosed, which is ignored.
ForwardFails(x) == /\ pc[x] = "forwarding"
                   /\ poller = "ended" \/ link = "closed"
                   /\ connHolder' = None
                   /\ Goto(x, IF x \in Fetches THEN "registering" ELSE "done")
                   /\ UNCHANGED <<peerSide, callbacks, reply, rendezvous, eventSide, link, clientSide>>

-----------------------------------------------------------------------------
(* The session's websocket *)

\* The handler reads a call while fewer than Limit are in progress.
ReadCall(k) == /\ pc[k] = "unsent"
               /\ session = "open"
               /\ Cardinality(InProgress) < Limit
               /\ Goto(k, "calling")
               /\ UNCHANGED <<peerSide, relay, rendezvous, eventSide, link, clientSide>>

\* rx.await of a call: the response, or "internal error" for a dropped callback.
TakeReply(k) == /\ pc[k] = "awaiting"
                /\ reply[k] # "none"
                /\ Goto(k, "replying")
                /\ UNCHANGED <<peerSide, relay, rendezvous, eventSide, link, clientSide>>

\* The answer is written to the browser, or not, if it is gone.
AnswerCall(k) == /\ pc[k] = "replying"
                 /\ Goto(k, "done")
                 /\ UNCHANGED <<peerSide, relay, rendezvous, eventSide, link, clientSide>>

\* poll_event pops an event ...
PopEvent == /\ poller = "ready"
            /\ event # None
            /\ event' = None
            /\ poller' = "writing"
            /\ UNCHANGED <<pc, peerSide, relay, rendezvous, link, clientSide>>

\* ... and writes it to the browser ...
WriteEvent == /\ poller = "writing"
              /\ session = "open"
              /\ poller' = "ready"
              /\ UNCHANGED <<pc, peerSide, relay, rendezvous, event, link, clientSide>>


\* ... or fails to and ends, or ends because its channel is closed and drained.
EndPoller == /\ \/ poller = "writing" /\ session # "open"
                \/ poller = "ready" /\ link = "closed" /\ event = None
             /\ poller' = "ended"
             /\ UNCHANGED <<pc, peerSide, relay, rendezvous, event, link, clientSide>>

\* The browser's websocket ends: no call is read any more.
HangUp == /\ session = "open"
          /\ session' = "ended"
          /\ UNCHANGED <<pc, listed, mapLocked, undone, relay, rendezvous, eventSide, link, clientSide>>

\* Mutant of RemovePeer: the map is unlocked before disconnect().
RemoveUnlocked == /\ session = "ended"
                  /\ InProgress = {}
                  /\ session' = "removing"
                  /\ listed' = FALSE
                  /\ undone' = {"queue", "conn"}
                  /\ UNCHANGED <<pc, mapLocked, relay, rendezvous, eventSide, link, clientSide>>

\* Mutant of RemovePeer: the calls in progress are not waited for.
RemoveAtOnce == /\ session = "ended"
                /\ session' = "removing"
                /\ listed' = FALSE
                /\ mapLocked' = TRUE
                /\ undone' = {"queue", "conn"}
                /\ UNCHANGED <<pc, relay, rendezvous, eventSide, link, clientSide>>

\* Mutant of RemovePeer: the peer is left on the map while it disconnects.
RemoveLate == /\ session = "ended"
              /\ InProgress = {}
              /\ session' = "removing"
              /\ undone' = {"queue", "conn"}
              /\ UNCHANGED <<pc, listed, mapLocked, relay, rendezvous, eventSide, link, clientSide>>

\* handle_request returns with the last call in progress; the peer is taken off
\* the map, which stays locked during disconnect().
RemovePeer == /\ session = "ended"
              /\ InProgress = {}
              /\ session' = "removing"
              /\ listed' = FALSE
              /\ mapLocked' = TRUE
              /\ undone' = {"queue", "conn"}
              /\ UNCHANGED <<pc, relay, rendezvous, eventSide, link, clientSide>>

\* disconnect(), one half: ClientHttp drops the oneshots of the registered fetches.
ClearQueue == /\ "queue" \in undone
              /\ undone' = undone \ {"queue"}
              /\ slot' = [h \in Fetches |-> IF h \in queue THEN "dropped" ELSE slot[h]]
              /\ queue' = {}
              /\ UNCHANGED <<pc, session, listed, mapLocked, relay, eventSide, link, clientSide>>

\* Mutant of CloseConn: the callbacks are kept.
CloseKeeping == /\ "conn" \in undone
                /\ connHolder = None
                /\ undone' = undone \ {"conn"}
                /\ link' = "closed"
                /\ UNCHANGED <<pc, session, listed, mapLocked, relay, rendezvous, eventSide, clientSide>>

\* The other half: ClientWebsocket closes the websocket and event_channel and
\* drops the callbacks.
CloseConn == /\ "conn" \in undone
             /\ connHolder = None
             /\ undone' = undone \ {"conn"}
             /\ link' = "closed"
             /\ reply' = [x \in Requests |-> IF x \in callbacks THEN "dropped" ELSE reply[x]]
             /\ callbacks' = {}
             /\ UNCHANGED <<pc, session, listed, mapLocked, connHolder, rendezvous, eventSide, clientSide>>

\* Both halves are done: the map is unlocked.
Close == /\ session = "removing"
         /\ undone = {}
         /\ session' = "closed"
         /\ mapLocked' = FALSE
         /\ UNCHANGED <<pc, listed, undone, relay, rendezvous, eventSide, link, clientSide>>

-----------------------------------------------------------------------------
(* HTTP requests with the session's token *)

\* The peer is found under the lock of the map ...
FindPeer(h) == /\ pc[h] = "unsent"
               /\ ~mapLocked
               /\ listed
               /\ Goto(h, "notifying")
               /\ UNCHANGED <<peerSide, relay, rendezvous, eventSide, link, clientSide>>

\* ... or not: "Auth request failed".
FindNoPeer(h) == /\ pc[h] = "unsent"
                 /\ ~mapLocked
                 /\ ~listed
                 /\ Goto(h, "failed")
                 /\ UNCHANGED <<peerSide, relay, rendezvous, eventSide, link, clientSide>>

Register(h) == /\ pc[h] = "registering"
               /\ queue' = queue \cup {h}
               /\ slot' = [slot EXCEPT ![h] = "open"]
               /\ Goto(h, "calling")
               /\ UNCHANGED <<peerSide, relay, eventSide, link, clientSide>>

\* The client says null: its PUT was answered.
TakeAck(h) == /\ pc[h] = "awaiting"
              /\ reply[h] = "null"
              /\ Goto(h, "matching")
              /\ UNCHANGED <<peerSide, relay, rendezvous, eventSide, link, clientSide>>

\* The client says anything else, or the callback was dropped.
TakeRefusal(h) == /\ pc[h] = "awaiting"
                  /\ reply[h] \in {"error", "dropped"}
                  /\ Goto(h, "rejected")
                  /\ UNCHANGED <<peerSide, relay, rendezvous, eventSide, link, clientSide>>

CancelRegister(h) == /\ pc[h] = "rejected"
                     /\ queue' = queue \ {h}
                     /\ slot' = [slot EXCEPT ![h] = IF h \in queue THEN "dropped" ELSE @]
                     /\ Goto(h, "failed")
                     /\ UNCHANGED <<peerSide, relay, eventSide, link, clientSide>>

\* rx.await of the PUT: the two bodies are joined, or the fetch fails ("Unknown").
Match(h) == /\ pc[h] = "matching"
            /\ slot[h] # "open"
            /\ Goto(h, IF slot[h] = "fed" THEN "served" ELSE "failed")
            /\ UNCHANGED <<peerSide, relay, rendezvous, eventSide, link, clientSide>>

\* The awaits at which a fetch may be when its browser drops the request.
AtAwait(h) == pc[h] \in {"notifying", "forwarding", "notified", "registering", "calling", "sending",
                         "awaiting", "rejected", "matching"}

\* hyper drops the handler: the lock is released, but nothing is cancelled.  The
\* registration, the callback and the message in event_channel stay.
Abandon(h) == /\ AtAwait(h)
              /\ connHolder' = IF connHolder = h THEN None ELSE connHolder
              /\ Goto(h, "abandoned")
              /\ UNCHANGED <<peerSide, callbacks, reply, rendezvous, eventSide, link, clientSide>>

\* http_server/client.rs: the peer of the PUT is looked up under the map's lock;
\* a PUT for no peer is answered like any other.
LookupPut(h) == /\ put[h] = "sent"
                /\ ~mapLocked
                /\ put' = [put EXCEPT ![h] = IF listed THEN "found" ELSE "answered"]
                /\ UNCHANGED <<pc, peerSide, relay, rendezvous, eventSide, link,
                               client, inbox, outbox, told>>

\* The registered fetch is fed, if it is still registered; then comes the answer.
FeedPut(h) == /\ put[h] = "found"
              /\ slot' = [slot EXCEPT ![h] = IF h \in queue THEN "fed" ELSE @]
              /\ queue' = queue \ {h}
              /\ put' = [put EXCEPT ![h] = "answered"]
              /\ UNCHANGED <<pc, peerSide, relay, eventSide, link, client, inbox, outbox, told>>

-----------------------------------------------------------------------------
(* The internal client *)

\* A response is written, and reaches the master unless that closed the websocket.
Respond(x, value) == /\ told' = told \cup {x}
                     /\ outbox' = IF link = "open" THEN [outbox EXCEPT ![x] = value] ELSE outbox

\* A call is handled, or a fetch is refused before any PUT (bad path, no master).
HandleRequest(x) == /\ client = "runs"
                    /\ x \in inbox
                    /\ inbox' = inbox \ {x}
                    /\ Respond(x, IF x \in Calls THEN "value" ELSE "error")
                    /\ UNCHANGED <<pc, peerSide, relay, rendezvous, eventSide, link, client, put>>

\* A fetch is answered with a request of the client's own.
SendPut(h) == /\ client = "runs"
              /\ h \in inbox
              /\ inbox' = inbox \ {h}
              /\ put' = [put EXCEPT ![h] = "sent"]
              /\ UNCHANGED <<pc, peerSide, relay, rendezvous, eventSide, link, client, outbox, told>>

\* The PUT's answer has come: null.
Acknowledge(h) == /\ client = "runs"
                  /\ put[h] = "answered"
                  /\ h \notin told
                  /\ Respond(h, "null")
                  /\ UNCHANGED <<pc, peerSide, relay, rendezvous, eventSide, link,
                                 client, inbox, put>>

\* The PUT's connection breaks, wherever the master is with it.
PutBreaks(h) == /\ client = "runs"
                /\ put[h] # "none"
                /\ h \notin told
                /\ Respond(h, "error")
                /\ UNCHANGED <<pc, peerSide, relay, rendezvous, eventSide, link,
                               client, inbox, put>>

\* The master's half of a PUT whose connection broke: hyper drops its handler.
DropPut(h) == /\ put[h] \in {"sent", "found"}
              /\ h \in told \/ client = "gone"
              /\ put' = [put EXCEPT ![h] = "dropped"]
              /\ UNCHANGED <<pc, peerSide, relay, rendezvous, eventSide, link,
                             client, inbox, outbox, told>>

\* The client reports an event, which on_client reads and starts to forward.  Its
\* poll_event is a task of its own, which no jam stops.
EmitEvent(e) == /\ client # "gone"
                /\ pc[e] = "unsent"
                /\ link = "open"
                /\ Goto(e, "notifying")
                /\ UNCHANGED <<peerSide, relay, rendezvous, eventSide, link, clientSide>>

\* A relayed watch blocks the one task of the client's handlers: no request is
\* handled and no PUT acknowledged any more.
Jam == /\ client = "runs"
       /\ \E k \in Calls : k \in inbox
       /\ client' = "jammed"
       /\ UNCHANGED <<pc, peerSide, relay, rendezvous, eventSide, link, inbox, outbox, told, put>>

\* The client is gone, with what it had to do and some of what it had written.
Crash == /\ client # "gone"
         /\ client' = "gone"
         /\ inbox' = {}
         /\ \E lost \in SUBSET {x \in Requests : outbox[x] # "none"} :
                outbox' = [x \in Requests |-> IF x \in lost THEN "none" ELSE outbox[x]]
         /\ UNCHANGED <<pc, peerSide, relay, rendezvous, eventSide, link, told, put>>

-----------------------------------------------------------------------------
RelayStep(x) == BeginSend(x) \/ SendFails(x) \/ FeedResponse(x)

NotifyStep(x) == LockConn(x) \/ ForwardEvent(x) \/ EventForwarded(x) \/ ForwardFails(x)

CallStep(k) == TakeReply(k) \/ AnswerCall(k)

PollStep == PopEvent \/ WriteEvent \/ EndPoller

TeardownStep == RemovePeer \/ ClearQueue \/ CloseConn \/ Close

FetchStep(h) == Register(h) \/ TakeAck(h) \/ TakeRefusal(h) \/ CancelRegister(h) \/ Match(h)

PutStep(h) == LookupPut(h) \/ FeedPut(h)

ClientStep(x) == \/ HandleRequest(x)
                 \/ x \in Fetches /\ (SendPut(x) \/ Acknowledge(x) \/ PutBreaks(x))

Next == \/ \E x \in Requests : RelayStep(x) \/ SendRequest(x) \/ ClientStep(x)
        \/ \E x \in Notifiers : NotifyStep(x)
        \/ \E k \in Calls : ReadCall(k) \/ CallStep(k)
        \/ \E h \in Fetches :
             \/ FindPeer(h) \/ FindNoPeer(h) \/ FetchStep(h) \/ PutStep(h)
             \/ Abandon(h) \/ DropPut(h)
        \/ \E e \in Events : EmitEvent(e)
        \/ PollStep
        \/ HangUp
        \/ TeardownStep
        \/ Jam \/ Crash

Spec == Init /\ [][Next]_vars

\* The tasks of the master run when they can; a client that runs handles what it
\* is asked and reads what it is sent; a browser reads what it is sent or its
\* websocket ends.  No request, event, hangup, jam or crash has to happen, no
\* browser has to drop a request, and a jammed client does nothing for anybody.
Fairness == /\ \A x \in Requests : /\ WF_vars(RelayStep(x))
                                   /\ WF_vars(client # "jammed" /\ SendRequest(x))
                                   /\ WF_vars(ClientStep(x))
            /\ \A x \in Notifiers : WF_vars(NotifyStep(x))
            /\ \A k \in Calls : WF_vars(CallStep(k))
            /\ \A h \in Fetches : WF_vars(FetchStep(h)) /\ WF_vars(PutStep(h))
            /\ WF_vars(PollStep)
            /\ WF_vars(ClearQueue) /\ WF_vars(TeardownStep)

FairSpec == Spec /\ Fairness

-----------------------------------------------------------------------------
(* The promise of a session *)

\* The session is over when disconnect() has dropped the registrations.
Phase == IF session = "open" THEN "open"
         ELSE IF session = "ended" \/ "queue" \in undone THEN "left" ELSE "over"

Handled == {x \in Requests : x \in told \/ (x \in Fetches /\ put[x] # "none")}

CallStage(k) == CASE pc[k] \in {"calling", "sending", "awaiting", "replying"} -> "taken"
                  [] pc[k] = "done" -> IF reply[k] = "value" THEN "answered" ELSE "refused"
                  [] OTHER -> "new"
FetchStage(h) == CASE pc[h] = "unsent" -> "new"
                   [] pc[h] \in {"served", "failed"} -> pc[h]
                   [] pc[h] = "abandoned" -> "failed"
                   [] OTHER -> IF slot[h] = "fed" THEN "joined" ELSE "waiting"
Stage(x) == IF x \in Calls THEN CallStage(x) ELSE FetchStage(x)

Promise == INSTANCE Session WITH phase <- Phase, handled <- Handled,
                                 stage <- [x \in Calls \cup Fetches |-> Stage(x)]

-----------------------------------------------------------------------------
(* Properties *)

\* To the browser and to HTTP requests the maps, Mutexes and messages of a
\* session are what Session promises: what is refused was never done, a fetch is
\* joined with its own PUT only, and with none after the end, be it in the middle
\* of its registration (websocket_peer.rs:24-104, components.rs:41-100).
KeepsItsPromise == Promise!Spec

\* After the client's null a fetch never waits: its PUT was fed before the null
\* was written, or its oneshot was dropped.  It would wait for ever otherwise,
\* as nobody is left to feed it (components.rs, line 80).
MatchingNeverWaits == \A h \in Fetches : pc[h] = "matching" => slot[h] # "open"

\* A request that waits for a response has its callback in the map or its
\* oneshot resolved: no response is lost between client and requester, also
\* when disconnect() runs at any point in between.
NoReplyIsLost ==
    \A x \in Requests : pc[x] = "awaiting" => x \in callbacks \/ reply[x] # "none"

\* While the client runs no request waits for nothing: it is with the client, its
\* PUT on the way, or its response not read yet.
AwaitedIsOwed ==
    \A x \in callbacks : client = "runs" /\ pc[x] = "awaiting" =>
        \/ x \in inbox \/ outbox[x] # "none"
        \/ x \in Fetches /\ put[x] # "none" /\ x \notin told

\* An entry of a request that is over is that of a fetch which its browser gave
\* up: every return of the rendezvous cancels its registration.
NoStaleEntry ==
    /\ \A x \in callbacks : pc[x] \in {"sending", "awaiting", "abandoned"}
    /\ \A h \in queue : pc[h] \in {"calling", "sending", "awaiting", "rejected", "abandoned"}

\* The callbacks that disconnect() drops are those of fetches alone: a call
\* whose client is gone or jammed is never released by it, for the handler waits
\* for all its calls before it comes to disconnect().  It leaves no callback.
DisconnectFindsNoCall == /\ session \in {"removing", "closed"} => callbacks \cap Calls = {}
                         /\ session = "closed" => callbacks = {}

\* The maps of the relay at every moment of every interleaving: what waits is in
\* them or has its answer, what is in them waits or was given up at an await,
\* and what was given up is kept no longer than the session.
MapsAreExact == NoReplyIsLost /\ AwaitedIsOwed /\ NoStaleEntry /\ DisconnectFindsNoCall

\* A call waits for a client that crashed or is jammed and left no response.
Orphan == \E k \in Calls : /\ pc[k] = "awaiting" /\ k \in callbacks
                           /\ client # "runs" /\ outbox[k] = "none"

\* Such a call waits for ever, and the session with it is never torn down:
\* nothing that still happens (a hangup, a fetch, another call) releases it.
OrphanIsForever == [][Orphan => Orphan' /\ session' \notin {"removing", "closed"}]_vars

\* A call that was read is answered, or its client crashed or is jammed.
CallsAreAnswered == \A k \in Calls : pc[k] = "calling" ~> pc[k] = "done" \/ client # "runs"

Ended(h) == pc[h] \in {"served", "failed", "abandoned"}

\* A fetch that found its peer ends, or the client crashed or is jammed; the end
\* of the session ends all its fetches, even those whose PUT the client still
\* owed and those that registered after the maps were cleared.
FetchesEnd == \A h \in Fetches : /\ pc[h] = "notifying" ~> Ended(h) \/ client # "runs"
                                 /\ pc[h] # "unsent" /\ session = "closed" ~> Ended(h)

\* Nobody who asks is kept waiting by anything but a client that crashed or is
\* jammed, though a fetch may be dropped while it holds the Mutex or its message
\* is in the channel (components.rs:41-100, on_authenticate.rs:101-141).
RequestsEnd == CallsAreAnswered /\ FetchesEnd


-----------------------------------------------------------------------------
(* The inductive invariant behind the safety properties *)

RequestStates == {"unsent", "notifying", "forwarding", "notified", "registering", "calling",
                  "sending", "awaiting", "replying", "matching", "rejected", "served",
                  "failed", "abandoned", "done"}

TypeOK == /\ pc \in [Requests \cup Events -> RequestStates]
          /\ session \in {"open", "ended", "removing", "closed"}
          /\ listed \in BOOLEAN /\ mapLocked \in BOOLEAN
          /\ undone \subseteq {"queue", "conn"}
          /\ connHolder \in Requests \cup Events \cup {None}
          /\ callbacks \subseteq Requests
          /\ reply \in [Requests -> {"none", "value", "null", "error", "dropped"}]
          /\ queue \subseteq Fetches
          /\ slot \in [Fetches -> {"none", "open", "fed", "dropped"}]
          /\ event \in Notifiers \cup {None}
          /\ poller \in {"ready", "writing", "ended"}
          /\ link \in {"open", "closed"}
          /\ client \in {"runs", "jammed", "gone"}
          /\ inbox \subseteq Requests
          /\ outbox \in [Requests -> {"none", "value", "null", "error"}]
          /\ told \subseteq Requests
          /\ put \in [Fetches -> {"none", "sent", "found", "answered", "dropped"}]

\* The map shows the peer until its teardown, which keeps the map locked; no
\* call is in progress then, and the closed websocket has no callbacks.
SessionOK == /\ listed <=> session \in {"open", "ended"}
             /\ mapLocked <=> session = "removing"
             /\ undone # {} => session = "removing"
             /\ session \in {"open", "ended"} => link = "open"
             /\ session = "removing" /\ "conn" \notin undone => link = "closed"
             /\ session = "closed" => link = "closed"
             /\ link = "closed" => callbacks = {}
             /\ session \in {"removing", "closed"} => InProgress = {}

\* The Mutex of ClientWebsocket is with the one that sends or forwards.
HolderOK(x) == connHolder = x <=> pc[x] \in {"forwarding", "notified", "sending"}

\* The client has not been asked for x.
Unasked(x) == pc[x] \in {"unsent", "notifying", "forwarding", "notified", "registering",
                        "calling", "sending"}

\* A callback in the map is that of a request without a response that is being
\* sent, waits or was given up; a waiting request has one of the two.
RelayOK(x) == /\ Unasked(x) => reply[x] = "none"
              /\ x \in callbacks => pc[x] \in {"sending", "awaiting", "abandoned"} /\ reply[x] = "none"
              /\ pc[x] = "sending" => x \in callbacks
              /\ pc[x] = "abandoned" => x \in Fetches
              /\ pc[x] = "awaiting" => x \in callbacks \/ reply[x] # "none"
              /\ x \in callbacks /\ pc[x] = "awaiting" /\ client = "runs" =>
                    \/ x \in inbox \/ outbox[x] # "none"
                    \/ x \in Fetches /\ put[x] # "none" /\ x \notin told

\* A registration is an open oneshot; it is not there any more when the client
\* has its PUT answered while the callback still waits for the null.
FetchOK(h) ==
    /\ h \in queue <=> slot[h] = "open"
    /\ h \in queue => pc[h] \in {"calling", "sending", "awaiting", "rejected", "abandoned"}
    /\ Unasked(h) => h \notin inbox /\ h \notin told /\ put[h] = "none" /\ outbox[h] = "none"
    /\ h \in inbox => h \notin told /\ put[h] = "none" /\ outbox[h] = "none"
    /\ outbox[h] = "null" => put[h] = "answered"
    /\ put[h] = "answered" /\ h \in callbacks => h \notin queue
    /\ reply[h] = "null" => h \notin queue

IndInv == /\ TypeOK
          /\ SessionOK
          /\ \A x \in Requests \cup Events : HolderOK(x)
          /\ \A x \in Requests : RelayOK(x)
          /\ \A h \in Fetches : FetchOK(h)

-----------------------------------------------------------------------------
(* What Session adds to the invariant *)

\* Only what was sent is answered, and a call without an answer was not sent.
AskedOK(x) ==
    /\ Unasked(x) => x \notin inbox /\ x \notin told
    /\ x \in inbox => x \notin told
    /\ outbox[x] # "none" \/ reply[x] \notin {"none", "dropped"} => x \in told
    /\ x \in Calls => /\ pc[x] \in {"unsent", "calling", "sending", "awaiting", "replying", "done"}
                      /\ outbox[x] \in {"none", "value"} /\ reply[x] \in {"none", "value"}
                      /\ pc[x] \in {"replying", "done"} /\ reply[x] = "none"
                            => x \notin inbox /\ x \notin told

\* A PUT that found its peer finds no registration after the teardown, and what
\* is joined was brought by a PUT.
JoinOK(h) ==
    /\ put[h] = "found" /\ h \in queue => session \in {"open", "ended"} \/ "queue" \in undone
    /\ slot[h] = "fed" => put[h] = "answered"

PromiseInv == /\ \A x \in Requests : AskedOK(x)
              /\ \A h \in Fetches : JoinOK(h)
==============================================================================
