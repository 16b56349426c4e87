-------------------------------- MODULE Link --------------------------------
(***************************************************************************)
(* The browser's link to the server: the websocket that App.tsx opens and  *)
(* opens again, the sign-in page above it, the calls of Auth.rest and the  *)
(* web worker that encodes and decodes every message.                      *)
(*                                                                         *)
(* Calls are numbered in the order in which they are made; the tags, which *)
(* start anew with every Auth, are these numbers less those of the earlier *)
(* connections (old).  Passwords are abstracted to whether one is stored.  *)
(* Events go to listeners that other modules model.                        *)
(***************************************************************************)
EXTENDS Naturals, Sequences

CONSTANTS Calls,    \* bound on the calls of rest
          Backlog   \* bound on the requests the worker has when a websocket opens

ASSUME CallsAssumption == Calls \in Nat
ASSUME BacklogAssumption == Backlog \in Nat

VARIABLES ws,        \* readyState of the latest WebSocket, "closed": delayed
          lost,      \* _connectionMayBeLost
          page,      \* state.server with the loading and auth of its sign-in page
          remember,  \* "remember-password" in localStorage
          stored,    \* "ssh-password" in localStorage
          listening, \* the sign-in's once-listener is attached
          asked,     \* the server has a sign-in to answer
          down,      \* messages on their way to the browser
          blobs,     \* messages whose Blob is being read
          work,      \* requests of `suspend`, in the order the worker serves them
          closed,    \* the worker has failed
          tag,       \* the calls made so far
          old,       \* those of them made on earlier connections
          st         \* what became of each call

vars == <<ws, lost, page, remember, stored, listening, asked, down, blobs, work, closed, tag, old, st>>
wire == <<listening, asked, down>>
storage == <<remember, stored>>

Tags == 1 .. Calls
CallStates == {"idle", "encoding", "pending", "replied", "answered", "forsaken"}
\* What is encoded or decoded: a sign-in or its answer (tag 0), or a call;
\* live: for the present connection.
Messages == [of : {"token", "error"}, tag : {0}] \cup [of : {"call"}, tag : Tags]
Items == [op : {"encode"}, of : {"signIn"}, tag : {0}, live : BOOLEAN]
         \cup [op : {"encode", "decode"}, of : {"call"}, tag : Tags, live : BOOLEAN]
         \cup [op : {"decode"}, of : {"token", "error"}, tag : {0}, live : BOOLEAN]
Item(op, of, c) == [op |-> op, of |-> of, tag |-> c, live |-> TRUE]
Call(c) == [of |-> "call", tag |-> c]
Suspended == {work[k] : k \in DOMAIN work}

\* App mounts and connects; localStorage holds what earlier visits left.
Init == /\ ws = "connecting" /\ lost = FALSE /\ page = "none"
        /\ remember \in BOOLEAN /\ stored \in BOOLEAN
        /\ listening = FALSE /\ asked = FALSE /\ down = {} /\ blobs = {}
        /\ work = <<>> /\ closed = FALSE
        /\ tag = 0 /\ old = 0 /\ st = [c \in Tags |-> "idle"]

-----------------------------------------------------------------------------
(* Requests to the worker and what follows them *)

\* ws.send() of a call: silently nothing unless the websocket is open.
Sent == IF ws = "open" THEN "pending" ELSE "forsaken"

\* signIn() goes on with its encoded request: listens, and sends.
SendSignIn(state) == /\ listening' = TRUE /\ asked' = (state = "open") /\ UNCHANGED down

\* _submit() up to its await: the request is encoded, by the worker or here.
SubmitNow(state) ==
    /\ page' = "loading"
    /\ IF closed THEN SendSignIn(state) /\ UNCHANGED work
       ELSE work' = Append(work, Item("encode", "signIn", 0)) /\ UNCHANGED wire

\* Mutant of Handle: a refused sign-in does not end the loading.
HandleLoading(i) ==
    /\ st' = IF i.of = "call" THEN [st EXCEPT ![i.tag] = "answered"] ELSE st
    /\ stored' = (stored \/ (i.of = "token" /\ remember))
    /\ page' = IF i.live /\ i.of = "token" THEN "home" ELSE page

\* A decoded message reaches the code that listened for it when it came in.
Handle(i) ==
    /\ st' = IF i.of = "call" THEN [st EXCEPT ![i.tag] = "answered"] ELSE st
    /\ stored' = (stored \/ (i.of = "token" /\ remember))
    /\ page' = IF ~i.live \/ i.of = "call" THEN page
               ELSE IF i.of = "token" THEN "home" ELSE "form"

\* The worker answers its oldest request.
WorkerDone ==
    /\ work # <<>>
    /\ work' = Tail(work)
    /\ LET i == Head(work) IN
         \/ /\ i.op = "encode" /\ i.of = "signIn" /\ i.live
            /\ SendSignIn(ws)
            /\ UNCHANGED <<st, stored, page>>
         \/ /\ i.op = "encode" /\ i.of = "call" /\ i.live
            /\ st' = [st EXCEPT ![i.tag] = Sent]
            /\ UNCHANGED <<wire, stored, page>>
         \/ /\ i.op = "encode" /\ ~i.live   \* sent on a closed websocket
            /\ UNCHANGED <<wire, st, stored, page>>
         \/ /\ i.op = "decode"
            /\ Handle(i)
            /\ UNCHANGED wire
    /\ UNCHANGED <<ws, lost, remember, blobs, closed, tag, old>>

\* Mutant of WorkerFails: the suspended requests are not rejected.
WorkerFailsKeeping ==
    /\ ~closed
    /\ closed' = TRUE
    /\ UNCHANGED <<ws, lost, page, storage, wire, blobs, work, tag, old, st>>

\* Mutant of WorkerFails: the rejected requests are not encoded here.
WorkerFailsLosing ==
    /\ ~closed
    /\ closed' = TRUE /\ work' = <<>>
    /\ UNCHANGED <<ws, lost, page, storage, wire, blobs, tag, old, st>>

\* The worker fails.  Every request is rejected: what was to be encoded is
\* encoded here, what was to be decoded went away with its buffer.
WorkerFails ==
    /\ ~closed
    /\ closed' = TRUE /\ work' = <<>>
    /\ st' = [c \in Tags |-> CASE Item("encode", "call", c) \in Suspended -> Sent
                               [] \E i \in Suspended : i.op = "decode" /\ i.tag = c -> "forsaken"
                               [] OTHER -> st[c]]
    /\ IF Item("encode", "signIn", 0) \in Suspended THEN SendSignIn(ws) ELSE UNCHANGED wire
    /\ UNCHANGED <<ws, lost, page, storage, blobs, tag, old>>

-----------------------------------------------------------------------------
(* The connection *)

\* Mutant of OnOpen: a password that is not remembered is left stored.
OnOpenKeeping == /\ ws = "connecting" /\ Len(work) < Backlog
                 /\ ws' = "open" /\ lost' = FALSE
                 /\ IF remember /\ stored THEN SubmitNow("open")
                    ELSE page' = "form" /\ UNCHANGED <<work, wire>>
                 /\ UNCHANGED <<storage, blobs, closed, tag, old, st>>

\* AppServer is created and the sign-in page mounts: it submits a remembered
\* password at once and drops one that is not to be remembered.  The mount is
\* taken to follow at once.
OnOpen == /\ ws = "connecting" /\ Len(work) < Backlog
          /\ ws' = "open" /\ lost' = FALSE
          /\ IF remember /\ stored THEN SubmitNow("open")
             ELSE page' = "form" /\ UNCHANGED <<work, wire>>
          /\ stored' = (stored /\ remember)
          /\ UNCHANGED <<remember, blobs, closed, tag, old, st>>

OnError == /\ ws \in {"connecting", "open"}
           /\ ws' = "closing"
           /\ UNCHANGED <<lost, page, storage, wire, blobs, work, closed, tag, old, st>>

\* The websocket is closed, by whomever: the page goes, and a new websocket is
\* opened, after two seconds if this one had not opened.
OnClose ==
    /\ ws # "closed"
    /\ ws' = IF lost THEN "closed" ELSE "connecting"
    /\ lost' = TRUE /\ page' = "none"
    /\ listening' = FALSE /\ asked' = FALSE /\ down' = {}
    /\ blobs' = {[i EXCEPT !.live = FALSE] : i \in blobs}
    /\ work' = [k \in DOMAIN work |-> [work[k] EXCEPT !.live = FALSE]]
    /\ st' = [c \in Tags |-> IF st[c] \in {"encoding", "pending"} \/ Call(c) \in down
                             THEN "forsaken" ELSE st[c]]
    /\ old' = tag
    /\ UNCHANGED <<storage, closed, tag>>

Reconnect == /\ ws = "closed"
             /\ ws' = "connecting" /\ lost' = TRUE
             /\ UNCHANGED <<page, storage, wire, blobs, work, closed, tag, old, st>>

\* A message is dispatched to whoever listens now; its Blob is to be read.
Deliver(m) ==
    /\ ws = "open" /\ m \in down
    /\ down' = down \ {m}
    /\ listening' = FALSE
    /\ blobs' = IF listening \/ page = "home" THEN blobs \cup {Item("decode", m.of, m.tag)} ELSE blobs
    /\ UNCHANGED <<ws, lost, page, storage, asked, work, closed, tag, old, st>>

\* A Blob has been read, in any order, and goes to the worker, or is decoded here.
Read(i) ==
    /\ i \in blobs
    /\ blobs' = blobs \ {i}
    /\ IF closed THEN Handle(i) /\ UNCHANGED work
       ELSE work' = Append(work, i) /\ UNCHANGED <<st, stored, page>>
    /\ UNCHANGED <<ws, lost, remember, wire, closed, tag, old>>

-----------------------------------------------------------------------------
(* The user and the pages *)

Submit == /\ page = "form"
          /\ SubmitNow(ws)
          /\ UNCHANGED <<ws, lost, storage, blobs, closed, tag, old, st>>

Remember == /\ page \in {"form", "loading"}
            /\ remember' = ~remember
            /\ stored' = (stored /\ ~remember)
            /\ UNCHANGED <<ws, lost, page, wire, blobs, work, closed, tag, old, st>>

\* A call: its tag is drawn and its request is encoded.
Rest == /\ page = "home" /\ tag < Calls
        /\ tag' = tag + 1
        /\ IF closed THEN st' = [st EXCEPT ![tag + 1] = Sent] /\ UNCHANGED work
           ELSE /\ st' = [st EXCEPT ![tag + 1] = "encoding"]
                /\ work' = Append(work, Item("encode", "call", tag + 1))
        /\ UNCHANGED <<ws, lost, page, storage, wire, blobs, closed, old>>

\* "Logout" of the terminals' menu.
SignOut == /\ page = "home"
           /\ remember' = FALSE
           /\ ws' = IF ws = "open" THEN "closing" ELSE ws
           /\ UNCHANGED <<lost, page, stored, wire, blobs, work, closed, tag, old, st>>

-----------------------------------------------------------------------------
(* The server, which owes nobody an answer: a relayed call may be orphaned or *)
(* its client jammed, a shell may stop reading (WebSocketPeer, Watch, Shell), *)
(* and two sign-ins may wait for each other (SignIn), all on a websocket that *)
(* stays open.                                                                *)

SignInAnswer == /\ asked
                /\ asked' = FALSE
                /\ \E of \in {"token", "error"} : down' = down \cup {[of |-> of, tag |-> 0]}
                /\ UNCHANGED <<ws, lost, page, storage, listening, blobs, work, closed, tag, old, st>>

Answer(c) == /\ st[c] = "pending"
             /\ st' = [st EXCEPT ![c] = "replied"]
             /\ down' = down \cup {Call(c)}
             /\ UNCHANGED <<ws, lost, page, storage, listening, asked, blobs, work, closed, tag, old>>

Next == \/ WorkerDone \/ WorkerFails
        \/ OnOpen \/ OnError \/ OnClose \/ Reconnect
        \/ \E m \in Messages : Deliver(m)
        \/ \E i \in blobs : Read(i)
        \/ Submit \/ Remember \/ Rest \/ SignOut
        \/ SignInAnswer \/ \E c \in Tags : Answer(c)

Spec == Init /\ [][Next]_vars

\* Timers, the worker and Blob reads end, what the server sent arrives, and a
\* websocket being opened or closed is some time.  Nobody has to do anything,
\* the server need not answer, and no connection has to end.
Fairness == /\ WF_vars(WorkerDone) /\ WF_vars(OnOpen) /\ WF_vars(Reconnect)
            /\ WF_vars(ws = "closing" /\ OnClose)
            /\ WF_vars(\E i \in blobs : Read(i))
            /\ WF_vars(\E m \in Messages : Deliver(m))

FairSpec == Spec /\ Fairness

-----------------------------------------------------------------------------
(* Properties *)

\* The types of the variables (App.tsx, SignInPage.tsx, Compress.ts).
TypeOK == /\ ws \in {"connecting", "open", "closing", "closed"}
          /\ lost \in BOOLEAN
          /\ page \in {"none", "form", "loading", "home"}
          /\ remember \in BOOLEAN /\ stored \in BOOLEAN
          /\ listening \in BOOLEAN /\ asked \in BOOLEAN /\ down \subseteq Messages
          /\ blobs \subseteq {i \in Items : i.op = "decode"}
          /\ work \in Seq(Items) /\ closed \in BOOLEAN
          /\ tag \in 0 .. Calls /\ old \in 0 .. Calls
          /\ st \in [Tags -> CallStates]

\* Calls leave in the order in which they were made, keystrokes with them,
\* although each is encoded asynchronously and the worker may fail with some of
\* them in hand and later ones encoded without it (Compress.ts:20-41, 71-82,
\* SignInPage.tsx:274-282).
SentInOrder ==
    \A a, b \in Tags : a < b /\ st[a] = "encoding" => st[b] \in {"idle", "encoding"}

\* SentInOrder made inductive: what is being encoded is with the worker, in the
\* order of the calls, and what is decoded was sent (SignInPage.tsx:274-282).
Encoding(k) == work[k].op = "encode" /\ work[k].of = "call" /\ work[k].live
Made == \A c \in Tags : c > tag => st[c] = "idle"
InHand == /\ closed => work = <<>>
          /\ \A c \in Tags : st[c] = "encoding" => Item("encode", "call", c) \in Suspended
          /\ \A k \in DOMAIN work : Encoding(k) => work[k].tag <= tag /\ st[work[k].tag] = "encoding"
InLine == \A j, k \in DOMAIN work : j < k /\ Encoding(j) /\ Encoding(k) => work[j].tag < work[k].tag
Started == \A c \in Tags :
               st[c] \in {"idle", "encoding"} =>
                 /\ Call(c) \notin down
                 /\ \A i \in blobs \cup Suspended : i.op = "decode" /\ i.of = "call" => i.tag # c
IndInv == TypeOK /\ Made /\ InHand /\ InLine /\ Started /\ SentInOrder

\* While a connection is open and the tick is not set, no password is stored:
\* whatever was ticked, unticked, signed out, or answered late by an earlier
\* connection (SignInPage.tsx:54-63, 82-93, 181-189).
UntickedIsForgotten == ws = "open" /\ ~remember => ~stored

\* Where a call is (what becomes of it is then up to the worker, the server, the
\* event loop, in turn): one whose answer came has somebody who listens for it.
OnItsWay(c) ==
    /\ st[c] = "encoding" => Item("encode", "call", c) \in Suspended
    /\ st[c] = "pending" => ws \in {"open", "closing"}
    /\ st[c] = "replied" => \/ Call(c) \in down /\ page = "home"
                            \/ \E i \in blobs \cup Suspended : i.op = "decode" /\ i.tag = c
    /\ st[c] = "forsaken" => c <= old \/ ws = "closing" \/ closed

\* The call goes unanswered, whatever the server does.
Forsaken(c) == c <= old \/ ws = "closing" \/ (closed /\ st[c] = "forsaken")

\* A call reaches the server and the answer of the server its caller, unless the
\* websocket is lost or the worker fails with the answer in hand: none is dropped
\* between encoding, websocket, Blob, worker and callback, before or after a
\* failure (Compress.ts:10-41, 84-109, SignInPage.tsx:233-246, 274-282).  A call
\* that the server never answers stays with it: nothing here gives it up.
AnsweredUnlessLost ==
    /\ [](\A c \in Tags : OnItsWay(c))
    /\ \A c \in Tags :
         /\ st[c] = "encoding" ~> st[c] \in {"pending", "answered"} \/ Forsaken(c)
         /\ []<>(st[c] # "pending") => (st[c] = "encoding" ~> st[c] = "answered" \/ Forsaken(c))

\* Where a sign-in is, between its submission and its answer.
SigningIn == \/ Item("encode", "signIn", 0) \in Suspended
             \/ listening /\ (asked \/ \E m \in down : m.tag = 0)
             \/ \E i \in blobs \cup Suspended : i.op = "decode" /\ i.tag = 0 /\ i.live

\* The sign-in page does not load for ever unless the server never answers or the
\* worker fails while it has the answer in hand: as long as it loads its sign-in
\* is on its way, and nothing but a failure of the worker takes it off
\* (App.tsx:50-63, SignInPage.tsx:49-65).  The page has no timeout of its own: a
\* sign-in that the server never answers (SignIn's circle) loads for ever.
LoadingEnds == /\ [][page' = "loading" /\ ws' = "open" =>
                       SigningIn' \/ (page = "loading" /\ (closed' # closed \/ ~SigningIn))]_vars
               /\ page = "loading" ~> page # "loading" \/ closed \/ asked
               /\ []<>~asked => /\ page = "loading" ~> page # "loading" \/ closed
                                /\ closed /\ asked ~> page # "loading"

\* What the safety parts of both need besides IndInv: calls belong to the home
\* page of a websocket, and a sign-in is in one place at most, nowhere unless
\* its page loads (App.tsx:27-88, SignInPage.tsx:49-65, 233-246).
OfSignIn(i) == i.tag = 0 /\ i.live
InWork == \E k \in DOMAIN work : OfSignIn(work[k])
InBlobs == \E i \in blobs : OfSignIn(i)
InDown == \E m \in down : m.tag = 0
PageOK == /\ page # "none" => ws \in {"open", "closing"}
          /\ old <= tag
          /\ \A c \in Tags : st[c] \in {"encoding", "pending"} \/ Call(c) \in down => page = "home"
SignInOK == /\ asked \/ InDown \/ InBlobs \/ InWork => page = "loading"
            /\ asked => ~InDown /\ ~InBlobs /\ ~InWork
            /\ InDown => ~InBlobs /\ ~InWork
            /\ InBlobs => ~InWork
            /\ \A j, k \in DOMAIN work : OfSignIn(work[j]) /\ OfSignIn(work[k]) => j = k
            /\ \A i, j \in blobs : OfSignIn(i) /\ OfSignIn(j) => i = j
            /\ \A m, n \in down : m.tag = 0 /\ n.tag = 0 => m = n
WayInv == PageOK /\ SignInOK /\ \A c \in Tags : OnItsWay(c)
=============================================================================
