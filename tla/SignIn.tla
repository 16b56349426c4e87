------------------------------- MODULE SignIn -------------------------------
(***************************************************************************)
(* From an accepted password to a session and its end, in the master       *)
(* server: websocket_server/on_request_authenticate.rs (lines 120-205),    *)
(* websocket_server/on_client.rs and the start of websocket_client.        *)
(*                                                                         *)
(* A connection (a browser's websocket) whose password was accepted draws  *)
(* a token, takes the locks of both maps with join!, notes the token in    *)
(* suspended_clients and launches the internal client through ssh.  It     *)
(* then waits for that client, at most five seconds, STILL HOLDING the     *)
(* lock of websocket_peers.  The client comes back on /client?t=token and  *)
(* on_client takes the note and hands the client's websocket over.         *)
(*                                                                         *)
(* join! polls both lock futures and keeps the guard of the one it got, so *)
(* the two locks are two independent steps, in either order.               *)
(***************************************************************************)
EXTENDS FiniteSets

CONSTANTS Connections,  \* browser websockets
          Tokens,       \* what Uuid::new_v4 may return; bounds the attempts
          None

ASSUME NoneAssumption == None \notin Connections \cup Tokens

VARIABLES pc,          \* where the handler of each connection is
          token,       \* the token of its current attempt or session
          peerLock,    \* who holds the Mutex of websocket_peers
          clientsLock, \* who holds the Mutex of suspended_clients
          suspended,   \* suspended_clients: token -> connection that waits
          peers,       \* websocket_peers: token -> connection of the session
          delivered,   \* the oneshot of a waiting connection holds its client
          client,      \* the internal client launched for each token
          callback     \* the connection whose oneshot a client's handler holds

locks == <<peerLock, clientsLock>>
vars == <<pc, token, peerLock, clientsLock, suspended, peers, delivered, client, callback>>

ConnectionStates == {"idle", "joining", "waiting", "expiring", "cleaning", "failed",
                     "granting", "session", "teardown", "disconnecting", "closed"}

\* launched: exec sent; taken: its handler removed the note; serving: handed
\* over; gone: refused, crashed, disconnected or never started.
ClientStates == {"none", "launched", "taken", "serving", "gone"}

Init == /\ pc = [c \in Connections |-> "idle"]
        /\ token = [c \in Connections |-> None]
        /\ peerLock = None
        /\ clientsLock = None
        /\ suspended = [t \in Tokens |-> None]
        /\ peers = [t \in Tokens |-> None]
        /\ delivered = [c \in Connections |-> FALSE]
        /\ client = [t \in Tokens |-> "none"]
        /\ callback = [t \in Tokens |-> None]

InUse(t) == suspended[t] # None \/ peers[t] # None

-----------------------------------------------------------------------------
(* Signing in *)

\* An attempt ends before it has a token: format, ssh, password or channel.
RefuseEarly(c) == /\ pc[c] = "idle"
                  /\ pc' = [pc EXCEPT ![c] = "failed"]
                  /\ UNCHANGED <<token, locks, suspended, peers, delivered, client, callback>>

\* Password accepted, channel open; the token is new, or repeats one in use.
DrawToken(c, t) == /\ pc[c] = "idle"
                   /\ client[t] = "none" \/ InUse(t)
                   /\ pc' = [pc EXCEPT ![c] = "joining"]
                   /\ token' = [token EXCEPT ![c] = t]
                   /\ UNCHANGED <<locks, suspended, peers, delivered, client, callback>>

JoinPeers(c) == /\ pc[c] = "joining"
                /\ peerLock = None
                /\ peerLock' = c
                /\ UNCHANGED <<pc, token, clientsLock, suspended, peers, delivered, client, callback>>

JoinClients(c) == /\ pc[c] = "joining"
                  /\ clientsLock = None
                  /\ clientsLock' = c
                  /\ UNCHANGED <<pc, token, peerLock, suspended, peers, delivered, client, callback>>

Joined(c) == pc[c] = "joining" /\ peerLock = c /\ clientsLock = c

\* "id generation failed"
Collide(c) == /\ Joined(c)
              /\ InUse(token[c])
              /\ peerLock' = None
              /\ clientsLock' = None
              /\ pc' = [pc EXCEPT ![c] = "failed"]
              /\ UNCHANGED <<token, suspended, peers, delivered, client, callback>>

\* Mutant of Suspend: the collision test is dropped.
SuspendUntested(c) == /\ Joined(c)
                      /\ suspended' = [suspended EXCEPT ![token[c]] = c]
                      /\ clientsLock' = None
                      /\ client' = [client EXCEPT ![token[c]] = "launched"]
                      /\ pc' = [pc EXCEPT ![c] = "waiting"]
                      /\ UNCHANGED <<token, peerLock, peers, delivered, callback>>

\* The note is made and drop(clients); the client is launched in a task of its
\* own.  The guard of the peer map stays.
Suspend(c) == /\ Joined(c)
              /\ ~InUse(token[c])
              /\ suspended' = [suspended EXCEPT ![token[c]] = c]
              /\ clientsLock' = None
              /\ client' = [client EXCEPT ![token[c]] = "launched"]
              /\ pc' = [pc EXCEPT ![c] = "waiting"]
              /\ UNCHANGED <<token, peerLock, peers, delivered, callback>>

\* The oneshot holds the client's websocket: the peer is inserted, and the
\* guard of the peer map dropped with the attempt's block.
Grant(c) == /\ pc[c] = "waiting"
            /\ delivered[c]
            /\ peers' = [peers EXCEPT ![token[c]] = c]
            /\ peerLock' = None
            /\ delivered' = [delivered EXCEPT ![c] = FALSE]
            /\ pc' = [pc EXCEPT ![c] = "granting"]
            /\ UNCHANGED <<token, clientsLock, suspended, client, callback>>

\* timeout() polls the oneshot, finds nothing, and then sees its delay over ...
Expire(c) == /\ pc[c] = "waiting"
             /\ ~delivered[c]
             /\ pc' = [pc EXCEPT ![c] = "expiring"]
             /\ UNCHANGED <<token, locks, suspended, peers, delivered, client, callback>>

\* ... and is dropped with the oneshot, and with a client that arrived between.
DropOneshot(c) == /\ pc[c] = "expiring"
                  /\ delivered' = [delivered EXCEPT ![c] = FALSE]
                  /\ pc' = [pc EXCEPT ![c] = "cleaning"]
                  /\ UNCHANGED <<token, locks, suspended, peers, client, callback>>

\* Mutant of Clean: the note of a timed out attempt stays.
CleanNothing(c) == /\ pc[c] = "cleaning"
                   /\ clientsLock = None
                   /\ peerLock' = None
                   /\ pc' = [pc EXCEPT ![c] = "failed"]
                   /\ UNCHANGED <<token, clientsLock, suspended, peers, delivered, client, callback>>

\* Mutant of Clean: the note is removed without the lock of its map.
CleanUnlocked(c) == /\ pc[c] = "cleaning"
                    /\ suspended' = [suspended EXCEPT ![token[c]] = None]
                    /\ peerLock' = None
                    /\ pc' = [pc EXCEPT ![c] = "failed"]
                    /\ UNCHANGED <<token, clientsLock, peers, delivered, client, callback>>

\* The note is removed, once suspended_clients can be locked; "Failed to connect
\* to client" then drops the guard of the peer map.
Clean(c) == /\ pc[c] = "cleaning"
            /\ clientsLock = None
            /\ suspended' = [suspended EXCEPT ![token[c]] = None]
            /\ peerLock' = None
            /\ pc' = [pc EXCEPT ![c] = "failed"]
            /\ UNCHANGED <<token, clientsLock, peers, delivered, client, callback>>

\* The browser is told "Authenticate failed" and may try again ...
ReplyError(c) == /\ pc[c] = "failed"
                 /\ pc' = [pc EXCEPT ![c] = "idle"]
                 /\ token' = [token EXCEPT ![c] = None]
                 /\ UNCHANGED <<locks, suspended, peers, delivered, client, callback>>

\* ... or its websocket is gone, here or between two messages.
Hangup(c) == /\ pc[c] \in {"idle", "failed"}
             /\ pc' = [pc EXCEPT ![c] = "closed"]
             /\ token' = [token EXCEPT ![c] = None]
             /\ UNCHANGED <<locks, suspended, peers, delivered, client, callback>>

-----------------------------------------------------------------------------
(* The session *)

\* The token reaches the browser and on_authenticate::handle_request runs ...
SendToken(c) == /\ pc[c] = "granting"
                /\ pc' = [pc EXCEPT ![c] = "session"]
                /\ UNCHANGED <<token, locks, suspended, peers, delivered, client, callback>>

\* ... or the browser is gone before it has the token.
SendTokenFails(c) == /\ pc[c] = "granting"
                     /\ pc' = [pc EXCEPT ![c] = "teardown"]
                     /\ UNCHANGED <<token, locks, suspended, peers, delivered, client, callback>>

EndSession(c) == /\ pc[c] = "session"
                 /\ pc' = [pc EXCEPT ![c] = "teardown"]
                 /\ UNCHANGED <<token, locks, suspended, peers, delivered, client, callback>>

RemovePeer(c) == /\ pc[c] = "teardown"
                 /\ peerLock = None
                 /\ peerLock' = c
                 /\ peers' = [peers EXCEPT ![token[c]] = None]
                 /\ pc' = [pc EXCEPT ![c] = "disconnecting"]
                 /\ UNCHANGED <<token, clientsLock, suspended, delivered, client, callback>>

\* Mutant of Disconnect: the peer map stays locked after the session.
DisconnectLocked(c) == /\ pc[c] = "disconnecting"
                       /\ client' = [client EXCEPT ![token[c]] = "gone"]
                       /\ token' = [token EXCEPT ![c] = None]
                       /\ pc' = [pc EXCEPT ![c] = "closed"]
                       /\ UNCHANGED <<locks, suspended, peers, delivered, callback>>

\* peer.disconnect() closes the client's websocket with the peer map locked.
Disconnect(c) == /\ pc[c] = "disconnecting"
                 /\ client' = [client EXCEPT ![token[c]] = "gone"]
                 /\ peerLock' = None
                 /\ token' = [token EXCEPT ![c] = None]
                 /\ pc' = [pc EXCEPT ![c] = "closed"]
                 /\ UNCHANGED <<clientsLock, suspended, peers, delivered, callback>>

-----------------------------------------------------------------------------
(* The internal client and its handler on_client *)

\* exec fails, the process cannot connect, crashes, or dies with its ssh session.
ClientDies(t) == /\ client[t] \in {"launched", "serving"}
                 /\ client' = [client EXCEPT ![t] = "gone"]
                 /\ UNCHANGED <<pc, token, locks, suspended, peers, delivered, callback>>

\* on_client finds the note of its token and removes it ...
TakeNote(t) == /\ client[t] = "launched"
               /\ clientsLock = None
               /\ suspended[t] # None
               /\ callback' = [callback EXCEPT ![t] = suspended[t]]
               /\ suspended' = [suspended EXCEPT ![t] = None]
               /\ client' = [client EXCEPT ![t] = "taken"]
               /\ UNCHANGED <<pc, token, locks, peers, delivered>>

\* ... or comes after the timeout and is refused.
RefuseClient(t) == /\ client[t] = "launched"
                   /\ clientsLock = None
                   /\ suspended[t] = None
                   /\ client' = [client EXCEPT ![t] = "gone"]
                   /\ UNCHANGED <<pc, token, locks, suspended, peers, delivered, callback>>

\* The receiving half of the oneshot t's note came from still exists.
Receiving(t) == /\ token[callback[t]] = t
                /\ pc[callback[t]] \in {"waiting", "expiring"}

\* callback.send hands the websocket over ...
HandOver(t) == /\ client[t] = "taken"
               /\ Receiving(t)
               /\ delivered' = [delivered EXCEPT ![callback[t]] = TRUE]
               /\ client' = [client EXCEPT ![t] = "serving"]
               /\ UNCHANGED <<pc, token, locks, suspended, peers, callback>>

\* ... or fails, and the handler returns.
HandOverFails(t) == /\ client[t] = "taken"
                    /\ ~Receiving(t)
                    /\ client' = [client EXCEPT ![t] = "gone"]
                    /\ UNCHANGED <<pc, token, locks, suspended, peers, delivered, callback>>

-----------------------------------------------------------------------------
\* What a handler does by itself; a browser's actions are not among these.
HandlerStep(c) == \/ JoinPeers(c)
                  \/ JoinClients(c)
                  \/ Collide(c)
                  \/ Suspend(c)
                  \/ Grant(c)
                  \/ Expire(c)
                  \/ DropOneshot(c)
                  \/ Clean(c)
                  \/ ReplyError(c)
                  \/ SendToken(c)
                  \/ SendTokenFails(c)
                  \/ RemovePeer(c)
                  \/ Disconnect(c)

BrowserStep(c) == \/ RefuseEarly(c)
                  \/ \E t \in Tokens : DrawToken(c, t)
                  \/ Hangup(c)
                  \/ EndSession(c)

HandOverStep(t) == HandOver(t) \/ HandOverFails(t)

ClientStep(t) == ClientDies(t) \/ TakeNote(t) \/ RefuseClient(t) \/ HandOverStep(t)

Next == \/ \E c \in Connections : HandlerStep(c) \/ BrowserStep(c)
        \/ \E t \in Tokens : ClientStep(t)

Spec == Init /\ [][Next]_vars

\* The tasks of the master run when they can and its timers fire; the launched
\* process owes nothing, nor does a browser.  Unlocking a futures Mutex wakes a
\* waiter but reserves nothing for it: that no waiter is overtaken for ever is
\* assumed.
Fairness == /\ \A c \in Connections : /\ WF_vars(HandlerStep(c))
                                      /\ SF_vars(JoinPeers(c))
                                      /\ SF_vars(JoinClients(c))
                                      /\ SF_vars(Clean(c))
                                      /\ SF_vars(RemovePeer(c))
            /\ \A t \in Tokens : WF_vars(HandOverStep(t))

FairSpec == Spec /\ Fairness

-----------------------------------------------------------------------------
(* Properties *)

\* The handler of c owns a session: from the insertion of its peer to the removal.
InSession(c) == pc[c] \in {"granting", "session", "teardown"}

\* websocket_peers lists exactly the sessions: no peer outlives the session it
\* was made for, whatever ends it, and no session is unknown to the HTTP side.
PeersAreSessions ==
    \A t \in Tokens, c \in Connections : peers[t] = c <=> InSession(c) /\ token[c] = t

\* A token opens one session, even if the generator repeats itself while the
\* first attempt is still waiting for its client (lines 131-134).
TokenHasOneSession ==
    \A c, d \in Connections : c # d /\ InSession(c) /\ InSession(d) => token[c] # token[d]

\* The peer map and the sessions correspond one to one (lines 120-134, 192-200).
SessionTable == PeersAreSessions /\ TokenHasOneSession

\* A note in suspended_clients has an attempt that still waits for it: a late
\* client finds nothing (lines 152-161).
NotesAreAwaited ==
    \A t \in Tokens : suspended[t] # None =>
        /\ token[suspended[t]] = t
        /\ pc[suspended[t]] \in {"waiting", "expiring", "cleaning"}

\* A client is handed only to the attempt that launched it and still waits;
\* a session runs on the client launched for its token.
ClientsReachTheirAttempt ==
    \A c \in Connections :
        /\ delivered[c] => /\ pc[c] \in {"waiting", "expiring"}
                           /\ callback[token[c]] = c
        /\ InSession(c) => /\ callback[token[c]] = c
                           /\ client[token[c]] \in {"serving", "gone"}

\* Between an attempt that may time out at any moment and a client that may
\* come at any moment, neither a note nor a client goes to the wrong one.
HandOverIsExact == NotesAreAwaited /\ ClientsReachTheirAttempt

\* Each of two handlers has the lock the other waits for: both are inside
\* join!, one per lock, or a's wait timed out and b is inside join!.
Circle == \E a, b \in Connections : /\ peerLock = a /\ pc[a] \in {"joining", "cleaning"}
                                    /\ clientsLock = b /\ pc[b] = "joining"
                                    /\ a # b

\* The handler of c has no step until a lock is given up.
HeldUp(c) == \/ pc[c] = "joining" /\ None \notin {peerLock, clientsLock} /\ ~Joined(c)
             \/ pc[c] = "cleaning" /\ clientsLock # None
             \/ pc[c] = "teardown" /\ peerLock # None

\* Whoever is held up waits for a handler that is not, or the circle is closed.
OnlyTheCircleHoldsUp ==
    \A c \in Connections : HeldUp(c) =>
        Circle \/ \E d \in Connections \cap {peerLock, clientsLock} : ~HeldUp(d)

\* The circle is how the two locks can stop the server, and the only way: short
\* of it every wait, of an attempt or of a teardown (lines 130-205), is for a
\* handler that goes on.  Once closed it stays: no client, timer, hangup or
\* other connection opens it again.
CircleIsTheDeadlock == []OnlyTheCircleHoldsUp /\ [][Circle => Circle']_vars

Answered(c) == pc[c] \notin {"joining", "waiting", "expiring", "cleaning"}

\* Unless the circle closes, an attempt with an accepted password is answered,
\* with a token or with an error, by the end of its five seconds, and a session
\* that ended is taken off the map.
EndsUnlessCircle ==
    \A c \in Connections : /\ pc[c] = "joining" ~> Answered(c) \/ Circle
                           /\ pc[c] = "teardown" ~> pc[c] = "closed" \/ Circle

\* What the timeout is for: "error cause by timeout" is followed by the error
\* "Failed to connect to client" (lines 155-160).
TimedOutIsAnswered == \A c \in Connections : pc[c] = "expiring" ~> pc[c] = "failed"

-----------------------------------------------------------------------------
(* The inductive invariant behind the safety properties *)

TypeOK == /\ pc \in [Connections -> ConnectionStates]
          /\ token \in [Connections -> Tokens \cup {None}]
          /\ peerLock \in Connections \cup {None}
          /\ clientsLock \in Connections \cup {None}
          /\ suspended \in [Tokens -> Connections \cup {None}]
          /\ peers \in [Tokens -> Connections \cup {None}]
          /\ delivered \in [Connections -> BOOLEAN]
          /\ client \in [Tokens -> ClientStates]
          /\ callback \in [Tokens -> Connections \cup {None}]

\* The peer map is locked through the whole wait and the whole disconnect,
\* suspended_clients only inside join!.
LocksOK(c) == /\ pc[c] \in {"waiting", "expiring", "cleaning", "disconnecting"} => peerLock = c
              /\ peerLock = c => pc[c] \in {"joining", "waiting", "expiring", "cleaning",
                                            "disconnecting"}
              /\ clientsLock = c => pc[c] = "joining"

\* From its draw to its end an attempt has a token, which has no peer before
\* the attempt is granted; what was delivered is the client of that token.
AttemptOK(c) ==
    /\ pc[c] \notin {"idle", "failed", "closed"} => token[c] \in Tokens
    /\ pc[c] \in {"waiting", "expiring", "cleaning"} => peers[token[c]] = None
    /\ delivered[c] => pc[c] \in {"waiting", "expiring"} /\ suspended[token[c]] = None
    /\ InSession(c) => peers[token[c]] = c
    /\ delivered[c] \/ InSession(c) => /\ callback[token[c]] = c
                                       /\ client[token[c]] \in {"serving", "gone"}

\* A note has its waiting attempt and an untouched client, a peer its session,
\* and a taken client somebody to be handed to.
TokenOK(t) ==
    /\ suspended[t] # None => /\ token[suspended[t]] = t
                              /\ pc[suspended[t]] \in {"waiting", "expiring", "cleaning"}
                              /\ client[t] \in {"launched", "gone"}
    /\ peers[t] # None => InSession(peers[t]) /\ token[peers[t]] = t
    /\ client[t] = "taken" => callback[t] # None

IndInv == /\ TypeOK
          /\ \A c \in Connections : LocksOK(c) /\ AttemptOK(c)
          /\ \A t \in Tokens : TokenOK(t)
=============================================================================
