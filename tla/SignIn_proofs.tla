----------------------------- MODULE SignIn_proofs -----------------------------
(***************************************************************************)
(* For any connections and tokens: the two maps list exactly the attempts  *)
(* that wait and the sessions that run, and the circle of the two locks is *)
(* the only deadlock and, once closed, stays closed.                       *)
(*                                                                         *)
(* IndInv says who holds which lock in which state (LocksOK).  As the peer *)
(* map stays locked from the collision test to the insertion, the test     *)
(* still holds at the insertion; that is the reason for TokenHasOneSession *)
(* and, together with LocksOK, for what is said of the circle.             *)
(***************************************************************************)
EXTENDS SignIn, TLAPS

LEMMA InitInv == Init => IndInv
BY NoneAssumption
   DEF Init, IndInv, TypeOK, ConnectionStates, ClientStates, LocksOK, AttemptOK, TokenOK, InSession

\* The steps of a connection's handler and of its browser.
LEMMA ConnectionInv ==
    ASSUME IndInv, NEW c \in Connections, HandlerStep(c) \/ BrowserStep(c)
    PROVE  IndInv'
<1> USE NoneAssumption
    DEF IndInv, TypeOK, ConnectionStates, ClientStates, LocksOK, AttemptOK, TokenOK, InSession, locks
<1>1. CASE JoinPeers(c)
  BY <1>1 DEF JoinPeers
<1>2. CASE JoinClients(c)
  BY <1>2 DEF JoinClients
<1>3. CASE Collide(c)
  BY <1>3 DEF Collide, Joined, InUse
<1>4. CASE Suspend(c)
  BY <1>4 DEF Suspend, Joined, InUse
<1>5. CASE Grant(c)
  BY <1>5 DEF Grant
<1>6. CASE Expire(c)
  BY <1>6 DEF Expire
<1>7. CASE DropOneshot(c)
  BY <1>7 DEF DropOneshot
<1>8. CASE Clean(c)
  BY <1>8 DEF Clean
<1>9. CASE ReplyError(c)
  BY <1>9 DEF ReplyError
<1>10. CASE SendToken(c)
  BY <1>10 DEF SendToken
<1>11. CASE SendTokenFails(c)
  BY <1>11 DEF SendTokenFails
<1>12. CASE RemovePeer(c)
  BY <1>12 DEF RemovePeer
<1>13. CASE Disconnect(c)
  BY <1>13 DEF Disconnect
<1>14. CASE RefuseEarly(c)
  BY <1>14 DEF RefuseEarly
<1>15. CASE Hangup(c)
  BY <1>15 DEF Hangup
<1>16. CASE EndSession(c)
  BY <1>16 DEF EndSession
<1>17. CASE \E t \in Tokens : DrawToken(c, t)
  BY <1>17 DEF DrawToken
<1> QED BY <1>1, <1>2, <1>3, <1>4, <1>5, <1>6, <1>7, <1>8, <1>9, <1>10, <1>11, <1>12, <1>13, <1>14, <1>15, <1>16, <1>17 DEF HandlerStep, BrowserStep

\* The steps of an internal client and of on_client.
LEMMA ClientInv ==
    ASSUME IndInv, NEW t \in Tokens, ClientStep(t)
    PROVE  IndInv'
<1> USE NoneAssumption
    DEF IndInv, TypeOK, ConnectionStates, ClientStates, LocksOK, AttemptOK, TokenOK, InSession, locks
<1>1. CASE ClientDies(t)
  BY <1>1 DEF ClientDies
<1>2. CASE TakeNote(t)
  BY <1>2 DEF TakeNote
<1>3. CASE RefuseClient(t)
  BY <1>3 DEF RefuseClient
<1>4. CASE HandOver(t)
  BY <1>4 DEF HandOver, Receiving
<1>5. CASE HandOverFails(t)
  BY <1>5 DEF HandOverFails
<1> QED BY <1>1, <1>2, <1>3, <1>4, <1>5 DEF ClientStep, HandOverStep

LEMMA StepInv == IndInv /\ [Next]_vars => IndInv'
<1> SUFFICES ASSUME IndInv, [Next]_vars PROVE IndInv'
  OBVIOUS
<1>1. CASE UNCHANGED vars
  BY <1>1 DEF vars, IndInv, TypeOK, LocksOK, AttemptOK, TokenOK, InSession
<1> QED BY <1>1, ConnectionInv, ClientInv DEF Next

\* The inductive invariant holds in every reachable state.
THEOREM Invariance == Spec => []IndInv
BY InitInv, StepInv, PTL DEF Spec

\* Every variable of the sign-in keeps its type.
THEOREM TypeCorrect == Spec => []TypeOK
<1>1. IndInv => TypeOK
  BY DEF IndInv
<1> QED BY <1>1, Invariance, PTL

\* websocket_peers is the set of sessions, and no two sessions have one token.
THEOREM PeerMap == Spec => []SessionTable
<1>1. IndInv => PeersAreSessions
  BY NoneAssumption DEF IndInv, TypeOK, AttemptOK, TokenOK, PeersAreSessions
<1>2. PeersAreSessions /\ IndInv => TokenHasOneSession
  BY NoneAssumption DEF PeersAreSessions, TokenHasOneSession, IndInv, AttemptOK
<1> QED BY <1>1, <1>2, Invariance, PTL DEF SessionTable

\* suspended_clients leaks no note, and a client reaches only the attempt that
\* launched it.
THEOREM HandOvers == Spec => []HandOverIsExact
<1>1. IndInv => HandOverIsExact
  BY DEF IndInv, AttemptOK, TokenOK, HandOverIsExact, NotesAreAwaited, ClientsReachTheirAttempt
<1> QED BY <1>1, Invariance, PTL

\* A circular wait for the two maps is for ever, no event resolves it, and it is
\* the only wait that is not for a handler with a step of its own: whoever holds
\* a lock is past join!, or inside it with the other lock free or its own.
THEOREM Permanence == Spec => CircleIsTheDeadlock
<1>1. IndInv => OnlyTheCircleHoldsUp
  <2> SUFFICES ASSUME IndInv, ~Circle, NEW c \in Connections, HeldUp(c)
               PROVE  \E d \in Connections \cap {peerLock, clientsLock} : ~HeldUp(d)
    BY DEF OnlyTheCircleHoldsUp
  <2> USE NoneAssumption DEF IndInv, TypeOK, LocksOK, HeldUp, Joined
  <2>1. CASE peerLock \in Connections
    <3>1. CASE pc[peerLock] = "joining" /\ clientsLock # None
      BY <2>1, <3>1 DEF Circle
    <3>2. CASE pc[peerLock] = "cleaning" /\ clientsLock # None
      BY <2>1, <3>2 DEF Circle
    <3>3. CASE clientsLock = None \/ pc[peerLock] \notin {"joining", "cleaning"}
      BY <2>1, <3>3
    <3> QED BY <3>1, <3>2, <3>3
  <2>2. CASE peerLock = None
    BY <2>2
  <2> QED BY <2>1, <2>2
<1>2. IndInv /\ [Next]_vars => [Circle => Circle']_vars
  <2> SUFFICES ASSUME IndInv, Next, Circle PROVE Circle'
    OBVIOUS
  <2>1. PICK a \in Connections, b \in Connections :
            /\ peerLock = a /\ pc[a] \in {"joining", "cleaning"}
            /\ clientsLock = b /\ pc[b] = "joining"
            /\ a # b
    BY DEF Circle
  <2>2. peerLock' = a /\ pc'[a] = pc[a] /\ clientsLock' = b /\ pc'[b] = pc[b]
    <3> USE <2>1, NoneAssumption DEF IndInv, TypeOK, LocksOK, locks
    <3>1. CASE \E c \in Connections : HandlerStep(c)
      BY <3>1 DEF HandlerStep, Joined, JoinPeers, JoinClients, Collide, Suspend, Grant, Expire, DropOneshot, Clean, ReplyError, SendToken, SendTokenFails, RemovePeer, Disconnect
    <3>2. CASE \E c \in Connections : BrowserStep(c)
      BY <3>2 DEF BrowserStep, RefuseEarly, DrawToken, Hangup, EndSession
    <3>3. CASE \E t \in Tokens : ClientStep(t)
      BY <3>3 DEF ClientStep, HandOverStep, ClientDies, TakeNote, RefuseClient, HandOver, HandOverFails
    <3> QED BY <3>1, <3>2, <3>3 DEF Next
  <2> QED BY <2>1, <2>2 DEF Circle
<1> QED BY <1>1, <1>2, Invariance, PTL DEF Spec, CircleIsTheDeadlock
================================================================================
