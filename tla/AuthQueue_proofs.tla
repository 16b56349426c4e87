--------------------------- MODULE AuthQueue_proofs ---------------------------
(***************************************************************************)
(* For any sets of attempts and users: the authentication queue never lets *)
(* two password checks of a user overlap, leaks no entry of the map, and   *)
(* implements UserLock.                                                    *)
(*                                                                         *)
(* The argument rests on IndInv.  Exclusion follows from two of its parts: *)
(* a held queue is the one the map lists for the holder's user (AttemptOK),*)
(* so two attempts of one user hold the same queue, and an attempt that    *)
(* authenticates is the one this queue's task awaits (TurnOK).  Nobody     *)
(* waits for nobody, as what a task awaits is on its way to a release      *)
(* (QueueOK).                                                              *)
(***************************************************************************)
EXTENDS AuthQueue, TLAPS

LEMMA InitInv == Init => IndInv
BY NoneAssumption
   DEF Init, IndInv, TypeOK, AttemptStates, TaskStates, AttemptOK, TurnOK, QueueOK, EntryOK,
       Authenticating

\* The steps of a browser, an attempt and a queue's task.
LEMMA AttemptInv ==
    ASSUME IndInv, NEW a \in Attempts, NEW u \in Users,
           Begin(a, u) \/ ConnectFails(a, u) \/ AttemptStep(a)
    PROVE  IndInv'
<1> USE NoneAssumption
    DEF IndInv, TypeOK, AttemptStates, TaskStates, AttemptOK, TurnOK, QueueOK, EntryOK,
        Authenticating, attemptVars, queueVars
<1>1. CASE Begin(a, u)
  BY <1>1 DEF Begin
<1>2. CASE ConnectFails(a, u)
  BY <1>2 DEF ConnectFails
<1>3. CASE JoinQueue(a)
  BY <1>3 DEF JoinQueue, Live
<1>4. CASE CreateQueue(a)
  BY <1>4 DEF CreateQueue, Live
<1>5. CASE Enqueue(a)
  BY <1>5 DEF Enqueue
<1>6. CASE SendDone(a)
  BY <1>6 DEF SendDone
<1>7. CASE Accepted(a)
  BY <1>7 DEF Accepted
<1>8. CASE Rejected(a)
  BY <1>8 DEF Rejected
<1>9. CASE PenaltyOver(a)
  BY <1>9 DEF PenaltyOver
<1>10. CASE Broken(a)
  BY <1>10 DEF Broken
<1>11. CASE DropQueue(a)
  BY <1>11 DEF DropQueue
<1>12. CASE DropSignal(a)
  BY <1>12 DEF DropSignal
<1>13. CASE Leave(a)
  BY <1>13 DEF Leave
<1> QED BY <1>1, <1>2, <1>3, <1>4, <1>5, <1>6, <1>7, <1>8, <1>9, <1>10, <1>11, <1>12, <1>13 DEF AttemptStep

LEMMA TaskInv ==
    ASSUME IndInv, NEW q \in Attempts, TaskStep(q)
    PROVE  IndInv'
<1> USE NoneAssumption
    DEF IndInv, TypeOK, AttemptStates, TaskStates, AttemptOK, TurnOK, QueueOK, EntryOK,
        Authenticating, attemptVars, queueVars
<1>1. CASE TaskPop(q)
  BY <1>1 DEF TaskPop
<1>2. CASE TaskResolved(q)
  BY <1>2 DEF TaskResolved
<1>3. CASE TaskClosed(q)
  BY <1>3 DEF TaskClosed, Live
<1>4. CASE TaskCleanup(q)
  BY <1>4 DEF TaskCleanup, Live
<1> QED BY <1>1, <1>2, <1>3, <1>4 DEF TaskStep

LEMMA StepInv == IndInv /\ [Next]_vars => IndInv'
<1> SUFFICES ASSUME IndInv, [Next]_vars PROVE IndInv'
  OBVIOUS
<1>1. CASE \E a \in Attempts, u \in Users : Begin(a, u) \/ ConnectFails(a, u)
  BY <1>1, AttemptInv
<1>2. CASE \E a \in Attempts : TaskStep(a)
  BY <1>2, TaskInv
<1>3. CASE \E a \in Attempts : AttemptStep(a)
  <2>1. PICK a \in Attempts : AttemptStep(a)
    BY <1>3
  <2>2. pc[a] # "idle"
    BY <2>1 DEF AttemptStep, JoinQueue, CreateQueue, Enqueue, SendDone, Accepted, Rejected,
                PenaltyOver, Broken, DropQueue, DropSignal, Leave
  <2>3. user[a] \in Users
    BY <2>2 DEF IndInv, AttemptOK
  <2> QED BY <2>1, <2>3, AttemptInv
<1>4. CASE UNCHANGED vars
  BY <1>4 DEF vars, IndInv, TypeOK, AttemptOK, TurnOK, QueueOK, EntryOK, Authenticating
<1> QED BY <1>1, <1>2, <1>3, <1>4 DEF Next

\* The inductive invariant holds in every reachable state.
THEOREM Invariance == Spec => []IndInv
BY InitInv, StepInv, PTL DEF Spec

\* Every variable of the queue keeps its type.
THEOREM TypeCorrect == Spec => []TypeOK
<1>1. IndInv => TypeOK
  BY DEF IndInv
<1> QED BY <1>1, Invariance, PTL

\* "Limit one user authentication at the same time": whatever the number of
\* attempts, and whatever queues die and are replaced between them.
THEOREM Exclusion == Spec => []OneAuthenticationPerUser
<1>1. IndInv => OneAuthenticationPerUser
  <2> SUFFICES ASSUME IndInv, NEW a \in Attempts, NEW b \in Attempts,
                      user[a] = user[b], Authenticating(a), Authenticating(b)
               PROVE  a = b
    BY DEF OneAuthenticationPerUser
  <2>1. arc[a] # None /\ arc[b] # None
    BY DEF IndInv, AttemptOK, Authenticating
  <2>2. arc[a] = arc[b]
    BY <2>1 DEF IndInv, AttemptOK
  <2>3. serving[arc[a]] = a /\ serving[arc[b]] = b
    BY DEF IndInv, TurnOK
  <2> QED BY <2>2, <2>3
<1> QED BY <1>1, Invariance, PTL

\* The map lists every queue in use and no dead one for ever, a queue in use has
\* its receiving task, and that task awaits an attempt that can go on.
THEOREM MapIsAccurate == Spec => []MapAgrees
<1>1. IndInv => HeldQueueIsListed /\ NoLeakedEntry /\ HeldQueueIsServed
  BY DEF IndInv, AttemptOK, EntryOK, HeldQueueIsListed, NoLeakedEntry, HeldQueueIsServed
<1>2. IndInv => AwaitedGoesOn
  <2> SUFFICES ASSUME IndInv, NEW q \in Attempts, task[q] = "await"
               PROVE  LET a == serving[q]
                      IN  released[a] \/ Authenticating(a) \/ pc[a] = "unsignalled"
                          \/ (pc[a] = "sending" /\ chan[arc[a]] # a)
    BY DEF AwaitedGoesOn
  <2> DEFINE a == serving[q]
  <2>1. /\ a \in Attempts /\ a # chan[q] /\ arc[a] \in {q, None}
        /\ pc[a] \notin {"idle", "lookup", "queued"} /\ (pc[a] = "done" => released[a])
    BY DEF IndInv, TypeOK, QueueOK
  <2>2. pc[a] \in AttemptStates /\ (pc[a] = "authed" => released[a]) /\ (pc[a] = "sending" => arc[a] = q)
    BY <2>1, NoneAssumption DEF IndInv, TypeOK, AttemptOK
  <2> QED BY <2>1, <2>2 DEF Authenticating, AttemptStates
<1> QED BY <1>1, <1>2, Invariance, PTL DEF MapAgrees

LEMMA InitRefines == Init => Lock!Init
BY DEF Init, Lock!Init, Stage, Authenticating

\* An attempt enters its password check only when its user has none going on:
\* the check of another attempt would be what their common queue awaits.
LEMMA TurnRefines ==
    ASSUME IndInv, NEW a \in Attempts, SendDone(a)
    PROVE  Lock!Check(a)
<1>1. ASSUME NEW b \in Attempts, user[b] = user[a], Authenticating(b) PROVE FALSE
  <2>1. arc[a] # None /\ arc[b] # None
    BY <1>1 DEF IndInv, AttemptOK, Authenticating, SendDone
  <2>2. arc[a] = arc[b]
    BY <2>1, <1>1 DEF IndInv, AttemptOK
  <2>3. serving[arc[a]] = a /\ serving[arc[b]] = b
    BY <1>1 DEF IndInv, TurnOK, SendDone
  <2> QED BY <2>2, <2>3, <1>1 DEF SendDone, Authenticating
<1>2. ASSUME NEW b \in Attempts, Stage(b) = "checking" PROVE Authenticating(b)
  BY <1>2 DEF Stage
<1>3. Stage(a) = "waiting" /\ Stage(a)' = "checking"
  BY DEF SendDone, Stage, Authenticating, IndInv, TypeOK
<1>4. \A b \in Attempts : b # a => Stage(b)' = Stage(b)
  BY DEF SendDone, Stage, Authenticating, IndInv, TypeOK
<1> DEFINE stages == [b \in Attempts |-> Stage(b)]
<1>5. stages' = [stages EXCEPT ![a] = "checking"]
  BY <1>3, <1>4
<1>6. \A b \in Attempts : user[b] = user[a] => stages[b] # "checking"
  BY <1>1, <1>2
<1>7. stages[a] = "waiting" /\ UNCHANGED user
  BY <1>3 DEF SendDone
<1> QED BY <1>5, <1>6, <1>7 DEF Lock!Check

LEMMA StepRefines == IndInv /\ [Next]_vars => [Lock!Next]_(Lock!vars)
<1> SUFFICES ASSUME IndInv, [Next]_vars PROVE [Lock!Next]_(Lock!vars)
  OBVIOUS
<1>1. ASSUME NEW a \in Attempts, NEW u \in Users, Begin(a, u) PROVE Lock!Request(a, u)
  BY <1>1 DEF Begin, Lock!Request, IndInv, TypeOK, Stage, Authenticating
<1>2. ASSUME NEW a \in Attempts, NEW u \in Users, ConnectFails(a, u) PROVE Lock!Refuse(a, u)
  BY <1>2 DEF ConnectFails, Lock!Refuse, IndInv, TypeOK, Stage, Authenticating
<1>3. ASSUME NEW a \in Attempts, SendDone(a) PROVE Lock!Check(a)
  BY <1>3, TurnRefines
<1>4. ASSUME NEW a \in Attempts, Accepted(a) \/ DropQueue(a) PROVE Lock!Finish(a)
  <2>1. Stage(a) = "checking" /\ Stage(a)' = "finished"
    BY <1>4 DEF Accepted, DropQueue, IndInv, TypeOK, Stage, Authenticating
  <2>2. \A b \in Attempts : b # a => Stage(b)' = Stage(b)
    BY <1>4 DEF Accepted, DropQueue, IndInv, TypeOK, Stage, Authenticating
  <2>3. UNCHANGED user
    BY <1>4 DEF Accepted, DropQueue
  <2> QED BY <2>1, <2>2, <2>3 DEF Lock!Finish
<1>5. ASSUME NEW a \in Attempts,
             JoinQueue(a) \/ CreateQueue(a) \/ Enqueue(a) \/ Rejected(a) \/ PenaltyOver(a)
               \/ Broken(a) \/ DropSignal(a) \/ Leave(a)
      PROVE  UNCHANGED Lock!vars
  BY <1>5 DEF JoinQueue, CreateQueue, Enqueue, Rejected, PenaltyOver, Broken, DropSignal, Leave,
              Lock!vars, IndInv, TypeOK, Stage, Authenticating
<1>6. ASSUME NEW q \in Attempts, TaskStep(q) PROVE UNCHANGED Lock!vars
  BY <1>6 DEF TaskStep, TaskPop, TaskResolved, TaskClosed, TaskCleanup, attemptVars, Lock!vars,
                  Stage, Authenticating
<1>7. CASE UNCHANGED vars
  BY <1>7 DEF vars, Lock!vars, Stage, Authenticating
<1> QED BY <1>1, <1>2, <1>3, <1>4, <1>5, <1>6, <1>7 DEF Next, AttemptStep, Lock!Next

\* The queues, the map of weak pointers and the cleaning tasks are together
\* one lock per user.
THEOREM Refinement == Spec => ImplementsLock
BY InitRefines, StepRefines, Invariance, PTL DEF Spec, ImplementsLock, Lock!Spec
===============================================================================
