------------------------------ MODULE AuthQueue ------------------------------
(***************************************************************************)
(* The per-user authentication queue of the master server                  *)
(* (websocket_server/on_request_authenticate.rs, lines 72-118, and         *)
(* common/authenticate_queue.rs).                                          *)
(*                                                                         *)
(* authenticate_queues maps a user name to a Weak pointer to the sending   *)
(* half of an mpsc::channel(0).  An attempt upgrades the pointer, or       *)
(* creates the channel and the task that reads it; it then sends the       *)
(* receiving half of a oneshot and goes on when the task has popped it.    *)
(* The task pops the next one only when the oneshot resolved, which is the *)
(* attempt sending on it or dropping it.                                   *)
(*                                                                         *)
(* An attempt is one turn of the message loop of one connection.  A queue  *)
(* is named by the attempt that created it.  The weak pointer can be       *)
(* upgraded as long as some attempt still holds the queue.                 *)
(***************************************************************************)
EXTENDS FiniteSets

CONSTANTS Attempts, Users, None

ASSUME NoneAssumption == None \notin Attempts \cup Users

VARIABLES pc,        \* where each attempt is
          user,      \* the user name of each attempt
          arc,       \* the queue an attempt holds (its Arc<Mutex<Sender>>)
          entry,     \* authenticate_queues: the queue the Weak of a user points to
          qlock,     \* the attempt that holds the Mutex around a queue's Sender
          chan,      \* the attempt whose oneshot lies in a queue's channel
          serving,   \* the attempt whose oneshot a queue's task awaits
          task,      \* where the task of each queue is
          released   \* the oneshot of an attempt has been sent on or dropped

attemptVars == <<pc, user, arc>>
queueVars == <<entry, qlock, chan, serving, task>>
vars == <<pc, user, arc, entry, qlock, chan, serving, task, released>>

AttemptStates == {"idle", "lookup", "queued", "sending", "authenticating",
                  "penalty", "failing", "unsignalled", "authed", "done"}

TaskStates == {"none", "next", "await", "cleanup", "done"}

\* Weak::upgrade of a pointer to q succeeds.
Live(q) == \E a \in Attempts : arc[a] = q

Init == /\ pc = [a \in Attempts |-> "idle"]
        /\ user = [a \in Attempts |-> None]
        /\ arc = [a \in Attempts |-> None]
        /\ entry = [u \in Users |-> None]
        /\ qlock = [q \in Attempts |-> None]
        /\ chan = [q \in Attempts |-> None]
        /\ serving = [q \in Attempts |-> None]
        /\ task = [q \in Attempts |-> "none"]
        /\ released = [a \in Attempts |-> FALSE]

-----------------------------------------------------------------------------
(* The attempt *)

\* Name and password are parsed and the ssh server answers.
Begin(a, u) == /\ pc[a] = "idle"
               /\ pc' = [pc EXCEPT ![a] = "lookup"]
               /\ user' = [user EXCEPT ![a] = u]
               /\ UNCHANGED <<arc, queueVars, released>>

\* russh::client::connect fails: the attempt never reaches a queue.
ConnectFails(a, u) == /\ pc[a] = "idle"
                      /\ pc' = [pc EXCEPT ![a] = "done"]
                      /\ user' = [user EXCEPT ![a] = u]
                      /\ UNCHANGED <<arc, queueVars, released>>

\* Under the authenticate_queues lock: the user's queue is still held by someone.
JoinQueue(a) == /\ pc[a] = "lookup"
                /\ entry[user[a]] # None
                /\ Live(entry[user[a]])
                /\ arc' = [arc EXCEPT ![a] = entry[user[a]]]
                /\ pc' = [pc EXCEPT ![a] = "queued"]
                /\ UNCHANGED <<user, queueVars, released>>

\* Under the same lock: no queue, or a dead one, which is replaced; the task is spawned.
CreateQueue(a) == /\ pc[a] = "lookup"
                  /\ entry[user[a]] = None \/ ~Live(entry[user[a]])
                  /\ arc' = [arc EXCEPT ![a] = a]
                  /\ entry' = [entry EXCEPT ![user[a]] = a]
                  /\ task' = [task EXCEPT ![a] = "next"]
                  /\ pc' = [pc EXCEPT ![a] = "queued"]
                  /\ UNCHANGED <<user, qlock, chan, serving, released>>

\* authenticate_queue.lock().await, and the oneshot enters the channel; with
\* capacity 0 the send stays pending, and the Mutex taken, until it is popped.
Enqueue(a) == /\ pc[a] = "queued"
              /\ qlock[arc[a]] = None
              /\ qlock' = [qlock EXCEPT ![arc[a]] = a]
              /\ chan' = [chan EXCEPT ![arc[a]] = a]
              /\ pc' = [pc EXCEPT ![a] = "sending"]
              /\ UNCHANGED <<user, arc, entry, serving, task, released>>

\* Mutant of SendDone: a channel with a free slot, whose send does not wait.
SendBuffered(a) == /\ pc[a] = "sending"
                   /\ qlock' = [qlock EXCEPT ![arc[a]] = None]
                   /\ pc' = [pc EXCEPT ![a] = "authenticating"]
                   /\ UNCHANGED <<user, arc, entry, chan, serving, task, released>>

\* The pending send sees its message popped; the Mutex guard is dropped.
SendDone(a) == /\ pc[a] = "sending"
               /\ chan[arc[a]] # a
               /\ qlock' = [qlock EXCEPT ![arc[a]] = None]
               /\ pc' = [pc EXCEPT ![a] = "authenticating"]
               /\ UNCHANGED <<user, arc, entry, chan, serving, task, released>>

\* authenticate_password answers true: complete_authenticate.send(()).
Accepted(a) == /\ pc[a] = "authenticating"
               /\ released' = [released EXCEPT ![a] = TRUE]
               /\ pc' = [pc EXCEPT ![a] = "authed"]
               /\ UNCHANGED <<user, arc, queueVars>>

\* It answers false: five seconds of sleep while the oneshot stays unresolved.
Rejected(a) == /\ pc[a] = "authenticating"
               /\ pc' = [pc EXCEPT ![a] = "penalty"]
               /\ UNCHANGED <<user, arc, queueVars, released>>

PenaltyOver(a) == /\ pc[a] = "penalty"
                  /\ pc' = [pc EXCEPT ![a] = "failing"]
                  /\ UNCHANGED <<user, arc, queueVars, released>>

\* It fails: return Err without a penalty.
Broken(a) == /\ pc[a] = "authenticating"
             /\ pc' = [pc EXCEPT ![a] = "failing"]
             /\ UNCHANGED <<user, arc, queueVars, released>>

\* return Err drops the locals in the reverse order of their declaration:
\* the queue first ...
DropQueue(a) == /\ pc[a] = "failing"
                /\ arc' = [arc EXCEPT ![a] = None]
                /\ pc' = [pc EXCEPT ![a] = "unsignalled"]
                /\ UNCHANGED <<user, queueVars, released>>

\* Mutant of DropSignal: the oneshot of a failed attempt is kept.
KeepSignal(a) == /\ pc[a] = "unsignalled"
                 /\ pc' = [pc EXCEPT ![a] = "done"]
                 /\ UNCHANGED <<user, arc, queueVars, released>>

\* ... then the oneshot.
DropSignal(a) == /\ pc[a] = "unsignalled"
                 /\ released' = [released EXCEPT ![a] = TRUE]
                 /\ pc' = [pc EXCEPT ![a] = "done"]
                 /\ UNCHANGED <<user, arc, queueVars>>

\* The rest of an accepted attempt (channel, token, internal client) ends,
\* either way; only now is the queue dropped.
Leave(a) == /\ pc[a] = "authed"
            /\ arc' = [arc EXCEPT ![a] = None]
            /\ pc' = [pc EXCEPT ![a] = "done"]
            /\ UNCHANGED <<user, queueVars, released>>

-----------------------------------------------------------------------------
(* The task of a queue *)

\* r.next() yields a oneshot.
TaskPop(q) == /\ task[q] = "next"
              /\ chan[q] # None
              /\ serving' = [serving EXCEPT ![q] = chan[q]]
              /\ chan' = [chan EXCEPT ![q] = None]
              /\ task' = [task EXCEPT ![q] = "await"]
              /\ UNCHANGED <<attemptVars, entry, qlock, released>>

\* let _ = rx.await: sent or dropped makes no difference.
TaskResolved(q) == /\ task[q] = "await"
                   /\ released[serving[q]]
                   /\ serving' = [serving EXCEPT ![q] = None]
                   /\ task' = [task EXCEPT ![q] = "next"]
                   /\ UNCHANGED <<attemptVars, entry, qlock, chan, released>>

\* r.next() yields None: the channel is empty and its last sender is gone.
TaskClosed(q) == /\ task[q] = "next"
                 /\ chan[q] = None
                 /\ ~Live(q)
                 /\ task' = [task EXCEPT ![q] = "cleanup"]
                 /\ UNCHANGED <<attemptVars, entry, qlock, chan, serving, released>>

\* Mutant of TaskCleanup: the entry is removed without the upgrade test.
CleanupAnyway(q) == /\ task[q] = "cleanup"
                    /\ task' = [task EXCEPT ![q] = "done"]
                    /\ entry' = [entry EXCEPT ![user[q]] = None]
                    /\ UNCHANGED <<attemptVars, qlock, chan, serving, released>>

\* Mutant of TaskCleanup: the task ends without looking at the map.
CleanupNothing(q) == /\ task[q] = "cleanup"
                     /\ task' = [task EXCEPT ![q] = "done"]
                     /\ UNCHANGED <<attemptVars, entry, qlock, chan, serving, released>>

\* Under the authenticate_queues lock: remove the user's entry, whichever
\* queue it points to by now, unless that one is held.
TaskCleanup(q) == /\ task[q] = "cleanup"
                  /\ task' = [task EXCEPT ![q] = "done"]
                  /\ entry' = IF entry[user[q]] # None /\ Live(entry[user[q]])
                              THEN entry
                              ELSE [entry EXCEPT ![user[q]] = None]
                  /\ UNCHANGED <<attemptVars, qlock, chan, serving, released>>

-----------------------------------------------------------------------------
AttemptStep(a) == \/ JoinQueue(a)
                  \/ CreateQueue(a)
                  \/ Enqueue(a)
                  \/ SendDone(a)
                  \/ Accepted(a)
                  \/ Rejected(a)
                  \/ PenaltyOver(a)
                  \/ Broken(a)
                  \/ DropQueue(a)
                  \/ DropSignal(a)
                  \/ Leave(a)

TaskStep(q) == TaskPop(q) \/ TaskResolved(q) \/ TaskClosed(q) \/ TaskCleanup(q)

Next == \/ \E a \in Attempts, u \in Users : Begin(a, u) \/ ConnectFails(a, u)
        \/ \E a \in Attempts : AttemptStep(a) \/ TaskStep(a)

Spec == Init /\ [][Next]_vars

\* tokio polls every task that was woken, and sshd answers or the ssh
\* connection breaks; browsers need not sign in.
Fairness == \A a \in Attempts : WF_vars(AttemptStep(a)) /\ WF_vars(TaskStep(a))

FairSpec == Spec /\ Fairness

-----------------------------------------------------------------------------
(* Properties *)

\* The password of a is being checked, or a's wrong password being paid for.
Authenticating(a) == pc[a] \in {"authenticating", "penalty", "failing"}

\* Of two attempts for one user only one is between the start of its password
\* check and the end of its penalty, even while a dying queue is replaced and
\* its task still has the map to clean (lines 72-116).
OneAuthenticationPerUser ==
    \A a, b \in Attempts :
        a # b /\ user[a] = user[b] => ~(Authenticating(a) /\ Authenticating(b))

\* Whoever holds a queue holds the one the map shows to later attempts: two
\* live queues for one user would not exclude each other (lines 75-103).
HeldQueueIsListed == \A a \in Attempts : arc[a] # None => entry[user[a]] = arc[a]

\* An entry of the map is held, or the task that will remove it still runs:
\* no user name leaves its entry behind (lines 89-99).
NoLeakedEntry ==
    \A u \in Users : entry[u] # None =>
        Live(entry[u]) \/ task[entry[u]] \in {"next", "await", "cleanup"}

\* A held queue has a receiving task, so the send whose result line 105
\* ignores cannot fail.
HeldQueueIsServed == \A a \in Attempts : arc[a] # None => task[arc[a]] \in {"next", "await"}

\* What a task awaits was released, or is with an attempt that goes on by
\* itself: neither it nor whoever queues behind it waits for nobody, whatever
\* return or drop an attempt ends with (lines 105-118).
AwaitedGoesOn ==
    \A q \in Attempts : task[q] = "await" =>
        LET a == serving[q]
        IN  released[a] \/ Authenticating(a) \/ pc[a] = "unsignalled"
            \/ (pc[a] = "sending" /\ chan[arc[a]] # a)

\* The map, the holders of queues and the tasks agree, although each attempt
\* sees only its own part of them: no queue is lost, leaked, unserved or stuck.
MapAgrees == HeldQueueIsListed /\ NoLeakedEntry /\ HeldQueueIsServed /\ AwaitedGoesOn

\* The queue, the map and the tasks implement one lock per user.
Stage(a) == CASE pc[a] = "idle" -> "idle"
              [] pc[a] \in {"lookup", "queued", "sending"} -> "waiting"
              [] Authenticating(a) -> "checking"
              [] OTHER -> "finished"

Lock == INSTANCE UserLock WITH stage <- [a \in Attempts |-> Stage(a)]

\* Every step of the queue is a step of the lock, or none (lines 72-118).
ImplementsLock == Lock!Spec

\* An attempt that looked its queue up has its password checked at last,
\* although those before it fail, pay the penalty or drop the queue.
EveryAttemptIsChecked ==
    \A a \in Attempts : pc[a] = "lookup" ~> pc[a] = "authenticating"

-----------------------------------------------------------------------------
(* The inductive invariant behind the safety properties *)

TypeOK == /\ pc \in [Attempts -> AttemptStates]
          /\ user \in [Attempts -> Users \cup {None}]
          /\ arc \in [Attempts -> Attempts \cup {None}]
          /\ entry \in [Users -> Attempts \cup {None}]
          /\ qlock \in [Attempts -> Attempts \cup {None}]
          /\ chan \in [Attempts -> Attempts \cup {None}]
          /\ serving \in [Attempts -> Attempts \cup {None}]
          /\ task \in [Attempts -> TaskStates]
          /\ released \in [Attempts -> BOOLEAN]

\* A started attempt has a user, and holds a queue of that user from its
\* lookup to its end.
AttemptOK(a) ==
    /\ pc[a] # "idle" => user[a] \in Users
    /\ arc[a] # None <=>
          pc[a] \in {"queued", "sending", "authenticating", "penalty", "failing", "authed"}
    /\ arc[a] # None => /\ entry[user[a]] = arc[a]
                        /\ task[arc[a]] \in {"next", "await"}
    /\ released[a] => pc[a] \in {"authed", "done"}
    /\ pc[a] = "authed" => released[a]

\* A sending attempt holds the Mutex until its oneshot is popped; from then to
\* its resolution the task awaits that oneshot.
TurnOK(a) ==
    /\ pc[a] = "sending" => /\ qlock[arc[a]] = a
                            /\ chan[arc[a]] = a \/ serving[arc[a]] = a
    /\ Authenticating(a) => serving[arc[a]] = a

\* A queue that exists has a task and belongs to its creator's user; its
\* channel is empty unless the holder of the Mutex filled it.
QueueOK(q) ==
    /\ task[q] # "none" => pc[q] \notin {"idle", "lookup"}
    /\ qlock[q] # None => pc[qlock[q]] = "sending" /\ arc[qlock[q]] = q
    /\ chan[q] # None => chan[q] = qlock[q]
    /\ serving[q] # None <=> task[q] = "await"
    /\ serving[q] # None => /\ serving[q] # chan[q]
                            /\ pc[serving[q]] \notin {"idle", "lookup", "queued"}
                            /\ pc[serving[q]] = "done" => released[serving[q]]
                            /\ arc[serving[q]] \in {q, None}

\* An entry belongs to its user and its task has not ended.
EntryOK(u) == entry[u] # None => /\ user[entry[u]] = u
                                 /\ task[entry[u]] \in {"next", "await", "cleanup"}

IndInv == /\ TypeOK
          /\ \A a \in Attempts : AttemptOK(a) /\ TurnOK(a) /\ QueueOK(a)
          /\ \A u \in Users : EntryOK(u)
=============================================================================
