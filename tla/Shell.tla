-------------------------------- MODULE Shell --------------------------------
(***************************************************************************)
(* The terminals of one session: websocket_server/shell.rs, the Controller *)
(* of pages/home-page/MultiTerminalView.tsx and the concurrent requests    *)
(* that on_authenticate reads from the browser.                            *)
(*                                                                         *)
(* Every request is a handler of its own and handlers run concurrently.    *)
(* A handler holds the Mutex of the map `shells` for its whole run, also   *)
(* while it waits for the task of a shell to take its data from a channel  *)
(* of capacity zero.  A futures Mutex is not a queue: any waiter may get   *)
(* it, so the requests of one terminal may overtake each other.            *)
(*                                                                         *)
(* A shell is named by the open request that started it, which tells apart *)
(* two shells opened under one id.  Ids of closed terminals may be drawn   *)
(* again (makeUniqueId compares with the open ones only).  An output of a  *)
(* shell only occupies its task.  Requests bounds what the browser sends,  *)
(* Outputs what the shells print.                                          *)
(*                                                                         *)
(* The calls that on_authenticate relays to the client share the session   *)
(* with the shells: a call holds the Mutex of client_connection while it   *)
(* is sent, which every output and close event needs too, and its handler  *)
(* is waited for at the end of the session.  One relayed call stands for   *)
(* them; how far it is is up to the client, so nothing is fair to it (the  *)
(* module WebSocketPeer shows when it stays for ever).                     *)
(***************************************************************************)
EXTENDS Integers, Sequences, FiniteSets

CONSTANTS Ids, Requests, Outputs, None

Kinds == {"open", "data", "close"}

ASSUME NoneAssumption == None \notin Ids \cup Requests \cup Kinds
ASSUME OutputsAssumption == Outputs \in Nat

VARIABLES kind,     \* what each request asks for
          id,       \* for which terminal
          pc,       \* where its handler is
          lock,     \* the handler that holds the Mutex of shells
          shells,   \* the map: id -> the shell whose sender is listed
          task,     \* poll_channel of each shell
          buffer,   \* the request whose data is in the channel of a shell
          remote,   \* the process at the other end of the ssh channel
          printed,  \* outputs of the shells so far
          ssh,      \* the ssh connection of the session is up
          events,   \* close events on their way to the browser
          terminal, \* the browser's Controller of each id
          opener,   \* the open request of that Controller
          browser,  \* "here", "gone", or "ended" once the session dropped its map
          relay     \* the relayed call: none, being sent, awaiting its answer, or done

request == <<kind, id>>
server == <<lock, shells, task, buffer>>
view == <<terminal, opener>>
vars == <<request, pc, server, remote, printed, ssh, events, view, browser, relay>>

HandlerStates == {"none", "waiting", "holding", "sending", "ok", "error"}
TaskStates == {"none", "polling", "writing", "forwarding", "closing", "done"}
Running(t) == task[t] \notin {"none", "done"}

Init == /\ kind = [r \in Requests |-> None]
        /\ id = [r \in Requests |-> None]
        /\ pc = [r \in Requests |-> "none"]
        /\ lock = None
        /\ shells = [i \in Ids |-> None]
        /\ task = [t \in Requests |-> "none"]
        /\ buffer = [t \in Requests |-> None]
        /\ remote = [t \in Requests |-> "none"]
        /\ printed = 0
        /\ ssh = TRUE
        /\ events = << >>
        /\ terminal = [i \in Ids |-> "absent"]
        /\ opener = [i \in Ids |-> None]
        /\ browser = "here"
        /\ relay = "none"

-----------------------------------------------------------------------------
(* The browser *)

\* auth.rest("shell", ...): the message is read and its handler starts.
Ask(r, k, i) == /\ browser = "here"
                /\ pc[r] = "none"
                /\ pc' = [pc EXCEPT ![r] = "waiting"]
                /\ kind' = [kind EXCEPT ![r] = k]
                /\ id' = [id EXCEPT ![r] = i]
                /\ UNCHANGED <<server, remote, printed, ssh, events, browser, relay>>

\* add(): a new Controller, which opens its shell.
AddTerminal(i, r) == /\ terminal[i] = "absent"
                     /\ Ask(r, "open", i)
                     /\ terminal' = [terminal EXCEPT ![i] = "open"]
                     /\ opener' = [opener EXCEPT ![i] = r]

\* onData or resize: sent at once, even before the answer of open; the answer
\* is ignored.
Type(i, r) == /\ terminal[i] \in {"open", "closed"}
              /\ Ask(r, "data", i)
              /\ UNCHANGED view

\* removeAt(): dispose() asks for the close of a shell not known to be closed.
RemoveTerminal(i, r) == /\ terminal[i] = "open"
                        /\ Ask(r, "close", i)
                        /\ terminal' = [terminal EXCEPT ![i] = "absent"]
                        /\ opener' = [opener EXCEPT ![i] = None]

RemoveClosed(i) == /\ browser = "here"
                   /\ terminal[i] = "closed"
                   /\ terminal' = [terminal EXCEPT ![i] = "absent"]
                   /\ opener' = [opener EXCEPT ![i] = None]
                   /\ UNCHANGED <<request, pc, server, remote, printed, ssh, events, browser, relay>>

\* The answer of open is an error: onClose.
OpenRefused(i) == /\ browser = "here"
                  /\ terminal[i] = "open"
                  /\ pc[opener[i]] = "error"
                  /\ terminal' = [terminal EXCEPT ![i] = "closed"]
                  /\ UNCHANGED <<request, pc, server, remote, printed, ssh, events, opener, browser, relay>>

\* A close event reaches the listener of the id, whichever shell sent it.
TakeEvent == /\ events # << >>
             /\ events' = Tail(events)
             /\ LET i == id[Head(events)]
                IN  terminal' = IF terminal[i] = "open" THEN [terminal EXCEPT ![i] = "closed"]
                                ELSE terminal
             /\ UNCHANGED <<request, pc, server, remote, printed, ssh, opener, browser, relay>>

\* The relayed call: it takes the Mutex of client_connection, is sent, and its
\* handler returns, with the answer or because the call could not be sent.
Relay == /\ \/ relay = "none" /\ browser = "here" /\ relay' = "sending"
            \/ relay = "sending" /\ relay' \in {"waiting", "done"}
            \/ relay = "waiting" /\ relay' = "done"
         /\ UNCHANGED <<request, pc, server, remote, printed, ssh, events, view, browser>>

\* No handler of the session runs.
Handled == /\ \A r \in Requests : pc[r] \notin {"waiting", "holding", "sending"}
           /\ relay \in {"none", "done"}

\* The websocket ends; what was read is still handled ...
Leave == /\ browser = "here"
         /\ browser' = "gone"
         /\ UNCHANGED <<request, pc, server, remote, printed, ssh, events, view, relay>>

\* Mutant of EndSession: somebody else still holds the map.
EndSessionSharing == /\ browser = "gone"
                     /\ Handled
                     /\ browser' = "ended"
                     /\ UNCHANGED <<request, pc, server, remote, printed, ssh, events, view, relay>>

\* ... for_each_concurrent waits for every handler, the relayed calls' too, and
\* then the map is dropped, with all its senders.
EndSession == /\ browser = "gone"
              /\ Handled
              /\ browser' = "ended"
              /\ shells' = [i \in Ids |-> None]
              /\ UNCHANGED <<request, pc, lock, task, buffer, remote, printed, ssh, events, view, relay>>

-----------------------------------------------------------------------------
(* The handler of a request *)

Lock(r) == /\ pc[r] = "waiting"
           /\ lock = None
           /\ lock' = r
           /\ pc' = [pc EXCEPT ![r] = "holding"]
           /\ UNCHANGED <<request, shells, task, buffer, remote, printed, ssh, events, view, browser, relay>>

Holding(r, k) == pc[r] = "holding" /\ kind[r] = k

\* The handler returns: its guard is dropped and the response written.
Return(r, answer) == /\ pc' = [pc EXCEPT ![r] = answer]
                     /\ lock' = None

\* The id is listed: nothing is opened, and the answer is Ok.
OpenListed(r) == /\ Holding(r, "open")
                 /\ shells[id[r]] # None
                 /\ Return(r, "ok")
                 /\ UNCHANGED <<request, shells, task, buffer, remote, printed, ssh, events, view, browser, relay>>

OpenShell(r) == /\ Holding(r, "open")
                /\ shells[id[r]] = None
                /\ ssh
                /\ shells' = [shells EXCEPT ![id[r]] = r]
                /\ task' = [task EXCEPT ![r] = "polling"]
                /\ remote' = [remote EXCEPT ![r] = "running"]
                /\ Return(r, "ok")
                /\ UNCHANGED <<request, buffer, printed, ssh, events, view, browser, relay>>

\* Mutant of OpenFails: the early return forgets the guard.
OpenFailsLocked(r) == /\ Holding(r, "open")
                      /\ shells[id[r]] = None
                      /\ pc' = [pc EXCEPT ![r] = "error"]
                      /\ UNCHANGED <<request, server, remote, printed, ssh, events, view, browser, relay>>

\* One of the three calls that open the channel fails.
OpenFails(r) == /\ Holding(r, "open")
                /\ shells[id[r]] = None
                /\ Return(r, "error")
                /\ UNCHANGED <<request, shells, task, buffer, remote, printed, ssh, events, view, browser, relay>>

\* The sender is unlisted and closed; an unknown id is Ok too.
CloseShell(r) == /\ Holding(r, "close")
                 /\ shells' = [shells EXCEPT ![id[r]] = None]
                 /\ Return(r, "ok")
                 /\ UNCHANGED <<request, task, buffer, remote, printed, ssh, events, view, browser, relay>>

\* Data for an id that is not listed is dropped, and the answer is Ok.
SendNowhere(r) == /\ Holding(r, "data")
                  /\ shells[id[r]] = None
                  /\ Return(r, "ok")
                  /\ UNCHANGED <<request, shells, task, buffer, remote, printed, ssh, events, view, browser, relay>>

\* The receiver is gone with its task.
SendFails(r) == /\ Holding(r, "data")
                /\ shells[id[r]] # None
                /\ task[shells[id[r]]] = "done"
                /\ Return(r, "error")
                /\ UNCHANGED <<request, shells, task, buffer, remote, printed, ssh, events, view, browser, relay>>

\* tx.send puts the data into the channel and waits until it is taken.
Send(r) == /\ Holding(r, "data")
           /\ shells[id[r]] # None
           /\ task[shells[id[r]]] # "done"
           /\ buffer' = [buffer EXCEPT ![shells[id[r]]] = r]
           /\ pc' = [pc EXCEPT ![r] = "sending"]
           /\ UNCHANGED <<request, lock, shells, task, remote, printed, ssh, events, view, browser, relay>>

\* Taken by the task, or dropped with its receiver: both are Ok.
Sent(r) == /\ pc[r] = "sending"
           /\ buffer[shells[id[r]]] # r
           /\ Return(r, "ok")
           /\ UNCHANGED <<request, shells, task, buffer, remote, printed, ssh, events, view, browser, relay>>

-----------------------------------------------------------------------------
(* poll_channel, the task of a shell *)

Become(t, s) == task' = [task EXCEPT ![t] = s]

\* rx.next() yields data.
TakeData(t) == /\ task[t] = "polling"
               /\ buffer[t] # None
               /\ Become(t, "writing")
               /\ buffer' = [buffer EXCEPT ![t] = None]
               /\ UNCHANGED <<request, pc, lock, shells, remote, printed, ssh, events, view, browser, relay>>

\* The ssh channel takes the data once its window is open.
Written(t) == /\ task[t] = "writing"
              /\ ssh
              /\ remote[t] # "stalled"
              /\ Become(t, "polling")
              /\ UNCHANGED <<request, pc, lock, shells, buffer, remote, printed, ssh, events, view, browser, relay>>

\* The task ends at a `?` and drops its receiver, with what is in it; no close
\* event is forwarded.
Break(t) == /\ Become(t, "done")
            /\ buffer' = [buffer EXCEPT ![t] = None]
            /\ UNCHANGED <<request, pc, lock, shells, remote, printed, ssh, events, view, browser, relay>>

WriteFails(t) == task[t] = "writing" /\ ~ssh /\ Break(t)

\* channel.wait() yields output, which goes through forward_event.
Output(t) == /\ task[t] = "polling"
             /\ remote[t] = "running"
             /\ printed < Outputs
             /\ printed' = printed + 1
             /\ Become(t, "forwarding")
             /\ UNCHANGED <<request, pc, lock, shells, buffer, remote, ssh, events, view, browser, relay>>

\* forward_event has the Mutex of client_connection.
Forwarding == relay # "sending"

Forwarded(t) == /\ task[t] = "forwarding"
                /\ Forwarding
                /\ browser # "ended"
                /\ Become(t, "polling")
                /\ UNCHANGED <<request, pc, lock, shells, buffer, remote, printed, ssh, events, view, browser, relay>>

\* The event channel is closed: the poller of the browser's side broke.
ForwardFails(t) == task[t] = "forwarding" /\ Forwarding /\ browser # "here" /\ Break(t)

\* channel.wait() yields None.
Hangup(t) == /\ task[t] = "polling"
             /\ remote[t] = "ended"
             /\ Become(t, "closing")
             /\ UNCHANGED <<request, pc, lock, shells, buffer, remote, printed, ssh, events, view, browser, relay>>

\* rx.next() yields None: the sender is closed and the channel empty.
Unlisted(t) == /\ task[t] = "polling"
               /\ buffer[t] = None
               /\ shells[id[t]] # t
               /\ Become(t, "closing")
               /\ UNCHANGED <<request, pc, lock, shells, buffer, remote, printed, ssh, events, view, browser, relay>>

\* Mutant of Close: an end that does not end the loop.
CloseLooping(t) == /\ task[t] = "closing"
                   /\ Forwarding
                   /\ Become(t, "polling")
                   /\ events' = IF browser = "here" THEN Append(events, t) ELSE events
                   /\ UNCHANGED <<request, pc, lock, shells, buffer, remote, printed, ssh, view, browser, relay>>

\* Mutant of Close: the task ends without its close event.
CloseSilently(t) == /\ task[t] = "closing"
                    /\ Forwarding
                    /\ Break(t)

\* Mutant of Close: the receiver outlives the task, with what is in it.
CloseKeeping(t) == /\ task[t] = "closing"
                   /\ Forwarding
                   /\ Become(t, "done")
                   /\ remote' = [remote EXCEPT ![t] = "ended"]
                   /\ events' = IF browser = "here" THEN Append(events, t) ELSE events
                   /\ UNCHANGED <<request, pc, lock, shells, buffer, printed, ssh, view, browser, relay>>

\* The close event is forwarded and the ssh channel closed; then the receiver
\* is dropped.  The entry of `shells` stays.
Close(t) == /\ task[t] = "closing"
            /\ Forwarding
            /\ Become(t, "done")
            /\ buffer' = [buffer EXCEPT ![t] = None]
            /\ remote' = [remote EXCEPT ![t] = "ended"]
            /\ events' = IF browser = "here" THEN Append(events, t) ELSE events
            /\ UNCHANGED <<request, pc, lock, shells, printed, ssh, view, browser, relay>>

-----------------------------------------------------------------------------
(* The far side *)

\* The shell exits, or stops reading for good and fills its window.
RemoteStep(t) == /\ \/ remote[t] = "running" /\ remote' = [remote EXCEPT ![t] = "stalled"]
                    \/ remote[t] \in {"running", "stalled"} /\ remote' = [remote EXCEPT ![t] = "ended"]
                 /\ UNCHANGED <<request, pc, server, printed, ssh, events, view, browser, relay>>

\* The ssh connection ends, and every channel with it.
SshDies == /\ ssh
           /\ ssh' = FALSE
           /\ remote' = [t \in Requests |-> IF remote[t] = "none" THEN "none" ELSE "ended"]
           /\ UNCHANGED <<request, pc, server, printed, events, view, browser, relay>>

-----------------------------------------------------------------------------
TerminalStep(i) == \/ \E r \in Requests : AddTerminal(i, r) \/ Type(i, r) \/ RemoveTerminal(i, r)
                   \/ RemoveClosed(i)
                   \/ OpenRefused(i)

ReturnStep(r) == \/ OpenListed(r)
                 \/ OpenShell(r)
                 \/ OpenFails(r)
                 \/ CloseShell(r)
                 \/ SendNowhere(r)
                 \/ SendFails(r)
                 \/ Send(r)
                 \/ Sent(r)

TaskStep(t) == \/ TakeData(t)
               \/ Written(t)
               \/ WriteFails(t)
               \/ Output(t)
               \/ Forwarded(t)
               \/ ForwardFails(t)
               \/ Hangup(t)
               \/ Unlisted(t)
               \/ Close(t)

Next == \/ \E i \in Ids : TerminalStep(i)
        \/ \E r \in Requests : Lock(r) \/ ReturnStep(r)
        \/ \E t \in Requests : TaskStep(t) \/ RemoteStep(t)
        \/ TakeEvent
        \/ Relay
        \/ Leave
        \/ EndSession
        \/ SshDies

Spec == Init /\ [][Next]_vars

\* The handlers and the tasks of the shells run when they can, and the browser
\* takes what it is sent; nothing is asked of the user or of a shell.  As the
\* requests and outputs are bounded, no waiter of the Mutex is overtaken for
\* ever, and no branch of select! (it polls them in random order) is starved.
Fairness == /\ \A r \in Requests : WF_vars(Lock(r)) /\ WF_vars(ReturnStep(r))
            /\ \A t \in Requests : WF_vars(TaskStep(t))
            /\ WF_vars(TakeEvent)
            /\ WF_vars(EndSession)

FairSpec == Spec /\ Fairness

-----------------------------------------------------------------------------
(* Properties *)

\* The handler that holds the Mutex waits only for a shell that can still take
\* its data: the end of a shell, however it comes, lets the sender go (shell.rs
\* lines 43-58 against 126-172).
SendersWaitForRunningShells ==
    \A r, t \in Requests : buffer[t] = r => Running(t) /\ shells[id[r]] = t /\ pc[r] = "sending"

\* One request at a time is in the map or waits for a shell.
OneHandlerAtATime ==
    \A r, s \in Requests :
        pc[r] \in {"holding", "sending"} /\ pc[s] \in {"holding", "sending"} => r = s

\* The Mutex over the whole map never makes a request wait for nobody: its
\* holder is alone, and waits for a shell that runs and is listed.
NoDeadWait == SendersWaitForRunningShells /\ OneHandlerAtATime

\* A terminal is shown as closed only after a shell of its id ended or was
\* refused: a running shell hides behind a closed terminal only if its id was
\* drawn twice.
ClosedIsTrue ==
    \A i \in Ids, t \in Requests :
        terminal[i] = "closed" /\ Running(t) /\ id[t] = i =>
            \E r \in Requests \ {t} : kind[r] = "open" /\ id[r] = i

Stalled == \E t \in Requests : task[t] = "writing" /\ remote[t] = "stalled"

\* The relayed call leaves client_connection to the others, as it does unless a
\* client that no longer reads what it is sent keeps it for ever.
Released == []<>Forwarding

\* Every request is answered, unless a shell stops reading for good: that one
\* stops the requests of all terminals; so does a shell that can forward no
\* output.
AnsweredUnlessStalled ==
    []<>~Stalled /\ Released => \A r \in Requests : pc[r] = "waiting" ~> pc[r] \in {"ok", "error"}

\* A shell that is no longer listed ends, as its terminal was removed; with the
\* browser gone no shell is left, be it listed, removed or just being opened,
\* unless a relayed call is never answered: the shells of a browser that left
\* run on for as long as its session waits for that call.
ShellsEnd ==
    []<>~Stalled /\ Released =>
        /\ \A t \in Requests : Running(t) /\ shells[id[t]] # t ~> ~Running(t)
        /\ []<>(relay # "waiting") => (browser = "gone" ~> \A t \in Requests : ~Running(t))

\* The end of the shell's channel reaches the terminal.
TerminalLearnsTheEnd ==
    Released => \A t \in Requests :
        task[t] = "closing" ~>
            browser # "here" \/ \A i \in Ids : id[t] = i => terminal[i] # "open"

-----------------------------------------------------------------------------
(* The inductive invariant behind the safety properties *)

TypeOK == /\ kind \in [Requests -> Kinds \cup {None}]
          /\ id \in [Requests -> Ids \cup {None}]
          /\ pc \in [Requests -> HandlerStates]
          /\ lock \in Requests \cup {None}
          /\ shells \in [Ids -> Requests \cup {None}]
          /\ task \in [Requests -> TaskStates]
          /\ buffer \in [Requests -> Requests \cup {None}]
          /\ remote \in [Requests -> {"none", "running", "stalled", "ended"}]
          /\ printed \in 0..Outputs
          /\ ssh \in BOOLEAN
          /\ events \in Seq(Requests)
          /\ terminal \in [Ids -> {"absent", "open", "closed"}]
          /\ opener \in [Ids -> Requests \cup {None}]
          /\ browser \in {"here", "gone", "ended"}
          /\ relay \in {"none", "sending", "waiting", "done"}

\* A request that was made has a kind and an id; the Mutex is held by the
\* request that runs, and only one with data waits inside it.
RequestOK(r) == /\ pc[r] # "none" => kind[r] \in Kinds /\ id[r] \in Ids
                /\ pc[r] = "none" => kind[r] = None
                /\ pc[r] \in {"holding", "sending"} <=> lock = r
                /\ pc[r] = "sending" => kind[r] = "data" /\ shells[id[r]] # None
                /\ browser = "ended" => pc[r] \notin {"waiting", "holding", "sending"}

\* A shell belongs to an open request that was answered Ok, and what is in its
\* channel to a request that waits for it.
ShellOK(t) == /\ task[t] # "none" => kind[t] = "open" /\ pc[t] = "ok"
              /\ buffer[t] # None => /\ Running(t)
                                     /\ pc[buffer[t]] = "sending"
                                     /\ shells[id[buffer[t]]] = t

\* The map lists a shell under its id; a closed terminal has seen a shell of
\* its id end or be refused.
IdOK(i) == /\ shells[i] # None => id[shells[i]] = i /\ task[shells[i]] # "none"
           /\ terminal[i] # "absent" => /\ opener[i] \in Requests
                                        /\ kind[opener[i]] = "open"
                                        /\ id[opener[i]] = i
           /\ terminal[i] = "closed" =>
                 \E r \in Requests : /\ kind[r] = "open"
                                     /\ id[r] = i
                                     /\ task[r] = "done" \/ pc[r] = "error"

\* A close event was sent by a shell that has ended.
EventsOK == \A n \in 1..Len(events) : task[events[n]] = "done"

IndInv == /\ TypeOK
          /\ \A r \in Requests : RequestOK(r) /\ ShellOK(r)
          /\ \A i \in Ids : IdOK(i)
          /\ EventsOK
=============================================================================
