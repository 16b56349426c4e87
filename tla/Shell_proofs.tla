------------------------------ MODULE Shell_proofs ------------------------------
(***************************************************************************)
(* For any ids, requests and outputs: no request waits, with the Mutex in  *)
(* its hand, for a shell that has ended, and a terminal is not shown as    *)
(* closed before a shell of its id ended or was refused.                   *)
(*                                                                         *)
(* IndInv ties the Mutex to the one handler that holds it (RequestOK),     *)
(* what is in a channel to that handler and to a running shell (ShellOK),  *)
(* and the map and the browser's view to shells that were opened (IdOK);   *)
(* EventsOK is what makes a close event true when it arrives.              *)
(***************************************************************************)
EXTENDS Shell, TLAPS

LEMMA InitInv == Init => IndInv
BY NoneAssumption, OutputsAssumption
   DEF Init, IndInv, TypeOK, Kinds, HandlerStates, TaskStates, Running,
       RequestOK, ShellOK, IdOK, EventsOK

\* The steps of the browser's terminals.
LEMMA BrowserInv ==
    ASSUME IndInv, NEW i \in Ids, TerminalStep(i)
    PROVE  IndInv'
<1> USE NoneAssumption, OutputsAssumption
    DEF IndInv, TypeOK, Kinds, HandlerStates, TaskStates, Running,
        RequestOK, ShellOK, IdOK, EventsOK, request, server, view
<1>1. CASE \E r \in Requests : AddTerminal(i, r)
  BY <1>1 DEF AddTerminal, Ask
<1>2. CASE \E r \in Requests : Type(i, r)
  BY <1>2 DEF Type, Ask
<1>3. CASE \E r \in Requests : RemoveTerminal(i, r)
  BY <1>3 DEF RemoveTerminal, Ask
<1>4. CASE RemoveClosed(i)
  BY <1>4 DEF RemoveClosed
<1>5. CASE OpenRefused(i)
  BY <1>5 DEF OpenRefused
<1> QED BY <1>1, <1>2, <1>3, <1>4, <1>5 DEF TerminalStep

\* The steps of the handler of a request.
LEMMA HandlerInv ==
    ASSUME IndInv, NEW r \in Requests, Lock(r) \/ ReturnStep(r)
    PROVE  IndInv'
<1> USE NoneAssumption, OutputsAssumption
    DEF IndInv, TypeOK, Kinds, HandlerStates, TaskStates, Running,
        RequestOK, ShellOK, IdOK, EventsOK, request, server, view
<1>1. CASE Lock(r)
  BY <1>1 DEF Lock
<1>2. CASE OpenListed(r)
  BY <1>2 DEF OpenListed, Holding, Return
<1>3. CASE OpenShell(r)
  BY <1>3 DEF OpenShell, Holding, Return
<1>4. CASE OpenFails(r)
  BY <1>4 DEF OpenFails, Holding, Return
<1>5. CASE CloseShell(r)
  BY <1>5 DEF CloseShell, Holding, Return
<1>6. CASE SendNowhere(r)
  BY <1>6 DEF SendNowhere, Holding, Return
<1>7. CASE SendFails(r)
  BY <1>7 DEF SendFails, Holding, Return
<1>8. CASE Send(r)
  BY <1>8 DEF Send, Holding, Return
<1>9. CASE Sent(r)
  BY <1>9 DEF Sent, Return
<1> QED BY <1>1, <1>2, <1>3, <1>4, <1>5, <1>6, <1>7, <1>8, <1>9 DEF ReturnStep

\* The steps of the task of a shell, and of the shell.
LEMMA TaskInv ==
    ASSUME IndInv, NEW t \in Requests, TaskStep(t) \/ RemoteStep(t)
    PROVE  IndInv'
<1> USE NoneAssumption, OutputsAssumption
    DEF IndInv, TypeOK, Kinds, HandlerStates, TaskStates, Running,
        RequestOK, ShellOK, IdOK, EventsOK, request, server, view
<1>1. CASE TakeData(t)
  BY <1>1 DEF TakeData, Become
<1>2. CASE Written(t)
  BY <1>2 DEF Written, Become
<1>3. CASE WriteFails(t)
  BY <1>3 DEF WriteFails, Become, Break
<1>4. CASE Output(t)
  BY <1>4 DEF Output, Become
<1>5. CASE Forwarded(t)
  BY <1>5 DEF Forwarded, Become
<1>6. CASE ForwardFails(t)
  BY <1>6 DEF ForwardFails, Become, Break
<1>7. CASE Hangup(t)
  BY <1>7 DEF Hangup, Become
<1>8. CASE Unlisted(t)
  BY <1>8 DEF Unlisted, Become
<1>9. CASE Close(t)
  BY <1>9 DEF Close, Become
<1>10. CASE RemoteStep(t)
  BY <1>10 DEF RemoteStep
<1> QED BY <1>1, <1>2, <1>3, <1>4, <1>5, <1>6, <1>7, <1>8, <1>9, <1>10 DEF TaskStep

\* What concerns all of the session.
LEMMA SessionInv ==
    ASSUME IndInv, TakeEvent \/ Relay \/ Leave \/ EndSession \/ SshDies
    PROVE  IndInv'
<1> USE NoneAssumption, OutputsAssumption
    DEF IndInv, TypeOK, Kinds, HandlerStates, TaskStates, Running,
        RequestOK, ShellOK, IdOK, EventsOK, request, server, view
<1>1. CASE TakeEvent
  BY <1>1 DEF TakeEvent
<1>2. CASE Leave
  BY <1>2 DEF Leave
<1>3. CASE EndSession
  BY <1>3 DEF EndSession, Handled
<1>4. CASE SshDies
  <2>1. remote' \in [Requests -> {"none", "running", "stalled", "ended"}]
    BY <1>4 DEF SshDies
  <2>2. UNCHANGED <<request, pc, server, printed, events, view, browser, relay>>
    BY <1>4 DEF SshDies
  <2>3. ssh' \in BOOLEAN
    BY <1>4 DEF SshDies
  <2> QED BY <2>1, <2>2, <2>3
<1>5. CASE Relay
  BY <1>5 DEF Relay
<1> QED BY <1>1, <1>2, <1>3, <1>4, <1>5

LEMMA StepInv == IndInv /\ [Next]_vars => IndInv'
<1> SUFFICES ASSUME IndInv, [Next]_vars PROVE IndInv'
  OBVIOUS
<1>1. CASE UNCHANGED vars
  BY <1>1 DEF vars, request, server, view, IndInv, TypeOK, RequestOK, ShellOK, IdOK, EventsOK, Running
<1> QED BY <1>1, BrowserInv, HandlerInv, TaskInv, SessionInv DEF Next

THEOREM Invariance == Spec => []IndInv
BY InitInv, StepInv, PTL DEF Spec

\* Type correctness of the terminals.
THEOREM TypeCorrect == Spec => []TypeOK
<1>1. IndInv => TypeOK
  BY DEF IndInv
<1> QED BY <1>1, Invariance, PTL

\* The handler that holds the Mutex waits only for a running shell, and it is
\* the only one (shell.rs lines 15-60 against 126-172).
THEOREM MutexIsSafe == Spec => []NoDeadWait
<1>1. IndInv => SendersWaitForRunningShells
  BY NoneAssumption DEF IndInv, TypeOK, ShellOK, RequestOK, SendersWaitForRunningShells
<1>2. IndInv => OneHandlerAtATime
  BY DEF IndInv, RequestOK, OneHandlerAtATime
<1> QED BY <1>1, <1>2, Invariance, PTL DEF NoDeadWait

\* A closed terminal hides no running shell, unless its id was drawn twice.
THEOREM ClosedTerminals == Spec => []ClosedIsTrue
<1>1. IndInv => ClosedIsTrue
  BY DEF IndInv, IdOK, ShellOK, ClosedIsTrue, Running
<1> QED BY <1>1, Invariance, PTL
===============================================================================
