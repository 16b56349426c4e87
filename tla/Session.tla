------------------------------- MODULE Session -------------------------------
(***************************************************************************)
(* What a signed-in session promises to those who use it, whatever the     *)
(* messages between the server and the internal client meet with:          *)
(*                                                                         *)
(*   a call of the browser is answered after the client acted on it, or it *)
(*   is refused, and then the client never acts on it;                     *)
(*   a fetch, an HTTP request with the session's token, is joined with a   *)
(*   PUT that its client made for it, is served once joined, or fails;     *)
(*   the session is over only when no call is under way, and from then on  *)
(*   nothing is joined.                                                    *)
(***************************************************************************)
EXTENDS FiniteSets, Naturals

CONSTANTS Calls, Fetches,
          Limit            \* calls under way

VARIABLES phase,     \* open, left by the browser, or over
          stage,     \* how far each call and fetch is
          handled    \* those that the client acted on

vars == <<phase, stage, handled>>

Init == /\ phase = "open"
        /\ stage = [x \in Calls \cup Fetches |-> "new"]
        /\ handled = {}

UnderWay == {k \in Calls : stage[k] = "taken"}

Move(x, from, to) == stage[x] = from /\ stage' = [stage EXCEPT ![x] = to]

\* The browser calls, and hears of it in the end.
Take(k) == /\ phase = "open" /\ Cardinality(UnderWay) < Limit
           /\ Move(k, "new", "taken") /\ UNCHANGED <<phase, handled>>
Answer(k) == k \in handled /\ Move(k, "taken", "answered") /\ UNCHANGED <<phase, handled>>
Refuse(k) == k \notin handled /\ Move(k, "taken", "refused") /\ UNCHANGED <<phase, handled>>

\* The client acts on what it was asked, at any time since.
Handle(x) == /\ stage[x] \notin {"new", "refused"}
             /\ handled' = handled \cup {x} /\ UNCHANGED <<phase, stage>>

\* A fetch comes with the token of the session ...
Enter(h) == phase # "over" /\ Move(h, "new", "waiting") /\ UNCHANGED <<phase, handled>>
\* ... which may be over already.
TurnAway(h) == phase = "over" /\ Move(h, "new", "failed") /\ UNCHANGED <<phase, handled>>
Join(h) == /\ phase # "over" /\ h \in handled
           /\ Move(h, "waiting", "joined") /\ UNCHANGED <<phase, handled>>
Serve(h) == Move(h, "joined", "served") /\ UNCHANGED <<phase, handled>>
\* The client refuses, its PUT breaks, its browser gives it up, or there is nobody
\* to ask.
Fail(h) == (Move(h, "waiting", "failed") \/ Move(h, "joined", "failed")) /\ UNCHANGED <<phase, handled>>

Leave == phase = "open" /\ phase' = "left" /\ UNCHANGED <<stage, handled>>
End == phase = "left" /\ UnderWay = {} /\ phase' = "over" /\ UNCHANGED <<stage, handled>>

Next == \/ \E k \in Calls : Take(k) \/ Answer(k) \/ Refuse(k)
        \/ \E h \in Fetches : Enter(h) \/ TurnAway(h) \/ Join(h) \/ Serve(h) \/ Fail(h)
        \/ \E x \in Calls \cup Fetches : Handle(x)
        \/ Leave \/ End

Spec == Init /\ [][Next]_vars
==============================================================================
