------------------------------ MODULE UserLock ------------------------------
(***************************************************************************)
(* What websocket_server/on_request_authenticate.rs promises with the      *)
(* comment "limit one user authentication at the same time": the password  *)
(* checks of one user go one after the other, those of different users are *)
(* independent, and a check that started is finished.                      *)
(***************************************************************************)
EXTENDS FiniteSets

CONSTANTS Attempts,   \* sign-in attempts
          Users,      \* user names an attempt may carry
          None        \* no user yet

VARIABLES stage,      \* how far each attempt is
          user        \* the user name of each attempt

vars == <<stage, user>>

Stages == {"idle", "waiting", "checking", "finished"}

Init == /\ stage = [a \in Attempts |-> "idle"]
        /\ user = [a \in Attempts |-> None]

\* A browser asks to sign in as u.
Request(a, u) == /\ stage[a] = "idle"
                 /\ stage' = [stage EXCEPT ![a] = "waiting"]
                 /\ user' = [user EXCEPT ![a] = u]

\* The attempt ends before any password is looked at (no ssh server).
Refuse(a, u) == /\ stage[a] = "idle"
                /\ stage' = [stage EXCEPT ![a] = "finished"]
                /\ user' = [user EXCEPT ![a] = u]

\* The password of a is checked, while no other check of that user is going on.
Check(a) == /\ stage[a] = "waiting"
            /\ \A b \in Attempts : user[b] = user[a] => stage[b] # "checking"
            /\ stage' = [stage EXCEPT ![a] = "checking"]
            /\ UNCHANGED user

\* The check, and the penalty of a wrong password, are over.
Finish(a) == /\ stage[a] = "checking"
             /\ stage' = [stage EXCEPT ![a] = "finished"]
             /\ UNCHANGED user

Next == \E a \in Attempts : \/ \E u \in Users : Request(a, u) \/ Refuse(a, u)
                            \/ Check(a)
                            \/ Finish(a)

Spec == Init /\ [][Next]_vars
=============================================================================
