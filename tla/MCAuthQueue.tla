----------------------------- MODULE MCAuthQueue -----------------------------
(* Small instances of AuthQueue: attempts are interchangeable, users too.   *)
EXTENDS AuthQueue, TLC

=============================================================================
