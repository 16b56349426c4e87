------------------------------ MODULE MCSignIn ------------------------------
(* Small instances of SignIn.                                               *)
EXTENDS SignIn, TLC

=============================================================================
