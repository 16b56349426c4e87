------------------------------- MODULE MCHome -------------------------------
(* A small instance of Home: three terminals.                               *)
EXTENDS Home
=============================================================================
