------------------------------- MODULE MCLink -------------------------------
(* A small instance of Link: two calls over any number of connections.      *)
EXTENDS Link

=============================================================================
