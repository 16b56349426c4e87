------------------------------- MODULE MCShell -------------------------------
(* Small instances of Shell.                                                *)
EXTENDS Shell, TLC

=============================================================================
