------------------------------- MODULE MCFiles -------------------------------
(* A small instance of Files: in one directory a file and another object, a  *)
(* directory or the like, and in the other a file with the first one's name. *)
EXTENDS Files

CONSTANTS here, there, f, d

MCOccupied == {<<here, f>>, <<here, d>>, <<there, f>>}
MCRegular == {<<here, f>>, <<there, f>>}
=============================================================================
