---------------------------- MODULE MCDirectoryView ----------------------------
(* A small instance of DirectoryView: a directory in the root, with a file of *)
(* either of them; the file in the root has no preview.                       *)
EXTENDS DirectoryView, TLC

CONSTANTS root, dir, plain, page

MCVersions == (root :> {} @@ dir :> {1} @@ plain :> {1, 2} @@ page :> {1})
MCParent == (root :> None @@ dir :> root @@ plain :> root @@ page :> dir)
=============================================================================
