------------------------------- MODULE MCWatch -------------------------------
(* Small instances of Watch: a root and one directory in it, or two.        *)
EXTENDS Watch, TLC

CONSTANTS root, dir

MCPaths == {root, dir}
MCParent == (root :> None) @@ (dir :> root)

=============================================================================
