---------------------------- MODULE MCVmmHandle ----------------------------
(* Instances of VmmHandle for TLC.                                         *)
EXTENDS VmmHandle, TLC

CONSTANTS p, k1, k2

\* One parent with two children.
TwoChildren == (p :> None) @@ (k1 :> p) @@ (k2 :> p)

\* Two references to the parent and to one child.
TwoRefs == (p :> 2) @@ (k1 :> 2) @@ (k2 :> 1)
=============================================================================
