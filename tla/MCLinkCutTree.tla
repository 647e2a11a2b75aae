---------------------------- MODULE MCLinkCutTree ----------------------------
(***************************************************************************)
(* LinkCutTree on a few interchangeable vertices.                          *)
(***************************************************************************)
EXTENDS LinkCutTree, TLC

Symmetry == Permutations(Nodes)

=============================================================================
