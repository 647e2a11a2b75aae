--------------------------- MODULE MCEulerTourTree ---------------------------
(***************************************************************************)
(* EulerTourTree on a few interchangeable vertices.                        *)
(***************************************************************************)
EXTENDS EulerTourTree, TLC

Symmetry == Permutations(Nodes)

=============================================================================
