---------------------------- MODULE MCGraphTiers ----------------------------
(***************************************************************************)
(* GraphTiers on a few vertices, with the number of tiers the constructor  *)
(* computes for them.                                                      *)
(***************************************************************************)
EXTENDS GraphTiers, TLC

MCNumTiers == TierCount(Cardinality(Nodes))

Symmetry == Permutations(Nodes)

=============================================================================
