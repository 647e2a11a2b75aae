----------------------------- MODULE MCMpiBatch -----------------------------
(***************************************************************************)
(* MpiBatch on a few interchangeable vertices, with the number of tiers    *)
(* the drivers compute for them.                                           *)
(***************************************************************************)
EXTENDS MpiBatch, TLC

ASSUME TiersOfDrivers == NumTiers = Engine!TierCount(Cardinality(Nodes))

\* The formula gives enough tiers (EnoughTiers) for any number of vertices but two.
ASSUME TierCountIsEnough == \A n \in 3 .. 500 : n < 2 ^ Engine!TierCount(n)

Symmetry == Permutations(Nodes)

=============================================================================
