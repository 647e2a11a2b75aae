------------------------------ MODULE MCSkipList ------------------------------
(***************************************************************************)
(* SkipList on four elements: two of a vertex of height 2, one of a vertex *)
(* of height 1 and one of a vertex of height 3.                            *)
(***************************************************************************)
EXTENDS SkipList, TLC

CONSTANTS occ1, occ2, occ3, occ4

MCElements == {occ1, occ2, occ3, occ4}
MCVertex == (occ1 :> "a") @@ (occ2 :> "a") @@ (occ3 :> "b") @@ (occ4 :> "c")
MCHeight == (occ1 :> 2) @@ (occ2 :> 2) @@ (occ3 :> 1) @@ (occ4 :> 3)
Symmetry == Permutations({occ1, occ2})

=============================================================================
