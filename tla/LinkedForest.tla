----------------------------- MODULE LinkedForest -----------------------------
(***************************************************************************)
(* What a dynamic forest promises, however it is represented: link joins   *)
(* two trees and is refused inside one, cut takes out a linked edge and is *)
(* refused for any other.                                                  *)
(***************************************************************************)
EXTENDS Forests

VARIABLE forest       \* the edges linked and not cut since

Init == forest = {}
Link(u, v) == forest' = EttLink(forest, u, v)
Cut(u, v)  == forest' = EttCut(forest, {u, v})
Next == \E u, v \in Nodes : Link(u, v) \/ Cut(u, v)
Spec == Init /\ [][Next]_forest

=============================================================================
