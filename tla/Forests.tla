------------------------------- MODULE Forests -------------------------------
(***************************************************************************)
(* Undirected graphs and forests over a fixed set of vertices, as the      *)
(* dynamic-connectivity code uses them.  A graph is its set of edges.      *)
(* Reachability is defined through closed sets of vertices (sets no edge   *)
(* leaves) and not by recursion, so that the same definitions serve TLC    *)
(* and the proofs.                                                         *)
(***************************************************************************)
EXTENDS Integers, FiniteSets

CONSTANT Nodes        \* the vertices 0 .. num_nodes-1

ASSUME NodesAssumption == IsFiniteSet(Nodes) /\ Nodes # {}

\* An edge is the unordered pair VERTICES_TO_EDGE packs into an edge_id_t.
Edges == {e \in SUBSET Nodes : \E a, b \in Nodes : a # b /\ e = {a, b}}

\* The sets of vertices that no edge of E leaves or enters.
ClosedSets(E) == {S \in SUBSET Nodes : \A e \in E : e \subseteq S \/ e \cap S = {}}

\* The vertices in the tree of u: what the occurrences of one tour list.
Component(E, u) ==
    LET closed == {S \in ClosedSets(E) : u \in S}
    IN  {v \in Nodes : \A S \in closed : v \in S}

Components(E) == {Component(E, u) : u \in Nodes}

\* find_root(u) = find_root(v): both are in the same tree.
Connected(E, u, v) == v \in Component(E, u)

\* A forest: no edge is on a cycle, so that removing any edge separates its ends.
Acyclic(E) == \A a, b \in Nodes : {a, b} \in E /\ a # b
                                     => ~Connected(E \ {{a, b}}, a, b)

\* The edges of the tree path between a and b: those whose removal separates them.
PathEdges(F, a, b) == {e \in F : ~Connected(F \ {e}, a, b)}

\* EulerTourNode::link: refused when both ends are in the same tour.
EttLink(F, a, b) == IF Connected(F, a, b) THEN F ELSE F \cup {{a, b}}

\* Definitions named Bug... are mutated forms of the definition that follows them: they
\* are used by no specification, only to see the properties fail.
Bug_EttCut(F, e) == F
\* EulerTourNode::cut: refused when the edge is not linked.
EttCut(F, e) == F \ {e}

\* The edges of E with exactly one end in S.
CutOf(E, S) == {e \in E : ~(e \subseteq S) /\ e \cap S # {}}

=============================================================================
