---------------------------- MODULE ForestProofs ----------------------------
(***************************************************************************)
(* Lemmas on closed sets, connectivity and forests.  They hold for every   *)
(* set of vertices and every set of edges.  At the end, what the proofs    *)
(* about them need of numbers: the least element of a set of numbers,      *)
(* which stands for induction (the library states that with an operator    *)
(* parameter), and the sizes of disjoint parts.                            *)
(***************************************************************************)
EXTENDS Forests, FiniteSetTheorems, WellFoundedInduction, TLAPS

\* The closed sets of a graph are closed under complement, union and intersection,
\* and removing edges keeps a set closed.
LEMMA ClosedSetAlgebra ==
    ASSUME NEW E \in SUBSET Edges, NEW S \in ClosedSets(E), NEW T \in ClosedSets(E)
    PROVE  /\ Nodes \ S \in ClosedSets(E)
           /\ S \cup T \in ClosedSets(E)
           /\ S \cap T \in ClosedSets(E)
<1>1. S \subseteq Nodes /\ T \subseteq Nodes
  BY DEF ClosedSets
<1>2. ASSUME NEW e \in E
      PROVE  /\ e \subseteq Nodes
             /\ e \subseteq S \/ e \cap S = {}
             /\ e \subseteq T \/ e \cap T = {}
  BY DEF ClosedSets, Edges
<1>3. S \cup T \in ClosedSets(E)
  BY <1>1, <1>2 DEF ClosedSets
<1>4. S \cap T \in ClosedSets(E)
  BY <1>1, <1>2 DEF ClosedSets
<1>5. Nodes \ S \in ClosedSets(E)
  BY <1>1, <1>2 DEF ClosedSets
<1>6. QED
  BY <1>3, <1>4, <1>5

LEMMA ClosedSetsAntitone ==
    ASSUME NEW E, NEW F, E \subseteq F
    PROVE  ClosedSets(F) \subseteq ClosedSets(E)
  BY DEF ClosedSets

\* A closed set stays closed when an edge is added that does not cross it.
LEMMA ClosedSetAddEdge ==
    ASSUME NEW E, NEW S \in ClosedSets(E), NEW a, NEW b, a \in S <=> b \in S
    PROVE  S \in ClosedSets(E \cup {{a, b}})
  BY DEF ClosedSets

\* Two vertices are separated exactly when some closed set holds one and not the other.
LEMMA SeparatedByClosedSet ==
    ASSUME NEW E, NEW u \in Nodes, NEW v \in Nodes
    PROVE  ~Connected(E, u, v) <=> \E S \in ClosedSets(E) : u \in S /\ v \notin S
  BY DEF Connected, Component

\* Connectivity in an undirected graph is symmetric, and edges only add to it.
LEMMA ConnectedSymmetric ==
    ASSUME NEW E \in SUBSET Edges, NEW u \in Nodes, NEW v \in Nodes, Connected(E, u, v)
    PROVE  Connected(E, v, u)
<1>1. ASSUME NEW S \in ClosedSets(E), v \in S, u \notin S
      PROVE  FALSE
  <2>1. Nodes \ S \in ClosedSets(E)
    BY ClosedSetAlgebra
  <2>2. u \in Nodes \ S /\ v \notin Nodes \ S
    BY <1>1
  <2>3. QED
    BY <2>1, <2>2, SeparatedByClosedSet
<1>2. QED
  BY <1>1, SeparatedByClosedSet

LEMMA ConnectedMonotone ==
    ASSUME NEW E, NEW F, E \subseteq F, NEW u \in Nodes, NEW v \in Nodes, Connected(E, u, v)
    PROVE  Connected(F, u, v)
<1>1. SUFFICES ASSUME ~Connected(F, u, v)
               PROVE  FALSE
  OBVIOUS
<1>2. PICK S \in ClosedSets(F) : u \in S /\ v \notin S
  BY <1>1, SeparatedByClosedSet
<1>3. S \in ClosedSets(E)
  BY ClosedSetsAntitone
<1>4. QED
  BY <1>2, <1>3, SeparatedByClosedSet

\* A subset of a forest is a forest: cutting an edge cannot make a cycle.
LEMMA AcyclicSubset ==
    ASSUME NEW E, NEW F, E \subseteq F, Acyclic(F)
    PROVE  Acyclic(E)
<1>1. SUFFICES ASSUME NEW a \in Nodes, NEW b \in Nodes, {a, b} \in E, a # b,
                      Connected(E \ {{a, b}}, a, b)
               PROVE  FALSE
  BY DEF Acyclic
<1>2. Connected(F \ {{a, b}}, a, b)
  <2>1. E \ {{a, b}} \subseteq F \ {{a, b}}
    OBVIOUS
  <2>2. QED
    BY <1>1, <2>1, ConnectedMonotone
<1>3. QED
  BY <1>1, <1>2 DEF Acyclic

\* Linking two trees makes a tree: an edge between vertices that are not connected
\* does not close a cycle.
LEMMA AcyclicLink ==
    ASSUME NEW E \in SUBSET Edges, Acyclic(E),
           NEW a \in Nodes, NEW b \in Nodes, a # b, ~Connected(E, a, b)
    PROVE  Acyclic(E \cup {{a, b}})
<1> DEFINE new == {a, b}
<1>1. SUFFICES ASSUME NEW c \in Nodes, NEW d \in Nodes,
                      {c, d} \in E \cup {new}, c # d
               PROVE  ~Connected((E \cup {new}) \ {{c, d}}, c, d)
  BY DEF Acyclic
<1> DEFINE old == {c, d}
<1>2. CASE old = new
  <2>1. ~Connected(E, c, d)
    BY <1>2, ConnectedSymmetric
  <2>2. (E \cup {new}) \ {old} \subseteq E
    BY <1>2
  <2>3. QED
    BY <2>1, <2>2, ConnectedMonotone
<1>3. CASE old # new
  <2> DEFINE rest == E \ {old}
  <2>1. old \in E /\ (E \cup {new}) \ {old} = rest \cup {new}
    BY <1>1, <1>3
  <2>2. PICK S \in ClosedSets(rest) : c \in S /\ d \notin S
    <3>1. ~Connected(rest, c, d)
      BY <2>1, <1>1 DEF Acyclic
    <3>2. QED
      BY <3>1, SeparatedByClosedSet
  <2>3. PICK A \in ClosedSets(E) : a \in A /\ b \notin A
    BY SeparatedByClosedSet
  <2>4. rest \in SUBSET Edges
    OBVIOUS
  <2>5. A \in ClosedSets(rest) /\ Nodes \ A \in ClosedSets(rest)
    BY <2>4, ClosedSetsAntitone, ClosedSetAlgebra
  <2>6. (c \in A /\ d \in A) \/ (c \notin A /\ d \notin A)
    BY <2>1 DEF ClosedSets
  <2>7. \E T \in ClosedSets(rest) : c \in T /\ d \notin T /\ (a \in T <=> b \in T)
    <3>1. S \cap A \in ClosedSets(rest) /\ S \cup A \in ClosedSets(rest)
      BY <2>4, <2>5, ClosedSetAlgebra
    <3>2. /\ S \cap (Nodes \ A) \in ClosedSets(rest)
          /\ S \cup (Nodes \ A) \in ClosedSets(rest)
      BY <2>4, <2>5, ClosedSetAlgebra
    <3>3. CASE c \in A /\ d \in A
      <4>1. CASE a \in S
        BY <4>1, <3>2, <3>3, <2>2, <2>3
      <4>2. CASE a \notin S
        BY <4>2, <3>1, <3>3, <2>2, <2>3
      <4>3. QED
        BY <4>1, <4>2
    <3>4. CASE c \notin A /\ d \notin A
      <4>1. CASE b \in S
        BY <4>1, <3>1, <3>4, <2>2, <2>3
      <4>2. CASE b \notin S
        BY <4>2, <3>2, <3>4, <2>2, <2>3
      <4>3. QED
        BY <4>1, <4>2
    <3>5. QED
      BY <2>6, <3>3, <3>4
  <2>8. PICK T \in ClosedSets(rest) : c \in T /\ d \notin T /\ (a \in T <=> b \in T)
    BY <2>7
  <2>9. T \in ClosedSets(rest \cup {new})
    BY <2>8, ClosedSetAddEdge
  <2>10. ~Connected(rest \cup {new}, c, d)
    BY <2>8, <2>9, SeparatedByClosedSet
  <2>11. QED
    BY <2>1, <2>10
<1>4. QED
  BY <1>2, <1>3

\* The tree of a vertex is itself a closed set and holds the vertex.
LEMMA ComponentClosed ==
    ASSUME NEW E \in SUBSET Edges, NEW u \in Nodes
    PROVE  Component(E, u) \in ClosedSets(E) /\ u \in Component(E, u)
<1>1. ASSUME NEW e \in E, NEW x \in e, x \in Component(E, u), NEW y \in e
      PROVE  y \in Component(E, u)
  <2>1. y \in Nodes
    BY DEF Edges
  <2>2. ASSUME NEW S \in ClosedSets(E), u \in S
        PROVE  y \in S
    BY <1>1, <2>2 DEF Component, ClosedSets
  <2>3. QED
    BY <2>1, <2>2 DEF Component
<1>2. ASSUME NEW e \in E
      PROVE  e \subseteq Component(E, u) \/ e \cap Component(E, u) = {}
  BY <1>1
<1>3. Component(E, u) \subseteq Nodes /\ u \in Component(E, u)
  BY DEF Component
<1>4. QED
  BY <1>2, <1>3 DEF ClosedSets

\* A larger graph has larger trees.
LEMMA ComponentMonotone ==
    ASSUME NEW E, NEW F, E \subseteq F, NEW u \in Nodes
    PROVE  Component(E, u) \subseteq Component(F, u)
  BY ConnectedMonotone DEF Connected, Component

LEMMA EdgesFinite == IsFiniteSet(Edges)
  BY NodesAssumption, FS_SUBSET, FS_Subset DEF Edges

\* In a forest, if neither removing f nor removing other edges separates a and b,
\* removing both does not.
LEMMA DropOneMore ==
    ASSUME NEW F \in SUBSET Edges, Acyclic(F), NEW G \in SUBSET F, NEW f \in G,
           NEW a \in Nodes, NEW b \in Nodes,
           Connected(G, a, b), Connected(F \ {f}, a, b)
    PROVE  Connected(G \ {f}, a, b)
<1>1. SUFFICES ASSUME ~Connected(G \ {f}, a, b)
               PROVE  FALSE
  OBVIOUS
<1> DEFINE rest == G \ {f}
<1>2. PICK S \in ClosedSets(rest) : a \in S /\ b \notin S
  BY <1>1, SeparatedByClosedSet
<1>3. rest \in SUBSET Edges /\ rest \subseteq F \ {f} /\ G = rest \cup {f}
  OBVIOUS
<1>4. PICK c \in Nodes, d \in Nodes : f = {c, d} /\ c # d /\ d \notin S
  <2>1. PICK x \in Nodes, y \in Nodes : x # y /\ f = {x, y}
    BY DEF Edges
  <2>2. CASE x \in S /\ y \in S
    <3>1. S \in ClosedSets(G)
      BY <2>1, <2>2, <1>3, <1>2, ClosedSetAddEdge
    <3>2. QED
      BY <3>1, <1>2, SeparatedByClosedSet
  <2>3. CASE y \notin S
    BY <2>1, <2>3
  <2>4. CASE x \notin S
    <3>1. f = {y, x} /\ y # x
      BY <2>1
    <3>2. QED
      BY <3>1, <2>4
  <2>5. QED
    BY <2>2, <2>3, <2>4
<1>5. PICK T \in ClosedSets(F \ {f}) : c \in T /\ d \notin T
  <2>1. ~Connected(F \ {f}, c, d)
    BY <1>4 DEF Acyclic
  <2>2. QED
    BY <2>1, SeparatedByClosedSet
<1>6. T \in ClosedSets(rest) /\ Nodes \ T \in ClosedSets(rest)
  BY <1>3, <1>5, ClosedSetsAntitone, ClosedSetAlgebra
<1>7. (a \in T /\ b \in T) \/ (a \notin T /\ b \notin T)
  <2>1. F \ {f} \in SUBSET Edges
    OBVIOUS
  <2>2. Connected(F \ {f}, b, a)
    BY <2>1, ConnectedSymmetric
  <2>3. QED
    BY <2>2, SeparatedByClosedSet
<1>8. c \in S
  <2>1. SUFFICES ASSUME c \notin S PROVE FALSE
    OBVIOUS
  <2>2. S \in ClosedSets(G)
    BY <2>1, <1>2, <1>3, <1>4, ClosedSetAddEdge
  <2>3. QED
    BY <2>2, <1>2, SeparatedByClosedSet
<1>9. \E U \in ClosedSets(rest) : a \in U /\ b \notin U /\ (c \in U <=> d \in U)
  <2>1. S \cup (Nodes \ T) \in ClosedSets(rest) /\ S \cap (Nodes \ T) \in ClosedSets(rest)
    BY <1>2, <1>3, <1>6, ClosedSetAlgebra
  <2>2. CASE a \in T /\ b \in T
    BY <2>1, <2>2, <1>2, <1>4, <1>5, <1>8
  <2>3. CASE a \notin T /\ b \notin T
    BY <2>1, <2>3, <1>2, <1>4, <1>5, <1>8
  <2>4. QED
    BY <1>7, <2>2, <2>3
<1>10. PICK U \in ClosedSets(rest) : a \in U /\ b \notin U /\ (c \in U <=> d \in U)
  BY <1>9
<1>11. U \in ClosedSets(rest \cup {{c, d}})
  BY <1>10, ClosedSetAddEdge
<1>12. U \in ClosedSets(G)
  BY <1>11, <1>3, <1>4
<1>13. QED
  BY <1>10, <1>12, SeparatedByClosedSet

\* Removing edges off the path, all of them at once, leaves the path.
LEMMA DropOffPath ==
    ASSUME NEW F \in SUBSET Edges, Acyclic(F), NEW a \in Nodes, NEW b \in Nodes,
           Connected(F, a, b),
           NEW Q \in SUBSET F, \A f \in Q : Connected(F \ {f}, a, b)
    PROVE  Connected(F \ Q, a, b)
<1> DEFINE bad == {R \in SUBSET Q : ~Connected(F \ R, a, b)}
<1>1. SUFFICES ASSUME bad # {}
               PROVE  FALSE
  OBVIOUS
<1>2. IsFiniteSet(Q)
  BY EdgesFinite, FS_Subset
<1>3. PICK R \in bad : \A P \in bad : ~(<<P, R>> \in StrictSubsetOrdering(Q))
  <2>1. bad \subseteq FiniteSubsetsOf(Q)
    BY <1>2, FS_FiniteSubsetsOfFinite
  <2>2. IsWellFoundedOn(StrictSubsetOrdering(Q), FiniteSubsetsOf(Q))
    BY FS_StrictSubsetOrderingWellFounded
  <2>3. QED
    BY <1>1, <2>1, <2>2, WFMin
<1>4. PICK f \in R : TRUE
  <2>1. R # {}
    BY <1>3
  <2>2. QED
    BY <2>1
<1> DEFINE P == R \ {f}
<1>5. <<P, R>> \in StrictSubsetOrdering(Q)
  BY <1>3, <1>4 DEF StrictSubsetOrdering
<1>6. Connected(F \ P, a, b)
  BY <1>3, <1>5
<1>7. F \ P \in SUBSET F /\ f \in F \ P /\ (F \ P) \ {f} = F \ R
  BY <1>3, <1>4
<1>8. Connected(F \ {f}, a, b)
  BY <1>3, <1>4
<1>9. Connected((F \ P) \ {f}, a, b)
  BY <1>6, <1>7, <1>8, DropOneMore
<1>10. QED
  BY <1>3, <1>7, <1>9

\* Vertices connected in a forest but not in a part of it have an edge of their path
\* outside that part.
LEMMA PathLeavesPart ==
    ASSUME NEW F \in SUBSET Edges, Acyclic(F), NEW H \in SUBSET F,
           NEW a \in Nodes, NEW b \in Nodes, Connected(F, a, b), ~Connected(H, a, b)
    PROVE  \E e \in F \ H : e \in PathEdges(F, a, b)
<1>1. SUFFICES ASSUME \A e \in F \ H : Connected(F \ {e}, a, b)
               PROVE  FALSE
  BY DEF PathEdges
<1> DEFINE Q == F \ H
<1>2. Connected(F \ Q, a, b)
  BY <1>1, DropOffPath
<1>3. F \ Q = H
  OBVIOUS
<1>4. QED
  BY <1>2, <1>3

\* The ends of an edge are in one tree.
LEMMA EdgeConnects ==
    ASSUME NEW F, NEW a \in Nodes, NEW b \in Nodes, {a, b} \in F
    PROVE  Connected(F, a, b)
<1>1. \A S \in ClosedSets(F) : a \in S => b \in S
  BY DEF ClosedSets
<1>2. QED
  BY <1>1, SeparatedByClosedSet

\* A closed set holds all of a tree or nothing of it.
LEMMA SameSide ==
    ASSUME NEW E \in SUBSET Edges, NEW S \in ClosedSets(E),
           NEW u \in Nodes, NEW v \in Nodes, Connected(E, u, v)
    PROVE  u \in S <=> v \in S
<1>1. u \in S => v \in S
  BY SeparatedByClosedSet
<1>2. ASSUME u \notin S, v \in S
      PROVE  FALSE
  <2>1. Nodes \ S \in ClosedSets(E)
    BY ClosedSetAlgebra
  <2>2. QED
    BY <1>2, <2>1, SeparatedByClosedSet
<1>3. QED
  BY <1>1, <1>2

\* An edge between other trees does not change the tree of w.
LEMMA UntouchedTree ==
    ASSUME NEW E \in SUBSET Edges, NEW D \in SUBSET E, NEW a, NEW b,
           E \subseteq D \cup {{a, b}}, NEW w \in Nodes,
           a \notin Component(D, w), b \notin Component(D, w)
    PROVE  Component(E, w) = Component(D, w)
<1> DEFINE tree == Component(D, w)
<1>1. D \in SUBSET Edges
  OBVIOUS
<1>2. tree \in ClosedSets(D) /\ w \in tree
  BY <1>1, ComponentClosed
<1>3. tree \in ClosedSets(E)
  <2>1. tree \in ClosedSets(D \cup {{a, b}})
    BY <1>2, ClosedSetAddEdge
  <2>2. QED
    BY <2>1, ClosedSetsAntitone
<1>4. Component(E, w) \subseteq tree
  BY <1>2, <1>3 DEF Component
<1>5. tree \subseteq Component(E, w)
  BY ComponentMonotone
<1>6. QED
  BY <1>4, <1>5

\* Exchanging an edge of the path between a and b for the edge {a, b} leaves every tree
\* with the vertices it has.
LEMMA SwapKeepsTrees ==
    ASSUME NEW F \in SUBSET Edges, NEW f \in F, NEW a \in Nodes, NEW b \in Nodes,
           Connected(F, a, b), ~Connected(F \ {f}, a, b), NEW w \in Nodes
    PROVE  Component((F \ {f}) \cup {{a, b}}, w) = Component(F, w)
<1> DEFINE rest == F \ {f}
           swapped == rest \cup {{a, b}}
<1>1. rest \in SUBSET Edges /\ F = rest \cup {f}
  OBVIOUS
<1>2. PICK T \in ClosedSets(rest) : a \in T /\ b \notin T
  BY SeparatedByClosedSet
<1>3. ASSUME NEW S \in ClosedSets(F)
      PROVE  S \in ClosedSets(swapped)
  <2>1. S \in ClosedSets(rest)
    BY ClosedSetsAntitone
  <2>2. QED
    BY <2>1, SameSide, ClosedSetAddEdge
<1>4. ASSUME NEW S \in ClosedSets(swapped), S \notin ClosedSets(F)
      PROVE  FALSE
  <2>1. S \in ClosedSets(rest)
    BY ClosedSetsAntitone
  <2>2. a \in S <=> b \in S
    <3>1. {a, b} \in swapped
      OBVIOUS
    <3>2. {a, b} \subseteq S \/ {a, b} \cap S = {}
      BY <3>1 DEF ClosedSets
    <3>3. QED
      BY <3>2
  <2>3. PICK x \in Nodes, y \in Nodes : x # y /\ f = {x, y}
    BY DEF Edges
  <2>4. PICK c \in Nodes, d \in Nodes : f = {c, d} /\ c \in S /\ d \notin S
    <3>1. ~(x \in S <=> y \in S)
      BY <1>1, <1>4, <2>1, <2>3, ClosedSetAddEdge
    <3>2. f = {y, x}
      BY <2>3
    <3>3. QED
      BY <2>3, <3>1, <3>2
  <2>5. ASSUME NEW U \in ClosedSets(rest), a \in U, b \notin U, c \in U <=> d \in U
        PROVE  FALSE
    <3>1. U \in ClosedSets(rest \cup {{c, d}})
      BY <2>5, ClosedSetAddEdge
    <3>2. U \in ClosedSets(F)
      BY <1>1, <2>4, <3>1
    <3>3. QED
      BY <2>5, <3>2, SeparatedByClosedSet
  <2>6. /\ T \cup S \in ClosedSets(rest) /\ T \cap S \in ClosedSets(rest)
        /\ Nodes \ S \in ClosedSets(rest)
    BY <1>1, <1>2, <2>1, ClosedSetAlgebra
  <2>7. /\ T \cup (Nodes \ S) \in ClosedSets(rest)
        /\ T \cap (Nodes \ S) \in ClosedSets(rest)
    BY <1>1, <1>2, <2>6, ClosedSetAlgebra
  <2>8. ~(c \in T <=> d \in T)
    BY <1>2, <2>5
  <2>9. CASE a \in S /\ c \in T
    BY <1>2, <2>2, <2>4, <2>5, <2>7, <2>8, <2>9
  <2>10. CASE a \in S /\ c \notin T
    BY <1>2, <2>2, <2>4, <2>5, <2>6, <2>8, <2>10
  <2>11. CASE a \notin S /\ c \in T
    BY <1>2, <2>2, <2>4, <2>5, <2>7, <2>8, <2>11
  <2>12. CASE a \notin S /\ c \notin T
    BY <1>2, <2>2, <2>4, <2>5, <2>6, <2>8, <2>12
  <2>13. QED
    BY <2>9, <2>10, <2>11, <2>12
<1>5. ClosedSets(swapped) = ClosedSets(F)
  BY <1>3, <1>4
<1>6. QED
  BY <1>5 DEF Component

\* Two vertices of one tree have the same tree.
LEMMA SameTree ==
    ASSUME NEW E \in SUBSET Edges, NEW u \in Nodes, NEW v \in Nodes, u \in Component(E, v)
    PROVE  Component(E, u) = Component(E, v)
<1>1. Connected(E, v, u)
  BY DEF Connected
<1>2. \A S \in ClosedSets(E) : v \in S <=> u \in S
  BY <1>1, SameSide
<1>3. QED
  BY <1>2 DEF Component


\* A tree that no edge of the graph leaves is a component of the graph.
LEMMA CutlessTree ==
    ASSUME NEW G \in SUBSET Edges, NEW F \in SUBSET G, NEW v \in Nodes,
           CutOf(G, Component(F, v)) = {}
    PROVE  Component(F, v) = Component(G, v)
<1> DEFINE tree == Component(F, v)
<1>1. tree \in ClosedSets(G) /\ v \in tree
  <2>1. \A e \in G : e \subseteq tree \/ e \cap tree = {}
    BY DEF CutOf
  <2>2. tree \subseteq Nodes /\ v \in tree
    BY DEF Component
  <2>3. QED
    BY <2>1, <2>2 DEF ClosedSets
<1>2. Component(G, v) \subseteq tree
  BY <1>1 DEF Component
<1>3. QED
  BY <1>2, ComponentMonotone


-------------------------------------------------------------------------------
\* A set of natural numbers has a least element.
LEMMA LeastNumber ==
    ASSUME NEW S \in SUBSET Nat, S # {}
    PROVE  \E m \in S : \A k \in S : m <= k
<1>1. PICK m \in S : \A k \in S : ~(<<k, m>> \in OpToRel(<, Nat))
  BY NatLessThanWellFounded, WFMin
<1>2. \A k \in S : ~(k < m)
  BY <1>1 DEF OpToRel
<1>3. QED
  BY <1>2

\* Two disjoint parts of a finite set are together no larger than the set.
LEMMA DisjointParts ==
    ASSUME NEW S, IsFiniteSet(S), NEW T \in SUBSET S, NEW U \in SUBSET S, T \cap U = {}
    PROVE  /\ Cardinality(T) \in Nat /\ Cardinality(U) \in Nat /\ Cardinality(S) \in Nat
           /\ Cardinality(T) + Cardinality(U) <= Cardinality(S)
<1>1. IsFiniteSet(T) /\ IsFiniteSet(U)
  BY FS_Subset
<1>2. Cardinality(T) \in Nat /\ Cardinality(U) \in Nat /\ Cardinality(S) \in Nat
  BY <1>1, FS_CardinalityType
<1>3. Cardinality(T \cup U) = Cardinality(T) + Cardinality(U) - Cardinality(T \cap U)
  BY <1>1, FS_Union
<1>4. Cardinality(T \cap U) = 0
  BY FS_EmptySet
<1>5. Cardinality(T \cup U) <= Cardinality(S)
  BY FS_Subset
<1>6. QED
  BY <1>2, <1>3, <1>4, <1>5

=============================================================================
