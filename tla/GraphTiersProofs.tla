-------------------------- MODULE GraphTiersProofs --------------------------
(***************************************************************************)
(* The safety properties of GraphTiers, for every set of vertices, every   *)
(* number of tiers and sketches that may or may not fail; and what it      *)
(* achieves when every sketch gives an edge: refresh() leaves no isolated  *)
(* tree anywhere, although it only looks at the trees of the two           *)
(* endpoints.                                                              *)
(***************************************************************************)
EXTENDS GraphTiers, ForestProofs

LEMMA TiersFacts == /\ Top \in Nat /\ 0 \in Tiers /\ Top \in Tiers
                    /\ \A i \in Tiers : i \in Nat /\ i <= Top
  BY NumTiersAssumption DEF Tiers, Top

LEMMA EdgeFacts == /\ NoEdge \notin Edges
                   /\ \A a, b \in Nodes : a # b => {a, b} \in Edges
                   /\ \A a, b \in Nodes : {a, b} \in Edges => a # b
                   /\ \A e \in Edges : \E a, b \in Nodes : a # b /\ e = {a, b}
  BY DEF Edges, NoEdge

LEMMA ToggleType == \A S \in SUBSET Edges : \A e \in Edges : Toggle(S, e) \in SUBSET Edges
  BY DEF Toggle

LEMMA ReturnType == ASSUME Return
                    PROVE  /\ update' \in Updates \cup {NoUpdate}
                           /\ (phase' = "idle" <=> update' = NoUpdate)
                           /\ phase' \in {"idle", "sketches", "refresh", "evict", "grow"}
                           /\ tier' \in Tiers /\ endpoint' \in {1, 2}
                           /\ adding' \in Edges \cup {NoEdge}
                           /\ evicting' \in Edges \cup {NoEdge}
                           /\ todo' \in SUBSET Tiers
                           /\ root_nodes' \in [Tiers -> {<<>>} \cup ((SUBSET Nodes) \X (SUBSET Nodes))]
  BY TiersFacts DEF Return, NoRoots

LEMMA NextEndpointType == ASSUME TypeOK, phase # "idle", NextEndpoint
                    PROVE  /\ update' \in Updates \cup {NoUpdate}
                           /\ (phase' = "idle" <=> update' = NoUpdate)
                           /\ phase' \in {"idle", "sketches", "refresh", "evict", "grow"}
                           /\ tier' \in Tiers /\ endpoint' \in {1, 2}
                           /\ adding' \in Edges \cup {NoEdge}
                           /\ evicting' \in Edges \cup {NoEdge}
                           /\ todo' \in SUBSET Tiers
                           /\ root_nodes' \in [Tiers -> {<<>>} \cup ((SUBSET Nodes) \X (SUBSET Nodes))]
<1>1. CASE endpoint = 2 /\ tier + 1 >= Top
  BY <1>1, ReturnType DEF NextEndpoint
<1>2. CASE ~(endpoint = 2 /\ tier + 1 >= Top)
  <2>1. tier' \in Tiers /\ endpoint' \in {1, 2}
    BY <1>2, TiersFacts DEF NextEndpoint, TypeOK, Tiers, Top
  <2>2. QED
    BY <1>2, <2>1 DEF NextEndpoint, TypeOK
<1>3. QED
  BY <1>1, <1>2

\* The type invariant is preserved by every step.
LEMMA TypeStep == ASSUME TypeOK, ControlInv, [Next]_vars
                  PROVE  TypeOK'
<1>1. ASSUME NEW src \in Nodes, NEW dst \in Nodes, Update(src, dst)
      PROVE  TypeOK'
  <2>1. {src, dst} \in Edges
    BY <1>1, EdgeFacts DEF Update, LctCut
  <2>2. graph' \in SUBSET Edges
    BY <1>1, <2>1, ToggleType DEF Update, LctCut, TypeOK
  <2>3. lct' \in [Edges -> Tiers]
    BY <1>1, <2>1, TiersFacts DEF Update, LctCut, TypeOK
  <2>4. update' \in Updates /\ update' # NoUpdate
    BY <1>1 DEF Update, LctCut, Updates, NoUpdate
  <2>5. QED
    BY <1>1, <2>2, <2>3, <2>4 DEF Update, LctCut, TypeOK
<1>2. ASSUME NEW i \in Tiers, UpdateTier(i)
      PROVE  TypeOK'
  <2>1. update \in Updates
    BY <1>2 DEF UpdateTier, UpdatedSketches, TypeOK
  <2>2. ett' \in [Tiers -> SUBSET Edges]
    BY <1>2 DEF UpdateTier, UpdatedSketches, TypeOK, EttCut
  <2>3. {update.src, update.dst} \in Edges
    BY <1>2, <2>1, EdgeFacts DEF UpdateTier, UpdatedSketches, ControlInv, Updates
  <2>4. sketch' \in [Tiers -> [Nodes -> SUBSET Edges]]
    BY <1>2, <2>3, ToggleType DEF UpdateTier, UpdatedSketches, TypeOK
  <2>5. root_nodes' \in [Tiers -> {<<>>} \cup ((SUBSET Nodes) \X (SUBSET Nodes))]
    BY <1>2 DEF UpdateTier, UpdatedSketches, TypeOK, Component
  <2>6. QED
    BY <1>2, <2>2, <2>4, <2>5 DEF UpdateTier, UpdatedSketches, TypeOK, loops
<1>3. ASSUME CheckIsolated
      PROVE  TypeOK'
  <2>1. CASE Return
    BY <1>3, <2>1, ReturnType DEF CheckIsolated, TypeOK, forests
  <2>2. CASE ~Return
    <3>1. phase' = "refresh" /\ root_nodes' = NoRoots /\ UNCHANGED <<loops, adding, evicting, todo>>
      BY <1>3, <2>2 DEF CheckIsolated
    <3>2. QED
      BY <1>3, <3>1 DEF CheckIsolated, TypeOK, forests, loops, NoRoots
  <2>3. QED
    BY <2>1, <2>2
<1>4. ASSUME RefreshEndpoint
      PROVE  TypeOK'
  <2>1. CASE NextEndpoint
    BY <1>4, <2>1, NextEndpointType DEF RefreshEndpoint, EvictTiers, GrowTiers, TypeOK, forests
  <2>2. CASE ~NextEndpoint
    <3>1. PICK a \in Nodes, b \in Nodes :
             /\ {a, b} \in Aggregate(tier, Component(ett[tier], EndpointOf(endpoint)))
             /\ adding' = {a, b}
             /\ \/ /\ evicting' \in MaxPathEdges(a, b)
                   /\ phase' = "evict"
                   /\ todo' = lct[evicting'] .. Top
                \/ /\ phase' = "grow"
                   /\ todo' = tier + 1 .. Top
                   /\ UNCHANGED evicting
             /\ UNCHANGED <<loops, root_nodes>>
      BY <1>4, <2>2 DEF RefreshEndpoint, EvictTiers, GrowTiers, Samples, NoEdge
    <3>2. adding' \in Edges
      BY <3>1 DEF Aggregate
    <3>3. evicting' \in Edges \cup {NoEdge}
      BY <3>1 DEF MaxPathEdges, PathEdges, LctEdges, TypeOK
    <3>4. phase' = "evict" => evicting' \in Edges
      BY <3>1 DEF MaxPathEdges, PathEdges, LctEdges, TypeOK
    <3>5. todo' \in SUBSET Tiers
      BY <3>1, <3>4, TiersFacts DEF TypeOK, Tiers, Top
    <3>6. QED
      BY <1>4, <3>1, <3>2, <3>3, <3>5 DEF RefreshEndpoint, EvictTiers, GrowTiers, TypeOK, forests, loops
  <2>3. QED
    BY <2>1, <2>2
<1>5. ASSUME NEW i \in Tiers, EvictTier(i)
      PROVE  TypeOK'
  BY <1>5 DEF EvictTier, TypeOK, EttCut, loops
<1>6. ASSUME EvictLct
      PROVE  TypeOK'
  <2>1. todo' \in SUBSET Tiers
    BY <1>6 DEF EvictLct, LctCut, GrowTiers, TypeOK, Tiers, Top
  <2>2. lct' \in [Edges -> Tiers]
    BY <1>6, TiersFacts DEF EvictLct, LctCut, GrowTiers, TypeOK
  <2>3. QED
    BY <1>6, <2>1, <2>2 DEF EvictLct, LctCut, GrowTiers, TypeOK, loops
<1>7. ASSUME NEW i \in Tiers, GrowTier(i)
      PROVE  TypeOK'
  <2>1. ett' \in [Tiers -> SUBSET Edges]
    BY <1>7, EdgeFacts DEF GrowTier, TypeOK, EttLink, ControlInv
  <2>2. QED
    BY <1>7, <2>1 DEF GrowTier, TypeOK, loops
<1>8. ASSUME GrowLct
      PROVE  TypeOK'
  <2>1. tier + 1 \in Tiers
    BY <1>8, TiersFacts DEF GrowLct, LctLink, LinkWeight, ControlInv, TypeOK, Tiers, Top
  <2>2. lct' \in [Edges -> Tiers]
    BY <1>8, <2>1 DEF GrowLct, LctLink, LinkWeight, TypeOK
  <2>3. QED
    BY <1>8, <2>2, NextEndpointType DEF GrowLct, LctLink, LinkWeight, TypeOK
<1>9. CASE UNCHANGED vars
  BY <1>9 DEF vars, TypeOK, forests, loops
<1>10. QED
  BY <1>1, <1>2, <1>3, <1>4, <1>5, <1>6, <1>7, <1>8, <1>9 DEF Next

-------------------------------------------------------------------------------
LEMMA PairCardinality == ASSUME NEW a, NEW b, a # b
                         PROVE  Cardinality({a, b}) = 2
<1>1. IsFiniteSet({a}) /\ Cardinality({a}) = 1
  BY FS_Singleton
<1>2. Cardinality({a} \cup {b}) = Cardinality({a}) + 1
  BY <1>1, FS_AddElement
<1>3. Cardinality({a} \cup {b}) = 2
  BY <1>1, <1>2
<1>4. {a, b} = {a} \cup {b}
  OBVIOUS
<1>5. QED
  BY <1>3, <1>4, Zenon

\* The aggregate below a set of vertices is its cut when each sketch is the incidence
\* vector of its vertex: an edge with both ends in the set is counted twice.
LEMMA AggregateIsCut ==
    ASSUME NEW i, NEW g \in SUBSET Edges, NEW S \in SUBSET Nodes,
           \A v \in Nodes : sketch[i][v] = {e \in g : v \in e}
    PROVE  Aggregate(i, S) = CutOf(g, S)
<1>1. ASSUME NEW e \in Edges
      PROVE  Cardinality({v \in S : e \in sketch[i][v]}) % 2 = 1
                <=> e \in g /\ ~(e \subseteq S) /\ e \cap S # {}
  <2>1. PICK a \in Nodes, b \in Nodes : a # b /\ e = {a, b}
    BY EdgeFacts
  <2> DEFINE below == {v \in S : e \in sketch[i][v]}
  <2>2. below = IF e \in g THEN e \cap S ELSE {}
    OBVIOUS
  <2>3. Cardinality({}) = 0 /\ Cardinality({a}) = 1 /\ Cardinality({b}) = 1
    BY FS_EmptySet, FS_Singleton
  <2>4. Cardinality({a, b}) = 2
    BY <2>1, PairCardinality
  <2> HIDE DEF below
  <2> DEFINE crosses == e \in g /\ ~(e \subseteq S) /\ e \cap S # {}
             n == Cardinality(below)
  <2>5. (n = 1 /\ crosses) \/ ((n = 0 \/ n = 2) /\ ~crosses)
    <3>1. CASE e \notin g
      BY <2>2, <2>3, <3>1
    <3>2. CASE e \in g /\ a \in S /\ b \in S
      <4>1. below = {a, b} /\ ~crosses
        BY <2>1, <2>2, <3>2
      <4>2. QED
        BY <4>1, <2>4, Zenon
    <3>3. CASE e \in g /\ a \in S /\ b \notin S
      <4>1. below = {a} /\ crosses
        BY <2>1, <2>2, <3>3
      <4>2. QED
        BY <4>1, <2>3, Zenon
    <3>4. CASE e \in g /\ a \notin S /\ b \in S
      <4>1. below = {b} /\ crosses
        BY <2>1, <2>2, <3>4
      <4>2. QED
        BY <4>1, <2>3, Zenon
    <3>5. CASE e \in g /\ a \notin S /\ b \notin S
      <4>1. below = {} /\ ~crosses
        BY <2>1, <2>2, <3>5
      <4>2. QED
        BY <4>1, <2>3, Zenon
    <3>6. QED
      BY <3>1, <3>2, <3>3, <3>4, <3>5
  <2> HIDE DEF n
  <2>6. n % 2 = 1 <=> crosses
    BY <2>5
  <2>7. QED
    BY <2>6 DEF n, below
<1>2. QED
  BY <1>1 DEF Aggregate, CutOf

\* Every step keeps the sketches the incidence vectors of the vertices: the loop of
\* update() toggles one edge at both its ends, once in every tier.
LEMMA SketchStep == ASSUME TypeOK, ControlInv, SketchInv, [Next]_vars
                    PROVE  SketchInv'
<1>1. ASSUME NEW src \in Nodes, NEW dst \in Nodes, Update(src, dst)
      PROVE  SketchInv'
  <2>1. Toggle(Toggle(graph, {src, dst}), {src, dst}) = graph
    BY DEF Toggle
  <2>2. \A i \in Tiers : \A v \in Nodes : sketch[i][v] = {e \in graph : v \in e}
    BY <1>1 DEF Update, LctCut, SketchInv
  <2>3. /\ phase' = "sketches" /\ todo' = Tiers /\ sketch' = sketch
        /\ graph' = Toggle(graph, {src, dst}) /\ {update.src, update.dst}' = {src, dst}
    BY <1>1 DEF Update, LctCut
  <2>4. QED
    BY <2>1, <2>2, <2>3 DEF SketchInv
<1>2. ASSUME NEW i \in Tiers, UpdateTier(i)
      PROVE  SketchInv'
  <2> DEFINE e == {update.src, update.dst}
  <2>1. /\ phase = "sketches" /\ phase' = "sketches" /\ i \in todo /\ todo' = todo \ {i}
        /\ graph' = graph /\ update' = update
    BY <1>2 DEF UpdateTier, UpdatedSketches, loops
  <2>2. ASSUME NEW j \in Tiers, NEW v \in Nodes
        PROVE  sketch'[j][v] = {f \in IF phase' = "sketches" /\ j \in todo'
                                      THEN Toggle(graph', {update'.src, update'.dst})
                                      ELSE graph' : v \in f}
    <3>1. CASE j = i
      <4>1. sketch'[j][v] = IF v \in e THEN Toggle(sketch[i][v], e) ELSE sketch[i][v]
        BY <1>2, <3>1 DEF UpdateTier, UpdatedSketches, TypeOK
      <4>2. sketch[i][v] = {f \in Toggle(graph, e) : v \in f}
        BY <2>1 DEF SketchInv
      <4>3. sketch'[j][v] = {f \in graph : v \in f}
        BY <4>1, <4>2 DEF Toggle
      <4>4. QED
        BY <4>3, <3>1, <2>1
    <3>2. CASE j # i
      <4>1. sketch'[j] = sketch[j]
        BY <1>2, <3>2 DEF UpdateTier, UpdatedSketches, TypeOK
      <4>2. QED
        BY <4>1, <2>1, <3>2 DEF SketchInv
    <3>3. QED
      BY <3>1, <3>2
  <2>3. QED
    BY <2>2 DEF SketchInv
<1>3. CASE CheckIsolated
  BY <1>3 DEF CheckIsolated, Return, SketchInv
<1>4. CASE RefreshEndpoint
  BY <1>4 DEF RefreshEndpoint, EvictTiers, GrowTiers, NextEndpoint, Return, SketchInv
<1>5. ASSUME NEW i \in Tiers, EvictTier(i) \/ GrowTier(i)
      PROVE  SketchInv'
  BY <1>5 DEF EvictTier, GrowTier, SketchInv
<1>6. CASE EvictLct \/ GrowLct
  BY <1>6 DEF EvictLct, LctCut, GrowTiers, GrowLct, LctLink, LinkWeight, NextEndpoint, Return, SketchInv
<1>7. CASE UNCHANGED vars
  BY <1>7 DEF vars, SketchInv
<1>8. QED
  BY <1>1, <1>2, <1>3, <1>4, <1>5, <1>6, <1>7 DEF Next

-------------------------------------------------------------------------------
LEMMA LctFacts == ASSUME TypeOK
                  PROVE  /\ LctEdges \in SUBSET Edges
                         /\ \A i : LctUpTo(i) \in SUBSET LctEdges
                         /\ \A e \in Edges : lct[e] \in Nat
  BY TiersFacts DEF TypeOK, LctEdges, LctUpTo, Tiers

\* A tree that does not grow in the next tier is a tree of the next tier.
LEMMA SameSizeSameTree ==
    ASSUME TypeOK, TiersMirrorLct, phase = "refresh", tier < Top, NEW v \in Nodes,
           GetSize(tier, v) = GetSize(tier + 1, v)
    PROVE  Component(ett[tier], v) = Component(LctUpTo(tier + 1), v)
<1>1. tier \in Tiers /\ tier + 1 \in Tiers
  BY TiersFacts DEF TypeOK, Tiers, Top
<1>2. ett[tier] = LctUpTo(tier) /\ ett[tier + 1] = LctUpTo(tier + 1)
  BY <1>1 DEF TiersMirrorLct, AwaitsCut, Expected
<1>3. LctUpTo(tier) \subseteq LctUpTo(tier + 1)
  BY <1>1, LctFacts, TiersFacts DEF LctUpTo, LctEdges
<1>4. Component(ett[tier], v) \subseteq Component(ett[tier + 1], v)
  BY <1>2, <1>3, ComponentMonotone
<1>5. IsFiniteSet(Component(ett[tier + 1], v))
  BY NodesAssumption, FS_Subset DEF Component
<1>6. Component(ett[tier], v) = Component(ett[tier + 1], v)
  BY <1>4, <1>5, FS_Subset DEF GetSize
<1>7. QED
  BY <1>2, <1>6

\* An edge sampled from a tree that did not grow is an edge of the graph between two
\* different trees of the next tier.
LEMMA SampledEdgeCrosses ==
    ASSUME TypeOK, SketchInv, TiersMirrorLct, phase = "refresh", tier < Top,
           NEW v \in Nodes, GetSize(tier, v) = GetSize(tier + 1, v),
           NEW a \in Nodes, NEW b \in Nodes,
           {a, b} \in Aggregate(tier, Component(ett[tier], v))
    PROVE  /\ a # b /\ {a, b} \in Edges /\ {a, b} \in graph
           /\ a \in Component(ett[tier], v) <=> b \notin Component(ett[tier], v)
           /\ ~Connected(LctUpTo(tier + 1), a, b)
<1> DEFINE tree == Component(ett[tier], v)
           next == LctUpTo(tier + 1)
<1>1. tier \in Tiers
  BY DEF TypeOK
<1>2. \A x \in Nodes : sketch[tier][x] = {e \in graph : x \in e}
  BY <1>1 DEF SketchInv
<1>3. tree \in SUBSET Nodes /\ graph \in SUBSET Edges
  BY DEF Component, TypeOK
<1>4. {a, b} \in CutOf(graph, tree)
  BY <1>2, <1>3, AggregateIsCut
<1>5. {a, b} \in graph /\ (a \in tree <=> b \notin tree)
  BY <1>4 DEF CutOf
<1>6. tree \in ClosedSets(next) /\ Nodes \ tree \in ClosedSets(next)
  <2>1. next \in SUBSET Edges
    BY LctFacts
  <2>2. tree = Component(next, v)
    BY SameSizeSameTree
  <2>3. QED
    BY <2>1, <2>2, ComponentClosed, ClosedSetAlgebra
<1>7. ~Connected(next, a, b)
  <2>1. CASE a \in tree
    BY <2>1, <1>5, <1>6, SeparatedByClosedSet
  <2>2. CASE a \notin tree
    BY <2>2, <1>5, <1>6, SeparatedByClosedSet
  <2>3. QED
    BY <2>1, <2>2
<1>8. QED
  BY <1>3, <1>5, <1>7, EdgeFacts

\* The edge cut to make room for a sampled edge separates its ends and is first held
\* by a tier above the one that is about to grow; the tiers that hold it all join the
\* ends.
LEMMA EvictedEdgeIsHigh ==
    ASSUME TypeOK, Acyclic(LctEdges), tier \in Nat, NEW a \in Nodes, NEW b \in Nodes,
           Connected(LctEdges, a, b), ~Connected(LctUpTo(tier + 1), a, b),
           NEW e \in MaxPathEdges(a, b)
    PROVE  /\ e \in LctEdges /\ e \in Edges
           /\ ~Connected(LctEdges \ {e}, a, b)
           /\ lct[e] > tier + 1
           /\ \A i \in Tiers : lct[e] <= i => Connected(LctUpTo(i), a, b)
<1>1. /\ e \in LctEdges /\ ~Connected(LctEdges \ {e}, a, b)
      /\ \A f \in PathEdges(LctEdges, a, b) : lct[f] <= lct[e]
  BY DEF MaxPathEdges, PathEdges
<1>2. PICK f \in LctEdges \ LctUpTo(tier + 1) : f \in PathEdges(LctEdges, a, b)
  BY LctFacts, PathLeavesPart
<1>3. f \in Edges /\ e \in Edges /\ lct[f] \in Nat /\ lct[e] \in Nat
  BY <1>1, <1>2, LctFacts
<1>4. lct[f] > tier + 1
  BY <1>2, <1>3 DEF LctUpTo
<1>5. lct[f] <= lct[e]
  BY <1>1, <1>2
<1>6. ASSUME NEW i \in Tiers, lct[e] <= i, ~Connected(LctUpTo(i), a, b)
      PROVE  FALSE
  <2>1. PICK g \in LctEdges \ LctUpTo(i) : g \in PathEdges(LctEdges, a, b)
    BY <1>6, LctFacts, PathLeavesPart
  <2>2. i \in Nat /\ lct[g] \in Nat
    BY <2>1, LctFacts, TiersFacts
  <2>3. lct[g] > i
    BY <2>1, <2>2 DEF LctUpTo
  <2>4. lct[g] <= lct[e]
    BY <1>1, <2>1
  <2>5. QED
    BY <1>3, <1>6, <2>2, <2>3, <2>4
<1>7. QED
  BY <1>1, <1>3, <1>4, <1>5, <1>6

\* What RefreshEndpoint does when it samples an edge.
SampleStep(a, b) ==
    /\ a # b /\ {a, b} \in Edges /\ {a, b} \in graph
    /\ LET tree == Component(ett[tier], EndpointOf(endpoint))
       IN  a \in tree <=> b \notin tree
    /\ adding' = {a, b}
    /\ \/ /\ phase' = "evict"
          /\ evicting' \in LctEdges
          /\ ~Connected(LctEdges \ {evicting'}, a, b)
          /\ lct[evicting'] > tier + 1
          /\ \A i \in Tiers : lct[evicting'] <= i => Connected(LctUpTo(i), a, b)
          /\ todo' = lct[evicting'] .. Top
       \/ /\ phase' = "grow"
          /\ ~Connected(LctEdges, a, b)
          /\ todo' = tier + 1 .. Top
    /\ UNCHANGED <<graph, ett, sketch, lct, update, tier, endpoint, root_nodes>>

LEMMA RefreshSamples ==
    ASSUME TypeOK, ControlInv, SketchInv, TiersMirrorLct, TierForests,
           RefreshEndpoint, ~NextEndpoint
    PROVE  \E a, b \in Nodes : SampleStep(a, b)
<1> DEFINE v == EndpointOf(endpoint)
<1>1. PICK e : /\ e \in IF GetSize(tier, v) # GetSize(tier + 1, v) THEN {NoEdge}
                         ELSE Samples(Aggregate(tier, Component(ett[tier], v)))
               /\ \E a, b \in Nodes :
                    /\ e = {a, b}
                    /\ adding' = e
                    /\ \/ /\ Connected(LctEdges, a, b)
                          /\ evicting' \in MaxPathEdges(a, b)
                          /\ phase' = "evict"
                          /\ todo' = lct[evicting'] .. Top
                       \/ /\ ~Connected(LctEdges, a, b)
                          /\ phase' = "grow"
                          /\ todo' = tier + 1 .. Top
                          /\ UNCHANGED evicting
                    /\ UNCHANGED <<loops, root_nodes>>
  BY DEF RefreshEndpoint, EvictTiers, GrowTiers
<1>2. PICK a \in Nodes, b \in Nodes :
                    /\ e = {a, b}
                    /\ adding' = e
                    /\ \/ /\ Connected(LctEdges, a, b)
                          /\ evicting' \in MaxPathEdges(a, b)
                          /\ phase' = "evict"
                          /\ todo' = lct[evicting'] .. Top
                       \/ /\ ~Connected(LctEdges, a, b)
                          /\ phase' = "grow"
                          /\ todo' = tier + 1 .. Top
                          /\ UNCHANGED evicting
                    /\ UNCHANGED <<loops, root_nodes>>
  BY <1>1
<1>3. phase = "refresh" /\ UNCHANGED <<graph, ett, lct, sketch>> /\ tier < Top
  BY DEF RefreshEndpoint, EvictTiers, GrowTiers, forests, ControlInv
<1>4. e # NoEdge
  BY <1>2 DEF NoEdge
<1>5. /\ GetSize(tier, v) = GetSize(tier + 1, v)
      /\ {a, b} \in Aggregate(tier, Component(ett[tier], v))
  BY <1>1, <1>2, <1>4 DEF Samples
<1>6. v \in Nodes
  BY <1>3 DEF TypeOK, EndpointOf, Updates
<1>7. /\ a # b /\ {a, b} \in Edges /\ {a, b} \in graph
      /\ a \in Component(ett[tier], v) <=> b \notin Component(ett[tier], v)
      /\ ~Connected(LctUpTo(tier + 1), a, b)
  BY <1>3, <1>5, <1>6, SampledEdgeCrosses
<1>8. tier \in Nat /\ Acyclic(LctEdges)
  BY TiersFacts DEF TypeOK, TierForests
<1>9. SampleStep(a, b)
  <2>1. CASE Connected(LctEdges, a, b)
    <3>1. evicting' \in MaxPathEdges(a, b)
      BY <1>2, <2>1
    <3>2. /\ evicting' \in LctEdges /\ ~Connected(LctEdges \ {evicting'}, a, b)
          /\ lct[evicting'] > tier + 1
          /\ \A i \in Tiers : lct[evicting'] <= i => Connected(LctUpTo(i), a, b)
      BY <1>7, <1>8, <2>1, <3>1, EvictedEdgeIsHigh
    <3>3. QED
      BY <1>2, <1>3, <1>7, <2>1, <3>2 DEF SampleStep, loops
  <2>2. CASE ~Connected(LctEdges, a, b)
    BY <1>2, <1>3, <1>7, <2>2 DEF SampleStep, loops
  <2>3. QED
    BY <2>1, <2>2
<1>10. QED
  BY <1>9

-------------------------------------------------------------------------------
LEMMA NextEndpointControl == ASSUME NextEndpoint, TypeOK, tier < Top
    PROVE  /\ phase' \in {"idle", "refresh"}
           /\ phase' = "idle" => tier' = 0
           /\ phase' = "refresh" => tier' < Top
<1>1. tier \in Nat /\ Top \in Nat /\ endpoint \in {1, 2}
  BY TiersFacts DEF TypeOK
<1>2. QED
  BY <1>1 DEF NextEndpoint, Return

\* The loop variables of refresh() stay within their loops.
LEMMA ControlStep == ASSUME IInv, [Next]_vars
                     PROVE  ControlInv'
<1> USE DEF IInv
<1>1. ASSUME NEW src \in Nodes, NEW dst \in Nodes, Update(src, dst)
      PROVE  ControlInv'
  BY <1>1 DEF Update, LctCut, ControlInv
<1>2. ASSUME NEW i \in Tiers, UpdateTier(i)
      PROVE  ControlInv'
  BY <1>2 DEF UpdateTier, UpdatedSketches, ControlInv, loops
<1>3. CASE CheckIsolated
  <2>1. CASE Return
    BY <2>1 DEF Return, ControlInv
  <2>2. CASE ~Return
    <3>1. phase' = "refresh" /\ tier' = tier /\ tier = 0 /\ IsolatedRoots # {}
      BY <1>3, <2>2 DEF CheckIsolated, loops, ControlInv
    <3>2. 0 < Top
      BY <3>1, TiersFacts DEF IsolatedRoots
    <3>3. QED
      BY <3>1, <3>2 DEF ControlInv
  <2>3. QED
    BY <2>1, <2>2
<1>4. CASE RefreshEndpoint
  <2>1. CASE NextEndpoint
    BY <1>4, <2>1, NextEndpointControl DEF RefreshEndpoint, EvictTiers, GrowTiers, ControlInv
  <2>2. CASE ~NextEndpoint
    <3>1. PICK a \in Nodes, b \in Nodes : SampleStep(a, b)
      BY <1>4, <2>2, RefreshSamples
    <3>2. tier < Top
      BY <1>4 DEF RefreshEndpoint, EvictTiers, GrowTiers, ControlInv
    <3>3. QED
      BY <3>1, <3>2 DEF SampleStep, ControlInv, LctEdges
  <2>3. QED
    BY <2>1, <2>2
<1>5. ASSUME NEW i \in Tiers, EvictTier(i) \/ GrowTier(i)
      PROVE  ControlInv'
  BY <1>5 DEF EvictTier, GrowTier, ControlInv, loops, LctEdges
<1>6. CASE EvictLct
  BY <1>6 DEF EvictLct, LctCut, GrowTiers, ControlInv, loops
<1>7. CASE GrowLct
  BY <1>7, NextEndpointControl DEF GrowLct, LctLink, LinkWeight, ControlInv
<1>8. CASE UNCHANGED vars
  BY <1>8 DEF vars, ControlInv, loops, forests, LctEdges
<1>9. QED
  BY <1>1, <1>2, <1>3, <1>4, <1>5, <1>6, <1>7, <1>8 DEF Next

\* Edges enter the link-cut forest from samples, which are edges of the graph, and
\* leave it when they leave the graph.
LEMMA LctInGraphStep == ASSUME IInv, [Next]_vars
                        PROVE  LctInGraph'
<1> USE DEF IInv
<1>1. ASSUME NEW src \in Nodes, NEW dst \in Nodes, Update(src, dst)
      PROVE  LctInGraph'
  <2> DEFINE e == {src, dst}
  <2>1. e \in Edges
    BY <1>1, EdgeFacts DEF Update, LctCut
  <2>2. CASE e \in graph
    <3>1. graph' = graph \ {e} /\ \A f \in Edges : lct'[f] = IF f = e THEN 0 ELSE lct[f]
      BY <1>1, <2>1, <2>2 DEF Update, LctCut, Toggle, LctEdges, TypeOK
    <3>2. QED
      BY <3>1 DEF LctInGraph, LctEdges
  <2>3. CASE e \notin graph
    BY <1>1, <2>3 DEF Update, LctCut, Toggle, LctInGraph, LctEdges
  <2>4. QED
    BY <2>2, <2>3
<1>2. ASSUME NEW i \in Tiers, UpdateTier(i) \/ EvictTier(i) \/ GrowTier(i)
      PROVE  LctInGraph'
  BY <1>2 DEF UpdateTier, UpdatedSketches, EvictTier, GrowTier, LctInGraph, LctEdges
<1>3. CASE CheckIsolated \/ RefreshEndpoint
  BY <1>3 DEF CheckIsolated, RefreshEndpoint, EvictTiers, GrowTiers, LctInGraph, LctEdges, forests
<1>4. CASE EvictLct
  BY <1>4 DEF EvictLct, LctCut, GrowTiers, LctInGraph, LctEdges, TypeOK
<1>5. CASE GrowLct
  BY <1>5 DEF GrowLct, LctLink, LinkWeight, LctInGraph, LctEdges, TypeOK, ControlInv
<1>6. CASE UNCHANGED vars
  BY <1>6 DEF vars, LctInGraph, LctEdges, forests
<1>7. QED
  BY <1>1, <1>2, <1>3, <1>4, <1>5, <1>6 DEF Next

\* What refresh() learned when it sampled stays true until it has linked the edge.
LEMMA RefreshStep == ASSUME IInv, [Next]_vars
                     PROVE  RefreshInv'
<1> USE DEF IInv
<1>1. ASSUME NEW src \in Nodes, NEW dst \in Nodes, Update(src, dst)
      PROVE  RefreshInv'
  BY <1>1 DEF Update, LctCut, RefreshInv
<1>2. ASSUME NEW i \in Tiers, UpdateTier(i)
      PROVE  RefreshInv'
  BY <1>2 DEF UpdateTier, UpdatedSketches, RefreshInv
<1>3. CASE CheckIsolated
  BY <1>3 DEF CheckIsolated, Return, RefreshInv
<1>4. CASE RefreshEndpoint
  <2>1. CASE NextEndpoint
    BY <2>1 DEF NextEndpoint, Return, RefreshInv
  <2>2. CASE ~NextEndpoint
    <3>1. PICK a \in Nodes, b \in Nodes : SampleStep(a, b)
      BY <1>4, <2>2, RefreshSamples
    <3>2. LctEdges' = LctEdges /\ LctEdges \in SUBSET Edges
      BY <3>1, LctFacts DEF SampleStep, LctEdges
    <3>3. LctEdges \ {evicting'} \in SUBSET Edges
      BY <3>2
    <3>4. ASSUME NEW c \in Nodes, NEW d \in Nodes, adding' = {c, d}
          PROVE  /\ phase' = "grow" => ~Connected(LctEdges, c, d)
                 /\ phase' = "evict" => /\ ~Connected(LctEdges \ {evicting'}, c, d)
                                        /\ lct[evicting'] > tier + 1
      <4>1. (c = a /\ d = b) \/ (c = b /\ d = a)
        BY <3>1, <3>4 DEF SampleStep
      <4>2. QED
        BY <3>1, <3>2, <3>3, <4>1, ConnectedSymmetric DEF SampleStep
    <3>5. lct' = lct /\ tier' = tier
      BY <3>1 DEF SampleStep
    <3>6. QED
      BY <3>2, <3>4, <3>5 DEF RefreshInv
  <2>3. QED
    BY <2>1, <2>2
<1>5. ASSUME NEW i \in Tiers, EvictTier(i) \/ GrowTier(i)
      PROVE  RefreshInv'
  BY <1>5 DEF EvictTier, GrowTier, RefreshInv, loops, LctEdges
<1>6. CASE EvictLct
  <2>1. LctEdges' = LctEdges \ {evicting}
    BY <1>6 DEF EvictLct, LctCut, GrowTiers, LctEdges, TypeOK
  <2>2. QED
    BY <1>6, <2>1 DEF EvictLct, LctCut, GrowTiers, RefreshInv
<1>7. CASE GrowLct
  BY <1>7 DEF GrowLct, LctLink, LinkWeight, NextEndpoint, Return, RefreshInv
<1>8. CASE UNCHANGED vars
  BY <1>8 DEF vars, RefreshInv, loops, forests, LctEdges
<1>9. QED
  BY <1>1, <1>2, <1>3, <1>4, <1>5, <1>6, <1>7, <1>8 DEF Next

-------------------------------------------------------------------------------
\* Outside the parallel loops every tier is the link-cut forest up to its weight.
LEMMA MirrorBetweenLoops ==
    ASSUME TiersMirrorLct, NEW i \in Tiers, ~AwaitsCut(i), phase \notin {"evict", "grow"}
    PROVE  ett[i] = LctUpTo(i)
  BY DEF TiersMirrorLct, Expected

\* A tier the growing loop has not reached does not join the ends of the sampled edge.
LEMMA GrowJoins ==
    ASSUME IInv, phase = "grow", NEW i \in todo, NEW a \in Nodes, NEW b \in Nodes,
           adding = {a, b}
    PROVE  /\ ~Connected(ett[i], a, b) /\ ~Connected(LctEdges, a, b)
           /\ a # b /\ ett[i] \in SUBSET Edges
<1>1. i \in Tiers
  BY DEF IInv, TypeOK
<1>2. ett[i] = LctUpTo(i)
  BY <1>1 DEF IInv, TiersMirrorLct, AwaitsCut, Expected
<1>3. ett[i] \subseteq LctEdges
  BY <1>2, LctFacts DEF IInv
<1>4. ~Connected(LctEdges, a, b)
  BY DEF IInv, RefreshInv
<1>5. QED
  BY <1>1, <1>3, <1>4, ConnectedMonotone, EdgeFacts DEF IInv, TypeOK, ControlInv

\* No step makes a tier and the link-cut forest diverge.
LEMMA MirrorStep == ASSUME IInv, [Next]_vars
                    PROVE  TiersMirrorLct'
<1>t. /\ ett \in [Tiers -> SUBSET Edges] /\ lct \in [Edges -> Tiers]
      /\ \A e \in Edges : lct[e] \in Nat
      /\ \A i \in Tiers : i \in Nat
      /\ tier \in Nat
  BY LctFacts, TiersFacts DEF IInv, TypeOK
<1>1. ASSUME NEW src \in Nodes, NEW dst \in Nodes, Update(src, dst)
      PROVE  TiersMirrorLct'
  <2> DEFINE e == {src, dst}
  <2>1. e \in Edges /\ phase = "idle"
    BY <1>1, EdgeFacts DEF Update, LctCut
  <2>2. ASSUME NEW i \in Tiers
        PROVE  ett[i] = LctUpTo(i)
    BY <2>1, MirrorBetweenLoops DEF IInv, AwaitsCut
  <2>3. CASE e \in graph
    <3>1. \A f \in Edges : lct'[f] = IF f = e THEN 0 ELSE lct[f]
      BY <1>1, <1>t, <2>1, <2>3 DEF Update, LctCut, LctEdges
    <3>2. \A i \in Tiers : LctUpTo(i)' = LctUpTo(i) \ {e}
      BY <3>1 DEF LctUpTo, LctEdges
    <3>3. \A i \in Tiers : AwaitsCut(i)' /\ Expected(i)' = LctUpTo(i)'
      BY <1>1, <2>3 DEF Update, LctCut, AwaitsCut, Expected
    <3>4. ett' = ett /\ {update.src, update.dst}' = e
      BY <1>1 DEF Update, LctCut
    <3>5. QED
      BY <2>2, <3>2, <3>3, <3>4 DEF TiersMirrorLct
  <2>4. CASE e \notin graph
    <3>1. lct' = lct /\ ett' = ett /\ \A i \in Tiers : ~AwaitsCut(i)' /\ Expected(i)' = LctUpTo(i)'
      BY <1>1, <2>4 DEF Update, LctCut, AwaitsCut, Expected
    <3>2. \A i \in Tiers : LctUpTo(i)' = LctUpTo(i)
      BY <3>1 DEF LctUpTo, LctEdges
    <3>3. QED
      BY <2>2, <3>1, <3>2 DEF TiersMirrorLct
  <2>5. QED
    BY <2>3, <2>4
<1>2. ASSUME NEW i \in Tiers, UpdateTier(i)
      PROVE  TiersMirrorLct'
  <2> DEFINE e == {update.src, update.dst}
  <2>1. /\ phase = "sketches" /\ phase' = "sketches" /\ i \in todo /\ todo' = todo \ {i}
        /\ lct' = lct /\ update' = update
        /\ ett' = [ett EXCEPT ![i] = IF update.type = "DELETE" /\ e \in ett[i]
                                     THEN ett[i] \ {e} ELSE ett[i]]
    BY <1>2 DEF UpdateTier, UpdatedSketches, loops, EttCut
  <2>2. \A j \in Tiers : Expected(j) = LctUpTo(j) /\ Expected(j)' = LctUpTo(j)
    BY <2>1 DEF Expected, LctUpTo, LctEdges
  <2>3. ASSUME NEW j \in Tiers
        PROVE  IF AwaitsCut(j)' THEN ett'[j] \ {e} = LctUpTo(j) ELSE ett'[j] = LctUpTo(j)
    <3>1. CASE j = i
      <4>1. ~AwaitsCut(j)'
        BY <2>1, <3>1 DEF AwaitsCut
      <4>2. ett'[j] = LctUpTo(j)
        BY <2>1, <2>2, <3>1, <1>t DEF IInv, TiersMirrorLct, AwaitsCut
      <4>3. QED
        BY <4>1, <4>2
    <3>2. CASE j # i
      <4>1. ett'[j] = ett[j] /\ (AwaitsCut(j)' <=> AwaitsCut(j))
        BY <2>1, <3>2, <1>t DEF AwaitsCut
      <4>2. QED
        BY <4>1, <2>2 DEF IInv, TiersMirrorLct
    <3>3. QED
      BY <3>1, <3>2
  <2>4. QED
    BY <2>1, <2>2, <2>3 DEF TiersMirrorLct
<1>3. ASSUME CheckIsolated \/ (RefreshEndpoint /\ NextEndpoint)
      PROVE  TiersMirrorLct'
  <2>1. /\ ett' = ett /\ lct' = lct /\ phase' \in {"idle", "refresh"}
        /\ phase \in {"sketches", "refresh"} /\ (phase = "sketches" => todo = {})
    BY <1>3 DEF CheckIsolated, RefreshEndpoint, EvictTiers, GrowTiers, NextEndpoint, Return, forests
  <2>2. ASSUME NEW i \in Tiers
        PROVE  /\ ett[i] = LctUpTo(i) /\ ~AwaitsCut(i)'
               /\ Expected(i)' = LctUpTo(i)
    <3>1. ~AwaitsCut(i) /\ ~AwaitsCut(i)'
      BY <2>1 DEF AwaitsCut
    <3>2. ett[i] = LctUpTo(i)
      BY <2>1, <3>1, MirrorBetweenLoops DEF IInv
    <3>3. Expected(i)' = LctUpTo(i)
      BY <2>1 DEF Expected, LctUpTo, LctEdges
    <3>4. QED
      BY <3>1, <3>2, <3>3
  <2>3. QED
    BY <2>1, <2>2 DEF TiersMirrorLct
<1>4. ASSUME RefreshEndpoint, ~NextEndpoint
      PROVE  TiersMirrorLct'
  <2>1. PICK a \in Nodes, b \in Nodes : SampleStep(a, b)
    BY <1>4, RefreshSamples DEF IInv
  <2>2. phase = "refresh" /\ phase' \in {"evict", "grow"} /\ ett' = ett /\ lct' = lct
    BY <1>4, <2>1 DEF RefreshEndpoint, EvictTiers, GrowTiers, SampleStep
  <2>3. ASSUME NEW i \in Tiers
        PROVE  ett[i] = LctUpTo(i) /\ ~AwaitsCut(i)' /\ Expected(i)' = LctUpTo(i)
    <3>1. ett[i] = LctUpTo(i)
      BY <2>2, MirrorBetweenLoops DEF IInv, AwaitsCut
    <3>2. CASE phase' = "evict"
      <4>1. todo' = lct'[evicting'] .. Top
        BY <2>1, <3>2 DEF SampleStep
      <4>2. lct'[evicting'] \in Nat
        BY <2>1, <2>2, <3>2, <1>t DEF SampleStep, LctEdges
      <4>3. ~(i >= lct'[evicting'] /\ i \notin todo')
        BY <4>1, <4>2, TiersFacts
      <4>4. QED
        BY <3>1, <3>2, <4>3, <2>2 DEF Expected, AwaitsCut, LctUpTo, LctEdges
    <3>3. CASE phase' = "grow"
      <4>1. todo' = tier + 1 .. Top /\ tier' = tier
        BY <2>1, <3>3 DEF SampleStep
      <4>2. ~(i > tier' /\ i \notin todo')
        BY <4>1, <1>t, TiersFacts
      <4>3. QED
        BY <3>1, <3>3, <4>2, <2>2 DEF Expected, AwaitsCut, LctUpTo, LctEdges
    <3>4. QED
      BY <2>2, <3>2, <3>3
  <2>4. QED
    BY <2>2, <2>3 DEF TiersMirrorLct
<1>5. ASSUME NEW i \in Tiers, EvictTier(i)
      PROVE  TiersMirrorLct'
  <2>1. /\ phase = "evict" /\ phase' = "evict" /\ i \in todo /\ todo' = todo \ {i}
        /\ lct' = lct /\ update' = update /\ evicting' = evicting
        /\ ett' = [ett EXCEPT ![i] = ett[i] \ {evicting}]
    BY <1>5 DEF EvictTier, loops, EttCut
  <2>2. i >= lct[evicting] /\ i \in todo
    BY <2>1, <1>t DEF IInv, ControlInv, LctEdges
  <2>3. ASSUME NEW j \in Tiers
        PROVE  ~AwaitsCut(j)' /\ ett'[j] = Expected(j)'
    <3>1. ~AwaitsCut(j) /\ ~AwaitsCut(j)'
      BY <2>1 DEF AwaitsCut
    <3>2. ett[j] = Expected(j)
      BY <3>1 DEF IInv, TiersMirrorLct
    <3>3. LctUpTo(j)' = LctUpTo(j)
      BY <2>1 DEF LctUpTo, LctEdges
    <3>4. CASE j = i
      BY <2>1, <2>2, <3>1, <3>2, <3>3, <3>4, <1>t DEF Expected
    <3>5. CASE j # i
      BY <2>1, <3>1, <3>2, <3>3, <3>5, <1>t DEF Expected
    <3>6. QED
      BY <3>1, <3>4, <3>5
  <2>4. QED
    BY <2>3 DEF TiersMirrorLct
<1>6. ASSUME EvictLct
      PROVE  TiersMirrorLct'
  <2>1. /\ phase = "evict" /\ phase' = "grow" /\ todo = {} /\ todo' = tier + 1 .. Top
        /\ tier' = tier /\ ett' = ett /\ evicting \in Edges
        /\ \A f \in Edges : lct'[f] = IF f = evicting THEN 0 ELSE lct[f]
    BY <1>6, <1>t DEF EvictLct, LctCut, GrowTiers, loops, IInv, ControlInv, LctEdges
  <2>2. ASSUME NEW i \in Tiers
        PROVE  ~AwaitsCut(i)' /\ ett'[i] = Expected(i)'
    <3>1. ~AwaitsCut(i) /\ ~AwaitsCut(i)'
      BY <2>1 DEF AwaitsCut
    <3>2. LctUpTo(i)' = LctUpTo(i) \ {evicting}
      BY <2>1 DEF LctUpTo, LctEdges
    <3>3. ett[i] = LctUpTo(i) \ {evicting}
      BY <2>1, <3>1, <1>t DEF IInv, TiersMirrorLct, Expected, LctUpTo
    <3>4. Expected(i)' = LctUpTo(i)'
      BY <2>1, <1>t, TiersFacts DEF Expected
    <3>5. QED
      BY <2>1, <3>1, <3>2, <3>3, <3>4
  <2>3. QED
    BY <2>2 DEF TiersMirrorLct
<1>7. ASSUME NEW i \in Tiers, GrowTier(i)
      PROVE  TiersMirrorLct'
  <2>1. PICK a \in Nodes, b \in Nodes :
            adding = {a, b} /\ ett' = [ett EXCEPT ![i] = EttLink(ett[i], a, b)]
    BY <1>7 DEF GrowTier
  <2>2. /\ phase = "grow" /\ phase' = "grow" /\ i \in todo /\ todo' = todo \ {i}
        /\ lct' = lct /\ update' = update /\ adding' = adding /\ tier' = tier
    BY <1>7 DEF GrowTier, loops
  <2>3. ett' = [ett EXCEPT ![i] = ett[i] \cup {adding}]
    BY <2>1, <2>2, GrowJoins DEF EttLink
  <2>4. i > tier
    BY <2>2, <1>t DEF IInv, ControlInv
  <2>5. ASSUME NEW j \in Tiers
        PROVE  ~AwaitsCut(j)' /\ ett'[j] = Expected(j)'
    <3>1. ~AwaitsCut(j) /\ ~AwaitsCut(j)'
      BY <2>2 DEF AwaitsCut
    <3>2. ett[j] = Expected(j)
      BY <3>1 DEF IInv, TiersMirrorLct
    <3>3. LctUpTo(j)' = LctUpTo(j)
      BY <2>2 DEF LctUpTo, LctEdges
    <3>4. CASE j = i
      BY <2>2, <2>3, <2>4, <3>1, <3>2, <3>3, <3>4, <1>t DEF Expected
    <3>5. CASE j # i
      BY <2>2, <2>3, <3>1, <3>2, <3>3, <3>5, <1>t DEF Expected
    <3>6. QED
      BY <3>1, <3>4, <3>5
  <2>6. QED
    BY <2>5 DEF TiersMirrorLct
<1>8. ASSUME GrowLct
      PROVE  TiersMirrorLct'
  <2>1. /\ phase = "grow" /\ phase' \in {"idle", "refresh"} /\ todo = {} /\ ett' = ett
        /\ adding \in Edges
        /\ \A f \in Edges : lct'[f] = IF f = adding THEN tier + 1 ELSE lct[f]
    BY <1>8, <1>t DEF GrowLct, LctLink, LinkWeight, NextEndpoint, Return, IInv, ControlInv
  <2>2. adding \notin LctEdges
    <3>1. PICK a \in Nodes, b \in Nodes : adding = {a, b}
      BY <2>1, EdgeFacts
    <3>2. ~Connected(LctEdges, a, b)
      BY <2>1, <3>1 DEF IInv, RefreshInv
    <3>3. QED
      BY <3>1, <3>2, EdgeConnects
  <2>3. ASSUME NEW i \in Tiers
        PROVE  ~AwaitsCut(i)' /\ ett'[i] = Expected(i)'
    <3>1. ~AwaitsCut(i) /\ ~AwaitsCut(i)'
      BY <2>1 DEF AwaitsCut
    <3>2. ett[i] = IF i > tier THEN LctUpTo(i) \cup {adding} ELSE LctUpTo(i)
      BY <2>1, <3>1, <1>t DEF IInv, TiersMirrorLct, Expected
    <3>3. LctUpTo(i)' = IF i > tier THEN LctUpTo(i) \cup {adding} ELSE LctUpTo(i)
      BY <2>1, <2>2, <1>t DEF LctUpTo, LctEdges
    <3>4. Expected(i)' = LctUpTo(i)'
      BY <2>1 DEF Expected
    <3>5. QED
      BY <2>1, <3>1, <3>2, <3>3, <3>4
  <2>4. QED
    BY <2>3 DEF TiersMirrorLct
<1>9. CASE UNCHANGED vars
  BY <1>9 DEF vars, forests, loops, IInv, TiersMirrorLct, AwaitsCut, Expected, LctUpTo, LctEdges
<1>10. QED
  BY <1>1, <1>2, <1>3, <1>4, <1>5, <1>6, <1>7, <1>8, <1>9 DEF Next

\* No step closes a cycle: cuts only remove edges, and an edge is linked between two
\* trees, in each tier and in the link-cut forest.
LEMMA ForestStep == ASSUME IInv, [Next]_vars
                    PROVE  TierForests'
<1>t. /\ ett \in [Tiers -> SUBSET Edges] /\ lct \in [Edges -> Tiers]
      /\ LctEdges \in SUBSET Edges /\ Acyclic(LctEdges)
      /\ \A i \in Tiers : Acyclic(ett[i])
  BY LctFacts DEF IInv, TypeOK, TierForests
<1>1. ASSUME NEW src \in Nodes, NEW dst \in Nodes, Update(src, dst)
      PROVE  TierForests'
  <2>1. LctEdges' \subseteq LctEdges /\ ett' = ett
    BY <1>1, <1>t DEF Update, LctCut, LctEdges
  <2>2. QED
    BY <2>1, <1>t, AcyclicSubset DEF TierForests
<1>2. ASSUME NEW i \in Tiers, UpdateTier(i) \/ EvictTier(i)
      PROVE  TierForests'
  <2>1. LctEdges' = LctEdges /\ \A j \in Tiers : ett'[j] \subseteq ett[j]
    BY <1>2, <1>t DEF UpdateTier, UpdatedSketches, EvictTier, EttCut, LctEdges
  <2>2. QED
    BY <2>1, <1>t, AcyclicSubset DEF TierForests
<1>3. CASE CheckIsolated \/ RefreshEndpoint
  BY <1>3, <1>t DEF CheckIsolated, RefreshEndpoint, EvictTiers, GrowTiers, forests, TierForests, LctEdges
<1>4. CASE EvictLct
  <2>1. LctEdges' \subseteq LctEdges /\ ett' = ett
    BY <1>4, <1>t DEF EvictLct, LctCut, GrowTiers, LctEdges
  <2>2. QED
    BY <2>1, <1>t, AcyclicSubset DEF TierForests
<1>5. ASSUME NEW i \in Tiers, GrowTier(i)
      PROVE  TierForests'
  <2>1. PICK a \in Nodes, b \in Nodes :
            adding = {a, b} /\ ett' = [ett EXCEPT ![i] = EttLink(ett[i], a, b)]
    BY <1>5 DEF GrowTier
  <2>2. /\ ~Connected(ett[i], a, b) /\ a # b /\ ett[i] \in SUBSET Edges
    BY <1>5, <2>1, GrowJoins DEF GrowTier
  <2>3. Acyclic(ett[i] \cup {{a, b}})
    BY <2>2, <1>t, AcyclicLink
  <2>4. \A j \in Tiers : ett'[j] = IF j = i THEN ett[i] \cup {{a, b}} ELSE ett[j]
    BY <2>1, <2>2, <1>t DEF EttLink
  <2>5. LctEdges' = LctEdges
    BY <1>5 DEF GrowTier, LctEdges
  <2>6. QED
    BY <2>3, <2>4, <2>5, <1>t DEF TierForests
<1>6. CASE GrowLct
  <2>1. phase = "grow" /\ ett' = ett /\ adding \in Edges
    BY <1>6 DEF GrowLct, LctLink, LinkWeight, IInv, ControlInv
  <2>2. PICK a \in Nodes, b \in Nodes : a # b /\ adding = {a, b}
    BY <2>1, EdgeFacts
  <2>3. ~Connected(LctEdges, a, b)
    BY <2>1, <2>2 DEF IInv, RefreshInv
  <2>4. Acyclic(LctEdges \cup {{a, b}})
    BY <2>2, <2>3, <1>t, AcyclicLink
  <2>5. LctEdges' \subseteq LctEdges \cup {{a, b}}
    BY <1>6, <2>2, <1>t DEF GrowLct, LctLink, LinkWeight, LctEdges
  <2>6. QED
    BY <2>1, <2>4, <2>5, <1>t, AcyclicSubset DEF TierForests
<1>7. CASE UNCHANGED vars
  BY <1>7, <1>t DEF vars, forests, TierForests, LctEdges
<1>8. QED
  BY <1>1, <1>2, <1>3, <1>4, <1>5, <1>6, <1>7 DEF Next

-------------------------------------------------------------------------------
LEMMA InitIInv == Init => IInv
<1>1. SUFFICES ASSUME Init PROVE IInv
  OBVIOUS
<1>2. LctEdges = {} /\ phase = "idle" /\ \A i \in Tiers : ett[i] = {}
  BY <1>1 DEF Init, LctEdges
<1>3. TypeOK
  BY <1>1, TiersFacts DEF Init, TypeOK, NoRoots
<1>4. TierForests /\ TiersMirrorLct
  BY <1>2 DEF TierForests, Acyclic, TiersMirrorLct, AwaitsCut, Expected, LctUpTo
<1>5. ControlInv /\ SketchInv /\ LctInGraph /\ RefreshInv
  BY <1>1, <1>2 DEF Init, ControlInv, SketchInv, LctInGraph, RefreshInv
<1>6. QED
  BY <1>3, <1>4, <1>5 DEF IInv

\* The inductive invariant holds in every state of every run of GraphTiers.
THEOREM Invariance == Spec => []IInv
<1>1. ASSUME IInv, [Next]_vars
      PROVE  IInv'
  BY <1>1, TypeStep, ControlStep, SketchStep, LctInGraphStep, RefreshStep, MirrorStep,
     ForestStep DEF IInv
<1>2. QED
  BY <1>1, InitIInv, PTL DEF Spec

\* Every variable keeps its type: no weight or loop index leaves the range of the tiers.
THEOREM TypeCorrect == Spec => []TypeOK
<1>1. IInv => TypeOK
  BY DEF IInv
<1>2. QED
  BY <1>1, Invariance, PTL

\* The Euler tour forests are at every step the restrictions of the link-cut forest to
\* the weights of their tiers, up to the parallel loop that is running.
THEOREM Mirror == Spec => []TiersMirrorLct
<1>1. IInv => TiersMirrorLct
  BY DEF IInv
<1>2. QED
  BY <1>1, Invariance, PTL

\* No tier and no link-cut tree ever holds a cycle.
THEOREM Forest == Spec => []TierForests
<1>1. IInv => TierForests
  BY DEF IInv
<1>2. QED
  BY <1>1, Invariance, PTL

\* No link and no cut is ever refused, so that the assertions of LinkCutTree hold.
THEOREM TakeEffect == Spec => []LinksAndCutsTakeEffect
<1>1. ASSUME IInv, phase = "evict"
      PROVE  evicting \in LctEdges /\ \A i \in todo : evicting \in ett[i]
  <2>1. evicting \in LctEdges /\ todo \subseteq lct[evicting] .. Top
    BY <1>1 DEF IInv, ControlInv
  <2>2. ASSUME NEW i \in todo
        PROVE  evicting \in ett[i]
    <3>1. i \in Tiers /\ lct[evicting] <= i
      <4>1. i \in Tiers /\ i \in lct[evicting] .. Top /\ evicting \in Edges
        BY <1>1, <2>1 DEF IInv, TypeOK, LctEdges
      <4>2. lct[evicting] \in Nat
        BY <1>1, <4>1, LctFacts DEF IInv
      <4>3. QED
        BY <4>1, <4>2, TiersFacts
    <3>2. ett[i] = LctUpTo(i)
      BY <1>1, <3>1 DEF IInv, TiersMirrorLct, AwaitsCut, Expected
    <3>3. QED
      BY <2>1, <3>1, <3>2 DEF LctUpTo
  <2>3. QED
    BY <2>1, <2>2
<1>2. ASSUME IInv, phase = "grow", NEW a \in Nodes, NEW b \in Nodes, adding = {a, b}
      PROVE  /\ ~Connected(LctEdges, a, b)
             /\ \A i \in todo : ~Connected(ett[i], a, b)
  BY <1>2, GrowJoins DEF IInv, RefreshInv
<1>3. IInv => LinksAndCutsTakeEffect
  BY <1>1, <1>2 DEF LinksAndCutsTakeEffect
<1>4. QED
  BY <1>3, Invariance, PTL

\* The sketch at the root of every tree is the cut of the tree.
THEOREM RootSketch == Spec => []RootSketchIsCut
<1>1. ASSUME IInv, NEW i \in Tiers, ~(phase = "sketches" /\ i \in todo), NEW v \in Nodes
      PROVE  Aggregate(i, Component(ett[i], v)) = CutOf(graph, Component(ett[i], v))
  <2>1. \A x \in Nodes : sketch[i][x] = {e \in graph : x \in e}
    BY <1>1 DEF IInv, SketchInv
  <2>2. graph \in SUBSET Edges /\ Component(ett[i], v) \in SUBSET Nodes
    BY <1>1 DEF IInv, TypeOK, Component
  <2>3. QED
    BY <2>1, <2>2, AggregateIsCut
<1>2. IInv => RootSketchIsCut
  BY <1>1 DEF RootSketchIsCut
<1>3. QED
  BY <1>2, Invariance, PTL

\* refresh() never disturbs a tier it has swept, and the next tier only gains edges.
THEOREM SweptSettle == Spec => SweptTiersSettle
<1>1. ASSUME IInv, [Next]_vars, Refreshing
      PROVE  Settles
  <2>t. /\ ett \in [Tiers -> SUBSET Edges] /\ tier \in Nat
        /\ \A i \in Tiers : i \in Nat
        /\ \A e \in Edges : lct[e] \in Nat
    BY <1>1, LctFacts, TiersFacts DEF IInv, TypeOK
  <2>1. ASSUME NEW j \in Tiers, EvictTier(j)
        PROVE  Settles
    <3>1. phase = "evict" /\ j \in todo
      BY <2>1 DEF EvictTier
    <3>2. evicting \in Edges /\ j \in lct[evicting] .. Top /\ adding \in Edges
      BY <1>1, <3>1 DEF IInv, ControlInv, LctEdges
    <3>3. PICK a \in Nodes, b \in Nodes : adding = {a, b}
      BY <3>2, EdgeFacts
    <3>4. lct[evicting] > tier + 1
      BY <1>1, <3>1, <3>3 DEF IInv, RefreshInv
    <3>5. j > tier + 1
      BY <2>t, <3>2, <3>4
    <3>6. \A i \in Tiers : i # j => ett'[i] = ett[i]
      BY <2>1, <2>t DEF EvictTier
    <3>7. QED
      BY <2>t, <3>5, <3>6 DEF Settles
  <2>2. ASSUME NEW j \in Tiers, GrowTier(j)
        PROVE  Settles
    <3>1. j > tier
      BY <1>1, <2>2, <2>t DEF GrowTier, IInv, ControlInv
    <3>2. \A i \in Tiers : i # j => ett'[i] = ett[i]
      BY <2>2, <2>t DEF GrowTier
    <3>3. ett[j] \subseteq ett'[j]
      BY <2>2, <2>t DEF GrowTier, EttLink
    <3>4. QED
      BY <2>t, <3>1, <3>2, <3>3 DEF Settles
  <2>3. CASE UNCHANGED ett
    BY <2>3 DEF Settles
  <2>4. ~(\E src, dst \in Nodes : Update(src, dst)) /\ ~(\E i \in Tiers : UpdateTier(i))
    BY <1>1 DEF Refreshing, Update, LctCut, UpdateTier, UpdatedSketches
  <2>5. CASE CheckIsolated \/ RefreshEndpoint \/ EvictLct \/ GrowLct \/ UNCHANGED vars
    BY <2>3, <2>5 DEF CheckIsolated, RefreshEndpoint, EvictTiers, GrowTiers, EvictLct, LctCut, GrowTiers, GrowLct, LctLink, LinkWeight, vars, forests
  <2>6. QED
    BY <1>1, <2>1, <2>2, <2>4, <2>5 DEF Next
<1>2. IInv /\ [Next]_vars => [Refreshing => Settles]_vars
  BY <1>1
<1>3. QED
  BY <1>2, Invariance, PTL DEF Spec, SweptTiersSettle

-------------------------------------------------------------------------------
\* The trees of a forest are the classes of its connectivity relation.
LEMMA PairsOfComponents ==
    ASSUME NEW E \in SUBSET Edges, NEW u \in Nodes, NEW v \in Nodes
    PROVE  (\E C \in Components(E) : u \in C /\ v \in C) <=> Connected(E, u, v)
<1>1. ASSUME Connected(E, u, v)
      PROVE  \E C \in Components(E) : u \in C /\ v \in C
  <2>1. u \in Component(E, u) /\ v \in Component(E, u)
    BY <1>1, ComponentClosed DEF Connected
  <2>2. QED
    BY <2>1 DEF Components
<1>2. ASSUME NEW C \in Components(E), u \in C, v \in C, ~Connected(E, u, v)
      PROVE  FALSE
  <2>1. PICK w \in Nodes : C = Component(E, w)
    BY DEF Components
  <2>2. PICK S \in ClosedSets(E) : u \in S /\ v \notin S
    BY <1>2, SeparatedByClosedSet
  <2>3. Nodes \ S \in ClosedSets(E) /\ v \in Nodes \ S /\ u \notin Nodes \ S
    BY <2>2, ClosedSetAlgebra
  <2>4. CASE w \in S
    BY <2>1, <2>2, <2>4, <1>2 DEF Component
  <2>5. CASE w \notin S
    BY <2>1, <2>3, <2>5, <1>2 DEF Component
  <2>6. QED
    BY <2>4, <2>5
<1>3. QED
  BY <1>1, <1>2

\* The graph vocabulary of the instance is that of this module.
LEMMA SameVocabulary == /\ Connectivity!Edges = Edges
                        /\ \A E : Connectivity!Components(E) = Components(E)
<1>1. \A E : Connectivity!ClosedSets(E) = ClosedSets(E)
  BY DEF Connectivity!ClosedSets, ClosedSets
<1>2. \A E, u : Connectivity!Component(E, u) = Component(E, u)
  BY <1>1 DEF Connectivity!Component, Component
<1>3. QED
  BY <1>2 DEF Connectivity!Edges, Edges, Connectivity!Components, Components

\* Between updates both queries speak of the trees of the top tier, a forest of edges
\* of the graph.
LEMMA IdleAnswers ==
    ASSUME IInv, phase = "idle"
    PROVE  /\ ett[Top] \in SUBSET graph
           /\ {p \in Nodes \X Nodes : IsConnected(p[1], p[2])}
                 = Connectivity!SamePairs(Components(ett[Top]))
<1>1. ett[Top] = LctUpTo(Top)
  BY TiersFacts, MirrorBetweenLoops DEF IInv, AwaitsCut
<1>2. LctUpTo(Top) = LctEdges
  BY TiersFacts DEF IInv, TypeOK, LctUpTo, LctEdges
<1>3. LctEdges \in SUBSET Edges /\ LctEdges \subseteq graph
  BY LctFacts DEF IInv, LctInGraph
<1>4. \A p \in Nodes \X Nodes : IsConnected(p[1], p[2])
          <=> \E C \in Components(ett[Top]) : p[1] \in C /\ p[2] \in C
  BY <1>1, <1>2, <1>3, PairsOfComponents DEF IsConnected
<1>5. QED
  BY <1>1, <1>2, <1>3, <1>4 DEF Connectivity!SamePairs

\* The initial states map to initial states of DynamicConnectivity.
LEMMA RefinementInit ==
    ASSUME Init
    PROVE  Connectivity!Init
<1>1. IInv /\ phase = "idle" /\ graph = {} /\ ett[Top] = {}
  BY InitIInv, TiersFacts DEF Init
<1>2. QED
  BY <1>1, IdleAnswers, SameVocabulary DEF Connectivity!Init, GetCC

\* Every step maps to a step of DynamicConnectivity or to a stutter, provided that the
\* trees of the top tier are a partition it allows whenever update() returns.
LEMMA RefinementStep ==
    ASSUME IInv, IInv', [Next]_vars,
           phase' = "idle" => Components(ett'[Top]) \in Connectivity!Answers(graph')
    PROVE  [Connectivity!Next]_(Connectivity!vars)
<1>1. ASSUME NEW src \in Nodes, NEW dst \in Nodes, Update(src, dst)
      PROVE  Connectivity!Next
  <2> DEFINE e == {src, dst}
  <2>1. e \in Edges /\ phase = "idle" /\ phase' # "idle"
    BY <1>1, EdgeFacts DEF Update
  <2>2. graph' = IF e \in graph THEN graph \ {e} ELSE graph \cup {e}
    BY <1>1 DEF Update, Toggle
  <2>3. Connectivity!Update(e)
    BY <2>1, <2>2 DEF Connectivity!Update
  <2>4. QED
    BY <2>1, <2>3, SameVocabulary DEF Connectivity!Next
<1>2. ASSUME phase # "idle", graph' = graph
      PROVE  Connectivity!Next \/ UNCHANGED Connectivity!vars
  <2>1. CASE phase' = "idle"
    <3>1. {p \in Nodes \X Nodes : IsConnected(p[1], p[2])'}
             = Connectivity!SamePairs(Components(ett'[Top]))
      <4>1. (IInv /\ phase = "idle" =>
                {p \in Nodes \X Nodes : IsConnected(p[1], p[2])}
                   = Connectivity!SamePairs(Components(ett[Top])))'
        BY IdleAnswers, PTL
      <4>2. QED
        BY <4>1, <2>1
    <3>2. Components(ett'[Top]) \in Connectivity!Answers(graph)
      BY <1>2, <2>1
    <3>3. Connectivity!Serve
      BY <1>2, <2>1, <3>1, <3>2 DEF Connectivity!Serve, GetCC
    <3>4. QED
      BY <3>3 DEF Connectivity!Next
  <2>2. CASE phase' # "idle"
    BY <1>2, <2>2 DEF Connectivity!vars
  <2>3. QED
    BY <2>1, <2>2
<1>3. ASSUME NEW i \in Tiers, UpdateTier(i) \/ EvictTier(i) \/ GrowTier(i)
      PROVE  phase # "idle" /\ graph' = graph
  BY <1>3 DEF UpdateTier, EvictTier, GrowTier
<1>4. CASE CheckIsolated \/ RefreshEndpoint \/ EvictLct \/ GrowLct
  BY <1>2, <1>4 DEF CheckIsolated, RefreshEndpoint, EvictLct, GrowLct
<1>5. CASE UNCHANGED vars
  BY <1>5 DEF vars, forests, loops, Connectivity!vars, GetCC, IsConnected, LctEdges
<1>6. QED
  BY <1>1, <1>2, <1>3, <1>4, <1>5 DEF Next

\* With sketches that may fail, GraphTiers still answers every query from one partition
\* of the vertices that never joins two components of the graph.
THEOREM Refinement == SketchesMayFail => (Spec => AnswersConnectivity)
<1>s. SUFFICES ASSUME SketchesMayFail
               PROVE  Spec => AnswersConnectivity
  OBVIOUS
<1>1. ASSUME IInv, phase = "idle"
      PROVE  Components(ett[Top]) \in Connectivity!Answers(graph)
  BY <1>1, <1>s, IdleAnswers, SameVocabulary DEF Connectivity!Answers
<1>2. (IInv /\ phase = "idle" => Components(ett[Top]) \in Connectivity!Answers(graph))'
  BY <1>1, PTL
<1>3. ASSUME IInv, IInv', [Next]_vars
      PROVE  [Connectivity!Next]_(Connectivity!vars)
  BY <1>2, <1>3, RefinementStep
<1>4. QED
  BY <1>3, RefinementInit, Invariance, PTL DEF Spec, AnswersConnectivity

------------------------------------------------------------------------------
\* When every sketch gives an edge

LEMMA PlannedFacts ==
    ASSUME TypeOK, ControlInv
    PROVE  /\ \A i : Planned(i) \in SUBSET Edges
           /\ \A i : phase \notin {"evict", "grow"} \/ i = tier => Planned(i) = LctUpTo(i)
<1>1. \A i : LctUpTo(i) \in SUBSET Edges
  BY LctFacts
<1>2. phase \in {"evict", "grow"} => adding \in Edges
  BY DEF ControlInv
<1>3. tier \in Nat
  BY TiersFacts DEF TypeOK
<1>4. \A i : Planned(i) \in SUBSET Edges
  BY <1>1, <1>2 DEF Planned
<1>5. \A i : phase \notin {"evict", "grow"} \/ i = tier => Planned(i) = LctUpTo(i)
  BY <1>3 DEF Planned
<1>6. QED
  BY <1>4, <1>5

\* The loops over the tiers and the link-cut tree only carry out what is planned.
LEMMA LoopsKeepRepair ==
    ASSUME RepairInv, \A i \in Tiers : Planned(i)' = Planned(i),
           graph' = graph, update' = update,
           \A i \in 0 .. Top - 1 : \A k \in {1, 2} : Unswept(i, k) => Unswept(i, k)'
    PROVE  RepairInv'
<1>1. ASSUME NEW i \in 0 .. Top - 1, NEW v \in Nodes, Isolated(i, v)'
      PROVE  \E k \in {1, 2} : /\ Unswept(i, k)'
                               /\ EndpointOf(k)' \in Component(Planned(i)', v)
  <2>1. i \in Tiers /\ i + 1 \in Tiers
    BY TiersFacts DEF Tiers, Top
  <2>2. Planned(i)' = Planned(i) /\ Planned(i + 1)' = Planned(i + 1)
    BY <2>1
  <2>3. Isolated(i, v)
    BY <1>1, <2>2 DEF Isolated
  <2>4. PICK k \in {1, 2} : Unswept(i, k) /\ EndpointOf(k) \in Component(Planned(i), v)
    BY <2>3 DEF RepairInv
  <2>5. EndpointOf(k)' = EndpointOf(k)
    BY DEF EndpointOf
  <2>6. QED
    BY <2>2, <2>4, <2>5
<1>2. QED
  BY <1>1 DEF RepairInv

\* An update leaves no tree isolated but those of its endpoints: all others keep their
\* edges, in their own tier and in the next, and the edges of the graph that leave them.
LEMMA UpdateRepair ==
    ASSUME ExactInv, NEW src \in Nodes, NEW dst \in Nodes, Update(src, dst)
    PROVE  RepairInv'
<1> DEFINE e == {src, dst}
<1>1. /\ phase = "idle" /\ phase' = "sketches" /\ e \in Edges
      /\ graph' = Toggle(graph, e)
      /\ update'.src = src /\ update'.dst = dst
  BY EdgeFacts DEF Update
<1>2. \A f \in Edges : lct'[f] = IF f = e /\ e \in graph THEN 0 ELSE lct[f]
  BY <1>1 DEF Update, LctCut, LctEdges, ExactInv, IInv, TypeOK
<1>3. ASSUME NEW i \in Tiers
      PROVE  /\ Planned(i) \in SUBSET Edges
             /\ Planned(i)' \in SUBSET Planned(i)
             /\ Planned(i) \subseteq Planned(i)' \cup {e}
  <2>1. Planned(i) = LctUpTo(i) /\ Planned(i)' = LctUpTo(i)'
    BY <1>1 DEF Planned
  <2>2. LctUpTo(i) = {f \in Edges : lct[f] # 0 /\ lct[f] <= i}
    BY DEF LctUpTo, LctEdges
  <2>3. LctUpTo(i)' = {f \in Edges : lct'[f] # 0 /\ lct'[f] <= i}
    BY DEF LctUpTo, LctEdges
  <2>4. QED
    BY <1>2, <2>1, <2>2, <2>3
<1>4. ASSUME NEW i \in 0 .. Top - 1, NEW v \in Nodes, Isolated(i, v)',
             src \notin Component(Planned(i)', v), dst \notin Component(Planned(i)', v)
      PROVE  FALSE
  <2> DEFINE tree == Component(Planned(i)', v)
  <2>1. i \in Tiers /\ i + 1 \in Tiers
    BY TiersFacts DEF Tiers, Top
  <2>2. tree = Component(Planned(i + 1)', v) /\ CutOf(graph', tree) # {}
    BY <1>4 DEF Isolated
  <2>3. Component(Planned(i), v) = tree
    BY <1>3, <1>4, <2>1, UntouchedTree
  <2>4. Component(Planned(i + 1), v) = tree
    BY <1>3, <1>4, <2>1, <2>2, UntouchedTree
  <2>5. CutOf(graph', tree) = CutOf(graph, tree)
    <3>1. e \cap tree = {}
      BY <1>4
    <3>2. \A f : f \cap tree # {} => (f \in graph' <=> f \in graph)
      BY <1>1, <3>1 DEF Toggle
    <3>3. QED
      BY <3>2 DEF CutOf
  <2>6. Isolated(i, v)
    BY <2>2, <2>3, <2>4, <2>5 DEF Isolated
  <2>7. QED
    BY <1>1, <2>6 DEF ExactInv, RepairInv, Unswept, Refreshing
<1>5. EndpointOf(1)' = src /\ EndpointOf(2)' = dst
  BY <1>1 DEF EndpointOf
<1>6. \A i, k : Unswept(i, k)'
  BY <1>1 DEF Unswept
<1>7. QED
  BY <1>4, <1>5, <1>6 DEF RepairInv

\* When the first pass of refresh() finds no isolated root, no tree is isolated.
LEMMA NothingIsolated ==
    ASSUME ExactInv, phase = "sketches", todo = {}, IsolatedRoots = {},
           NEW i \in 0 .. Top - 1, NEW v \in Nodes
    PROVE  ~Isolated(i, v)
<1>1. SUFFICES ASSUME Isolated(i, v)
               PROVE  FALSE
  OBVIOUS
<1>2. PICK k \in {1, 2} : EndpointOf(k) \in Component(Planned(i), v)
  BY <1>1 DEF ExactInv, RepairInv
<1> DEFINE w == EndpointOf(k)
<1>3. i \in Tiers /\ i + 1 \in Tiers
  BY TiersFacts DEF Tiers, Top
<1>4. /\ ett[i] = Planned(i) /\ ett[i + 1] = Planned(i + 1)
      /\ Planned(i) \in SUBSET Edges /\ Planned(i + 1) \in SUBSET Edges
  <2>1. ett[i] = LctUpTo(i) /\ ett[i + 1] = LctUpTo(i + 1)
    BY <1>3, MirrorBetweenLoops DEF ExactInv, IInv, AwaitsCut
  <2>2. QED
    BY <2>1, PlannedFacts DEF ExactInv, IInv
<1>5. w \in Nodes
  BY DEF EndpointOf, ExactInv, IInv, TypeOK, Updates
<1>6. root_nodes[i][k] = Component(ett[i], w) /\ root_nodes[i + 1][k] = Component(ett[i + 1], w)
  BY <1>3 DEF ExactInv, RootsInv, EndpointOf
<1>7. Component(ett[i], w) = Component(ett[i], v) /\ Component(ett[i + 1], w) = Component(ett[i + 1], v)
  BY <1>1, <1>2, <1>4, <1>5, SameTree DEF Isolated
<1>8. Aggregate(i, Component(ett[i], v)) = CutOf(graph, Component(ett[i], v))
  <2>1. \A x \in Nodes : sketch[i][x] = {e \in graph : x \in e}
    BY <1>3 DEF ExactInv, IInv, SketchInv
  <2>2. graph \in SUBSET Edges /\ Component(ett[i], v) \in SUBSET Nodes
    BY DEF ExactInv, IInv, TypeOK, Component
  <2>3. QED
    BY <2>1, <2>2, AggregateIsCut
<1>9. <<i, k>> \in IsolatedRoots
  BY <1>1, <1>4, <1>6, <1>7, <1>8 DEF IsolatedRoots, Isolated
<1>10. QED
  BY <1>9

\* The first pass of refresh() only returns when there is nothing to repair.
LEMMA CheckRepair ==
    ASSUME ~SketchesMayFail, ExactInv, CheckIsolated
    PROVE  RepairInv'
<1>1. /\ phase = "sketches" /\ todo = {} /\ tier = 0 /\ endpoint = 1
      /\ graph' = graph /\ lct' = lct
  BY DEF CheckIsolated, forests, ExactInv, IInv, ControlInv, RootsInv
<1>2. phase' \in {"idle", "refresh"}
  BY DEF CheckIsolated, Return
<1>3. \A i \in Tiers : Planned(i)' = Planned(i)
  BY <1>1, <1>2 DEF Planned, LctUpTo, LctEdges
<1>4. CASE IsolatedRoots = {}
  <2>1. ASSUME NEW i \in 0 .. Top - 1, NEW v \in Nodes, Isolated(i, v)'
        PROVE  FALSE
    <3>1. i \in Tiers /\ i + 1 \in Tiers
      BY TiersFacts DEF Tiers, Top
    <3>2. Isolated(i, v)
      BY <1>1, <1>3, <2>1, <3>1 DEF Isolated
    <3>3. QED
      BY <1>1, <1>4, <3>2, NothingIsolated
  <2>2. QED
    BY <2>1 DEF RepairInv
<1>5. CASE IsolatedRoots # {}
  <2>1. phase' = "refresh" /\ update' = update /\ tier' = 0 /\ endpoint' = 1
    BY <1>1, <1>5 DEF CheckIsolated, loops
  <2>2. \A i \in 0 .. Top - 1 : \A k \in {1, 2} : Unswept(i, k)'
    BY <2>1 DEF Unswept, Refreshing
  <2>3. QED
    BY <1>1, <1>3, <2>1, <2>2, LoopsKeepRepair DEF ExactInv
<1>6. QED
  BY <1>4, <1>5

\* What the loops of refresh() have still to come to when they go on.
LEMMA NextSwept ==
    ASSUME TypeOK, NextEndpoint, tier < Top, NEW i \in 0 .. Top - 1, NEW k \in {1, 2},
           i > tier \/ (i = tier /\ k > endpoint)
    PROVE  Unswept(i, k)' /\ update' = update
<1>1. tier \in Nat /\ Top \in Nat /\ endpoint \in {1, 2}
  BY TiersFacts DEF TypeOK
<1>2. ~(endpoint = 2 /\ tier + 1 >= Top)
  BY <1>1
<1>3. /\ phase' = "refresh" /\ update' = update /\ endpoint' = 3 - endpoint
      /\ tier' = IF endpoint = 2 THEN tier + 1 ELSE tier
  BY <1>2 DEF NextEndpoint
<1>4. QED
  BY <1>1, <1>3 DEF Unswept, Refreshing

\* An endpoint that refresh() skips is not in an isolated tree.
LEMMA SkipRepair ==
    ASSUME ~SketchesMayFail, ExactInv, RefreshEndpoint, NextEndpoint
    PROVE  RepairInv'
<1> DEFINE w == EndpointOf(endpoint)
<1>1. /\ phase = "refresh" /\ tier < Top /\ tier \in Nat /\ endpoint \in {1, 2}
      /\ graph' = graph /\ lct' = lct /\ phase' \in {"idle", "refresh"}
  BY TiersFacts DEF RefreshEndpoint, NextEndpoint, Return, forests, ExactInv, IInv, TypeOK, ControlInv
<1>2. \A i \in Tiers : Planned(i)' = Planned(i) /\ Planned(i) \in SUBSET Edges
  <2>1. \A i \in Tiers : Planned(i)' = Planned(i)
    BY <1>1 DEF Planned, LctUpTo, LctEdges
  <2>2. QED
    BY <2>1, PlannedFacts DEF ExactInv, IInv
<1>3. tier \in Tiers /\ tier + 1 \in Tiers /\ w \in Nodes
  BY <1>1, TiersFacts DEF Tiers, Top, EndpointOf, ExactInv, IInv, TypeOK, Updates
<1>4. ett[tier] = Planned(tier) /\ ett[tier + 1] = Planned(tier + 1)
  BY <1>1, <1>3, MirrorBetweenLoops DEF ExactInv, IInv, AwaitsCut, Planned
<1>5. ~Isolated(tier, w)
  <2>1. CASE GetSize(tier, w) # GetSize(tier + 1, w)
    BY <1>4, <2>1 DEF GetSize, Isolated
  <2>2. CASE GetSize(tier, w) = GetSize(tier + 1, w)
    <3>1. NoEdge \in Samples(Aggregate(tier, Component(ett[tier], w)))
      BY <1>1, <2>2 DEF RefreshEndpoint
    <3>2. Aggregate(tier, Component(ett[tier], w)) = {}
      BY <3>1, EdgeFacts DEF Samples, Aggregate
    <3>3. \A x \in Nodes : sketch[tier][x] = {e \in graph : x \in e}
      BY <1>1, <1>3 DEF ExactInv, IInv, SketchInv
    <3>4. graph \in SUBSET Edges /\ Component(ett[tier], w) \in SUBSET Nodes
      BY DEF ExactInv, IInv, TypeOK, Component
    <3>5. CutOf(graph, Component(ett[tier], w)) = {}
      BY <3>2, <3>3, <3>4, AggregateIsCut
    <3>6. QED
      BY <1>4, <3>5 DEF Isolated
  <2>3. QED
    BY <2>1, <2>2
<1>6. ASSUME NEW i \in 0 .. Top - 1, NEW v \in Nodes, Isolated(i, v)'
      PROVE  \E k \in {1, 2} : /\ Unswept(i, k)'
                               /\ EndpointOf(k)' \in Component(Planned(i)', v)
  <2>1. i \in Tiers /\ i + 1 \in Tiers
    BY TiersFacts DEF Tiers, Top
  <2>2. Isolated(i, v)
    BY <1>1, <1>2, <1>6, <2>1 DEF Isolated
  <2>3. PICK k \in {1, 2} : Unswept(i, k) /\ EndpointOf(k) \in Component(Planned(i), v)
    BY <2>2 DEF ExactInv, RepairInv
  <2>4. ~(i = tier /\ k = endpoint)
    <3>1. SUFFICES ASSUME i = tier, k = endpoint
                   PROVE  FALSE
      OBVIOUS
    <3>2. /\ Component(Planned(i), w) = Component(Planned(i), v)
          /\ Component(Planned(i + 1), w) = Component(Planned(i + 1), v)
      BY <1>2, <1>3, <2>1, <2>2, <2>3, <3>1, SameTree DEF Isolated
    <3>3. Isolated(tier, w)
      BY <2>2, <3>1, <3>2 DEF Isolated
    <3>4. QED
      BY <1>5, <3>3
  <2>5. i > tier \/ (i = tier /\ k > endpoint)
    BY <1>1, <2>3, <2>4 DEF Unswept
  <2>6. Unswept(i, k)' /\ update' = update
    BY <1>1, <2>5, NextSwept DEF ExactInv, IInv
  <2>7. QED
    BY <1>2, <2>1, <2>3, <2>6 DEF EndpointOf
<1>7. QED
  BY <1>6 DEF RepairInv

\* Sampling an edge joins trees and separates none: in the tiers above, the sampled edge
\* is added, or exchanged for the evicted one where that closed the cycle.
LEMMA SamplePlans ==
    ASSUME ExactInv, NEW a \in Nodes, NEW b \in Nodes, SampleStep(a, b),
           phase = "refresh", NEW i \in Tiers
    PROVE  /\ Planned(i) = LctUpTo(i)
           /\ Planned(i) \in SUBSET Edges /\ Planned(i)' \in SUBSET Edges
           /\ i <= tier => Planned(i)' = Planned(i)
           /\ i > tier => {a, b} \in Planned(i)'
           /\ \A v \in Nodes : /\ Component(Planned(i), v) \subseteq Component(Planned(i)', v)
                               /\ a \notin Component(Planned(i)', v) /\ b \notin Component(Planned(i)', v)
                                     => Component(Planned(i)', v) = Component(Planned(i), v)
<1> DEFINE old == LctUpTo(i)
           new == {a, b}
<1>1. /\ lct' = lct /\ tier' = tier /\ adding' = new /\ new \in Edges
      /\ phase' \in {"evict", "grow"} /\ tier \in Nat /\ i \in Nat
      /\ old \in SUBSET Edges /\ old' = old
  BY TiersFacts, LctFacts DEF SampleStep, ExactInv, IInv, TypeOK, LctUpTo, LctEdges
<1>2. Planned(i) = old /\ (i <= tier => Planned(i)' = old)
  BY <1>1 DEF Planned
<1>3. CASE i <= tier
  BY <1>1, <1>2, <1>3
<1>4. CASE i > tier /\ phase' = "evict" /\ evicting' \in old
  <2>1. Planned(i)' = (old \ {evicting'}) \cup {new}
    BY <1>1, <1>4 DEF Planned
  <2>2. Connected(old, a, b)
    BY <1>1, <1>4 DEF SampleStep, LctUpTo
  <2>3. ~Connected(old \ {evicting'}, a, b)
    <3>1. old \ {evicting'} \subseteq LctEdges \ {evicting'}
      BY DEF LctUpTo
    <3>2. ~Connected(LctEdges \ {evicting'}, a, b)
      BY <1>4 DEF SampleStep
    <3>3. QED
      BY <3>1, <3>2, ConnectedMonotone
  <2>4. ASSUME NEW v \in Nodes
        PROVE  Component(Planned(i)', v) = Component(old, v)
    BY <1>1, <1>4, <2>1, <2>2, <2>3, SwapKeepsTrees
  <2>5. QED
    BY <1>1, <1>2, <1>4, <2>1, <2>4
<1>5. CASE i > tier /\ ~(phase' = "evict" /\ evicting' \in old)
  <2>1. Planned(i)' = old \cup {new}
    BY <1>1, <1>5 DEF Planned
  <2>2. old \cup {new} \in SUBSET Edges /\ old \in SUBSET (old \cup {new})
    BY <1>1
  <2>3. ASSUME NEW v \in Nodes
        PROVE  /\ Component(old, v) \subseteq Component(old \cup {new}, v)
               /\ a \notin Component(old \cup {new}, v) /\ b \notin Component(old \cup {new}, v)
                     => Component(old \cup {new}, v) = Component(old, v)
    <3>1. Component(old, v) \subseteq Component(old \cup {new}, v)
      BY <2>2, ComponentMonotone
    <3>2. ASSUME a \notin Component(old \cup {new}, v), b \notin Component(old \cup {new}, v)
          PROVE  Component(old \cup {new}, v) = Component(old, v)
      BY <2>2, <3>1, <3>2, UntouchedTree
    <3>3. QED
      BY <3>1, <3>2
  <2>4. QED
    BY <1>1, <1>2, <1>5, <2>1, <2>2, <2>3
<1>6. QED
  BY <1>1, <1>3, <1>4, <1>5

\* An endpoint for which an edge was sampled leaves its isolated tree, and the trees that
\* the new edge isolates in the tiers above are its own.
LEMMA SampleRepair ==
    ASSUME ExactInv, NEW a \in Nodes, NEW b \in Nodes, SampleStep(a, b), phase = "refresh"
    PROVE  RepairInv'
<1> DEFINE w == EndpointOf(endpoint)
           tree == Component(Planned(tier), w)
<1>1. /\ tier < Top /\ tier \in Nat /\ endpoint \in {1, 2} /\ w \in Nodes
      /\ phase' \in {"evict", "grow"} /\ graph' = graph /\ update' = update
      /\ tier' = tier /\ endpoint' = endpoint
  BY TiersFacts DEF SampleStep, ExactInv, IInv, TypeOK, ControlInv, EndpointOf, Updates
<1>2. tier \in Tiers /\ tier + 1 \in Tiers /\ ett[tier] = Planned(tier)
  <2>1. tier \in Tiers /\ tier + 1 \in Tiers
    BY <1>1, TiersFacts DEF Tiers, Top
  <2>2. QED
    BY <2>1, MirrorBetweenLoops DEF ExactInv, IInv, AwaitsCut, Planned
<1>3. a \in tree <=> b \notin tree
  BY <1>2 DEF SampleStep
<1>4. \A k : EndpointOf(k)' = EndpointOf(k)
  BY <1>1 DEF EndpointOf
<1>5. ASSUME NEW i \in Tiers, i > tier
      PROVE  a \in Component(Planned(i)', w) /\ b \in Component(Planned(i)', w)
  <2>1. Planned(tier) \subseteq Planned(i)
    <3>1. i \in Nat
      BY TiersFacts
    <3>2. \A e \in Edges : lct[e] \in Nat
      BY LctFacts DEF ExactInv, IInv
    <3>3. LctUpTo(tier) \subseteq LctUpTo(i)
      BY <1>1, <1>5, <3>1, <3>2 DEF LctUpTo, LctEdges
    <3>4. QED
      BY <1>2, <3>3, SamplePlans
  <2>2. tree \subseteq Component(Planned(i)', w)
    <3>1. tree \subseteq Component(Planned(i), w)
      BY <1>1, <2>1, ComponentMonotone
    <3>2. Component(Planned(i), w) \subseteq Component(Planned(i)', w)
      BY <1>1, SamplePlans
    <3>3. QED
      BY <3>1, <3>2
  <2>3. Planned(i)' \in SUBSET Edges /\ {a, b} \in Planned(i)'
    BY <1>5, SamplePlans
  <2>4. Component(Planned(i)', w) \in ClosedSets(Planned(i)')
    BY <1>1, <2>3, ComponentClosed
  <2>5. a \in Component(Planned(i)', w) <=> b \in Component(Planned(i)', w)
    BY <2>3, <2>4 DEF ClosedSets
  <2>6. QED
    BY <1>3, <2>2, <2>5
<1>6. ASSUME NEW i \in 0 .. Top - 1, NEW v \in Nodes, Isolated(i, v)'
      PROVE  \E k \in {1, 2} : /\ Unswept(i, k)'
                               /\ EndpointOf(k)' \in Component(Planned(i)', v)
  <2> DEFINE new == Component(Planned(i)', v)
  <2>1. i \in Tiers /\ i + 1 \in Tiers /\ i \in Nat
    BY TiersFacts DEF Tiers, Top
  <2>2. new = Component(Planned(i + 1)', v) /\ CutOf(graph, new) # {}
    BY <1>1, <1>6 DEF Isolated
  <2>3. Planned(i) \in SUBSET Edges /\ Planned(i + 1) \in SUBSET Edges
    BY <2>1, SamplePlans
  <2>4. CASE i < tier
    <3>1. Planned(i)' = Planned(i) /\ Planned(i + 1)' = Planned(i + 1)
      <4>1. i <= tier /\ i + 1 <= tier
        BY <1>1, <2>1, <2>4
      <4>2. QED
        BY <2>1, <4>1, SamplePlans
    <3>2. Isolated(i, v)
      BY <2>2, <3>1 DEF Isolated
    <3>3. QED
      BY <3>2, <2>4, <1>1 DEF ExactInv, RepairInv, Unswept
  <2>5. CASE i = tier
    <3>1. new = Component(Planned(i), v)
      <4>1. i <= tier
        BY <2>1, <2>5
      <4>2. Planned(i)' = Planned(i)
        BY <2>1, <4>1, SamplePlans
      <4>3. QED
        BY <4>2
    <3>2. Planned(i) \subseteq Planned(i + 1)
      <4>1. \A e \in Edges : lct[e] \in Nat
        BY LctFacts DEF ExactInv, IInv
      <4>2. LctUpTo(i) \subseteq LctUpTo(i + 1)
        BY <2>1, <4>1 DEF LctUpTo, LctEdges
      <4>3. QED
        BY <2>1, <4>2, SamplePlans
    <3>3. Component(Planned(i), v) \subseteq Component(Planned(i + 1), v)
      BY <3>2, ComponentMonotone
    <3>4. Component(Planned(i + 1), v) \subseteq new
      BY <2>1, <2>2, SamplePlans
    <3>5. Isolated(i, v)
      BY <2>2, <3>1, <3>3, <3>4 DEF Isolated
    <3>6. PICK k \in {1, 2} : Unswept(i, k) /\ EndpointOf(k) \in Component(Planned(i), v)
      BY <3>5 DEF ExactInv, RepairInv
    <3>7. k # endpoint
      <4>1. SUFFICES ASSUME k = endpoint
                     PROVE  FALSE
        OBVIOUS
      <4>2. tree = Component(Planned(i), v)
        BY <1>1, <2>3, <2>5, <3>6, <4>1, SameTree
      <4>3. Component(Planned(i + 1)', w) = Component(Planned(i + 1)', v)
        <5>1. w \in Component(Planned(i + 1)', v)
          BY <2>2, <3>1, <3>6, <4>1
        <5>2. Planned(i + 1)' \in SUBSET Edges
          BY <2>1, SamplePlans
        <5>3. QED
          BY <1>1, <5>1, <5>2, SameTree
      <4>4. a \in tree /\ b \in tree
        BY <1>1, <1>5, <2>1, <2>2, <2>5, <3>1, <4>2, <4>3
      <4>5. QED
        BY <1>3, <4>4
    <3>8. Unswept(i, k)'
      BY <1>1, <2>5, <3>6, <3>7 DEF Unswept, Refreshing
    <3>9. QED
      BY <1>4, <3>1, <3>6, <3>8
  <2>6. CASE i > tier
    <3>1. SUFFICES ASSUME \A k \in {1, 2} : EndpointOf(k) \notin new
                   PROVE  FALSE
      <4>1. \A k \in {1, 2} : Unswept(i, k)'
        BY <1>1, <2>6 DEF Unswept, Refreshing
      <4>2. QED
        BY <1>4, <3>1, <4>1
    <3>2. i + 1 > tier
      BY <1>1, <2>1, <2>6
    <3>3. a \notin new /\ b \notin new
      <4>1. Planned(i)' \in SUBSET Edges /\ Connected(Planned(i)', w, a) /\ Connected(Planned(i)', w, b)
        BY <1>5, <2>1, <2>6, SamplePlans DEF Connected
      <4>2. new \in ClosedSets(Planned(i)') /\ w \notin new
        BY <1>1, <3>1, <4>1, ComponentClosed
      <4>3. QED
        BY <1>1, <4>1, <4>2, SameSide
    <3>4. new = Component(Planned(i), v)
      BY <2>1, <3>3, SamplePlans
    <3>5. new = Component(Planned(i + 1), v)
      BY <2>1, <2>2, <3>3, SamplePlans
    <3>6. Isolated(i, v)
      BY <2>2, <3>4, <3>5 DEF Isolated
    <3>7. QED
      BY <3>1, <3>4, <3>6 DEF ExactInv, RepairInv
  <2>7. QED
    BY <1>1, <2>1, <2>4, <2>5, <2>6
<1>7. QED
  BY <1>6 DEF RepairInv

\* The link-cut forest, which follows the loops over the tiers, does what was planned.
LEMMA LctRepair ==
    ASSUME ExactInv, EvictLct \/ GrowLct
    PROVE  RepairInv'
<1>t. /\ lct \in [Edges -> Tiers] /\ tier \in Nat /\ tier < Top /\ adding \in Edges
      /\ \A e \in Edges : lct[e] \in Nat
      /\ \A i \in Tiers : i \in Nat
  BY TiersFacts, LctFacts DEF EvictLct, GrowLct, ExactInv, IInv, TypeOK, ControlInv
<1>a. PICK a \in Nodes, b \in Nodes : adding = {a, b}
  BY <1>t, EdgeFacts
<1>1. CASE EvictLct
  <2>1. /\ phase = "evict" /\ phase' = "grow" /\ graph' = graph
        /\ tier' = tier /\ endpoint' = endpoint /\ update' = update /\ adding' = adding
    BY <1>1 DEF EvictLct, loops
  <2>2. evicting \in Edges /\ lct[evicting] > tier + 1
    BY <1>a, <2>1 DEF ExactInv, IInv, ControlInv, LctEdges, RefreshInv
  <2>3. ASSUME NEW i \in Tiers
        PROVE  Planned(i)' = Planned(i)
    <3>1. LctUpTo(i)' = LctUpTo(i) \ {evicting}
      BY <1>1, <1>t, <2>2 DEF EvictLct, LctCut, LctUpTo, LctEdges
    <3>2. i <= tier => evicting \notin LctUpTo(i)
      BY <1>t, <2>2 DEF LctUpTo
    <3>3. CASE i > tier
      BY <2>1, <3>1, <3>3 DEF Planned
    <3>4. CASE ~(i > tier)
      BY <1>t, <2>1, <3>1, <3>2, <3>4 DEF Planned
    <3>5. QED
      BY <3>3, <3>4
  <2>4. \A i, k : Unswept(i, k)' <=> Unswept(i, k)
    BY <2>1 DEF Unswept, Refreshing
  <2>5. QED
    BY <2>1, <2>3, <2>4, LoopsKeepRepair DEF ExactInv
<1>2. CASE GrowLct
  <2>1. phase = "grow" /\ phase' \in {"idle", "refresh"} /\ graph' = graph /\ NextEndpoint
    BY <1>2 DEF GrowLct, NextEndpoint, Return
  <2>2. adding \notin LctEdges
    BY <1>a, <2>1, EdgeConnects DEF ExactInv, IInv, RefreshInv
  <2>3. ASSUME NEW i \in Tiers
        PROVE  Planned(i)' = Planned(i)
    <3>1. LctUpTo(i)' = IF i > tier THEN LctUpTo(i) \cup {adding} ELSE LctUpTo(i)
      BY <1>2, <1>t, <2>2 DEF GrowLct, LctLink, LinkWeight, LctUpTo, LctEdges
    <3>2. Planned(i)' = LctUpTo(i)'
      BY <2>1 DEF Planned
    <3>3. QED
      BY <2>1, <3>1, <3>2 DEF Planned
  <2>4. ASSUME NEW i \in 0 .. Top - 1, NEW v \in Nodes, Isolated(i, v)'
        PROVE  \E k \in {1, 2} : /\ Unswept(i, k)'
                                 /\ EndpointOf(k)' \in Component(Planned(i)', v)
    <3>1. i \in Tiers /\ i + 1 \in Tiers
      BY TiersFacts DEF Tiers, Top
    <3>2. Isolated(i, v)
      BY <2>1, <2>3, <2>4, <3>1 DEF Isolated
    <3>3. PICK k \in {1, 2} : Unswept(i, k) /\ EndpointOf(k) \in Component(Planned(i), v)
      BY <3>2 DEF ExactInv, RepairInv
    <3>4. i > tier \/ (i = tier /\ k > endpoint)
      BY <2>1, <3>3 DEF Unswept
    <3>5. Unswept(i, k)' /\ update' = update
      BY <1>t, <2>1, <3>4, NextSwept DEF ExactInv, IInv
    <3>6. QED
      BY <2>3, <3>1, <3>3, <3>5 DEF EndpointOf
  <2>5. QED
    BY <2>4 DEF RepairInv
<1>3. QED
  BY <1>1, <1>2

LEMMA RepairStep ==
    ASSUME ~SketchesMayFail, ExactInv, [Next]_vars
    PROVE  RepairInv'
<1>1. ASSUME NEW src \in Nodes, NEW dst \in Nodes, Update(src, dst)
      PROVE  RepairInv'
  BY <1>1, UpdateRepair
<1>2. ASSUME NEW j \in Tiers, UpdateTier(j) \/ EvictTier(j) \/ GrowTier(j)
      PROVE  RepairInv'
  <2>1. /\ graph' = graph /\ update' = update /\ lct' = lct /\ phase' = phase
        /\ tier' = tier /\ endpoint' = endpoint /\ adding' = adding /\ evicting' = evicting
    BY <1>2 DEF UpdateTier, EvictTier, GrowTier, loops
  <2>2. \A i \in Tiers : Planned(i)' = Planned(i)
    BY <2>1 DEF Planned, LctUpTo, LctEdges
  <2>3. \A i, k : Unswept(i, k)' <=> Unswept(i, k)
    BY <2>1 DEF Unswept, Refreshing
  <2>4. QED
    BY <2>1, <2>2, <2>3, LoopsKeepRepair DEF ExactInv
<1>3. CASE CheckIsolated
  BY <1>3, CheckRepair
<1>4. CASE RefreshEndpoint
  <2>1. CASE NextEndpoint
    BY <1>4, <2>1, SkipRepair
  <2>2. CASE ~NextEndpoint
    <3>1. PICK a \in Nodes, b \in Nodes : SampleStep(a, b)
      BY <1>4, <2>2, RefreshSamples DEF ExactInv, IInv
    <3>2. phase = "refresh"
      BY <1>4 DEF RefreshEndpoint
    <3>3. QED
      BY <3>1, <3>2, SampleRepair
  <2>3. QED
    BY <2>1, <2>2
<1>5. CASE EvictLct \/ GrowLct
  BY <1>5, LctRepair
<1>6. CASE UNCHANGED vars
  <2>1. /\ graph' = graph /\ update' = update /\ lct' = lct /\ phase' = phase
        /\ tier' = tier /\ endpoint' = endpoint /\ adding' = adding /\ evicting' = evicting
    BY <1>6 DEF vars, forests, loops
  <2>2. \A i \in Tiers : Planned(i)' = Planned(i)
    BY <2>1 DEF Planned, LctUpTo, LctEdges
  <2>3. \A i, k : Unswept(i, k)' <=> Unswept(i, k)
    BY <2>1 DEF Unswept, Refreshing
  <2>4. QED
    BY <2>1, <2>2, <2>3, LoopsKeepRepair DEF ExactInv
<1>7. QED
  BY <1>1, <1>2, <1>3, <1>4, <1>5, <1>6 DEF Next

\* The roots of the endpoints are recorded as their trees are after the cut.
LEMMA RootsStep ==
    ASSUME ExactInv, [Next]_vars
    PROVE  RootsInv'
<1>1. ASSUME NEW src \in Nodes, NEW dst \in Nodes, Update(src, dst)
      PROVE  RootsInv'
  BY <1>1 DEF Update, ExactInv, RootsInv
<1>2. ASSUME NEW j \in Tiers, UpdateTier(j)
      PROVE  RootsInv'
  <2> DEFINE e == {update.src, update.dst}
             forest == IF update.type = "DELETE" /\ e \in ett[j] THEN EttCut(ett[j], e) ELSE ett[j]
  <2>1. /\ phase = "sketches" /\ phase' = "sketches" /\ endpoint' = endpoint
        /\ update' = update /\ todo' = todo \ {j}
        /\ ett' = [ett EXCEPT ![j] = forest]
        /\ root_nodes' = [root_nodes EXCEPT ![j] = <<Component(forest, update.src),
                                                     Component(forest, update.dst)>>]
    BY <1>2 DEF UpdateTier, loops
  <2> HIDE DEF forest
  <2>2. DOMAIN ett = Tiers /\ DOMAIN root_nodes = Tiers
    BY DEF ExactInv, IInv, TypeOK
  <2>3. ASSUME NEW i \in Tiers \ todo'
        PROVE  root_nodes'[i] = <<Component(ett'[i], update'.src), Component(ett'[i], update'.dst)>>
    <3>1. CASE i = j
      BY <2>1, <2>2, <3>1
    <3>2. CASE i # j
      BY <2>1, <2>2, <3>2 DEF ExactInv, RootsInv
    <3>3. QED
      BY <3>1, <3>2
  <2>4. QED
    BY <2>1, <2>3 DEF ExactInv, RootsInv
<1>3. ASSUME phase # "sketches", phase # "idle", phase' = "idle" => endpoint' = 1, phase' # "sketches"
      PROVE  RootsInv'
  BY <1>3 DEF RootsInv
<1>4. CASE CheckIsolated
  BY <1>4 DEF CheckIsolated, Return, RootsInv
<1>5. CASE RefreshEndpoint \/ GrowLct
  BY <1>3, <1>5 DEF RefreshEndpoint, GrowLct, NextEndpoint, Return
<1>6. ASSUME NEW j \in Tiers, EvictTier(j) \/ GrowTier(j)
      PROVE  RootsInv'
  BY <1>3, <1>6 DEF EvictTier, GrowTier
<1>7. CASE EvictLct
  BY <1>3, <1>7 DEF EvictLct
<1>8. CASE UNCHANGED vars
  BY <1>8 DEF vars, loops, forests, ExactInv, RootsInv
<1>9. QED
  BY <1>1, <1>2, <1>4, <1>5, <1>6, <1>7, <1>8 DEF Next

\* Sketches that do not fail keep the isolated trees within reach of refresh().
THEOREM ExactInvariance == ~SketchesMayFail => (Spec => []ExactInv)
<1>s. SUFFICES ASSUME ~SketchesMayFail
               PROVE  Spec => []ExactInv
  OBVIOUS
<1>1. ASSUME Init
      PROVE  ExactInv
  <2>1. IInv /\ phase = "idle" /\ endpoint = 1 /\ graph = {}
    BY <1>1, InitIInv DEF Init
  <2>2. \A i, v : ~Isolated(i, v)
    BY <2>1 DEF Isolated, CutOf
  <2>3. QED
    BY <2>1, <2>2 DEF ExactInv, RootsInv, RepairInv
<1>2. ASSUME ExactInv, IInv', [Next]_vars
      PROVE  ExactInv'
  BY <1>s, <1>2, RootsStep, RepairStep DEF ExactInv
<1>3. QED
  BY <1>1, <1>2, Invariance, PTL DEF Spec

\* When update() returns no tree below the top tier is isolated.
LEMMA IdleNoneIsolated ==
    ASSUME ExactInv, phase = "idle"
    PROVE  NoIsolatedTree
<1>1. ASSUME NEW i \in 0 .. Top - 1, NEW v \in Nodes, CutOf(graph, Component(ett[i], v)) # {}
      PROVE  GetSize(i, v) < GetSize(i + 1, v)
  <2>1. i \in Tiers /\ i + 1 \in Tiers /\ i \in Nat
    BY TiersFacts DEF Tiers, Top
  <2>2. ett[i] = LctUpTo(i) /\ ett[i + 1] = LctUpTo(i + 1)
    BY <2>1, MirrorBetweenLoops DEF ExactInv, IInv, AwaitsCut
  <2>3. ett[i] = Planned(i) /\ ett[i + 1] = Planned(i + 1)
    BY <2>2 DEF Planned
  <2>4. ~Isolated(i, v)
    BY DEF ExactInv, RepairInv, Unswept, Refreshing
  <2>5. Component(ett[i], v) # Component(ett[i + 1], v)
    BY <1>1, <2>3, <2>4 DEF Isolated
  <2>6. ett[i] \subseteq ett[i + 1]
    <3>1. \A e \in Edges : lct[e] \in Nat
      BY LctFacts DEF ExactInv, IInv
    <3>2. QED
      BY <2>1, <2>2, <3>1 DEF LctUpTo, LctEdges
  <2>7. Component(ett[i], v) \subseteq Component(ett[i + 1], v)
    BY <2>6, ComponentMonotone
  <2>8. IsFiniteSet(Component(ett[i + 1], v))
    BY NodesAssumption, FS_Subset DEF Component
  <2>9. /\ GetSize(i, v) \in Nat /\ GetSize(i + 1, v) \in Nat
        /\ GetSize(i, v) <= GetSize(i + 1, v) /\ GetSize(i, v) # GetSize(i + 1, v)
    BY <2>5, <2>7, <2>8, FS_Subset, FS_CardinalityType DEF GetSize
  <2>10. QED
    BY <2>9
<1>2. QED
  BY <1>1 DEF NoIsolatedTree

\* The invariant of the algorithm: between updates every tree with an edge of the graph
\* leaving it grows in the next tier.
THEOREM NothingStaysIsolated == ~SketchesMayFail => (Spec => []NoIsolatedTree)
<1>1. ExactInv => NoIsolatedTree
  BY IdleNoneIsolated DEF NoIsolatedTree
<1>2. QED
  BY <1>1, ExactInvariance, PTL

-------------------------------------------------------------------------------
\* Between updates the tiers are nested forests of edges of the graph.
LEMMA IdleForests ==
    ASSUME IInv, phase = "idle", NEW i \in Tiers
    PROVE  /\ ett[i] = LctUpTo(i) /\ ett[i] \in SUBSET graph /\ graph \in SUBSET Edges
           /\ \A j \in Tiers : j <= i => ett[j] \subseteq ett[i]
<1>1. \A j \in Tiers : ett[j] = LctUpTo(j)
  BY MirrorBetweenLoops DEF IInv, AwaitsCut
<1>2. LctUpTo(i) \in SUBSET graph /\ graph \in SUBSET Edges
  BY LctFacts DEF IInv, LctInGraph, TypeOK
<1>3. ASSUME NEW j \in Tiers, j <= i
      PROVE  LctUpTo(j) \subseteq LctUpTo(i)
  <2>1. \A e \in Edges : lct[e] \in Nat
    BY LctFacts DEF IInv
  <2>2. QED
    BY <1>3, <2>1, TiersFacts DEF LctUpTo, LctEdges
<1>4. QED
  BY <1>1, <1>2, <1>3

\* The library knows a power of two as the number of subsets of a set.
LEMMA PowerIsCardinality ==
    ASSUME NEW n \in Nat
    PROVE  /\ IsFiniteSet(SUBSET (1 .. n))
           /\ Cardinality(SUBSET (1 .. n)) = 2 ^ n
           /\ 2 ^ n \in Nat
<1>1. IsFiniteSet(1 .. n) /\ Cardinality(1 .. n) = n
  BY FS_Interval
<1>2. Cardinality(SUBSET (1 .. n)) = 2 ^ Cardinality(1 .. n) /\ IsFiniteSet(SUBSET (1 .. n))
  BY <1>1, FS_SUBSET
<1>3. QED
  BY <1>1, <1>2, FS_CardinalityType

LEMMA PowerZero == 2 ^ 0 = 1
<1>1. Cardinality(SUBSET (1 .. 0)) = 2 ^ 0
  BY PowerIsCardinality
<1>2. SUBSET (1 .. 0) = {{}}
  <2>1. 1 .. 0 = {}
    OBVIOUS
  <2>2. QED
    BY <2>1
<1>3. QED
  BY <1>1, <1>2, FS_Singleton, Zenon

\* One element more doubles the number of subsets: those without it and those with it.
LEMMA PowerOfTwo ==
    ASSUME NEW n \in Nat
    PROVE  2 ^ (n + 1) = 2 * 2 ^ n /\ 2 ^ n \in Nat
<1> DEFINE S == 1 .. n
           x == n + 1
           f == [T \in SUBSET S |-> T \cup {x}]
           with == {T \cup {x} : T \in SUBSET S}
<1>0. x \notin S /\ 1 .. n + 1 = S \cup {x}
  OBVIOUS
<1>1. SUBSET (1 .. n + 1) = (SUBSET S) \cup with
  <2>1. ASSUME NEW U \in SUBSET (1 .. n + 1)
        PROVE  U \in (SUBSET S) \cup with
    <3>1. CASE x \in U
      <4>1. U \ {x} \in SUBSET S /\ U = (U \ {x}) \cup {x}
        BY <1>0, <3>1
      <4>2. QED
        BY <4>1
    <3>2. CASE x \notin U
      BY <1>0, <3>2
    <3>3. QED
      BY <3>1, <3>2
  <2>2. SUBSET S \subseteq SUBSET (1 .. n + 1) /\ with \subseteq SUBSET (1 .. n + 1)
    BY <1>0
  <2>3. QED
    BY <2>1, <2>2
<1>2. (SUBSET S) \cap with = {}
  BY <1>0
<1>3. IsFiniteSet(SUBSET S) /\ Cardinality(SUBSET S) = 2 ^ n /\ 2 ^ n \in Nat
  BY PowerIsCardinality
<1>4. f \in Bijection(SUBSET S, with)
  <2>1. f \in [SUBSET S -> with]
    OBVIOUS
  <2>2. \A T, U \in SUBSET S : f[T] = f[U] => T = U
    <3>1. ASSUME NEW T \in SUBSET S, NEW U \in SUBSET S, f[T] = f[U]
          PROVE  T = U
      <4>1. T \cup {x} = U \cup {x}
        BY <3>1
      <4>2. T = (T \cup {x}) \ {x} /\ U = (U \cup {x}) \ {x}
        BY <1>0
      <4>3. QED
        BY <4>1, <4>2
    <3>2. QED
      BY <3>1
  <2>3. \A W \in with : \E T \in SUBSET S : f[T] = W
    OBVIOUS
  <2>4. QED
    BY <2>1, <2>2, <2>3 DEF Bijection, Injection, Surjection, IsInjective
<1>5. IsFiniteSet(with) /\ Cardinality(with) = 2 ^ n
  BY <1>3, <1>4, FS_Bijection DEF ExistsBijection
<1>6. Cardinality((SUBSET S) \cup with)
         = Cardinality(SUBSET S) + Cardinality(with) - Cardinality((SUBSET S) \cap with)
  BY <1>3, <1>5, FS_Union
<1>7. Cardinality((SUBSET S) \cap with) = 0
  BY <1>2, FS_EmptySet
<1>8. Cardinality((SUBSET S) \cup with) = 2 ^ (n + 1)
  <2>1. n + 1 \in Nat
    OBVIOUS
  <2>2. Cardinality(SUBSET (1 .. n + 1)) = 2 ^ (n + 1)
    BY <2>1, PowerIsCardinality, Zenon
  <2>3. QED
    BY <1>1, <2>2, Zenon
<1> DEFINE p == 2 ^ n
           q == 2 ^ (n + 1)
<1>9. q = p + p - 0 /\ p \in Nat
  BY <1>3, <1>5, <1>6, <1>7, <1>8, Zenon
<1> HIDE DEF p, q
<1>10. q = 2 * p /\ p \in Nat
  BY <1>9
<1>11. QED
  BY <1>10, Zenon DEF p, q

\* A tree that is not a component of the graph has at least 2^i vertices in tier i: it
\* was made from two such trees of the tier below.
LEMMA TreesDouble ==
    ASSUME ExactInv, phase = "idle", NEW n \in Tiers, NEW u \in Nodes,
           CutOf(graph, Component(ett[n], u)) # {}
    PROVE  2 ^ n <= Cardinality(Component(ett[n], u))
<1> DEFINE Tree(i, v) == Component(ett[i], v)
           small == {i \in Tiers : \E v \in Nodes : /\ CutOf(graph, Tree(i, v)) # {}
                                                    /\ ~(2 ^ i <= Cardinality(Tree(i, v)))}
<1>1. SUFFICES ASSUME small # {}
               PROVE  FALSE
  OBVIOUS
<1>2. PICK m \in small : \A i \in small : m <= i
  <2>1. small \in SUBSET Nat
    BY TiersFacts
  <2>2. QED
    BY <1>1, <2>1, LeastNumber
<1>3. PICK v \in Nodes : CutOf(graph, Tree(m, v)) # {} /\ ~(2 ^ m <= Cardinality(Tree(m, v)))
  BY <1>2
<1>4. m \in Tiers /\ m \in Nat /\ IsFiniteSet(Tree(m, v))
  BY <1>2, TiersFacts, NodesAssumption, FS_Subset DEF Component
<1>5. ett[m] \in SUBSET graph /\ graph \in SUBSET Edges
  BY <1>4, IdleForests DEF ExactInv
<1>6. CASE m = 0
  <2>1. v \in Tree(m, v)
    BY <1>5, ComponentClosed
  <2>2. Cardinality(Tree(m, v)) # 0 /\ Cardinality(Tree(m, v)) \in Nat
    BY <1>4, <2>1, FS_EmptySet, FS_CardinalityType
  <2>3. 2 ^ m = 1
    BY <1>6, PowerZero
  <2>4. QED
    BY <1>3, <2>2, <2>3
<1>7. CASE m > 0
  <2> DEFINE j == m - 1
             whole == Tree(m, v)
  <2>1. j \in Tiers /\ j \in Nat /\ m = j + 1 /\ j \in 0 .. Top - 1 /\ j \notin small
    BY <1>2, <1>4, <1>7, TiersFacts DEF Tiers, Top
  <2>2. ett[j] \in SUBSET Edges /\ ett[j] \subseteq ett[m] /\ ett[j] \in SUBSET graph
    BY <1>4, <1>5, <2>1, IdleForests DEF ExactInv
  <2>3. ASSUME NEW x \in whole
        PROVE  x \in Tree(j, x) /\ Tree(j, x) \subseteq whole /\ 2 ^ j <= Cardinality(Tree(j, x))
    <3>1. x \in Nodes /\ Tree(m, x) = whole
      BY <1>3, <1>5, SameTree DEF Component
    <3>2. x \in Tree(j, x) /\ Tree(j, x) \subseteq whole
      BY <2>2, <3>1, ComponentMonotone, ComponentClosed
    <3>3. CutOf(graph, Tree(j, x)) # {}
      <4>1. SUFFICES ASSUME CutOf(graph, Tree(j, x)) = {}
                     PROVE  FALSE
        OBVIOUS
      <4>2. Tree(j, x) = Component(graph, x)
        BY <1>5, <2>2, <3>1, <4>1, CutlessTree
      <4>3. Tree(m, x) \subseteq Component(graph, x)
        BY <1>5, <3>1, ComponentMonotone
      <4>4. Tree(j, x) = whole
        BY <3>1, <3>2, <4>2, <4>3
      <4>5. QED
        BY <1>3, <4>1, <4>4
    <3>4. QED
      BY <2>1, <3>1, <3>2, <3>3
  <2>4. v \in whole
    BY <1>5, ComponentClosed
  <2>5. PICK x \in whole : x \notin Tree(j, v)
    <3>1. CutOf(graph, Tree(j, v)) # {}
      <4>1. SUFFICES ASSUME CutOf(graph, Tree(j, v)) = {}
                     PROVE  FALSE
        OBVIOUS
      <4>2. Tree(j, v) = Component(graph, v)
        BY <1>5, <2>2, <4>1, CutlessTree
      <4>3. whole \subseteq Component(graph, v)
        BY <1>5, ComponentMonotone
      <4>4. Tree(j, v) = whole
        BY <2>3, <2>4, <4>2, <4>3
      <4>5. QED
        BY <1>3, <4>1, <4>4
    <3>2. GetSize(j, v) < GetSize(j + 1, v)
      BY <2>1, <3>1, IdleNoneIsolated DEF NoIsolatedTree
    <3>3. GetSize(j, v) \in Nat
      <4>1. IsFiniteSet(Tree(j, v))
        BY NodesAssumption, FS_Subset DEF Component
      <4>2. QED
        BY <4>1, FS_CardinalityType DEF GetSize
    <3>4. Tree(j, v) # whole
      BY <2>1, <3>2, <3>3 DEF GetSize
    <3>5. QED
      BY <2>3, <2>4, <3>4
  <2>6. Tree(j, v) \cap Tree(j, x) = {}
    <3>1. SUFFICES ASSUME NEW y \in Tree(j, v) \cap Tree(j, x)
                   PROVE  FALSE
      OBVIOUS
    <3>2. x \in Nodes /\ y \in Nodes
      BY DEF Component
    <3>3. Tree(j, y) = Tree(j, v) /\ Tree(j, y) = Tree(j, x)
      BY <2>2, <3>1, <3>2, SameTree
    <3>4. QED
      BY <2>3, <2>5, <3>3
  <2>7. /\ Tree(j, v) \in SUBSET whole /\ Tree(j, x) \in SUBSET whole
        /\ 2 ^ j <= Cardinality(Tree(j, v)) /\ 2 ^ j <= Cardinality(Tree(j, x))
    BY <2>3, <2>4, <2>5
  <2>8. /\ Cardinality(Tree(j, v)) \in Nat /\ Cardinality(Tree(j, x)) \in Nat
        /\ Cardinality(whole) \in Nat
        /\ Cardinality(Tree(j, v)) + Cardinality(Tree(j, x)) <= Cardinality(whole)
    BY <1>4, <2>6, <2>7, DisjointParts
  <2>9. 2 ^ m = 2 * 2 ^ j /\ 2 ^ j \in Nat
    BY <2>1, PowerOfTwo
  <2> DEFINE power == 2 ^ j
  <2>10. 2 * power <= Cardinality(whole)
    <3> HIDE DEF Tree, j, whole
    <3>1. power \in Nat /\ power <= Cardinality(Tree(j, v)) /\ power <= Cardinality(Tree(j, x))
      BY <2>7, <2>9
    <3> HIDE DEF power
    <3>2. QED
      BY <2>8, <3>1
  <2>11. QED
    BY <1>3, <2>9, <2>10
<1>8. QED
  BY <1>4, <1>6, <1>7

\* With fewer than 2^NumTiers vertices, the trees of the top tier are the components of
\* the graph: an edge that left one would join it to another as large.
LEMMA TopIsExact ==
    ASSUME ExactInv, EnoughTiers, phase = "idle", NEW v \in Nodes
    PROVE  Component(ett[Top], v) = Component(graph, v)
<1> DEFINE Tree(x) == Component(ett[Top], x)
<1>1. /\ Top \in Tiers /\ Top \in Nat /\ NumTiers = Top + 1
      /\ ett[Top] \in SUBSET graph /\ graph \in SUBSET Edges
  BY TiersFacts, IdleForests, NumTiersAssumption DEF ExactInv, Top
<1>2. SUFFICES ASSUME CutOf(graph, Tree(v)) # {}
               PROVE  FALSE
  BY <1>1, CutlessTree
<1>3. PICK e \in graph : ~(e \subseteq Tree(v)) /\ e \cap Tree(v) # {}
  BY <1>2 DEF CutOf
<1>4. PICK x \in e : x \notin Tree(v)
  BY <1>3
<1>5. PICK y \in e : y \in Tree(v)
  BY <1>3
<1>6. x \in Nodes /\ y \in Nodes /\ e \subseteq Nodes /\ ett[Top] \in SUBSET Edges
  BY <1>1, <1>3, <1>4, <1>5 DEF Edges
<1>7. Tree(v) \cap Tree(x) = {}
  <2>1. SUFFICES ASSUME NEW z \in Tree(v) \cap Tree(x)
                 PROVE  FALSE
    OBVIOUS
  <2>2. z \in Nodes
    BY DEF Component
  <2>3. Tree(z) = Tree(v) /\ Tree(z) = Tree(x)
    BY <1>6, <2>1, <2>2, SameTree
  <2>4. x \in Tree(x)
    BY <1>6, ComponentClosed
  <2>5. QED
    BY <1>4, <2>3, <2>4
<1>8. CutOf(graph, Tree(x)) # {}
  <2>1. x \in Tree(x) /\ y \notin Tree(x)
    BY <1>5, <1>6, <1>7, ComponentClosed
  <2>2. e \in CutOf(graph, Tree(x))
    BY <1>3, <1>4, <1>5, <2>1 DEF CutOf
  <2>3. QED
    BY <2>2
<1> DEFINE power == 2 ^ Top
<1>9. power <= Cardinality(Tree(v)) /\ power <= Cardinality(Tree(x))
  BY <1>1, <1>2, <1>6, <1>8, TreesDouble
<1>10. /\ Cardinality(Tree(v)) \in Nat /\ Cardinality(Tree(x)) \in Nat
       /\ Cardinality(Nodes) \in Nat
       /\ Cardinality(Tree(v)) + Cardinality(Tree(x)) <= Cardinality(Nodes)
  <2>1. Tree(v) \in SUBSET Nodes /\ Tree(x) \in SUBSET Nodes
    BY DEF Component
  <2>2. QED
    BY <1>7, <2>1, NodesAssumption, DisjointParts
<1>11. 2 ^ NumTiers = 2 * power /\ power \in Nat
  BY <1>1, PowerOfTwo
<1>12. Cardinality(Nodes) < 2 * power
  BY <1>11 DEF EnoughTiers
<1> HIDE DEF Tree, power
<1>13. QED
  BY <1>9, <1>10, <1>11, <1>12

\* Between updates both queries answer the connected components of the graph.
THEOREM Exactness == ~SketchesMayFail /\ EnoughTiers => (Spec => []QueriesAreExact)
<1>s. SUFFICES ASSUME ~SketchesMayFail, EnoughTiers
               PROVE  Spec => []QueriesAreExact
  OBVIOUS
<1>1. ASSUME ExactInv, phase = "idle"
      PROVE  /\ GetCC = Components(graph)
             /\ \A a, b \in Nodes : IsConnected(a, b) <=> Connected(graph, a, b)
  <2>1. \A v \in Nodes : Component(ett[Top], v) = Component(graph, v)
    BY <1>1, <1>s, TopIsExact
  <2>2. LctEdges = ett[Top]
    <3>1. ett[Top] = LctUpTo(Top)
      BY <1>1, TiersFacts, IdleForests DEF ExactInv
    <3>2. LctUpTo(Top) = LctEdges
      BY TiersFacts, <1>1 DEF ExactInv, IInv, TypeOK, LctUpTo, LctEdges
    <3>3. QED
      BY <3>1, <3>2
  <2>3. QED
    BY <2>1, <2>2 DEF GetCC, Components, IsConnected, Connected
<1>2. ExactInv => QueriesAreExact
  BY <1>1 DEF QueriesAreExact
<1>3. QED
  BY <1>s, <1>2, ExactInvariance, PTL

\* With sketches that do not fail and enough tiers, GraphTiers implements the exact form
\* of DynamicConnectivity: every query is answered from the components of the graph.
THEOREM ExactRefinement ==
    ~SketchesMayFail /\ EnoughTiers => (Spec => AnswersConnectivity)
<1>s. SUFFICES ASSUME ~SketchesMayFail, EnoughTiers
               PROVE  Spec => AnswersConnectivity
  OBVIOUS
<1>1. ASSUME ExactInv, phase = "idle"
      PROVE  Components(ett[Top]) \in Connectivity!Answers(graph)
  <2>1. Components(ett[Top]) = Components(graph)
    BY <1>1, <1>s, TopIsExact DEF Components
  <2>2. QED
    BY <1>s, <2>1, SameVocabulary DEF Connectivity!Answers
<1>2. (ExactInv /\ phase = "idle" => Components(ett[Top]) \in Connectivity!Answers(graph))'
  BY <1>1, PTL
<1>3. ASSUME ExactInv, ExactInv', [Next]_vars
      PROVE  [Connectivity!Next]_(Connectivity!vars)
  BY <1>2, <1>3, RefinementStep DEF ExactInv
<1>4. Spec => []ExactInv
  BY <1>s, ExactInvariance
<1>5. QED
  BY <1>3, <1>4, RefinementInit, PTL DEF Spec, AnswersConnectivity

==============================================================================
