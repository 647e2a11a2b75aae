------------------------------ MODULE GraphTiers ------------------------------
(***************************************************************************)
(* class GraphTiers (src/graph_tiers.cpp): one Euler tour forest per tier, *)
(* a linear sketch per vertex and tier, and one link-cut forest that is    *)
(* the union of the tiers, each edge weighted with the first tier that     *)
(* holds it.  update() toggles an edge in the sketches and then repairs    *)
(* every tier in which the tree of an endpoint became isolated, that is,   *)
(* has edges of the graph leaving it and yet did not grow in the next      *)
(* tier.                                                                   *)
(*                                                                         *)
(* The iterations of an "omp parallel for" are separate actions that run   *)
(* in any order; the barrier at the end of the loop is the guard todo = {} *)
(* of the action that follows it.  Iterations of one loop touch disjoint   *)
(* tiers, so each is one step.  An Euler tour tree is represented by the   *)
(* edges it links, a sketch by the set it summarises (a sketch is linear:  *)
(* adding an index twice removes it), a root by the vertices below it.     *)
(***************************************************************************)
EXTENDS Forests

CONSTANTS
    NumTiers,         \* ett.size()
    SketchesMayFail   \* FALSE: sample() finds an edge whenever there is one

ASSUME NumTiersAssumption == NumTiers \in Nat \ {0}
ASSUME SketchesAssumption == SketchesMayFail \in BOOLEAN

VARIABLES
    graph,            \* the edges the update stream has inserted and not deleted
    ett,              \* ett[i]: the edges linked in the Euler tour forest of tier i
    sketch,           \* sketch[i][v]: what the sketch of vertex v in tier i summarises
    lct,              \* lct[e]: the weight of e in the link-cut forest, 0 if absent
    root_nodes,       \* root_nodes[i]: the trees of the two endpoints in tier i
    update,           \* the update in progress
    phase,            \* where update() is
    tier, endpoint,   \* the loop variables of refresh()
    adding,           \* the sampled edge refresh() links
    evicting,         \* the path edge refresh() cuts to make room for it
    todo              \* the iterations of the parallel loop still to run

vars == <<graph, ett, sketch, lct, root_nodes, update, phase, tier, endpoint,
          adding, evicting, todo>>
forests == <<ett, lct>>
loops   == <<update, tier, endpoint>>

-------------------------------------------------------------------------------
Tiers == 0 .. NumTiers - 1
Top   == NumTiers - 1

Bug_TierCount(n) == (CHOOSE t \in 0 .. 2 * n :
                        3 ^ t <= n * 2 ^ t /\ 3 ^ (t + 1) > n * 2 ^ (t + 1)) - 1
\* The largest t with (3/2)^t <= n: what the constructor computes with log2.
TierCount(n) == CHOOSE t \in 0 .. 2 * n :
                    3 ^ t <= n * 2 ^ t /\ 3 ^ (t + 1) > n * 2 ^ (t + 1)

Updates  == [src : Nodes, dst : Nodes, type : {"INSERT", "DELETE"}]
NoUpdate == [type |-> "NONE"]
NoEdge   == {}
NoRoots  == [i \in Tiers |-> <<>>]

LctEdges      == {e \in Edges : lct[e] # 0}
Bug_LctCut(e) == lct
\* LinkCutTree::cut and ::link.
LctCut(e)     == [lct EXCEPT ![e] = 0]
LctLink(e, w) == [lct EXCEPT ![e] = w]
Bug_MaxPathEdges(a, b) == LET path == PathEdges(LctEdges, a, b)
                          IN  {e \in path : \A f \in path : lct[f] >= lct[e]}
\* The edges of greatest weight on the path, any of which path_aggregate may answer.
MaxPathEdges(a, b) == LET path == PathEdges(LctEdges, a, b)
                      IN  {e \in path : \A f \in path : lct[f] <= lct[e]}

\* update_sketch: XOR one index into a sketch.
Toggle(S, e) == (S \ {e}) \cup ({e} \ S)
Bug_UpdatedSketches(i) == [sketch[i] EXCEPT ![update.src] = Toggle(@, {update.src, update.dst})]
\* The two update_sketch calls of one tier.
UpdatedSketches(i) == LET e == {update.src, update.dst}
                      IN  [v \in Nodes |-> IF v \in e THEN Toggle(sketch[i][v], e)
                                                      ELSE sketch[i][v]]
\* The aggregate at a root: the indexes summarised an odd number of times below it.
Aggregate(i, tree) == {e \in Edges : Cardinality({v \in tree : e \in sketch[i][v]}) % 2 = 1}
\* sample(): an index of the sketch, or NoEdge when the result is not GOOD.
Samples(S) == IF S = {} THEN {NoEdge}
              ELSE IF SketchesMayFail THEN S \cup {NoEdge} ELSE S

\* The root of k vertices has size 2k (a tour of 2k-1 and a boundary node): the code
\* only compares sizes, so the number of vertices stands for it.
GetSize(i, v) == Cardinality(Component(ett[i], v))
Bug_EndpointOf(k) == update.src
EndpointOf(k) == IF k = 1 THEN update.src ELSE update.dst

\* The tiers the loops of refresh() cut and link in, and the weight of the new edge.
Bug_EvictTiers(e) == lct[e] + 1 .. Top
EvictTiers(e) == lct[e] .. Top
GrowTiers     == tier + 1 .. Top
Bug_LinkWeight == tier + 2
LinkWeight    == tier + 1

-------------------------------------------------------------------------------
Init == /\ graph = {}
        /\ ett = [i \in Tiers |-> {}]
        /\ sketch = [i \in Tiers |-> [v \in Nodes |-> {}]]
        /\ lct = [e \in Edges |-> 0]
        /\ root_nodes = NoRoots
        /\ update = NoUpdate
        /\ phase = "idle"
        /\ tier = 0 /\ endpoint = 1
        /\ adding = NoEdge /\ evicting = NoEdge
        /\ todo = {}

\* update(): a valid stream inserts absent edges and deletes present ones.  The edge
\* leaves the link-cut forest here and the tiers in the parallel loop that follows.
Update(src, dst) ==
    LET e == {src, dst}
        type == IF e \in graph THEN "DELETE" ELSE "INSERT"
    IN  /\ phase = "idle"
        /\ src # dst
        /\ graph' = Toggle(graph, e)
        /\ update' = [src |-> src, dst |-> dst, type |-> type]
        /\ lct' = IF type = "DELETE" /\ e \in LctEdges
                  THEN LctCut(e) ELSE lct
        /\ phase' = "sketches"
        /\ todo' = Tiers
        /\ UNCHANGED <<ett, sketch, root_nodes, tier, endpoint, adding, evicting>>

\* One iteration of the loop of update(): cut, then update both sketches, keeping
\* the roots their updates reached.
UpdateTier(i) ==
    LET e == {update.src, update.dst}
        tree == IF update.type = "DELETE" /\ e \in ett[i]
                THEN EttCut(ett[i], e) ELSE ett[i]
    IN  /\ phase = "sketches"
        /\ i \in todo
        /\ ett' = [ett EXCEPT ![i] = tree]
        /\ sketch' = [sketch EXCEPT ![i] = UpdatedSketches(i)]
        /\ root_nodes' = [root_nodes EXCEPT ![i] = <<Component(tree, update.src),
                                                     Component(tree, update.dst)>>]
        /\ todo' = todo \ {i}
        /\ UNCHANGED <<graph, lct, loops, phase, adding, evicting>>

\* update() returns: the locals die, and root_nodes is not read again before the
\* next update overwrites it.
Return == /\ phase' = "idle"
          /\ update' = NoUpdate
          /\ tier' = 0 /\ endpoint' = 1
          /\ root_nodes' = NoRoots
          /\ adding' = NoEdge /\ evicting' = NoEdge
          /\ todo' = {}

Bug_IsolatedRoots ==
    {p \in (0 .. Top - 1) \X {1} :
        /\ Cardinality(root_nodes[p[1]][p[2]]) = Cardinality(root_nodes[p[1] + 1][p[2]])
        /\ Aggregate(p[1], root_nodes[p[1]][p[2]]) # {}}
\* The trees of root_nodes that have the size of the tree above and a non-empty sketch.
IsolatedRoots ==
    {p \in (0 .. Top - 1) \X {1, 2} :
        /\ Cardinality(root_nodes[p[1]][p[2]]) = Cardinality(root_nodes[p[1] + 1][p[2]])
        /\ Aggregate(p[1], root_nodes[p[1]][p[2]]) # {}}

\* The first pass of refresh(), over the roots kept by the loop of update(): it
\* returns unless some sketch of an isolated tree gives an edge.
CheckIsolated ==
    /\ phase = "sketches" /\ todo = {}
    /\ \E isolated \in (IF IsolatedRoots = {} THEN {FALSE}
                        ELSE IF SketchesMayFail THEN BOOLEAN ELSE {TRUE}) :
          IF isolated
          THEN /\ phase' = "refresh"
               /\ root_nodes' = NoRoots
               /\ UNCHANGED <<loops, adding, evicting, todo>>
          ELSE Return
    /\ UNCHANGED <<graph, forests, sketch>>

\* The next endpoint, the next tier, or the end of both loops.
NextEndpoint ==
    IF endpoint = 2 /\ tier + 1 >= Top
    THEN Return
    ELSE /\ phase' = "refresh"
         /\ endpoint' = 3 - endpoint
         /\ tier' = IF endpoint = 2 THEN tier + 1 ELSE tier
         /\ adding' = NoEdge /\ evicting' = NoEdge
         /\ todo' = {}
         /\ UNCHANGED <<update, root_nodes>>

\* refresh(), one endpoint of one tier: skip a tree that grew in the next tier or
\* whose sketch gives no edge; otherwise find what to cut before linking the edge.
RefreshEndpoint ==
    LET v == EndpointOf(endpoint)
        grew == GetSize(tier, v) # GetSize(tier + 1, v)
        sample == IF grew THEN {NoEdge} ELSE Samples(Aggregate(tier, Component(ett[tier], v)))
    IN  /\ phase = "refresh"
        /\ \E e \in sample :
              \/ /\ e = NoEdge
                 /\ NextEndpoint
              \/ \E a, b \in Nodes :
                    /\ e = {a, b}
                    /\ adding' = e
                    /\ \/ /\ Connected(LctEdges, a, b)
                          /\ evicting' \in MaxPathEdges(a, b)
                          /\ phase' = "evict"
                          /\ todo' = EvictTiers(evicting')
                       \/ /\ ~Connected(LctEdges, a, b)
                          /\ phase' = "grow"
                          /\ todo' = GrowTiers
                          /\ UNCHANGED evicting
                    /\ UNCHANGED <<loops, root_nodes>>
        /\ UNCHANGED <<graph, forests, sketch>>

\* One iteration of the loop that cuts the evicted edge.
EvictTier(i) == /\ phase = "evict"
                /\ i \in todo
                /\ ett' = [ett EXCEPT ![i] = EttCut(@, evicting)]
                /\ todo' = todo \ {i}
                /\ UNCHANGED <<graph, sketch, lct, root_nodes, loops, phase, adding, evicting>>

\* link_cut_tree.cut(c, d), then on to the loop that links.
EvictLct == /\ phase = "evict" /\ todo = {}
            /\ lct' = LctCut(evicting)
            /\ phase' = "grow"
            /\ evicting' = NoEdge
            /\ todo' = GrowTiers
            /\ UNCHANGED <<graph, ett, sketch, root_nodes, loops, adding>>

\* One iteration of the loop that links the sampled edge.
GrowTier(i) == /\ phase = "grow"
               /\ i \in todo
               /\ \E a, b \in Nodes : /\ adding = {a, b}
                                      /\ ett' = [ett EXCEPT ![i] = EttLink(@, a, b)]
               /\ todo' = todo \ {i}
               /\ UNCHANGED <<graph, sketch, lct, root_nodes, loops, phase, adding, evicting>>

\* link_cut_tree.link(a, b, tier+1), then the next endpoint.
GrowLct == /\ phase = "grow" /\ todo = {}
           /\ lct' = LctLink(adding, LinkWeight)
           /\ NextEndpoint
           /\ UNCHANGED <<graph, ett, sketch>>

Next == \/ \E src, dst \in Nodes : Update(src, dst)
        \/ \E i \in Tiers : UpdateTier(i) \/ EvictTier(i) \/ GrowTier(i)
        \/ CheckIsolated
        \/ RefreshEndpoint
        \/ EvictLct
        \/ GrowLct

\* update() runs to its end once called; nobody is obliged to call it.
Running == \/ \E i \in Tiers : UpdateTier(i) \/ EvictTier(i) \/ GrowTier(i)
           \/ CheckIsolated \/ RefreshEndpoint \/ EvictLct \/ GrowLct

Spec == Init /\ [][Next]_vars /\ WF_vars(Running)

-------------------------------------------------------------------------------
\* Queries, asked between updates.
IsConnected(a, b) == Connected(LctEdges, a, b)
GetCC == Components(ett[Top])

-------------------------------------------------------------------------------
TypeOK == /\ graph \in SUBSET Edges
          /\ ett \in [Tiers -> SUBSET Edges]
          /\ sketch \in [Tiers -> [Nodes -> SUBSET Edges]]
          /\ lct \in [Edges -> Tiers]
          /\ root_nodes \in [Tiers -> {<<>>} \cup ((SUBSET Nodes) \X (SUBSET Nodes))]
          /\ update \in Updates \cup {NoUpdate}
          /\ phase \in {"idle", "sketches", "refresh", "evict", "grow"}
          /\ tier \in Tiers
          /\ endpoint \in {1, 2}
          /\ adding \in Edges \cup {NoEdge}
          /\ evicting \in Edges \cup {NoEdge}
          /\ todo \in SUBSET Tiers
          /\ (phase = "idle" <=> update = NoUpdate)

\* The link-cut forest restricted to the edges of weight at most i.
LctUpTo(i) == {e \in LctEdges : lct[e] <= i}

\* What tier i holds: the edges of the link-cut forest up to weight i, except where
\* a parallel loop has run in the tiers and the link-cut forest is yet to follow, or
\* (in update()) the link-cut forest went first.
Expected(i) ==
    IF phase = "evict" /\ i >= lct[evicting] /\ i \notin todo THEN LctUpTo(i) \ {evicting}
    ELSE IF phase = "grow" /\ i > tier /\ i \notin todo THEN LctUpTo(i) \cup {adding}
    ELSE LctUpTo(i)
AwaitsCut(i) == phase = "sketches" /\ i \in todo /\ update.type = "DELETE"

\* The tiers and the link-cut forest, which refresh() and update() change in separate
\* loops and by separate conditions, always describe one nested family of forests.
TiersMirrorLct ==
    \A i \in Tiers :
        IF AwaitsCut(i) THEN ett[i] \ {{update.src, update.dst}} = Expected(i)
                        ELSE ett[i] = Expected(i)

\* No tier and no link-cut tree ever holds a cycle, whatever the sketches sample and
\* in whatever order the parallel iterations run.
TierForests == Acyclic(LctEdges) /\ \A i \in Tiers : Acyclic(ett[i])

\* link() is only called on vertices of two trees and cut() only on a linked edge, in
\* every tier and in the link-cut forest: none of them is silently refused, and the
\* assertions of link_cut_tree.cpp:301 and :315 hold.
LinksAndCutsTakeEffect ==
    /\ phase = "evict" => /\ evicting \in LctEdges
                          /\ \A i \in todo : evicting \in ett[i]
    /\ phase = "grow" => \A a, b \in Nodes : adding = {a, b} =>
                            /\ ~Connected(LctEdges, a, b)
                            /\ \A i \in todo : ~Connected(ett[i], a, b)

\* The sketch at the root of every tree summarises exactly the edges of the graph that
\* leave the tree: edges inside cancel, and no update was lost or applied twice.
RootSketchIsCut ==
    \A i \in {j \in Tiers : ~(phase = "sketches" /\ j \in todo)} :
        \A v \in Nodes : LET tree == Component(ett[i], v)
                         IN  Aggregate(i, tree) = CutOf(graph, tree)

\* refresh() repairs the tiers from the bottom up: once it is at a tier, that tier and
\* those below no longer change, and the trees of the next tier only grow.
Settles == \A i \in Tiers : /\ i <= tier => ett'[i] = ett[i]
                           /\ i = tier + 1 => ett[i] \subseteq ett'[i]
Refreshing == phase \in {"refresh", "evict", "grow"}
SweptTiersSettle == [][Refreshing => Settles]_vars

\* The invariant of the algorithm: between updates no tree below the top tier is
\* isolated, although refresh() looked only at the trees of the two endpoints.
NoIsolatedTree ==
    phase = "idle" =>
        \A i \in 0 .. Top - 1 : \A v \in Nodes :
            CutOf(graph, Component(ett[i], v)) # {} => GetSize(i, v) < GetSize(i + 1, v)

\* Every tier doubles the least size of an isolated tree: the top tier needs this many.
EnoughTiers == Cardinality(Nodes) < 2 ^ NumTiers

\* Both queries answer the connected components of the graph.
QueriesAreExact ==
    phase = "idle" => /\ GetCC = Components(graph)
                      /\ \A a, b \in Nodes : IsConnected(a, b) <=> Connected(graph, a, b)

-------------------------------------------------------------------------------
(***************************************************************************)
(* The inductive invariant behind the safety properties.                   *)
(***************************************************************************)
\* What the position in update() says of the loop variables.
ControlInv ==
    /\ phase \in {"idle", "sketches"} => tier = 0
    /\ phase = "sketches" => update.src # update.dst
    /\ phase \in {"refresh", "evict", "grow"} => tier < Top
    /\ phase \in {"evict", "grow"} => adding \in Edges /\ adding \in graph
    /\ phase = "evict" => evicting \in LctEdges /\ todo \subseteq lct[evicting] .. Top
    /\ phase = "grow" => todo \subseteq tier + 1 .. Top

\* A sketch is the incidence vector of its vertex in the graph, or in the graph before
\* the update if the loop of update() has yet to reach the tier.
SketchInv ==
    \A i \in Tiers : \A v \in Nodes :
        sketch[i][v] = {e \in IF phase = "sketches" /\ i \in todo
                              THEN Toggle(graph, {update.src, update.dst})
                              ELSE graph : v \in e}

\* The link-cut forest only holds edges of the graph.
LctInGraph == LctEdges \subseteq graph

\* What refresh() found when it sampled: the edge joins two trees, or will once the
\* evicted edge is gone, and no evicted edge belongs to the next tier.
RefreshInv ==
    \A a, b \in Nodes : adding = {a, b} =>
        /\ phase = "grow" => ~Connected(LctEdges, a, b)
        /\ phase = "evict" => /\ ~Connected(LctEdges \ {evicting}, a, b)
                              /\ lct[evicting] > tier + 1

IInv == /\ TypeOK
        /\ ControlInv
        /\ SketchInv
        /\ LctInGraph
        /\ RefreshInv
        /\ TiersMirrorLct
        /\ TierForests

\* The forest tier i will hold once the edge in hand is linked.  It changes when an edge
\* is sampled, and with update(), but not during the parallel loops.
Planned(i) ==
    IF phase = "evict" /\ i > tier THEN (LctUpTo(i) \ {evicting}) \cup {adding}
    ELSE IF phase = "grow" /\ i > tier THEN LctUpTo(i) \cup {adding}
    ELSE LctUpTo(i)

\* The tree of v in tier i has edges of the graph leaving it and does not grow in the
\* next tier.
Isolated(i, v) == /\ Component(Planned(i), v) = Component(Planned(i + 1), v)
                  /\ CutOf(graph, Component(Planned(i), v)) # {}

\* The loops of refresh() have yet to deal with endpoint k in tier i.
Unswept(i, k) == \/ phase = "sketches"
                 \/ Refreshing /\ \/ i > tier
                                  \/ i = tier /\ \/ k > endpoint
                                                 \/ k = endpoint /\ phase = "refresh"

\* With sketches that do not fail, an isolated tree is the tree of an endpoint that
\* refresh() has yet to come to.
RepairInv == \A i \in 0 .. Top - 1 : \A v \in Nodes :
    Isolated(i, v) => \E k \in {1, 2} : /\ Unswept(i, k)
                                       /\ EndpointOf(k) \in Component(Planned(i), v)

\* The roots the loop of update() keeps are those of the endpoints, and the loops of
\* refresh() start at the first of them.
RootsInv == /\ phase \in {"idle", "sketches"} => endpoint = 1
            /\ phase = "sketches" => \A i \in Tiers \ todo :
                  root_nodes[i] = <<Component(ett[i], update.src), Component(ett[i], update.dst)>>

\* What is inductive when the sketches do not fail.
ExactInv == IInv /\ RootsInv /\ RepairInv

-------------------------------------------------------------------------------
\* GraphTiers implements DynamicConnectivity: a query is served between updates.
Connectivity == INSTANCE DynamicConnectivity WITH
    Exact   <- ~SketchesMayFail,
    serving <- phase = "idle",
    cc      <- IF phase = "idle" THEN GetCC ELSE {},
    same    <- IF phase = "idle"
               THEN {p \in Nodes \X Nodes : IsConnected(p[1], p[2])} ELSE {}

\* Queries are only answered between updates, both of them from one partition that
\* DynamicConnectivity allows for the graph of that moment.
AnswersConnectivity == Connectivity!Init /\ [][Connectivity!Next]_(Connectivity!vars)

\* Every update returns, and both queries then answer as DynamicConnectivity allows.
ImplementsConnectivity == Connectivity!Spec

=============================================================================
