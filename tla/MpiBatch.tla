------------------------------- MODULE MpiBatch -------------------------------
(***************************************************************************)
(* What the forests and sketches of the MPI engine hold while a batch is   *)
(* processed (src/input_node.cpp, src/tier_node.cpp).  Every rank first    *)
(* applies the whole batch as if no update isolated a tree; an all-reduce  *)
(* finds the first update that did; from that one on everything is undone  *)
(* and the updates are processed one by one, tier after tier.              *)
(*                                                                         *)
(* MpiTiers says in which order the ranks talk, and that all of them apply *)
(* the same operations.  Here the local work of all ranks between two      *)
(* collective calls is one step, and the two broadcasts that cut and link  *)
(* are one step with the operations they make the ranks apply.  A tier's   *)
(* sketches are one set of edges: update_sketches toggles an edge at both  *)
(* of its ends.                                                            *)
(***************************************************************************)
EXTENDS Forests, Sequences

CONSTANTS NumTiers,         \* the number of tier nodes
          BatchSize,        \* the updates the input node buffers
          SketchesMayFail   \* FALSE: sample() finds an edge whenever there is one

\* Tier 0 exchanges sizes with a next tier.
ASSUME MpiBatchAssumption == /\ NumTiers \in Nat /\ NumTiers >= 2
                             /\ BatchSize \in Nat \ {0}
                             /\ SketchesMayFail \in BOOLEAN

VARIABLES
    graph,            \* the edges of the updates applied so far
    ett,              \* ett[i]: the Euler tour forest of tier i
    toggled,          \* toggled[i]: the edges the sketches of tier i summarise
    lct,              \* lct[e]: the weight of e in the input node's link-cut tree, or 0
    query_ett,        \* the input node's query forest
    batch,            \* update_buffer
    split_revert,     \* what the ranks cut while they applied the batch
    checks,           \* checks[i][k]: sizes and samples of tier i after update k
    phase,
    update_idx, tier, endpoint,
    message,          \* the RefreshMessage the current tier received
    before            \* before[k]: what the ranks held before update k (for properties)

vars == <<graph, ett, toggled, lct, query_ett, batch, split_revert, checks, phase,
          update_idx, tier, endpoint, message, before>>
contents == <<graph, ett, toggled, lct, query_ett>>

-------------------------------------------------------------------------------
\* The sequential engine in the state the ranks hold: its operators serve here, and so
\* do its properties.
Engine == INSTANCE GraphTiers WITH
    sketch <- [i \in 0 .. NumTiers - 1 |-> [v \in Nodes |-> {e \in toggled[i] : v \in e}]],
    phase <- "idle", root_nodes <- [i \in 0 .. NumTiers - 1 |-> <<>>],
    update <- [type |-> "NONE"], tier <- 0, endpoint <- 1,
    adding <- {}, evicting <- {}, todo <- {}

Tiers == 0 .. NumTiers - 1
Top   == NumTiers - 1
NoSample == {}
EdgeOf(u) == {u.src, u.dst}
Updates == {u \in [src : Nodes, dst : Nodes, type : {"INSERT", "DELETE"}] : u.src # u.dst}
Holding == [graph |-> graph, ett |-> ett, toggled |-> toggled, lct |-> lct, query_ett |-> query_ett]

\* How one update is applied in every rank: a deleted edge is cut where it is linked and
\* the edge is toggled in the sketches of each tier.
Cuts(F, u) == u.type = "DELETE" /\ EdgeOf(u) \in F
Applied(h, u) ==
    LET e == EdgeOf(u)
        cut(F) == IF Cuts(F, u) THEN EttCut(F, e) ELSE F
        linked == {f \in Edges : h.lct[f] # 0}
    IN  [graph |-> Engine!Toggle(h.graph, e),
         ett |-> [i \in Tiers |-> cut(h.ett[i])],
         toggled |-> [i \in Tiers |-> Engine!Toggle(h.toggled[i], e)],
         lct |-> IF Cuts(linked, u) THEN [h.lct EXCEPT ![e] = 0] ELSE h.lct,
         query_ett |-> IF Cuts(linked, u) THEN EttCut(h.query_ett, e) ELSE h.query_ett]
\* What is kept for the roll-back: the weight of an edge the link-cut tree held, and
\* whether a tier held it.
Reverts(h, u) == [weight |-> IF u.type = "DELETE" THEN h.lct[EdgeOf(u)] ELSE 0,
                  tiers |-> {i \in Tiers : Cuts(h.ett[i], u)}]

\* What the ranks hold after each update of a batch they apply.
Greedy(us) ==
    LET held[k \in 0 .. Len(us)] == IF k = 0 THEN Holding ELSE Applied(held[k - 1], us[k])
    IN  held
\* A batch of a valid stream: inserts absent edges and deletes present ones.
Valid(us) == \A k \in DOMAIN us :
                us[k].type = "DELETE" <=> EdgeOf(us[k]) \in Greedy(us)[k - 1].graph

\* How one update is rolled back: an edge that was cut is linked again, with the weight
\* it had, and the edge is toggled again.
Relinked(F, u, cut) == IF cut THEN EttLink(F, u.src, u.dst) ELSE F
Bug_Retoggled(toggled_i, u) == toggled_i
Retoggled(toggled_i, u) == Engine!Toggle(toggled_i, EdgeOf(u))
Undone(h, u, revert) ==
    LET cut == revert.weight # 0
    IN  [graph |-> Engine!Toggle(h.graph, EdgeOf(u)),
         ett |-> [i \in Tiers |-> Relinked(h.ett[i], u, i \in revert.tiers)],
         toggled |-> [i \in Tiers |-> Retoggled(h.toggled[i], u)],
         lct |-> IF cut THEN [h.lct EXCEPT ![EdgeOf(u)] = revert.weight] ELSE h.lct,
         query_ett |-> Relinked(h.query_ett, u, cut)]

Hold(h) == /\ graph' = h.graph
           /\ ett' = h.ett
           /\ toggled' = h.toggled
           /\ lct' = h.lct
           /\ query_ett' = h.query_ett

\* What a tier takes of the trees of both ends of an update: their size, and the cut
\* their sketches sample from.
Ends(h, i, u) == [k \in {1, 2} |->
    LET tree == Component(h.ett[i], IF k = 1 THEN u.src ELSE u.dst)
    IN  [size |-> Cardinality(tree), cut |-> CutOf(h.toggled[i], tree)]]

-------------------------------------------------------------------------------
Init == /\ graph = {}
        /\ ett = [i \in Tiers |-> {}]
        /\ toggled = [i \in Tiers |-> {}]
        /\ lct = [e \in Edges |-> 0]
        /\ query_ett = {}
        /\ batch = <<>> /\ split_revert = <<>> /\ checks = <<>> /\ before = <<>>
        /\ phase = "idle"
        /\ update_idx = 0 /\ tier = 0 /\ endpoint = 1
        /\ message = <<>>

\* A full buffer, or a query, starts a batch: every rank applies all of it.
ApplyBatch(us) ==
    LET held == Greedy(us)
    IN  /\ phase = "idle"
        /\ Valid(us)
        /\ batch' = us
        /\ Hold(held[Len(us)])
        /\ split_revert' = [k \in DOMAIN us |-> Reverts(held[k - 1], us[k])]
        /\ checks' = [i \in Tiers |-> [k \in DOMAIN us |-> Ends(held[k], i, us[k])]]
        /\ before' = [k \in DOMAIN us |-> held[k - 1]]
        /\ phase' = "reduce"
        /\ UNCHANGED <<update_idx, tier, endpoint, message>>

\* The buffers of a finished batch are not read again.
EndBatch == /\ phase' = "idle"
            /\ batch' = <<>> /\ split_revert' = <<>> /\ checks' = <<>> /\ before' = <<>>
            /\ update_idx' = 0 /\ tier' = 0 /\ endpoint' = 1
            /\ message' = <<>>

Bug_Isolates(i, k, j) == /\ checks[i][k][1].size = checks[i + 1][k][1].size
                         /\ checks[i][k][1].cut # {}
\* After update k the tree of its j-th end has the size of that of the next tier, and
\* edges to sample.
Isolates(i, k, j) == /\ checks[i][k][j].size = checks[i + 1][k][j].size
                     /\ checks[i][k][j].cut # {}

\* allreduce(): the first update that some tier found isolated.
AllReduce ==
    LET found == {k \in DOMAIN batch : \E i \in 0 .. Top - 1, j \in {1, 2} : Isolates(i, k, j)}
        firsts == IF SketchesMayFail THEN found \cup {0}
                  ELSE IF found = {} THEN {0}
                  ELSE {k \in found : \A j \in found : k <= j}
    IN  /\ phase = "reduce"
        /\ \E first \in firsts :
              IF first = 0 THEN EndBatch
              ELSE /\ phase' = "undo"
                   /\ update_idx' = first
                   /\ UNCHANGED <<batch, split_revert, checks, before, tier, endpoint, message>>
        /\ UNCHANGED contents

\* Every rank undoes the updates from the first isolated one on, in the order of the batch.
Undoing ==
    LET held[k \in update_idx - 1 .. Len(batch)] ==
            IF k = update_idx - 1 THEN Holding
            ELSE Undone(held[k - 1], batch[k], split_revert[k])
    IN  held
RollBack == /\ phase = "undo"
            /\ Hold(Undoing[Len(batch)])
            /\ phase' = "next"
            /\ UNCHANGED <<batch, split_revert, checks, before, update_idx, tier, endpoint, message>>

\* What tier i sends to tier i + 1 about both ends of the update.
Messages(h, i) ==
    LET ends == Ends(h, i, batch[update_idx])
        samples(j) == Engine!Samples(ends[j].cut)
    IN  {<<[size |-> ends[1].size, sample |-> s], [size |-> ends[2].size, sample |-> t]>> :
            s \in samples(1), t \in samples(2)}

\* Every rank applies the next update; tier 0 tells tier 1 of its trees.
StartUpdate ==
    LET h == Applied(Holding, batch[update_idx])
    IN  /\ phase = "next"
        /\ Hold(h)
        /\ message' \in Messages(h, 0)
        /\ phase' = "refresh"
        /\ tier' = 1 /\ endpoint' = 1
        /\ UNCHANGED <<batch, split_revert, checks, before, update_idx>>

\* The next end, the next tier, or the next update; h is what the ranks then hold.
Onward(h) ==
    \/ /\ endpoint = 1
       /\ endpoint' = 2
       /\ UNCHANGED <<batch, split_revert, checks, before, phase, update_idx, tier, message>>
    \/ /\ endpoint = 2 /\ tier < Top
       /\ message' \in Messages(h, tier)
       /\ tier' = tier + 1
       /\ endpoint' = 1
       /\ UNCHANGED <<batch, split_revert, checks, before, phase, update_idx>>
    \/ /\ endpoint = 2 /\ tier = Top /\ update_idx = Len(batch)
       /\ EndBatch
    \/ /\ endpoint = 2 /\ tier = Top /\ update_idx < Len(batch)
       /\ update_idx' = update_idx + 1
       /\ phase' = "next"
       /\ tier' = 0 /\ endpoint' = 1
       /\ message' = <<>>
       /\ UNCHANGED <<batch, split_revert, checks, before>>

Bug_CutIn(h, e) == {i \in Tiers : i > h.lct[e]}
\* What the ranks do with a CUT broadcast: the tiers from the edge's weight on hold it ...
CutIn(h, e) == {i \in Tiers : i >= h.lct[e]}
Evicted(h, e) ==
    [graph |-> h.graph,
     ett |-> [i \in Tiers |-> IF i \in CutIn(h, e) THEN EttCut(h.ett[i], e) ELSE h.ett[i]],
     toggled |-> h.toggled,
     lct |-> [h.lct EXCEPT ![e] = 0],
     query_ett |-> EttCut(h.query_ett, e)]
\* ... and with a LINK broadcast of the current tier.
Grown(h, a, b) ==
    [graph |-> h.graph,
     ett |-> [i \in Tiers |-> IF i >= tier THEN EttLink(h.ett[i], a, b) ELSE h.ett[i]],
     toggled |-> h.toggled,
     lct |-> [h.lct EXCEPT ![{a, b}] = tier],
     query_ett |-> EttLink(h.query_ett, a, b)]

\* refresh_tier(), one end: the current tier compares the size it was told with its own.
RefreshTier ==
    LET u == batch[update_idx]
        told == message[endpoint]
        v == IF endpoint = 1 THEN u.src ELSE u.dst
        isolated == told.size = Engine!GetSize(tier, v) /\ told.sample # NoSample
    IN  /\ phase = "refresh"
        /\ \/ /\ ~isolated
              /\ Onward(Holding)
              /\ UNCHANGED contents
           \/ /\ isolated
              /\ \E a, b \in Nodes : \E h \in
                    (IF Connected(Engine!LctEdges, a, b)
                     THEN {Evicted(Holding, e) : e \in Engine!MaxPathEdges(a, b)}
                     ELSE {Holding}) :
                    /\ told.sample = {a, b}
                    /\ Hold(Grown(h, a, b))
                    /\ Onward(Grown(h, a, b))

Next == \/ \E n \in 1 .. BatchSize : \E us \in [1 .. n -> Updates] : ApplyBatch(us)
        \/ AllReduce
        \/ RollBack
        \/ StartUpdate
        \/ RefreshTier

Spec == Init /\ [][Next]_vars

-------------------------------------------------------------------------------
\* The roll-back leaves every rank exactly as it was before the first isolated update:
\* forests, sketches, weights and the query forest.
RollBackRestores == [][phase = "undo" => Holding' = before[update_idx]]_vars

\* After every step the ranks agree: the tiers and the query forest are what the
\* link-cut tree of the input node says, without a cycle, and all tiers summarise the
\* graph of the updates applied so far.
RanksAgree ==
    /\ Engine!TiersMirrorLct
    /\ Engine!TierForests
    /\ query_ett = Engine!LctEdges
    /\ \A i \in Tiers : toggled[i] = graph

\* Whenever a batch is done, when it has been rolled back to its first isolated update
\* and before each update after that, the ranks hold what the sequential engine may hold
\* between updates: its inductive invariant, no isolated tree, exact queries.
BatchesAreSequential ==
    phase \in {"idle", "next"} =>
        /\ Engine!IInv
        /\ ~SketchesMayFail => Engine!NoIsolatedTree /\ Engine!QueriesAreExact

=============================================================================
