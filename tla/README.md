# Verification of the dynamic connectivity engine

TLA+ models, TLC runs and TLAPS proofs for the program in `src/`, which keeps the
connected components of a graph under edge insertions and deletions using linear
sketches.  The reference is the code; every definition that models code is listed with
its lines in `PROJECT.json` ("map").

## 1. Inventory

| part | state | operations | used by |
|---|---|---|---|
| `GraphTiers` (`src/graph_tiers.cpp`) | one `EulerTourTree` per tier, a `LinkCutTree`, `root_nodes` | `update`, `refresh`, `get_cc`, `is_connected` | tests, directly |
| `EulerTourTree`, `EulerTourNode` (`src/euler_tour_tree.cpp`) | per vertex: the occurrences of the vertex in its tour (`edges`), the occurrence that carries the sketch (`allowed_caller`); one `temp_sketch` per forest | `link`, `cut`, `has_edge`, `update_sketch(es)`, `get_root`, `get_size` | `GraphTiers`, `TierNode` |
| `SkipListNode` (`src/skiplist.cpp`) | levels of nodes with `left/right/up/down/parent`, a partial sketch, a size and a buffer of 25 updates | `join`, `split_left`, `split_right`, `update_path_agg`, `process_updates` | `EulerTourNode` |
| `LinkCutTree` (`src/link_cut_tree.cpp`) | splay trees of preferred paths, reversal bits, cached head, tail and maximum | `link`, `cut`, `find_root`, `path_aggregate` | `GraphTiers`, `InputNode` |
| `InputNode` (`src/input_node.cpp`), rank 0 | batch of updates, link-cut tree, query forest, roll-back weights, isolation history | `update`, `process_updates`, queries, `end` | MPI tests |
| `TierNode` (`src/tier_node.cpp`), ranks 1.. | one Euler tour forest, batch, sizes, sample results, roll-back flags | `main`, `refresh_tier`, `ett_update_tier` | MPI tests |
| `mpi_functions.h` | none | `bcast`, `allreduce` (MIN) | both nodes |
| `SketchlessEulerTourTree`, `SketchlessSkipListNode` | as above without sketches | `link`, `cut`, `is_connected`, `cc_query` | `InputNode` |
| `BinaryGraphStream`, `BinaryGraphStream_MT`, `MT_StreamReader` | shared atomic offset, break point, per-thread buffer | `get_edge`, `read_data`, `register_query` | tests |
| CameoSketch | external library | `update`, `merge`, `sample` | skip list, tiers |

How they interact.  All calls are synchronous inside a process.  `GraphTiers` calls its
forests from `omp parallel for` loops, one iteration per tier; the iterations share
nothing but read-only locals, and the loop ends with a barrier.  In the MPI engine each
tier is a process: the input node broadcasts a batch, neighbouring tiers exchange tree
sizes by blocking point-to-point messages, an all-reduce finds the first update of the
batch that isolates a tree, everybody rolls back to it, and the repair proceeds tier by
tier as a sequence of broadcasts whose length depends on what earlier ones said.

What is hard, and what makes each part correct:

- **GraphTiers.**  Three representations of one spanning forest (tiers, link-cut tree,
  sketches) changed in separate loops under separate conditions; repairs only look at the
  trees of the two endpoints; sampling may fail.  *Correct when* the tiers are nested
  forests that the weights of the link-cut tree describe, every root sketch is the exact
  cut of its tree, no link or cut is refused, no tree stays isolated, and both queries
  answer the components.
- **Euler tours.**  The sketch of a vertex sits at one of its occurrences and has to move
  when the occurrence is deleted; a cut has to find which fragment is the inner one.
  *Correct when* each tree is one cyclic tour, each vertex has exactly one carrier, and
  the aggregate of the tour is the sum of its vertices' sketches.
- **Skip lists.**  Aggregates with pending buffered updates under join and split.
  *Correct when* every node's sketch plus buffer equals the sum of the level below.
- **Link-cut tree.**  Lazy reversals and caches under splay and splice.  *Correct when* it
  represents the forest that its links and cuts describe, and path_aggregate is a maximum.
- **MPI engine.**  Deadlock, mismatched collectives, roll-back, stale batch samples.
  *Correct when* no rank waits for ever and the ranks together do what `GraphTiers` does.
- **Stream readers.**  Races between the shared offset, the break point and the end of the
  file.  *Correct when* every update is handed out once, and none beyond a break point, and
  when a query asked for on demand stops each reader after one buffer at most.

## 2. Modules

| module | what it is |
|---|---|
| `Forests` | graphs as sets of two-vertex edges; trees, paths, cuts.  Reachability through closed vertex sets, without recursion, so that TLC and TLAPS use one definition. |
| `DynamicConnectivity` | what the program promises: after each update, both queries answer one partition, the components of the graph (or, if sketches may fail, one that never joins two components). |
| `GraphTiers` | the engine of `graph_tiers.cpp`; its invariants, its inductive invariant `IInv`, its refinement of `DynamicConnectivity`. |
| `MCGraphTiers` | the instance for TLC: number of tiers from the constructor's formula, symmetry of the vertices. |
| `MpiTiers` | the protocol of the MPI engine: the programs of the input node and of the tier nodes as processes, with every send, receive, broadcast and all-reduce. |
| `MpiBatch`, `MCMpiBatch` | what the ranks of the MPI engine hold: greedy application of a batch, roll-back, refresh; uses `GraphTiers` as an instance for its operators and its invariants. |
| `EulerTours` | tours as sequences of occurrences; what `link` and `cut` of both Euler tour trees do to them. |
| `LinkedForest` | what a dynamic forest promises: a link takes effect between two trees, a cut on a linked edge. |
| `SketchlessEulerTourTree` | the query forest of the input node. |
| `EulerTourTree`, `MCEulerTourTree` | the same with sketches: `allowed_caller` and `temp_sketch`; refines `LinkedForest` and `SketchlessEulerTourTree`. |
| `SketchlessSkipList` | the lists of nodes, their boundaries and parent pointers. |
| `SkipList`, `MCSkipList` | extends it by aggregates, sizes and update buffers. |
| `LinkCutTree`, `MCLinkCutTree` | splay trees of preferred paths, reversals and caches. |
| `StreamReaders` | the shared offset of the multi-threaded stream and its break points. |
| `ForestProofs` | lemmas about `Forests`: closed sets, adding and removing an edge, components, paths, swapping an edge on a cycle, edges leaving a part, sizes of components; the least number of a set, which stands for induction. |
| `GraphTiersProofs` | the structure of `GraphTiers`: `IInv` and what follows from it; its answers when sketches do not fail: `ExactInv`, no isolated tree, exactness. |
| `EulerTourProofs` | the theorems about `EulerTourTree`, and the lemmas about `EulerTours` they rest on: sequences cut up and joined, what a tour spans, linking two tours, cutting one. |
| `SkipListProofs` | the theorems about `SkipList`, and lemmas: the places of a list, what covers a place on a level, what a node stands over, sums and weights of parts. |
| `MpiSteps` | the inductive invariants of `MpiTiers`, `IInv` and `LogInv`, and lemmas: the places a rank comes by while it takes broadcasts; every action is a step that broadcasts, takes a broadcast, or does neither. |
| `MpiTiersProofs` | the theorems about `MpiTiers`. |
| `MpiBatchProofs` | the theorems about `MpiBatch`: agreement of the ranks, the roll-back, and what a refresh repairs; an instance of `GraphTiersProofs` carries its exactness over. |
| `StreamReadersProofs` | the theorems about `StreamReaders`. |

### GraphTiers against the code

| code | model |
|---|---|
| `ett[i]` | `ett[i]`, the set of edges linked in tier i |
| sketches of the vertices | `sketch[i][v]`, the set of indexes XORed in an odd number of times |
| `link_cut_tree` | `lct`, edge to weight (0 absent) |
| `root_nodes` | the vertex sets below the two roots |
| loop variables, locals of `update`/`refresh` | `update, phase, tier, endpoint, adding, evicting` |
| iterations of a parallel loop not yet run | `todo` |
| lines 46-51, up to the parallel loop | `Update` |
| one iteration, 53-62 | `UpdateTier(i)` |
| first pass of refresh, 70-105 | `CheckIsolated` |
| one (tier, endpoint), 109-150 | `RefreshEndpoint` |
| 151-158, one iteration; 160 | `EvictTier(i)`; `EvictLct` |
| 164-171, one iteration; 173 | `GrowTier(i)`; `GrowLct` |
| `is_connected`, `get_cc` | `IsConnected`, `GetCC`, state functions (neither changes the forests) |

A component's contract stands for the component: `EttLink` and `EttCut` for the Euler
tours (`EulerTourTree` implements them, `ImplementsForest`), `LctLink`, `LctCut`,
`Connected` and `MaxPathEdges` for the link-cut tree (`LinkCutTree` represents the linked
edges, `RepresentsForest`, tells the trees apart, `RootsTellTrees`, and answers a heaviest
edge, `AggregateIsHeaviest`), `Aggregate` and `GetSize` for the skip list's root
(`AggregatesAreSums`, `SizesCount`).  `MaxPathEdges` leaves open which of several heaviest
edges is answered.  `Samples` is any edge of the sketched set; when `SketchesMayFail` it may
also be a failure.  The link-cut tree is only touched by the main thread, so its operations
are one step each.

Assumed of the caller: a valid stream (inserts absent edges, deletes present ones, no self
loops), as the tests' generators produce, and queries asked between updates, as the engine
is called from one thread.

Definitions named `Bug_...` are mutated forms of the definition below them.  No
specification uses them; replacing the definition by its mutated form makes a property
fail, which shows that the property depends on that piece of code.

### MpiTiers against the code

Each rank has the local variables of its loops and a location in `loc[r]`.  The actions
follow the text of the two programs: `StartBatch`/`EndStream` and `TakeBatch` are the
broadcast at the top of the loop, `ExchangeSizes` the even/odd exchange, `AllReduce` the
all-reduce, then per update `StartRefresh`, `TakeRefresh`, `PassRefresh` hand the turn from
tier to tier; `Declare`, `TakeResponse`, `AnnounceCut`, `AnnounceLink` are `refresh_tier`;
`FollowHead`, `Answer`, `FollowOp` are what all other ranks do meanwhile.

A send puts its message in `net` and a broadcast in `bcasts` of every other rank, in call
order: MPI matches the collectives of a communicator by the order in which each rank calls
them, not by their root, which is what `CollectivesMatch` is about.  Whether a send or the
root of a broadcast waits for its receivers is up to the library; the model leaves it open
per message (`Waits`) and remembers in `blocked` whom a rank still waits for.  The
all-reduce lets all ranks go in one step.  The sliding-window branch is left out: the code
disables it (`input_node.cpp:40`).

The forests are abstracted to `log[r]`, the cuts and links rank r applied for the update it
is at; the decisions (isolated or not, cycle or not, weight of the evicted edge) are open,
except that an evicted edge is heavier than the tier that links, which is `RefreshInv` of
`GraphTiers`.  The roll-back and greedy application are local
to a rank and are in `MpiBatch`.

### MpiBatch against the code

| code | model |
|---|---|
| `ett` of each tier node, sketches | `ett[i]`, `toggled[i]`: the edges toggled an odd number of times, always at both ends |
| `link_cut_tree`, `query_ett` of the input node | `lct`, `query_ett` |
| `update_buffer`, both `split_revert_buffer`s | `batch`, `split_revert` |
| `this_sizes_buffer`, `query_result_buffer` | `checks` |
| batch loop of `TierNode::main` and of `process_updates` | `ApplyBatch`, with `Greedy` for what the ranks hold after each update |
| size comparison and all-reduce | `AllReduce` |
| the undo loops | `RollBack`: `Undoing`, of `Relinked` edges and `Retoggled` sketches |
| cut and toggle of one update, tier 0's message | `StartUpdate` |
| `refresh_tier` for one endpoint, with what its broadcasts make the others do | `RefreshTier`: `Evicted` in the tiers of `CutIn`, then `Grown` |
| the ends of the loops over endpoints, tiers and updates | `Onward` |

Between two collective calls the ranks share nothing, so their local work is one step; that
messages and broadcasts put every rank in the same place is what `MpiTiers` checks.
`before` remembers, for `RollBackRestores` only, what the ranks held before each update of
the batch.  `graph` is the graph of the updates applied so far.

### Euler tours, skip lists, link-cut tree against the code

`EulerTours`: the occurrence `<<v, w>>` is the list node under key w in `edges` of vertex v,
`<<v, Null>>` its sentinel.  A skip list is the sequence of its occurrences.
`edges.begin()` is any entry of the map, as for an `unordered_map`.  `tours` are the lists,
`ett_nodes` the vertices, `sketch[o]` the sketch in the level-1 node of occurrence o,
`temp_sketch` the forest's.  One operation of the class is one action.

`SketchlessSkipList`: the pointers left and right are the order of a sequence, up and down
the levels of a node; parent, by which every root is found, is a function of its own and is
changed where the code changes it.  `SkipList` adds `cell[n]`: aggregate, size and buffer of
each node.  The calls are those `EulerTourNode` makes, in any order: an element is created
alone and deleted when alone, because `link` and `cut` split around it first.

`LinkCutTree`: `heap` is the record of all node fields, each a function of the node.  Each
operation of the class is an operator from heap to heap; `FindRoot` and `PathAggregate` are
actions because they restructure the trees.  Heads and tails of nodes that are not roots of
their splay tree are not kept by the code; the model sets them to `Null` when a node gets a
parent, so that reading a stale one could not go unnoticed.  `Link` is called for vertices of
different trees, `Cut` for a linked edge and `PathAggregate` within one tree, as the
assertions of the class demand.

### StreamReaders against the code

Offsets count updates.  `reader[r].pc` is the next access of `read_data()` to a shared
atomic; a test that reads `query_index` is one step with the access before it, because that
field only changes while all threads are paused, as the class demands of its user.  The
user may ask for an on-demand query at any moment.  Every thread pauses when it gets
BREAKPOINT and goes on when all have.  `register_query` takes any index beyond the offset, also
one behind the end of the file; one from `NoQuery` on is beyond every offset the readers can
reach (`TypeCorrect`) and is the same as none.

## 3. Runs

| run | instance | checks | shows |
|---|---|---|---|
| `tiers_structure` | 4 vertices, 3 tiers, sketches may fail, symmetry; about 20 500 states | `TypeOK`, `TiersMirrorLct`, `TierForests`, `LinksAndCutsTakeEffect`, `RootSketchIsCut`, `SweptTiersSettle`, `AnswersConnectivity` | the structure survives every order of iterations and every failure of a sketch; queries are never over-connected |
| `tiers_exact` | 5 vertices, 3 tiers, sketches succeed, symmetry; about 41 700 states | `NoIsolatedTree`, `QueriesAreExact` | repairing the endpoints' trees is enough, and the answers are exact |
| `tiers_service` | 4 vertices, 3 tiers, sketches succeed, no symmetry; about 35 700 states | `ImplementsConnectivity` | refinement of `DynamicConnectivity` with its liveness: every update returns |
| `tiers_two_vertices` | 2 vertices, 1 tier | `QueriesAreExact`, violated | finding below |
| `mpi_buffered` | 3 tiers, batches of 1 or 2, sends may wait or not; 220 060 states | `TypeOK`, `CollectivesMatch`, `TiersFollowLct`, `BatchesAreSeparate`, no deadlock | the ranks stay in step however the library buffers |
| `mpi_four_tiers` | 4 tiers, batches of 1, every send waits; 164 128 states | `TiersFollowLct`, no deadlock | the same with an even and an odd tier between the ends |
| `mpi_liveness` | 3 tiers, batches of 1, sends may wait or not; 58 722 states | `BatchesComplete` | every batch ends everywhere, and the end of the stream reaches all |
| `mpi_batch` | 4 vertices, 3 tiers, all batches of 1 or 2, sketches succeed, symmetry; 25 132 states | `RanksAgree`, `BatchesAreSequential`, `RollBackRestores` | the batch engine does what the sequential engine does, through greedy application and roll-back |
| `euler_tours` | 4 vertices, one index, symmetry; 641 states | `TypeOK`, `ToursAreEuler`, `OneCarrier`, `QueriesAnswerTrees`, `SketchesStay`, `ImplementsForest`, `ImplementsSketchless` | tours stay tours, each vertex keeps its sketch, whatever `edges.begin()` is |
| `skip_lists` | 4 elements, heights 1, 2, 2, 3, buffers of 2, two updates, symmetry; 134 550 states | `TypeOK`, `ParentsAreNearest`, `AggregatesAreSums`, `SizesCount`, `ContentsStay` | every level stays a summary of the one below |
| `link_cut` | 4 vertices, weights 1 and 2, symmetry; 6 256 states | `TypeOK`, `RepresentsForest`, `CachesAreRight`, `RootsTellTrees`, `AggregateIsHeaviest` | lazy reversals and cached ends never mislead an answer |
| `stream_readers` | 3 readers, 5 updates, blocks of 2; 420 912 states | `TypeOK`, `EachOnce`, `BreakPointIsExact`, `QueriesAreReached` | updates are read once, break points are exact, and queries are reached: the readers pause again and again, and an on-demand query lets each take one buffer more at most |

In `MpiTiers` the end of a batch leads back to the initial state, so the runs cover any
number of batches.  The state after the stream's end, all ranks returned, is the one state
in which the system may stop (`Terminated`).

The state spaces are complete: in `GraphTiers` the graph ranges over all graphs on the
vertices and no counter is bounded.  An evicted edge is at least two tiers heavier than the
tier under repair (`RefreshInv`), so three tiers, that is four vertices, are the smallest
instance with evictions; five vertices let two components merge in different tiers.

The bounds of the data structures.  Four vertices give a tree with a path of three edges,
which is where a splay step has a grandparent, and tours in which a cut has fragments on
three sides; a sketch is linear, so one index shows any loss.  Heights 1 to 3 make each of
the branches of `join` and `split_left` happen: left list taller, right list taller,
boundary trimmed, several leading nodes on one level; two updates fill a buffer of two, and
one leaves it half full.  `MaxUpdates` bounds the updates of a behaviour: the aggregates are
sums modulo two and the buffers are the only other trace of them.  A batch of two has an
update before and one after an isolated one, and toggles an edge twice.  Three readers and
five updates in blocks of two make a claim beyond the break point, one beyond the end and
one cut short by either, all at once.

Symmetry is used only with invariants and safety properties, in which the vertices are
interchangeable; the liveness run uses none.

Fairness.  `Spec` has weak fairness on `Running`, the steps of an update under way:
`update()` runs on the caller's thread and the OpenMP threads, and its loops contain no
wait other than the barrier.  In `MpiTiers` each rank is a process and has weak fairness on
its own steps, and the all-reduce once all ranks have reached it; starting a batch or ending
the stream has none.  In `StreamReaders` each reader thread keeps calling `get_edge()` until
it returns BREAKPOINT, as the class asks of its user; the user has no fairness.  `Update` itself has no fairness: nobody needs to call it.

**Finding: two vertices.**  `num_tiers = log2(n)/(log2(3)-1)` (`graph_tiers.cpp:26`)
gives 1 for n = 2, and `refresh()` only looks at tiers below the top one, so no edge is
ever linked and two connected vertices are reported as separate.  The algorithm needs
n < 2^num_tiers (theorem `Exactness`), which the formula gives from n = 3 on:
`TierCountIsEnough`, an assumption of `MCMpiBatch` that TLC evaluates, checks it for every n
up to 500 against exact powers of three.

## 4. Proofs

`tlapm` checks every statement below from nothing, for every value of the constants that
satisfies the named assumptions.

| module | theorem | property | assumed |
|---|---|---|---|
| `GraphTiersProofs` | `Invariance` | `IInv` | `NodesAssumption` (vertices are a finite set), `NumTiersAssumption` (a tier at least), `SketchesAssumption` (a flag is Boolean) |
| | `TypeCorrect` | `TypeOK` | |
| | `Mirror` | `TiersMirrorLct` | |
| | `Forest` | `TierForests` | |
| | `TakeEffect` | `LinksAndCutsTakeEffect` | |
| | `RootSketch` | `RootSketchIsCut` | |
| | `SweptSettle` | `SweptTiersSettle` | |
| | `Refinement` | `AnswersConnectivity` | and sketches may fail |
| | `ExactInvariance` | `ExactInv` | and sketches do not fail |
| | `NothingStaysIsolated` | `NoIsolatedTree` | and sketches do not fail |
| | `Exactness` | `QueriesAreExact` | and sketches do not fail, n < 2^NumTiers |
| | `ExactRefinement` | `AnswersConnectivity` | and sketches do not fail, n < 2^NumTiers |
| `EulerTourProofs` | `Invariance` | `IInv` | `NodesAssumption`, `NullAssumption` (no vertex is the key of a sentinel) |
| | `TypeCorrect` | `TypeOK` | |
| | `AlwaysEuler` | `ToursAreEuler` | |
| | `AlwaysOneCarrier` | `OneCarrier` | |
| | `AlwaysAnswers` | `QueriesAnswerTrees` | |
| | `SketchesKept` | `SketchesStay` | |
| | `ForestRefinement` | `ImplementsForest` | |
| | `SketchlessRefinement` | `ImplementsSketchless` | |
| `MpiTiersProofs` | `Invariance` | `IInv` | `RanksAssumption` (two tiers at least), `BatchAssumption` (a batch holds something), `WaitsAssumption` (a send can do one of the two things) |
| | `TypeCorrect` | `TypeOK` | |
| | `CallsMatch` | `CollectivesMatch` | |
| | `NothingOutlives` | `BatchesAreSeparate` | |
| | `LogsFollow` | `TiersFollowLct` | |
| `MpiBatchProofs` | `Invariance` | `BatchInv` | `NodesAssumption`, `MpiBatchAssumption` (two tiers at least, a batch holds something, a flag is Boolean) |
| | `Agreement` | `RanksAgree` | |
| | `RollBackExact` | `RollBackRestores` | |
| | `CleanInvariance` | `CleanInv` | and sketches do not fail |
| | `Sequential` | `BatchesAreSequential` | and, for exact answers, n < 2^NumTiers |
| `SkipListProofs` | `Invariance` | `SkipListInv` | `HeightAssumption` (an element has a level at least), `SkipListAssumption` (a buffer holds an update; a bound on the updates of a behaviour) |
| | `Typed` | `TypeOK` | |
| | `PointersNearest` | `ParentsAreNearest` | |
| | `SumsRight` | `AggregatesAreSums` | |
| | `SizesRight` | `SizesCount` | |
| | `ContentsKept` | `ContentsStay` | |
| `StreamReadersProofs` | `Invariance` | `IInv` | `StreamAssumption` (a finite set of readers, not empty; a file; a buffer of one update at least) |
| | `TypeCorrect` | `TypeOK` | |
| | `OnlyOnce` | `EachOnce` | |
| | `BreakPoints` | `BreakPointIsExact` | |
| | `OneBufferMore` | `NoReaderAdmitted`, the safety half of `QueriesAreReached` | |

**The structure of the tiers.**  `TiersMirrorLct` and `TierForests` are not inductive alone:
that a link takes effect in every tier needs to know, two loops later, that the sampled edge
joined two trees.  `IInv` adds what carries that knowledge: `ControlInv` (where the loop
variables may be), `SketchInv` (a sketch is the incidence vector of its vertex, before or
after the update under way), `LctInGraph`, and `RefreshInv` (once the evicted edge is gone,
the ends of the new edge are in different trees, and the evicted edge is heavier than
`tier+1`).  The last conjunct is the heart of it.  The sample leaves its tree in tier `tier`
(`RootSketchIsCut`), so it leaves it in tier `tier+1` too, because the trees are nested and
of equal size, hence equal.  So the path between its ends must use an edge that leaves the
tree, whose weight exceeds `tier+1`, and the heaviest edge of the path is at least as heavy
(`PathLeavesPart`).  `DropOffPath` and `AcyclicLink` then give that eviction and link keep
a forest, and sketches of a tree cancel inside by a parity argument over its vertices
(`RootSketch`).

**The repairs.**  That looking at the trees of the two endpoints is enough needs an invariant
about all others.  `RepairInv` says which trees may be isolated at each point of an update:
only a tree that is, in the forest the tier will have once the cuts and links under way are
done (`Planned`), the tree of an endpoint that `refresh()` has yet to come to in that tier
(`Unswept`); so none between updates.  An update isolates only trees of its ends, since a
tree that contains neither has the same vertices and the same cut as before; an eviction
tears trees apart from the weight of the evicted edge on, which is above the tier under
repair, and the link that follows joins them again.  `RootsInv` says that `root_nodes`,
filled before any repair, holds the roots of the endpoints, which the early return of
`refresh()` reads.
Exactness follows: a tree that is not a component has an edge leaving it, so in a state
without isolated trees its size grows from each tier to the next; the trees of tier i that
are not components then have 2^i vertices at least, and with n < 2^NumTiers
vertices none is left at the top.  The relation n < 2^NumTiers is the hypothesis
`EnoughTiers` of the theorem; that the constructor's formula provides it is about powers of
three and two and is checked by TLC for n up to 500 (section 3).

**The Euler tours.**  `IInv` of `EulerTourTree` is the conjunction of three properties the
run checks.  It is inductive only because `ToursAreEuler` says more than that each list is a
tour: the linked edges have no cycle.  `cut` takes the edge out at its two places, and the
inner and outer fragments are Euler tours only if they have no vertex in common, which is so
because a common vertex would join the ends of the edge without it (`SeparateTrees`).  The
other subtle part is the length: a tour of k vertices has 2k-1 elements, and after a cut
neither fragment can make up for the other, since a closed walk through k vertices lists
2(k-1) arcs at least (`EnoughArcs`).
A link is simpler: the two tours share no vertex, so every property of the spliced list is one
of its parts (`LinkMakesTour`), for each of the starts that `edges.begin()` may give.
`TourSpans` says that the vertices of a tour are one tree of the linked edges; from it follow
the answers of the queries and the refinement of `LinkedForest`.

The sketches are followed through the several `make_edge` and `delete_edge` of one operation
by `Carried`: each vertex that has an occurrence has one that carries its sketch, at most one
vertex has none, and `temp_sketch` is the sketch of that one.  `Holding` is the sketch of a
vertex in either case, and no `make_edge` or `delete_edge` changes it.  In `link` the sentinel
that is deleted may be the last occurrence of its vertex; then its tour lists nothing else, the
vertex is v, and the second `make_edge` serves it.  In `cut` only the vertex of the inner tour
can lose its last occurrence (`CutVertices`): the tour goes on from the other vertex after it
has come back, at the latest with its sentinel.

**The skip lists.**  That each node holds the sum of the nodes below it is not inductive: join
and split change several levels at once by amounts that come from another list's boundary.
`SkipListInv` says what a node holds in terms of the elements instead.  The *cover* of place p
of a list on level k (`Cover`) is the node of the last element at or left of p that is as high
as k, or the boundary; a node *stands over* the elements it covers (`Under`).  The pointers
part (`ListsInv`) says that every node points to the cover of its place on the next level, so
the way up from an element is the sequence of its covers (`PathIs`) and the nodes on it are
those that stand over it (`PathNodesAre`).  The cells part (`Owns`) says that for some
contents `O` of the elements every node holds the sum of `O` over the elements it stands over,
and counts them.  The contents are what the carriers' nodes on level 1 hold (`GoodOwn`).

With that every step is about sets of elements.  In a join, the covers of the right list that
were boundary nodes become nodes on the way up from the last left element (`JoinUnder`), so
each node on that way gains the elements before the first of the right list that is as high
(`Before`), which is what the right boundary node of that level stands over (`GainIs`).  In a
split the code builds the right boundary from level to level out of the leading nodes; its
closed form is the same set `Before` (`CornerIs`), which is what each node on the way up from
the last left element loses.  An update toggles the contents of one element, and
`update_sketches` those of two: the nodes it reaches are those on one way up and not on the
other (`LockStepIs`), because two ways that meet stay one from there on (`WaysMeet`); above
that, both toggles cancel.  When a buffer is applied never matters, because a cell is read as
its sketch merged with its buffer (`FullOf`).  The four invariants are read off: the nodes that point to a node
split what it stands over (`UnderKids`), the sum of the sums over disjoint parts is the sum
over their union (`PartsSum`), and so for the weights (`PartsWeigh`), to which the one
boundary node below a boundary node adds one (`KidsAre`).

The sizes are integers of any sign in the proof until `CountsOne` shows that each is one at
least.  The heap is written over with an operator of its own, `++`, and `Weight` has the cells
as a parameter, since the prover has no definition of `@@` and cannot relate an operator's
values in two states.

**The MPI ranks.**  A rank that has broadcasts to take is behind the others, and nothing in
the code bounds how far.  The proof gives each rank a *place* in the one sequence of
collective calls (`PlaceOf`: what its local variables say it will take part in next) and a
*walk*: the places it comes by while it takes the broadcasts it is owed (`Walk`).  `InStep`
says that along its walk each broadcast is of the root and kind that belong to the place,
never of the rank itself, and that the walks of all ranks end at one place.  So only a rank
that owes nothing can be at a place of its own, and it stands where all others will come to:
when it broadcasts, every walk grows by the same step.  `CollectivesMatch` reads off the first
step of each walk.  Point-to-point messages are counted: `PassInv` and `SizesInv` equate what
is under way between two ranks with what one still has to take minus what the other still
has to send in this batch.  That this is one at most, though the input node may run ahead of
tier 0, needs the places again (`NobodyIsBehind`): no rank has a whole update of refreshes
left to take while another begins the next, since on its walk it would pass a turn of its
own.  `AnswerInv` keeps the question about a cycle, its answer and the rank that waits for
it together, and `BlockedInv` gives every held sender a message somebody has still to take.
With all ranks between two batches all these counts are zero (`BatchesAreSeparate`).

Which cuts and links a tier applied is a matter of the same walks.  The *ledger* of update n
of a rank (`Ledger`) is the log it has kept of that update followed by what it will add to it
along its walk.  A step of any rank leaves the ledgers alone, or extends all of them by one
operation (`LedgerSpeaks`): who applies one only moves it from the walk to the log
(`LedgerTakes`).
So `LogInv`, that a tier's ledger is what concerns it of the input node's, is inductive; and a
rank that has finished update n has nothing of it left on its walk (`LedgerDone`), so its log
is its ledger, which is `TiersFollowLct`.  The property selects from a log by a recursive
function (`Concerning`), since the prover has no definition of `SelectSeq`.

**Batches and their roll-back.**  Everything the ranks hold is a function of the graph and
the link-cut tree (`State`), and `BatchInv` says that it stays so, though each rank applies
each update to its own forests.  `History` adds what was kept of the batch: what the ranks
held before each update, and that `split_revert` says which forests held its edge.  The code
undoes updates in the order in which it applied them, not in the reverse order.  That this
restores the state before the first isolated update is not obvious, since the relinked edge of
one update meets the forests of a batch of which the later updates are not undone yet: a link
would be refused if it closed a cycle.  `Midway` is what the ranks hold in the middle of the
roll-back: an edge that an update undone so far had cut has the weight it had before the first
isolated update, any other is as the whole batch left it.  A batch only cuts, so all edges of
the forests midway were linked before the first isolated update: they are part of one forest,
and no link is refused.

`CleanInv` is about sketches that do not fail.  A batch that no tier objects to isolates no
tree: an isolated tree would be that of an end of the last update that changed it, and its
tier would have seen it then.  A rolled-back batch is back where no tree was isolated.
In a refresh (`Repairable`), a tree is isolated only in a tier and at an end that the refresh
has still to come to.  `BatchesAreSequential` then follows through an instance of
`GraphTiersProofs` with the tiers of the MPI engine between two updates: its `IInv` holds by
`BatchInv`, and its exactness lemma applies to any state without isolated trees.

**The stream readers.**  `SharesInv` says that every update before the frontier (the least of
the shared offset, the registered query and the end of the file) has been returned or is due
from exactly one reader, and nothing beyond it ever is; `EachOnce` and `BreakPointIsExact`
are read off it.  It needs `SetBackInv`, that the offset is beyond a query in the file only
while a reader that claimed what lies there has yet to set it back, and `OffsetInv`, that
beyond the end of the file each reader claims at most once more.  A query behind the end of
the file may be passed for good: `read_data()` returns at line 167 without setting back.

That the readers always pause would also hold if they ignored `query_block`, since the file
ends.  `NoReaderAdmitted` is what tells the two apart: while the user waits, the offset plus a
buffer for each reader past the test of `query_block` never grows (`ReachStep`).

Induction.  A recursive function over numbers (`Walk`, the doubling of sizes) is reasoned
about by its least counterexample (`LeastNumber` of `ForestProofs`, `MpiSteps` and
`SkipListProofs`), and one over finite sets by a counterexample of the fewest members
(`FewestNodes`), since induction theorems
take an operator as a parameter.

Only model-checked: everything under fairness (`ImplementsConnectivity`, `BatchesComplete`,
the other half of `QueriesAreReached`) and deadlock, which TLAPS does not prove; all of `LinkCutTree`, whose splay
operations are recursive; and the constructor's formula for the number of tiers.

## 5. Not modelled

Timers, canaries, printing and memory management (leaks of boundary nodes, the reserved but
never resized `root_nodes`).  The failure probability of sketches: failure is a choice.
Overflow of 32-bit sizes and vertex ids.  Tests, scripts and build files.  And, by component:

- `InputNode`'s isolation history.  `input_node.cpp:76-80` pushes true for updates that were
  not isolated and does not count them, so `isolation_count` drifts below the number of true
  entries; nothing reads the counter while the sliding window is disabled at line 40.
- `LinkCutTree::get_cc`, which changes nothing; `GraphTiers` and `InputNode` answer from
  their Euler tour forests.
- The single-threaded `BinaryGraphStream`: sequential buffered reading.
- Short reads in `BinaryGraphStream_MT::read_data`.  Line 179 repeats `pread` with the buffer
  pointer unmoved and the full length, which would overwrite the first part; a local file of
  the length its header says returns everything at once, and the model assumes it.
- The sizes of messages.  `input_node.cpp:110` takes a broadcast of an `EttUpdateMessage` with
  `sizeof(UpdateMessage)`, where `tier_node.cpp:214` sends `sizeof(EttUpdateMessage)`; MPI asks
  for equal sizes, and whether these are equal depends on `GraphUpdate`, which is not in this
  repository.  `MpiTiers` takes a message as a whole.
- `uninit_list`, `gather`, `allgather` and `barrier`, which nothing calls.
- A query registered while an on-demand query is answered is dropped by
  `post_query_resume()`; the class does not say what it should do, and the model does the
  same.

## 6. Plan

1. `MpiBatch` with failing sketches and batches of three.
2. `LinkCutTree` with its splay as a recursive function over an explicit depth, so that the
   prover can reason about it.
