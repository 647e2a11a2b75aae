----------------------------- MODULE LinkCutTree -----------------------------
(***************************************************************************)
(* class LinkCutTree (src/link_cut_tree.cpp).  The represented forest is   *)
(* split into preferred paths; each path is a splay tree in path order,    *)
(* whose topmost node hangs below the node of another path (dparent).      *)
(* A reversal bit turns a whole subtree around when it is pushed down.     *)
(* The fields of all nodes are the functions of one record; an operation   *)
(* of the class is an operator from one such heap to the next.  The cached *)
(* head and tail of a node that is not the root of its splay tree are not  *)
(* kept up to date: they are Null here, so that reading one would show.    *)
(***************************************************************************)
EXTENDS Forests, Sequences

CONSTANTS Null,
          Weights     \* the weights link() is given: positive

ASSUME LinkCutAssumption == Null \notin Nodes /\ Weights \subseteq Nat \ {0}

VARIABLE heap
vars == <<heap>>

NoEdge == {}
Sides  == {"left", "right"}
Other(side) == IF side = "left" THEN "right" ELSE "left"

\* The outermost node of a splay subtree, first or last in path order.
RECURSIVE Outermost(_, _, _, _)
Outermost(h, n, flipped, first) ==
    LET flip == flipped # h.reversed[n]
        next == IF flip = first THEN h.right[n] ELSE h.left[n]
    IN  IF next = Null THEN n ELSE Outermost(h, next, flip, first)
HeadOf(h, n) == Outermost(h, n, FALSE, TRUE)
TailOf(h, n) == Outermost(h, n, FALSE, FALSE)

\* recompute_head() and recompute_tail().
Recomputed(h, n) == [h EXCEPT !.head[n] = HeadOf(h, n), !.tail[n] = TailOf(h, n)]

Bug_RebuildMax(h, n) ==
    LET own(k) == LET e == h.preferred_edges[n][k]
                  IN  IF e = NoEdge THEN <<0, e>> ELSE <<h.edges[e], e>>
        sub(c) == IF c = Null THEN <<0, NoEdge>> ELSE <<h.max[c], h.max_edge[c]>>
        all    == <<own(1), own(2), sub(h.left[n])>>
        best   == CHOOSE k \in DOMAIN all : \A j \in DOMAIN all :
                      all[j][1] < all[k][1] \/ (all[j][1] = all[k][1] /\ k <= j)
    IN  [h EXCEPT !.max[n] = all[best][1],
                  !.max_edge[n] = IF all[best][1] = 0 THEN NoEdge ELSE all[best][2]]
\* rebuild_max(): the first heaviest of the node's preferred edges and its children's maxima.
RebuildMax(h, n) ==
    LET own(k) == LET e == h.preferred_edges[n][k]
                  IN  IF e = NoEdge THEN <<0, e>> ELSE <<h.edges[e], e>>
        sub(c) == IF c = Null THEN <<0, NoEdge>> ELSE <<h.max[c], h.max_edge[c]>>
        all    == <<own(1), own(2), sub(h.left[n]), sub(h.right[n])>>
        best   == CHOOSE k \in DOMAIN all : \A j \in DOMAIN all :
                      all[j][1] < all[k][1] \/ (all[j][1] = all[k][1] /\ k <= j)
    IN  [h EXCEPT !.max[n] = all[best][1],
                  !.max_edge[n] = IF all[best][1] = 0 THEN NoEdge ELSE all[best][2]]

\* link_left() and link_right().
LinkChild(h, n, side, c) ==
    RebuildMax(IF c = Null THEN [h EXCEPT ![side][n] = c]
               ELSE [h EXCEPT ![side][n] = c, !.parent[c] = n, !.head[c] = Null, !.tail[c] = Null],
               n)

SideOf(h, n) == IF h.left[h.parent[n]] = n THEN "left" ELSE "right"

\* rotate_up(): n becomes the parent of its parent p; g is what was above p.
Replaced(h, p, g, n) == IF g = Null THEN [h EXCEPT !.parent[n] = Null]
                        ELSE LinkChild(h, g, IF h.left[g] = p THEN "left" ELSE "right", n)
RotateUp(h, n) ==
    LET p == h.parent[n]
        side == SideOf(h, n)
    IN  Replaced(LinkChild(LinkChild(h, p, side, h[Other(side)][n]), n, Other(side), p),
                 p, h.parent[p], n)

\* correct_reversals(): whether the nodes from n to the root turn n around, and pushing
\* those reversals off this way.
RECURSIVE Turned(_, _)
Turned(h, n) == IF n = Null THEN FALSE ELSE h.reversed[n] # Turned(h, h.parent[n])

RECURSIVE PushedOff(_, _, _, _)
PushedOff(h, n, prev, turned) ==
    IF n = Null THEN h
    ELSE LET aside == {h.left[n], h.right[n]} \ {Null, prev}
             own   == [h.reversed EXCEPT ![n] = FALSE]
             here  == IF turned
                      THEN [h EXCEPT !.left[n] = h.right[n], !.right[n] = h.left[n],
                                     !.reversed = [c \in Nodes |-> IF c \in aside THEN ~own[c]
                                                                                 ELSE own[c]]]
                      ELSE [h EXCEPT !.reversed = own]
         IN  PushedOff(here, h.parent[n], n, turned # h.reversed[n])
Bug_CorrectReversals(h, n) == h
CorrectReversals(h, n) == PushedOff(h, n, Null, Turned(h, n))

\* splay(): zig, zig-zig or zig-zag until n is the root.
RECURSIVE Rotated(_, _)
Rotated(h, n) ==
    LET p == h.parent[n]
        first == IF SideOf(h, p) = SideOf(h, n) THEN p ELSE n
    IN  IF p = Null THEN h
        ELSE Rotated(RotateUp(IF h.parent[p] = Null THEN h ELSE RotateUp(h, first), n), n)
Bug_Splay(h, n) == RebuildMax(Rotated(CorrectReversals(h, n), n), n)
Splay(h, n) == RebuildMax(Recomputed(Rotated(CorrectReversals(h, n), n), n), n)

MakePreferred(h, n, e) ==
    [h EXCEPT !.preferred_edges[n][IF h.preferred_edges[n][1] = NoEdge THEN 1 ELSE 2] = e]
UnmakePreferred(h, n, e) ==
    [h EXCEPT !.preferred_edges[n][IF h.preferred_edges[n][1] = e THEN 1 ELSE 2] = NoEdge]

\* join(): the path of root w is appended to that of root v; the result is the tail of v.
Join(h, v, w) ==
    LET tail == h.tail[v]
        head == h.head[w]
        e == {tail, head}
        preferred == MakePreferred(MakePreferred(h, tail, e), head, e)
    IN  Recomputed(LinkChild(Splay(Splay(preferred, tail), head), tail, "right", head), tail)

\* split(): the path of v ends at v, what came after it hangs below v.
SplitAfter(h, v) ==
    LET r == h.right[v]
        w == HeadOf(h, r)
        unmade == UnmakePreferred(UnmakePreferred(h, v, {v, w}), w, {v, w})
        apart == [LinkChild(unmade, v, "right", Null) EXCEPT !.parent[r] = Null, !.dparent[w] = v]
    IN  Recomputed(IF r = Null THEN h ELSE Splay(apart, w), v)
Split(h, v) == SplitAfter(Splay(h, v), v)

\* splice() until the path of root p starts at the root of its tree.
Bug_Spliced(h, p) ==
    LET v == h.dparent[h.head[p]]
    IN  IF v = Null THEN [heap |-> h, root |-> p]
        ELSE [heap |-> Join([Split(h, v) EXCEPT !.dparent[h.head[p]] = Null], v, p), root |-> v]
RECURSIVE Spliced(_, _)
Spliced(h, p) ==
    LET v == h.dparent[h.head[p]]
    IN  IF v = Null THEN [heap |-> h, root |-> p]
        ELSE Spliced(Join([Split(h, v) EXCEPT !.dparent[h.head[p]] = Null], v, p), v)
Expose(h, v) == Spliced(Split(h, v), v)

\* An operation that leaves its path in one splay tree answers the heap and the root of
\* that tree.  evert() turns around what expose() left.
Bug_TurnedAround(x) == [heap |-> [x.heap EXCEPT !.reversed[x.root] = ~@], root |-> x.root]
TurnedAround(x) == [heap |-> Recomputed([x.heap EXCEPT !.reversed[x.root] = ~@], x.root),
                    root |-> x.root]
Evert(h, v) == TurnedAround(Expose(h, v))

-------------------------------------------------------------------------------
None == [n \in Nodes |-> Null]
Init == heap = [parent |-> None, dparent |-> None, left |-> None, right |-> None,
                head |-> [n \in Nodes |-> n], tail |-> [n \in Nodes |-> n],
                preferred_edges |-> [n \in Nodes |-> <<NoEdge, NoEdge>>],
                edges |-> [e \in Edges |-> 0],
                max |-> [n \in Nodes |-> 0], max_edge |-> [n \in Nodes |-> NoEdge],
                reversed |-> [n \in Nodes |-> FALSE]]

Linked == {e \in DOMAIN heap.edges : heap.edges[e] # 0}
Trees  == Components(Linked)

\* link() is called for vertices of different trees, cut() for a linked edge and
\* path_aggregate() for vertices of one tree: what the assertions ask (and GraphTiers
\* keeps).  In a debug build the assertions also call find_root, a step of its own here.
Link(v, w, weight) ==
    /\ \E x \in {Expose([heap EXCEPT !.edges[{v, w}] = weight], v)} :
       \E y \in {Evert(x.heap, w)} : heap' = Join(y.heap, x.root, y.root)

Cut(v, w) ==
    /\ {v, w} \in Linked
    /\ LET x == Evert([heap EXCEPT !.edges[{v, w}] = 0], v)
       IN  heap' = [Expose(x.heap, v).heap EXCEPT !.dparent[w] = Null]

FindRoot(v) == heap' = Expose(heap, v).heap

PathAggregate(v, w) == heap' = Expose(Evert(heap, v).heap, w).heap

Next == \/ \E v \in Nodes : FindRoot(v)
        \/ \E t, u \in Trees : /\ t # u
                              /\ \E v \in t, w \in u, weight \in Weights : Link(v, w, weight)
        \/ \E v, w \in Nodes : Cut(v, w)
        \/ \E t \in Trees : \E v, w \in t : PathAggregate(v, w)
Spec == Init /\ [][Next]_vars

-------------------------------------------------------------------------------
\* Every field keeps its type, and the root of a splay tree knows its head and tail.
TypeOK ==
    /\ \A f \in {"parent", "dparent", "left", "right", "head", "tail"} :
          heap[f] \in [Nodes -> Nodes \cup {Null}]
    /\ heap.preferred_edges \in [Nodes -> (Edges \cup {NoEdge}) \X (Edges \cup {NoEdge})]
    /\ heap.edges \in [Edges -> Weights \cup {0}]
    /\ heap.max \in [Nodes -> Weights \cup {0}]
    /\ heap.max_edge \in [Nodes -> Edges \cup {NoEdge}]
    /\ heap.reversed \in [Nodes -> BOOLEAN]
    /\ \A n \in Nodes : heap.parent[n] = Null => heap.head[n] # Null /\ heap.tail[n] # Null

Roots == {n \in Nodes : heap.parent[n] = Null}

\* The path a splay subtree stands for, in order.
RECURSIVE Inorder(_, _)
Inorder(n, flipped) ==
    IF n = Null THEN <<>>
    ELSE LET flip == flipped # heap.reversed[n]
             first == IF flip THEN heap.right[n] ELSE heap.left[n]
             last  == IF flip THEN heap.left[n] ELSE heap.right[n]
         IN  Inorder(first, flip) \o <<n>> \o Inorder(last, flip)
Paths == {Inorder(r, FALSE) : r \in Roots}
Steps(path) == {{path[k], path[k + 1]} : k \in 1 .. Len(path) - 1}

\* Whatever reversals are pending, the paths and the pointers between them represent the
\* linked edges: neighbours on a path are joined by an edge that both hold as preferred,
\* and only the first node of a path hangs below another, by a linked edge.
RepresentsForest ==
    LET hanging == {n \in Nodes : heap.dparent[n] # Null}
        steps == UNION {Steps(path) : path \in Paths}
    IN  /\ Linked = steps \cup {{n, heap.dparent[n]} : n \in hanging}
        /\ steps \cap {{n, heap.dparent[n]} : n \in hanging} = {}
        /\ hanging \subseteq {path[1] : path \in Paths}
        /\ \A n \in Nodes : {heap.preferred_edges[n][k] : k \in {1, 2}} \ {NoEdge}
                               = {e \in steps : n \in e}

\* The caches that operations read: head and tail of each root, and at every node the
\* heaviest edge that the nodes below it prefer.
CachesAreRight ==
    /\ \A r \in Roots : LET path == Inorder(r, FALSE)
                        IN  heap.head[r] = path[1] /\ heap.tail[r] = path[Len(path)]
    /\ \A n \in Nodes :
          LET below == Inorder(n, FALSE)
              edges == {heap.preferred_edges[below[j]][k] : j \in DOMAIN below, k \in {1, 2}}
                          \ {NoEdge}
          IN  IF edges = {} THEN heap.max[n] = 0
              ELSE /\ heap.max_edge[n] \in edges
                   /\ heap.max[n] = heap.edges[heap.max_edge[n]]
                   /\ \A e \in edges : heap.edges[e] <= heap.max[n]

\* find_root() gives two vertices the same root exactly if they are connected, though
\* each call restructures the tree.
RootsTellTrees ==
    LET trees == Trees
    IN  \A v \in Nodes : \E x \in {Expose(heap, v)} :
            \A w \in Nodes : \E y \in {Expose(x.heap, w)} :
                x.heap.head[x.root] = y.heap.head[y.root] <=> \E t \in trees : {v, w} \subseteq t

\* path_aggregate() answers a heaviest edge of the path and its weight: the contract
\* GraphTiers chooses the edge to evict by.
AggregateIsHeaviest ==
    LET forest == Linked
    IN  \A t \in Trees : \A v \in t : \E z \in {Evert(heap, v)} :
            \A w \in t \ {v} : \E x \in {Expose(z.heap, w)} :
                LET e == x.heap.max_edge[x.root]
                    path == PathEdges(forest, v, w)
                IN  /\ e \in path
                    /\ x.heap.max[x.root] = heap.edges[e]
                    /\ \A f \in path : heap.edges[f] <= heap.edges[e]

=============================================================================
