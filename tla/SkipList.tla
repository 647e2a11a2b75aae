------------------------------- MODULE SkipList -------------------------------
(***************************************************************************)
(* class SkipListNode (src/skiplist.cpp): the lists of SketchlessSkipList  *)
(* in which every node keeps the sum of the sketches and the number of the *)
(* list nodes below it, with updates waiting in a small buffer.  On level  *)
(* 1 only the allowed_caller of a vertex has a sketch.  The calls are      *)
(* those of EulerTourNode: make_edge, delete_edge, update_sketch(es) and   *)
(* the joins and splits of link and cut, in any order.                     *)
(***************************************************************************)
EXTENDS SketchlessSkipList, FiniteSetsExt

CONSTANTS Vertex,     \* the vertex of each element
          Indexes,    \* the indexes an update may toggle
          BufferCap,  \* skiplist_buffer_cap, 25 in the code
          MaxUpdates  \* bound: updates in one behaviour

ASSUME SkipListAssumption == BufferCap \in Nat \ {0} /\ MaxUpdates \in Nat

VARIABLES cell,       \* cell[n]: sketch_agg, size and update_buffer of node n
          carriers,   \* the elements that are an allowed_caller
          temp_sketch,
          updates     \* the updates so far

vars == <<lists, parent, cell, carriers, temp_sketch, updates>>

Merge(S, R) == (S \ R) \cup (R \ S)
\* The XOR of the sets c(n), n in N.
Sum(c, N) == {i \in Indexes : Cardinality({n \in N : i \in c[n]}) % 2 = 1}
Weight(c, N) == MapThenSumSet(LAMBDA n : c[n].size, N)
Occurs(i, buf) == Cardinality({k \in DOMAIN buf : buf[k] = i})

\* process_updates(): what a sketch holds once its buffer is applied.
Pending(buf)  == {i \in Indexes : Occurs(i, buf) % 2 = 1}
Full(n)       == Merge(cell[n].agg, Pending(cell[n].buf))
Flushed(c)    == [c EXCEPT !.agg = Merge(@, Pending(c.buf)), !.buf = << >>]

Bug_Updated(c, i) == [c EXCEPT !.buf = Append(@, i)]
\* update_agg(): the buffer is applied when it is full.
Updated(c, i) == LET d == [c EXCEPT !.buf = Append(@, i)]
                 IN  IF Len(d.buf) = BufferCap THEN Flushed(d) ELSE d

Plus(c, gain)  == [c EXCEPT !.agg = Merge(@, gain.agg), !.size = @ + gain.size]

AllNodes(s)  == ListNodes(s) \cup Boundary(s)
PathNodes(e) == LET s == ListOf(e) IN {Path(e, s)[k] : k \in 1 .. Tallest(s) + 1}

Init == /\ InitLists
        /\ cell = << >>
        /\ carriers = {}
        /\ temp_sketch = {}
        /\ updates = 0

\* The nodes init_element() makes: the root counts the boundary and the element.
NewCell(n, root, agg) == [agg |-> IF n = root \/ ~n.bdry THEN agg ELSE {},
                          size |-> IF n = root THEN 2 ELSE 1,
                          buf |-> << >>]

\* make_edge(): the only element of a vertex carries its sketch, what temp_sketch holds.
MakeEdge(e) ==
    LET carries == \A c \in carriers : Vertex[c] # Vertex[e]
        agg == IF carries THEN temp_sketch ELSE {}
    IN  /\ InitElement(e)
        /\ carriers' = IF carries THEN carriers \cup {e} ELSE carriers
        /\ temp_sketch' = IF carries THEN {} ELSE temp_sketch
        /\ cell' = [n \in AllNodes(<<e>>) |-> NewCell(n, Root(<<e>>), agg)] ++ cell
        /\ UNCHANGED updates

\* delete_edge() of an element that is alone: an allowed_caller hands its sketch, its
\* buffer applied, to another element of the vertex and all nodes above that one
\* (update_path_agg), or to temp_sketch.
DeleteEdge(e) ==
    LET heirs == {c \in Live \ {e} : Vertex[c] = Vertex[e]}
        kept  == Without(cell, AllNodes(<<e>>))
        given == Full(Elem(e, 1))
    IN  /\ UninitElement(e)
        /\ UNCHANGED updates
        /\ \/ /\ e \notin carriers
              /\ cell' = kept
              /\ UNCHANGED <<carriers, temp_sketch>>
           \/ /\ e \in carriers /\ heirs = {}
              /\ cell' = kept
              /\ carriers' = carriers \ {e}
              /\ temp_sketch' = Merge(temp_sketch, given)
           \/ /\ e \in carriers
              /\ \E c \in heirs :
                    /\ cell' = [n \in PathNodes(c) |-> Plus(cell[n], [agg |-> given, size |-> 0])]
                               ++ kept
                    /\ carriers' = (carriers \ {e}) \cup {c}
              /\ UNCHANGED temp_sketch

\* What join adds on level k of the left list: the right boundary, flushed, of that level
\* or the right root.
Gain(t, k) == LET h == Tallest(t) + 1
                  b == Bdry(t[1], IF k < h THEN k ELSE h)
              IN  [agg |-> Full(b), size |-> cell[b].size - 1]
Minus(c, gain) == [c EXCEPT !.agg = Merge(@, gain.agg), !.size = @ - gain.size]

Bug_JoinCells(s, t) ==
    LET way == PathNodes(s[Len(s)])
    IN  [n \in way |-> Plus(cell[n], Gain(t, n.level))]
        ++ [n \in Raised(s, t) |-> [Plus(cell[Root(s)], Gain(t, n.level)) EXCEPT !.buf = << >>]]
\* What join changes: the way up from the last element of the left list gains the right
\* boundary; boundary nodes for a taller right list start from what the left root, which
\* is flushed for them, had before.
JoinCells(s, t) ==
    LET raised == Tallest(t) > Tallest(s)
        top    == IF raised THEN Flushed(cell[Root(s)]) ELSE cell[Root(s)]
    IN  [n \in PathNodes(s[Len(s)]) |-> Plus(IF n = Root(s) THEN top ELSE cell[n], Gain(t, n.level))]
        ++ [n \in Raised(s, t) |-> Plus(top, Gain(t, n.level))]

JoinLists(s, t) ==
    /\ Join(s, t)
    /\ cell' = JoinCells(s, t) ++ Without(cell, Boundary(t))
    /\ UNCHANGED <<carriers, temp_sketch, updates>>

\* The boundary that split_left builds for the right list: each level adds the leading
\* nodes of the level below.
Corner(right) ==
    LET leading == Leading(right)
        at[k \in 1 .. Tallest(right) + 1] ==
            IF k = 1 THEN [agg |-> {}, size |-> 1, buf |-> << >>]
            ELSE LET passed == {n \in leading : n.level = k - 1}
                 IN  [agg |-> Merge(at[k - 1].agg, Sum([n \in passed |-> Full(n)], passed)),
                      size |-> at[k - 1].size + Weight(cell, passed),
                      buf |-> << >>]
    IN  at

Bug_Loss(corner, top, k) == IF k < top THEN corner[k] ELSE [corner[1] EXCEPT !.agg = corner[top].agg]
\* What level k of the left list loses: the corner or, above the right list, the right root.
Loss(corner, top, k) == IF k < top THEN corner[k] ELSE corner[top]

Bug_SplitCells(left, right) ==
    LET corner  == Corner(right)
        top     == Tallest(right) + 1
        loss(k) == Loss(corner, top, k)
    IN  [n \in PathNodes(left[Len(left)]) |->
            Minus(cell[n], [agg |-> loss(n.level).agg, size |-> loss(n.level).size - 1])]
        ++ [n \in Boundary(right) |-> corner[n.level]]
        ++ [n \in Leading(right) |-> [cell[n] EXCEPT !.buf = << >>]]
\* What split_left changes: the way up from the last element of the left list loses what
\* goes to the right; the leading nodes of the right list are flushed.
SplitCells(left, right) ==
    LET corner  == Corner(right)
        top     == Tallest(right) + 1
        loss(k) == Loss(corner, top, k)
    IN  [n \in PathNodes(left[Len(left)]) |->
            Minus(cell[n], [agg |-> loss(n.level).agg, size |-> loss(n.level).size - 1])]
        ++ [n \in Boundary(right) |-> corner[n.level]]
        ++ [n \in Leading(right) |-> Flushed(cell[n])]

SplitList(s, p) ==
    LET left == SubSeq(s, 1, p - 1)
        right == SubSeq(s, p, Len(s))
    IN  /\ SplitLeft(s, p)
        /\ cell' = Without(SplitCells(left, right) ++ cell, Boundary(s) \ Boundary(left))
        /\ UNCHANGED <<carriers, temp_sketch, updates>>

\* Updating the nodes N with index i.
Update(N, i) ==
    /\ updates < MaxUpdates
    /\ updates' = updates + 1
    /\ cell' = [n \in N |-> Updated(cell[n], i)] ++ cell
    /\ UNCHANGED <<lists, parent, carriers, temp_sketch>>

\* update_path_agg(): all nodes on the way from an allowed_caller to the root.
UpdatePath(e, i) == e \in carriers /\ Update(PathNodes(e), i)

\* The nodes update_sketches() reaches on the way from e while the way from f is another.
LockStep(e, f) ==
    LET mine == Path(e, ListOf(e))
        other == Path(f, ListOf(f))
    IN  {mine[k] : k \in {k \in DOMAIN mine :
                             \A j \in 1 .. k : j \in DOMAIN other => mine[j] # other[j]}}

UpdateSketches(e, f, i) ==
    /\ {e, f} \subseteq carriers /\ e # f
    /\ Update(LockStep(e, f) \cup LockStep(f, e), i)

Next == \/ \E e \in Elements : MakeEdge(e) \/ DeleteEdge(e)
        \/ \E s, t \in lists : JoinLists(s, t)
        \/ \E s \in lists : \E p \in DOMAIN s : SplitList(s, p)
        \/ \E e \in carriers, i \in Indexes :
              UpdatePath(e, i) \/ \E f \in carriers : UpdateSketches(e, f, i)

Spec == Init /\ [][Next]_vars

-------------------------------------------------------------------------------
TypeOK == /\ carriers \subseteq Live
          /\ DOMAIN parent = UNION {AllNodes(s) : s \in lists}
          /\ DOMAIN cell = DOMAIN parent
          /\ \A n \in DOMAIN cell : /\ cell[n].agg \subseteq Indexes
                                   /\ cell[n].size \in Nat \ {0}
                                   /\ Len(cell[n].buf) < BufferCap
          /\ temp_sketch \subseteq Indexes
          /\ updates \in 0 .. MaxUpdates

\* Every parent pointer is the closest node at or left of its node on the next level, so
\* that two elements have one root exactly when they are in one list, and the ways up of
\* update_sketches() meet on one level.
ParentsAreNearest ==
    \A s \in lists : \A n \in AllNodes(s) : parent[n] = Nearest(s, n)

Children(n) == {m \in DOMAIN parent : parent[m] = n}

\* After any joins, splits, hand-overs and updates, each node above level 1 holds, with
\* its waiting updates, the sum of the nodes below it, so that the root of a list is the
\* sum of its vertices' sketches; on level 1 only allowed_callers hold any.
AggregatesAreSums ==
    \A n \in DOMAIN cell :
        /\ n.level > 1 => LET below == Children(n)
                          IN  Full(n) = Sum([m \in below |-> Full(m)], below)
        /\ n.level = 1 /\ (n.bdry \/ n.elem \notin carriers) => Full(n) = {}

\* Sizes count the level-1 nodes: the root of k elements has size k+1.  (They are unsigned
\* in the code: a subtraction too many would wrap.)
SizesCount == /\ \A s \in lists : cell[Root(s)].size = Len(s) + 1
              /\ \A n \in DOMAIN cell : n.level > 1 => cell[n].size = Weight(cell, Children(n))

\* Join and split leave the sketch of each vertex alone, however its updates are buffered.
ContentsStay ==
    [][lists' # lists /\ carriers' = carriers
         => \A e \in carriers : Full(Elem(e, 1))' = Full(Elem(e, 1))]_vars

=============================================================================
