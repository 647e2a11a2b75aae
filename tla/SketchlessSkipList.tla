-------------------------- MODULE SketchlessSkipList --------------------------
(***************************************************************************)
(* class SketchlessSkipListNode (src/sketchless_skiplist.cpp).  A list is  *)
(* the sequence of its elements; an element of height h has a list node on *)
(* levels 1 .. h, and a boundary node stands at the left of each level and *)
(* of the one above the highest.  The order of a sequence stands for the   *)
(* pointers left and right, the level for up and down.  The boundary of a  *)
(* list is named after its first element: join keeps that of the left      *)
(* list, split_left builds one for the right list.  The pointer parent,    *)
(* through which every root, first and last node is found, is explicit.    *)
(***************************************************************************)
EXTENDS Integers, Sequences, FiniteSets

CONSTANTS Elements,
          Height      \* the levels of each element, a hash of its vertex

ASSUME HeightAssumption == Height \in [Elements -> Nat \ {0}]

VARIABLES lists,      \* the lists, as sequences of elements
          parent      \* parent[n]: the pointer of list or boundary node n

-------------------------------------------------------------------------------
Elem(e, k) == [bdry |-> FALSE, elem |-> e, level |-> k]
Bdry(e, k) == [bdry |-> TRUE, elem |-> e, level |-> k]
NoNode     == [bdry |-> TRUE, level |-> 0]

Listed(s)    == {s[k] : k \in DOMAIN s}
Tallest(s)   == Cardinality(UNION {1 .. Height[s[k]] : k \in DOMAIN s})
Boundary(s)  == {Bdry(s[1], k) : k \in 1 .. Tallest(s) + 1}
ListNodes(s) == UNION {{Elem(e, k) : k \in 1 .. Height[e]} : e \in Listed(s)}
Root(s)      == Bdry(s[1], Tallest(s) + 1)

\* The top nodes of the elements that stand before every taller one: those join and
\* split_left pass on their way up, whose parent is a node of the left list or boundary.
Leading(s) == {Elem(s[p], Height[s[p]]) : p \in
                  {p \in DOMAIN s : \A q \in 1 .. p - 1 : Height[s[q]] <= Height[s[p]]}}

\* The way up from an element to the root of its list, by level.
Path(e, s) == LET at[k \in 1 .. Tallest(s) + 1] ==
                      IF k = 1 THEN Elem(e, 1) ELSE parent[at[k - 1]]
              IN  at

\* A boundary node's parent is the boundary node above it.
Above(s, n) == IF n = Root(s) THEN NoNode ELSE Bdry(s[1], n.level + 1)

ListOf(e) == CHOOSE s \in lists : e \in Listed(s)
Live      == UNION {Listed(s) : s \in lists}

-------------------------------------------------------------------------------
InitLists == lists = {} /\ parent = << >>

\* The nodes of a list that are left when the boundary of another is dropped.
Without(heap, N) == [n \in DOMAIN heap \ N |-> heap[n]]

\* A heap with the given nodes added or written over.  (This is @@ of module TLC, of which
\* the provers have no definition.)
given ++ heap == [n \in DOMAIN given \cup DOMAIN heap |->
                     IF n \in DOMAIN given THEN given[n] ELSE heap[n]]

\* init_element(): a list of its own.
InitElement(e) ==
    /\ e \notin Live
    /\ lists' = lists \cup {<<e>>}
    /\ parent' = [n \in Boundary(<<e>>) |-> Above(<<e>>, n)]
                 ++ [n \in ListNodes(<<e>>) |-> IF n.level = Height[e] THEN Root(<<e>>)
                                                ELSE Elem(e, n.level + 1)]
                 ++ parent

\* uninit_element(true), called for an element that is alone in its list.
UninitElement(e) ==
    /\ <<e>> \in lists
    /\ lists' = lists \ {<<e>>}
    /\ parent' = Without(parent, ListNodes(<<e>>) \cup Boundary(<<e>>))

\* The node of the left list that join reaches on level k: on the way up from the last
\* element, or a new boundary node.
LeftNode(s, k) == IF k <= Tallest(s) + 1 THEN Path(s[Len(s)], s)[k] ELSE Bdry(s[1], k)

\* join builds boundary nodes on the left root if the right list is taller.
Raised(s, t) == {n \in Boundary(s \o t) : n.level > Tallest(s) + 1}

Bug_JoinParents(s, t) ==
    [n \in Raised(s, t) |-> Above(s \o t, n)] ++ [n \in {Root(s)} |-> Above(s \o t, n)]
    ++ [n \in {Elem(t[1], Height[t[1]])} |-> LeftNode(s, n.level + 1)]
\* The parents join sets: of those and of the left root, and of the leading nodes of the
\* right list, which take over the parent of their left neighbour.
JoinParents(s, t) ==
    [n \in Raised(s, t) |-> Above(s \o t, n)] ++ [n \in {Root(s)} |-> Above(s \o t, n)]
    ++ [n \in Leading(t) |-> LeftNode(s, n.level + 1)]

Join(s, t) ==
    /\ s # t
    /\ lists' = (lists \ {s, t}) \cup {s \o t}
    /\ parent' = JoinParents(s, t) ++ Without(parent, Boundary(t))

\* split_left: nothing happens before the first element; otherwise the right list gets
\* a boundary, and the left one loses the boundary nodes above its tallest element.
SplitLeft(s, p) ==
    LET left == SubSeq(s, 1, p - 1)
        right == SubSeq(s, p, Len(s))
    IN  /\ p > 1
        /\ lists' = (lists \ {s}) \cup {left, right}
        /\ parent' = [n \in Boundary(right) |-> Above(right, n)]
                     ++ [n \in Leading(right) |-> Bdry(right[1], n.level + 1)]
                     ++ [n \in {Root(left)} |-> NoNode]
                     ++ Without(parent, Boundary(s) \ Boundary(left))

\* split_right(node) is split_left of the next node, if there is one.

-------------------------------------------------------------------------------
\* Where a node should point: the closest node at or left of it on the level above.
Nearest(s, n) ==
    LET place  == IF n.bdry THEN 0 ELSE CHOOSE p \in DOMAIN s : s[p] = n.elem
        taller == {q \in 1 .. place : Height[s[q]] > n.level}
        last   == CHOOSE q \in taller : \A r \in taller : r <= q
    IN  IF taller # {} THEN Elem(s[last], n.level + 1)
        ELSE IF n = Root(s) THEN NoNode ELSE Bdry(s[1], n.level + 1)

=============================================================================
