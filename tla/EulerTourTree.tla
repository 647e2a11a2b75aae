---------------------------- MODULE EulerTourTree ----------------------------
(***************************************************************************)
(* class EulerTourTree (src/euler_tour_tree.cpp): the tours of             *)
(* SketchlessEulerTourTree in which one occurrence per vertex, its         *)
(* allowed_caller, carries the sketch of the vertex.  Deleting that        *)
(* occurrence hands the sketch to another one, or parks it in temp_sketch  *)
(* until make_edge() gives the vertex an occurrence again.                 *)
(***************************************************************************)
EXTENDS EulerTours

CONSTANT Indexes      \* the indexes an update may toggle

VARIABLES
    tours, ett_nodes, \* as in SketchlessEulerTourTree
    sketch,           \* sketch[o]: what the sketch in the list node of occurrence o summarises
    temp_sketch       \* what temp_sketch summarises

vars == <<tours, ett_nodes, sketch, temp_sketch>>

Merge(S, R) == (S \ R) \cup (R \ S)

\* The part of the state that make_edge() and delete_edge() work on.
Nodes0 == [nodes |-> ett_nodes, sketch |-> sketch, temp |-> temp_sketch]

Bug_MakeEdge(s, v, o) == [s EXCEPT !.nodes[v].edges = @ \cup {o}]
Bug_KeptTemp(s, v, o) ==
    LET first == s.nodes[v].allowed_caller = NoCaller
    IN  [nodes  |-> [s.nodes EXCEPT ![v].edges = @ \cup {o},
                                    ![v].allowed_caller = IF first THEN o ELSE @],
         sketch |-> [s.sketch EXCEPT ![o] = IF first THEN Merge(@, s.temp) ELSE @],
         temp   |-> s.temp]
\* make_edge(): a vertex without allowed_caller takes what temp_sketch holds.
MakeEdge(s, v, o) ==
    LET first == s.nodes[v].allowed_caller = NoCaller
    IN  [nodes  |-> [s.nodes EXCEPT ![v].edges = @ \cup {o},
                                    ![v].allowed_caller = IF first THEN o ELSE @],
         sketch |-> [s.sketch EXCEPT ![o] = IF first THEN Merge(@, s.temp) ELSE @],
         temp   |-> IF first THEN {} ELSE s.temp]

Bug_DeleteEdge(s, v, o) ==
    LET n == s.nodes[v]
        rest == n.edges \ {o}
        erased == [s EXCEPT !.nodes[v].edges = rest, !.sketch[o] = {}]
    IN  IF n.allowed_caller # o THEN {erased}
        ELSE IF rest = {}
        THEN {[erased EXCEPT !.nodes[v].allowed_caller = NoCaller]}
        ELSE {[erased EXCEPT !.nodes[v].allowed_caller = c,
                             !.sketch[c] = Merge(@, s.sketch[o])] : c \in rest}
\* delete_edge(): the sketch of a deleted allowed_caller goes to edges.begin(), which
\* takes its place, or to temp_sketch.
DeleteEdge(s, v, o) ==
    LET n == s.nodes[v]
        rest == n.edges \ {o}
        erased == [s EXCEPT !.nodes[v].edges = rest, !.sketch[o] = {}]
    IN  IF n.allowed_caller # o THEN {erased}
        ELSE IF rest = {}
        THEN {[erased EXCEPT !.nodes[v].allowed_caller = NoCaller,
                             !.temp = Merge(@, s.sketch[o])]}
        ELSE {[erased EXCEPT !.nodes[v].allowed_caller = c,
                             !.sketch[c] = Merge(@, s.sketch[o])] : c \in rest}

Init == /\ tours = {<<Sentinel(v)>> : v \in Nodes}
        /\ ett_nodes = [v \in Nodes |-> [edges |-> {Sentinel(v)},
                                         allowed_caller |-> Sentinel(v)]]
        /\ sketch = [o \in Occurrences |-> {}]
        /\ temp_sketch = {}

Caller(v)     == ett_nodes[v].allowed_caller
GetTour(v)    == TourOf(tours, Caller(v))
HasEdge(u, v) == <<u, v>> \in ett_nodes[u].edges

\* The operation ends in state s of the vertices.
EndsIn(s) == ett_nodes' = s.nodes /\ sketch' = s.sketch /\ temp_sketch' = s.temp

\* The sentinel of the other tour is deleted first, then both new occurrences are made.
Link(u, v) ==
    \E at \in ett_nodes[u].edges :
        LET mine   == TourOf(tours, at)
            theirs == GetTour(v)
            r      == theirs[Len(theirs)][1]
        IN  /\ ~SameSentinel(mine, theirs)
            /\ \E s \in DeleteEdge(Nodes0, r, Sentinel(r)) :
                 /\ EndsIn(MakeEdge(MakeEdge(s, u, <<u, v>>), v, <<v, u>>))
                 /\ \E loop \in Rerooted(Before(theirs, Sentinel(r)), s.nodes[v].edges) :
                      tours' = (tours \ {mine, theirs})
                                  \cup {LinkedTour(mine, at, loop, u, v)}

\* Both occurrences are deleted, then the vertex of the inner tour gets a sentinel.
Cut(u, v) ==
    LET tour  == TourOf(tours, <<u, v>>)
        inner == IF EntersFirst(tour, u, v) THEN v ELSE u
    IN  /\ HasEdge(u, v)
        /\ tours' = (tours \ {tour}) \cup CutTours(tour, u, v)
        /\ \E s1 \in DeleteEdge(Nodes0, u, <<u, v>>) :
              \E s2 \in DeleteEdge(s1, v, <<v, u>>) :
                  EndsIn(MakeEdge(s2, inner, Sentinel(inner)))

\* update_sketch(): the index is added at the allowed_caller.
UpdateSketch(v, i) == /\ sketch' = [sketch EXCEPT ![Caller(v)] = Merge(@, {i})]
                      /\ UNCHANGED <<tours, ett_nodes, temp_sketch>>

\* update_sketches(): the same at two vertices; what is common to both paths cancels.
UpdateSketches(u, v, i) ==
    /\ u # v
    /\ sketch' = [sketch EXCEPT ![Caller(u)] = Merge(@, {i}), ![Caller(v)] = Merge(@, {i})]
    /\ UNCHANGED <<tours, ett_nodes, temp_sketch>>

Next == \/ \E u, v \in Nodes : Link(u, v) \/ Cut(u, v)
        \/ \E u \in Nodes, i \in Indexes :
              \/ UpdateSketch(u, i)
              \/ \E v \in Nodes : UpdateSketches(u, v, i)

Spec == Init /\ [][Next]_vars

-------------------------------------------------------------------------------
TypeOK == /\ \A t \in tours : t # <<>> /\ t \in Seq(Occurrences)
          /\ ett_nodes \in [Nodes -> [edges : SUBSET Occurrences,
                                      allowed_caller : Occurrences]]
          /\ sketch \in [Occurrences -> SUBSET Indexes]
          /\ temp_sketch \in SUBSET Indexes

\* Every list is the Euler tour of a tree that ends in its only sentinel, as link()
\* asserts of both lists; a root over k vertices has 2k-1 elements below it, so that
\* GraphTiers may compare sizes; the linked edges have no cycle; and edges holds exactly
\* the listed occurrences.
ToursAreEuler ==
    /\ \A t \in tours : IsEulerTour(t)
    /\ \A t, r \in tours : t # r => VerticesOf(t) \cap VerticesOf(r) = {}
    /\ \A v \in Nodes : ett_nodes[v].edges =
          {o \in Occurrences : o[1] = v /\ \E t \in tours : o \in Listed(t)}
    /\ Acyclic(LinkedEdges(tours))

\* Between operations each vertex has one occurrence that carries its sketch, no other
\* occurrence carries any, and nothing is left behind in temp_sketch.
OneCarrier ==
    /\ temp_sketch = {}
    /\ \A v \in Nodes : Caller(v) \in ett_nodes[v].edges
    /\ \A o \in Occurrences : sketch[o] # {} => o = Caller(o[1])

\* What is inductive.
IInv == TypeOK /\ ToursAreEuler /\ OneCarrier

\* Link and cut move the sketches of the vertices about and neither lose, double nor
\* exchange any, although several occurrences may be deleted in one operation.
SketchesStay == [][tours' # tours => \A v \in Nodes : sketch'[Caller(v)'] = sketch[Caller(v)]]_vars

\* link() and cut() do to the linked edges what GraphTiers relies on: a link takes
\* effect exactly between two trees, a cut exactly on a linked edge.
Linked == INSTANCE LinkedForest WITH forest <- LinkedEdges(tours)
ImplementsForest == Linked!Init /\ [][Linked!Next]_(LinkedEdges(tours))

\* Without the sketches it moves as the query forest of the input node does.
Sketchless == INSTANCE SketchlessEulerTourTree
ImplementsSketchless == Sketchless!Spec

\* is_connected() and cc_query(), which compare and list the tours, answer the trees of
\* the linked edges.
QueriesAnswerTrees ==
    /\ Sketchless!CcQuery = Components(LinkedEdges(tours))
    /\ \A u, v \in Nodes : Sketchless!IsConnected(u, v) <=> Connected(LinkedEdges(tours), u, v)

=============================================================================
