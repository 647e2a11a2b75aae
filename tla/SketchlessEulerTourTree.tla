----------------------- MODULE SketchlessEulerTourTree -----------------------
(***************************************************************************)
(* class SketchlessEulerTourTree (src/sketchless_euler_tour_tree.cpp), the *)
(* forest in which the input node of the MPI engine answers queries.       *)
(* edges.begin() of an unordered_map is any of its entries.                *)
(***************************************************************************)
EXTENDS EulerTours

VARIABLES
    tours,            \* the lists, one per tree
    ett_nodes         \* per vertex: edges, its occurrences, and allowed_caller, one of them

vars == <<tours, ett_nodes>>

\* make_edge(): the first occurrence of a vertex becomes its allowed_caller.
MakeEdge(n, o) == [edges |-> n.edges \cup {o},
                   allowed_caller |-> IF n.allowed_caller = NoCaller THEN o
                                      ELSE n.allowed_caller]

\* delete_edge(): the role of a deleted allowed_caller passes to edges.begin().
DeleteEdge(n, o) ==
    LET rest == n.edges \ {o}
        callers == IF n.allowed_caller # o THEN {n.allowed_caller}
                   ELSE IF rest = {} THEN {NoCaller} ELSE rest
    IN  {[edges |-> rest, allowed_caller |-> c] : c \in callers}

NewNode(v) == MakeEdge([edges |-> {}, allowed_caller |-> NoCaller], Sentinel(v))

Init == /\ tours = {<<Sentinel(v)>> : v \in Nodes}
        /\ ett_nodes = [v \in Nodes |-> NewNode(v)]

HasEdge(u, v) == <<u, v>> \in ett_nodes[u].edges
GetTour(v)    == TourOf(tours, ett_nodes[v].allowed_caller)

Link(u, v) ==
    \E at \in ett_nodes[u].edges :
        LET mine   == TourOf(tours, at)
            theirs == GetTour(v)
            r      == theirs[Len(theirs)][1]
        IN  /\ ~SameSentinel(mine, theirs)
            /\ \E n \in DeleteEdge(ett_nodes[r], Sentinel(r)) :
                 LET nodes == [ett_nodes EXCEPT ![r] = n]
                 IN  /\ ett_nodes' = [nodes EXCEPT ![u] = MakeEdge(@, <<u, v>>),
                                                   ![v] = MakeEdge(@, <<v, u>>)]
                     /\ \E loop \in Rerooted(Before(theirs, Sentinel(r)), nodes[v].edges) :
                          tours' = (tours \ {mine, theirs})
                                      \cup {LinkedTour(mine, at, loop, u, v)}

Cut(u, v) ==
    LET tour  == TourOf(tours, <<u, v>>)
        inner == IF EntersFirst(tour, u, v) THEN v ELSE u
    IN  /\ HasEdge(u, v)
        /\ tours' = (tours \ {tour}) \cup CutTours(tour, u, v)
        /\ \E mine \in DeleteEdge(ett_nodes[u], <<u, v>>),
              theirs \in DeleteEdge(ett_nodes[v], <<v, u>>) :
              LET nodes == [ett_nodes EXCEPT ![u] = mine, ![v] = theirs]
              IN  ett_nodes' = [nodes EXCEPT ![inner] = MakeEdge(@, Sentinel(inner))]

Next == \E u, v \in Nodes : Link(u, v) \/ Cut(u, v)
Spec == Init /\ [][Next]_vars

-------------------------------------------------------------------------------
\* Queries.
Bug_IsConnected(u, v) == u = v \/ HasEdge(u, v)
IsConnected(u, v) == GetTour(u) = GetTour(v)
CcQuery == {VerticesOf(GetTour(v)) : v \in Nodes}

=============================================================================
