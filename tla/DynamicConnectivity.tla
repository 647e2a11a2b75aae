------------------------- MODULE DynamicConnectivity -------------------------
(***************************************************************************)
(* What the program promises its caller: a fully dynamic graph whose       *)
(* connectivity can be queried between any two updates.  While an update   *)
(* is being processed no query is answered.  When it has been processed,   *)
(* both queries speak of one and the same partition of the vertices: the   *)
(* connected components of the graph, or, when the linear sketches may     *)
(* fail to produce an edge (Exact = FALSE), a partition that never joins   *)
(* two vertices of different components.                                   *)
(***************************************************************************)
EXTENDS Forests

CONSTANT Exact        \* TRUE when every sketch query succeeds

VARIABLES
    graph,            \* the edges inserted and not deleted since
    serving,          \* TRUE between updates, when queries may be asked
    cc,               \* the components get_cc() answers
    same              \* the pairs is_connected() answers true for

vars == <<graph, serving, cc, same>>

SamePairs(partition) == {p \in Nodes \X Nodes :
                            \E C \in partition : p[1] \in C /\ p[2] \in C}

\* The partitions a query may be answered from.
Answers(E) == IF Exact THEN {Components(E)}
              ELSE {Components(F) : F \in SUBSET E}

Init == /\ graph = {}
        /\ serving = TRUE
        /\ cc = Components({})
        /\ same = SamePairs(Components({}))

\* update(): the edge is inserted if it is absent and deleted if it is present.
Update(e) == /\ serving
             /\ graph' = IF e \in graph THEN graph \ {e} ELSE graph \cup {e}
             /\ serving' = FALSE
             /\ cc' = {}
             /\ same' = {}

\* update() returns.
Serve == /\ ~serving
         /\ serving' = TRUE
         /\ cc' \in Answers(graph)
         /\ same' = SamePairs(cc')
         /\ UNCHANGED graph

Next == (\E e \in Edges : Update(e)) \/ Serve

Spec == Init /\ [][Next]_vars /\ WF_vars(Serve)

=============================================================================
