------------------------------ MODULE EulerTours ------------------------------
(***************************************************************************)
(* Euler tours as sequences of occurrences, and the surgery that link()    *)
(* and cut() of both Euler tour trees do on them with the skip lists'      *)
(* split_left, split_right and join.  The occurrence <<v, w>> is the list  *)
(* node stored under key w in the map edges of vertex v: the tour is at v  *)
(* and goes on to w.  A tour ends in its sentinel, the occurrence without  *)
(* a next vertex.                                                          *)
(***************************************************************************)
EXTENDS Forests, Sequences

CONSTANT Null         \* the key nullptr of a sentinel

ASSUME NullAssumption == Null \notin Nodes

Occurrences == {o \in Nodes \X (Nodes \cup {Null}) : o[1] # o[2]}
Sentinel(v) == <<v, Null>>
NoCaller    == <<>>   \* allowed_caller = nullptr

Listed(t)     == {t[k] : k \in DOMAIN t}
VerticesOf(t) == {o[1] : o \in Listed(t)}
Place(t, o)   == CHOOSE k \in DOMAIN t : t[k] = o

\* What split_left(o) and split_right(o) leave on either side of o.
Before(t, o) == SubSeq(t, 1, Place(t, o) - 1)
After(t, o)  == SubSeq(t, Place(t, o) + 1, Len(t))
From(t, o)   == <<o>> \o After(t, o)

\* The tour that lists o: get_root() from that list node.
TourOf(tours, o) == CHOOSE t \in tours : o \in Listed(t)

\* link: both vertices are in one tree when their lists end in the same sentinel.
SameSentinel(t, r) == t[Len(t)] = r[Len(r)]

Bug_LinkedTour(mine, at, loop, u, v) ==
    Before(mine, at) \o <<<<u, v>>>> \o loop \o From(mine, at) \o <<<<v, u>>>>
\* link: the rerooted tour of v is spliced into the tour of u before the occurrence at.
LinkedTour(mine, at, loop, u, v) ==
    Before(mine, at) \o <<<<u, v>>>> \o loop \o <<<<v, u>>>> \o From(mine, at)

Bug_Rerooted(t, starts) == IF t = <<>> THEN {<<>>} ELSE {Before(t, o) : o \in starts}
\* The ways to start a tour without sentinel at one of the given occurrences.
Rerooted(t, starts) == IF t = <<>> THEN {<<>>}
                       ELSE {From(t, o) \o Before(t, o) : o \in starts}

\* cut: whether the occurrence of u comes first, so that v's side is the inner fragment.
EntersFirst(t, u, v) == <<v, u>> \in Listed(After(t, <<u, v>>))

\* cut: the inner fragment becomes a tour by a new sentinel, the outer ones are joined.
CutTours(t, u, v) ==
    LET first == IF EntersFirst(t, u, v) THEN <<u, v>> ELSE <<v, u>>
        last  == <<first[2], first[1]>>
        inner == Before(After(t, first), last)
    IN  {Append(inner, Sentinel(last[1])), Before(t, first) \o After(t, last)}

-------------------------------------------------------------------------------
\* The edges the tours have linked.
LinkedEdges(tours) == {e \in Edges : \E t \in tours : \E o \in Listed(t) : e = {o[1], o[2]}}

\* A closed walk over each edge of a tree, once each way, that ends in its only sentinel.
IsEulerTour(t) ==
    /\ \A k \in 1 .. Len(t) - 1 : t[k][2] = t[k + 1][1]
    /\ t[Len(t)] = Sentinel(t[1][1])
    /\ \A k \in 1 .. Len(t) - 1 : <<t[k][2], t[k][1]>> \in Listed(t)
    /\ Cardinality(Listed(t)) = Len(t)
    /\ Len(t) = 2 * Cardinality(VerticesOf(t)) - 1

=============================================================================
