---------------------------- MODULE SkipListProofs ----------------------------
(***************************************************************************)
(* The skip lists of the Euler tour forests: parent pointers, sizes and    *)
(* sums after any joins, splits, hand-overs and updates, for any heights   *)
(* of the elements and any size of the buffers.                            *)
(***************************************************************************)
EXTENDS SkipList, SequenceTheorems, FiniteSetTheorems, WellFoundedInduction, TLAPS

------------------------------------------------------------------------------
\* Numbers, nodes and lists

\* A set of natural numbers has a least element: this stands for induction, which the
\* library states with an operator parameter.
LEMMA LeastNumber ==
    ASSUME NEW S \in SUBSET Nat, S # {}
    PROVE  \E m \in S : \A k \in S : m <= k
<1>1. PICK m \in S : \A k \in S : ~(<<k, m>> \in OpToRel(<, Nat))
  BY NatLessThanWellFounded, WFMin
<1>2. \A k \in S : ~(k < m)
  BY <1>1 DEF OpToRel
<1>3. QED
  BY <1>2

\* An element has a level at least.
LEMMA Heights == \A e \in Elements : Height[e] \in Nat /\ Height[e] >= 1
  BY HeightAssumption

\* The names of nodes tell them apart.
LEMMA NodeNames ==
    ASSUME NEW e, NEW k
    PROVE  /\ ~Elem(e, k).bdry /\ Elem(e, k).elem = e /\ Elem(e, k).level = k
           /\ Bdry(e, k).bdry /\ Bdry(e, k).elem = e /\ Bdry(e, k).level = k
           /\ NoNode.level = 0
           /\ \A f, j : /\ Elem(e, k) = Elem(f, j) <=> e = f /\ k = j
                        /\ Bdry(e, k) = Bdry(f, j) <=> e = f /\ k = j
                        /\ Elem(e, k) # Bdry(f, j)
BY DEF Elem, Bdry, NoNode

\* The lists: elements stand in them once.
Proper(s) == /\ s \in Seq(Elements) /\ s # <<>>
             /\ \A j, k \in 1 .. Len(s) : s[j] = s[k] => j = k

LEMMA ProperList ==
    ASSUME NEW s, Proper(s)
    PROVE  /\ Len(s) \in Nat /\ Len(s) >= 1 /\ 1 \in 1 .. Len(s) /\ Len(s) \in 1 .. Len(s)
           /\ DOMAIN s = 1 .. Len(s)
           /\ \A k \in 1 .. Len(s) : /\ s[k] \in Elements /\ s[k] \in Listed(s)
                                     /\ Height[s[k]] \in Nat /\ Height[s[k]] >= 1
           /\ Listed(s) = {s[k] : k \in 1 .. Len(s)} /\ Listed(s) \subseteq Elements
<1>1. Len(s) \in Nat /\ DOMAIN s = 1 .. Len(s) /\ \A k \in 1 .. Len(s) : s[k] \in Elements
  BY LenProperties, ElementOfSeq DEF Proper
<1>2. Len(s) # 0
  BY EmptySeq DEF Proper
<1>3. QED
  BY <1>1, <1>2, Heights DEF Listed

\* One element is a list.
LEMMA Alone ==
    ASSUME NEW e \in Elements
    PROVE  /\ Proper(<<e>>) /\ Len(<<e>>) = 1 /\ <<e>>[1] = e /\ Listed(<<e>>) = {e}
<1>1. <<e>> \in Seq(Elements) /\ Len(<<e>>) = 1 /\ <<e>>[1] = e /\ <<e>> # <<>>
  OBVIOUS
<1>2. \A j \in 1 .. 1 : j = 1
  OBVIOUS
<1>3. DOMAIN <<e>> = 1 .. 1
  OBVIOUS
<1>4. QED
  BY <1>1, <1>2, <1>3 DEF Proper, Listed

\* The highest level of a list is that of one of its elements, and none is higher.
LEMMA TallestIs ==
    ASSUME NEW s, Proper(s)
    PROVE  /\ Tallest(s) \in Nat /\ Tallest(s) >= 1
           /\ \A k \in 1 .. Len(s) : Height[s[k]] <= Tallest(s)
           /\ \E k \in 1 .. Len(s) : Height[s[k]] = Tallest(s)
<1> DEFINE n == Len(s)
           H == UNION {1 .. Height[s[k]] : k \in DOMAIN s}
<1>1. /\ n \in Nat /\ n >= 1 /\ DOMAIN s = 1 .. n
      /\ \A k \in 1 .. n : Height[s[k]] \in Nat /\ Height[s[k]] >= 1
  BY ProperList
<1> HIDE DEF n
<1>2. \E M \in Nat : \A k \in 1 .. n : Height[s[k]] <= M
  <2> DEFINE Bad == {m \in 0 .. n : ~ \E M \in Nat : \A k \in 1 .. m : Height[s[k]] <= M}
  <2>1. ASSUME Bad # {}
        PROVE  FALSE
    <3>1. Bad \in SUBSET Nat
      BY <1>1
    <3>2. PICK m \in Bad : \A k \in Bad : m <= k
      <4> HIDE DEF Bad
      <4>1. QED
        BY <2>1, <3>1, LeastNumber
    <3>3. m # 0
      <4>1. \A k \in 1 .. 0 : Height[s[k]] <= 0
        OBVIOUS
      <4>2. QED
        BY <3>2, <4>1
    <3>4. m \in 1 .. n /\ m - 1 \in 0 .. n /\ ~(m <= m - 1)
      BY <1>1, <3>2, <3>3
    <3>5. m - 1 \notin Bad
      <4> HIDE DEF Bad
      <4>1. QED
        BY <3>2, <3>4
    <3>6. PICK M \in Nat : \A k \in 1 .. m - 1 : Height[s[k]] <= M
      BY <3>4, <3>5
    <3>7. PICK L \in Nat : L >= M /\ L >= Height[s[m]]
      <4>1. Height[s[m]] \in Nat
        BY <1>1, <3>4
      <4>2. M + Height[s[m]] \in Nat /\ M + Height[s[m]] >= M /\ M + Height[s[m]] >= Height[s[m]]
        BY <4>1
      <4>3. QED
        BY <4>2
    <3>8. \A k \in 1 .. m : Height[s[k]] <= L
      <4>1. TAKE k \in 1 .. m
      <4>2. k \in 1 .. n /\ (k = m \/ k \in 1 .. m - 1)
        <5> HIDE DEF Bad, H
        <5>1. QED
          BY <1>1, <3>4
      <4>3. Height[s[k]] \in Nat
        BY <1>1, <4>2
      <4>4. QED
        BY <3>6, <3>7, <4>2, <4>3
    <3>9. QED
      BY <3>2, <3>8
  <2>2. n \in 0 .. n /\ n \notin Bad
    <3>1. n \in 0 .. n
      BY <1>1
    <3>2. QED
      BY <2>1, <3>1
  <2>3. QED
    BY <2>2
<1> DEFINE B == {m \in Nat : \A k \in 1 .. n : Height[s[k]] <= m}
<1>3. PICK M \in B : \A m \in B : M <= m
  <2>1. B \in SUBSET Nat /\ B # {}
    BY <1>2
  <2> HIDE DEF B
  <2>2. QED
    BY <2>1, LeastNumber
<1>4. M \in Nat /\ \A k \in 1 .. n : Height[s[k]] <= M
  BY <1>3
<1>5. PICK j \in 1 .. n : Height[s[j]] = M
  <2>1. SUFFICES ASSUME \A k \in 1 .. n : Height[s[k]] # M
                 PROVE  FALSE
    OBVIOUS
  <2>2. \A k \in 1 .. n : Height[s[k]] <= M - 1
    BY <1>1, <1>4, <2>1
  <2>3. 1 \in 1 .. n
    BY <1>1
  <2>4. Height[s[1]] \in Nat /\ Height[s[1]] >= 1 /\ Height[s[1]] <= M - 1
    BY <1>1, <2>2, <2>3
  <2>5. M - 1 \in Nat
    BY <1>4, <2>4
  <2>6. M - 1 \in B
    BY <2>2, <2>5
  <2>7. ~(M <= M - 1)
    BY <1>4
  <2> HIDE DEF B
  <2>8. QED
    BY <1>3, <2>6, <2>7
<1>6. H = 1 .. M
  <2>1. \A h \in H : h \in 1 .. M
    BY <1>1, <1>4
  <2>2. \A h \in 1 .. M : h \in H
    BY <1>1, <1>5
  <2>3. QED
    BY <2>1, <2>2
<1>7. Tallest(s) = M
  <2>1. Cardinality(1 .. M) = IF 1 > M THEN 0 ELSE M - 1 + 1
    BY <1>4, FS_Interval
  <2>2. M >= 1
    BY <1>1, <1>5
  <2>3. Cardinality(1 .. M) = M
    BY <1>4, <2>1, <2>2
  <2>4. QED
    BY <1>6, <2>3 DEF Tallest
<1>8. QED
  BY <1>1, <1>4, <1>5, <1>7 DEF n

------------------------------------------------------------------------------
\* Which node covers a place

\* The place q, or the boundary if q is 0, is the one that is looked up from p on level k.
Over(s, p, k, q) == /\ q \in 0 .. p
                    /\ q = 0 \/ Height[s[q]] >= k
                    /\ \A r \in 1 .. p : r > q => Height[s[r]] < k
Stand(s, p, k) == CHOOSE q \in 0 .. p : Over(s, p, k, q)
Named(s, q, k) == IF q = 0 THEN Bdry(s[1], k) ELSE Elem(s[q], k)
Cover(s, p, k) == Named(s, Stand(s, p, k), k)

LEMMA StandIs ==
    ASSUME NEW s, Proper(s), NEW p \in 0 .. Len(s), NEW k \in Nat \ {0}
    PROVE  /\ Over(s, p, k, Stand(s, p, k))
           /\ Stand(s, p, k) \in 0 .. p /\ Stand(s, p, k) \in 0 .. Len(s)
           /\ \A q : Over(s, p, k, q) => Stand(s, p, k) = q
<1>1. /\ Len(s) \in Nat /\ \A j \in 1 .. Len(s) : Height[s[j]] \in Nat
  BY ProperList
<1>2. \A j \in 1 .. p : Height[s[j]] \in Nat
  BY <1>1
<1>3. \E q : Over(s, p, k, q)
  <2> DEFINE D == {d \in 0 .. p : p - d = 0 \/ Height[s[p - d]] >= k}
  <2>1. D \in SUBSET Nat /\ p \in D
    BY <1>1
  <2>2. PICK d \in D : \A c \in D : d <= c
    <3> HIDE DEF D
    <3>1. QED
      BY <2>1, LeastNumber
  <2>3. d \in 0 .. p /\ p - d \in 0 .. p /\ (p - d = 0 \/ Height[s[p - d]] >= k)
    BY <1>1, <2>2
  <2>4. \A r \in 1 .. p : r > p - d => Height[s[r]] < k
    <3>1. SUFFICES ASSUME NEW r \in 1 .. p, r > p - d, ~(Height[s[r]] < k)
                   PROVE  FALSE
      OBVIOUS
    <3>2. p - r \in 0 .. p /\ p - (p - r) = r /\ ~(d <= p - r)
      BY <1>1, <2>3, <3>1
    <3>3. Height[s[r]] >= k
      BY <1>2, <3>1
    <3>4. p - r \in D
      BY <3>2, <3>3
    <3>5. QED
      <4> HIDE DEF D
      <4>1. QED
        BY <2>2, <3>2, <3>4
  <2>5. QED
    BY <2>3, <2>4 DEF Over
<1>4. Over(s, p, k, Stand(s, p, k))
  <2>1. \E q \in 0 .. p : Over(s, p, k, q)
    BY <1>3 DEF Over
  <2>2. QED
    BY <2>1 DEF Stand
<1>5. ASSUME NEW q, NEW r, Over(s, p, k, q), Over(s, p, k, r)
      PROVE  q = r
  <2>1. q \in 0 .. p /\ r \in 0 .. p
    BY <1>5 DEF Over
  <2>2. ~(q < r)
    <3>1. SUFFICES ASSUME q < r
                   PROVE  FALSE
      OBVIOUS
    <3>2. r \in 1 .. p /\ r > q /\ r # 0
      BY <1>1, <2>1, <3>1
    <3>3. Height[s[r]] < k /\ Height[s[r]] >= k
      BY <1>5, <3>2 DEF Over
    <3>4. QED
      BY <1>2, <3>2, <3>3
  <2>3. ~(r < q)
    <3>1. SUFFICES ASSUME r < q
                   PROVE  FALSE
      OBVIOUS
    <3>2. q \in 1 .. p /\ q > r /\ q # 0
      BY <1>1, <2>1, <3>1
    <3>3. Height[s[q]] < k /\ Height[s[q]] >= k
      BY <1>5, <3>2 DEF Over
    <3>4. QED
      BY <1>2, <3>2, <3>3
  <2>4. QED
    BY <1>1, <2>1, <2>2, <2>3
<1>6. Stand(s, p, k) \in 0 .. p
  BY <1>4 DEF Over
<1>7. QED
  BY <1>1, <1>4, <1>5, <1>6

\* The names of places tell them apart.
LEMMA NamedApart ==
    ASSUME NEW s, Proper(s), NEW q \in 0 .. Len(s), NEW r \in 0 .. Len(s), NEW k, NEW j
    PROVE  /\ Named(s, q, k) = Named(s, r, j) <=> q = r /\ k = j
           /\ Named(s, q, k).level = k
           /\ Named(s, q, k).bdry <=> q = 0
           /\ q # 0 => Named(s, q, k).elem = s[q]
<1>1. q # 0 => q \in 1 .. Len(s)
  BY ProperList
<1>2. r # 0 => r \in 1 .. Len(s)
  BY ProperList
<1>3. q # 0 /\ r # 0 => (s[q] = s[r] <=> q = r)
  BY <1>1, <1>2 DEF Proper
<1>4. QED
  BY <1>3, NodeNames DEF Named

\* The nodes of a list are those of its places.
NodeAt(s, q, k) == /\ q \in 0 .. Len(s) /\ k \in Nat /\ k >= 1
                   /\ q = 0 => k <= Tallest(s) + 1
                   /\ q # 0 => k <= Height[s[q]]
LEMMA NodesAre ==
    ASSUME NEW s, Proper(s)
    PROVE  /\ \A q, k : NodeAt(s, q, k) => Named(s, q, k) \in AllNodes(s)
           /\ \A n \in AllNodes(s) : \E q, k : NodeAt(s, q, k) /\ n = Named(s, q, k)
<1>1. /\ Len(s) \in Nat /\ Len(s) >= 1 /\ Tallest(s) \in Nat
      /\ \A k \in 1 .. Len(s) : Height[s[k]] \in Nat
      /\ Listed(s) = {s[k] : k \in 1 .. Len(s)}
  BY ProperList, TallestIs
<1>2. ASSUME NEW q, NEW k, NodeAt(s, q, k)
      PROVE  Named(s, q, k) \in AllNodes(s)
  <2>1. CASE q = 0
    <3>1. k \in 1 .. Tallest(s) + 1
      BY <1>1, <1>2, <2>1 DEF NodeAt
    <3>2. QED
      BY <2>1, <3>1 DEF Named, AllNodes, Boundary
  <2>2. CASE q # 0
    <3>1. q \in 1 .. Len(s)
      BY <1>1, <1>2, <2>2 DEF NodeAt
    <3>2. k \in 1 .. Height[s[q]] /\ s[q] \in Listed(s)
      BY <1>1, <1>2, <2>2, <3>1 DEF NodeAt
    <3>3. QED
      BY <2>2, <3>2 DEF Named, AllNodes, ListNodes
  <2>3. QED
    BY <2>1, <2>2
<1>3. ASSUME NEW n \in AllNodes(s)
      PROVE  \E q, k : NodeAt(s, q, k) /\ n = Named(s, q, k)
  <2>1. CASE n \in Boundary(s)
    <3>1. PICK k \in 1 .. Tallest(s) + 1 : n = Bdry(s[1], k)
      BY <2>1 DEF Boundary
    <3>2. NodeAt(s, 0, k)
      BY <1>1, <3>1 DEF NodeAt
    <3>3. n = Named(s, 0, k)
      BY <3>1 DEF Named
    <3>4. QED
      BY <3>2, <3>3
  <2>2. CASE n \in ListNodes(s)
    <3>1. PICK q \in 1 .. Len(s) : n \in {Elem(s[q], k) : k \in 1 .. Height[s[q]]}
      BY <1>1, <2>2 DEF ListNodes
    <3>2. PICK k \in 1 .. Height[s[q]] : n = Elem(s[q], k)
      BY <3>1
    <3>3. q # 0 /\ q \in 0 .. Len(s) /\ k \in Nat /\ k >= 1 /\ k <= Height[s[q]]
      BY <1>1, <3>1, <3>2
    <3>4. NodeAt(s, q, k) /\ n = Named(s, q, k)
      BY <3>2, <3>3 DEF NodeAt, Named
    <3>5. QED
      BY <3>4
  <2>3. QED
    BY <1>3, <2>1, <2>2 DEF AllNodes
<1>4. QED
  BY <1>2, <1>3

\* A node covers its own place.
LEMMA CoverOwn ==
    ASSUME NEW s, Proper(s), NEW q, NEW k, NodeAt(s, q, k)
    PROVE  /\ Stand(s, q, k) = q /\ Cover(s, q, k) = Named(s, q, k)
           /\ k \in Nat \ {0} /\ q \in 0 .. Len(s) /\ k <= Tallest(s) + 1
<1>1. /\ q \in 0 .. Len(s) /\ Len(s) \in Nat /\ k \in Nat \ {0} /\ Tallest(s) \in Nat
      /\ \A j \in 1 .. Len(s) : Height[s[j]] \in Nat /\ Height[s[j]] <= Tallest(s)
  BY ProperList, TallestIs DEF NodeAt
<1>2. q \in 0 .. q /\ \A r \in 1 .. q : ~(r > q)
  BY <1>1
<1>3. q # 0 => q \in 1 .. Len(s)
  BY <1>1
<1>4. Over(s, q, k, q)
  BY <1>1, <1>2, <1>3 DEF Over, NodeAt
<1>5. Stand(s, q, k) = q
  BY <1>1, <1>4, StandIs
<1>6. k <= Tallest(s) + 1
  BY <1>1, <1>3 DEF NodeAt
<1>7. QED
  BY <1>1, <1>5, <1>6 DEF Cover

\* A place is covered by nodes of the list up to its root.
LEMMA CoverNode ==
    ASSUME NEW s, Proper(s), NEW p \in 0 .. Len(s), NEW k \in 1 .. Tallest(s) + 1
    PROVE  /\ NodeAt(s, Stand(s, p, k), k)
           /\ Cover(s, p, k) \in AllNodes(s) /\ Cover(s, p, k).level = k
<1>1. /\ Len(s) \in Nat /\ Tallest(s) \in Nat /\ k \in Nat \ {0}
      /\ \A j \in 1 .. Len(s) : Height[s[j]] \in Nat
  BY ProperList, TallestIs
<1>2. Over(s, p, k, Stand(s, p, k)) /\ Stand(s, p, k) \in 0 .. Len(s)
  BY <1>1, StandIs
<1>3. Stand(s, p, k) # 0 => Stand(s, p, k) \in 1 .. Len(s)
  BY <1>1, <1>2
<1>4. NodeAt(s, Stand(s, p, k), k)
  BY <1>1, <1>2, <1>3 DEF Over, NodeAt
<1>5. QED
  BY <1>2, <1>4, NodesAre, NamedApart DEF Cover

\* What covers a node covers what the node covers.
LEMMA CoverUp ==
    ASSUME NEW s, Proper(s), NEW p \in 0 .. Len(s), NEW k \in Nat \ {0}, NEW j \in Nat, j >= k
    PROVE  /\ Stand(s, Stand(s, p, k), j) = Stand(s, p, j)
           /\ Cover(s, Stand(s, p, k), j) = Cover(s, p, j)
<1> DEFINE q == Stand(s, p, k)
           r == Stand(s, p, j)
<1>1. /\ Len(s) \in Nat /\ j \in Nat \ {0}
      /\ \A i \in 1 .. Len(s) : Height[s[i]] \in Nat
  BY ProperList
<1>2. Over(s, p, k, q) /\ q \in 0 .. p /\ q \in 0 .. Len(s)
  BY StandIs
<1>3. Over(s, p, j, r) /\ r \in 0 .. p
  BY <1>1, StandIs
<1> HIDE DEF q, r
<1>4. r \in 0 .. q
  <2>1. SUFFICES ASSUME r > q
                 PROVE  FALSE
    BY <1>2, <1>3
  <2>2. r \in 1 .. p /\ r \in 1 .. Len(s) /\ r # 0
    BY <1>1, <1>2, <1>3, <2>1
  <2>3. Height[s[r]] < k /\ Height[s[r]] >= j
    BY <1>2, <1>3, <2>1, <2>2 DEF Over
  <2>4. QED
    BY <1>1, <2>2, <2>3
<1>5. \A i \in 1 .. q : i \in 1 .. p
  BY <1>1, <1>2
<1>6. Over(s, q, j, r)
  BY <1>3, <1>4, <1>5 DEF Over
<1>7. Stand(s, q, j) = r
  BY <1>1, <1>2, <1>6, StandIs
<1>8. QED
  BY <1>7 DEF Cover, q, r

\* The root covers all places.
LEMMA RootCovers ==
    ASSUME NEW s, Proper(s), NEW p \in 0 .. Len(s), NEW k \in Nat, k > Tallest(s)
    PROVE  Stand(s, p, k) = 0 /\ Cover(s, p, k) = Bdry(s[1], k)
<1>1. /\ Len(s) \in Nat /\ Tallest(s) \in Nat /\ k \in Nat \ {0}
      /\ \A i \in 1 .. Len(s) : Height[s[i]] \in Nat /\ Height[s[i]] <= Tallest(s)
  BY ProperList, TallestIs
<1>2. \A r \in 1 .. p : r \in 1 .. Len(s)
  BY <1>1
<1>3. 0 \in 0 .. p
  BY <1>1
<1>4. Over(s, p, k, 0)
  BY <1>1, <1>2, <1>3 DEF Over
<1>5. QED
  BY <1>1, <1>4, StandIs DEF Cover, Named

------------------------------------------------------------------------------
\* Parent pointers

\* The root is the boundary node on the level above the highest, and it alone is so high.
LEMMA RootIs ==
    ASSUME NEW s, Proper(s)
    PROVE  /\ Root(s) = Named(s, 0, Tallest(s) + 1) /\ NodeAt(s, 0, Tallest(s) + 1)
           /\ Root(s) \in AllNodes(s) /\ Root(s) \in Boundary(s)
           /\ Root(s).level = Tallest(s) + 1 /\ Root(s).bdry
           /\ \A n \in AllNodes(s) : /\ n.level \in 1 .. Tallest(s) + 1
                                     /\ n.level = Tallest(s) + 1 <=> n = Root(s)
<1>1. /\ Len(s) \in Nat /\ Tallest(s) \in Nat /\ 0 \in 0 .. Len(s)
      /\ \A k \in 1 .. Len(s) : Height[s[k]] \in Nat /\ Height[s[k]] <= Tallest(s)
  BY ProperList, TallestIs
<1>2. Root(s) = Named(s, 0, Tallest(s) + 1)
  BY DEF Root, Named
<1>3. NodeAt(s, 0, Tallest(s) + 1)
  BY <1>1 DEF NodeAt
<1>4. Root(s) \in AllNodes(s) /\ Root(s).level = Tallest(s) + 1 /\ Root(s).bdry
  BY <1>1, <1>2, <1>3, NodesAre, NamedApart
<1>5. Root(s) \in Boundary(s)
  BY <1>1 DEF Root, Boundary
<1>6. ASSUME NEW n \in AllNodes(s)
      PROVE  /\ n.level \in 1 .. Tallest(s) + 1
             /\ n.level = Tallest(s) + 1 <=> n = Root(s)
  <2>1. PICK q, k : NodeAt(s, q, k) /\ n = Named(s, q, k)
    BY NodesAre
  <2>2. n.level = k /\ k \in Nat /\ k >= 1 /\ q \in 0 .. Len(s)
    BY <2>1, NamedApart DEF NodeAt
  <2>3. q # 0 => q \in 1 .. Len(s) /\ k <= Tallest(s)
    BY <1>1, <2>1, <2>2 DEF NodeAt
  <2>4. k \in 1 .. Tallest(s) + 1
    BY <1>1, <2>1, <2>2, <2>3 DEF NodeAt
  <2>5. k = Tallest(s) + 1 => q = 0
    BY <1>1, <2>3
  <2>6. QED
    BY <1>2, <1>4, <2>1, <2>2, <2>4, <2>5
<1>7. QED
  BY <1>2, <1>3, <1>4, <1>5, <1>6

\* The closest node at or left of a node on the next level is what covers it there.
LEMMA NearestIs ==
    ASSUME NEW s, Proper(s), NEW q, NEW k, NodeAt(s, q, k)
    PROVE  Nearest(s, Named(s, q, k)) =
               IF Named(s, q, k) = Root(s) THEN NoNode ELSE Cover(s, q, k + 1)
<1> DEFINE n == Named(s, q, k)
           place == IF n.bdry THEN 0 ELSE CHOOSE p \in DOMAIN s : s[p] = n.elem
           taller == {r \in 1 .. place : Height[s[r]] > n.level}
           last == CHOOSE r \in taller : \A i \in taller : i <= r
           c == Stand(s, q, k + 1)
<1>0. Nearest(s, n) = IF taller # {} THEN Elem(s[last], n.level + 1)
                      ELSE IF n = Root(s) THEN NoNode ELSE Bdry(s[1], n.level + 1)
  BY Zenon DEF Nearest
<1>1. /\ Len(s) \in Nat /\ DOMAIN s = 1 .. Len(s) /\ q \in 0 .. Len(s) /\ k \in Nat /\ k >= 1
      /\ \A j \in 1 .. Len(s) : Height[s[j]] \in Nat
  BY ProperList DEF NodeAt
<1>2. n.level = k /\ (n.bdry <=> q = 0) /\ (q # 0 => n.elem = s[q])
  BY <1>1, NamedApart
<1> HIDE DEF n
<1>3. place = q
  <2>1. CASE q = 0
    BY <1>2, <2>1
  <2>2. CASE q # 0
    <3>1. q \in DOMAIN s /\ s[q] = n.elem
      BY <1>1, <1>2, <2>2
    <3>2. \A p \in DOMAIN s : s[p] = n.elem => p = q
      BY <1>1, <3>1 DEF Proper
    <3>3. (CHOOSE p \in DOMAIN s : s[p] = n.elem) = q
      BY <3>1, <3>2
    <3>4. QED
      BY <1>2, <2>2, <3>3
  <2>3. QED
    BY <2>1, <2>2
<1>4. k + 1 \in Nat \ {0}
  BY <1>1
<1>5. Over(s, q, k + 1, c) /\ c \in 0 .. q /\ c \in 0 .. Len(s)
  BY <1>1, <1>4, StandIs
<1> HIDE DEF place, c
<1>6. taller = {r \in 1 .. q : Height[s[r]] > k}
  BY <1>2, <1>3
<1> HIDE DEF taller
<1>7. \A r \in 1 .. q : r \in 1 .. Len(s)
  BY <1>1
<1>8. CASE c = 0
  <2>1. \A r \in 1 .. q : ~(Height[s[r]] > k)
    BY <1>1, <1>5, <1>7, <1>8 DEF Over
  <2>2. taller = {}
    BY <1>6, <2>1
  <2>3. QED
    BY <1>0, <1>2, <1>8, <2>2 DEF Cover, Named, n, c
<1>9. CASE c # 0
  <2>1. c \in 1 .. q /\ Height[s[c]] >= k + 1
    BY <1>1, <1>5, <1>9 DEF Over
  <2>2. c \in taller
    BY <1>1, <1>6, <1>7, <2>1
  <2>3. \A r \in taller : r <= c
    BY <1>1, <1>5, <1>6, <1>7 DEF Over
  <2>4. last = c
    <3>1. \A r \in taller : r \in Nat
      BY <1>6
    <3>2. \A r \in taller : (\A i \in taller : i <= r) => r = c
      BY <2>2, <2>3, <3>1
    <3>3. QED
      BY <2>2, <2>3, <3>2
  <2>5. n # Root(s)
    <3>1. SUFFICES ASSUME n = Root(s)
                   PROVE  FALSE
      OBVIOUS
    <3>2. q = 0
      BY <1>2, <3>1, RootIs
    <3>3. QED
      BY <2>1, <3>2
  <2>6. Nearest(s, n) = Elem(s[c], k + 1)
    BY <1>0, <1>2, <2>2, <2>4
  <2>7. QED
    BY <1>9, <2>5, <2>6 DEF Cover, Named, n, c
<1>10. QED
  BY <1>8, <1>9

\* The pointers of list s in a heap.
Pointers(heap, s) == \A n \in AllNodes(s) : heap[n] = Nearest(s, n)

LEMMA PointersCover ==
    ASSUME NEW s, Proper(s), NEW heap, Pointers(heap, s), NEW p \in 0 .. Len(s),
           NEW k \in 1 .. Tallest(s)
    PROVE  heap[Cover(s, p, k)] = Cover(s, p, k + 1)
<1>1. /\ Len(s) \in Nat /\ Tallest(s) \in Nat
  BY ProperList, TallestIs
<1>2. k \in 1 .. Tallest(s) + 1 /\ k \in Nat \ {0} /\ k + 1 \in Nat /\ k + 1 >= k /\ k # Tallest(s) + 1
  BY <1>1
<1> DEFINE q == Stand(s, p, k)
<1>3. NodeAt(s, q, k) /\ Cover(s, p, k) \in AllNodes(s) /\ Cover(s, p, k).level = k
  BY <1>2, CoverNode
<1>4. Cover(s, p, k) = Named(s, q, k)
  BY DEF Cover
<1>5. Cover(s, p, k) # Root(s)
  BY <1>2, <1>3, RootIs
<1>6. heap[Cover(s, p, k)] = Nearest(s, Named(s, q, k))
  BY <1>3, <1>4 DEF Pointers
<1>7. Nearest(s, Named(s, q, k)) = Cover(s, q, k + 1)
  BY <1>3, <1>4, <1>5, NearestIs
<1>8. Cover(s, q, k + 1) = Cover(s, p, k + 1)
  BY <1>2, CoverUp
<1>9. QED
  BY <1>6, <1>7, <1>8

\* The way up from an element comes by the nodes that cover it.
LEMMA PathIs ==
    ASSUME NEW s, Proper(s), Pointers(parent, s), NEW p \in 1 .. Len(s)
    PROVE  /\ DOMAIN Path(s[p], s) = 1 .. Tallest(s) + 1
           /\ \A k \in 1 .. Tallest(s) + 1 : Path(s[p], s)[k] = Cover(s, p, k)
<1> DEFINE T == Tallest(s) + 1
           Way(f) == f = [k \in 1 .. T |-> IF k = 1 THEN Elem(s[p], 1) ELSE parent[f[k - 1]]]
           g == [k \in 1 .. T |-> Cover(s, p, k)]
           f == Path(s[p], s)
<1>1. /\ Len(s) \in Nat /\ Tallest(s) \in Nat /\ Tallest(s) >= 1 /\ p \in 0 .. Len(s) /\ p # 0
      /\ Height[s[p]] \in Nat /\ Height[s[p]] >= 1
  BY ProperList, TallestIs
<1>2. Cover(s, p, 1) = Elem(s[p], 1)
  <2>1. NodeAt(s, p, 1)
    BY <1>1 DEF NodeAt
  <2>2. QED
    BY <1>1, <2>1, CoverOwn DEF Named
<1>3. \A k \in 1 .. T : k # 1 => /\ k - 1 \in 1 .. T /\ k - 1 \in 1 .. Tallest(s)
                                 /\ parent[Cover(s, p, k - 1)] = Cover(s, p, k)
  <2>1. SUFFICES ASSUME NEW k \in 1 .. T, k # 1
                 PROVE  /\ k - 1 \in 1 .. T /\ k - 1 \in 1 .. Tallest(s)
                        /\ parent[Cover(s, p, k - 1)] = Cover(s, p, k)
    OBVIOUS
  <2>2. k - 1 \in 1 .. T /\ k - 1 \in 1 .. Tallest(s) /\ k - 1 + 1 = k
    BY <1>1, <2>1
  <2>3. QED
    BY <1>1, <2>2, PointersCover
<1>4. Way(g)
  BY <1>2, <1>3
<1>5. f = CHOOSE h : Way(h)
  BY DEF Path
<1>6. Way(f)
  <2> HIDE DEF f, g
  <2> HIDE DEF Way
  <2>1. QED
    BY <1>4, <1>5
<1> HIDE DEF f
<1> DEFINE Bad == {k \in 1 .. T : f[k] # Cover(s, p, k)}
<1>7. ASSUME Bad # {}
      PROVE  FALSE
  <2>1. Bad \in SUBSET Nat
    BY <1>1
  <2>2. PICK m \in Bad : \A k \in Bad : m <= k
    <3> HIDE DEF Bad
    <3>1. QED
      BY <1>7, <2>1, LeastNumber
  <2>3. m # 1
    <3>1. 1 \in 1 .. T
      BY <1>1
    <3>2. f[1] = Elem(s[p], 1)
      BY <1>6, <3>1
    <3>3. QED
      BY <1>2, <2>2, <3>2
  <2>4. m \in 1 .. T /\ m - 1 \in 1 .. T /\ ~(m <= m - 1)
    BY <1>1, <1>3, <2>2, <2>3
  <2>5. m - 1 \notin Bad
    <3> HIDE DEF Bad
    <3>1. QED
      BY <2>2, <2>4
  <2>6. f[m - 1] = Cover(s, p, m - 1)
    BY <2>4, <2>5
  <2>7. f[m] = parent[f[m - 1]]
    BY <1>6, <2>3, <2>4
  <2>8. f[m] = Cover(s, p, m)
    BY <1>3, <2>3, <2>4, <2>6, <2>7
  <2>9. QED
    BY <2>2, <2>8
<1>8. DOMAIN f = 1 .. T
  BY <1>6
<1>9. QED
  BY <1>7, <1>8 DEF f

------------------------------------------------------------------------------
\* Two lists joined

LEMMA Joined ==
    ASSUME NEW s, Proper(s), NEW t, Proper(t), Listed(s) \cap Listed(t) = {}
    PROVE  /\ Proper(s \o t) /\ Len(s \o t) = Len(s) + Len(t)
           /\ Listed(s \o t) = Listed(s) \cup Listed(t)
           /\ \A i \in 1 .. Len(s) : (s \o t)[i] = s[i]
           /\ \A j \in 1 .. Len(t) : (s \o t)[Len(s) + j] = t[j]
           /\ (s \o t)[1] = s[1] /\ s[1] # t[1] /\ s # t
<1> DEFINE m == Len(s)
           n == Len(t)
           u == s \o t
<1>1. /\ m \in Nat /\ m >= 1 /\ n \in Nat /\ n >= 1 /\ 1 \in 1 .. m /\ 1 \in 1 .. n
      /\ Listed(s) = {s[k] : k \in 1 .. m} /\ Listed(t) = {t[k] : k \in 1 .. n}
      /\ \A k \in 1 .. m : s[k] \in Listed(s)
      /\ \A k \in 1 .. n : t[k] \in Listed(t)
  BY ProperList
<1>2. /\ u \in Seq(Elements) /\ Len(u) = m + n
      /\ \A i \in 1 .. m + n : u[i] = IF i <= m THEN s[i] ELSE t[i - m]
  BY ConcatProperties DEF Proper
<1>3. DOMAIN u = 1 .. m + n
  BY <1>2, LenProperties
<1> HIDE DEF u, m, n
<1>4. \A i \in 1 .. m : i \in 1 .. m + n /\ u[i] = s[i]
  <2>1. SUFFICES ASSUME NEW i \in 1 .. m
                 PROVE  i \in 1 .. m + n /\ u[i] = s[i]
    OBVIOUS
  <2>2. i \in 1 .. m + n /\ i <= m
    BY <1>1
  <2>3. QED
    BY <1>2, <2>2
<1>5. \A j \in 1 .. n : m + j \in 1 .. m + n /\ u[m + j] = t[j]
  <2>1. SUFFICES ASSUME NEW j \in 1 .. n
                 PROVE  m + j \in 1 .. m + n /\ u[m + j] = t[j]
    OBVIOUS
  <2> DEFINE i == m + j
  <2>2. i \in 1 .. m + n /\ ~(i <= m) /\ i - m = j
    BY <1>1
  <2> HIDE DEF i
  <2>3. i \in 1 .. m + n /\ u[i] = t[j]
    BY <1>2, <2>2
  <2>4. QED
    BY <2>3 DEF i
<1>6. \A i \in 1 .. m + n : i \in 1 .. m \/ \E j \in 1 .. n : i = m + j
  <2>1. SUFFICES ASSUME NEW i \in 1 .. m + n, i \notin 1 .. m
                 PROVE  \E j \in 1 .. n : i = m + j
    OBVIOUS
  <2> DEFINE j == i - m
  <2>2. j \in 1 .. n /\ i = m + j
    BY <1>1, <2>1
  <2> HIDE DEF j
  <2>3. QED
    BY <2>2
<1>7. ASSUME NEW i \in 1 .. m + n, NEW j \in 1 .. m + n, u[i] = u[j]
      PROVE  i = j
  <2>1. CASE i \in 1 .. m /\ j \in 1 .. m
    BY <1>4, <1>7, <2>1 DEF Proper, m
  <2>2. CASE i \in 1 .. m /\ j \notin 1 .. m
    <3>1. PICK k \in 1 .. n : j = m + k
      BY <1>6, <2>2
    <3>2. s[i] = t[k]
      BY <1>4, <1>5, <1>7, <2>2, <3>1
    <3>3. QED
      BY <1>1, <2>2, <3>2
  <2>3. CASE i \notin 1 .. m /\ j \in 1 .. m
    <3>1. PICK k \in 1 .. n : i = m + k
      BY <1>6, <2>3
    <3>2. s[j] = t[k]
      BY <1>4, <1>5, <1>7, <2>3, <3>1
    <3>3. QED
      BY <1>1, <2>3, <3>2
  <2>4. CASE i \notin 1 .. m /\ j \notin 1 .. m
    <3>1. PICK k \in 1 .. n : i = m + k
      BY <1>6, <2>4
    <3>2. PICK h \in 1 .. n : j = m + h
      BY <1>6, <2>4
    <3>3. t[k] = t[h]
      BY <1>5, <1>7, <3>1, <3>2
    <3>4. k = h
      BY <3>3 DEF Proper, n
    <3>5. QED
      BY <3>1, <3>2, <3>4
  <2>5. QED
    BY <2>1, <2>2, <2>3, <2>4
<1>8. u # <<>>
  BY <1>1, <1>2, EmptySeq
<1>9. Listed(u) = Listed(s) \cup Listed(t)
  <2>1. Listed(u) = {u[k] : k \in 1 .. m + n}
    BY <1>3 DEF Listed
  <2>2. \A x \in Listed(u) : x \in Listed(s) \cup Listed(t)
    <3>1. SUFFICES ASSUME NEW k \in 1 .. m + n
                   PROVE  u[k] \in Listed(s) \cup Listed(t)
      BY <2>1
    <3>2. CASE k \in 1 .. m
      BY <1>1, <1>4, <3>2
    <3>3. CASE k \notin 1 .. m
      <4>1. PICK j \in 1 .. n : k = m + j
        BY <1>6, <3>3
      <4>2. QED
        BY <1>1, <1>5, <4>1
    <3>4. QED
      BY <3>2, <3>3
  <2>3. \A x \in Listed(s) : x \in Listed(u)
    <3>1. SUFFICES ASSUME NEW k \in 1 .. m
                   PROVE  s[k] \in Listed(u)
      BY <1>1
    <3>2. k \in 1 .. m + n /\ u[k] = s[k]
      BY <1>4
    <3>3. QED
      BY <2>1, <3>2
  <2>4. \A x \in Listed(t) : x \in Listed(u)
    <3>1. SUFFICES ASSUME NEW k \in 1 .. n
                   PROVE  t[k] \in Listed(u)
      BY <1>1
    <3>2. m + k \in 1 .. m + n /\ u[m + k] = t[k]
      BY <1>5
    <3>3. QED
      BY <2>1, <3>2
  <2>5. QED
    BY <2>2, <2>3, <2>4
<1>10. s[1] # t[1]
  BY <1>1
<1>11. QED
  BY <1>1, <1>2, <1>4, <1>5, <1>7, <1>8, <1>9, <1>10 DEF Proper, u, m, n

\* The joined list is as high as the higher of both.
LEMMA JoinedTallest ==
    ASSUME NEW s, Proper(s), NEW t, Proper(t), Listed(s) \cap Listed(t) = {}
    PROVE  Tallest(s \o t) = IF Tallest(t) > Tallest(s) THEN Tallest(t) ELSE Tallest(s)
<1> DEFINE u == s \o t
<1>1. /\ Len(s) \in Nat /\ Len(t) \in Nat
      /\ Proper(u) /\ Len(u) = Len(s) + Len(t)
      /\ \A i \in 1 .. Len(s) : u[i] = s[i]
      /\ \A j \in 1 .. Len(t) : u[Len(s) + j] = t[j]
  BY Joined, ProperList
<1>2. /\ Tallest(s) \in Nat /\ Tallest(t) \in Nat /\ Tallest(u) \in Nat
      /\ \A k \in 1 .. Len(s) : Height[s[k]] <= Tallest(s)
      /\ \A k \in 1 .. Len(t) : Height[t[k]] <= Tallest(t)
      /\ \A k \in 1 .. Len(u) : Height[u[k]] <= Tallest(u)
  BY <1>1, TallestIs
<1> HIDE DEF u
<1>3. PICK i \in 1 .. Len(s) : Height[s[i]] = Tallest(s)
  BY TallestIs
<1>4. PICK j \in 1 .. Len(t) : Height[t[j]] = Tallest(t)
  BY TallestIs
<1>5. PICK k \in 1 .. Len(u) : Height[u[k]] = Tallest(u)
  BY <1>1, TallestIs
<1>6. i \in 1 .. Len(u) /\ Len(s) + j \in 1 .. Len(u)
  BY <1>1
<1>7. Tallest(s) <= Tallest(u) /\ Tallest(t) <= Tallest(u)
  BY <1>1, <1>2, <1>3, <1>4, <1>6
<1>8. k \in 1 .. Len(s) \/ (k - Len(s) \in 1 .. Len(t) /\ k = Len(s) + (k - Len(s)))
  BY <1>1
<1>9. Tallest(u) <= Tallest(s) \/ Tallest(u) <= Tallest(t)
  BY <1>1, <1>2, <1>5, <1>8
<1>10. QED
  BY <1>2, <1>7, <1>9 DEF u

\* What covers a place of a joined list: nothing changes in the left list, and where the
\* boundary of the right list covered, now what covers the last place of the left one does.
LEMMA JoinedCover ==
    ASSUME NEW s, Proper(s), NEW t, Proper(t), Listed(s) \cap Listed(t) = {}, NEW k \in Nat \ {0}
    PROVE  /\ \A p \in 0 .. Len(s) : /\ p \in 0 .. Len(s \o t)
                                     /\ Stand(s \o t, p, k) = Stand(s, p, k)
                                     /\ Cover(s \o t, p, k) = Cover(s, p, k)
           /\ \A j \in 1 .. Len(t) :
                 /\ Len(s) + j \in 1 .. Len(s \o t)
                 /\ Cover(s \o t, Len(s) + j, k) = IF Stand(t, j, k) = 0 THEN Cover(s, Len(s), k)
                                                   ELSE Cover(t, j, k)
<1> DEFINE u == s \o t
           m == Len(s)
           n == Len(t)
<1>1. /\ m \in Nat /\ n \in Nat /\ m >= 1 /\ n >= 1
      /\ Proper(u) /\ Len(u) = m + n
      /\ \A i \in 1 .. m : u[i] = s[i]
      /\ \A j \in 1 .. n : u[m + j] = t[j]
      /\ u[1] = s[1]
  BY Joined, ProperList
<1> HIDE DEF u
<1>2. ASSUME NEW p \in 0 .. m
      PROVE  p \in 0 .. Len(u) /\ Stand(u, p, k) = Stand(s, p, k) /\ Cover(u, p, k) = Cover(s, p, k)
  <2>1. p \in 0 .. Len(u) /\ p \in 0 .. Len(s)
    BY <1>1
  <2> DEFINE q == Stand(s, p, k)
  <2>2. Over(s, p, k, q) /\ q \in 0 .. p
    BY <2>1, StandIs
  <2> HIDE DEF q
  <2>3. \A r \in 1 .. p : u[r] = s[r]
    BY <1>1
  <2>4. q # 0 => q \in 1 .. p
    BY <1>1, <2>2
  <2>5. Over(u, p, k, q)
    BY <2>2, <2>3, <2>4 DEF Over
  <2>6. Stand(u, p, k) = q
    BY <1>1, <2>1, <2>5, StandIs
  <2>7. QED
    BY <1>1, <2>1, <2>3, <2>4, <2>6 DEF Cover, Named, q
<1>3. ASSUME NEW j \in 1 .. n
      PROVE  /\ m + j \in 1 .. Len(u)
             /\ Cover(u, m + j, k) = IF Stand(t, j, k) = 0 THEN Cover(s, m, k) ELSE Cover(t, j, k)
  <2> DEFINE q == Stand(t, j, k)
  <2>1. m + j \in 1 .. Len(u) /\ m + j \in 0 .. Len(u) /\ j \in 0 .. Len(t) /\ m \in 0 .. Len(s) /\ m \in 0 .. m
    BY <1>1
  <2>2. Over(t, j, k, q) /\ q \in 0 .. j
    BY <2>1, StandIs
  <2>3. \A r \in 1 .. m + j : r > m => r - m \in 1 .. j /\ r - m \in 1 .. n /\ u[r] = t[r - m]
    <3>1. SUFFICES ASSUME NEW r \in 1 .. m + j, r > m
                   PROVE  r - m \in 1 .. j /\ r - m \in 1 .. n /\ u[r] = t[r - m]
      OBVIOUS
    <3>2. r - m \in 1 .. j /\ r - m \in 1 .. n /\ r = m + (r - m)
      BY <1>1, <3>1
    <3>3. QED
      BY <1>1, <3>2
  <2>4. CASE q = 0
    <3> DEFINE c == Stand(s, m, k)
    <3>1. Over(s, m, k, c) /\ c \in 0 .. m
      BY <2>1, StandIs
    <3> HIDE DEF c, q
    <3>2. \A r \in 1 .. j : Height[t[r]] < k
      BY <2>2, <2>4 DEF Over
    <3>3. \A r \in 1 .. m : u[r] = s[r]
      BY <1>1
    <3>4. c \in 0 .. m + j /\ (c # 0 => c \in 1 .. m)
      BY <1>1, <3>1
    <3>5. \A r \in 1 .. m + j : r > c => Height[u[r]] < k
      <4>1. SUFFICES ASSUME NEW r \in 1 .. m + j, r > c
                     PROVE  Height[u[r]] < k
        OBVIOUS
      <4>2. CASE r > m
        BY <2>3, <3>2, <4>1, <4>2
      <4>3. CASE ~(r > m)
        <5>1. r \in 1 .. m
          BY <1>1, <4>1, <4>3
        <5>2. QED
          BY <3>1, <3>3, <4>1, <5>1 DEF Over
      <4>4. QED
        BY <4>2, <4>3
    <3>6. Over(u, m + j, k, c)
      BY <3>1, <3>3, <3>4, <3>5 DEF Over
    <3>7. Stand(u, m + j, k) = c
      BY <1>1, <2>1, <3>6, StandIs
    <3>8. QED
      BY <1>1, <2>1, <2>4, <3>3, <3>4, <3>7 DEF Cover, Named, c, q
  <2>5. CASE q # 0
    <3> HIDE DEF q
    <3>1. q \in 1 .. j /\ q \in 1 .. n /\ m + q \in 0 .. m + j /\ m + q # 0
      BY <1>1, <2>2, <2>5
    <3>2. u[m + q] = t[q]
      BY <1>1, <3>1
    <3>3. \A r \in 1 .. m + j : r > m + q => Height[u[r]] < k
      <4>1. SUFFICES ASSUME NEW r \in 1 .. m + j, r > m + q
                     PROVE  Height[u[r]] < k
        OBVIOUS
      <4>2. r > m /\ r - m > q
        BY <1>1, <3>1, <4>1
      <4>3. QED
        BY <2>2, <2>3, <4>2 DEF Over
    <3>4. Over(u, m + j, k, m + q)
      BY <2>2, <2>5, <3>1, <3>2, <3>3 DEF Over
    <3>5. Stand(u, m + j, k) = m + q
      BY <1>1, <2>1, <3>4, StandIs
    <3>6. QED
      BY <2>1, <2>5, <3>1, <3>2, <3>5 DEF Cover, Named, q
  <2>6. QED
    BY <2>4, <2>5
<1>4. QED
  BY <1>2, <1>3 DEF u

\* A list that is split is its two parts joined.
LEMMA Halves ==
    ASSUME NEW s, Proper(s), NEW p \in DOMAIN s, p > 1
    PROVE  LET left == SubSeq(s, 1, p - 1)
               right == SubSeq(s, p, Len(s))
           IN  /\ Proper(left) /\ Proper(right) /\ Listed(left) \cap Listed(right) = {}
               /\ left \o right = s
<1> DEFINE left == SubSeq(s, 1, p - 1)
           right == SubSeq(s, p, Len(s))
<1>1. /\ Len(s) \in Nat /\ p \in 1 .. Len(s) /\ s \in Seq(Elements)
      /\ \A j, k \in 1 .. Len(s) : s[j] = s[k] => j = k
  BY ProperList DEF Proper
<1>2. 1 \in 1 .. Len(s) + 1 /\ p \in 1 .. Len(s) + 1 /\ p - 1 \in 0 .. Len(s) /\ Len(s) \in 0 .. Len(s)
  BY <1>1
<1>3. /\ left \in Seq(Elements) /\ Len(left) = p - 1
      /\ \A i \in 1 .. p - 1 : left[i] = s[i]
  <2>1. /\ left \in Seq(Elements) /\ Len(left) = IF 1 <= p - 1 THEN p - 1 - 1 + 1 ELSE 0
        /\ \A i \in 1 .. p - 1 - 1 + 1 : left[i] = s[1 + i - 1]
    BY <1>1, <1>2, SubSeqProperties
  <2>2. p - 1 - 1 + 1 = p - 1 /\ 1 <= p - 1 /\ \A i \in 1 .. p - 1 : 1 + i - 1 = i
    BY <1>1
  <2> HIDE DEF left
  <2>3. QED
    BY <2>1, <2>2
<1>4. /\ right \in Seq(Elements) /\ Len(right) = Len(s) - p + 1
      /\ \A i \in 1 .. Len(s) - p + 1 : right[i] = s[p + i - 1]
  <2>1. /\ right \in Seq(Elements) /\ Len(right) = IF p <= Len(s) THEN Len(s) - p + 1 ELSE 0
        /\ \A i \in 1 .. Len(s) - p + 1 : right[i] = s[p + i - 1]
    BY <1>1, <1>2, SubSeqProperties
  <2>2. p <= Len(s)
    BY <1>1
  <2> HIDE DEF right
  <2>3. QED
    BY <2>1, <2>2
<1>5. left \o right = s
  <2>1. SubSeq(s, 1, p - 1) \o SubSeq(s, p - 1 + 1, Len(s)) = SubSeq(s, 1, Len(s))
    <3>1. 1 \in 1 .. Len(s) + 1 /\ p - 1 \in 1 - 1 .. Len(s) /\ Len(s) \in p - 1 .. Len(s)
      BY <1>1
    <3>2. QED
      BY <1>1, <3>1, ConcatAdjacentSubSeq
  <2>2. p - 1 + 1 = p
    BY <1>1
  <2>3. SubSeq(s, 1, Len(s)) = s
    BY <1>1, SubSeqFull
  <2>4. QED
    BY <2>1, <2>2, <2>3
<1> HIDE DEF left, right
<1>6. left # <<>> /\ right # <<>>
  BY <1>1, <1>3, <1>4, EmptySeq
<1>7. \A i \in 1 .. p - 1 : i \in 1 .. Len(s)
  BY <1>1
<1>8. \A i \in 1 .. Len(s) - p + 1 : p + i - 1 \in 1 .. Len(s) /\ p + i - 1 \notin 1 .. p - 1
  BY <1>1
<1>9. Proper(left)
  BY <1>1, <1>3, <1>6, <1>7 DEF Proper
<1>10. Proper(right)
  <2>1. ASSUME NEW i \in 1 .. Len(right), NEW j \in 1 .. Len(right), right[i] = right[j]
        PROVE  i = j
    <3>0. i \in 1 .. Len(s) - p + 1 /\ j \in 1 .. Len(s) - p + 1
      BY <1>4, <2>1
    <3>1. p + i - 1 = p + j - 1
      BY <1>1, <1>4, <1>8, <2>1, <3>0
    <3>2. QED
      BY <1>1, <2>1, <3>1
  <2>2. QED
    BY <1>4, <1>6, <2>1 DEF Proper
<1>11. Listed(left) \cap Listed(right) = {}
  <2>1. ASSUME NEW x \in Listed(left), x \in Listed(right)
        PROVE  FALSE
    <3>1. PICK i \in 1 .. p - 1 : x = s[i]
      BY <1>3, <1>9, <2>1, ProperList
    <3>2. PICK j \in 1 .. Len(s) - p + 1 : x = s[p + j - 1]
      <4>1. PICK j \in 1 .. Len(right) : x = right[j]
        BY <1>10, <2>1, ProperList
      <4>2. j \in 1 .. Len(s) - p + 1
        BY <1>4, <4>1
      <4>3. QED
        BY <1>4, <4>1, <4>2
    <3>3. QED
      BY <1>1, <1>7, <1>8, <3>1, <3>2
  <2>2. QED
    BY <2>1
<1>12. QED
  BY <1>5, <1>9, <1>10, <1>11 DEF left, right

------------------------------------------------------------------------------
\* The nodes of two lists

\* A heap written over.
LEMMA Written ==
    ASSUME NEW f, NEW g
    PROVE  /\ DOMAIN (f ++ g) = DOMAIN f \cup DOMAIN g
           /\ \A n \in DOMAIN f : (f ++ g)[n] = f[n]
           /\ \A n \in DOMAIN g : n \notin DOMAIN f => (f ++ g)[n] = g[n]
  BY DEF ++
LEMMA Dropped ==
    ASSUME NEW f, NEW N
    PROVE  /\ DOMAIN Without(f, N) = DOMAIN f \ N
           /\ \A n \in DOMAIN f : n \notin N => Without(f, N)[n] = f[n]
  BY DEF Without

\* Three parts that do not meet, written over a heap.
WrittenAs(r, f, g) == /\ DOMAIN r = DOMAIN f \cup DOMAIN g
                      /\ \A n \in DOMAIN f : r[n] = f[n]
                      /\ \A n \in DOMAIN g : n \notin DOMAIN f => r[n] = g[n]
WrittenAsThree(x, r, a, b, c, h) ==
    /\ DOMAIN x = DOMAIN a \cup DOMAIN b \cup DOMAIN c
    /\ DOMAIN r = DOMAIN a \cup DOMAIN b \cup DOMAIN c \cup DOMAIN h
    /\ \A n \in DOMAIN a : r[n] = a[n]
    /\ \A n \in DOMAIN b : r[n] = b[n]
    /\ \A n \in DOMAIN c : r[n] = c[n]
    /\ \A n \in DOMAIN h : n \notin DOMAIN a /\ n \notin DOMAIN b /\ n \notin DOMAIN c
                           => r[n] = h[n]
LEMMA WrittenIs == \A f, g : WrittenAs(f ++ g, f, g)
  BY Written DEF WrittenAs
LEMMA WrittenStages ==
    ASSUME NEW a, NEW b, NEW c, NEW h, NEW y, NEW x, NEW r,
           DOMAIN a \cap DOMAIN b = {}, DOMAIN a \cap DOMAIN c = {}, DOMAIN b \cap DOMAIN c = {},
           WrittenAs(y, a, b), WrittenAs(x, y, c), WrittenAs(r, x, h)
    PROVE  WrittenAsThree(x, r, a, b, c, h)
  BY DEF WrittenAs, WrittenAsThree
LEMMA WrittenThrice ==
    ASSUME NEW a, NEW b, NEW c, NEW h,
           DOMAIN a \cap DOMAIN b = {}, DOMAIN a \cap DOMAIN c = {}, DOMAIN b \cap DOMAIN c = {}
    PROVE  WrittenAsThree(a ++ b ++ c, (a ++ b ++ c) ++ h, a, b, c, h)
<1>1. WrittenAs(a ++ b, a, b) /\ WrittenAs(a ++ b ++ c, a ++ b, c)
      /\ WrittenAs((a ++ b ++ c) ++ h, a ++ b ++ c, h)
  BY WrittenIs
<1>2. QED
  BY <1>1, WrittenStages

\* Nodes belong to elements of the list.
LEMMA NodesBelong ==
    ASSUME NEW s, Proper(s)
    PROVE  /\ \A n \in AllNodes(s) : n.elem \in Listed(s)
           /\ \A n \in AllNodes(s) : n \in Boundary(s) <=> n.bdry
           /\ \A n \in AllNodes(s) : n \in ListNodes(s) <=> ~n.bdry
           /\ Boundary(s) \subseteq AllNodes(s) /\ ListNodes(s) \subseteq AllNodes(s)
           /\ \A n \in Boundary(s) : n.bdry /\ n.elem = s[1]
           /\ \A n \in ListNodes(s) : ~n.bdry
<1>1. 1 \in 1 .. Len(s) /\ \A k \in 1 .. Len(s) : s[k] \in Listed(s)
  BY ProperList
<1>2. \A n \in Boundary(s) : n.bdry /\ n.elem = s[1]
  BY NodeNames DEF Boundary
<1>3. \A n \in ListNodes(s) : ~n.bdry /\ n.elem \in Listed(s)
  BY NodeNames DEF ListNodes
<1>4. QED
  BY <1>1, <1>2, <1>3 DEF AllNodes

LEMMA NodesApart ==
    ASSUME NEW s, Proper(s), NEW t, Proper(t), Listed(s) \cap Listed(t) = {}
    PROVE  AllNodes(s) \cap AllNodes(t) = {}
  BY NodesBelong

\* A boundary node points to the one above it.
LEMMA BoundaryNearest ==
    ASSUME NEW s, Proper(s), NEW n \in Boundary(s)
    PROVE  /\ Nearest(s, n) = Above(s, n)
           /\ NodeAt(s, 0, n.level) /\ n = Named(s, 0, n.level)
<1>1. Len(s) \in Nat /\ Tallest(s) \in Nat /\ 0 \in 0 .. Len(s)
  BY ProperList, TallestIs
<1>2. PICK k \in 1 .. Tallest(s) + 1 : n = Bdry(s[1], k)
  BY DEF Boundary
<1>3. NodeAt(s, 0, k) /\ n = Named(s, 0, k) /\ n.level = k
  BY <1>1, <1>2, NodeNames DEF NodeAt, Named
<1>4. 0 \in 0 .. 0 /\ \A r \in 1 .. 0 : r > 0 => Height[s[r]] < k + 1
  OBVIOUS
<1>5. Stand(s, 0, k + 1) = 0
  <2>1. k + 1 \in Nat \ {0}
    BY <1>1
  <2>2. QED
    BY <1>1, <2>1, <1>4, StandIs DEF Over
<1>6. Cover(s, 0, k + 1) = Bdry(s[1], k + 1)
  BY <1>5 DEF Cover, Named
<1>7. QED
  BY <1>3, <1>6, NearestIs DEF Above

\* The leading nodes of a list are those that nothing but the boundary covers.
LEMMA LeadingIs ==
    ASSUME NEW s, Proper(s), NEW q, NEW k, NodeAt(s, q, k), q # 0
    PROVE  Named(s, q, k) \in Leading(s) <=> Stand(s, q, k + 1) = 0
<1>1. /\ Len(s) \in Nat /\ DOMAIN s = 1 .. Len(s) /\ q \in 1 .. Len(s) /\ q \in 0 .. Len(s)
      /\ k \in Nat /\ k >= 1 /\ k <= Height[s[q]] /\ k + 1 \in Nat \ {0}
      /\ \A j \in 1 .. Len(s) : Height[s[j]] \in Nat
  BY ProperList DEF NodeAt
<1>2. Named(s, q, k) = Elem(s[q], k)
  BY DEF Named
<1>3. \A r \in 1 .. q : r \in 1 .. Len(s)
  BY <1>1
<1>4. ASSUME Elem(s[q], k) \in Leading(s)
      PROVE  Stand(s, q, k + 1) = 0
  <2>1. PICK p \in 1 .. Len(s) : /\ \A r \in 1 .. p - 1 : Height[s[r]] <= Height[s[p]]
                                 /\ Elem(s[q], k) = Elem(s[p], Height[s[p]])
    BY <1>1, <1>4 DEF Leading
  <2>2. s[q] = s[p] /\ k = Height[s[p]]
    BY <2>1, NodeNames
  <2>3. p = q
    BY <1>1, <2>2 DEF Proper
  <2>4. \A r \in 1 .. q : Height[s[r]] < k + 1
    <3>1. SUFFICES ASSUME NEW r \in 1 .. q
                   PROVE  Height[s[r]] < k + 1
      OBVIOUS
    <3>2. r \in 1 .. q - 1 \/ r = q
      BY <1>1
    <3>3. QED
      BY <1>1, <1>3, <2>1, <2>2, <2>3, <3>2
  <2>5. 0 \in 0 .. q
    BY <1>1
  <2>6. Over(s, q, k + 1, 0)
    BY <2>4, <2>5 DEF Over
  <2>7. QED
    BY <1>1, <2>6, StandIs
<1>5. ASSUME Stand(s, q, k + 1) = 0
      PROVE  Elem(s[q], k) \in Leading(s)
  <2>1. Over(s, q, k + 1, 0)
    BY <1>1, <1>5, StandIs
  <2>2. \A r \in 1 .. q : r > 0 => Height[s[r]] < k + 1
    BY <2>1 DEF Over
  <2>3. \A r \in 1 .. q : Height[s[r]] <= k
    BY <1>1, <1>3, <2>2
  <2>4. q \in 1 .. q /\ \A r \in 1 .. q - 1 : r \in 1 .. q
    BY <1>1
  <2>5. Height[s[q]] = k
    BY <1>1, <2>3, <2>4
  <2>6. \A r \in 1 .. q - 1 : Height[s[r]] <= Height[s[q]]
    BY <2>3, <2>4, <2>5
  <2>7. q \in {p \in DOMAIN s : \A r \in 1 .. p - 1 : Height[s[r]] <= Height[s[p]]}
    BY <1>1, <2>6
  <2>8. QED
    BY <2>5, <2>7 DEF Leading
<1>6. QED
  BY <1>2, <1>4, <1>5

LEMMA LeadingListed ==
    ASSUME NEW s, Proper(s)
    PROVE  Leading(s) \subseteq ListNodes(s)
<1>1. DOMAIN s = 1 .. Len(s) /\ \A k \in 1 .. Len(s) : Height[s[k]] \in 1 .. Height[s[k]] /\ s[k] \in Listed(s)
  BY ProperList
<1>2. QED
  BY <1>1 DEF Leading, ListNodes

\* The node of the left list that join reaches on a level.
LEMMA LeftNodeIs ==
    ASSUME NEW s, Proper(s), Pointers(parent, s), NEW k \in Nat \ {0}
    PROVE  LeftNode(s, k) = Cover(s, Len(s), k)
<1>1. Len(s) \in 1 .. Len(s) /\ Len(s) \in 0 .. Len(s) /\ Tallest(s) \in Nat
  BY ProperList, TallestIs
<1>2. CASE k <= Tallest(s) + 1
  <2>1. k \in 1 .. Tallest(s) + 1
    BY <1>1, <1>2
  <2>2. QED
    BY <1>1, <1>2, <2>1, PathIs DEF LeftNode
<1>3. CASE ~(k <= Tallest(s) + 1)
  <2>1. k > Tallest(s)
    BY <1>1, <1>3
  <2>2. QED
    BY <1>1, <1>3, <2>1, RootCovers DEF LeftNode
<1>4. QED
  BY <1>2, <1>3

\* The nodes of a joined list: those of the left one, the list nodes of the right one, and
\* boundary nodes as many as the right one has more.
LEMMA JoinedNodes ==
    ASSUME NEW s, Proper(s), NEW t, Proper(t), Listed(s) \cap Listed(t) = {}
    PROVE  /\ AllNodes(s \o t) = AllNodes(s) \cup ListNodes(t) \cup Raised(s, t)
           /\ \A n \in Raised(s, t) : /\ n \in Boundary(s \o t) /\ n.bdry /\ n.elem = s[1]
                                      /\ n.level \in Nat /\ n.level > Tallest(s) + 1
                                      /\ n.level <= Tallest(t) + 1
                                      /\ n = Bdry(s[1], n.level)
           /\ Raised(s, t) \cap (AllNodes(s) \cup AllNodes(t)) = {}
           /\ AllNodes(s) \cap AllNodes(t) = {}
           /\ Boundary(s \o t) = Boundary(s) \cup Raised(s, t)
<1> DEFINE u == s \o t
<1>1. /\ Tallest(s) \in Nat /\ Tallest(t) \in Nat
      /\ Tallest(u) = IF Tallest(t) > Tallest(s) THEN Tallest(t) ELSE Tallest(s)
      /\ u[1] = s[1] /\ Proper(u) /\ s[1] # t[1] /\ Listed(u) = Listed(s) \cup Listed(t)
  BY Joined, JoinedTallest, TallestIs
<1> HIDE DEF u
<1>2. ListNodes(u) = ListNodes(s) \cup ListNodes(t)
  BY <1>1 DEF ListNodes
<1>3. \A n \in Raised(s, t) : /\ n \in Boundary(u) /\ n.bdry /\ n.elem = s[1]
                              /\ n.level \in Nat /\ n.level > Tallest(s) + 1
                              /\ n.level <= Tallest(t) + 1
                              /\ n = Bdry(s[1], n.level)
  <2>1. SUFFICES ASSUME NEW n \in Raised(s, t)
                 PROVE  /\ n \in Boundary(u) /\ n.bdry /\ n.elem = s[1]
                        /\ n.level \in Nat /\ n.level > Tallest(s) + 1
                        /\ n.level <= Tallest(t) + 1
                        /\ n = Bdry(s[1], n.level)
    OBVIOUS
  <2>2. n \in Boundary(u) /\ n.level > Tallest(s) + 1
    BY DEF Raised, u
  <2>3. PICK k \in 1 .. Tallest(u) + 1 : n = Bdry(s[1], k)
    BY <1>1, <2>2 DEF Boundary
  <2>4. n.level = k /\ n.bdry /\ n.elem = s[1]
    BY <2>3, NodeNames
  <2>5. QED
    BY <1>1, <2>2, <2>3, <2>4
<1>4. Boundary(u) = Boundary(s) \cup Raised(s, t)
  <2>1. ASSUME NEW n \in Boundary(u), n \notin Raised(s, t)
        PROVE  n \in Boundary(s)
    <3>1. PICK k \in 1 .. Tallest(u) + 1 : n = Bdry(s[1], k)
      BY <1>1, <2>1 DEF Boundary
    <3>2. n.level = k
      BY <3>1, NodeNames
    <3>3. ~(k > Tallest(s) + 1)
      BY <2>1, <3>2 DEF Raised, u
    <3>4. k \in 1 .. Tallest(s) + 1
      BY <1>1, <3>1, <3>3
    <3>5. QED
      BY <3>1, <3>4 DEF Boundary
  <2>2. ASSUME NEW n \in Boundary(s)
        PROVE  n \in Boundary(u)
    <3>1. PICK k \in 1 .. Tallest(s) + 1 : n = Bdry(s[1], k)
      BY <2>2 DEF Boundary
    <3>2. k \in 1 .. Tallest(u) + 1
      BY <1>1, <3>1
    <3>3. QED
      BY <1>1, <3>1, <3>2 DEF Boundary
  <2>3. QED
    BY <1>3, <2>1, <2>2
<1>5. ASSUME NEW n \in Raised(s, t)
      PROVE  n \notin AllNodes(s) /\ n \notin AllNodes(t)
  <2>1. n \notin AllNodes(s)
    <3>1. SUFFICES ASSUME n \in AllNodes(s)
                   PROVE  FALSE
      OBVIOUS
    <3>2. n.level \in 1 .. Tallest(s) + 1
      BY <3>1, RootIs
    <3>3. QED
      BY <1>1, <1>3, <3>2
  <2>2. n \notin AllNodes(t)
    <3>1. 1 \in 1 .. Len(s) /\ s[1] \in Listed(s)
      BY ProperList
    <3>2. n.elem \notin Listed(t)
      BY <1>3, <3>1
    <3>3. QED
      BY <3>2, NodesBelong
  <2>3. QED
    BY <2>1, <2>2
<1>6. AllNodes(u) = AllNodes(s) \cup ListNodes(t) \cup Raised(s, t)
  BY <1>2, <1>4 DEF AllNodes
<1>7. QED
  BY <1>3, <1>4, <1>5, <1>6, NodesApart DEF u

------------------------------------------------------------------------------
\* What join and split_left make of the parent pointers

LEMMA JoinPointers ==
    ASSUME NEW s, Proper(s), NEW t, Proper(t), Listed(s) \cap Listed(t) = {},
           Pointers(parent, s), Pointers(parent, t),
           AllNodes(s) \cup AllNodes(t) \subseteq DOMAIN parent
    PROVE  /\ Pointers(JoinParents(s, t) ++ Without(parent, Boundary(t)), s \o t)
           /\ DOMAIN (JoinParents(s, t) ++ Without(parent, Boundary(t)))
                  = (DOMAIN parent \ (AllNodes(s) \cup AllNodes(t))) \cup AllNodes(s \o t)
           /\ DOMAIN JoinParents(s, t) \subseteq AllNodes(s \o t)
<1> DEFINE u == s \o t
           m == Len(s)
           raised == [n \in Raised(s, t) |-> Above(s \o t, n)]
           root == [n \in {Root(s)} |-> Above(s \o t, n)]
           lead == [n \in Leading(t) |-> LeftNode(s, n.level + 1)]
           old == Without(parent, Boundary(t))
           heap == (raised ++ root ++ lead) ++ old
<1>1. /\ Proper(u) /\ Len(u) = m + Len(t) /\ m \in Nat /\ Len(t) \in Nat
      /\ \A i \in 1 .. m : u[i] = s[i]
      /\ \A j \in 1 .. Len(t) : u[m + j] = t[j]
      /\ u[1] = s[1]
  BY Joined, ProperList
<1>2. /\ Tallest(s) \in Nat /\ Tallest(t) \in Nat /\ Tallest(u) \in Nat
      /\ Tallest(u) >= Tallest(s) /\ Tallest(u) >= Tallest(t)
  BY JoinedTallest, TallestIs
<1>3. /\ AllNodes(u) = AllNodes(s) \cup ListNodes(t) \cup Raised(s, t)
      /\ Raised(s, t) \cap (AllNodes(s) \cup AllNodes(t)) = {}
      /\ AllNodes(s) \cap AllNodes(t) = {}
      /\ Boundary(u) = Boundary(s) \cup Raised(s, t)
      /\ \A n \in Raised(s, t) : n.bdry
  BY JoinedNodes
<1>4. /\ Root(s) \in AllNodes(s) /\ Root(s) \in Boundary(s)
      /\ Leading(t) \subseteq ListNodes(t) /\ ListNodes(t) \subseteq AllNodes(t)
      /\ Boundary(t) \subseteq AllNodes(t)
      /\ \A n \in ListNodes(t) : ~n.bdry
      /\ \A n \in Boundary(t) : n.bdry
      /\ Boundary(s) \subseteq AllNodes(s)
  BY RootIs, LeadingListed, NodesBelong
<1>5. AllNodes(t) = ListNodes(t) \cup Boundary(t) /\ ListNodes(t) \cap Boundary(t) = {}
  BY <1>4 DEF AllNodes
<1>6. heap = JoinParents(s, t) ++ Without(parent, Boundary(t))
  BY DEF JoinParents
<1>7. /\ DOMAIN raised = Raised(s, t) /\ DOMAIN root = {Root(s)} /\ DOMAIN lead = Leading(t)
      /\ DOMAIN old = DOMAIN parent \ Boundary(t)
  BY Dropped
<1>a. /\ \A n \in Raised(s, t) : raised[n] = Above(u, n)
      /\ root[Root(s)] = Above(u, Root(s))
      /\ \A n \in Leading(t) : lead[n] = LeftNode(s, n.level + 1)
      /\ \A n \in DOMAIN old : old[n] = parent[n]
  BY Dropped, <1>7
<1> HIDE DEF raised, root, lead, old
<1>8. /\ DOMAIN heap = Raised(s, t) \cup {Root(s)} \cup Leading(t) \cup (DOMAIN parent \ Boundary(t))
      /\ DOMAIN (raised ++ root ++ lead) = Raised(s, t) \cup {Root(s)} \cup Leading(t)
      /\ \A n \in Raised(s, t) : heap[n] = Above(u, n)
      /\ heap[Root(s)] = Above(u, Root(s))
      /\ \A n \in Leading(t) : heap[n] = LeftNode(s, n.level + 1)
      /\ \A n \in DOMAIN parent \ Boundary(t) :
            n \notin Raised(s, t) /\ n # Root(s) /\ n \notin Leading(t) => heap[n] = parent[n]
  <2>1. Root(s) \notin Raised(s, t) /\ Leading(t) \cap Raised(s, t) = {} /\ Root(s) \notin Leading(t)
    BY <1>3, <1>4
  <2>2. /\ DOMAIN raised \cap DOMAIN root = {} /\ DOMAIN raised \cap DOMAIN lead = {}
        /\ DOMAIN root \cap DOMAIN lead = {}
    BY <1>7, <2>1
  <2>a. WrittenAsThree(raised ++ root ++ lead, heap, raised, root, lead, old)
    BY <2>2, WrittenThrice
  <2>3. /\ DOMAIN (raised ++ root ++ lead) = DOMAIN raised \cup DOMAIN root \cup DOMAIN lead
        /\ DOMAIN heap = DOMAIN raised \cup DOMAIN root \cup DOMAIN lead \cup DOMAIN old
        /\ \A n \in DOMAIN raised : heap[n] = raised[n]
        /\ \A n \in DOMAIN root : heap[n] = root[n]
        /\ \A n \in DOMAIN lead : heap[n] = lead[n]
        /\ \A n \in DOMAIN old : n \notin DOMAIN raised /\ n \notin DOMAIN root /\ n \notin DOMAIN lead
                                 => heap[n] = old[n]
    BY <2>a DEF WrittenAsThree
  <2> HIDE DEF heap
  <2>4. QED
    BY <1>7, <1>a, <2>3
<1>9. \A n \in Boundary(u) : Nearest(u, n) = Above(u, n)
  BY <1>1, BoundaryNearest
<1> HIDE DEF heap
<1>10. ASSUME NEW n \in AllNodes(s)
       PROVE  heap[n] = Nearest(u, n)
  <2>1. PICK q, k : NodeAt(s, q, k) /\ n = Named(s, q, k)
    BY NodesAre
  <2>2. /\ q \in 0 .. m /\ k \in Nat /\ k >= 1 /\ k + 1 \in Nat \ {0}
        /\ n.level = k /\ (n.bdry <=> q = 0)
    BY <2>1, NamedApart DEF NodeAt
  <2>3. NodeAt(u, q, k) /\ n = Named(u, q, k)
    <3>1. q \in 0 .. Len(u) /\ (q # 0 => q \in 1 .. m)
      BY <1>1, <2>2
    <3>2. QED
      BY <1>1, <1>2, <2>1, <3>1 DEF NodeAt, Named
  <2>4. CASE n = Root(s)
    BY <1>4, <1>3, <1>8, <1>9, <2>4
  <2>5. CASE n # Root(s)
    <3>1. n \notin Raised(s, t) /\ n \notin Leading(t) /\ n \in DOMAIN parent \ Boundary(t)
      BY <1>3, <1>4
    <3>2. heap[n] = Nearest(s, n)
      BY <1>8, <2>5, <3>1 DEF Pointers
    <3>3. Nearest(s, n) = Cover(s, q, k + 1)
      BY <2>1, <2>5, NearestIs
    <3>4. Cover(u, q, k + 1) = Cover(s, q, k + 1)
      BY <2>2, JoinedCover
    <3>5. n # Root(u)
      <4>1. k <= Tallest(s) + 1 /\ k # Tallest(s) + 1
        BY <1>2, <2>2, <2>5, RootIs
      <4>2. k # Tallest(u) + 1
        BY <1>2, <2>2, <4>1
      <4>3. QED
        BY <1>1, <2>2, <4>2, RootIs
    <3>6. Nearest(u, n) = Cover(u, q, k + 1)
      BY <1>1, <2>3, <3>5, NearestIs
    <3>7. QED
      BY <3>2, <3>3, <3>4, <3>6
  <2>6. QED
    BY <2>4, <2>5
<1>11. ASSUME NEW n \in ListNodes(t)
       PROVE  heap[n] = Nearest(u, n)
  <2>1. PICK q, k : NodeAt(t, q, k) /\ n = Named(t, q, k)
    BY <1>4, NodesAre
  <2>2. /\ q \in 0 .. Len(t) /\ k \in Nat /\ k >= 1 /\ k + 1 \in Nat \ {0}
        /\ n.level = k /\ (n.bdry <=> q = 0)
    BY <2>1, NamedApart DEF NodeAt
  <2>3. q # 0 /\ q \in 1 .. Len(t) /\ ~n.bdry
    BY <1>4, <2>2
  <2>4. m + q # 0 /\ m + q \in 0 .. Len(u) /\ m \in 0 .. m
    BY <1>1, <2>3
  <2>5. NodeAt(u, m + q, k) /\ n = Named(u, m + q, k)
    BY <1>1, <2>1, <2>2, <2>3, <2>4 DEF NodeAt, Named
  <2>6. n # Root(u)
    BY <1>1, <2>3, RootIs
  <2>7. Nearest(u, n) = Cover(u, m + q, k + 1)
    BY <1>1, <2>5, <2>6, NearestIs
  <2>8. Cover(u, m + q, k + 1) = IF Stand(t, q, k + 1) = 0 THEN Cover(s, m, k + 1) ELSE Cover(t, q, k + 1)
    BY <2>2, <2>3, JoinedCover
  <2>9. CASE n \in Leading(t)
    <3>1. Stand(t, q, k + 1) = 0
      BY <2>1, <2>3, <2>9, LeadingIs
    <3>2. heap[n] = Cover(s, m, k + 1)
      BY <1>8, <2>2, <2>9, LeftNodeIs
    <3>3. QED
      BY <2>7, <2>8, <3>1, <3>2
  <2>10. CASE n \notin Leading(t)
    <3>1. Stand(t, q, k + 1) # 0
      BY <2>1, <2>3, <2>10, LeadingIs
    <3>2. heap[n] = Nearest(t, n)
      BY <1>3, <1>4, <1>5, <1>8, <2>10 DEF Pointers
    <3>3. n # Root(t)
      BY <2>3, RootIs
    <3>4. Nearest(t, n) = Cover(t, q, k + 1)
      BY <2>1, <3>3, NearestIs
    <3>5. QED
      BY <2>7, <2>8, <3>1, <3>2, <3>4
  <2>11. QED
    BY <2>9, <2>10
<1>12. Pointers(heap, u)
  BY <1>3, <1>8, <1>9, <1>10, <1>11 DEF Pointers
<1>13. DOMAIN heap = (DOMAIN parent \ (AllNodes(s) \cup AllNodes(t))) \cup AllNodes(u)
  BY <1>3, <1>4, <1>5, <1>8
<1>14. DOMAIN JoinParents(s, t) = DOMAIN (raised ++ root ++ lead)
  BY DEF JoinParents, raised, root, lead
<1>15. QED
  BY <1>3, <1>4, <1>6, <1>8, <1>12, <1>13, <1>14

\* The parents after split_left, which takes a joined list apart.
SplitParents(left, right) ==
    [n \in Boundary(right) |-> Above(right, n)]
    ++ [n \in Leading(right) |-> Bdry(right[1], n.level + 1)]
    ++ [n \in {Root(left)} |-> NoNode]
SplitsInto(s, t, heap, new) ==
    /\ Proper(s) /\ Proper(t) /\ Listed(s) \cap Listed(t) = {}
    /\ Pointers(heap, s \o t) /\ AllNodes(s \o t) \subseteq DOMAIN heap
    /\ Boundary(t) \cap DOMAIN heap = {}
    /\ new = SplitParents(s, t) ++ Without(heap, Boundary(s \o t) \ Boundary(s))
LEMMA SplitPointers ==
    ASSUME NEW s, NEW t, NEW heap, NEW new, SplitsInto(s, t, heap, new)
    PROVE  /\ Pointers(new, s) /\ Pointers(new, t)
           /\ DOMAIN new = (DOMAIN heap \ AllNodes(s \o t)) \cup AllNodes(s) \cup AllNodes(t)
           /\ DOMAIN SplitParents(s, t) \subseteq AllNodes(s) \cup AllNodes(t)
<1>0. /\ Proper(s) /\ Proper(t) /\ Listed(s) \cap Listed(t) = {}
      /\ Pointers(heap, s \o t) /\ AllNodes(s \o t) \subseteq DOMAIN heap
      /\ Boundary(t) \cap DOMAIN heap = {}
      /\ new = SplitParents(s, t) ++ Without(heap, Boundary(s \o t) \ Boundary(s))
  BY DEF SplitsInto
<1> USE <1>0
<1> DEFINE u == s \o t
           m == Len(s)
           bdry == [n \in Boundary(t) |-> Above(t, n)]
           lead == [n \in Leading(t) |-> Bdry(t[1], n.level + 1)]
           root == [n \in {Root(s)} |-> NoNode]
           old == Without(heap, Boundary(u) \ Boundary(s))
<1>1. /\ Proper(u) /\ Len(u) = m + Len(t) /\ m \in Nat /\ Len(t) \in Nat
      /\ \A i \in 1 .. m : u[i] = s[i]
      /\ \A j \in 1 .. Len(t) : u[m + j] = t[j]
      /\ u[1] = s[1]
  BY Joined, ProperList
<1>2. /\ Tallest(s) \in Nat /\ Tallest(t) \in Nat /\ Tallest(u) \in Nat
      /\ Tallest(u) >= Tallest(s) /\ Tallest(u) >= Tallest(t)
  BY JoinedTallest, TallestIs
<1>3. /\ AllNodes(u) = AllNodes(s) \cup ListNodes(t) \cup Raised(s, t)
      /\ Raised(s, t) \cap (AllNodes(s) \cup AllNodes(t)) = {}
      /\ AllNodes(s) \cap AllNodes(t) = {}
      /\ Boundary(u) = Boundary(s) \cup Raised(s, t)
  BY JoinedNodes
<1>4. /\ Root(s) \in AllNodes(s) /\ Root(s) \in Boundary(s)
      /\ Leading(t) \subseteq ListNodes(t) /\ ListNodes(t) \subseteq AllNodes(t)
      /\ Boundary(t) \subseteq AllNodes(t)
      /\ \A n \in ListNodes(t) : ~n.bdry
      /\ \A n \in Boundary(t) : n.bdry
      /\ Boundary(s) \subseteq AllNodes(s)
  BY RootIs, LeadingListed, NodesBelong
<1>5. AllNodes(t) = ListNodes(t) \cup Boundary(t) /\ ListNodes(t) \cap Boundary(t) = {}
  BY <1>4 DEF AllNodes
<1>6. new = (bdry ++ lead ++ root) ++ old
  BY DEF SplitParents
<1>7. /\ DOMAIN bdry = Boundary(t) /\ DOMAIN root = {Root(s)} /\ DOMAIN lead = Leading(t)
      /\ DOMAIN old = DOMAIN heap \ Raised(s, t)
  <2>1. Boundary(u) \ Boundary(s) = Raised(s, t)
    BY <1>3, <1>4
  <2>2. QED
    BY <2>1, Dropped
<1>a. /\ \A n \in Boundary(t) : bdry[n] = Above(t, n)
      /\ root[Root(s)] = NoNode
      /\ \A n \in Leading(t) : lead[n] = Bdry(t[1], n.level + 1)
      /\ \A n \in DOMAIN old : old[n] = heap[n]
  <2>1. ASSUME NEW n \in DOMAIN old
        PROVE  old[n] = heap[n]
    BY <2>1, Dropped DEF Without
  <2> HIDE DEF old
  <2>2. QED
    BY <2>1
<1>b. DOMAIN SplitParents(s, t) = DOMAIN (bdry ++ lead ++ root)
  BY DEF SplitParents
<1> HIDE DEF bdry, root, lead, old
<1>8. /\ DOMAIN new = Boundary(t) \cup {Root(s)} \cup Leading(t) \cup (DOMAIN heap \ Raised(s, t))
      /\ DOMAIN (bdry ++ lead ++ root) = Boundary(t) \cup {Root(s)} \cup Leading(t)
      /\ \A n \in Boundary(t) : new[n] = Above(t, n)
      /\ new[Root(s)] = NoNode
      /\ \A n \in Leading(t) : new[n] = Bdry(t[1], n.level + 1)
      /\ \A n \in DOMAIN heap \ Raised(s, t) :
            n \notin Boundary(t) /\ n # Root(s) /\ n \notin Leading(t) => new[n] = heap[n]
  <2>1. Root(s) \notin Boundary(t) /\ Leading(t) \cap Boundary(t) = {} /\ Root(s) \notin Leading(t)
    BY <1>3, <1>4, <1>5
  <2>2. /\ DOMAIN bdry \cap DOMAIN lead = {} /\ DOMAIN bdry \cap DOMAIN root = {}
        /\ DOMAIN lead \cap DOMAIN root = {}
    BY <1>7, <2>1
  <2>a. WrittenAsThree(bdry ++ lead ++ root, new, bdry, lead, root, old)
    BY <1>6, <2>2, WrittenThrice
  <2>3. /\ DOMAIN (bdry ++ lead ++ root) = DOMAIN bdry \cup DOMAIN lead \cup DOMAIN root
        /\ DOMAIN new = DOMAIN bdry \cup DOMAIN lead \cup DOMAIN root \cup DOMAIN old
        /\ \A n \in DOMAIN bdry : new[n] = bdry[n]
        /\ \A n \in DOMAIN lead : new[n] = lead[n]
        /\ \A n \in DOMAIN root : new[n] = root[n]
        /\ \A n \in DOMAIN old : n \notin DOMAIN bdry /\ n \notin DOMAIN lead /\ n \notin DOMAIN root
                                 => new[n] = old[n]
    BY <2>a DEF WrittenAsThree
  <2>4. QED
    BY <1>7, <1>a, <2>3
<1>9. \A n \in Boundary(t) : Nearest(t, n) = Above(t, n)
  BY BoundaryNearest
<1>10. ASSUME NEW n \in AllNodes(s)
       PROVE  new[n] = Nearest(s, n)
  <2>1. PICK q, k : NodeAt(s, q, k) /\ n = Named(s, q, k)
    BY NodesAre
  <2>2. /\ q \in 0 .. m /\ k \in Nat /\ k >= 1 /\ k + 1 \in Nat \ {0}
        /\ n.level = k /\ (n.bdry <=> q = 0)
    BY <2>1, NamedApart DEF NodeAt
  <2>3. NodeAt(u, q, k) /\ n = Named(u, q, k)
    <3>1. q \in 0 .. Len(u) /\ (q # 0 => q \in 1 .. m)
      BY <1>1, <2>2
    <3>2. QED
      BY <1>1, <1>2, <2>1, <3>1 DEF NodeAt, Named
  <2>4. Nearest(s, n) = IF n = Root(s) THEN NoNode ELSE Cover(s, q, k + 1)
    BY <2>1, NearestIs
  <2>5. CASE n = Root(s)
    BY <1>8, <2>4, <2>5
  <2>6. CASE n # Root(s)
    <3>1. n \notin Raised(s, t) /\ n \notin Leading(t) /\ n \notin Boundary(t) /\ n \in DOMAIN heap
      BY <1>3, <1>4
    <3>2. new[n] = Nearest(u, n)
      <4>1. n \in AllNodes(u)
        BY <1>3
      <4>2. QED
        BY <1>8, <2>6, <3>1, <4>1 DEF Pointers
    <3>4. Cover(u, q, k + 1) = Cover(s, q, k + 1)
      BY <2>2, JoinedCover
    <3>5. n # Root(u)
      <4>1. k <= Tallest(s) + 1 /\ k # Tallest(s) + 1
        BY <1>2, <2>2, <2>6, RootIs
      <4>2. k # Tallest(u) + 1
        BY <1>2, <2>2, <4>1
      <4>3. QED
        BY <1>1, <2>2, <4>2, RootIs
    <3>6. Nearest(u, n) = Cover(u, q, k + 1)
      BY <1>1, <2>3, <3>5, NearestIs
    <3>7. QED
      BY <2>4, <2>6, <3>2, <3>4, <3>6
  <2>7. QED
    BY <2>5, <2>6
<1>11. ASSUME NEW n \in ListNodes(t)
       PROVE  new[n] = Nearest(t, n)
  <2>1. PICK q, k : NodeAt(t, q, k) /\ n = Named(t, q, k)
    BY <1>4, NodesAre
  <2>2. /\ q \in 0 .. Len(t) /\ k \in Nat /\ k >= 1 /\ k + 1 \in Nat \ {0}
        /\ n.level = k /\ (n.bdry <=> q = 0)
    BY <2>1, NamedApart DEF NodeAt
  <2>3. q # 0 /\ q \in 1 .. Len(t) /\ ~n.bdry
    BY <1>4, <2>2
  <2>4. m + q # 0 /\ m + q \in 0 .. Len(u)
    BY <1>1, <2>3
  <2>5. NodeAt(u, m + q, k) /\ n = Named(u, m + q, k)
    BY <1>1, <2>1, <2>2, <2>3, <2>4 DEF NodeAt, Named
  <2>6. n # Root(u) /\ n # Root(t)
    BY <1>1, <2>3, RootIs
  <2>7. Nearest(u, n) = Cover(u, m + q, k + 1)
    BY <1>1, <2>5, <2>6, NearestIs
  <2>8. Cover(u, m + q, k + 1) = IF Stand(t, q, k + 1) = 0 THEN Cover(s, m, k + 1) ELSE Cover(t, q, k + 1)
    BY <2>2, <2>3, JoinedCover
  <2>a. Nearest(t, n) = Cover(t, q, k + 1)
    BY <2>1, <2>6, NearestIs
  <2>9. CASE n \in Leading(t)
    <3>1. Stand(t, q, k + 1) = 0
      BY <2>1, <2>3, <2>9, LeadingIs
    <3>2. Cover(t, q, k + 1) = Bdry(t[1], k + 1)
      BY <3>1 DEF Cover, Named
    <3>3. QED
      BY <1>8, <2>2, <2>9, <2>a, <3>2
  <2>10. CASE n \notin Leading(t)
    <3>1. Stand(t, q, k + 1) # 0
      BY <2>1, <2>3, <2>10, LeadingIs
    <3>2. new[n] = Nearest(u, n)
      <4>1. n \in AllNodes(u) /\ n \in DOMAIN heap \ Raised(s, t) /\ n \notin Boundary(t) /\ n # Root(s)
        BY <1>3, <1>4, <1>5
      <4>2. QED
        BY <1>8, <2>10, <4>1 DEF Pointers
    <3>5. QED
      BY <2>7, <2>8, <2>a, <3>1, <3>2
  <2>11. QED
    BY <2>9, <2>10
<1>12. Pointers(new, s)
  BY <1>10 DEF Pointers
<1>13. Pointers(new, t)
  BY <1>5, <1>8, <1>9, <1>11 DEF Pointers
<1>14. DOMAIN new = (DOMAIN heap \ AllNodes(u)) \cup AllNodes(s) \cup AllNodes(t)
  BY <1>3, <1>4, <1>5, <1>8
<1>15. QED
  BY <1>4, <1>8, <1>b, <1>12, <1>13, <1>14

------------------------------------------------------------------------------
\* The parent pointers of all lists

\* What the pointers of a set L of lists satisfy.
Ordered(L, heap) ==
    /\ \A s \in L : Proper(s) /\ Pointers(heap, s)
    /\ \A s, t \in L : s # t => Listed(s) \cap Listed(t) = {}
    /\ DOMAIN heap = UNION {AllNodes(s) : s \in L}

\* The lists in gone become those in come, and the others keep their pointers.
NodesOf(L) == UNION {AllNodes(s) : s \in L}
Reorders(L, heap, gone, come, new) ==
    /\ gone \subseteq L
    /\ \A s \in come : Proper(s) /\ Pointers(new, s)
    /\ \A s, t \in come : s # t => Listed(s) \cap Listed(t) = {}
    /\ \A s \in come : \A t \in L \ gone : Listed(s) \cap Listed(t) = {}
    /\ \A t \in L \ gone : \A n \in AllNodes(t) : new[n] = heap[n]
    /\ DOMAIN new = (DOMAIN heap \ NodesOf(gone)) \cup NodesOf(come)
LEMMA NodesOfAre == /\ NodesOf({}) = {}
                    /\ \A s : NodesOf({s}) = AllNodes(s)
                    /\ \A s, t : NodesOf({s, t}) = AllNodes(s) \cup AllNodes(t)
  BY DEF NodesOf
LEMMA Reordered ==
    ASSUME NEW L, NEW heap, NEW gone, NEW come, NEW new,
           Ordered(L, heap), Reorders(L, heap, gone, come, new)
    PROVE  Ordered((L \ gone) \cup come, new)
<1>0. /\ gone \subseteq L
      /\ \A s \in come : Proper(s) /\ Pointers(new, s)
      /\ \A s, t \in come : s # t => Listed(s) \cap Listed(t) = {}
      /\ \A s \in come : \A t \in L \ gone : Listed(s) \cap Listed(t) = {}
      /\ \A t \in L \ gone : \A n \in AllNodes(t) : new[n] = heap[n]
      /\ DOMAIN new = (DOMAIN heap \ UNION {AllNodes(s) : s \in gone})
                         \cup UNION {AllNodes(s) : s \in come}
  BY DEF Reorders, NodesOf
<1>1. \A t \in L \ gone : Proper(t) /\ Pointers(new, t)
  BY <1>0 DEF Ordered, Pointers
<1>2. \A s, t \in L : s # t => AllNodes(s) \cap AllNodes(t) = {}
  BY NodesApart DEF Ordered
<1>3. DOMAIN heap \ UNION {AllNodes(s) : s \in gone} = UNION {AllNodes(s) : s \in L \ gone}
  <2>1. DOMAIN heap = UNION {AllNodes(s) : s \in L}
    BY DEF Ordered
  <2>2. QED
    BY <1>0, <1>2, <2>1
<1>4. DOMAIN new = UNION {AllNodes(s) : s \in (L \ gone) \cup come}
  BY <1>0, <1>3
<1>5. \A s, t \in (L \ gone) \cup come : s # t => Listed(s) \cap Listed(t) = {}
  <2>1. \A s, t \in L \ gone : s # t => Listed(s) \cap Listed(t) = {}
    BY DEF Ordered
  <2>2. QED
    BY <1>0, <2>1
<1>6. QED
  BY <1>0, <1>1, <1>4, <1>5 DEF Ordered

\* The nodes of lists with other elements are others.
LEMMA Elsewhere ==
    ASSUME NEW s, Proper(s), NEW t, Proper(t), Listed(s) \cap Listed(t) = {}, NEW n \in AllNodes(t)
    PROVE  n \notin AllNodes(s) /\ n \notin Boundary(s) /\ n \notin ListNodes(s)
  BY NodesApart, NodesBelong

\* The pointers of a list of one element.
LEMMA AlonePointers ==
    ASSUME NEW e \in Elements, NEW heap,
           \A n \in Boundary(<<e>>) : heap[n] = Above(<<e>>, n),
           \A n \in ListNodes(<<e>>) : heap[n] = IF n.level = Height[e] THEN Root(<<e>>)
                                                ELSE Elem(e, n.level + 1)
    PROVE  Pointers(heap, <<e>>)
<1> DEFINE s == <<e>>
<1>1. Proper(s) /\ Len(s) = 1 /\ s[1] = e
  BY Alone
<1>2. Height[e] \in Nat /\ Height[e] >= 1 /\ Tallest(s) = Height[e]
  <2>1. \E k \in 1 .. 1 : Height[s[k]] = Tallest(s)
    BY <1>1, TallestIs
  <2>2. QED
    BY <1>1, <2>1, Heights
<1> HIDE DEF s
<1>3. ASSUME NEW n \in ListNodes(s)
      PROVE  heap[n] = Nearest(s, n)
  <2>1. n \in AllNodes(s) /\ ~n.bdry
    BY <1>1, NodesBelong
  <2>2. PICK q, k : NodeAt(s, q, k) /\ n = Named(s, q, k)
    BY <1>1, <2>1, NodesAre
  <2>3. q \in 0 .. Len(s) /\ k \in Nat /\ k >= 1 /\ n.level = k /\ (n.bdry <=> q = 0)
    BY <1>1, <2>2, NamedApart DEF NodeAt
  <2>4. q = 1 /\ k <= Height[e]
    BY <1>1, <2>1, <2>2, <2>3 DEF NodeAt
  <2>5. n # Root(s)
    BY <1>1, <2>1, RootIs
  <2>6. Nearest(s, n) = Cover(s, 1, k + 1)
    BY <1>1, <2>2, <2>4, <2>5, NearestIs
  <2>7. CASE k = Height[e]
    <3>1. Cover(s, 1, k + 1) = Bdry(s[1], k + 1)
      BY <1>1, <1>2, <2>7, RootCovers
    <3>2. Root(s) = Bdry(s[1], k + 1)
      BY <1>2, <2>7 DEF Root
    <3>3. QED
      BY <2>3, <2>6, <2>7, <3>1, <3>2 DEF s
  <2>8. CASE k # Height[e]
    <3>1. NodeAt(s, 1, k + 1)
      BY <1>1, <1>2, <2>3, <2>4, <2>8 DEF NodeAt
    <3>2. Cover(s, 1, k + 1) = Elem(e, k + 1)
      BY <1>1, <3>1, CoverOwn DEF Named
    <3>3. QED
      BY <2>3, <2>6, <2>8, <3>2 DEF s
  <2>9. QED
    BY <2>7, <2>8
<1>4. \A n \in Boundary(s) : heap[n] = Nearest(s, n)
  BY <1>1, BoundaryNearest DEF s
<1>5. Pointers(heap, s)
  BY <1>3, <1>4 DEF Pointers, AllNodes
<1>6. QED
  BY <1>5 DEF s

\* What the pointers of the lists satisfy after any calls.
ListsInv == Ordered(lists, parent)

LEMMA InitElementOrders ==
    ASSUME ListsInv, NEW e \in Elements, InitElement(e)
    PROVE  ListsInv' /\ DOMAIN parent' = DOMAIN parent \cup AllNodes(<<e>>)
<1> DEFINE u == <<e>>
           bdry == [n \in Boundary(u) |-> Above(u, n)]
           list == [n \in ListNodes(u) |-> IF n.level = Height[e] THEN Root(u)
                                           ELSE Elem(e, n.level + 1)]
<1>1. Proper(u) /\ Listed(u) = {e}
  BY Alone
<1>2. /\ lists' = (lists \ {}) \cup {u}
      /\ parent' = bdry ++ list ++ parent
      /\ \A t \in lists : e \notin Listed(t)
  BY DEF InitElement, Live
<1>3. \A t \in lists : Proper(t)
  BY DEF ListsInv, Ordered
<1>4. \A t \in lists : Listed(u) \cap Listed(t) = {}
  BY <1>1, <1>2
<1>5. Boundary(u) \cap ListNodes(u) = {}
  BY <1>1, NodesBelong
<1>6. /\ DOMAIN bdry = Boundary(u) /\ \A n \in Boundary(u) : bdry[n] = Above(u, n)
      /\ DOMAIN list = ListNodes(u)
      /\ \A n \in ListNodes(u) : list[n] = IF n.level = Height[e] THEN Root(u)
                                           ELSE Elem(e, n.level + 1)
  OBVIOUS
<1>7. WrittenAs(bdry ++ list, bdry, list) /\ WrittenAs(parent', bdry ++ list, parent)
  BY <1>2, WrittenIs
<1> HIDE DEF bdry, list, u
<1>8. /\ DOMAIN parent' = DOMAIN parent \cup AllNodes(u)
      /\ \A n \in Boundary(u) : parent'[n] = Above(u, n)
      /\ \A n \in ListNodes(u) : parent'[n] = IF n.level = Height[e] THEN Root(u)
                                              ELSE Elem(e, n.level + 1)
      /\ \A n \in DOMAIN parent : n \notin AllNodes(u) => parent'[n] = parent[n]
  BY <1>5, <1>6, <1>7 DEF WrittenAs, AllNodes
<1>9. Pointers(parent', u)
  BY <1>8, AlonePointers DEF u
<1>10. \A t \in lists : AllNodes(t) \subseteq DOMAIN parent
  BY DEF ListsInv, Ordered
<1>11. \A t \in lists \ {} : \A n \in AllNodes(t) : parent'[n] = parent[n]
  BY <1>1, <1>3, <1>4, <1>8, <1>10, Elsewhere
<1>12. DOMAIN parent' = (DOMAIN parent \ NodesOf({})) \cup NodesOf({u})
  BY <1>8, NodesOfAre
<1>a. Reorders(lists, parent, {}, {u}, parent')
  BY <1>1, <1>4, <1>9, <1>11, <1>12 DEF Reorders
<1>13. Ordered((lists \ {}) \cup {u}, parent')
  BY <1>a, Reordered DEF ListsInv
<1>14. QED
  BY <1>2, <1>8, <1>13 DEF ListsInv, u

LEMMA UninitElementOrders ==
    ASSUME ListsInv, NEW e \in Elements, UninitElement(e)
    PROVE  ListsInv' /\ DOMAIN parent' = DOMAIN parent \ AllNodes(<<e>>)
<1> DEFINE u == <<e>>
<1>1. /\ u \in lists /\ lists' = (lists \ {u}) \cup {}
      /\ parent' = Without(parent, AllNodes(u))
  BY DEF UninitElement, AllNodes
<1>2. \A t \in lists : Proper(t) /\ AllNodes(t) \subseteq DOMAIN parent
  BY DEF ListsInv, Ordered
<1>3. \A t \in lists \ {u} : Listed(u) \cap Listed(t) = {}
  BY <1>1 DEF ListsInv, Ordered
<1> HIDE DEF u
<1>4. DOMAIN parent' = (DOMAIN parent \ NodesOf({u})) \cup NodesOf({})
  <2>1. DOMAIN parent' = DOMAIN parent \ AllNodes(u)
    BY <1>1, Dropped
  <2>2. NodesOf({u}) = AllNodes(u) /\ NodesOf({}) = {}
    BY NodesOfAre
  <2>3. QED
    BY <2>1, <2>2
<1>5. \A t \in lists \ {u} : \A n \in AllNodes(t) : parent'[n] = parent[n]
  BY <1>1, <1>2, <1>3, Elsewhere, Dropped
<1>a. Reorders(lists, parent, {u}, {}, parent')
  BY <1>1, <1>4, <1>5 DEF Reorders
<1>6. Ordered((lists \ {u}) \cup {}, parent')
  BY <1>a, Reordered DEF ListsInv
<1>b. DOMAIN parent' = DOMAIN parent \ AllNodes(u)
  BY <1>1, Dropped
<1>7. QED
  BY <1>1, <1>6, <1>b DEF ListsInv, u

LEMMA JoinOrders ==
    ASSUME ListsInv, NEW s \in lists, NEW t \in lists, Join(s, t)
    PROVE  /\ ListsInv'
           /\ DOMAIN parent' = (DOMAIN parent \ (AllNodes(s) \cup AllNodes(t))) \cup AllNodes(s \o t)
<1> DEFINE u == s \o t
<1>1. /\ s # t /\ lists' = (lists \ {s, t}) \cup {u}
      /\ parent' = JoinParents(s, t) ++ Without(parent, Boundary(t))
  BY DEF Join
<1>2. \A r \in lists : Proper(r) /\ Pointers(parent, r) /\ AllNodes(r) \subseteq DOMAIN parent
  BY DEF ListsInv, Ordered
<1>3. Listed(s) \cap Listed(t) = {}
  BY <1>1 DEF ListsInv, Ordered
<1>4. Proper(u) /\ Listed(u) = Listed(s) \cup Listed(t)
  BY <1>2, <1>3, Joined
<1>5. /\ Pointers(parent', u)
      /\ DOMAIN parent' = (DOMAIN parent \ (AllNodes(s) \cup AllNodes(t))) \cup AllNodes(u)
      /\ DOMAIN JoinParents(s, t) \subseteq AllNodes(u)
  BY <1>1, <1>2, <1>3, JoinPointers
<1>6. \A r \in lists \ {s, t} : Listed(u) \cap Listed(r) = {} /\ Listed(t) \cap Listed(r) = {}
  BY <1>4 DEF ListsInv, Ordered
<1> HIDE DEF u
<1>7. \A r \in lists \ {s, t} : \A n \in AllNodes(r) : parent'[n] = parent[n]
  <2>1. SUFFICES ASSUME NEW r \in lists \ {s, t}, NEW n \in AllNodes(r)
                 PROVE  parent'[n] = parent[n]
    OBVIOUS
  <2>2. n \notin AllNodes(u) /\ n \notin Boundary(t) /\ n \in DOMAIN parent
    BY <1>2, <1>4, <1>6, Elsewhere
  <2>3. n \in DOMAIN Without(parent, Boundary(t)) /\ Without(parent, Boundary(t))[n] = parent[n]
    BY <2>2, Dropped
  <2>4. n \notin DOMAIN JoinParents(s, t)
    BY <1>5, <2>2
  <2>5. WrittenAs(parent', JoinParents(s, t), Without(parent, Boundary(t)))
    BY <1>1, WrittenIs
  <2>6. QED
    BY <2>3, <2>4, <2>5 DEF WrittenAs
<1>8. DOMAIN parent' = (DOMAIN parent \ NodesOf({s, t})) \cup NodesOf({u})
  BY <1>5, NodesOfAre
<1>a. Reorders(lists, parent, {s, t}, {u}, parent')
  BY <1>4, <1>5, <1>6, <1>7, <1>8 DEF Reorders
<1>9. Ordered((lists \ {s, t}) \cup {u}, parent')
  BY <1>a, Reordered DEF ListsInv
<1>10. QED
  BY <1>1, <1>5, <1>9 DEF ListsInv, u

LEMMA SplitLeftOrders ==
    ASSUME ListsInv, NEW s \in lists, NEW p \in DOMAIN s, SplitLeft(s, p)
    PROVE  /\ ListsInv'
           /\ DOMAIN parent' = (DOMAIN parent \ AllNodes(s)) \cup AllNodes(SubSeq(s, 1, p - 1))
                                                            \cup AllNodes(SubSeq(s, p, Len(s)))
           /\ Boundary(SubSeq(s, p, Len(s))) \cap DOMAIN parent = {}
<1> DEFINE left == SubSeq(s, 1, p - 1)
           right == SubSeq(s, p, Len(s))
<1>1. /\ p > 1 /\ lists' = (lists \ {s}) \cup {left, right}
      /\ parent' = SplitParents(left, right) ++ Without(parent, Boundary(s) \ Boundary(left))
  <2>1. /\ p > 1 /\ lists' = (lists \ {s}) \cup {left, right}
        /\ parent' = [n \in Boundary(right) |-> Above(right, n)]
                     ++ [n \in Leading(right) |-> Bdry(right[1], n.level + 1)]
                     ++ [n \in {Root(left)} |-> NoNode]
                     ++ Without(parent, Boundary(s) \ Boundary(left))
    BY DEF SplitLeft
  <2>2. QED
    BY <2>1 DEF SplitParents
<1>2. \A r \in lists : Proper(r) /\ Pointers(parent, r) /\ AllNodes(r) \subseteq DOMAIN parent
  BY DEF ListsInv, Ordered
<1>3. /\ Proper(left) /\ Proper(right) /\ Listed(left) \cap Listed(right) = {}
      /\ left \o right = s
  BY <1>1, <1>2, Halves
<1> HIDE DEF left, right
<1>4. Listed(s) = Listed(left) \cup Listed(right) /\ Boundary(s) \subseteq AllNodes(s)
  BY <1>2, <1>3, Joined, NodesBelong
<1>5. /\ \A r \in lists \ {s} : Listed(s) \cap Listed(r) = {}
      /\ \A r \in lists \ {s} : Listed(left) \cap Listed(r) = {} /\ Listed(right) \cap Listed(r) = {}
  BY <1>4 DEF ListsInv, Ordered
<1>6. Boundary(right) \cap DOMAIN parent = {}
  <2>1. SUFFICES ASSUME NEW n \in Boundary(right), n \in DOMAIN parent
                 PROVE  FALSE
    OBVIOUS
  <2>2. PICK r \in lists : n \in AllNodes(r)
    BY <2>1 DEF ListsInv, Ordered
  <2>3. n \in AllNodes(right) /\ n.bdry
    BY <1>3, NodesBelong
  <2>4. r = s
    BY <1>2, <1>3, <1>5, <2>2, <2>3, Elsewhere
  <2>5. n \in Boundary(s)
    BY <1>2, <2>2, <2>3, <2>4, NodesBelong
  <2>6. n.elem = s[1] /\ s[1] = left[1] /\ n.elem \in Listed(right) /\ left[1] \in Listed(left)
    <3>1. n.elem = s[1]
      BY <1>2, <2>5, NodesBelong
    <3>2. s[1] = left[1]
      BY <1>3, Joined
    <3>3. n.elem \in Listed(right)
      BY <1>3, <2>3, NodesBelong
    <3>4. left[1] \in Listed(left)
      BY <1>3, ProperList
    <3>5. QED
      BY <3>1, <3>2, <3>3, <3>4
  <2>7. QED
    BY <1>3, <2>6
<1>7. /\ Pointers(parent', left) /\ Pointers(parent', right)
      /\ DOMAIN parent' = (DOMAIN parent \ AllNodes(s)) \cup AllNodes(left) \cup AllNodes(right)
      /\ DOMAIN SplitParents(left, right) \subseteq AllNodes(left) \cup AllNodes(right)
  <2>1. /\ Pointers(parent, left \o right) /\ AllNodes(left \o right) \subseteq DOMAIN parent
        /\ parent' = SplitParents(left, right)
                        ++ Without(parent, Boundary(left \o right) \ Boundary(left))
    BY <1>1, <1>2, <1>3
  <2>2. /\ Pointers(parent', left) /\ Pointers(parent', right)
        /\ DOMAIN parent' = (DOMAIN parent \ AllNodes(left \o right))
                                 \cup AllNodes(left) \cup AllNodes(right)
        /\ DOMAIN SplitParents(left, right) \subseteq AllNodes(left) \cup AllNodes(right)
    <3>1. SplitsInto(left, right, parent, parent')
      BY <1>3, <1>6, <2>1 DEF SplitsInto
    <3>2. QED
      BY <3>1, SplitPointers
  <2>3. QED
    BY <1>3, <2>2
<1>8. \A r \in lists \ {s} : \A n \in AllNodes(r) : parent'[n] = parent[n]
  <2> DEFINE N == Boundary(s) \ Boundary(left)
  <2>1. SUFFICES ASSUME NEW r \in lists \ {s}, NEW n \in AllNodes(r)
                 PROVE  parent'[n] = parent[n]
    OBVIOUS
  <2>2. /\ n \notin AllNodes(left) /\ n \notin AllNodes(right) /\ n \notin N
        /\ n \in DOMAIN parent
    BY <1>2, <1>3, <1>5, Elsewhere
  <2> HIDE DEF N
  <2>3. n \in DOMAIN Without(parent, N) /\ Without(parent, N)[n] = parent[n]
    BY <2>2, Dropped
  <2>4. n \notin DOMAIN SplitParents(left, right)
    BY <1>7, <2>2
  <2>5. WrittenAs(parent', SplitParents(left, right), Without(parent, N))
    BY <1>1, WrittenIs DEF N
  <2>6. QED
    BY <2>3, <2>4, <2>5 DEF WrittenAs
<1>9. DOMAIN parent' = (DOMAIN parent \ NodesOf({s})) \cup NodesOf({left, right})
  <2>1. NodesOf({s}) = AllNodes(s) /\ NodesOf({left, right}) = AllNodes(left) \cup AllNodes(right)
    BY NodesOfAre
  <2>2. QED
    BY <1>7, <2>1
<1>a. Reorders(lists, parent, {s}, {left, right}, parent')
  <2>1. {s} \subseteq lists /\ \A r \in {left, right} : Proper(r) /\ Pointers(parent', r)
    BY <1>3, <1>7
  <2>2. \A r, q \in {left, right} : r # q => Listed(r) \cap Listed(q) = {}
    BY <1>3
  <2>3. \A r \in {left, right} : \A q \in lists \ {s} : Listed(r) \cap Listed(q) = {}
    BY <1>5
  <2>4. QED
    BY <1>8, <1>9, <2>1, <2>2, <2>3 DEF Reorders
<1>10. Ordered((lists \ {s}) \cup {left, right}, parent')
  BY <1>a, Reordered DEF ListsInv
<1>11. QED
  BY <1>1, <1>6, <1>7, <1>10 DEF ListsInv, left, right

------------------------------------------------------------------------------
\* Sums of sketches

\* The parity of a sum.
LEMMA Parity ==
    ASSUME NEW a \in Nat, NEW b \in Nat
    PROVE  (a + b) % 2 = 1 <=> ~(a % 2 = 1 <=> b % 2 = 1)
<1>1. /\ \E x \in Nat : a = 2 * x + (a % 2)
      /\ \E x \in Nat : b = 2 * x + (b % 2)
      /\ a % 2 \in {0, 1} /\ b % 2 \in {0, 1}
  OBVIOUS
<1>2. PICK x \in Nat, y \in Nat : a = 2 * x + (a % 2) /\ b = 2 * y + (b % 2)
  BY <1>1
<1>3. a + b = 2 * (x + y) + ((a % 2) + (b % 2))
  BY <1>1, <1>2
<1>4. QED
  BY <1>1, <1>3

\* Merging is the symmetric difference of sets.
LEMMA MergeIs ==
    ASSUME NEW A, NEW B, NEW C
    PROVE  /\ Merge(A, B) = Merge(B, A) /\ Merge(A, {}) = A /\ Merge({}, A) = A
           /\ Merge(Merge(A, B), C) = Merge(Merge(A, C), B)
           /\ Merge(Merge(A, B), B) = A
           /\ Merge(Merge(A, B), C) = Merge(A, Merge(B, C))
  BY DEF Merge

\* The nodes, or elements, whose value holds an index.
Holders(O, N, i) == {n \in N : i \in O[n]}

LEMMA SumHolds ==
    ASSUME NEW O, NEW N
    PROVE  /\ Sum(O, N) \subseteq Indexes
           /\ \A i \in Indexes : i \in Sum(O, N) <=> Cardinality(Holders(O, N, i)) % 2 = 1
  BY DEF Sum, Holders

\* The sum over nothing, and over one.
LEMMA SumOfOne ==
    ASSUME NEW O, NEW e, O[e] \subseteq Indexes
    PROVE  Sum(O, {}) = {} /\ Sum(O, {e}) = O[e]
<1>1. \A i : Holders(O, {}, i) = {} /\ Holders(O, {e}, i) = IF i \in O[e] THEN {e} ELSE {}
  BY DEF Holders
<1>2. Cardinality({}) % 2 # 1 /\ Cardinality({e}) % 2 = 1
  <2>1. Cardinality({}) = 0 /\ Cardinality({e}) = 1
    BY FS_EmptySet, FS_Singleton
  <2>2. QED
    BY <2>1
<1>3. \A i \in Indexes : i \notin Sum(O, {})
  BY <1>1, <1>2, SumHolds
<1>4. \A i \in Indexes : i \in Sum(O, {e}) <=> i \in O[e]
  BY <1>1, <1>2, SumHolds
<1>5. Sum(O, {}) \subseteq Indexes /\ Sum(O, {e}) \subseteq Indexes
  BY SumHolds
<1>6. QED
  BY <1>3, <1>4, <1>5

\* Two sets that do not meet.
LEMMA SumOfBoth ==
    ASSUME NEW O, NEW A, NEW B, IsFiniteSet(A), IsFiniteSet(B), A \cap B = {}
    PROVE  Sum(O, A \cup B) = Merge(Sum(O, A), Sum(O, B))
<1>1. ASSUME NEW i \in Indexes
      PROVE  i \in Sum(O, A \cup B) <=> ~(i \in Sum(O, A) <=> i \in Sum(O, B))
  <2> DEFINE a == Holders(O, A, i)
             b == Holders(O, B, i)
  <2>1. /\ Holders(O, A \cup B, i) = a \cup b /\ a \cap b = {}
        /\ a \subseteq A /\ b \subseteq B
    BY DEF Holders
  <2>2. IsFiniteSet(a) /\ IsFiniteSet(b)
    BY <2>1, FS_Subset
  <2>3. Cardinality(a \cup b) = Cardinality(a) + Cardinality(b) - Cardinality(a \cap b)
    BY <2>2, FS_Union
  <2>4. Cardinality(a) \in Nat /\ Cardinality(b) \in Nat /\ Cardinality(a \cap b) = 0
    BY <2>1, <2>2, FS_CardinalityType, FS_EmptySet
  <2>5. /\ i \in Sum(O, A \cup B) <=> Cardinality(a \cup b) % 2 = 1
        /\ i \in Sum(O, A) <=> Cardinality(a) % 2 = 1
        /\ i \in Sum(O, B) <=> Cardinality(b) % 2 = 1
    BY <2>1, SumHolds
  <2> HIDE DEF a, b
  <2>6. Cardinality(a \cup b) = Cardinality(a) + Cardinality(b)
    BY <2>3, <2>4
  <2>7. QED
    BY <2>4, <2>5, <2>6, Parity
<1>2. /\ Sum(O, A \cup B) \subseteq Indexes /\ Sum(O, A) \subseteq Indexes
      /\ Sum(O, B) \subseteq Indexes
  BY SumHolds
<1>3. QED
  BY <1>1, <1>2 DEF Merge

\* Only the values of the members count.
LEMMA SumSame ==
    ASSUME NEW O, NEW R, NEW N, \A n \in N : O[n] = R[n]
    PROVE  Sum(O, N) = Sum(R, N)
<1>1. \A i : Holders(O, N, i) = Holders(R, N, i)
  BY DEF Holders
<1>2. \A i \in Indexes : i \in Sum(O, N) <=> i \in Sum(R, N)
  BY <1>1, SumHolds
<1>3. QED
  BY <1>2, SumHolds

\* A change of one value changes every sum it is part of by as much.
LEMMA SumToggled ==
    ASSUME NEW O, NEW R, NEW N, IsFiniteSet(N), NEW e, NEW D, D \subseteq Indexes,
           O[e] \subseteq Indexes, R[e] = Merge(O[e], D), \A n \in N : n # e => R[n] = O[n]
    PROVE  Sum(R, N) = IF e \in N THEN Merge(Sum(O, N), D) ELSE Sum(O, N)
<1>1. CASE e \notin N
  BY <1>1, SumSame
<1>2. CASE e \in N
  <2> DEFINE A == N \ {e}
  <2>1. N = A \cup {e} /\ A \cap {e} = {} /\ IsFiniteSet(A) /\ IsFiniteSet({e})
    BY <1>2, FS_Subset, FS_Singleton
  <2>2. R[e] \subseteq Indexes
    BY DEF Merge
  <2>3. Sum(O, {e}) = O[e] /\ Sum(R, {e}) = Merge(O[e], D)
    BY <2>2, SumOfOne
  <2>4. \A n \in A : O[n] = R[n]
    OBVIOUS
  <2> HIDE DEF A
  <2>5. Sum(O, A) = Sum(R, A)
    BY <2>4, SumSame
  <2>6. Sum(O, N) = Merge(Sum(O, A), O[e]) /\ Sum(R, N) = Merge(Sum(O, A), Merge(O[e], D))
    BY <2>1, <2>3, <2>5, SumOfBoth
  <2>7. QED
    BY <1>2, <2>6, MergeIs
<1>3. QED
  BY <1>1, <1>2

------------------------------------------------------------------------------
\* The elements a node stands over

\* A list has as many elements as it is long.
LEMMA ListedCount ==
    ASSUME NEW s, Proper(s)
    PROVE  IsFiniteSet(Listed(s)) /\ Cardinality(Listed(s)) = Len(s)
<1>1. /\ Len(s) \in Nat /\ Listed(s) = {s[k] : k \in 1 .. Len(s)}
      /\ s \in [1 .. Len(s) -> Listed(s)]
  <2>1. Len(s) \in Nat /\ Listed(s) = {s[k] : k \in 1 .. Len(s)} /\ s \in Seq(Elements)
    BY ProperList DEF Proper
  <2>2. QED
    BY <2>1
<1>2. s \in Surjection(1 .. Len(s), Listed(s))
  BY <1>1 DEF Surjection
<1>3. s \in Injection(1 .. Len(s), Listed(s))
  BY <1>1 DEF Injection, IsInjective, Proper
<1>4. IsFiniteSet(1 .. Len(s)) /\ Cardinality(1 .. Len(s)) = Len(s)
  <2>1. Len(s) \in Int /\ 1 \in Int /\ ~(1 > Len(s)) /\ Len(s) - 1 + 1 = Len(s)
    BY ProperList
  <2>2. QED
    BY <2>1, FS_Interval
<1>5. QED
  BY <1>2, <1>3, <1>4, FS_Surjection

Under(s, n) == {s[p] : p \in {p \in 1 .. Len(s) : Cover(s, p, n.level) = n}}

LEMMA UnderIs ==
    ASSUME NEW s, Proper(s), NEW n
    PROVE  /\ \A p \in 1 .. Len(s) : s[p] \in Under(s, n) <=> Cover(s, p, n.level) = n
           /\ Under(s, n) \subseteq Listed(s)
           /\ IsFiniteSet(Under(s, n)) /\ IsFiniteSet(Listed(s))
<1>1. Len(s) \in Nat /\ Listed(s) = {s[k] : k \in 1 .. Len(s)}
  BY ProperList
<1>2. IsFiniteSet(Listed(s))
  BY ListedCount
<1>3. Under(s, n) \subseteq Listed(s)
  BY <1>1 DEF Under
<1>4. IsFiniteSet(Under(s, n))
  BY <1>2, <1>3, FS_Subset
<1>5. \A p \in 1 .. Len(s) : s[p] \in Under(s, n) <=> Cover(s, p, n.level) = n
  BY DEF Under, Proper
<1>6. QED
  BY <1>2, <1>3, <1>4, <1>5

\* A node on level 1 stands over its own element, and the boundary there over none; the root
\* stands over all.
LEMMA UnderEnds ==
    ASSUME NEW s, Proper(s)
    PROVE  /\ \A e \in Listed(s) : Elem(e, 1) \in AllNodes(s) /\ Under(s, Elem(e, 1)) = {e}
           /\ Bdry(s[1], 1) \in AllNodes(s) /\ Under(s, Bdry(s[1], 1)) = {}
           /\ Under(s, Root(s)) = Listed(s)
<1>1. /\ Len(s) \in Nat /\ Listed(s) = {s[k] : k \in 1 .. Len(s)}
      /\ \A k \in 1 .. Len(s) : Height[s[k]] \in Nat /\ Height[s[k]] >= 1
      /\ Tallest(s) \in Nat /\ Tallest(s) >= 1
  BY ProperList, TallestIs
<1>2. \A p \in 0 .. Len(s) : NodeAt(s, p, 1) /\ Cover(s, p, 1) = Named(s, p, 1)
  <2>1. \A p \in 0 .. Len(s) : NodeAt(s, p, 1)
    BY <1>1 DEF NodeAt
  <2>2. QED
    BY <2>1, CoverOwn
<1>3. \A p \in 1 .. Len(s) : p \in 0 .. Len(s) /\ Cover(s, p, 1) = Elem(s[p], 1) /\ Elem(s[p], 1) \in AllNodes(s)
  BY <1>1, <1>2, NodesAre DEF Named
<1>4. ASSUME NEW e \in Listed(s)
      PROVE  Elem(e, 1) \in AllNodes(s) /\ Under(s, Elem(e, 1)) = {e}
  <2>1. \A p \in 1 .. Len(s) : s[p] \in Under(s, Elem(e, 1)) <=> s[p] = e
    BY <1>3, UnderIs, NodeNames
  <2>2. Under(s, Elem(e, 1)) \subseteq Listed(s)
    BY UnderIs
  <2>3. QED
    BY <1>1, <1>3, <2>1, <2>2
<1>5. Bdry(s[1], 1) \in AllNodes(s) /\ Under(s, Bdry(s[1], 1)) = {}
  <2>1. Bdry(s[1], 1) \in AllNodes(s)
    BY <1>1, <1>2, NodesAre DEF Named
  <2>2. \A p \in 1 .. Len(s) : s[p] \notin Under(s, Bdry(s[1], 1))
    BY <1>3, UnderIs, NodeNames
  <2>3. Under(s, Bdry(s[1], 1)) \subseteq Listed(s)
    BY UnderIs
  <2>4. QED
    BY <1>1, <2>1, <2>2, <2>3
<1>6. Under(s, Root(s)) = Listed(s)
  <2>1. Root(s).level = Tallest(s) + 1 /\ Root(s) = Bdry(s[1], Tallest(s) + 1)
    BY RootIs DEF Root
  <2>2. \A p \in 1 .. Len(s) : Cover(s, p, Tallest(s) + 1) = Root(s)
    BY <1>1, <2>1, RootCovers
  <2>3. \A p \in 1 .. Len(s) : s[p] \in Under(s, Root(s))
    BY <2>1, <2>2, UnderIs
  <2>4. Under(s, Root(s)) \subseteq Listed(s)
    BY UnderIs
  <2>5. QED
    BY <1>1, <2>3, <2>4
<1>7. QED
  BY <1>4, <1>5, <1>6

\* A list node stands over its own element.
LEMMA UnderOwn ==
    ASSUME NEW s, Proper(s), NEW n \in ListNodes(s)
    PROVE  n.elem \in Under(s, n)
<1>1. n \in AllNodes(s) /\ ~n.bdry
  BY NodesBelong
<1>2. PICK q, k : NodeAt(s, q, k) /\ n = Named(s, q, k)
  BY <1>1, NodesAre
<1>3. q \in 0 .. Len(s) /\ Len(s) \in Nat
  BY <1>2, ProperList DEF NodeAt
<1>4. q # 0 /\ n.level = k /\ n.elem = s[q]
  BY <1>1, <1>2, <1>3, NamedApart
<1>5. q \in 1 .. Len(s) /\ Cover(s, q, k) = n
  BY <1>2, <1>3, <1>4, CoverOwn
<1>6. QED
  BY <1>4, <1>5, UnderIs

\* The nodes that point to a node above level 1 split what it stands over.
Kids(s, n) == {m \in AllNodes(s) : Nearest(s, m) = n}

LEMMA UnderKids ==
    ASSUME NEW s, Proper(s), NEW n \in AllNodes(s), n.level # 1
    PROVE  /\ \A m \in Kids(s, n) : m.level = n.level - 1
           /\ \A m \in Kids(s, n) : Under(s, m) \subseteq Under(s, n)
           /\ \A e \in Under(s, n) : \E m \in Kids(s, n) : e \in Under(s, m)
           /\ \A m, r \in Kids(s, n) : m # r => Under(s, m) \cap Under(s, r) = {}
<1>1. /\ Len(s) \in Nat /\ Tallest(s) \in Nat /\ Tallest(s) >= 1
      /\ n.level \in 1 .. Tallest(s) + 1 /\ n.level # 0 /\ n.level - 1 \in 1 .. Tallest(s)
      /\ Listed(s) = {s[k] : k \in 1 .. Len(s)}
  BY ProperList, TallestIs, RootIs
<1>2. ASSUME NEW m \in Kids(s, n)
      PROVE  \E q : /\ q \in 0 .. Len(s) /\ NodeAt(s, q, n.level - 1) /\ m = Named(s, q, n.level - 1)
                    /\ m.level = n.level - 1 /\ Cover(s, q, n.level) = n
  <2>1. m \in AllNodes(s) /\ Nearest(s, m) = n
    BY DEF Kids
  <2>2. PICK q, k : NodeAt(s, q, k) /\ m = Named(s, q, k)
    BY <2>1, NodesAre
  <2>3. q \in 0 .. Len(s) /\ k \in Nat /\ m.level = k
    BY <2>2, NamedApart DEF NodeAt
  <2>4. m # Root(s) /\ Nearest(s, m) = Cover(s, q, k + 1)
    <3>1. NoNode.level = 0
      BY NodeNames
    <3>2. n # NoNode
      BY <1>1, <3>1
    <3>3. QED
      BY <2>1, <2>2, <3>2, NearestIs
  <2>5. n.level = k + 1
    <3>1. q \in 0 .. Len(s) /\ k + 1 \in Nat \ {0}
      BY <2>3
    <3>2. Stand(s, q, k + 1) \in 0 .. Len(s)
      BY <3>1, StandIs
    <3>3. Cover(s, q, k + 1).level = k + 1
      BY <3>1, <3>2, NamedApart DEF Cover
    <3>4. QED
      BY <2>1, <2>4, <3>3
  <2>6. k = n.level - 1
    BY <2>3, <2>5
  <2>7. QED
    BY <2>1, <2>2, <2>3, <2>4, <2>5, <2>6
<1>3. ASSUME NEW m \in Kids(s, n), NEW e \in Under(s, m)
      PROVE  e \in Under(s, n)
  <2>1. PICK q : /\ q \in 0 .. Len(s) /\ NodeAt(s, q, n.level - 1) /\ m = Named(s, q, n.level - 1)
                 /\ m.level = n.level - 1 /\ Cover(s, q, n.level) = n
    BY <1>2
  <2>2. PICK p \in 1 .. Len(s) : e = s[p]
    BY <1>1, UnderIs
  <2>3. Cover(s, p, n.level - 1) = m
    BY <2>1, <2>2, UnderIs
  <2>4. /\ p \in 0 .. Len(s) /\ n.level - 1 \in Nat \ {0} /\ n.level \in Nat
        /\ n.level >= n.level - 1
    BY <1>1
  <2>5. Stand(s, p, n.level - 1) = q
    <3>1. Stand(s, p, n.level - 1) \in 0 .. Len(s)
      BY <2>4, StandIs
    <3>2. QED
      BY <2>1, <2>3, <3>1, NamedApart DEF Cover
  <2>6. Cover(s, p, n.level) = n
    BY <2>1, <2>4, <2>5, CoverUp
  <2>7. QED
    BY <2>2, <2>6, UnderIs
<1>4. ASSUME NEW e \in Under(s, n)
      PROVE  \E m \in Kids(s, n) : e \in Under(s, m)
  <2>1. PICK p \in 1 .. Len(s) : e = s[p]
    BY <1>1, UnderIs
  <2>2. /\ p \in 0 .. Len(s) /\ n.level - 1 \in Nat \ {0} /\ n.level \in Nat
        /\ n.level >= n.level - 1 /\ n.level - 1 \in 1 .. Tallest(s) + 1
        /\ (n.level - 1) + 1 = n.level /\ n.level - 1 # Tallest(s) + 1
    BY <1>1
  <2> DEFINE m == Cover(s, p, n.level - 1)
             q == Stand(s, p, n.level - 1)
  <2>3. NodeAt(s, q, n.level - 1) /\ m \in AllNodes(s) /\ m.level = n.level - 1
    BY <2>2, CoverNode
  <2>4. m = Named(s, q, n.level - 1)
    BY DEF Cover
  <2>5. Cover(s, q, n.level) = Cover(s, p, n.level)
    BY <2>2, CoverUp
  <2>6. m # Root(s)
    BY <2>2, <2>3, RootIs
  <2> HIDE DEF m, q
  <2>7. Nearest(s, m) = Cover(s, q, n.level)
    BY <2>2, <2>3, <2>4, <2>6, NearestIs
  <2>8. Cover(s, p, n.level) = n
    BY <2>1, UnderIs
  <2>9. m \in Kids(s, n)
    BY <2>3, <2>5, <2>7, <2>8 DEF Kids
  <2>10. e \in Under(s, m)
    <3>1. Cover(s, p, m.level) = m
      BY <2>3 DEF m
    <3>2. QED
      BY <2>1, <3>1, UnderIs
  <2>11. QED
    BY <2>9, <2>10
<1>5. ASSUME NEW m \in Kids(s, n), NEW r \in Kids(s, n), m # r, NEW e \in Under(s, m), e \in Under(s, r)
      PROVE  FALSE
  <2>1. m.level = n.level - 1 /\ r.level = n.level - 1
    BY <1>2
  <2>2. PICK p \in 1 .. Len(s) : e = s[p]
    BY <1>1, UnderIs
  <2>3. Cover(s, p, m.level) = m /\ Cover(s, p, r.level) = r
    BY <1>5, <2>2, UnderIs
  <2>4. QED
    BY <1>5, <2>1, <2>3
<1>6. \A m \in Kids(s, n) : m.level = n.level - 1
  BY <1>2
<1>7. \A m \in Kids(s, n) : Under(s, m) \subseteq Under(s, n)
  BY <1>3
<1>8. \A m, r \in Kids(s, n) : m # r => Under(s, m) \cap Under(s, r) = {}
  BY <1>5
<1>9. QED
  BY <1>4, <1>6, <1>7, <1>8

\* The elements before the first that is as high as a level: the boundary stands over them.
Before(s, k) == {s[p] : p \in {p \in 1 .. Len(s) : Stand(s, p, k) = 0}}

LEMMA BeforeIs ==
    ASSUME NEW s, Proper(s), NEW k \in Nat \ {0}
    PROVE  LET h == Tallest(s) + 1
               b == Bdry(s[1], IF k < h THEN k ELSE h)
           IN  /\ b \in AllNodes(s) /\ b \in Boundary(s) /\ Under(s, b) = Before(s, k)
               /\ k = 1 => Before(s, k) = {}
               /\ Before(s, k) \subseteq Listed(s) /\ IsFiniteSet(Before(s, k))
               /\ \A p \in 1 .. Len(s) : s[p] \in Before(s, k) <=> Stand(s, p, k) = 0
<1> DEFINE h == Tallest(s) + 1
           j == IF k < h THEN k ELSE h
           b == Bdry(s[1], j)
<1>1. /\ Tallest(s) \in Nat /\ h \in Nat /\ j \in 1 .. h /\ Len(s) \in Nat
      /\ Listed(s) = {s[p] : p \in 1 .. Len(s)}
  BY TallestIs, ProperList
<1>2. b.level = j /\ b.bdry
  BY NodeNames
<1>3. \A p \in 1 .. Len(s) : s[p] \in Before(s, k) <=> Stand(s, p, k) = 0
  BY DEF Before, Proper
<1>4. Before(s, k) \subseteq Listed(s)
  BY <1>1 DEF Before
<1>5. b \in Boundary(s)
  BY <1>1 DEF Boundary
<1>6. b \in AllNodes(s)
  BY <1>5, NodesBelong
<1> HIDE DEF b
<1>7. ASSUME NEW p \in 1 .. Len(s)
      PROVE  Cover(s, p, j) = b <=> Stand(s, p, k) = 0
  <2>1. p \in 0 .. Len(s) /\ 0 \in 0 .. Len(s) /\ j \in Nat \ {0}
    BY <1>1
  <2>2. Stand(s, p, j) \in 0 .. Len(s) /\ b = Named(s, 0, j)
    BY <2>1, StandIs DEF b, Named
  <2>3. Cover(s, p, j) = b <=> Stand(s, p, j) = 0
    BY <2>1, <2>2, NamedApart DEF Cover
  <2>4. CASE k < h
    BY <2>3, <2>4
  <2>5. CASE ~(k < h)
    <3>1. k > Tallest(s) /\ j = h /\ h > Tallest(s)
      BY <1>1, <2>5
    <3>2. Stand(s, p, k) = 0 /\ Stand(s, p, h) = 0
      BY <1>1, <2>1, <3>1, RootCovers
    <3>3. QED
      BY <2>3, <3>1, <3>2
  <2>6. QED
    BY <2>4, <2>5
<1>8. Under(s, b) = Before(s, k)
  BY <1>2, <1>7 DEF Under, Before
<1>9. k = 1 => Before(s, k) = {}
  <2>1. SUFFICES ASSUME k = 1
                 PROVE  Before(s, k) = {}
    OBVIOUS
  <2>2. Tallest(s) >= 1
    BY TallestIs
  <2>3. j = 1
    BY <1>1, <2>1, <2>2
  <2>4. QED
    BY <1>8, <2>3, UnderEnds DEF b
<1>10. IsFiniteSet(Before(s, k))
  BY <1>4, ListedCount, FS_Subset
<1>11. QED
  BY <1>3, <1>4, <1>5, <1>6, <1>8, <1>9, <1>10 DEF b

\* What the nodes of a joined list stand over.
LEMMA JoinUnder ==
    ASSUME NEW s, Proper(s), NEW t, Proper(t), Listed(s) \cap Listed(t) = {}
    PROVE  /\ \A n \in AllNodes(s) :
                 Under(s \o t, n) = IF n = Cover(s, Len(s), n.level)
                                    THEN Under(s, n) \cup Before(t, n.level) ELSE Under(s, n)
           /\ \A n \in Raised(s, t) : Under(s \o t, n) = Listed(s) \cup Before(t, n.level)
           /\ \A n \in ListNodes(t) : Under(s \o t, n) = Under(t, n)
<1> DEFINE u == s \o t
           m == Len(s)
<1>1. /\ Proper(u) /\ Len(u) = m + Len(t) /\ m \in Nat /\ Len(t) \in Nat /\ m \in 0 .. m
      /\ \A i \in 1 .. m : u[i] = s[i] /\ i \in 1 .. Len(u) /\ i \in 0 .. m
      /\ \A j \in 1 .. Len(t) : u[m + j] = t[j] /\ m + j \in 1 .. Len(u) /\ j \in 0 .. Len(t)
      /\ u[1] = s[1]
      /\ Listed(u) = Listed(s) \cup Listed(t)
      /\ Listed(s) = {s[i] : i \in 1 .. m} /\ Listed(t) = {t[i] : i \in 1 .. Len(t)}
      /\ Tallest(s) \in Nat /\ Tallest(t) \in Nat /\ Tallest(u) \in Nat
  <2>1. /\ Proper(u) /\ Len(u) = m + Len(t)
        /\ \A i \in 1 .. m : u[i] = s[i]
        /\ \A j \in 1 .. Len(t) : u[m + j] = t[j]
        /\ u[1] = s[1] /\ Listed(u) = Listed(s) \cup Listed(t)
    BY Joined
  <2>2. /\ m \in Nat /\ Len(t) \in Nat
        /\ Listed(s) = {s[i] : i \in 1 .. m} /\ Listed(t) = {t[i] : i \in 1 .. Len(t)}
    BY ProperList
  <2>3. Tallest(s) \in Nat /\ Tallest(t) \in Nat /\ Tallest(u) \in Nat
    BY <2>1, TallestIs
  <2> HIDE DEF u, m
  <2>4. QED
    BY <2>1, <2>2, <2>3
<1>2. ASSUME NEW k \in Nat \ {0}
      PROVE  /\ \A p \in 1 .. m : Cover(u, p, k) = Cover(s, p, k)
             /\ \A j \in 1 .. Len(t) : Cover(u, m + j, k) = IF Stand(t, j, k) = 0 THEN Cover(s, m, k)
                                                            ELSE Cover(t, j, k)
  <2>1. /\ \A p \in 0 .. m : Cover(u, p, k) = Cover(s, p, k)
        /\ \A j \in 1 .. Len(t) : Cover(u, m + j, k) = IF Stand(t, j, k) = 0 THEN Cover(s, m, k)
                                                       ELSE Cover(t, j, k)
    BY JoinedCover
  <2> HIDE DEF u, m
  <2>2. QED
    BY <1>1, <2>1
<1> HIDE DEF u, m
<1>3. ASSUME NEW n, n.level \in Nat \ {0}
      PROVE  /\ \A p \in 1 .. m : s[p] \in Under(u, n) <=> Cover(s, p, n.level) = n
             /\ \A j \in 1 .. Len(t) : t[j] \in Under(u, n) <=>
                    IF Stand(t, j, n.level) = 0 THEN Cover(s, m, n.level) = n
                    ELSE Cover(t, j, n.level) = n
             /\ Under(u, n) \subseteq Listed(s) \cup Listed(t)
  <2>1. /\ \A p \in 1 .. Len(u) : u[p] \in Under(u, n) <=> Cover(u, p, n.level) = n
        /\ Under(u, n) \subseteq Listed(u)
    BY <1>1, UnderIs
  <2>2. QED
    BY <1>1, <1>2, <1>3, <2>1
<1>4. ASSUME NEW k \in Nat \ {0}, NEW j \in 1 .. Len(t), Stand(t, j, k) # 0
      PROVE  Cover(t, j, k) \in ListNodes(t)
  <2>1. /\ j \in 0 .. Len(t) /\ Stand(t, j, k) \in 0 .. Len(t) /\ Over(t, j, k, Stand(t, j, k))
    BY <1>1, StandIs
  <2>2. k <= Height[t[Stand(t, j, k)]]
    <3>1. Height[t[Stand(t, j, k)]] >= k /\ Stand(t, j, k) \in 1 .. Len(t)
      BY <1>1, <1>4, <2>1 DEF Over
    <3>2. Height[t[Stand(t, j, k)]] \in Nat
      BY <3>1, ProperList
    <3>3. QED
      BY <3>1, <3>2
  <2>3. NodeAt(t, Stand(t, j, k), k)
    BY <1>4, <2>1, <2>2 DEF NodeAt
  <2>4. Cover(t, j, k) \in AllNodes(t)
    BY <2>3, NodesAre DEF Cover
  <2>5. ~Cover(t, j, k).bdry
    BY <1>4, <2>1, NamedApart DEF Cover
  <2>6. QED
    BY <2>4, <2>5, NodesBelong
<1>5. \A k \in Nat \ {0} : /\ \A p \in 1 .. Len(t) : t[p] \in Before(t, k) <=> Stand(t, p, k) = 0
                           /\ Before(t, k) \subseteq Listed(t)
  BY BeforeIs
<1>6. AllNodes(s) \cap AllNodes(t) = {} /\ ListNodes(t) \subseteq AllNodes(t)
  BY NodesApart, NodesBelong
<1>7. ASSUME NEW n \in AllNodes(s)
      PROVE  Under(u, n) = IF n = Cover(s, m, n.level)
                           THEN Under(s, n) \cup Before(t, n.level) ELSE Under(s, n)
  <2>1. n.level \in Nat \ {0}
    BY <1>1, RootIs
  <2>2. \A p \in 1 .. m : s[p] \in Under(u, n) <=> s[p] \in Under(s, n)
    BY <2>1, <1>3, UnderIs DEF m
  <2>3. \A j \in 1 .. Len(t) : t[j] \in Under(u, n) <=>
            t[j] \in Before(t, n.level) /\ Cover(s, m, n.level) = n
    <3>1. SUFFICES ASSUME NEW j \in 1 .. Len(t)
                   PROVE  t[j] \in Under(u, n) <=>
                              t[j] \in Before(t, n.level) /\ Cover(s, m, n.level) = n
      OBVIOUS
    <3>2. t[j] \in Before(t, n.level) <=> Stand(t, j, n.level) = 0
      BY <1>5, <2>1
    <3>3. Stand(t, j, n.level) # 0 => Cover(t, j, n.level) # n
      BY <1>4, <1>6, <2>1
    <3>4. QED
      BY <1>3, <2>1, <3>2, <3>3
  <2>4. Under(s, n) \subseteq Listed(s) /\ Under(u, n) \subseteq Listed(s) \cup Listed(t)
        /\ Before(t, n.level) \subseteq Listed(t)
    BY <1>3, <1>5, <2>1, UnderIs
  <2>5. \A e \in Listed(s) : e \in Under(u, n) <=> e \in Under(s, n)
    BY <1>1, <2>2
  <2>6. \A e \in Listed(t) : e \in Under(u, n) <=> e \in Before(t, n.level) /\ Cover(s, m, n.level) = n
    BY <1>1, <2>3
  <2>7. QED
    BY <2>4, <2>5, <2>6
<1>8. ASSUME NEW n \in Raised(s, t)
      PROVE  Under(u, n) = Listed(s) \cup Before(t, n.level)
  <2>1. n = Bdry(s[1], n.level) /\ n.level \in Nat \ {0} /\ n.level > Tallest(s) /\ n.bdry
    <3>1. n = Bdry(s[1], n.level) /\ n.level \in Nat /\ n.level > Tallest(s) + 1 /\ n.bdry
      BY JoinedNodes
    <3>2. QED
      BY <1>1, <3>1
  <2>2. \A p \in 0 .. m : Cover(s, p, n.level) = n
    BY <2>1, RootCovers DEF m
  <2>3. \A p \in 1 .. m : s[p] \in Under(u, n)
    BY <1>1, <1>3, <2>1, <2>2
  <2>4. \A j \in 1 .. Len(t) : t[j] \in Under(u, n) <=> t[j] \in Before(t, n.level)
    <3>1. SUFFICES ASSUME NEW j \in 1 .. Len(t)
                   PROVE  t[j] \in Under(u, n) <=> t[j] \in Before(t, n.level)
      OBVIOUS
    <3>2. t[j] \in Before(t, n.level) <=> Stand(t, j, n.level) = 0
      BY <1>5, <2>1
    <3>3. Stand(t, j, n.level) # 0 => Cover(t, j, n.level) # n
      BY <1>4, <2>1, NodesBelong
    <3>4. QED
      BY <1>1, <1>3, <2>1, <2>2, <3>2, <3>3
  <2>5. Under(u, n) \subseteq Listed(s) \cup Listed(t) /\ Before(t, n.level) \subseteq Listed(t)
    BY <1>3, <1>5, <2>1
  <2>6. \A e \in Listed(s) : e \in Under(u, n)
    BY <1>1, <2>3
  <2>7. \A e \in Listed(t) : e \in Under(u, n) <=> e \in Before(t, n.level)
    BY <1>1, <2>4
  <2>8. QED
    BY <2>5, <2>6, <2>7
<1>9. ASSUME NEW n \in ListNodes(t)
      PROVE  Under(u, n) = Under(t, n)
  <2>1. n \in AllNodes(t) /\ ~n.bdry /\ n.level \in Nat \ {0}
    <3>1. n \in AllNodes(t) /\ ~n.bdry
      BY NodesBelong
    <3>2. n.level \in 1 .. Tallest(t) + 1
      BY <3>1, RootIs
    <3>3. QED
      BY <1>1, <3>1, <3>2
  <2>2. \A p \in 0 .. m : Cover(s, p, n.level) # n
    <3>1. SUFFICES ASSUME NEW p \in 0 .. m, Cover(s, p, n.level) = n
                   PROVE  FALSE
      OBVIOUS
    <3>2. Stand(s, p, n.level) \in 0 .. m
      BY <2>1, StandIs DEF m
    <3>3. Stand(s, p, n.level) # 0
      BY <2>1, <3>1, <3>2, NamedApart DEF Cover, m
    <3>4. n.elem = s[Stand(s, p, n.level)]
      BY <3>1, <3>2, <3>3, NamedApart DEF Cover, m
    <3>5. n.elem \in Listed(s)
      BY <1>1, <3>2, <3>3, <3>4
    <3>6. n.elem \in Listed(t)
      BY <2>1, NodesBelong
    <3>7. QED
      BY <3>5, <3>6
  <2>3. \A p \in 1 .. m : s[p] \notin Under(u, n)
    BY <1>1, <1>3, <2>1, <2>2
  <2>4. \A j \in 1 .. Len(t) : t[j] \in Under(u, n) <=> t[j] \in Under(t, n)
    <3>1. SUFFICES ASSUME NEW j \in 1 .. Len(t)
                   PROVE  t[j] \in Under(u, n) <=> t[j] \in Under(t, n)
      OBVIOUS
    <3>2. t[j] \in Under(t, n) <=> Cover(t, j, n.level) = n
      BY UnderIs
    <3>3. Stand(t, j, n.level) = 0 => Cover(t, j, n.level) # n
      <4>1. j \in 0 .. Len(t) /\ Stand(t, j, n.level) \in 0 .. Len(t)
        BY <1>1, <2>1, StandIs
      <4>2. QED
        BY <2>1, <4>1, NamedApart DEF Cover
    <3>4. QED
      BY <1>1, <1>3, <2>1, <2>2, <3>2, <3>3
  <2>5. Under(u, n) \subseteq Listed(s) \cup Listed(t) /\ Under(t, n) \subseteq Listed(t)
    BY <1>3, <2>1, UnderIs
  <2>6. \A e \in Listed(s) : e \notin Under(u, n)
    BY <1>1, <2>3
  <2>7. \A e \in Listed(t) : e \in Under(u, n) <=> e \in Under(t, n)
    BY <1>1, <2>4
  <2>8. QED
    BY <2>5, <2>6, <2>7
<1>10. QED
  BY <1>7, <1>8, <1>9 DEF u, m

------------------------------------------------------------------------------
\* Sums over the nodes below a node

\* The union of some of a family of sets.
All(F, N) == UNION {F[m] : m \in N}

\* A family of finite sets, no two of which meet.
Parts(F, N) == /\ IsFiniteSet(N)
               /\ \A m \in N : IsFiniteSet(F[m])
               /\ \A m, r \in N : m # r => F[m] \cap F[r] = {}

LEMMA PartsTaken ==
    ASSUME NEW F, NEW N, Parts(F, N), NEW x \in N
    PROVE  /\ Parts(F, N \ {x}) /\ All(F, N) = All(F, N \ {x}) \cup F[x]
           /\ All(F, N \ {x}) \cap F[x] = {}
<1>1. IsFiniteSet(N \ {x})
  BY FS_Subset DEF Parts
<1>2. QED
  BY <1>1 DEF Parts, All

\* Sets of nodes are induced on by their size.
LEMMA FewestNodes ==
    ASSUME NEW Q, Q # {}, \A N \in Q : IsFiniteSet(N)
    PROVE  \E N \in Q : \A R \in Q : Cardinality(N) <= Cardinality(R)
<1> DEFINE K == {Cardinality(N) : N \in Q}
<1>1. K \in SUBSET Nat /\ K # {}
  BY FS_CardinalityType
<1>2. PICK m \in K : \A k \in K : m <= k
  BY <1>1, LeastNumber
<1>3. QED
  BY <1>2

\* Without a member a finite set is smaller.
LEMMA OneLess ==
    ASSUME NEW N, IsFiniteSet(N), NEW x \in N
    PROVE  /\ IsFiniteSet(N \ {x}) /\ Cardinality(N \ {x}) \in Nat /\ Cardinality(N) \in Nat
           /\ Cardinality(N) = Cardinality(N \ {x}) + 1
<1>1. IsFiniteSet(N \ {x}) /\ Cardinality(N) \in Nat
  BY FS_Subset, FS_CardinalityType
<1>2. Cardinality(N \ {x}) \in Nat
  BY <1>1, FS_CardinalityType
<1>3. Cardinality(N \ {x}) = Cardinality(N) - 1
  BY FS_RemoveElement
<1>4. QED
  BY <1>1, <1>2, <1>3

\* The sum of the sums is the sum over the union.
LEMMA PartsSum ==
    ASSUME NEW O, NEW F, NEW N, Parts(F, N),
           NEW G, \A m \in N : G[m] = Sum(O, F[m])
    PROVE  Sum(G, N) = Sum(O, All(F, N)) /\ IsFiniteSet(All(F, N))
<1> DEFINE Fails(R) == ~(Sum(G, R) = Sum(O, All(F, R)) /\ IsFiniteSet(All(F, R)))
           Q == {R \in SUBSET N : Fails(R)}
<1>1. SUFFICES ASSUME Q # {}
               PROVE  FALSE
  OBVIOUS
<1>2. \A R \in Q : IsFiniteSet(R)
  BY FS_Subset DEF Parts
<1> HIDE DEF Q
<1>3. PICK R \in Q : \A T \in Q : Cardinality(R) <= Cardinality(T)
  BY <1>1, <1>2, FewestNodes
<1>4. R \subseteq N /\ IsFiniteSet(R) /\ Fails(R)
  BY <1>2 DEF Q
<1>5. R # {}
  <2>1. All(F, {}) = {} /\ Sum(G, {}) = {} /\ Sum(O, {}) = {} /\ IsFiniteSet({})
    <3>1. All(F, {}) = {} /\ IsFiniteSet({}) /\ Cardinality({}) = 0
      BY FS_EmptySet DEF All
    <3>2. \A i : Holders(G, {}, i) = {} /\ Holders(O, {}, i) = {}
      BY DEF Holders
    <3>a. ~(0 % 2 = 1)
      OBVIOUS
    <3>3. \A i \in Indexes : i \notin Sum(G, {}) /\ i \notin Sum(O, {})
      <4>1. \A i : Cardinality(Holders(G, {}, i)) = 0 /\ Cardinality(Holders(O, {}, i)) = 0
        BY <3>1, <3>2
      <4>2. \A i : ~(Cardinality(Holders(G, {}, i)) % 2 = 1) /\ ~(Cardinality(Holders(O, {}, i)) % 2 = 1)
        BY <3>a, <4>1
      <4>3. QED
        BY <4>2, SumHolds
    <3>4. QED
      BY <3>1, <3>3, SumHolds
  <2>2. QED
    BY <1>4, <2>1
<1>6. PICK x \in R : TRUE
  BY <1>5
<1> DEFINE T == R \ {x}
<1>7. IsFiniteSet(T) /\ Cardinality(T) \in Nat /\ Cardinality(R) = Cardinality(T) + 1 /\ T \subseteq N
  BY <1>4, OneLess
<1>8. ~Fails(T)
  <2> HIDE DEF T
  <2>1. T \notin Q
    BY <1>3, <1>7
  <2>2. QED
    BY <1>7, <2>1 DEF Q
<1>9. Parts(F, R)
  BY <1>4 DEF Parts
<1>10. /\ All(F, R) = All(F, T) \cup F[x] /\ All(F, T) \cap F[x] = {}
       /\ IsFiniteSet(F[x]) /\ IsFiniteSet(All(F, T))
  <2>1. IsFiniteSet(F[x])
    BY <1>4 DEF Parts
  <2>2. QED
    BY <1>8, <1>9, <2>1, PartsTaken
<1> HIDE DEF T
<1>11. IsFiniteSet(All(F, R))
  BY <1>10, FS_Union
<1>12. Sum(O, All(F, R)) = Merge(Sum(O, All(F, T)), Sum(O, F[x]))
  BY <1>10, SumOfBoth
<1>13. Sum(G, R) = Merge(Sum(G, T), G[x])
  <2>1. R = T \cup {x} /\ T \cap {x} = {} /\ IsFiniteSet({x})
    BY FS_Singleton DEF T
  <2>2. G[x] \subseteq Indexes
    BY <1>4, SumHolds
  <2>3. Sum(G, {x}) = G[x]
    BY <2>2, SumOfOne
  <2>4. QED
    BY <1>7, <2>1, <2>3, SumOfBoth
<1>14. G[x] = Sum(O, F[x])
  BY <1>4
<1>15. QED
  BY <1>4, <1>8, <1>11, <1>12, <1>13, <1>14

\* What Weight adds up: a function that is defined by its values on smaller sets, and the only
\* one that is.
Adds(f, c, N) == f = [S \in SUBSET N |->
                         IF S = {} THEN 0
                         ELSE c[CHOOSE x \in S : TRUE].size + f[S \ {CHOOSE x \in S : TRUE}]]

\* Weights that count the members of the parts, and a set X of nodes one more.
LEMMA PartsWeigh ==
    ASSUME NEW c, NEW F, NEW N, Parts(F, N), NEW X, X \subseteq N,
           \A m \in N : c[m].size = Cardinality(F[m]) + (IF m \in X THEN 1 ELSE 0)
    PROVE  Weight(c, N) = Cardinality(All(F, N)) + Cardinality(X)
<1> DEFINE g == [S \in SUBSET N |-> Cardinality(All(F, S)) + Cardinality(X \cap S)]
           pick(S) == CHOOSE x \in S : TRUE
<1>1. ASSUME NEW S \in SUBSET N
      PROVE  IsFiniteSet(S) /\ IsFiniteSet(All(F, S)) /\ IsFiniteSet(X \cap S) /\ Parts(F, S)
  <2>1. IsFiniteSet(S)
    BY FS_Subset DEF Parts
  <2>2. Parts(F, S)
    BY <2>1 DEF Parts
  <2>3. IsFiniteSet(X \cap S)
    BY <2>1, FS_Subset
  <2>4. IsFiniteSet(All(F, S))
    <3> DEFINE O == [e \in All(F, S) |-> {}]
               G == [m \in S |-> Sum(O, F[m])]
    <3>1. \A m \in S : G[m] = Sum(O, F[m])
      OBVIOUS
    <3> HIDE DEF O, G
    <3>2. QED
      BY <2>2, <3>1, PartsSum
  <2>5. QED
    BY <2>1, <2>2, <2>3, <2>4
<1>2. ASSUME NEW S \in SUBSET N, S # {}
      PROVE  /\ pick(S) \in S /\ S \ {pick(S)} \in SUBSET N
             /\ g[S] = c[pick(S)].size + g[S \ {pick(S)}]
  <2>1. pick(S) \in S
    BY <1>2
  <2> DEFINE x == pick(S)
             T == S \ {x}
  <2>2. T \in SUBSET N /\ x \in N
    BY <2>1
  <2> HIDE DEF x
  <2>3. x \in S
    BY <2>1 DEF x
  <2>4. /\ Parts(F, S) /\ IsFiniteSet(All(F, T)) /\ IsFiniteSet(X \cap T) /\ IsFiniteSet(X \cap S)
    BY <1>1, <2>2
  <2>5. All(F, S) = All(F, T) \cup F[x] /\ All(F, T) \cap F[x] = {} /\ IsFiniteSet(F[x])
    <3>1. IsFiniteSet(F[x])
      BY <2>2 DEF Parts
    <3>2. QED
      BY <2>3, <2>4, <3>1, PartsTaken
  <2>6. /\ Cardinality(All(F, S)) = Cardinality(All(F, T)) + Cardinality(F[x])
        /\ Cardinality(All(F, T)) \in Nat /\ Cardinality(F[x]) \in Nat
    <3>1. /\ Cardinality(All(F, T) \cup F[x])
                 = Cardinality(All(F, T)) + Cardinality(F[x]) - Cardinality(All(F, T) \cap F[x])
          /\ Cardinality(All(F, T)) \in Nat /\ Cardinality(F[x]) \in Nat /\ Cardinality({}) = 0
      BY <2>4, <2>5, FS_Union, FS_CardinalityType, FS_EmptySet
    <3> HIDE DEF T
    <3> DEFINE a == Cardinality(All(F, S))
               b == Cardinality(All(F, T))
               d == Cardinality(F[x])
    <3>2. a = b + d - 0 /\ b \in Nat /\ d \in Nat
      BY <2>5, <3>1
    <3>3. a = b + d /\ b \in Nat /\ d \in Nat
      <4> HIDE DEF a, b, d
      <4>1. QED
        BY <3>2
    <3>4. QED
      BY <3>3
  <2>7. /\ Cardinality(X \cap S) = Cardinality(X \cap T) + (IF x \in X THEN 1 ELSE 0)
        /\ Cardinality(X \cap T) \in Nat
    <3>1. CASE x \in X
      <4>1. X \cap T = (X \cap S) \ {x} /\ x \in X \cap S
        BY <2>3, <3>1
      <4>2. QED
        BY <2>4, <3>1, <4>1, OneLess
    <3>2. CASE x \notin X
      <4>1. X \cap T = X \cap S
        BY <3>2
      <4>2. Cardinality(X \cap T) \in Nat
        BY <2>4, FS_CardinalityType
      <4> HIDE DEF T
      <4> DEFINE a == Cardinality(X \cap S)
                 b == Cardinality(X \cap T)
      <4>3. a = b /\ b \in Nat
        BY <4>1, <4>2
      <4> HIDE DEF a, b
      <4>4. a = b + (IF x \in X THEN 1 ELSE 0)
        BY <3>2, <4>3
      <4>5. QED
        BY <4>3, <4>4 DEF a, b
    <3>3. QED
      BY <3>1, <3>2
  <2>8. c[x].size = Cardinality(F[x]) + (IF x \in X THEN 1 ELSE 0)
    BY <2>2
  <2>9. /\ g[S] = Cardinality(All(F, S)) + Cardinality(X \cap S)
        /\ g[T] = Cardinality(All(F, T)) + Cardinality(X \cap T)
    BY <2>2
  <2> HIDE DEF g, T
  <2>10. g[S] = c[x].size + g[T]
    BY <2>6, <2>7, <2>8, <2>9
  <2>11. QED
    BY <2>1, <2>2, <2>10 DEF x, T
<1>3. g[{}] = 0
  <2>1. All(F, {}) = {} /\ X \cap {} = {} /\ Cardinality({}) = 0
    BY FS_EmptySet DEF All
  <2>2. QED
    BY <2>1
<1>4. Adds(g, c, N)
  <2> DEFINE h == [S \in SUBSET N |->
                      IF S = {} THEN 0
                      ELSE c[pick(S)].size + g[S \ {pick(S)}]]
  <2>1. \A S \in SUBSET N : g[S] = h[S]
    <3>1. SUFFICES ASSUME NEW S \in SUBSET N
                   PROVE  g[S] = h[S]
      OBVIOUS
    <3>2. h[S] = IF S = {} THEN 0 ELSE c[pick(S)].size + g[S \ {pick(S)}]
      OBVIOUS
    <3> HIDE DEF g, h
    <3>3. QED
      BY <1>2, <1>3, <3>2
  <2>2. g = h
    <3>1. DOMAIN g = SUBSET N /\ DOMAIN h = SUBSET N /\ g = [S \in DOMAIN g |-> g[S]]
          /\ h = [S \in DOMAIN h |-> h[S]]
      OBVIOUS
    <3> HIDE DEF g, h
    <3>2. QED
      BY <2>1, <3>1
  <2> HIDE DEF g
  <2>3. QED
    BY <2>2 DEF Adds
<1>5. ASSUME NEW f, Adds(f, c, N)
      PROVE  f[N] = g[N]
  <2> DEFINE Q == {S \in SUBSET N : f[S] # g[S]}
  <2>0. \A S \in SUBSET N : f[S] = IF S = {} THEN 0 ELSE c[pick(S)].size + f[S \ {pick(S)}]
    <3> DEFINE h == [S \in SUBSET N |->
                        IF S = {} THEN 0 ELSE c[pick(S)].size + f[S \ {pick(S)}]]
    <3>1. f = h
      BY <1>5 DEF Adds
    <3>2. \A S \in SUBSET N : h[S] = IF S = {} THEN 0 ELSE c[pick(S)].size + f[S \ {pick(S)}]
      OBVIOUS
    <3> HIDE DEF h
    <3>3. QED
      BY <3>1, <3>2
  <2> HIDE DEF g
  <2>1. SUFFICES ASSUME Q # {}
                 PROVE  FALSE
    OBVIOUS
  <2>2. \A S \in Q : IsFiniteSet(S)
    BY <1>1
  <2> HIDE DEF Q
  <2>3. PICK S \in Q : \A T \in Q : Cardinality(S) <= Cardinality(T)
    BY <2>1, <2>2, FewestNodes
  <2>4. S \in SUBSET N /\ f[S] # g[S] /\ IsFiniteSet(S)
    BY <2>2 DEF Q
  <2>5. S # {}
    BY <1>3, <2>0, <2>4
  <2> DEFINE x == pick(S)
             T == S \ {x}
  <2>6. x \in S /\ T \in SUBSET N /\ g[S] = c[x].size + g[T]
    BY <1>2, <2>4, <2>5
  <2>7. f[S] = c[x].size + f[T]
    BY <2>0, <2>4, <2>5
  <2> HIDE DEF x
  <2>8. f[T] # g[T]
    BY <2>4, <2>6, <2>7
  <2>9. T \in Q
    BY <2>6, <2>8 DEF Q
  <2>10. Cardinality(T) \in Nat /\ Cardinality(S) = Cardinality(T) + 1
    BY <2>4, <2>6, OneLess
  <2>11. QED
    BY <2>3, <2>9, <2>10
<1> HIDE DEF g
<1>6. Weight(c, N) = (CHOOSE f : Adds(f, c, N))[N]
  BY DEF Weight, MapThenSumSet, MapThenFoldSet, Adds
<1>7. Adds(CHOOSE f : Adds(f, c, N), c, N)
  BY <1>4
<1>8. Weight(c, N) = g[N]
  BY <1>5, <1>6, <1>7
<1>9. X \cap N = X
  OBVIOUS
<1>10. QED
  BY <1>8, <1>9 DEF g

------------------------------------------------------------------------------
\* One cell

\* A cell, whose size is a number of any sign until it is shown to count something.
Cells == [agg : SUBSET Indexes, size : Int, buf : {b \in Seq(Indexes) : Len(b) < BufferCap}]
FullOf(x) == Merge(x.agg, Pending(x.buf))

\* A cell of a node that stands over the elements U, and over the boundary below if b.
Holds(x, O, U, b) == /\ x \in Cells /\ FullOf(x) = Sum(O, U)
                     /\ x.size = Cardinality(U) + (IF b THEN 1 ELSE 0)

\* One more waiting update.
LEMMA OneMoreWaits ==
    ASSUME NEW buf \in Seq(Indexes), NEW i \in Indexes
    PROVE  Pending(Append(buf, i)) = Merge(Pending(buf), {i})
<1> DEFINE At(j) == {k \in DOMAIN buf : buf[k] = j}
           new == Append(buf, i)
           m == Len(buf) + 1
<1>1. Len(buf) \in Nat /\ DOMAIN buf = 1 .. Len(buf) /\ m \notin 1 .. Len(buf)
  BY LenProperties
<1>2. /\ DOMAIN new = (1 .. Len(buf)) \cup {m} /\ new[m] = i
      /\ \A k \in 1 .. Len(buf) : new[k] = buf[k]
  BY <1>1, AppendProperties
<1> HIDE DEF new, m
<1>3. \A j : {k \in DOMAIN new : new[k] = j} = IF i = j THEN At(j) \cup {m} ELSE At(j)
  BY <1>1, <1>2
<1>4. \A j : IsFiniteSet(At(j)) /\ m \notin At(j)
  <2>1. IsFiniteSet(1 .. Len(buf))
    BY <1>1, FS_Interval
  <2>2. \A j : At(j) \subseteq 1 .. Len(buf)
    BY <1>1
  <2>3. QED
    BY <1>1, <2>1, <2>2, FS_Subset
<1> HIDE DEF At
<1>5. \A j : Occurs(j, new) = IF i = j THEN Cardinality(At(j) \cup {m}) ELSE Cardinality(At(j))
  BY <1>3 DEF Occurs
<1>6. \A j : Occurs(j, buf) = Cardinality(At(j)) /\ Occurs(j, buf) \in Nat
  BY <1>4, FS_CardinalityType DEF Occurs, At
<1>7. \A j : Cardinality(At(j) \cup {m}) = Cardinality(At(j)) + 1
  BY <1>4, FS_AddElement
<1>8. \A j : Occurs(j, new) = IF i = j THEN Occurs(j, buf) + 1 ELSE Occurs(j, buf)
  BY <1>5, <1>6, <1>7
<1>9. Occurs(i, new) % 2 = 1 <=> ~(Occurs(i, buf) % 2 = 1)
  <2>1. 1 % 2 = 1 /\ 1 \in Nat
    OBVIOUS
  <2>2. QED
    BY <1>6, <1>8, <2>1, Parity
<1>10. QED
  BY <1>8, <1>9 DEF Pending, Merge, new

\* Nothing waits in an empty buffer.
LEMMA NoneWaits ==
    /\ Pending(<<>>) = {} /\ <<>> \in {b \in Seq(Indexes) : Len(b) < BufferCap}
    /\ \A buf : Pending(buf) \subseteq Indexes
<1>1. \A i : {k \in DOMAIN <<>> : <<>>[k] = i} = {}
  OBVIOUS
<1>2. \A i : Occurs(i, <<>>) = 0
  BY <1>1, FS_EmptySet DEF Occurs
<1>3. ~(0 % 2 = 1)
  OBVIOUS
<1>4. QED
  BY <1>2, <1>3, SkipListAssumption DEF Pending

LEMMA CellFull ==
    ASSUME NEW x \in Cells
    PROVE  /\ FullOf(x) \subseteq Indexes /\ x.agg \subseteq Indexes /\ x.size \in Int
           /\ x.buf \in Seq(Indexes) /\ Len(x.buf) < BufferCap
           /\ Pending(x.buf) \subseteq Indexes
  BY NoneWaits DEF FullOf, Cells, Merge

\* A cell with another sketch and size.
Changed(x, A, z) == [x EXCEPT !.agg = A, !.size = z]
LEMMA CellChanged ==
    ASSUME NEW x \in Cells, NEW A \in SUBSET Indexes, NEW z \in Int
    PROVE  /\ Changed(x, A, z) \in Cells /\ Changed(x, A, z).agg = A
           /\ Changed(x, A, z).size = z /\ Changed(x, A, z).buf = x.buf
<1> DEFINE B == {b \in Seq(Indexes) : Len(b) < BufferCap}
           y == [x EXCEPT !.agg = A]
<1> HIDE DEF B
<1>1. x \in [agg : SUBSET Indexes, size : Int, buf : B]
  BY DEF Cells, B
<1>2. y \in [agg : SUBSET Indexes, size : Int, buf : B] /\ y.agg = A /\ y.buf = x.buf
  BY <1>1
<1> HIDE DEF y
<1> DEFINE w == [y EXCEPT !.size = z]
<1>3. /\ w \in [agg : SUBSET Indexes, size : Int, buf : B]
      /\ w.agg = A /\ w.size = z /\ w.buf = x.buf
  BY <1>2
<1>4. w = Changed(x, A, z)
  BY DEF y, Changed
<1> HIDE DEF w
<1>5. QED
  BY <1>3, <1>4 DEF Cells, B

\* What adding, taking away, applying the buffer and updating make of a cell.
LEMMA CellPlus ==
    ASSUME NEW x \in Cells, NEW g, g.agg \subseteq Indexes, g.size \in Int
    PROVE  /\ Plus(x, g) \in Cells /\ Plus(x, g).size = x.size + g.size
           /\ FullOf(Plus(x, g)) = Merge(FullOf(x), g.agg)
<1>1. /\ Plus(x, g).agg = Merge(x.agg, g.agg) /\ Plus(x, g).size = x.size + g.size
      /\ Plus(x, g).buf = x.buf /\ Plus(x, g) \in Cells
  <2>1. Merge(x.agg, g.agg) \in SUBSET Indexes /\ x.size + g.size \in Int
    BY CellFull DEF Merge
  <2>2. Plus(x, g) = Changed(x, Merge(x.agg, g.agg), x.size + g.size)
    BY DEF Plus, Changed
  <2>3. QED
    BY <2>1, <2>2, CellChanged
<1>2. QED
  BY <1>1, MergeIs DEF FullOf
LEMMA CellMinus ==
    ASSUME NEW x \in Cells, NEW g, g.agg \subseteq Indexes, g.size \in Int
    PROVE  /\ Minus(x, g) \in Cells /\ Minus(x, g).size = x.size - g.size
           /\ FullOf(Minus(x, g)) = Merge(FullOf(x), g.agg)
<1>1. /\ Minus(x, g).agg = Merge(x.agg, g.agg) /\ Minus(x, g).size = x.size - g.size
      /\ Minus(x, g).buf = x.buf /\ Minus(x, g) \in Cells
  <2>1. Merge(x.agg, g.agg) \in SUBSET Indexes /\ x.size - g.size \in Int
    BY CellFull DEF Merge
  <2>2. Minus(x, g) = Changed(x, Merge(x.agg, g.agg), x.size - g.size)
    BY DEF Minus, Changed
  <2>3. QED
    BY <2>1, <2>2, CellChanged
<1>2. QED
  BY <1>1, MergeIs DEF FullOf
LEMMA CellFlushed ==
    ASSUME NEW x \in [agg : SUBSET Indexes, size : Int, buf : Seq(Indexes)]
    PROVE  Flushed(x) \in Cells /\ Flushed(x).size = x.size /\ FullOf(Flushed(x)) = FullOf(x)
<1>1. /\ Flushed(x).agg = Merge(x.agg, Pending(x.buf)) /\ Flushed(x).size = x.size
      /\ Flushed(x).buf = <<>> /\ Flushed(x) \in Cells
  <2>1. Merge(x.agg, Pending(x.buf)) \subseteq Indexes
    BY NoneWaits DEF Merge
  <2>2. QED
    BY <2>1, NoneWaits DEF Flushed, Cells
<1>2. FullOf(Flushed(x)) = Merge(Merge(x.agg, Pending(x.buf)), {})
  BY <1>1, NoneWaits DEF FullOf
<1>3. FullOf(Flushed(x)) = FullOf(x)
  BY <1>2, MergeIs DEF FullOf
<1>4. QED
  BY <1>1, <1>3
LEMMA CellUpdated ==
    ASSUME NEW x \in Cells, NEW i \in Indexes
    PROVE  /\ Updated(x, i) \in Cells /\ Updated(x, i).size = x.size
           /\ FullOf(Updated(x, i)) = Merge(FullOf(x), {i})
<1> DEFINE d == [x EXCEPT !.buf = Append(@, i)]
<1>1. /\ x.buf \in Seq(Indexes) /\ Len(x.buf) < BufferCap /\ Len(x.buf) \in Nat
      /\ x.agg \subseteq Indexes /\ x.size \in Int /\ BufferCap \in Nat
  BY SkipListAssumption, LenProperties DEF Cells
<1>2. Append(x.buf, i) \in Seq(Indexes) /\ Len(Append(x.buf, i)) = Len(x.buf) + 1
  BY <1>1, AppendProperties
<1>3. /\ d.agg = x.agg /\ d.size = x.size /\ d.buf = Append(x.buf, i)
      /\ d \in [agg : SUBSET Indexes, size : Int, buf : Seq(Indexes)]
  BY <1>1, <1>2 DEF Cells
<1>4. Updated(x, i) = IF Len(d.buf) = BufferCap THEN Flushed(d) ELSE d
  BY DEF Updated
<1> HIDE DEF d
<1>5. FullOf(d) = Merge(FullOf(x), {i})
  BY <1>1, <1>3, OneMoreWaits, MergeIs DEF FullOf
<1>6. CASE Len(d.buf) = BufferCap
  BY <1>3, <1>4, <1>5, <1>6, CellFlushed
<1>7. CASE Len(d.buf) # BufferCap
  <2>1. Len(d.buf) < BufferCap
    BY <1>1, <1>2, <1>3, <1>7
  <2>2. d \in Cells
    BY <1>3, <2>1 DEF Cells
  <2>3. QED
    BY <1>3, <1>4, <1>5, <1>7, <2>2
<1>8. QED
  BY <1>6, <1>7

\* A cell that gains, or loses, what a set of other elements has.
LEMMA HoldsMore ==
    ASSUME NEW x, NEW O, NEW U, NEW b, Holds(x, O, U, b), IsFiniteSet(U),
           NEW V, IsFiniteSet(V), U \cap V = {},
           NEW g, g.agg = Sum(O, V), g.size = Cardinality(V)
    PROVE  Holds(Plus(x, g), O, U \cup V, b)
<1>1. /\ Cardinality(U \cup V) = Cardinality(U) + Cardinality(V) - Cardinality(U \cap V)
      /\ Cardinality(U \cap V) = 0 /\ Cardinality(U) \in Nat /\ Cardinality(V) \in Nat
  BY FS_Union, FS_EmptySet, FS_CardinalityType
<1> DEFINE cu == Cardinality(U)
           cv == Cardinality(V)
           cuv == Cardinality(U \cup V)
           one == IF b THEN 1 ELSE 0
<1>2. cuv = cu + cv - 0 /\ cu \in Nat /\ cv \in Nat /\ one \in Nat
  BY <1>1
<1>3. x \in Cells /\ FullOf(x) = Sum(O, U) /\ x.size = cu + one
  BY DEF Holds
<1>4. g.agg \subseteq Indexes /\ g.size \in Int /\ g.size = cv
  BY <1>1, SumHolds
<1>5. Plus(x, g) \in Cells /\ Plus(x, g).size = x.size + g.size /\ FullOf(Plus(x, g)) = Merge(FullOf(x), g.agg)
  BY <1>3, <1>4, CellPlus
<1>6. FullOf(Plus(x, g)) = Sum(O, U \cup V)
  BY <1>3, <1>5, SumOfBoth
<1> HIDE DEF cu, cv, cuv, one
<1>7. Plus(x, g).size = cuv + one
  BY <1>2, <1>3, <1>4, <1>5
<1>8. QED
  BY <1>5, <1>6, <1>7 DEF Holds, cuv, one

LEMMA HoldsLess ==
    ASSUME NEW x, NEW O, NEW U, NEW b, NEW V, Holds(x, O, U \cup V, b), IsFiniteSet(U),
           IsFiniteSet(V), U \cap V = {},
           NEW g, g.agg = Sum(O, V), g.size = Cardinality(V)
    PROVE  Holds(Minus(x, g), O, U, b)
<1>1. /\ Cardinality(U \cup V) = Cardinality(U) + Cardinality(V) - Cardinality(U \cap V)
      /\ Cardinality(U \cap V) = 0 /\ Cardinality(U) \in Nat /\ Cardinality(V) \in Nat
  BY FS_Union, FS_EmptySet, FS_CardinalityType
<1> DEFINE cu == Cardinality(U)
           cv == Cardinality(V)
           cuv == Cardinality(U \cup V)
           one == IF b THEN 1 ELSE 0
<1>2. cuv = cu + cv - 0 /\ cu \in Nat /\ cv \in Nat /\ one \in Nat
  BY <1>1
<1>3. x \in Cells /\ FullOf(x) = Sum(O, U \cup V) /\ x.size = cuv + one
  BY DEF Holds
<1>4. g.agg \subseteq Indexes /\ g.size \in Int /\ g.size = cv
  BY <1>1, SumHolds
<1>5. /\ Minus(x, g) \in Cells /\ Minus(x, g).size = x.size - g.size
      /\ FullOf(Minus(x, g)) = Merge(FullOf(x), g.agg)
  BY <1>3, <1>4, CellMinus
<1>6. FullOf(Minus(x, g)) = Sum(O, U)
  <2>1. Sum(O, U \cup V) = Merge(Sum(O, U), Sum(O, V))
    BY SumOfBoth
  <2>2. QED
    BY <1>3, <1>5, <2>1, MergeIs
<1> HIDE DEF cu, cv, cuv, one
<1>7. Minus(x, g).size = cu + one
  BY <1>2, <1>3, <1>4, <1>5
<1>8. QED
  BY <1>5, <1>6, <1>7 DEF Holds, cu, one

LEMMA HoldsFlushed ==
    ASSUME NEW x, NEW O, NEW U, NEW b, Holds(x, O, U, b)
    PROVE  Holds(Flushed(x), O, U, b)
<1>1. x \in [agg : SUBSET Indexes, size : Int, buf : Seq(Indexes)]
  BY DEF Holds, Cells
<1>2. QED
  BY <1>1, CellFlushed DEF Holds

\* A cell above an element that is updated, or gains a sketch, and any other.
LEMMA HoldsUpdated ==
    ASSUME NEW x, NEW O, NEW U, NEW b, Holds(x, O, U, b), IsFiniteSet(U),
           NEW R, NEW e, NEW i \in Indexes, O[e] \subseteq Indexes,
           R[e] = Merge(O[e], {i}), \A d \in U : d # e => R[d] = O[d]
    PROVE  Holds(IF e \in U THEN Updated(x, i) ELSE x, R, U, b)
<1>1. Sum(R, U) = IF e \in U THEN Merge(Sum(O, U), {i}) ELSE Sum(O, U)
  <2> DEFINE D == {i}
  <2>1. D \subseteq Indexes /\ R[e] = Merge(O[e], D)
    OBVIOUS
  <2> HIDE DEF D
  <2>2. Sum(R, U) = IF e \in U THEN Merge(Sum(O, U), D) ELSE Sum(O, U)
    BY <2>1, SumToggled
  <2>3. QED
    BY <2>2 DEF D
<1>2. x \in Cells /\ FullOf(x) = Sum(O, U)
  BY DEF Holds
<1>3. QED
  BY <1>1, <1>2, CellUpdated DEF Holds
LEMMA HoldsGiven ==
    ASSUME NEW x, NEW O, NEW U, NEW b, Holds(x, O, U, b), IsFiniteSet(U),
           NEW R, NEW e, NEW D, D \subseteq Indexes, O[e] \subseteq Indexes,
           R[e] = Merge(O[e], D), \A d \in U : d # e => R[d] = O[d]
    PROVE  Holds(IF e \in U THEN Plus(x, [agg |-> D, size |-> 0]) ELSE x, R, U, b)
<1> DEFINE g == [agg |-> D, size |-> 0]
<1>1. Sum(R, U) = IF e \in U THEN Merge(Sum(O, U), D) ELSE Sum(O, U)
  BY SumToggled
<1>2. x \in Cells /\ FullOf(x) = Sum(O, U) /\ x.size \in Int
  BY DEF Holds, Cells
<1>3. g.agg = D /\ g.size = 0
  OBVIOUS
<1> HIDE DEF g
<1>4. Plus(x, g) \in Cells /\ Plus(x, g).size = x.size /\ FullOf(Plus(x, g)) = Merge(FullOf(x), D)
  BY <1>2, <1>3, CellPlus
<1>5. Holds(IF e \in U THEN Plus(x, g) ELSE x, R, U, b)
  BY <1>1, <1>2, <1>4 DEF Holds
<1>6. QED
  BY <1>5 DEF g
LEMMA HoldsStill ==
    ASSUME NEW x, NEW O, NEW U, NEW b, Holds(x, O, U, b), NEW R, \A d \in U : R[d] = O[d]
    PROVE  Holds(x, R, U, b)
  BY SumSame DEF Holds

------------------------------------------------------------------------------
\* Ways up, and the boundary of a right list

\* The list of an element, and the nodes on the way up from it: those that stand over it.
LEMMA ListOfIs ==
    ASSUME ListsInv, NEW s \in lists, NEW e \in Listed(s)
    PROVE  ListOf(e) = s
<1>1. \A t \in lists : e \in Listed(t) => t = s
  BY DEF ListsInv, Ordered
<1>2. QED
  BY <1>1 DEF ListOf

LEMMA PathNodesAre ==
    ASSUME ListsInv, NEW s \in lists, NEW p \in 1 .. Len(s)
    PROVE  /\ PathNodes(s[p]) = {n \in AllNodes(s) : n = Cover(s, p, n.level)}
           /\ PathNodes(s[p]) = {n \in AllNodes(s) : s[p] \in Under(s, n)}
           /\ DOMAIN Path(s[p], s) = 1 .. Tallest(s) + 1
           /\ \A k \in 1 .. Tallest(s) + 1 : Path(s[p], s)[k] = Cover(s, p, k)
<1>1. Proper(s) /\ Pointers(parent, s)
  BY DEF ListsInv, Ordered
<1>2. /\ DOMAIN Path(s[p], s) = 1 .. Tallest(s) + 1
      /\ \A k \in 1 .. Tallest(s) + 1 : Path(s[p], s)[k] = Cover(s, p, k)
  BY <1>1, PathIs
<1>3. ListOf(s[p]) = s
  BY <1>1, ListOfIs, ProperList
<1>4. PathNodes(s[p]) = {Cover(s, p, k) : k \in 1 .. Tallest(s) + 1}
  BY <1>2, <1>3 DEF PathNodes
<1>5. p \in 0 .. Len(s)
  BY <1>1, ProperList
<1>6. \A k \in 1 .. Tallest(s) + 1 : Cover(s, p, k) \in AllNodes(s) /\ Cover(s, p, k).level = k
  BY <1>1, <1>5, CoverNode
<1>7. \A n \in AllNodes(s) : n.level \in 1 .. Tallest(s) + 1
  BY <1>1, RootIs
<1>8. PathNodes(s[p]) = {n \in AllNodes(s) : n = Cover(s, p, n.level)}
  BY <1>4, <1>6, <1>7
<1>9. \A n \in AllNodes(s) : s[p] \in Under(s, n) <=> n = Cover(s, p, n.level)
  BY <1>1, UnderIs
<1>10. QED
  BY <1>2, <1>8, <1>9

\* Two ways up of a list are one from where they meet.
LEMMA WaysMeet ==
    ASSUME NEW s, Proper(s), NEW p \in 0 .. Len(s), NEW q \in 0 .. Len(s),
           NEW k \in Nat \ {0}, NEW j \in Nat, j >= k, Cover(s, p, k) = Cover(s, q, k)
    PROVE  Cover(s, p, j) = Cover(s, q, j)
<1>1. Stand(s, p, k) \in 0 .. Len(s) /\ Stand(s, q, k) \in 0 .. Len(s)
  BY StandIs
<1>2. Stand(s, p, k) = Stand(s, q, k)
  BY <1>1, NamedApart DEF Cover
<1>3. QED
  BY <1>2, CoverUp

\* update_sketches() reaches the nodes on one way that are not on the other.
LEMMA LockStepIs ==
    ASSUME ListsInv, NEW e \in Live, NEW f \in Live
    PROVE  LockStep(e, f) = PathNodes(e) \ PathNodes(f)
<1>1. PICK s \in lists : e \in Listed(s)
  BY DEF Live
<1>2. PICK t \in lists : f \in Listed(t)
  BY DEF Live
<1>3. Proper(s) /\ Proper(t)
  BY DEF ListsInv, Ordered
<1>4. PICK p \in 1 .. Len(s) : e = s[p]
  BY <1>1, <1>3, ProperList
<1>5. PICK q \in 1 .. Len(t) : f = t[q]
  BY <1>2, <1>3, ProperList
<1>6. ListOf(e) = s /\ ListOf(f) = t
  BY <1>1, <1>2, ListOfIs
<1> DEFINE mine == Path(e, s)
           other == Path(f, t)
<1>7. /\ DOMAIN mine = 1 .. Tallest(s) + 1
      /\ \A k \in 1 .. Tallest(s) + 1 : mine[k] = Cover(s, p, k)
      /\ DOMAIN other = 1 .. Tallest(t) + 1
      /\ \A k \in 1 .. Tallest(t) + 1 : other[k] = Cover(t, q, k)
  BY <1>4, <1>5, PathNodesAre
<1>8. /\ PathNodes(e) = {mine[k] : k \in DOMAIN mine}
      /\ PathNodes(f) = {other[k] : k \in DOMAIN other}
  BY <1>6, <1>7 DEF PathNodes
<1>9. /\ p \in 0 .. Len(s) /\ q \in 0 .. Len(t) /\ Tallest(s) \in Nat /\ Tallest(t) \in Nat
  BY <1>3, ProperList, TallestIs
<1>10. /\ \A k \in DOMAIN mine : mine[k].level = k /\ mine[k] \in AllNodes(s)
       /\ \A k \in DOMAIN other : other[k].level = k /\ other[k] \in AllNodes(t)
  BY <1>3, <1>7, <1>9, CoverNode
<1>11. LockStep(e, f) = {mine[k] : k \in {k \in DOMAIN mine :
                             \A j \in 1 .. k : j \in DOMAIN other => mine[j] # other[j]}}
  BY <1>6 DEF LockStep
<1>12. ASSUME NEW k \in DOMAIN mine, NEW j \in 1 .. k, j \in DOMAIN other, mine[j] = other[j]
       PROVE  k \in DOMAIN other /\ mine[k] = other[k]
  <2>1. s = t
    <3>1. mine[j] \in AllNodes(s) /\ mine[j] \in AllNodes(t)
      BY <1>7, <1>9, <1>10, <1>12
    <3>2. s # t => Listed(s) \cap Listed(t) = {}
      BY DEF ListsInv, Ordered
    <3>3. QED
      BY <1>3, <3>1, <3>2, NodesApart
  <2>2. /\ k \in 1 .. Tallest(s) + 1 /\ j \in 1 .. Tallest(s) + 1 /\ j \in Nat \ {0}
        /\ k \in Nat /\ k >= j
    BY <1>7, <1>9, <1>12
  <2>3. Cover(s, p, j) = Cover(s, q, j)
    BY <1>7, <1>12, <2>1, <2>2
  <2>4. Cover(s, p, k) = Cover(s, q, k)
    BY <1>3, <1>9, <2>1, <2>2, <2>3, WaysMeet
  <2>5. QED
    BY <1>7, <2>1, <2>2, <2>4
<1> HIDE DEF mine, other
<1>13. ASSUME NEW k \in DOMAIN mine
       PROVE  (\A j \in 1 .. k : j \in DOMAIN other => mine[j] # other[j])
                  <=> mine[k] \notin PathNodes(f)
  <2>1. ASSUME mine[k] \in PathNodes(f)
        PROVE  \E j \in 1 .. k : j \in DOMAIN other /\ mine[j] = other[j]
    <3>1. PICK j \in DOMAIN other : mine[k] = other[j]
      BY <1>8, <2>1
    <3>2. j = k
      BY <1>10, <3>1
    <3>3. k \in 1 .. k
      BY <1>7, <1>9
    <3>4. QED
      BY <3>1, <3>2, <3>3
  <2>2. ASSUME NEW j \in 1 .. k, j \in DOMAIN other, mine[j] = other[j]
        PROVE  mine[k] \in PathNodes(f)
    BY <1>8, <1>12, <2>2
  <2>3. QED
    BY <2>1, <2>2
<1>14. QED
  BY <1>8, <1>11, <1>13

\* The nodes below a boundary node: the boundary node there, and leading nodes.
LEMMA BoundaryKids ==
    ASSUME NEW s, Proper(s), NEW k \in 1 .. Tallest(s) + 1, k # 1
    PROVE  /\ Bdry(s[1], k) \in AllNodes(s) /\ Bdry(s[1], k).level = k
           /\ Kids(s, Bdry(s[1], k)) = {Bdry(s[1], k - 1)} \cup {n \in Leading(s) : n.level = k - 1}
<1>1. /\ Len(s) \in Nat /\ Tallest(s) \in Nat /\ k \in Nat /\ k - 1 \in 1 .. Tallest(s)
      /\ k - 1 \in 1 .. Tallest(s) + 1 /\ (k - 1) + 1 = k /\ k - 1 # Tallest(s) + 1 /\ 0 \in 0 .. Len(s)
      /\ k \in Nat \ {0}
  BY ProperList, TallestIs
<1> DEFINE b == Bdry(s[1], k)
           c == Bdry(s[1], k - 1)
<1>2. b.level = k /\ b.bdry /\ c.level = k - 1 /\ c.bdry /\ b # NoNode
  <2>1. b.level = k /\ b.bdry /\ c.level = k - 1 /\ c.bdry /\ NoNode.level = 0
    BY NodeNames
  <2>2. QED
    BY <1>1, <2>1
<1>3. b \in Boundary(s) /\ c \in Boundary(s)
  BY <1>1 DEF Boundary
<1>4. b \in AllNodes(s) /\ c \in AllNodes(s)
  BY <1>3, NodesBelong
<1>5. c # Root(s)
  BY <1>1, <1>2, <1>4, RootIs
<1>6. c \in Kids(s, b)
  <2>1. Nearest(s, c) = Above(s, c)
    BY <1>3, BoundaryNearest
  <2>2. Above(s, c) = b
    BY <1>1, <1>2, <1>5 DEF Above
  <2>3. QED
    BY <1>4, <2>1, <2>2 DEF Kids
<1>7. \A m \in Kids(s, b) : m.level = k - 1
  BY <1>1, <1>2, <1>4, UnderKids
<1>8. ASSUME NEW m \in Kids(s, b), m # c
      PROVE  m \in Leading(s)
  <2>1. m \in AllNodes(s) /\ Nearest(s, m) = b /\ m.level = k - 1
    BY <1>7 DEF Kids
  <2>2. PICK q, j : NodeAt(s, q, j) /\ m = Named(s, q, j)
    BY <2>1, NodesAre
  <2>3. q \in 0 .. Len(s) /\ j = k - 1 /\ NodeAt(s, q, k - 1) /\ m = Named(s, q, k - 1)
    <3>1. q \in 0 .. Len(s)
      BY <2>2 DEF NodeAt
    <3>2. m.level = j
      BY <2>2, <3>1, NamedApart
    <3>3. QED
      BY <2>1, <2>2, <3>1, <3>2
  <2>4. q # 0
    BY <1>8, <2>3 DEF Named
  <2>5. m # Root(s)
    BY <1>1, <2>1, RootIs
  <2>6. Cover(s, q, k) = b
    BY <1>1, <2>1, <2>3, <2>5, NearestIs
  <2>7. Stand(s, q, k) = 0
    <3>1. Stand(s, q, k) \in 0 .. Len(s)
      BY <1>1, <2>3, StandIs
    <3>2. Cover(s, q, k).bdry
      BY <1>2, <2>6
    <3>3. QED
      BY <1>1, <3>1, <3>2, NamedApart DEF Cover
  <2>8. QED
    BY <1>1, <2>3, <2>4, <2>7, LeadingIs
<1>9. ASSUME NEW m \in Leading(s), m.level = k - 1
      PROVE  m \in Kids(s, b)
  <2>1. m \in ListNodes(s) /\ m \in AllNodes(s) /\ ~m.bdry
    BY LeadingListed, NodesBelong
  <2>2. PICK q, j : NodeAt(s, q, j) /\ m = Named(s, q, j)
    BY <2>1, NodesAre
  <2>3. q \in 0 .. Len(s) /\ q # 0 /\ NodeAt(s, q, k - 1) /\ m = Named(s, q, k - 1)
    <3>1. q \in 0 .. Len(s)
      BY <2>2 DEF NodeAt
    <3>2. m.level = j /\ (m.bdry <=> q = 0)
      BY <2>2, <3>1, NamedApart
    <3>3. QED
      BY <1>9, <2>1, <2>2, <3>1, <3>2
  <2>4. Stand(s, q, k) = 0
    BY <1>1, <1>9, <2>3, LeadingIs
  <2>5. Cover(s, q, k) = b
    BY <2>4 DEF Cover, Named
  <2>6. m # Root(s)
    BY <2>1, RootIs
  <2>7. Nearest(s, m) = b
    BY <1>1, <2>3, <2>5, <2>6, NearestIs
  <2>8. QED
    BY <2>1, <2>7 DEF Kids
<1>10. QED
  BY <1>2, <1>4, <1>6, <1>7, <1>8, <1>9

\* What split_left adds on one level of the boundary of the right list.
Passed(s, k) == {n \in Leading(s) : n.level = k - 1}

LEMMA PassedAdd ==
    ASSUME NEW s, Proper(s), NEW c, NEW O, NEW k \in 1 .. Tallest(s) + 1, k # 1,
           NEW full, \A n \in Passed(s, k) : full[n] = FullOf(c[n]),
           \A n \in Leading(s) : Holds(c[n], O, Under(s, n), FALSE)
    PROVE  /\ Sum(O, Before(s, k)) = Merge(Sum(O, Before(s, k - 1)), Sum(full, Passed(s, k)))
           /\ Cardinality(Before(s, k)) \in Nat /\ Cardinality(Before(s, k - 1)) \in Nat
           /\ Weight(c, Passed(s, k)) \in Nat
           /\ Cardinality(Before(s, k)) = Cardinality(Before(s, k - 1)) + Weight(c, Passed(s, k))
<1> DEFINE b == Bdry(s[1], k)
           d == Bdry(s[1], k - 1)
           N == Passed(s, k)
           F == [n \in N |-> Under(s, n)]
<1>1. /\ Tallest(s) \in Nat /\ k \in Nat \ {0} /\ k - 1 \in Nat \ {0} /\ k <= Tallest(s) + 1
      /\ k - 1 < Tallest(s) + 1 /\ k - 1 \in 1 .. Tallest(s) + 1
  BY TallestIs
<1>2. /\ b \in AllNodes(s) /\ b.level = k /\ Kids(s, b) = {d} \cup N
  BY BoundaryKids DEF Passed
<1>3. Before(s, k) = Under(s, b)
  <2>1. (IF k < Tallest(s) + 1 THEN k ELSE Tallest(s) + 1) = k
    BY <1>1
  <2>2. QED
    BY <1>1, <2>1, BeforeIs
<1>4. Before(s, k - 1) = Under(s, d)
  <2>1. (IF k - 1 < Tallest(s) + 1 THEN k - 1 ELSE Tallest(s) + 1) = k - 1
    BY <1>1
  <2>2. QED
    BY <1>1, <2>1, BeforeIs
<1>5. \A n \in N : n \in ListNodes(s) /\ n \in AllNodes(s) /\ ~n.bdry /\ n \in Leading(s)
  BY LeadingListed, NodesBelong DEF Passed
<1>6. d \notin N
  BY <1>5, NodeNames
<1> HIDE DEF b, d, N
<1>7. /\ \A m \in Kids(s, b) : Under(s, m) \subseteq Under(s, b)
      /\ \A e \in Under(s, b) : \E m \in Kids(s, b) : e \in Under(s, m)
      /\ \A m, r \in Kids(s, b) : m # r => Under(s, m) \cap Under(s, r) = {}
  <2>1. b.level # 1
    BY <1>2
  <2>2. QED
    BY <1>2, <2>1, UnderKids
<1>8. IsFiniteSet(N)
  <2>1. IsFiniteSet(Listed(s))
    BY ListedCount
  <2> DEFINE f == [n \in N |-> n.elem]
  <2>2. f \in Injection(N, Listed(s))
    <3>1. \A n \in N : n.elem \in Listed(s)
      BY <1>5, NodesBelong
    <3>2. \A n, m \in N : n.elem = m.elem => n = m
      <4>1. \A n \in N : n = Elem(n.elem, k - 1)
        <5>1. SUFFICES ASSUME NEW n \in N
                       PROVE  n = Elem(n.elem, k - 1)
          OBVIOUS
        <5>2. n \in ListNodes(s) /\ n.level = k - 1
          BY <1>5 DEF N, Passed
        <5>3. PICK e \in Listed(s) : \E j \in 1 .. Height[e] : n = Elem(e, j)
          BY <5>2 DEF ListNodes
        <5>4. QED
          BY <5>2, <5>3, NodeNames
      <4>2. QED
        BY <4>1
    <3>3. QED
      BY <3>1, <3>2 DEF Injection, IsInjective
  <2> HIDE DEF f
  <2>3. QED
    BY <2>1, <2>2, FS_Injection
<1>9. Parts(F, N)
  <2>1. \A n \in N : F[n] = Under(s, n) /\ n \in Kids(s, b) /\ IsFiniteSet(Under(s, n))
    BY <1>2, UnderIs
  <2>2. QED
    BY <1>7, <1>8, <2>1 DEF Parts
<1>10. /\ Under(s, b) = Under(s, d) \cup All(F, N) /\ Under(s, d) \cap All(F, N) = {}
  <2>1. \A n \in N : F[n] = Under(s, n)
    OBVIOUS
  <2> HIDE DEF F
  <2>2. QED
    BY <1>2, <1>6, <1>7, <2>1 DEF All
<1>11. \A n \in N : /\ full[n] = Sum(O, F[n])
                    /\ c[n].size = Cardinality(F[n]) + (IF n \in {} THEN 1 ELSE 0)
  <2>1. SUFFICES ASSUME NEW n \in N
                 PROVE  /\ full[n] = Sum(O, F[n])
                        /\ c[n].size = Cardinality(F[n]) + (IF n \in {} THEN 1 ELSE 0)
    OBVIOUS
  <2>2. Holds(c[n], O, Under(s, n), FALSE) /\ F[n] = Under(s, n) /\ full[n] = FullOf(c[n])
    BY <1>5 DEF N
  <2>3. QED
    BY <2>2 DEF Holds
<1> HIDE DEF F
<1>12. Sum(full, N) = Sum(O, All(F, N)) /\ IsFiniteSet(All(F, N))
  BY <1>9, <1>11, PartsSum
<1>13. Weight(c, N) = Cardinality(All(F, N)) /\ Cardinality(All(F, N)) \in Nat
  <2> DEFINE X == {}
  <2>1. X \subseteq N /\ Cardinality(X) = 0
    BY FS_EmptySet
  <2>2. \A n \in N : c[n].size = Cardinality(F[n]) + (IF n \in X THEN 1 ELSE 0)
    BY <1>11
  <2> HIDE DEF X
  <2>3. Weight(c, N) = Cardinality(All(F, N)) + Cardinality(X)
    BY <1>9, <2>1, <2>2, PartsWeigh
  <2>4. Cardinality(All(F, N)) \in Nat
    BY <1>12, FS_CardinalityType
  <2>5. QED
    BY <2>1, <2>3, <2>4
<1>14. IsFiniteSet(Under(s, d)) /\ IsFiniteSet(Under(s, b))
  BY UnderIs
<1>15. Sum(O, Under(s, b)) = Merge(Sum(O, Under(s, d)), Sum(full, N))
  BY <1>10, <1>12, <1>14, SumOfBoth
<1>16. /\ Cardinality(Under(s, b)) = Cardinality(Under(s, d)) + Weight(c, N)
       /\ Cardinality(Under(s, b)) \in Nat /\ Cardinality(Under(s, d)) \in Nat
  <2> DEFINE V == All(F, N)
             W == Under(s, d)
  <2>1. /\ Cardinality(W \cup V) = Cardinality(W) + Cardinality(V) - Cardinality(W \cap V)
        /\ Cardinality(W) \in Nat /\ Cardinality(V) \in Nat /\ Cardinality({}) = 0
        /\ Cardinality(Under(s, b)) \in Nat
    BY <1>12, <1>14, FS_Union, FS_CardinalityType, FS_EmptySet
  <2>2. Under(s, b) = W \cup V /\ W \cap V = {} /\ Weight(c, N) = Cardinality(V)
    BY <1>10, <1>13
  <2> HIDE DEF V, W
  <2>3. Cardinality(Under(s, b)) = Cardinality(W) + Cardinality(V) - 0
    BY <2>1, <2>2
  <2> DEFINE cw == Cardinality(W)
             cv == Cardinality(V)
  <2>4. cw \in Nat /\ cv \in Nat /\ Cardinality(Under(s, b)) = cw + cv - 0
    BY <2>1, <2>3
  <2> HIDE DEF cw, cv
  <2>5. Cardinality(Under(s, b)) = cw + cv
    BY <2>4
  <2>6. QED
    BY <2>1, <2>2, <2>5 DEF cw, cv, W
<1>17. QED
  BY <1>3, <1>4, <1>13, <1>15, <1>16 DEF N

LEMMA CornerIs ==
    ASSUME NEW s, Proper(s), NEW O, \A n \in Leading(s) : Holds(cell[n], O, Under(s, n), FALSE)
    PROVE  \A k \in 1 .. Tallest(s) + 1 :
               Corner(s)[k] = [agg |-> Sum(O, Before(s, k)),
                               size |-> Cardinality(Before(s, k)) + 1, buf |-> <<>>]
<1> DEFINE T == Tallest(s) + 1
           full(k) == [n \in Passed(s, k) |-> Full(n)]
           Step(f, k) == IF k = 1 THEN [agg |-> {}, size |-> 1, buf |-> <<>>]
                         ELSE [agg |-> Merge(f[k - 1].agg, Sum(full(k), Passed(s, k))),
                               size |-> f[k - 1].size + Weight(cell, Passed(s, k)),
                               buf |-> <<>>]
           Way(f) == f = [k \in 1 .. T |-> Step(f, k)]
           Ideal(k) == [agg |-> Sum(O, Before(s, k)),
                        size |-> Cardinality(Before(s, k)) + 1, buf |-> <<>>]
           g == [k \in 1 .. T |-> Ideal(k)]
           f == Corner(s)
<1>1. Tallest(s) \in Nat /\ T \in Nat /\ 1 \in 1 .. T
  BY TallestIs
<1>2. Ideal(1) = [agg |-> {}, size |-> 1, buf |-> <<>>]
  <2>1. Before(s, 1) = {}
    BY BeforeIs
  <2>2. Sum(O, {}) = {}
    <3> DEFINE R == [n \in {0} |-> {}]
    <3>1. R[0] \subseteq Indexes
      OBVIOUS
    <3> HIDE DEF R
    <3>2. Sum(R, {}) = {}
      BY <3>1, SumOfOne
    <3>3. Sum(O, {}) = Sum(R, {})
      BY SumSame
    <3>4. QED
      BY <3>2, <3>3
  <2>3. Cardinality({}) + 1 = 1
    BY FS_EmptySet
  <2>4. QED
    BY <2>1, <2>2, <2>3
<1>3. ASSUME NEW k \in 1 .. T, k # 1, NEW h, h[k - 1] = Ideal(k - 1)
      PROVE  Step(h, k) = Ideal(k)
  <2> DEFINE v == full(k)
             A == Sum(O, Before(s, k - 1))
             z == Cardinality(Before(s, k - 1))
             w == Weight(cell, Passed(s, k))
  <2>1. \A n \in Passed(s, k) : v[n] = FullOf(cell[n])
    BY DEF Full, FullOf
  <2> HIDE DEF v
  <2>2. /\ Sum(O, Before(s, k)) = Merge(A, Sum(v, Passed(s, k)))
        /\ z \in Nat /\ w \in Nat /\ Cardinality(Before(s, k)) = z + w
    BY <1>3, <2>1, PassedAdd
  <2>3. h[k - 1].agg = A /\ h[k - 1].size = z + 1
    BY <1>3
  <2>4. Step(h, k) = [agg |-> Merge(h[k - 1].agg, Sum(v, Passed(s, k))),
                      size |-> h[k - 1].size + w, buf |-> <<>>]
    BY <1>3 DEF v
  <2> HIDE DEF A, z, w, Step
  <2>5. Cardinality(Before(s, k)) + 1 = (z + 1) + w
    BY <2>2
  <2>6. QED
    BY <2>2, <2>3, <2>4, <2>5
<1>4. \A k \in 1 .. T : k # 1 => k - 1 \in 1 .. T
  BY <1>1
<1>5. Way(g)
  <2> DEFINE h == [k \in 1 .. T |-> Step(g, k)]
  <2>1. \A k \in 1 .. T : g[k] = Ideal(k) /\ h[k] = Step(g, k)
    OBVIOUS
  <2>2. DOMAIN g = 1 .. T /\ DOMAIN h = 1 .. T /\ g = [k \in 1 .. T |-> g[k]] /\ h = [k \in 1 .. T |-> h[k]]
    OBVIOUS
  <2>a. Step(g, 1) = [agg |-> {}, size |-> 1, buf |-> <<>>]
    OBVIOUS
  <2> HIDE DEF g, h, Step, Ideal
  <2>3. \A k \in 1 .. T : Step(g, k) = Ideal(k)
    <3>1. SUFFICES ASSUME NEW k \in 1 .. T
                   PROVE  Step(g, k) = Ideal(k)
      OBVIOUS
    <3>2. CASE k = 1
      BY <1>2, <2>a, <3>2
    <3>3. CASE k # 1
      BY <1>3, <1>4, <2>1, <3>3
    <3>4. QED
      BY <3>2, <3>3
  <2>4. g = h
    BY <2>1, <2>2, <2>3
  <2>5. QED
    BY <2>4 DEF h
<1>6. f = CHOOSE h : Way(h)
  BY DEF Corner, Passed
<1>7. Way(f)
  <2> HIDE DEF f, g
  <2> HIDE DEF Way
  <2>1. QED
    BY <1>5, <1>6
<1> HIDE DEF f, g
<1>8. \A k \in 1 .. T : f[k] = Step(f, k)
  <2> DEFINE h == [k \in 1 .. T |-> Step(f, k)]
  <2>1. f = h /\ \A k \in 1 .. T : h[k] = Step(f, k)
    BY <1>7
  <2> HIDE DEF h, Step
  <2>2. QED
    BY <2>1
<1>a. Step(f, 1) = [agg |-> {}, size |-> 1, buf |-> <<>>]
  OBVIOUS
<1> HIDE DEF Step, Ideal, Way
<1> DEFINE Bad == {k \in 1 .. T : f[k] # Ideal(k)}
<1>9. ASSUME Bad # {}
      PROVE  FALSE
  <2>1. Bad \in SUBSET Nat
    BY <1>1
  <2>2. PICK m \in Bad : \A k \in Bad : m <= k
    <3> HIDE DEF Bad
    <3>1. QED
      BY <1>9, <2>1, LeastNumber
  <2>3. m # 1
    BY <1>1, <1>2, <1>8, <1>a, <2>2
  <2>4. m \in 1 .. T /\ m - 1 \in 1 .. T /\ ~(m <= m - 1)
    BY <1>1, <1>4, <2>2, <2>3
  <2>5. m - 1 \notin Bad
    <3> HIDE DEF Bad
    <3>1. QED
      BY <2>2, <2>4
  <2>6. f[m - 1] = Ideal(m - 1)
    BY <2>4, <2>5
  <2>7. f[m] = Ideal(m)
    BY <1>3, <1>8, <2>3, <2>4, <2>6
  <2>8. QED
    BY <2>2, <2>7
<1>10. QED
  BY <1>9 DEF f, Ideal

------------------------------------------------------------------------------
\* The cells of a list

\* Every node of a list holds, and counts, what the elements below it own.
Good(c, O, s) == \A n \in AllNodes(s) : Holds(c[n], O, Under(s, n), n.bdry)

LEMMA GoodStill ==
    ASSUME NEW s, Proper(s), NEW c, NEW O, Good(c, O, s), NEW d, NEW R,
           \A n \in AllNodes(s) : d[n] = c[n], \A e \in Listed(s) : R[e] = O[e]
    PROVE  Good(d, R, s)
<1>1. SUFFICES ASSUME NEW n \in AllNodes(s)
               PROVE  Holds(d[n], R, Under(s, n), n.bdry)
  BY DEF Good
<1>2. Holds(c[n], O, Under(s, n), n.bdry) /\ d[n] = c[n]
  BY DEF Good
<1>3. \A e \in Under(s, n) : R[e] = O[e]
  BY UnderIs
<1>4. QED
  BY <1>2, <1>3, HoldsStill

\* What the elements own is what their nodes on level 1 hold.
LEMMA GoodOwn ==
    ASSUME NEW s, Proper(s), NEW c, NEW O, Good(c, O, s), NEW e \in Listed(s),
           O[e] \subseteq Indexes
    PROVE  FullOf(c[Elem(e, 1)]) = O[e] /\ Elem(e, 1) \in AllNodes(s)
<1>1. Elem(e, 1) \in AllNodes(s) /\ Under(s, Elem(e, 1)) = {e}
  BY UnderEnds
<1>2. FullOf(c[Elem(e, 1)]) = Sum(O, {e})
  BY <1>1 DEF Good, Holds
<1>3. QED
  BY <1>1, <1>2, SumOfOne

\* What a level of the left list gains by join: what the right boundary stands over there.
LEMMA GainIs ==
    ASSUME NEW t, Proper(t), NEW O, Good(cell, O, t), NEW k \in Nat \ {0}
    PROVE  Gain(t, k).agg = Sum(O, Before(t, k)) /\ Gain(t, k).size = Cardinality(Before(t, k))
<1> DEFINE h == Tallest(t) + 1
           b == Bdry(t[1], IF k < h THEN k ELSE h)
<1>1. b \in AllNodes(t) /\ b \in Boundary(t) /\ Under(t, b) = Before(t, k) /\ IsFiniteSet(Before(t, k))
  BY BeforeIs
<1>2. Gain(t, k).agg = FullOf(cell[b]) /\ Gain(t, k).size = cell[b].size - 1
  BY DEF Gain, Full, FullOf
<1>3. b.bdry
  BY <1>1, NodesBelong
<1> HIDE DEF b
<1>4. FullOf(cell[b]) = Sum(O, Before(t, k)) /\ cell[b].size = Cardinality(Before(t, k)) + 1
  BY <1>1, <1>3 DEF Good, Holds
<1>5. Cardinality(Before(t, k)) \in Nat
  BY <1>1, FS_CardinalityType
<1>6. cell[b].size - 1 = Cardinality(Before(t, k))
  BY <1>4, <1>5
<1>7. QED
  BY <1>2, <1>4, <1>6

\* The cells of the joined list.
JoinsInto(s, t, new) ==
    new = JoinCells(s, t) ++ Without(cell, Boundary(t))

LEMMA JoinGood ==
    ASSUME ListsInv, NEW s \in lists, NEW t \in lists, s # t,
           NEW O, Good(cell, O, s), Good(cell, O, t),
           DOMAIN cell = DOMAIN parent, NEW new, JoinsInto(s, t, new)
    PROVE  /\ Good(new, O, s \o t)
           /\ DOMAIN new = (DOMAIN parent \ (AllNodes(s) \cup AllNodes(t))) \cup AllNodes(s \o t)
           /\ \A n \in DOMAIN parent : n \notin AllNodes(s) /\ n \notin AllNodes(t) => new[n] = cell[n]
<1> DEFINE u == s \o t
           m == Len(s)
           way == PathNodes(s[m])
           top == IF Tallest(t) > Tallest(s) THEN Flushed(cell[Root(s)]) ELSE cell[Root(s)]
           onway == [n \in way |-> Plus(IF n = Root(s) THEN top ELSE cell[n], Gain(t, n.level))]
           above == [n \in Raised(s, t) |-> Plus(top, Gain(t, n.level))]
           old == Without(cell, Boundary(t))
<1>1. /\ Proper(s) /\ Proper(t) /\ Listed(s) \cap Listed(t) = {}
      /\ AllNodes(s) \subseteq DOMAIN cell /\ AllNodes(t) \subseteq DOMAIN cell
  BY DEF ListsInv, Ordered
<1>2. m \in 1 .. m /\ m \in Nat /\ m \in 0 .. m /\ m \in 1 .. Len(s)
  BY <1>1, ProperList
<1>3. way = {n \in AllNodes(s) : n = Cover(s, m, n.level)}
  BY <1>2, PathNodesAre
<1>4. /\ AllNodes(u) = AllNodes(s) \cup ListNodes(t) \cup Raised(s, t)
      /\ Raised(s, t) \cap (AllNodes(s) \cup AllNodes(t)) = {}
      /\ AllNodes(s) \cap AllNodes(t) = {}
      /\ \A n \in Raised(s, t) : n.bdry /\ n.level \in Nat /\ n.level > Tallest(s) + 1
                                 /\ n.level <= Tallest(t) + 1
  BY <1>1, JoinedNodes
<1>5. /\ AllNodes(t) = ListNodes(t) \cup Boundary(t) /\ ListNodes(t) \cap Boundary(t) = {}
  BY <1>1, NodesBelong DEF AllNodes
<1>6. /\ \A n \in AllNodes(s) :
             Under(u, n) = IF n = Cover(s, m, n.level)
                           THEN Under(s, n) \cup Before(t, n.level) ELSE Under(s, n)
      /\ \A n \in Raised(s, t) : Under(u, n) = Listed(s) \cup Before(t, n.level)
      /\ \A n \in ListNodes(t) : Under(u, n) = Under(t, n)
  BY <1>1, JoinUnder
<1>7. Root(s) \in AllNodes(s) /\ Root(s).bdry /\ Under(s, Root(s)) = Listed(s)
  BY <1>1, RootIs, UnderEnds
<1>8. Holds(top, O, Listed(s), TRUE)
  <2>1. Holds(cell[Root(s)], O, Listed(s), TRUE)
    BY <1>7 DEF Good, Holds
  <2>2. QED
    BY <2>1, HoldsFlushed
<1>9. /\ DOMAIN new = way \cup Raised(s, t) \cup (DOMAIN cell \ Boundary(t))
      /\ \A n \in way : new[n] = Plus(IF n = Root(s) THEN top ELSE cell[n], Gain(t, n.level))
      /\ \A n \in Raised(s, t) : new[n] = Plus(top, Gain(t, n.level))
      /\ \A n \in DOMAIN cell \ Boundary(t) : n \notin way /\ n \notin Raised(s, t) => new[n] = cell[n]
  <2>1. new = (onway ++ above) ++ old
    BY DEF JoinsInto, JoinCells
  <2>2. /\ DOMAIN onway = way /\ DOMAIN above = Raised(s, t) /\ DOMAIN old = DOMAIN cell \ Boundary(t)
        /\ \A n \in way : onway[n] = Plus(IF n = Root(s) THEN top ELSE cell[n], Gain(t, n.level))
        /\ \A n \in Raised(s, t) : above[n] = Plus(top, Gain(t, n.level))
    BY Dropped
  <2>3. \A n \in DOMAIN cell \ Boundary(t) : old[n] = cell[n]
    BY Dropped
  <2> HIDE DEF onway, above, old, top, way
  <2>4. WrittenAs(onway ++ above, onway, above) /\ WrittenAs(new, onway ++ above, old)
    BY <2>1, WrittenIs
  <2>5. \A n \in way : n \notin Raised(s, t)
    BY <1>3, <1>4
  <2>6. /\ DOMAIN (onway ++ above) = way \cup Raised(s, t)
        /\ \A n \in way : (onway ++ above)[n] = onway[n]
        /\ \A n \in Raised(s, t) : (onway ++ above)[n] = above[n]
    BY <2>2, <2>4, <2>5 DEF WrittenAs
  <2>7. /\ DOMAIN new = way \cup Raised(s, t) \cup (DOMAIN cell \ Boundary(t))
        /\ \A n \in way : new[n] = onway[n]
        /\ \A n \in Raised(s, t) : new[n] = above[n]
        /\ \A n \in DOMAIN cell \ Boundary(t) : n \notin way /\ n \notin Raised(s, t) => new[n] = old[n]
    BY <2>2, <2>4, <2>6 DEF WrittenAs
  <2>8. QED
    BY <2>2, <2>3, <2>7
<1>10. ASSUME NEW U, U \subseteq Listed(s), NEW k \in Nat \ {0}, NEW x, NEW b, Holds(x, O, U, b)
       PROVE  Holds(Plus(x, Gain(t, k)), O, U \cup Before(t, k), b)
  <2>1. IsFiniteSet(Listed(s)) /\ IsFiniteSet(Before(t, k)) /\ Before(t, k) \subseteq Listed(t)
    BY <1>1, ListedCount, BeforeIs
  <2>2. IsFiniteSet(U) /\ U \cap Before(t, k) = {}
    BY <1>1, <1>10, <2>1, FS_Subset
  <2>3. Gain(t, k).agg = Sum(O, Before(t, k)) /\ Gain(t, k).size = Cardinality(Before(t, k))
    BY <1>1, GainIs
  <2>4. QED
    BY <1>10, <2>1, <2>2, <2>3, HoldsMore
<1>11. \A n \in AllNodes(s) : n.level \in Nat \ {0} /\ Under(s, n) \subseteq Listed(s)
  <2>1. \A n \in AllNodes(s) : n.level \in 1 .. Tallest(s) + 1
    BY <1>1, RootIs
  <2>2. Tallest(s) \in Nat
    BY <1>1, TallestIs
  <2>3. QED
    BY <1>1, <2>1, <2>2, UnderIs
<1> HIDE DEF u, m, way, top, onway, above, old
<1>12. ASSUME NEW n \in way
       PROVE  Holds(new[n], O, Under(u, n), n.bdry)
  <2> DEFINE x == IF n = Root(s) THEN top ELSE cell[n]
  <2>1. n \in AllNodes(s) /\ n = Cover(s, m, n.level)
    BY <1>3
  <2>2. Holds(x, O, Under(s, n), n.bdry)
    <3>1. CASE n = Root(s)
      BY <1>7, <1>8, <3>1 DEF Holds
    <3>2. CASE n # Root(s)
      BY <2>1, <3>2 DEF Good
    <3>3. QED
      BY <3>1, <3>2
  <2> HIDE DEF x
  <2>3. Holds(Plus(x, Gain(t, n.level)), O, Under(s, n) \cup Before(t, n.level), n.bdry)
    BY <1>10, <1>11, <2>1, <2>2
  <2>4. new[n] = Plus(x, Gain(t, n.level)) /\ Under(u, n) = Under(s, n) \cup Before(t, n.level)
    BY <1>6, <1>9, <2>1 DEF x
  <2>5. QED
    BY <2>3, <2>4
<1>13. ASSUME NEW n \in Raised(s, t)
       PROVE  Holds(new[n], O, Under(u, n), n.bdry)
  <2>1. n.level \in Nat \ {0} /\ n.bdry
    <3>1. Tallest(s) \in Nat
      BY <1>1, TallestIs
    <3>2. QED
      BY <1>4, <3>1
  <2>2. Holds(Plus(top, Gain(t, n.level)), O, Listed(s) \cup Before(t, n.level), TRUE)
    BY <1>8, <1>10, <2>1
  <2>3. new[n] = Plus(top, Gain(t, n.level)) /\ Under(u, n) = Listed(s) \cup Before(t, n.level)
    BY <1>6, <1>9
  <2>4. QED
    BY <2>1, <2>2, <2>3 DEF Holds
<1>14. ASSUME NEW n \in AllNodes(s), n \notin way
       PROVE  Holds(new[n], O, Under(u, n), n.bdry)
  <2>1. new[n] = cell[n]
    BY <1>1, <1>4, <1>5, <1>9, <1>14
  <2>2. Under(u, n) = Under(s, n)
    BY <1>3, <1>6, <1>14
  <2>3. QED
    BY <2>1, <2>2 DEF Good
<1>15. ASSUME NEW n \in ListNodes(t)
       PROVE  Holds(new[n], O, Under(u, n), n.bdry)
  <2>1. new[n] = cell[n]
    BY <1>1, <1>3, <1>4, <1>5, <1>9
  <2>2. Under(u, n) = Under(t, n) /\ n \in AllNodes(t)
    BY <1>5, <1>6
  <2>3. QED
    BY <2>1, <2>2 DEF Good
<1>16. Good(new, O, u)
  BY <1>4, <1>12, <1>13, <1>14, <1>15 DEF Good
<1>17. DOMAIN new = (DOMAIN parent \ (AllNodes(s) \cup AllNodes(t))) \cup AllNodes(u)
  BY <1>1, <1>3, <1>4, <1>5, <1>9
<1>18. \A n \in DOMAIN parent : n \notin AllNodes(s) /\ n \notin AllNodes(t) => new[n] = cell[n]
  <2>1. SUFFICES ASSUME NEW n \in DOMAIN parent, n \notin AllNodes(s), n \notin AllNodes(t)
                 PROVE  new[n] = cell[n]
    OBVIOUS
  <2>2. n \notin way /\ n \notin Boundary(t)
    BY <1>3, <1>5, <2>1
  <2>3. n \notin Raised(s, t)
    <3>1. SUFFICES ASSUME n \in Raised(s, t)
                   PROVE  FALSE
      OBVIOUS
    <3>2. PICK r \in lists : n \in AllNodes(r) /\ Proper(r)
      BY DEF ListsInv, Ordered
    <3>3. r # s /\ Listed(r) \cap Listed(s) = {}
      BY <2>1, <3>2 DEF ListsInv, Ordered
    <3>4. n.elem = s[1]
      BY <1>1, <3>1, JoinedNodes
    <3>5. n.elem \in Listed(r) /\ s[1] \in Listed(s)
      BY <1>1, <3>2, NodesBelong, ProperList
    <3>6. QED
      BY <3>3, <3>4, <3>5
  <2>4. QED
    BY <1>9, <2>1, <2>2, <2>3
<1>19. QED
  BY <1>16, <1>17, <1>18 DEF u

\* The cells of the two lists split_left makes of one.
SplitsCells(left, right, new) ==
    new = Without(SplitCells(left, right) ++ cell, Boundary(left \o right) \ Boundary(left))

LEMMA SplitGood ==
    ASSUME ListsInv, NEW s, NEW t, Proper(s), Proper(t), Listed(s) \cap Listed(t) = {},
           s \o t \in lists, Boundary(t) \cap DOMAIN parent = {},
           NEW O, Good(cell, O, s \o t), DOMAIN cell = DOMAIN parent,
           NEW new, SplitsCells(s, t, new)
    PROVE  /\ Good(new, O, s) /\ Good(new, O, t)
           /\ DOMAIN new = (DOMAIN parent \ AllNodes(s \o t)) \cup AllNodes(s) \cup AllNodes(t)
           /\ \A n \in DOMAIN parent : n \notin AllNodes(s \o t) => new[n] = cell[n]
<1> DEFINE u == s \o t
           m == Len(s)
           way == PathNodes(s[m])
           T == Tallest(t) + 1
           corner == Corner(t)
           loss(k) == Loss(corner, T, k)
           less(k) == [agg |-> loss(k).agg, size |-> loss(k).size - 1]
           onway == [n \in way |-> Minus(cell[n], less(n.level))]
           bdry == [n \in Boundary(t) |-> corner[n.level]]
           lead == [n \in Leading(t) |-> Flushed(cell[n])]
           all == (onway ++ bdry ++ lead) ++ cell
<1>1. /\ Proper(u) /\ AllNodes(u) \subseteq DOMAIN cell /\ u \in lists
  BY DEF ListsInv, Ordered
<1>2. /\ m \in Nat /\ m \in 0 .. m /\ m \in 1 .. Len(s) /\ m \in 1 .. Len(u) /\ u[m] = s[m]
      /\ Tallest(s) \in Nat /\ Tallest(t) \in Nat
  <2>1. m \in Nat /\ m \in 1 .. m /\ Len(t) \in Nat
    BY ProperList
  <2>2. Len(u) = m + Len(t) /\ \A i \in 1 .. m : u[i] = s[i]
    BY Joined
  <2> HIDE DEF u
  <2>3. QED
    BY <2>1, <2>2, TallestIs
<1>3. /\ AllNodes(u) = AllNodes(s) \cup ListNodes(t) \cup Raised(s, t)
      /\ Raised(s, t) \cap (AllNodes(s) \cup AllNodes(t)) = {}
      /\ AllNodes(s) \cap AllNodes(t) = {}
      /\ Boundary(u) = Boundary(s) \cup Raised(s, t)
  BY JoinedNodes
<1>4. /\ AllNodes(t) = ListNodes(t) \cup Boundary(t) /\ ListNodes(t) \cap Boundary(t) = {}
      /\ Leading(t) \subseteq ListNodes(t) /\ Boundary(s) \subseteq AllNodes(s)
      /\ \A n \in ListNodes(t) : ~n.bdry
      /\ \A n \in Boundary(t) : n.bdry
  BY NodesBelong, LeadingListed DEF AllNodes
<1>5. /\ \A n \in AllNodes(s) :
             Under(u, n) = IF n = Cover(s, m, n.level)
                           THEN Under(s, n) \cup Before(t, n.level) ELSE Under(s, n)
      /\ \A n \in ListNodes(t) : Under(u, n) = Under(t, n)
  BY JoinUnder
<1>6. \A n \in AllNodes(s) : n.level \in Nat \ {0} /\ Under(s, n) \subseteq Listed(s)
  <2>1. \A n \in AllNodes(s) : n.level \in 1 .. Tallest(s) + 1
    BY RootIs
  <2>2. QED
    BY <1>2, <2>1, UnderIs
<1>7. \A n \in AllNodes(s) : n \in way <=> n = Cover(s, m, n.level)
  <2>1. way = {n \in AllNodes(u) : n = Cover(u, m, n.level)}
    <3>1. PathNodes(u[m]) = {n \in AllNodes(u) : n = Cover(u, m, n.level)}
      <4> HIDE DEF u
      <4>1. QED
        BY <1>1, <1>2, PathNodesAre
    <3>2. QED
      BY <1>2, <3>1
  <2>2. \A n \in AllNodes(s) : Cover(u, m, n.level) = Cover(s, m, n.level)
    BY <1>2, <1>6, JoinedCover
  <2>3. QED
    BY <1>3, <2>1, <2>2
<1>8. way \subseteq AllNodes(s) \cup Raised(s, t)
  <2>1. way = {n \in AllNodes(u) : u[m] \in Under(u, n)}
    <3>1. PathNodes(u[m]) = {n \in AllNodes(u) : u[m] \in Under(u, n)}
      <4> HIDE DEF u
      <4>1. QED
        BY <1>1, <1>2, PathNodesAre
    <3>2. QED
      BY <1>2, <3>1
  <2>2. \A n \in ListNodes(t) : u[m] \notin Under(u, n)
    <3>1. s[m] \in Listed(s)
      BY <1>2, ProperList
    <3>2. \A n \in ListNodes(t) : Under(u, n) \subseteq Listed(t)
      BY <1>5, UnderIs
    <3>3. QED
      BY <1>2, <3>1, <3>2
  <2>3. QED
    BY <1>3, <2>1, <2>2
<1>9. \A n \in Leading(t) : Holds(cell[n], O, Under(t, n), FALSE)
  <2>1. SUFFICES ASSUME NEW n \in Leading(t)
                 PROVE  Holds(cell[n], O, Under(t, n), FALSE)
    OBVIOUS
  <2>2. n \in AllNodes(u) /\ ~n.bdry /\ Under(u, n) = Under(t, n)
    BY <1>3, <1>4, <1>5
  <2>3. Holds(cell[n], O, Under(t, n), n.bdry)
    BY <2>2 DEF Good
  <2>4. QED
    BY <2>2, <2>3 DEF Holds
<1>10. \A k \in 1 .. T : corner[k] = [agg |-> Sum(O, Before(t, k)),
                                      size |-> Cardinality(Before(t, k)) + 1, buf |-> <<>>]
  BY <1>9, CornerIs
<1>11. ASSUME NEW k \in Nat \ {0}
       PROVE  less(k).agg = Sum(O, Before(t, k)) /\ less(k).size = Cardinality(Before(t, k))
  <2> DEFINE j == IF k < T THEN k ELSE T
  <2>1. j \in 1 .. T /\ loss(k) = corner[j]
    <3>1. T \in Nat /\ T >= 1
      BY <1>2
    <3>2. loss(k) = IF k < T THEN corner[k] ELSE corner[T]
      BY DEF Loss
    <3> HIDE DEF loss, corner, T
    <3>3. QED
      BY <3>1, <3>2
  <2>2. Before(t, k) = Before(t, j)
    <3>1. Before(t, k) = Under(t, Bdry(t[1], j))
      BY BeforeIs
    <3>2. (IF j < T THEN j ELSE T) = j /\ j \in Nat \ {0}
      BY <1>2
    <3>3. Before(t, j) = Under(t, Bdry(t[1], j))
      <4> HIDE DEF j
      <4>1. QED
        BY <3>2, BeforeIs
    <3>4. QED
      BY <3>1, <3>3
  <2>3. Cardinality(Before(t, k)) \in Nat
    BY BeforeIs, FS_CardinalityType
  <2> HIDE DEF loss, j, T, corner
  <2>4. loss(k) = [agg |-> Sum(O, Before(t, k)), size |-> Cardinality(Before(t, k)) + 1, buf |-> <<>>]
    BY <1>10, <2>1, <2>2
  <2>5. less(k).agg = loss(k).agg /\ less(k).size = loss(k).size - 1
    OBVIOUS
  <2>6. loss(k).agg = Sum(O, Before(t, k)) /\ loss(k).size = Cardinality(Before(t, k)) + 1
    BY <2>4
  <2> HIDE DEF less
  <2>7. QED
    BY <2>3, <2>5, <2>6
<1>12. new = Without(all, Raised(s, t))
  <2>1. Boundary(u) \ Boundary(s) = Raised(s, t)
    BY <1>3, <1>4
  <2>2. new = Without(SplitCells(s, t) ++ cell, Boundary(u) \ Boundary(s))
    BY DEF SplitsCells
  <2>3. SplitCells(s, t) = onway ++ bdry ++ lead
    BY DEF SplitCells
  <2> HIDE DEF u, onway, bdry, lead
  <2>4. QED
    BY <2>1, <2>2, <2>3
<1>13. /\ DOMAIN onway = way /\ DOMAIN bdry = Boundary(t) /\ DOMAIN lead = Leading(t)
       /\ \A n \in way : onway[n] = Minus(cell[n], less(n.level))
       /\ \A n \in Boundary(t) : bdry[n] = corner[n.level]
       /\ \A n \in Leading(t) : lead[n] = Flushed(cell[n])
  <2> HIDE DEF less, corner, way
  <2>1. QED
    OBVIOUS
<1> HIDE DEF onway, bdry, lead, way, less, corner, u, m, T
<1>14. /\ way \cap Boundary(t) = {} /\ way \cap Leading(t) = {} /\ Boundary(t) \cap Leading(t) = {}
  BY <1>3, <1>4, <1>8
<1>15. WrittenAsThree(onway ++ bdry ++ lead, all, onway, bdry, lead, cell)
  BY <1>13, <1>14, WrittenThrice
<1> HIDE DEF all
<1>16. /\ DOMAIN all = way \cup Boundary(t) \cup Leading(t) \cup DOMAIN cell
       /\ \A n \in way : all[n] = Minus(cell[n], less(n.level))
       /\ \A n \in Boundary(t) : all[n] = corner[n.level]
       /\ \A n \in Leading(t) : all[n] = Flushed(cell[n])
       /\ \A n \in DOMAIN cell : n \notin way /\ n \notin Boundary(t) /\ n \notin Leading(t)
                                 => all[n] = cell[n]
  BY <1>13, <1>15 DEF WrittenAsThree
<1>17. /\ DOMAIN new = DOMAIN all \ Raised(s, t)
       /\ \A n \in DOMAIN all : n \notin Raised(s, t) => new[n] = all[n]
  BY <1>12, Dropped
<1>18. ASSUME NEW n \in AllNodes(s)
       PROVE  Holds(new[n], O, Under(s, n), n.bdry)
  <2>1. /\ n \in AllNodes(u) /\ n \in DOMAIN cell /\ n \notin Raised(s, t) /\ n \notin Boundary(t)
        /\ n \notin Leading(t) /\ new[n] = all[n]
    BY <1>1, <1>3, <1>4, <1>16, <1>17
  <2>2. Holds(cell[n], O, Under(u, n), n.bdry)
    BY <2>1 DEF Good, u
  <2>3. CASE n \notin way
    BY <1>5, <1>7, <1>16, <2>1, <2>2, <2>3
  <2>4. CASE n \in way
    <3>1. Under(u, n) = Under(s, n) \cup Before(t, n.level)
      BY <1>5, <1>7, <2>4
    <3>2. /\ IsFiniteSet(Under(s, n)) /\ Under(s, n) \subseteq Listed(s)
          /\ IsFiniteSet(Before(t, n.level)) /\ Before(t, n.level) \subseteq Listed(t)
      BY <1>6, UnderIs, BeforeIs
    <3>3. /\ less(n.level).agg = Sum(O, Before(t, n.level))
          /\ less(n.level).size = Cardinality(Before(t, n.level))
      BY <1>6, <1>11
    <3>4. Under(s, n) \cap Before(t, n.level) = {}
      BY <3>2
    <3>5. Holds(Minus(cell[n], less(n.level)), O, Under(s, n), n.bdry)
      BY <2>2, <3>1, <3>2, <3>3, <3>4, HoldsLess
    <3>6. QED
      BY <1>16, <2>1, <2>4, <3>5
  <2>5. QED
    BY <2>3, <2>4
<1>19. ASSUME NEW n \in ListNodes(t)
       PROVE  Holds(new[n], O, Under(t, n), n.bdry)
  <2>1. /\ n \in AllNodes(u) /\ n \in DOMAIN cell /\ n \notin Raised(s, t) /\ n \notin Boundary(t)
        /\ n \notin way /\ new[n] = all[n]
    BY <1>1, <1>3, <1>4, <1>8, <1>16, <1>17
  <2>2. Holds(cell[n], O, Under(t, n), n.bdry)
    BY <1>5, <2>1 DEF Good, u
  <2>3. CASE n \notin Leading(t)
    BY <1>16, <2>1, <2>2, <2>3
  <2>4. CASE n \in Leading(t)
    BY <1>16, <2>1, <2>2, <2>4, HoldsFlushed
  <2>5. QED
    BY <2>3, <2>4
<1>20. ASSUME NEW n \in Boundary(t)
       PROVE  Holds(new[n], O, Under(t, n), n.bdry)
  <2>1. PICK k \in 1 .. T : n = Bdry(t[1], k)
    BY DEF Boundary, T
  <2>2. n.level = k /\ n.bdry
    BY <2>1, NodeNames
  <2>3. n \in AllNodes(t) /\ new[n] = all[n] /\ all[n] = corner[k]
    BY <1>3, <1>4, <1>16, <1>17, <2>2
  <2>4. Under(t, n) = Before(t, k)
    <3>1. k \in Nat \ {0} /\ (IF k < T THEN k ELSE T) = k
      BY <1>2 DEF T
    <3>2. QED
      BY <2>1, <3>1, BeforeIs DEF T
  <2>5. corner[k] = [agg |-> Sum(O, Before(t, k)), size |-> Cardinality(Before(t, k)) + 1, buf |-> <<>>]
    BY <1>10
  <2> DEFINE x == corner[k]
             A == Sum(O, Before(t, k))
             z == Cardinality(Before(t, k))
  <2>6. A \subseteq Indexes /\ z \in Nat
    <3>1. IsFiniteSet(Before(t, k))
      BY <2>4, UnderIs
    <3>2. QED
      BY <3>1, SumHolds, FS_CardinalityType
  <2> HIDE DEF A, z
  <2>7. x = [agg |-> A, size |-> z + 1, buf |-> <<>>]
    BY <2>5 DEF A, z
  <2> HIDE DEF x
  <2>8. x \in Cells /\ x.size = z + 1 /\ x.agg = A /\ x.buf = <<>>
    BY <2>6, <2>7, NoneWaits DEF Cells
  <2>9. FullOf(x) = A
    <3>1. FullOf(x) = Merge(A, {})
      BY <2>8, NoneWaits DEF FullOf
    <3>2. QED
      BY <3>1, MergeIs
  <2>10. new[n] = x
    BY <2>3 DEF x
  <2>11. QED
    BY <2>2, <2>4, <2>8, <2>9, <2>10 DEF Holds, A, z
<1>21. Good(new, O, s)
  BY <1>18 DEF Good
<1>22. Good(new, O, t)
  BY <1>4, <1>19, <1>20 DEF Good
<1>23. DOMAIN new = (DOMAIN parent \ AllNodes(u)) \cup AllNodes(s) \cup AllNodes(t)
  <2>1. DOMAIN new = (DOMAIN cell \cup Boundary(t)) \ Raised(s, t)
    BY <1>1, <1>3, <1>4, <1>8, <1>16, <1>17
  <2>2. QED
    BY <1>1, <1>3, <1>4, <2>1
<1>24. \A n \in DOMAIN parent : n \notin AllNodes(u) => new[n] = cell[n]
  BY <1>3, <1>4, <1>8, <1>16, <1>17
<1>25. QED
  BY <1>21, <1>22, <1>23, <1>24 DEF u

------------------------------------------------------------------------------
\* The invariant, and the steps that keep it

\* What each element owns: what its carrier holds, and nothing elsewhere.
Owns(O, L, c, C) == /\ O \in [Elements -> SUBSET Indexes]
                    /\ \A s \in L : Good(c, O, s)
                    /\ \A e \in Elements \ C : O[e] = {}
Rest == /\ DOMAIN cell = DOMAIN parent
        /\ carriers \subseteq Live
        /\ temp_sketch \subseteq Indexes
        /\ updates \in 0 .. MaxUpdates
\* What a step leaves of the sketches: all, if it only joins or splits.
Stays(O, R) == lists' # lists /\ carriers' = carriers => \A x \in carriers : R[x] = O[x]

LEMMA ListsApart ==
    ASSUME ListsInv, NEW s \in lists
    PROVE  /\ Proper(s) /\ AllNodes(s) \subseteq DOMAIN parent /\ Listed(s) \subseteq Elements
           /\ Listed(s) \subseteq Live
           /\ \A t \in lists : s # t => /\ Listed(s) \cap Listed(t) = {}
                                        /\ AllNodes(s) \cap AllNodes(t) = {}
<1>1. Proper(s) /\ AllNodes(s) \subseteq DOMAIN parent
  BY DEF ListsInv, Ordered
<1>2. Listed(s) \subseteq Elements /\ Listed(s) \subseteq Live
  BY <1>1, ProperList DEF Live
<1>3. \A t \in lists : s # t => Listed(s) \cap Listed(t) = {} /\ Proper(t)
  BY DEF ListsInv, Ordered
<1>4. QED
  BY <1>1, <1>2, <1>3, NodesApart

\* The nodes of the way up from an element are those that stand over it, in any list.
LEMMA OnWay ==
    ASSUME ListsInv, NEW e \in Live
    PROVE  /\ PathNodes(e) \subseteq DOMAIN parent
           /\ \A r \in lists : \A n \in AllNodes(r) : n \in PathNodes(e) <=> e \in Under(r, n)
           /\ \E s \in lists : e \in Listed(s) /\ PathNodes(e) \subseteq AllNodes(s)
<1>1. PICK s \in lists : e \in Listed(s)
  BY DEF Live
<1>2. PICK p \in 1 .. Len(s) : e = s[p]
  BY <1>1, ListsApart, ProperList
<1>3. PathNodes(e) = {n \in AllNodes(s) : e \in Under(s, n)}
  BY <1>2, PathNodesAre
<1>4. ASSUME NEW r \in lists, NEW n \in AllNodes(r)
      PROVE  n \in PathNodes(e) <=> e \in Under(r, n)
  <2>1. CASE r = s
    BY <1>3, <2>1
  <2>2. CASE r # s
    <3>1. n \notin AllNodes(s) /\ e \notin Listed(r) /\ Proper(r)
      BY <1>1, <2>2, ListsApart
    <3>2. Under(r, n) \subseteq Listed(r)
      BY <3>1, UnderIs
    <3>3. QED
      BY <1>3, <3>1, <3>2
  <2>3. QED
    BY <2>1, <2>2
<1>5. QED
  BY <1>1, <1>3, <1>4, ListsApart

\* A new element.
LEMMA AloneGood ==
    ASSUME NEW e \in Elements, NEW agg, agg \subseteq Indexes, NEW R, R[e] = agg,
           NEW c, \A n \in AllNodes(<<e>>) : c[n] = NewCell(n, Root(<<e>>), agg)
    PROVE  Good(c, R, <<e>>)
<1> DEFINE s == <<e>>
<1>1. Proper(s) /\ Len(s) = 1 /\ s[1] = e /\ Listed(s) = {e}
  BY Alone
<1>2. Sum(R, {}) = {} /\ Sum(R, {e}) = agg /\ Cardinality({}) = 0 /\ Cardinality({e}) = 1
  BY SumOfOne, FS_EmptySet, FS_Singleton
<1> HIDE DEF s
<1>3. SUFFICES ASSUME NEW n \in AllNodes(s)
               PROVE  Holds(c[n], R, Under(s, n), n.bdry)
  BY DEF Good, s
<1>4. c[n] = NewCell(n, Root(s), agg)
  BY DEF s
<1>5. n.bdry \in BOOLEAN
  <2>1. CASE n \in Boundary(s)
    BY <1>1, <2>1, NodesBelong
  <2>2. CASE n \in ListNodes(s)
    <3>1. PICK d, k : n = Elem(d, k)
      BY <2>2 DEF ListNodes
    <3>2. n.bdry = FALSE
      BY <3>1 DEF Elem
    <3>3. QED
      BY <3>2
  <2>3. QED
    BY <2>1, <2>2 DEF AllNodes
<1>6. ASSUME NEW x, NEW y, x = [agg |-> y, size |-> 1, buf |-> <<>>], y \subseteq Indexes
      PROVE  x \in Cells /\ FullOf(x) = y /\ x.size = 1
  <2>1. x \in Cells /\ x.agg = y /\ x.size = 1 /\ x.buf = <<>>
    BY <1>6, NoneWaits DEF Cells
  <2>2. FullOf(x) = Merge(y, {})
    BY <2>1, NoneWaits DEF FullOf
  <2>3. QED
    BY <2>1, <2>2, MergeIs
<1>7. CASE n = Root(s)
  <2>1. Under(s, n) = {e} /\ n.bdry
    BY <1>1, <1>7, UnderEnds, RootIs
  <2>2. c[n] = [agg |-> agg, size |-> 2, buf |-> <<>>]
    BY <1>4, <1>7 DEF NewCell
  <2>3. c[n] \in Cells /\ c[n].agg = agg /\ c[n].size = 2 /\ c[n].buf = <<>>
    BY <2>2, NoneWaits DEF Cells
  <2>4. FullOf(c[n]) = Merge(agg, {})
    BY <2>3, NoneWaits DEF FullOf
  <2>5. FullOf(c[n]) = agg
    BY <2>4, MergeIs
  <2>6. QED
    BY <1>2, <2>1, <2>3, <2>5 DEF Holds
<1>8. CASE n # Root(s) /\ ~n.bdry
  <2>1. n \in ListNodes(s) /\ n.elem \in Under(s, n) /\ Under(s, n) \subseteq {e}
    BY <1>1, <1>8, NodesBelong, UnderOwn, UnderIs
  <2>2. Under(s, n) = {e}
    BY <2>1
  <2>3. c[n] = [agg |-> agg, size |-> 1, buf |-> <<>>]
    BY <1>4, <1>8 DEF NewCell
  <2>4. c[n] \in Cells /\ FullOf(c[n]) = agg /\ c[n].size = 1
    BY <1>6, <2>3
  <2>5. QED
    BY <1>2, <1>8, <2>2, <2>4 DEF Holds
<1>9. CASE n # Root(s) /\ n.bdry
  <2>1. Under(s, n) = {}
    <3>1. e \notin Under(s, n)
      <4>1. SUFFICES ASSUME e \in Under(s, n)
                     PROVE  FALSE
        OBVIOUS
      <4>2. Cover(s, 1, n.level) = n
        BY <1>1, <4>1, UnderIs
      <4>3. Height[e] \in Nat /\ Tallest(s) \in Nat /\ Tallest(s) = Height[e]
        <5>1. \E k \in 1 .. 1 : Height[s[k]] = Tallest(s)
          BY <1>1, TallestIs
        <5>2. QED
          BY <1>1, <5>1, Heights
      <4>4. n.level \in 1 .. Tallest(s)
        BY <1>1, <1>9, <4>3, RootIs
      <4>5. NodeAt(s, 1, n.level)
        BY <1>1, <4>3, <4>4 DEF NodeAt
      <4>6. Cover(s, 1, n.level) = Elem(e, n.level)
        BY <1>1, <4>5, CoverOwn DEF Named
      <4>7. QED
        BY <1>9, <4>2, <4>6, NodeNames
    <3>2. Under(s, n) \subseteq {e}
      BY <1>1, UnderIs
    <3>3. QED
      BY <3>1, <3>2
  <2>3. c[n] = [agg |-> {}, size |-> 1, buf |-> <<>>]
    BY <1>4, <1>9 DEF NewCell
  <2>4. c[n] \in Cells /\ FullOf(c[n]) = {} /\ c[n].size = 1
    BY <1>6, <2>3
  <2>5. QED
    BY <1>2, <1>9, <2>1, <2>4 DEF Holds
<1>10. QED
  BY <1>5, <1>7, <1>8, <1>9

\* make_edge() adds a list of its own.
LEMMA MakeEdgeKeeps ==
    ASSUME ListsInv, Rest, NEW O, Owns(O, lists, cell, carriers),
           NEW e \in Elements, MakeEdge(e)
    PROVE  ListsInv' /\ Rest' /\ \E R : Owns(R, lists', cell', carriers') /\ Stays(O, R)
<1> DEFINE u == <<e>>
           carries == \A c \in carriers : Vertex[c] # Vertex[e]
           agg == IF carries THEN temp_sketch ELSE {}
           made == [n \in AllNodes(u) |-> NewCell(n, Root(u), agg)]
           R == [O EXCEPT ![e] = agg]
<1>1. /\ InitElement(e) /\ e \notin Live /\ lists' = lists \cup {u}
      /\ carriers' = IF carries THEN carriers \cup {e} ELSE carriers
      /\ temp_sketch' = IF carries THEN {} ELSE temp_sketch
      /\ cell' = made ++ cell /\ updates' = updates
  BY DEF MakeEdge, InitElement
<1>2. ListsInv' /\ DOMAIN parent' = DOMAIN parent \cup AllNodes(u)
  BY <1>1, InitElementOrders
<1>3. Proper(u) /\ Listed(u) = {e}
  BY Alone
<1>4. /\ DOMAIN cell' = AllNodes(u) \cup DOMAIN cell
      /\ \A n \in AllNodes(u) : cell'[n] = NewCell(n, Root(u), agg)
      /\ \A n \in DOMAIN cell : n \notin AllNodes(u) => cell'[n] = cell[n]
  <2>1. DOMAIN made = AllNodes(u) /\ \A n \in AllNodes(u) : made[n] = NewCell(n, Root(u), agg)
    OBVIOUS
  <2> HIDE DEF made, agg, carries, u
  <2>2. WrittenAs(cell', made, cell)
    BY <1>1, WrittenIs
  <2>3. QED
    BY <2>1, <2>2 DEF WrittenAs
<1>5. agg \subseteq Indexes
  BY DEF Rest
<1>6. O \in [Elements -> SUBSET Indexes] /\ \A d \in Elements \ carriers : O[d] = {}
  BY DEF Owns
<1>7. /\ R \in [Elements -> SUBSET Indexes] /\ R[e] = agg
      /\ \A d \in Elements : d # e => R[d] = O[d]
  BY <1>5, <1>6
<1>a. (carries => agg = temp_sketch) /\ (~carries => agg = {})
  OBVIOUS
<1> HIDE DEF agg, carries, R, made
<1>8. Good(cell', R, u)
  BY <1>4, <1>5, <1>7, AloneGood
<1> HIDE DEF u
<1>9. ASSUME NEW s \in lists
      PROVE  Good(cell', R, s)
  <2>1. /\ Proper(s) /\ AllNodes(s) \subseteq DOMAIN parent /\ Listed(s) \subseteq Elements
        /\ Listed(s) \subseteq Live
    BY ListsApart
  <2>2. Listed(u) \cap Listed(s) = {}
    BY <1>1, <1>3, <2>1
  <2>3. \A n \in AllNodes(s) : n \notin AllNodes(u) /\ n \in DOMAIN cell
    BY <1>3, <2>1, <2>2, Elsewhere DEF Rest
  <2>4. \A n \in AllNodes(s) : cell'[n] = cell[n]
    BY <1>4, <2>3
  <2>5. \A d \in Listed(s) : R[d] = O[d]
    BY <1>1, <1>7, <2>1
  <2>6. Good(cell, O, s)
    BY DEF Owns
  <2>7. QED
    BY <2>1, <2>4, <2>5, <2>6, GoodStill
<1>10. \A d \in Elements \ carriers' : R[d] = {}
  BY <1>1, <1>6, <1>7, <1>a
<1>11. Live \subseteq Elements
  BY ListsApart DEF Live
<1>12. Owns(R, lists', cell', carriers')
  BY <1>1, <1>7, <1>8, <1>9, <1>10 DEF Owns
<1>13. Stays(O, R)
  BY <1>1, <1>7, <1>11 DEF Rest, Stays
<1>14. Live' = Live \cup {e}
  BY <1>1, <1>3 DEF Live
<1>15. Rest'
  BY <1>1, <1>2, <1>4, <1>14 DEF Rest
<1>16. QED
  BY <1>2, <1>12, <1>13, <1>15

\* The join of two lists.
LEMMA JoinKeeps ==
    ASSUME ListsInv, Rest, NEW O, Owns(O, lists, cell, carriers),
           NEW s \in lists, NEW t \in lists, JoinLists(s, t)
    PROVE  ListsInv' /\ Rest' /\ \E R : Owns(R, lists', cell', carriers') /\ Stays(O, R)
<1> DEFINE u == s \o t
<1>1. /\ Join(s, t) /\ s # t /\ lists' = (lists \ {s, t}) \cup {u}
      /\ JoinsInto(s, t, cell')
      /\ carriers' = carriers /\ temp_sketch' = temp_sketch /\ updates' = updates
  BY DEF JoinLists, Join, JoinsInto
<1>2. /\ ListsInv'
      /\ DOMAIN parent' = (DOMAIN parent \ (AllNodes(s) \cup AllNodes(t))) \cup AllNodes(u)
  BY <1>1, JoinOrders
<1>3. Good(cell, O, s) /\ Good(cell, O, t) /\ DOMAIN cell = DOMAIN parent
  BY DEF Owns, Rest
<1>4. /\ Good(cell', O, u)
      /\ DOMAIN cell' = (DOMAIN parent \ (AllNodes(s) \cup AllNodes(t))) \cup AllNodes(u)
      /\ \A n \in DOMAIN parent : n \notin AllNodes(s) /\ n \notin AllNodes(t) => cell'[n] = cell[n]
  BY <1>1, <1>3, JoinGood
<1>5. Listed(u) = Listed(s) \cup Listed(t)
  <2>1. Proper(s) /\ Proper(t) /\ Listed(s) \cap Listed(t) = {}
    BY <1>1, ListsApart
  <2>2. QED
    BY <2>1, Joined
<1> HIDE DEF u
<1>6. ASSUME NEW r \in lists \ {s, t}
      PROVE  Good(cell', O, r)
  <2>1. Proper(r) /\ AllNodes(r) \subseteq DOMAIN parent
    BY ListsApart
  <2>2. AllNodes(r) \cap AllNodes(s) = {} /\ AllNodes(r) \cap AllNodes(t) = {}
    BY ListsApart
  <2>3. \A n \in AllNodes(r) : cell'[n] = cell[n]
    BY <1>4, <2>1, <2>2
  <2>4. Good(cell, O, r)
    BY DEF Owns
  <2>5. QED
    BY <2>1, <2>3, <2>4, GoodStill
<1>7. Owns(O, lists', cell', carriers')
  BY <1>1, <1>4, <1>6 DEF Owns
<1>8. Live' = Live
  BY <1>1, <1>5 DEF Live
<1>9. Rest'
  BY <1>1, <1>2, <1>4, <1>8 DEF Rest
<1>10. QED
  BY <1>2, <1>7, <1>9 DEF Stays

\* The split of a list.
LEMMA SplitKeeps ==
    ASSUME ListsInv, Rest, NEW O, Owns(O, lists, cell, carriers),
           NEW s \in lists, NEW p \in DOMAIN s, SplitList(s, p)
    PROVE  ListsInv' /\ Rest' /\ \E R : Owns(R, lists', cell', carriers') /\ Stays(O, R)
<1> DEFINE left == SubSeq(s, 1, p - 1)
           right == SubSeq(s, p, Len(s))
<1>1. /\ SplitLeft(s, p) /\ p > 1 /\ lists' = (lists \ {s}) \cup {left, right}
      /\ cell' = Without(SplitCells(left, right) ++ cell, Boundary(s) \ Boundary(left))
      /\ carriers' = carriers /\ temp_sketch' = temp_sketch /\ updates' = updates
  BY DEF SplitList, SplitLeft
<1>2. /\ ListsInv'
      /\ DOMAIN parent' = (DOMAIN parent \ AllNodes(s)) \cup AllNodes(left) \cup AllNodes(right)
      /\ Boundary(right) \cap DOMAIN parent = {}
  BY <1>1, SplitLeftOrders
<1>3. Proper(s) /\ AllNodes(s) \subseteq DOMAIN parent
  BY ListsApart
<1>a. /\ Proper(left) /\ Proper(right) /\ Listed(left) \cap Listed(right) = {}
      /\ left \o right = s
  BY <1>1, <1>3, Halves
<1>5. Good(cell, O, s) /\ DOMAIN cell = DOMAIN parent
  BY DEF Owns, Rest
<1> HIDE DEF left, right
<1>b. Listed(left \o right) = Listed(left) \cup Listed(right)
  BY <1>a, Joined
<1>4. /\ Proper(left) /\ Proper(right) /\ Listed(left) \cap Listed(right) = {}
      /\ left \o right = s /\ Listed(s) = Listed(left) \cup Listed(right)
  BY <1>a, <1>b
<1>6. SplitsCells(left, right, cell')
  BY <1>1, <1>4 DEF SplitsCells
<1>7. /\ Good(cell', O, left) /\ Good(cell', O, right)
      /\ DOMAIN cell' = (DOMAIN parent \ AllNodes(s)) \cup AllNodes(left) \cup AllNodes(right)
      /\ \A n \in DOMAIN parent : n \notin AllNodes(s) => cell'[n] = cell[n]
  <2>1. left \o right \in lists /\ Good(cell, O, left \o right)
    BY <1>4, <1>5
  <2>2. /\ Good(cell', O, left) /\ Good(cell', O, right)
        /\ DOMAIN cell' = (DOMAIN parent \ AllNodes(left \o right)) \cup AllNodes(left) \cup AllNodes(right)
        /\ \A n \in DOMAIN parent : n \notin AllNodes(left \o right) => cell'[n] = cell[n]
    BY <1>2, <1>4, <1>5, <1>6, <2>1, SplitGood
  <2>3. QED
    BY <1>4, <2>2
<1>8. ASSUME NEW r \in lists \ {s}
      PROVE  Good(cell', O, r)
  <2>1. Proper(r) /\ AllNodes(r) \subseteq DOMAIN parent /\ AllNodes(r) \cap AllNodes(s) = {}
    BY ListsApart
  <2>2. \A n \in AllNodes(r) : cell'[n] = cell[n]
    BY <1>7, <2>1
  <2>3. Good(cell, O, r)
    BY DEF Owns
  <2>4. QED
    BY <2>1, <2>2, <2>3, GoodStill
<1>9. Owns(O, lists', cell', carriers')
  BY <1>1, <1>7, <1>8 DEF Owns
<1>10. Live' = Live
  BY <1>1, <1>4 DEF Live
<1>11. Rest'
  BY <1>1, <1>2, <1>7, <1>10 DEF Rest
<1>12. QED
  BY <1>2, <1>9, <1>11 DEF Stays

\* The nodes a step writes are those of the lists.
LEMMA UpdateKeepsRest ==
    ASSUME ListsInv, Rest, NEW N, N \subseteq DOMAIN parent, NEW i \in Indexes, Update(N, i)
    PROVE  /\ ListsInv' /\ Rest' /\ lists' = lists /\ carriers' = carriers
           /\ \A n \in DOMAIN parent : cell'[n] = IF n \in N THEN Updated(cell[n], i) ELSE cell[n]
<1> DEFINE new == [n \in N |-> Updated(cell[n], i)]
<1>1. /\ cell' = new ++ cell /\ lists' = lists /\ parent' = parent /\ carriers' = carriers
      /\ temp_sketch' = temp_sketch /\ updates < MaxUpdates /\ updates' = updates + 1
  BY DEF Update
<1>2. DOMAIN new = N /\ \A n \in N : new[n] = Updated(cell[n], i)
  OBVIOUS
<1> HIDE DEF new
<1>3. WrittenAs(cell', new, cell)
  BY <1>1, WrittenIs
<1>4. DOMAIN cell = DOMAIN parent
  BY DEF Rest
<1>5. /\ DOMAIN cell' = DOMAIN parent'
      /\ \A n \in DOMAIN parent : cell'[n] = IF n \in N THEN Updated(cell[n], i) ELSE cell[n]
  BY <1>1, <1>2, <1>3, <1>4 DEF WrittenAs
<1>6. ListsInv'
  BY <1>1 DEF ListsInv
<1>7. Live' = Live
  BY <1>1 DEF Live
<1>8. updates' \in 0 .. MaxUpdates
  BY <1>1, SkipListAssumption DEF Rest
<1>9. Rest'
  BY <1>1, <1>5, <1>7, <1>8 DEF Rest
<1>10. QED
  BY <1>1, <1>5, <1>6, <1>9

\* One that updates all nodes over an element.
LEMMA UpdatePathKeeps ==
    ASSUME ListsInv, Rest, NEW O, Owns(O, lists, cell, carriers),
           NEW e \in carriers, NEW i \in Indexes, UpdatePath(e, i)
    PROVE  ListsInv' /\ Rest' /\ \E R : Owns(R, lists', cell', carriers') /\ Stays(O, R)
<1> DEFINE R == [O EXCEPT ![e] = Merge(O[e], {i})]
<1>1. e \in Live /\ e \in Elements /\ Update(PathNodes(e), i)
  BY ListsApart DEF Rest, UpdatePath, Live
<1>2. /\ PathNodes(e) \subseteq DOMAIN parent
      /\ \A r \in lists : \A n \in AllNodes(r) : n \in PathNodes(e) <=> e \in Under(r, n)
  BY <1>1, OnWay
<1>3. /\ ListsInv' /\ Rest' /\ lists' = lists /\ carriers' = carriers
      /\ \A n \in DOMAIN parent : cell'[n] = IF n \in PathNodes(e) THEN Updated(cell[n], i) ELSE cell[n]
  BY <1>1, <1>2, UpdateKeepsRest
<1>4. O \in [Elements -> SUBSET Indexes] /\ \A d \in Elements \ carriers : O[d] = {}
  BY DEF Owns
<1>5. Merge(O[e], {i}) \subseteq Indexes /\ O[e] \subseteq Indexes
  BY <1>1, <1>4 DEF Merge
<1>6. /\ R \in [Elements -> SUBSET Indexes] /\ R[e] = Merge(O[e], {i})
      /\ \A d \in Elements : d # e => R[d] = O[d]
  BY <1>1, <1>4, <1>5
<1> HIDE DEF R
<1>7. ASSUME NEW s \in lists, NEW n \in AllNodes(s)
      PROVE  Holds(cell'[n], R, Under(s, n), n.bdry)
  <2>1. Proper(s) /\ n \in DOMAIN parent /\ Listed(s) \subseteq Elements
    BY ListsApart
  <2>2. IsFiniteSet(Under(s, n)) /\ Under(s, n) \subseteq Elements
    BY <2>1, UnderIs
  <2>3. Holds(cell[n], O, Under(s, n), n.bdry)
    BY DEF Owns, Good
  <2>4. \A d \in Under(s, n) : d # e => R[d] = O[d]
    BY <1>6, <2>2
  <2>5. Holds(IF e \in Under(s, n) THEN Updated(cell[n], i) ELSE cell[n], R, Under(s, n), n.bdry)
    BY <1>5, <1>6, <2>2, <2>3, <2>4, HoldsUpdated
  <2>6. QED
    BY <1>2, <1>3, <2>1, <2>5
<1>8. \A d \in Elements \ carriers : R[d] = {}
  BY <1>4, <1>6
<1>9. Owns(R, lists', cell', carriers')
  BY <1>3, <1>6, <1>7, <1>8 DEF Owns, Good
<1>10. QED
  BY <1>3, <1>9 DEF Stays

\* One that updates the nodes over one of two elements and not over the other.
LEMMA UpdateSketchesKeeps ==
    ASSUME ListsInv, Rest, NEW O, Owns(O, lists, cell, carriers),
           NEW e \in carriers, NEW f \in carriers, NEW i \in Indexes, UpdateSketches(e, f, i)
    PROVE  ListsInv' /\ Rest' /\ \E R : Owns(R, lists', cell', carriers') /\ Stays(O, R)
<1> DEFINE Q == [O EXCEPT ![e] = Merge(O[e], {i})]
           R == [Q EXCEPT ![f] = Merge(O[f], {i})]
           N == LockStep(e, f) \cup LockStep(f, e)
<1>1. /\ e \in Live /\ e \in Elements /\ f \in Live /\ f \in Elements /\ e # f /\ Update(N, i)
  BY ListsApart DEF Rest, UpdateSketches, Live
<1>2. /\ PathNodes(e) \subseteq DOMAIN parent /\ PathNodes(f) \subseteq DOMAIN parent
      /\ \A r \in lists : \A n \in AllNodes(r) : /\ n \in PathNodes(e) <=> e \in Under(r, n)
                                                 /\ n \in PathNodes(f) <=> f \in Under(r, n)
  BY <1>1, OnWay
<1>a. N = (PathNodes(e) \ PathNodes(f)) \cup (PathNodes(f) \ PathNodes(e))
  BY <1>1, LockStepIs
<1> HIDE DEF N
<1>3. /\ ListsInv' /\ Rest' /\ lists' = lists /\ carriers' = carriers
      /\ \A n \in DOMAIN parent : cell'[n] = IF n \in N THEN Updated(cell[n], i) ELSE cell[n]
  <2>1. N \subseteq DOMAIN parent
    BY <1>2, <1>a
  <2>2. QED
    BY <1>1, <2>1, UpdateKeepsRest
<1>4. O \in [Elements -> SUBSET Indexes] /\ \A d \in Elements \ carriers : O[d] = {}
  BY DEF Owns
<1>5. /\ Merge(O[e], {i}) \subseteq Indexes /\ O[e] \subseteq Indexes
      /\ Merge(O[f], {i}) \subseteq Indexes /\ O[f] \subseteq Indexes /\ {i} \subseteq Indexes
  BY <1>1, <1>4 DEF Merge
<1>6. /\ Q \in [Elements -> SUBSET Indexes] /\ Q[e] = Merge(O[e], {i})
      /\ \A d \in Elements : d # e => Q[d] = O[d]
  BY <1>1, <1>4, <1>5
<1> HIDE DEF Q
<1>7. /\ R \in [Elements -> SUBSET Indexes] /\ R[f] = Merge(O[f], {i})
      /\ \A d \in Elements : d # f => R[d] = Q[d]
  BY <1>1, <1>5, <1>6
<1> HIDE DEF R
<1>8. ASSUME NEW s \in lists, NEW n \in AllNodes(s)
      PROVE  Holds(cell'[n], R, Under(s, n), n.bdry)
  <2> DEFINE U == Under(s, n)
  <2>1. Proper(s) /\ n \in DOMAIN parent /\ Listed(s) \subseteq Elements
    BY ListsApart
  <2>2. IsFiniteSet(U) /\ U \subseteq Elements
    BY <2>1, UnderIs
  <2>3. Holds(cell[n], O, U, n.bdry)
    BY DEF Owns, Good
  <2>4. n \in PathNodes(e) <=> e \in U
    BY <1>2
  <2>5. n \in PathNodes(f) <=> f \in U
    BY <1>2
  <2> HIDE DEF U
  <2>6. cell'[n] = IF n \in N THEN Updated(cell[n], i) ELSE cell[n]
    BY <1>3, <2>1
  <2>7. CASE e \in U /\ f \notin U
    <3>1. R[e] = Merge(O[e], {i}) /\ \A d \in U : d # e => R[d] = O[d]
      BY <1>1, <1>6, <1>7, <2>2, <2>7
    <3>2. Holds(IF e \in U THEN Updated(cell[n], i) ELSE cell[n], R, U, n.bdry)
      BY <1>5, <2>2, <2>3, <3>1, HoldsUpdated
    <3>3. QED
      BY <1>a, <2>4, <2>5, <2>6, <2>7, <3>2 DEF U
  <2>8. CASE e \notin U /\ f \in U
    <3>1. R[f] = Merge(O[f], {i}) /\ \A d \in U : d # f => R[d] = O[d]
      BY <1>1, <1>6, <1>7, <2>2, <2>8
    <3>2. Holds(IF f \in U THEN Updated(cell[n], i) ELSE cell[n], R, U, n.bdry)
      BY <1>5, <2>2, <2>3, <3>1, HoldsUpdated
    <3>3. QED
      BY <1>a, <2>4, <2>5, <2>6, <2>8, <3>2 DEF U
  <2>9. CASE e \notin U /\ f \notin U
    <3>1. \A d \in U : R[d] = O[d]
      BY <1>6, <1>7, <2>2, <2>9
    <3>2. Holds(cell[n], R, U, n.bdry)
      BY <2>3, <3>1, HoldsStill
    <3>3. QED
      BY <1>a, <2>4, <2>5, <2>6, <2>9, <3>2 DEF U
  <2>10. CASE e \in U /\ f \in U
    <3> DEFINE D == {i}
    <3>1. Q[e] = Merge(O[e], D) /\ Q[f] = O[f] /\ R[f] = Merge(Q[f], D)
          /\ (\A d \in U : d # e => Q[d] = O[d]) /\ (\A d \in U : d # f => R[d] = Q[d])
          /\ D \subseteq Indexes /\ Q[f] \subseteq Indexes
      BY <1>1, <1>5, <1>6, <1>7, <2>2
    <3> HIDE DEF D
    <3>2. Sum(Q, U) = Merge(Sum(O, U), D)
      BY <1>5, <2>2, <2>10, <3>1, SumToggled
    <3>3. Sum(R, U) = Merge(Sum(Q, U), D)
      BY <2>2, <2>10, <3>1, SumToggled
    <3>4. Sum(R, U) = Sum(O, U)
      BY <3>2, <3>3, MergeIs
    <3>5. Holds(cell[n], R, U, n.bdry)
      BY <2>3, <3>4 DEF Holds
    <3>6. QED
      BY <1>a, <2>4, <2>5, <2>6, <2>10, <3>5 DEF U
  <2>11. QED
    BY <2>7, <2>8, <2>9, <2>10
<1>9. \A d \in Elements \ carriers : R[d] = {}
  BY <1>4, <1>6, <1>7
<1>10. Owns(R, lists', cell', carriers')
  BY <1>3, <1>7, <1>8, <1>9 DEF Owns, Good
<1>11. QED
  BY <1>3, <1>10 DEF Stays

\* What is left when an element that is alone goes.
LEMMA AloneDropped ==
    ASSUME ListsInv, Rest, NEW O, Owns(O, lists, cell, carriers),
           NEW e \in Elements, UninitElement(e)
    PROVE  /\ ListsInv' /\ lists' = lists \ {<<e>>} /\ Live' = Live \ {e} /\ e \in Live
           /\ Full(Elem(e, 1)) = O[e] /\ DOMAIN parent' = DOMAIN parent \ AllNodes(<<e>>)
           /\ DOMAIN Without(cell, AllNodes(<<e>>)) = DOMAIN parent'
           /\ \A n \in DOMAIN parent' : Without(cell, AllNodes(<<e>>))[n] = cell[n]
           /\ \A s \in lists' : AllNodes(s) \subseteq DOMAIN parent' /\ e \notin Listed(s)
<1> DEFINE u == <<e>>
<1>1. u \in lists /\ lists' = lists \ {u}
  BY DEF UninitElement
<1>2. ListsInv' /\ DOMAIN parent' = DOMAIN parent \ AllNodes(u)
  BY UninitElementOrders
<1>3. Proper(u) /\ Listed(u) = {e}
  BY Alone
<1>4. O[e] \subseteq Indexes
  BY DEF Owns
<1> HIDE DEF u
<1>5. Full(Elem(e, 1)) = O[e]
  <2>1. Good(cell, O, u)
    BY <1>1 DEF Owns
  <2>2. FullOf(cell[Elem(e, 1)]) = O[e]
    BY <1>3, <1>4, <2>1, GoodOwn
  <2>3. QED
    BY <2>2 DEF Full, FullOf
<1>6. /\ DOMAIN Without(cell, AllNodes(u)) = DOMAIN parent'
      /\ \A n \in DOMAIN parent' : Without(cell, AllNodes(u))[n] = cell[n]
  <2> DEFINE N == AllNodes(u)
  <2>1. DOMAIN Without(cell, N) = DOMAIN parent \ N
    BY Dropped DEF Rest
  <2>2. \A n \in DOMAIN parent : n \notin N => Without(cell, N)[n] = cell[n]
    BY Dropped DEF Rest
  <2>3. QED
    BY <1>2, <2>1, <2>2
<1>7. \A s \in lists' : AllNodes(s) \subseteq DOMAIN parent' /\ e \notin Listed(s)
  <2>1. SUFFICES ASSUME NEW s \in lists'
                 PROVE  AllNodes(s) \subseteq DOMAIN parent' /\ e \notin Listed(s)
    OBVIOUS
  <2>2. s \in lists /\ s # u
    BY <1>1
  <2>3. /\ AllNodes(s) \subseteq DOMAIN parent /\ Listed(s) \cap Listed(u) = {}
        /\ AllNodes(s) \cap AllNodes(u) = {}
    BY <1>1, <2>2, ListsApart
  <2>4. QED
    BY <1>2, <1>3, <2>3
<1>8. Live' = Live \ {e} /\ e \in Live
  <2>1. Live = (UNION {Listed(s) : s \in lists'}) \cup {e}
    BY <1>1, <1>3 DEF Live
  <2>2. Live' = UNION {Listed(s) : s \in lists'}
    BY DEF Live
  <2>3. QED
    BY <1>7, <2>1, <2>2
<1>9. QED
  BY <1>1, <1>2, <1>5, <1>6, <1>7, <1>8 DEF u

\* delete_edge() of an element that is not an allowed_caller.
LEMMA DeletePlainKeeps ==
    ASSUME ListsInv, Rest, NEW O, Owns(O, lists, cell, carriers),
           NEW e \in Elements, UninitElement(e), updates' = updates,
           e \notin carriers, cell' = Without(cell, AllNodes(<<e>>)),
           carriers' = carriers, temp_sketch' = temp_sketch
    PROVE  ListsInv' /\ Rest' /\ \E R : Owns(R, lists', cell', carriers') /\ Stays(O, R)
<1>1. /\ ListsInv' /\ lists' = lists \ {<<e>>} /\ Live' = Live \ {e} /\ e \in Live
      /\ DOMAIN cell' = DOMAIN parent'
      /\ \A n \in DOMAIN parent' : cell'[n] = cell[n]
      /\ \A s \in lists' : AllNodes(s) \subseteq DOMAIN parent'
  BY AloneDropped
<1>2. ASSUME NEW s \in lists'
      PROVE  Good(cell', O, s)
  <2>1. s \in lists /\ \A n \in AllNodes(s) : cell'[n] = cell[n]
    BY <1>1
  <2>2. Good(cell, O, s) /\ Proper(s)
    BY <2>1, ListsApart DEF Owns
  <2>3. QED
    BY <2>1, <2>2, GoodStill
<1>3. Owns(O, lists', cell', carriers')
  BY <1>2 DEF Owns
<1>4. Rest'
  BY <1>1 DEF Rest
<1>5. QED
  BY <1>1, <1>3, <1>4 DEF Stays

\* Of one whose vertex has no other: its sketch goes to temp_sketch.
LEMMA DeleteLastKeeps ==
    ASSUME ListsInv, Rest, NEW O, Owns(O, lists, cell, carriers),
           NEW e \in Elements, UninitElement(e), updates' = updates,
           e \in carriers, cell' = Without(cell, AllNodes(<<e>>)),
           carriers' = carriers \ {e}, temp_sketch' = Merge(temp_sketch, Full(Elem(e, 1)))
    PROVE  ListsInv' /\ Rest' /\ \E R : Owns(R, lists', cell', carriers') /\ Stays(O, R)
<1> DEFINE R == [O EXCEPT ![e] = {}]
<1>1. /\ ListsInv' /\ lists' = lists \ {<<e>>} /\ Live' = Live \ {e} /\ e \in Live
      /\ Full(Elem(e, 1)) = O[e] /\ DOMAIN cell' = DOMAIN parent'
      /\ \A n \in DOMAIN parent' : cell'[n] = cell[n]
      /\ \A s \in lists' : AllNodes(s) \subseteq DOMAIN parent' /\ e \notin Listed(s)
  BY AloneDropped
<1>2. O \in [Elements -> SUBSET Indexes] /\ \A d \in Elements \ carriers : O[d] = {}
  BY DEF Owns
<1>3. /\ R \in [Elements -> SUBSET Indexes] /\ R[e] = {}
      /\ \A d \in Elements : d # e => R[d] = O[d]
  BY <1>2
<1> HIDE DEF R
<1>4. ASSUME NEW s \in lists'
      PROVE  Good(cell', R, s)
  <2>1. s \in lists /\ \A n \in AllNodes(s) : cell'[n] = cell[n]
    BY <1>1
  <2>2. Good(cell, O, s) /\ Proper(s) /\ Listed(s) \subseteq Elements
    BY <2>1, ListsApart DEF Owns
  <2>3. \A d \in Listed(s) : R[d] = O[d]
    BY <1>1, <1>3, <2>2
  <2>4. QED
    BY <2>1, <2>2, <2>3, GoodStill
<1>5. \A d \in Elements \ carriers' : R[d] = {}
  BY <1>2, <1>3
<1>6. Owns(R, lists', cell', carriers')
  BY <1>3, <1>4, <1>5 DEF Owns
<1>7. temp_sketch' \subseteq Indexes
  BY <1>1, <1>2 DEF Rest, Merge
<1>8. Rest'
  BY <1>1, <1>7 DEF Rest
<1>9. QED
  BY <1>1, <1>6, <1>8 DEF Stays

\* Of one whose vertex has another: that one gets the sketch.
LEMMA DeleteHandsOver ==
    ASSUME ListsInv, Rest, NEW O, Owns(O, lists, cell, carriers),
           NEW e \in Elements, UninitElement(e), updates' = updates,
           e \in carriers, NEW c \in Live \ {e},
           cell' = [n \in PathNodes(c) |-> Plus(cell[n], [agg |-> Full(Elem(e, 1)), size |-> 0])]
                   ++ Without(cell, AllNodes(<<e>>)),
           carriers' = (carriers \ {e}) \cup {c}, temp_sketch' = temp_sketch
    PROVE  ListsInv' /\ Rest' /\ \E R : Owns(R, lists', cell', carriers') /\ Stays(O, R)
<1> DEFINE Q == [O EXCEPT ![e] = {}]
           R == [Q EXCEPT ![c] = Merge(O[c], O[e])]
           D == O[e]
           g == [agg |-> D, size |-> 0]
           given == [n \in PathNodes(c) |-> Plus(cell[n], g)]
           kept == Without(cell, AllNodes(<<e>>))
<1>1. /\ ListsInv' /\ lists' = lists \ {<<e>>} /\ Live' = Live \ {e} /\ e \in Live
      /\ Full(Elem(e, 1)) = D /\ DOMAIN kept = DOMAIN parent'
      /\ \A n \in DOMAIN parent' : kept[n] = cell[n]
      /\ \A s \in lists' : AllNodes(s) \subseteq DOMAIN parent' /\ e \notin Listed(s)
  BY AloneDropped
<1>2. O \in [Elements -> SUBSET Indexes] /\ \A d \in Elements \ carriers : O[d] = {}
  BY DEF Owns
<1>3. c \in Elements /\ c # e
  BY ListsApart DEF Live
<1>4. /\ D \subseteq Indexes /\ O[c] \subseteq Indexes /\ Merge(O[c], D) \subseteq Indexes
      /\ D = O[e]
  BY <1>2, <1>3 DEF Merge
<1>5. DOMAIN given = PathNodes(c) /\ \A n \in PathNodes(c) : given[n] = Plus(cell[n], g)
  OBVIOUS
<1>6. cell' = given ++ kept
  BY <1>1
<1> HIDE DEF given, kept, D
<1>7. WrittenAs(cell', given, kept)
  BY <1>6, WrittenIs
<1>8. /\ Q \in [Elements -> SUBSET Indexes] /\ Q[e] = {}
      /\ \A d \in Elements : d # e => Q[d] = O[d]
  BY <1>2
<1> HIDE DEF Q
<1>9. /\ R \in [Elements -> SUBSET Indexes] /\ R[c] = Merge(O[c], D)
      /\ \A d \in Elements : d # c => R[d] = Q[d]
  BY <1>3, <1>4, <1>8
<1> HIDE DEF R
<1>10. /\ \A r \in lists : \A n \in AllNodes(r) : n \in PathNodes(c) <=> c \in Under(r, n)
       /\ \E s \in lists : c \in Listed(s) /\ PathNodes(c) \subseteq AllNodes(s)
  BY OnWay
<1>11. PathNodes(c) \subseteq DOMAIN parent'
  <2>1. PICK s \in lists : c \in Listed(s) /\ PathNodes(c) \subseteq AllNodes(s)
    BY <1>10
  <2>2. s # <<e>>
    BY <1>3, <2>1, Alone
  <2>3. QED
    BY <1>1, <2>1, <2>2
<1>12. /\ DOMAIN cell' = DOMAIN parent'
       /\ \A n \in DOMAIN parent' : cell'[n] = IF n \in PathNodes(c) THEN Plus(cell[n], g) ELSE cell[n]
  BY <1>1, <1>5, <1>7, <1>11 DEF WrittenAs
<1> HIDE DEF g
<1>13. ASSUME NEW s \in lists', NEW n \in AllNodes(s)
       PROVE  Holds(cell'[n], R, Under(s, n), n.bdry)
  <2>1. s \in lists /\ n \in DOMAIN parent' /\ e \notin Listed(s)
    BY <1>1
  <2>2. Proper(s) /\ Listed(s) \subseteq Elements
    BY <2>1, ListsApart
  <2>3. IsFiniteSet(Under(s, n)) /\ Under(s, n) \subseteq Listed(s)
    BY <2>2, UnderIs
  <2>4. Holds(cell[n], O, Under(s, n), n.bdry)
    BY <2>1 DEF Owns, Good
  <2>5. \A d \in Under(s, n) : d # c => R[d] = O[d]
    BY <1>8, <1>9, <2>1, <2>2, <2>3
  <2>6. Holds(IF c \in Under(s, n) THEN Plus(cell[n], g) ELSE cell[n], R, Under(s, n), n.bdry)
    BY <1>4, <1>9, <2>3, <2>4, <2>5, HoldsGiven DEF g
  <2>7. n \in PathNodes(c) <=> c \in Under(s, n)
    BY <1>10, <2>1
  <2>8. QED
    BY <1>12, <2>1, <2>6, <2>7
<1>14. \A d \in Elements \ carriers' : R[d] = {}
  BY <1>2, <1>3, <1>8, <1>9
<1>15. Owns(R, lists', cell', carriers')
  BY <1>9, <1>13, <1>14 DEF Owns, Good
<1>16. Rest'
  BY <1>1, <1>12 DEF Rest
<1>17. Stays(O, R)
  BY <1>3 DEF Stays
<1>18. QED
  BY <1>1, <1>15, <1>16, <1>17

\* delete_edge() of an element that is alone.
LEMMA DeleteEdgeKeeps ==
    ASSUME ListsInv, Rest, NEW O, Owns(O, lists, cell, carriers),
           NEW e \in Elements, DeleteEdge(e)
    PROVE  ListsInv' /\ Rest' /\ \E R : Owns(R, lists', cell', carriers') /\ Stays(O, R)
<1>1. UninitElement(e) /\ updates' = updates
  BY DEF DeleteEdge
<1>2. CASE /\ e \notin carriers
           /\ cell' = Without(cell, AllNodes(<<e>>))
           /\ carriers' = carriers /\ temp_sketch' = temp_sketch
  BY <1>1, <1>2, DeletePlainKeeps
<1>3. CASE /\ e \in carriers
           /\ cell' = Without(cell, AllNodes(<<e>>))
           /\ carriers' = carriers \ {e}
           /\ temp_sketch' = Merge(temp_sketch, Full(Elem(e, 1)))
  BY <1>1, <1>3, DeleteLastKeeps
<1>4. CASE \E c \in Live \ {e} :
               /\ e \in carriers
               /\ cell' = [n \in PathNodes(c) |-> Plus(cell[n], [agg |-> Full(Elem(e, 1)), size |-> 0])]
                          ++ Without(cell, AllNodes(<<e>>))
               /\ carriers' = (carriers \ {e}) \cup {c} /\ temp_sketch' = temp_sketch
  <2>1. PICK c \in Live \ {e} :
               /\ e \in carriers
               /\ cell' = [n \in PathNodes(c) |-> Plus(cell[n], [agg |-> Full(Elem(e, 1)), size |-> 0])]
                          ++ Without(cell, AllNodes(<<e>>))
               /\ carriers' = (carriers \ {e}) \cup {c} /\ temp_sketch' = temp_sketch
    BY <1>4
  <2>2. QED
    BY <1>1, <2>1, DeleteHandsOver
<1>5. QED
  BY <1>2, <1>3, <1>4 DEF DeleteEdge

\* What holds of lists, pointers and sketches after any calls: every node stands right, and
\* for some contents of the elements every node holds and counts what it stands over.
SkipListInv == /\ ListsInv
               /\ Rest
               /\ \E O : Owns(O, lists, cell, carriers)

LEMMA InitHolds == Init => SkipListInv
<1> SUFFICES ASSUME Init
             PROVE  SkipListInv
  OBVIOUS
<1>1. /\ lists = {} /\ parent = << >> /\ cell = << >> /\ carriers = {}
      /\ temp_sketch = {} /\ updates = 0
  BY DEF Init, InitLists
<1>2. ListsInv
  <2>1. DOMAIN parent = {}
    BY <1>1
  <2>2. UNION {AllNodes(s) : s \in lists} = {}
    BY <1>1
  <2>3. QED
    BY <1>1, <2>1, <2>2 DEF ListsInv, Ordered
<1>3. Rest
  BY <1>1, SkipListAssumption DEF Rest
<1> DEFINE O == [e \in Elements |-> {}]
<1>4. O \in [Elements -> SUBSET Indexes] /\ \A e \in Elements : O[e] = {}
  OBVIOUS
<1> HIDE DEF O
<1>5. Owns(O, lists, cell, carriers)
  BY <1>1, <1>4 DEF Owns
<1>6. QED
  BY <1>2, <1>3, <1>5 DEF SkipListInv

LEMMA NextKeeps ==
    ASSUME ListsInv, Rest, NEW O, Owns(O, lists, cell, carriers), Next
    PROVE  ListsInv' /\ Rest' /\ \E R : Owns(R, lists', cell', carriers') /\ Stays(O, R)
<1>1. ASSUME NEW e \in Elements, MakeEdge(e)
      PROVE  ListsInv' /\ Rest' /\ \E R : Owns(R, lists', cell', carriers') /\ Stays(O, R)
  BY <1>1, MakeEdgeKeeps
<1>2. ASSUME NEW e \in Elements, DeleteEdge(e)
      PROVE  ListsInv' /\ Rest' /\ \E R : Owns(R, lists', cell', carriers') /\ Stays(O, R)
  BY <1>2, DeleteEdgeKeeps
<1>3. ASSUME NEW s \in lists, NEW t \in lists, JoinLists(s, t)
      PROVE  ListsInv' /\ Rest' /\ \E R : Owns(R, lists', cell', carriers') /\ Stays(O, R)
  BY <1>3, JoinKeeps
<1>4. ASSUME NEW s \in lists, NEW p \in DOMAIN s, SplitList(s, p)
      PROVE  ListsInv' /\ Rest' /\ \E R : Owns(R, lists', cell', carriers') /\ Stays(O, R)
  BY <1>4, SplitKeeps
<1>5. ASSUME NEW e \in carriers, NEW i \in Indexes, UpdatePath(e, i)
      PROVE  ListsInv' /\ Rest' /\ \E R : Owns(R, lists', cell', carriers') /\ Stays(O, R)
  BY <1>5, UpdatePathKeeps
<1>6. ASSUME NEW e \in carriers, NEW i \in Indexes, NEW f \in carriers, UpdateSketches(e, f, i)
      PROVE  ListsInv' /\ Rest' /\ \E R : Owns(R, lists', cell', carriers') /\ Stays(O, R)
  BY <1>6, UpdateSketchesKeeps
<1>7. QED
  BY <1>1, <1>2, <1>3, <1>4, <1>5, <1>6 DEF Next

LEMMA StepHolds == SkipListInv /\ [Next]_vars => SkipListInv'
<1> SUFFICES ASSUME SkipListInv, [Next]_vars
             PROVE  SkipListInv'
  OBVIOUS
<1>1. PICK O : Owns(O, lists, cell, carriers)
  BY DEF SkipListInv
<1>2. CASE Next
  <2>1. ListsInv /\ Rest
    BY DEF SkipListInv
  <2>2. ListsInv' /\ Rest' /\ \E R : Owns(R, lists', cell', carriers') /\ Stays(O, R)
    BY <1>1, <1>2, <2>1, NextKeeps
  <2>3. QED
    BY <2>2 DEF SkipListInv
<1>3. CASE UNCHANGED vars
  <2>1. /\ lists' = lists /\ parent' = parent /\ cell' = cell /\ carriers' = carriers
        /\ temp_sketch' = temp_sketch /\ updates' = updates
    BY <1>3 DEF vars
  <2>2. ListsInv' /\ Live' = Live
    BY <2>1 DEF SkipListInv, ListsInv, Live
  <2>3. Rest'
    BY <2>1, <2>2 DEF SkipListInv, Rest
  <2>4. QED
    BY <1>1, <2>1, <2>2, <2>3 DEF SkipListInv
<1>4. QED
  BY <1>2, <1>3

\* SkipListInv holds after any calls, for any heights of the elements, any size of the buffers
\* and any sequence of joins, splits, hand-overs and updates.
THEOREM Invariance == Spec => []SkipListInv
BY InitHolds, StepHolds, PTL DEF Spec

------------------------------------------------------------------------------
\* What follows

\* The nodes below a node are those that should point to it.
LEMMA ChildrenAre ==
    ASSUME ListsInv, NEW s \in lists, NEW n \in AllNodes(s)
    PROVE  Children(n) = Kids(s, n)
<1>1. /\ DOMAIN parent = UNION {AllNodes(t) : t \in lists}
      /\ \A t \in lists : Proper(t) /\ Pointers(parent, t)
  BY DEF ListsInv, Ordered
<1>2. ASSUME NEW m \in Kids(s, n)
      PROVE  m \in Children(n)
  BY <1>1, <1>2 DEF Kids, Children, Pointers
<1>3. ASSUME NEW m \in Children(n)
      PROVE  m \in Kids(s, n)
  <2>1. PICK t \in lists : m \in AllNodes(t)
    BY <1>1, <1>3 DEF Children
  <2>2. Nearest(t, m) = n /\ Proper(t)
    BY <1>1, <1>3, <2>1 DEF Children, Pointers
  <2>3. CASE t = s
    BY <2>1, <2>2, <2>3 DEF Kids
  <2>4. CASE t # s
    <3>1. AllNodes(s) \cap AllNodes(t) = {} /\ Proper(s)
      BY <2>4, ListsApart
    <3>2. PICK q, k : NodeAt(t, q, k) /\ m = Named(t, q, k)
      BY <2>1, <2>2, NodesAre
    <3>3. Nearest(t, m) = IF m = Root(t) THEN NoNode ELSE Cover(t, q, k + 1)
      BY <2>2, <3>2, NearestIs
    <3>4. n # NoNode
      <4>1. n.level \in 1 .. Tallest(s) + 1 /\ NoNode.level = 0 /\ Tallest(s) \in Nat
        BY <3>1, RootIs, NodeNames, TallestIs
      <4>2. QED
        BY <4>1
    <3>5. m # Root(t) /\ n = Cover(t, q, k + 1)
      BY <2>2, <3>3, <3>4
    <3>6. /\ m.level = k /\ k \in 1 .. Tallest(t) + 1 /\ k # Tallest(t) + 1 /\ Tallest(t) \in Nat
          /\ q \in 0 .. Len(t)
      <4>1. q \in 0 .. Len(t)
        BY <3>2 DEF NodeAt
      <4>2. m.level = k
        BY <2>2, <3>2, <4>1, NamedApart
      <4>3. QED
        BY <2>1, <2>2, <3>5, <4>1, <4>2, RootIs, TallestIs
    <3>7. k + 1 \in 1 .. Tallest(t) + 1
      BY <3>6
    <3>8. n \in AllNodes(t)
      BY <2>2, <3>5, <3>6, <3>7, CoverNode
    <3>9. QED
      BY <3>1, <3>8
  <2>5. QED
    BY <2>3, <2>4
<1>4. QED
  BY <1>2, <1>3

\* There are finitely many, and the boundary is among them where it should be.
LEMMA KidsAre ==
    ASSUME NEW s, Proper(s), NEW n \in AllNodes(s), n.level # 1
    PROVE  /\ IsFiniteSet(Kids(s, n))
           /\ \E X : /\ X = {m \in Kids(s, n) : m.bdry}
                     /\ Cardinality(X) = IF n.bdry THEN 1 ELSE 0
<1> DEFINE j == n.level - 1
           K == Kids(s, n)
           X == {m \in K : m.bdry}
<1>1. \A m \in K : m.level = j /\ m \in AllNodes(s) /\ Nearest(s, m) = n
  BY UnderKids DEF Kids
<1>2. IsFiniteSet(K)
  <2> DEFINE I == {Named(s, q, j) : q \in 0 .. Len(s)}
             f == [q \in 0 .. Len(s) |-> Named(s, q, j)]
  <2>1. K \subseteq I
    <3>1. SUFFICES ASSUME NEW m \in K
                   PROVE  m \in I
      OBVIOUS
    <3>2. PICK q, k : NodeAt(s, q, k) /\ m = Named(s, q, k)
      BY <1>1, <3>1, NodesAre
    <3>3. q \in 0 .. Len(s)
      BY <3>2 DEF NodeAt
    <3>4. k = j
      BY <1>1, <3>1, <3>2, <3>3, NamedApart
    <3>5. QED
      BY <3>2, <3>3, <3>4
  <2>2. f \in Surjection(0 .. Len(s), I)
    BY DEF Surjection
  <2>3. IsFiniteSet(0 .. Len(s))
    BY ProperList, FS_Interval
  <2> HIDE DEF I, f
  <2>4. IsFiniteSet(I)
    BY <2>2, <2>3, FS_Surjection
  <2>5. QED
    BY <2>1, <2>4, FS_Subset
<1>3. CASE n.bdry
  <2>1. n \in Boundary(s)
    BY <1>3, NodesBelong
  <2>2. PICK k \in 1 .. Tallest(s) + 1 : n = Bdry(s[1], k)
    BY <2>1 DEF Boundary
  <2>3. k # 1 /\ n.level = k
    BY <2>2, NodeNames
  <2>4. K = {Bdry(s[1], k - 1)} \cup {m \in Leading(s) : m.level = k - 1}
    BY <2>2, <2>3, BoundaryKids
  <2>5. \A m \in Leading(s) : ~m.bdry
    BY LeadingListed, NodesBelong
  <2>6. Bdry(s[1], k - 1).bdry
    BY NodeNames
  <2> HIDE DEF K
  <2>7. X = {Bdry(s[1], k - 1)}
    BY <2>4, <2>5, <2>6
  <2>8. Cardinality(X) = 1
    BY <2>7, FS_Singleton
  <2>9. QED
    BY <1>2, <1>3, <2>8 DEF K
<1>4. CASE ~n.bdry
  <2>1. \A m \in K : ~m.bdry
    <3>1. SUFFICES ASSUME NEW m \in K, m.bdry
                   PROVE  FALSE
      OBVIOUS
    <3>2. m \in Boundary(s)
      BY <1>1, <3>1, NodesBelong
    <3>3. n = Above(s, m)
      BY <1>1, <3>1, <3>2, BoundaryNearest
    <3>4. QED
      BY <1>4, <3>3, NodeNames DEF Above, NoNode
  <2>2. X = {}
    BY <2>1
  <2>3. Cardinality(X) = 0
    BY <2>2, FS_EmptySet
  <2>4. QED
    BY <1>2, <1>4, <2>3
<1>5. QED
  BY <1>3, <1>4

\* A node above level 1 holds and counts what the nodes below it do.
LEMMA KidsAddUp ==
    ASSUME NEW s, Proper(s), NEW n \in AllNodes(s), n.level # 1,
           NEW O, NEW c, Good(c, O, s),
           NEW full, \A m \in Kids(s, n) : full[m] = FullOf(c[m])
    PROVE  /\ FullOf(c[n]) = Sum(full, Kids(s, n))
           /\ c[n].size = Weight(c, Kids(s, n))
<1> DEFINE K == Kids(s, n)
           F == [m \in K |-> Under(s, m)]
<1>1. PICK X : /\ X = {m \in K : m.bdry}
               /\ Cardinality(X) = IF n.bdry THEN 1 ELSE 0
  BY KidsAre
<1>2. /\ \A m \in K : Under(s, m) \subseteq Under(s, n)
      /\ \A e \in Under(s, n) : \E m \in K : e \in Under(s, m)
      /\ \A m, r \in K : m # r => Under(s, m) \cap Under(s, r) = {}
  BY UnderKids
<1>3. IsFiniteSet(K)
  BY KidsAre
<1>4. \A m \in K : m \in AllNodes(s) /\ full[m] = FullOf(c[m])
  BY DEF Kids
<1>5. \A m \in K : F[m] = Under(s, m)
  OBVIOUS
<1> HIDE DEF K, F
<1>6. \A m \in K : IsFiniteSet(Under(s, m))
  BY <1>4, UnderIs
<1>7. Parts(F, K)
  BY <1>2, <1>3, <1>5, <1>6 DEF Parts
<1>8. All(F, K) = Under(s, n)
  BY <1>2, <1>5 DEF All
<1>9. \A m \in K : Holds(c[m], O, Under(s, m), m.bdry)
  BY <1>4 DEF Good
<1>10. Holds(c[n], O, Under(s, n), n.bdry)
  BY DEF Good
<1>11. \A m \in K : full[m] = Sum(O, F[m])
  BY <1>4, <1>5, <1>9 DEF Holds
<1>12. Sum(full, K) = Sum(O, All(F, K))
  BY <1>7, <1>11, PartsSum
<1>13. \A m \in K : c[m].size = Cardinality(F[m]) + (IF m \in X THEN 1 ELSE 0)
  BY <1>1, <1>5, <1>9 DEF Holds
<1>14. Weight(c, K) = Cardinality(All(F, K)) + Cardinality(X)
  BY <1>1, <1>7, <1>13, PartsWeigh
<1>15. QED
  BY <1>1, <1>8, <1>10, <1>12, <1>14 DEF Holds, K

\* A node counts one at least: its own element, or the boundary.
LEMMA CountsOne ==
    ASSUME NEW s, Proper(s), NEW n \in AllNodes(s), NEW O, NEW c, Good(c, O, s)
    PROVE  c[n].size \in Nat \ {0}
<1> DEFINE U == Under(s, n)
           u == Cardinality(U)
<1>1. IsFiniteSet(U) /\ c[n].size = u + (IF n.bdry THEN 1 ELSE 0)
  BY UnderIs DEF Good, Holds
<1>2. u \in Nat
  BY <1>1, FS_CardinalityType
<1>3. CASE n.bdry
  <2> HIDE DEF u
  <2>1. QED
    BY <1>1, <1>2, <1>3
<1>4. CASE ~n.bdry
  <2>1. n.elem \in U
    BY <1>4, NodesBelong, UnderOwn
  <2> DEFINE w == Cardinality(U \ {n.elem})
  <2>2. w \in Nat /\ u = w + 1
    BY <1>1, <2>1, OneLess
  <2> HIDE DEF u, w
  <2>3. QED
    BY <1>1, <1>4, <2>2
<1>5. QED
  BY <1>3, <1>4

LEMMA InvTypes == SkipListInv => TypeOK
<1> SUFFICES ASSUME SkipListInv
             PROVE  TypeOK
  OBVIOUS
<1>1. PICK O : Owns(O, lists, cell, carriers)
  BY DEF SkipListInv
<1>2. /\ DOMAIN parent = UNION {AllNodes(s) : s \in lists} /\ DOMAIN cell = DOMAIN parent
      /\ \A s \in lists : Proper(s)
  BY DEF SkipListInv, ListsInv, Ordered, Rest
<1>3. ASSUME NEW n \in DOMAIN cell
      PROVE  /\ cell[n].agg \subseteq Indexes /\ cell[n].size \in Nat \ {0}
             /\ Len(cell[n].buf) < BufferCap
  <2>1. PICK s \in lists : n \in AllNodes(s)
    BY <1>2
  <2>2. Good(cell, O, s) /\ Proper(s)
    BY <1>1, <1>2 DEF Owns
  <2>3. cell[n] \in Cells
    BY <2>1, <2>2 DEF Good, Holds
  <2>4. QED
    BY <2>1, <2>2, <2>3, CellFull, CountsOne
<1>4. QED
  BY <1>2, <1>3 DEF TypeOK, SkipListInv, Rest

LEMMA InvNearest == SkipListInv => ParentsAreNearest
  BY DEF SkipListInv, ListsInv, Ordered, Pointers, ParentsAreNearest

LEMMA InvSums == SkipListInv => AggregatesAreSums
<1> SUFFICES ASSUME SkipListInv, NEW n \in DOMAIN cell
             PROVE  /\ n.level > 1 => LET below == Children(n)
                                      IN  Full(n) = Sum([m \in below |-> Full(m)], below)
                    /\ n.level = 1 /\ (n.bdry \/ n.elem \notin carriers) => Full(n) = {}
  BY DEF AggregatesAreSums
<1>1. PICK O : Owns(O, lists, cell, carriers)
  BY DEF SkipListInv
<1>2. ListsInv /\ DOMAIN cell = DOMAIN parent
  BY DEF SkipListInv, Rest
<1>3. PICK s \in lists : n \in AllNodes(s)
  BY <1>2 DEF ListsInv, Ordered
<1>4. Good(cell, O, s) /\ Proper(s)
  BY <1>1, <1>2, ListsApart DEF Owns
<1>5. n.level \in Nat
  BY <1>3, <1>4, RootIs, TallestIs
<1>6. ASSUME n.level > 1
      PROVE  LET below == Children(n)
             IN  Full(n) = Sum([m \in below |-> Full(m)], below)
  <2> DEFINE K == Kids(s, n)
             full == [m \in K |-> Full(m)]
  <2>1. Children(n) = K
    BY <1>2, <1>3, ChildrenAre
  <2>2. \A m \in K : full[m] = FullOf(cell[m])
    BY DEF Full, FullOf
  <2> HIDE DEF full
  <2>3. FullOf(cell[n]) = Sum(full, K)
    BY <1>3, <1>4, <1>5, <1>6, <2>2, KidsAddUp
  <2>4. Full(n) = Sum(full, K)
    BY <2>3 DEF Full, FullOf
  <2>5. QED
    BY <2>1, <2>4 DEF full
<1>7. ASSUME n.level = 1, n.bdry \/ n.elem \notin carriers
      PROVE  Full(n) = {}
  <2>1. Full(n) = Sum(O, Under(s, n))
    BY <1>3, <1>4 DEF Good, Holds, Full, FullOf
  <2>2. CASE n.bdry
    <3>1. n \in Boundary(s)
      BY <1>3, <1>4, <2>2, NodesBelong
    <3>2. n = Bdry(s[1], 1)
      BY <1>7, <3>1, NodeNames DEF Boundary
    <3>3. Under(s, n) = {}
      BY <1>4, <3>2, UnderEnds
    <3>4. Sum(O, {}) = {}
      <4>1. s[1] \in Elements
        BY <1>4, ProperList
      <4>2. O[s[1]] \subseteq Indexes
        BY <1>1, <4>1 DEF Owns
      <4>3. QED
        BY <4>2, SumOfOne
    <3>5. QED
      BY <2>1, <3>3, <3>4
  <2>3. CASE ~n.bdry /\ n.elem \notin carriers
    <3>1. n \in ListNodes(s)
      BY <1>3, <1>4, <2>3, NodesBelong
    <3>2. PICK e \in Listed(s) : \E j \in 1 .. Height[e] : n = Elem(e, j)
      BY <3>1 DEF ListNodes
    <3>3. n = Elem(e, 1) /\ e \notin carriers
      BY <1>7, <2>3, <3>2, NodeNames
    <3>4. Under(s, n) = {e} /\ e \in Elements
      BY <1>4, <3>2, <3>3, UnderEnds, ProperList
    <3>5. O[e] = {}
      BY <1>1, <3>3, <3>4 DEF Owns
    <3>6. QED
      BY <2>1, <3>4, <3>5, SumOfOne
  <2>4. QED
    BY <1>7, <2>2, <2>3
<1>8. QED
  BY <1>6, <1>7

LEMMA InvSizes == SkipListInv => SizesCount
<1> SUFFICES ASSUME SkipListInv
             PROVE  SizesCount
  OBVIOUS
<1>1. PICK O : Owns(O, lists, cell, carriers)
  BY DEF SkipListInv
<1>2. ListsInv /\ DOMAIN cell = DOMAIN parent
  BY DEF SkipListInv, Rest
<1>3. ASSUME NEW s \in lists
      PROVE  cell[Root(s)].size = Len(s) + 1
  <2>1. Good(cell, O, s) /\ Proper(s)
    BY <1>1, <1>2, ListsApart DEF Owns
  <2>2. Root(s) \in AllNodes(s) /\ Root(s).bdry /\ Under(s, Root(s)) = Listed(s)
    BY <2>1, RootIs, UnderEnds
  <2>3. cell[Root(s)].size = Cardinality(Listed(s)) + 1
    BY <2>1, <2>2 DEF Good, Holds
  <2>4. QED
    BY <2>1, <2>3, ListedCount
<1>4. ASSUME NEW n \in DOMAIN cell, n.level > 1
      PROVE  cell[n].size = Weight(cell, Children(n))
  <2>1. PICK s \in lists : n \in AllNodes(s)
    BY <1>2 DEF ListsInv, Ordered
  <2>2. Good(cell, O, s) /\ Proper(s)
    BY <1>1, <1>2, ListsApart DEF Owns
  <2>3. n.level \in Nat
    BY <2>1, <2>2, RootIs, TallestIs
  <2> DEFINE full == [m \in Kids(s, n) |-> FullOf(cell[m])]
  <2>4. \A m \in Kids(s, n) : full[m] = FullOf(cell[m])
    OBVIOUS
  <2> HIDE DEF full
  <2>5. cell[n].size = Weight(cell, Kids(s, n))
    BY <1>4, <2>1, <2>2, <2>3, <2>4, KidsAddUp
  <2>6. QED
    BY <1>2, <2>1, <2>5, ChildrenAre
<1>5. QED
  BY <1>3, <1>4 DEF SizesCount

LEMMA StepStays ==
    SkipListInv /\ [Next]_vars =>
        [lists' # lists /\ carriers' = carriers
            => \A e \in carriers : Full(Elem(e, 1))' = Full(Elem(e, 1))]_vars
<1> SUFFICES ASSUME SkipListInv, Next, lists' # lists, carriers' = carriers, NEW e \in carriers
             PROVE  Full(Elem(e, 1))' = Full(Elem(e, 1))
  BY DEF vars
<1>1. PICK O : Owns(O, lists, cell, carriers)
  BY DEF SkipListInv
<1>2. ListsInv /\ Rest
  BY DEF SkipListInv
<1>3. ListsInv' /\ Rest' /\ \E R : Owns(R, lists', cell', carriers') /\ Stays(O, R)
  BY <1>1, <1>2, NextKeeps
<1>4. PICK R : Owns(R, lists', cell', carriers') /\ Stays(O, R)
  BY <1>3
<1>5. R[e] = O[e]
  BY <1>4 DEF Stays
<1>6. Full(Elem(e, 1)) = O[e]
  <2>1. PICK s \in lists : e \in Listed(s)
    BY <1>2 DEF Rest, Live
  <2>2. Good(cell, O, s) /\ Proper(s) /\ e \in Elements /\ O[e] \subseteq Indexes
    BY <1>1, <1>2, <2>1, ListsApart DEF Owns
  <2>3. QED
    BY <2>1, <2>2, GoodOwn DEF Full, FullOf
<1>7. Full(Elem(e, 1))' = R[e]
  <2>1. PICK s \in lists' : e \in Listed(s)
    BY <1>3 DEF Rest, Live
  <2>2. Good(cell', R, s) /\ Proper(s)
    BY <1>3, <1>4, <2>1 DEF Owns, ListsInv, Ordered
  <2>3. e \in Elements
    BY <2>1, <2>2, ProperList
  <2>4. R[e] \subseteq Indexes
    BY <1>4, <2>3 DEF Owns
  <2>5. FullOf(cell'[Elem(e, 1)]) = R[e]
    BY <2>1, <2>2, <2>4, GoodOwn
  <2>6. QED
    BY <2>5 DEF Full, FullOf
<1>8. QED
  BY <1>5, <1>6, <1>7

------------------------------------------------------------------------------
\* After any calls the nodes are those of the lists, carriers are in lists, sizes are never
\* zero and buffers never full: the unsigned subtractions of join and split_left never wrap.
THEOREM Typed == Spec => []TypeOK
BY Invariance, InvTypes, PTL

\* Every parent pointer, as init_element, join and split_left leave it, is the closest node at
\* or left of its node on the next level, whatever the heights.
THEOREM PointersNearest == Spec => []ParentsAreNearest
BY Invariance, InvNearest, PTL

\* Every node above level 1 holds, with its waiting updates, the sum of the nodes below it,
\* whenever the buffers of size skiplist_buffer_cap were applied.
THEOREM SumsRight == Spec => []AggregatesAreSums
BY Invariance, InvSums, PTL

\* The size of a node counts the level-1 nodes below it, and that of a root its elements.
THEOREM SizesRight == Spec => []SizesCount
BY Invariance, InvSizes, PTL

\* No join or split changes what an allowed_caller's sketch holds.
THEOREM ContentsKept == Spec => ContentsStay
<1>1. SkipListInv /\ [Next]_vars =>
        [lists' # lists /\ carriers' = carriers
            => \A e \in carriers : Full(Elem(e, 1))' = Full(Elem(e, 1))]_vars
  BY StepStays
<1>2. QED
  BY <1>1, Invariance, PTL DEF Spec, ContentsStay
=============================================================================
