--------------------------- MODULE EulerTourProofs ---------------------------
(***************************************************************************)
(* The lists of an Euler tour tree stay the Euler tours of a forest and    *)
(* each vertex keeps its sketch at one occurrence, for every set of        *)
(* vertices.  The lemmas of the first part are about tours as lists of     *)
(* occurrences: what link() and cut() of both Euler tour trees make of the *)
(* lists they take apart and join.                                         *)
(***************************************************************************)
EXTENDS EulerTourTree, ForestProofs, SequenceTheorems

------------------------------------------------------------------------------
\* Lists of occurrences

\* Where the second of two lists is found.
LEMMA InSecond ==
    ASSUME NEW s \in Seq(Occurrences), NEW r \in Seq(Occurrences), NEW k \in 1 .. Len(r)
    PROVE  (s \o r)[Len(s) + k] = r[k] /\ Len(s) + k \in 1 .. Len(s) + Len(r)
<1> DEFINE m == Len(s)
           c == s \o r
<1>1. \A i \in 1 .. m + Len(r) : c[i] = IF i <= m THEN s[i] ELSE r[i - m]
  BY ConcatProperties, Zenon
<1>2. m \in Nat /\ Len(r) \in Nat
  BY LenProperties
<1> HIDE DEF m, c
<1>3. PICK x \in Int : x = m + k
  BY <1>2
<1>4. x \in 1 .. m + Len(r) /\ ~(x <= m) /\ x - m = k
  BY <1>2, <1>3
<1>5. c[x] = r[x - m]
  BY <1>1, <1>4, Zenon
<1>6. QED
  BY <1>3, <1>4, <1>5 DEF c, m

\* A walk of occurrences from a to b, in which each goes on to where the next one is.
Path(s, a, b) == IF s = <<>> THEN a = b
                 ELSE /\ s[1][1] = a /\ s[Len(s)][2] = b
                      /\ \A k \in 1 .. Len(s) - 1 : s[k][2] = s[k + 1][1]

\* No occurrence is listed twice.
Distinct(s) == \A i, j \in 1 .. Len(s) : s[i] = s[j] => i = j

Back(o) == <<o[2], o[1]>>

\* Each edge is listed both ways, and the only sentinel is the one of a.
TwoWays(S) == \A o \in S : o[2] # Null => Back(o) \in S
EndsAt(S, a) == \A o \in S : o[2] = Null => o[1] = a

\* What is listed.
LEMMA ListedElements ==
    ASSUME NEW s \in Seq(Occurrences)
    PROVE  /\ Listed(s) = {s[k] : k \in 1 .. Len(s)}
           /\ Listed(s) \subseteq Occurrences
           /\ \A k \in 1 .. Len(s) : s[k] \in Listed(s)
           /\ \A o \in Listed(s) : \E k \in 1 .. Len(s) : s[k] = o
           /\ Len(s) \in Nat
           /\ s # <<>> <=> Len(s) # 0
<1>1. /\ Len(s) \in Nat /\ DOMAIN s = 1 .. Len(s)
  BY LenProperties
<1>2. \A k \in 1 .. Len(s) : s[k] \in Occurrences
  BY ElementOfSeq
<1>3. s # <<>> <=> Len(s) # 0
  BY EmptySeq, <1>1
<1>4. QED
  BY <1>1, <1>2, <1>3 DEF Listed

\* The vertex of an occurrence, where it goes on to, and what both make.
LEMMA OccurrenceParts ==
    ASSUME NEW o \in Occurrences
    PROVE  /\ o[1] \in Nodes /\ o[2] \in Nodes \cup {Null} /\ o[1] # o[2]
           /\ o = <<o[1], o[2]>>
           /\ o[2] # Null => {o[1], o[2]} \in Edges /\ Back(o) \in Occurrences /\ Back(o)[1] = o[2] /\ Back(o)[2] = o[1]
           /\ o[2] = Null => o = Sentinel(o[1])
  BY DEF Occurrences, Edges, Back, Sentinel

\* Putting lists together.
LEMMA Joined ==
    ASSUME NEW s \in Seq(Occurrences), NEW r \in Seq(Occurrences)
    PROVE  /\ s \o r \in Seq(Occurrences)
           /\ Len(s \o r) = Len(s) + Len(r)
           /\ Listed(s \o r) = Listed(s) \cup Listed(r)
           /\ Distinct(s \o r) <=> Distinct(s) /\ Distinct(r) /\ Listed(s) \cap Listed(r) = {}
<1> DEFINE m == Len(s)
           n == Len(r)
           c == s \o r
<1>1. /\ c \in Seq(Occurrences) /\ Len(c) = m + n
      /\ \A i \in 1 .. m + n : c[i] = IF i <= m THEN s[i] ELSE r[i - m]
  BY ConcatProperties, Zenon
<1> HIDE DEF c
<1>2. m \in Nat /\ n \in Nat
  BY LenProperties
<1> HIDE DEF m, n
<1>3. \A i \in 1 .. m : c[i] = s[i] /\ i \in 1 .. m + n
  BY <1>1, <1>2
<1>4. \A i \in 1 .. n : c[m + i] = r[i] /\ m + i \in 1 .. m + n
  BY InSecond DEF c, m, n
<1>5. \A i \in 1 .. m + n : i \in 1 .. m \/ (i - m \in 1 .. n /\ i = m + (i - m))
  BY <1>2
<1>6. /\ Listed(c) = {c[k] : k \in 1 .. m + n}
      /\ Listed(s) = {s[k] : k \in 1 .. m}
      /\ Listed(r) = {r[k] : k \in 1 .. n}
  BY <1>1, ListedElements DEF m, n
<1>7. Listed(c) = Listed(s) \cup Listed(r)
  <2>1. ASSUME NEW o \in Listed(c)
        PROVE  o \in Listed(s) \cup Listed(r)
    <3>1. PICK k \in 1 .. m + n : o = c[k]
      BY <2>1, <1>6
    <3>2. CASE k \in 1 .. m
      BY <3>1, <3>2, <1>3, <1>6
    <3>3. CASE k - m \in 1 .. n /\ k = m + (k - m)
      BY <3>1, <3>3, <1>4, <1>6
    <3>4. QED
      BY <3>2, <3>3, <1>5
  <2>2. \A k \in 1 .. m : s[k] \in Listed(c)
    BY <1>3, <1>6
  <2>3. \A k \in 1 .. n : r[k] \in Listed(c)
    BY <1>4, <1>6
  <2>4. Listed(s) \subseteq Listed(c) /\ Listed(r) \subseteq Listed(c)
    BY <2>2, <2>3, <1>6
  <2>5. QED
    BY <2>1, <2>4
<1>8. ASSUME Distinct(c)
      PROVE  Distinct(s) /\ Distinct(r) /\ Listed(s) \cap Listed(r) = {}
  <2>0. \A i, j \in 1 .. m + n : c[i] = c[j] => i = j
    BY <1>8, <1>1 DEF Distinct
  <2>1. Distinct(s)
    BY <2>0, <1>3 DEF Distinct, m
  <2>2. ASSUME NEW i \in 1 .. n, NEW j \in 1 .. n, r[i] = r[j]
        PROVE  i = j
    <3>1. c[m + i] = c[m + j] /\ m + i \in 1 .. m + n /\ m + j \in 1 .. m + n
      BY <2>2, <1>4
    <3>2. m + i = m + j
      BY <3>1, <2>0
    <3>3. QED
      BY <3>2, <1>2
  <2>3. ASSUME NEW i \in 1 .. m, NEW j \in 1 .. n, s[i] = r[j]
        PROVE  FALSE
    <3>1. c[i] = c[m + j] /\ i \in 1 .. m + n /\ m + j \in 1 .. m + n
      BY <2>3, <1>3, <1>4
    <3>2. i = m + j
      BY <3>1, <2>0
    <3>3. QED
      BY <3>2, <1>2
  <2>4. Listed(s) \cap Listed(r) = {}
    BY <2>3, <1>6
  <2>5. QED
    BY <2>1, <2>2, <2>4 DEF Distinct, n
<1>9. ASSUME Distinct(s), Distinct(r), Listed(s) \cap Listed(r) = {}
      PROVE  Distinct(c)
  <2>0. /\ \A i, j \in 1 .. m : s[i] = s[j] => i = j
        /\ \A i, j \in 1 .. n : r[i] = r[j] => i = j
    BY <1>9 DEF Distinct, m, n
  <2>1. \A i \in 1 .. m, j \in 1 .. n : s[i] # r[j]
    BY <1>9, <1>6
  <2>2. ASSUME NEW i \in 1 .. m + n, NEW j \in 1 .. m + n, c[i] = c[j]
        PROVE  i = j
    <3>1. CASE i \in 1 .. m /\ j \in 1 .. m
      BY <3>1, <2>2, <2>0, <1>3
    <3>2. CASE i \in 1 .. m /\ j - m \in 1 .. n /\ j = m + (j - m)
      BY <3>2, <2>2, <2>1, <1>3, <1>4
    <3>3. CASE j \in 1 .. m /\ i - m \in 1 .. n /\ i = m + (i - m)
      BY <3>3, <2>2, <2>1, <1>3, <1>4
    <3>4. CASE i - m \in 1 .. n /\ i = m + (i - m) /\ j - m \in 1 .. n /\ j = m + (j - m)
      <4>1. i - m = j - m
        BY <3>4, <2>2, <2>0, <1>4
      <4>2. QED
        BY <4>1, <1>2
    <3>5. QED
      BY <3>1, <3>2, <3>3, <3>4, <1>5
  <2>3. QED
    BY <2>2, <1>1 DEF Distinct
<1>10. QED
  BY <1>1, <1>7, <1>8, <1>9 DEF c, m, n

\* A list of one occurrence.
LEMMA Single ==
    ASSUME NEW o \in Occurrences
    PROVE  /\ <<o>> \in Seq(Occurrences) /\ Len(<<o>>) = 1 /\ <<o>> # <<>>
           /\ Listed(<<o>>) = {o} /\ Distinct(<<o>>)
           /\ Path(<<o>>, o[1], o[2])
<1>1. <<o>> \in Seq(Occurrences) /\ Len(<<o>>) = 1 /\ <<o>>[1] = o /\ <<o>> # <<>>
  OBVIOUS
<1>2. Listed(<<o>>) = {o}
  <2>1. Listed(<<o>>) = {<<o>>[k] : k \in 1 .. 1}
    BY <1>1, ListedElements
  <2>2. 1 .. 1 = {1}
    OBVIOUS
  <2>3. QED
    BY <1>1, <2>1, <2>2
<1>3. QED
  BY <1>1, <1>2 DEF Distinct, Path

\* The empty list.
LEMMA Nothing ==
    /\ <<>> \in Seq(Occurrences) /\ Len(<<>>) = 0 /\ Listed(<<>>) = {} /\ Distinct(<<>>)
    /\ \A s \in Seq(Occurrences) : s \o <<>> = s /\ <<>> \o s = s
<1>1. <<>> \in Seq(Occurrences) /\ Len(<<>>) = 0
  BY EmptySeq
<1>2. Listed(<<>>) = {}
  <2>1. Listed(<<>>) = {<<>>[k] : k \in 1 .. 0}
    BY <1>1, ListedElements
  <2>2. 1 .. 0 = {}
    OBVIOUS
  <2>3. QED
    BY <2>1, <2>2
<1>3. QED
  BY <1>1, <1>2, ConcatEmptySeq DEF Distinct

\* Walks put together.
LEMMA PathJoined ==
    ASSUME NEW s \in Seq(Occurrences), NEW r \in Seq(Occurrences), NEW a, NEW b, NEW c,
           Path(s, a, b), Path(r, b, c)
    PROVE  Path(s \o r, a, c)
<1>1. CASE s = <<>>
  BY <1>1, Nothing DEF Path
<1>2. CASE r = <<>>
  BY <1>2, Nothing DEF Path
<1>3. CASE s # <<>> /\ r # <<>>
  <2> DEFINE m == Len(s)
             n == Len(r)
             q == s \o r
  <2>1. m \in Nat \ {0} /\ n \in Nat \ {0}
    BY <1>3, ListedElements
  <2>2. /\ q \in Seq(Occurrences) /\ Len(q) = m + n
        /\ \A i \in 1 .. m + n : q[i] = IF i <= m THEN s[i] ELSE r[i - m]
    BY ConcatProperties, Zenon
  <2> HIDE DEF m, n, q
  <2>3. /\ s[1][1] = a /\ s[m][2] = b /\ \A k \in 1 .. m - 1 : s[k][2] = s[k + 1][1]
        /\ r[1][1] = b /\ r[n][2] = c /\ \A k \in 1 .. n - 1 : r[k][2] = r[k + 1][1]
    BY <1>3 DEF Path, m, n
  <2>4. q[1] = s[1] /\ q[m + n] = r[n]
    BY <2>1, <2>2
  <2>5. ASSUME NEW k \in 1 .. m + n - 1
        PROVE  q[k][2] = q[k + 1][1]
    <3>1. k \in 1 .. m + n /\ k + 1 \in 1 .. m + n
      BY <2>1
    <3>2. CASE k <= m - 1
      <4>1. q[k] = s[k] /\ q[k + 1] = s[k + 1] /\ k \in 1 .. m - 1
        BY <3>1, <3>2, <2>1, <2>2
      <4>2. QED
        BY <4>1, <2>3
    <3>3. CASE k = m
      <4>1. q[k] = s[m] /\ q[k + 1] = r[1]
        BY <3>1, <3>3, <2>1, <2>2
      <4>2. QED
        BY <4>1, <2>3
    <3>4. CASE k > m
      <4>1. k - m \in 1 .. n - 1 /\ (k + 1) - m = (k - m) + 1 /\ ~(k <= m) /\ ~(k + 1 <= m)
        BY <3>4, <2>1
      <4>2. q[k] = r[k - m] /\ q[k + 1] = r[(k - m) + 1]
        BY <4>1, <3>1, <2>2
      <4>3. QED
        BY <4>1, <4>2, <2>3
    <3>5. QED
      BY <3>2, <3>3, <3>4, <2>1
  <2>6. q # <<>>
    BY <2>1, <2>2, ListedElements
  <2>7. Path(q, a, c)
    BY <2>1, <2>2, <2>3, <2>4, <2>5, <2>6 DEF Path
  <2>8. QED
    BY <2>7 DEF q
<1>4. QED
  BY <1>1, <1>2, <1>3

\* A walk falls apart at each of its occurrences.
LEMMA PathParted ==
    ASSUME NEW s \in Seq(Occurrences), NEW r \in Seq(Occurrences), NEW o \in Occurrences,
           NEW a, NEW c, Path(s \o (<<o>> \o r), a, c)
    PROVE  Path(s, a, o[1]) /\ Path(r, o[2], c)
<1> DEFINE m == Len(s)
           n == Len(r)
           t == <<o>> \o r
           q == s \o t
<1>1. m \in Nat /\ n \in Nat /\ (s # <<>> <=> m # 0) /\ (r # <<>> <=> n # 0)
  BY ListedElements
<1>2. /\ t \in Seq(Occurrences) /\ Len(t) = 1 + n
      /\ t[1] = o /\ \A i \in 1 .. n : t[i + 1] = r[i]
  <2>1. <<o>> \in Seq(Occurrences) /\ Len(<<o>>) = 1 /\ <<o>>[1] = o
    OBVIOUS
  <2>2. /\ t \in Seq(Occurrences) /\ Len(t) = 1 + n
        /\ \A i \in 1 .. 1 + n : t[i] = IF i <= 1 THEN <<o>>[i] ELSE r[i - 1]
    BY <2>1, ConcatProperties
  <2>3. \A i \in 1 .. n : i + 1 \in 1 .. 1 + n /\ ~(i + 1 <= 1) /\ (i + 1) - 1 = i
    BY <1>1
  <2>4. 1 \in 1 .. 1 + n
    BY <1>1
  <2>5. QED
    BY <2>1, <2>2, <2>3, <2>4
<1> HIDE DEF t
<1>3. /\ q \in Seq(Occurrences) /\ Len(q) = m + (1 + n)
      /\ \A i \in 1 .. m + (1 + n) : q[i] = IF i <= m THEN s[i] ELSE t[i - m]
  <2>1. /\ q \in Seq(Occurrences) /\ Len(q) = m + Len(t)
        /\ \A i \in 1 .. m + Len(t) : q[i] = IF i <= m THEN s[i] ELSE t[i - m]
    <3>1. t \in Seq(Occurrences)
      BY <1>2
    <3>2. QED
      BY <3>1, ConcatProperties, Zenon
  <2> HIDE DEF m, n, q
  <2>2. QED
    BY <2>1, <1>2
<1> HIDE DEF m, n, q
<1>4. \A i \in 1 .. m : q[i] = s[i]
  BY <1>1, <1>3
<1>5. q[m + 1] = o
  <2>1. m + 1 \in 1 .. m + (1 + n) /\ ~(m + 1 <= m) /\ m + 1 - m = 1
    BY <1>1
  <2>2. q[m + 1] = t[m + 1 - m]
    BY <2>1, <1>1, <1>3
  <2>3. QED
    BY <2>1, <2>2, <1>2
<1>6. \A i \in 1 .. n : q[m + 1 + i] = r[i]
  <2> TAKE i \in 1 .. n
  <2>1. m + 1 + i \in 1 .. m + (1 + n) /\ ~(m + 1 + i <= m) /\ m + 1 + i - m = i + 1
    BY <1>1
  <2>2. QED
    BY <2>1, <1>1, <1>2, <1>3
<1>7. /\ q[1][1] = a /\ q[m + 1 + n][2] = c
      /\ \A k \in 1 .. m + n : q[k][2] = q[k + 1][1]
  <2>1. q # <<>> /\ m + (1 + n) = m + 1 + n /\ m + 1 + n - 1 = m + n
    BY <1>1, <1>3, ListedElements
  <2>2. Path(q, a, c)
    BY DEF q, t
  <2>3. QED
    BY <2>1, <2>2, <1>1, <1>3 DEF Path
<1>8. Path(s, a, o[1])
  <2>1. CASE m = 0
    BY <2>1, <1>1, <1>5, <1>7 DEF Path
  <2>2. CASE m # 0
    <3>1. s[1][1] = a
      BY <2>2, <1>1, <1>4, <1>7
    <3>2. m \in 1 .. m + n
      BY <2>2, <1>1
    <3>3. s[m][2] = o[1]
      BY <2>2, <3>2, <1>1, <1>4, <1>5, <1>7
    <3>4. ASSUME NEW k \in 1 .. m - 1
          PROVE  s[k][2] = s[k + 1][1]
      <4>1. k \in 1 .. m /\ k + 1 \in 1 .. m /\ k \in 1 .. m + n
        BY <1>1
      <4>2. QED
        BY <4>1, <1>4, <1>7
    <3>5. QED
      BY <3>1, <3>3, <3>4, <2>2, <1>1 DEF Path, m
  <2>3. QED
    BY <2>1, <2>2
<1>9. Path(r, o[2], c)
  <2>1. CASE n = 0
    BY <2>1, <1>1, <1>5, <1>7 DEF Path
  <2>2. CASE n # 0
    <3>1. r[1][1] = o[2]
      <4>1. m + 1 \in 1 .. m + n /\ 1 \in 1 .. n
        BY <2>2, <1>1
      <4>2. QED
        BY <4>1, <1>5, <1>6, <1>7
    <3>2. r[n][2] = c
      <4>1. n \in 1 .. n
        BY <2>2, <1>1
      <4>2. QED
        BY <4>1, <1>6, <1>7
    <3>3. ASSUME NEW k \in 1 .. n - 1
          PROVE  r[k][2] = r[k + 1][1]
      <4>1. k \in 1 .. n /\ k + 1 \in 1 .. n /\ m + 1 + k \in 1 .. m + n /\ m + 1 + (k + 1) = (m + 1 + k) + 1
        BY <1>1
      <4>2. QED
        BY <4>1, <1>6, <1>7
    <3>4. QED
      BY <3>1, <3>2, <3>3, <2>2, <1>1 DEF Path, n
  <2>3. QED
    BY <2>1, <2>2
<1>10. QED
  BY <1>8, <1>9

------------------------------------------------------------------------------
\* Lists taken apart, and Euler tours as closed walks

\* What split_left and split_right make of a list.
LEMMA Parted ==
    ASSUME NEW t \in Seq(Occurrences), NEW o \in Listed(t)
    PROVE  /\ Place(t, o) \in 1 .. Len(t) /\ t[Place(t, o)] = o
           /\ Before(t, o) \in Seq(Occurrences) /\ After(t, o) \in Seq(Occurrences)
           /\ From(t, o) = <<o>> \o After(t, o)
           /\ t = Before(t, o) \o From(t, o)
           /\ \A k \in 1 .. Len(t) : k > Place(t, o) => t[k] \in Listed(After(t, o))
<1> DEFINE p == Place(t, o)
           n == Len(t)
<1>0. n \in Nat /\ DOMAIN t = 1 .. n
  BY LenProperties
<1>1. p \in 1 .. n /\ t[p] = o
  BY <1>0 DEF Place, Listed
<1>2. o \in Occurrences /\ \A k \in 1 .. n : t[k] \in Occurrences
  BY ListedElements
<1> HIDE DEF p, n
<1>3. /\ SubSeq(t, 1, p - 1) \in Seq(Occurrences)
      /\ Len(SubSeq(t, 1, p - 1)) = p - 1
      /\ \A i \in 1 .. p - 1 : SubSeq(t, 1, p - 1)[i] = t[i]
  <2>1. 1 \in Int /\ p - 1 \in Int /\ \A i \in 1 .. p - 1 : t[i] \in Occurrences
    BY <1>0, <1>1, <1>2
  <2>2. /\ SubSeq(t, 1, p - 1) \in Seq(Occurrences)
        /\ Len(SubSeq(t, 1, p - 1)) = IF 1 <= p - 1 THEN (p - 1) - 1 + 1 ELSE 0
        /\ \A i \in 1 .. (p - 1) - 1 + 1 : SubSeq(t, 1, p - 1)[i] = t[1 + i - 1]
    BY <2>1, SubSeqProperties
  <2>3. /\ (p - 1) - 1 + 1 = p - 1 /\ (~(1 <= p - 1) => p - 1 = 0)
        /\ \A i \in 1 .. p - 1 : 1 + i - 1 = i
    BY <1>0, <1>1
  <2>4. QED
    BY <2>2, <2>3
<1>4. /\ SubSeq(t, p + 1, n) \in Seq(Occurrences)
      /\ Len(SubSeq(t, p + 1, n)) = n - p
      /\ \A i \in 1 .. n - p : SubSeq(t, p + 1, n)[i] = t[p + i]
  <2>1. p + 1 \in Int /\ n \in Int /\ \A i \in p + 1 .. n : t[i] \in Occurrences
    BY <1>0, <1>1, <1>2
  <2>2. /\ SubSeq(t, p + 1, n) \in Seq(Occurrences)
        /\ Len(SubSeq(t, p + 1, n)) = IF p + 1 <= n THEN n - (p + 1) + 1 ELSE 0
        /\ \A i \in 1 .. n - (p + 1) + 1 : SubSeq(t, p + 1, n)[i] = t[(p + 1) + i - 1]
    BY <2>1, SubSeqProperties
  <2>3. /\ n - (p + 1) + 1 = n - p /\ (~(p + 1 <= n) => n - p = 0)
        /\ \A i \in 1 .. n - p : (p + 1) + i - 1 = p + i
    BY <1>0, <1>1
  <2>4. QED
    BY <2>2, <2>3
<1>5. Before(t, o) = SubSeq(t, 1, p - 1) /\ After(t, o) = SubSeq(t, p + 1, n)
  BY DEF Before, After, p, n
<1>6. From(t, o) = <<o>> \o After(t, o)
  BY DEF From
<1>7. t = Before(t, o) \o From(t, o)
  <2> DEFINE B == Before(t, o)
             A == After(t, o)
             R == <<o>> \o A
             q == B \o R
  <2>1. B \in Seq(Occurrences) /\ A \in Seq(Occurrences) /\ Len(B) = p - 1 /\ Len(A) = n - p
    BY <1>3, <1>4, <1>5
  <2>2. /\ R \in Seq(Occurrences) /\ Len(R) = 1 + (n - p)
        /\ \A i \in 1 .. 1 + (n - p) : R[i] = IF i <= 1 THEN <<o>>[i] ELSE A[i - 1]
    <3>1. <<o>> \in Seq(Occurrences) /\ Len(<<o>>) = 1
      BY <1>2
    <3>2. QED
      BY <2>1, <3>1, ConcatProperties
  <2> HIDE DEF R
  <2>3. /\ q \in Seq(Occurrences) /\ Len(q) = (p - 1) + (1 + (n - p))
        /\ \A i \in 1 .. (p - 1) + (1 + (n - p)) : q[i] = IF i <= p - 1 THEN B[i] ELSE R[i - (p - 1)]
    <3>1. R \in Seq(Occurrences) /\ B \in Seq(Occurrences)
      BY <2>1, <2>2
    <3> HIDE DEF A, B
    <3>2. /\ q \in Seq(Occurrences) /\ Len(q) = Len(B) + Len(R)
          /\ \A i \in 1 .. Len(B) + Len(R) : q[i] = IF i <= Len(B) THEN B[i] ELSE R[i - Len(B)]
      BY <3>1, ConcatProperties, Zenon
    <3>3. QED
      BY <2>1, <2>2, <3>2, Zenon
  <2>4. \A i \in 1 .. p - 1 : B[i] = t[i]
    BY <1>3, <1>5
  <2>5. \A i \in 1 .. n - p : A[i] = t[p + i]
    BY <1>4, <1>5
  <2> HIDE DEF B, A, q
  <2>6. Len(q) = n /\ (p - 1) + (1 + (n - p)) = n
    BY <2>3, <1>0, <1>1
  <2>7. ASSUME NEW i \in 1 .. n
        PROVE  q[i] = t[i]
    <3>1. CASE i <= p - 1
      <4>1. i \in 1 .. p - 1
        BY <3>1, <1>0, <1>1
      <4>2. QED
        BY <3>1, <4>1, <2>3, <2>4, <2>6
    <3>2. CASE i = p
      <4>1. i - (p - 1) = 1 /\ ~(i <= p - 1) /\ 1 \in 1 .. 1 + (n - p)
        BY <3>2, <1>0, <1>1
      <4>2. q[i] = R[1]
        BY <4>1, <2>3, <2>6
      <4>3. R[1] = o
        BY <4>1, <2>2
      <4>4. QED
        BY <4>2, <4>3, <3>2, <1>1
    <3>3. CASE i > p
      <4>1. /\ i - (p - 1) \in 1 .. 1 + (n - p) /\ ~(i <= p - 1) /\ ~(i - (p - 1) <= 1)
            /\ i - (p - 1) - 1 = i - p /\ i - p \in 1 .. n - p /\ p + (i - p) = i
        BY <3>3, <1>0, <1>1
      <4>2. q[i] = R[i - (p - 1)]
        BY <4>1, <2>3, <2>6
      <4>3. R[i - (p - 1)] = A[i - p]
        BY <4>1, <2>2
      <4>4. A[i - p] = t[i]
        BY <4>1, <2>5
      <4>5. QED
        BY <4>2, <4>3, <4>4
    <3>4. QED
      BY <3>1, <3>2, <3>3, <1>0, <1>1
  <2>8. t = q
    BY <2>3, <2>6, <2>7, SeqEqual DEF n
  <2>9. QED
    BY <2>8, <1>6 DEF q, R, B, A
<1>8. ASSUME NEW k \in 1 .. n, k > p
      PROVE  t[k] \in Listed(After(t, o))
  <2>1. k - p \in 1 .. n - p /\ p + (k - p) = k
    BY <1>0, <1>1, <1>8
  <2>2. After(t, o)[k - p] = t[k]
    BY <2>1, <1>4, <1>5
  <2>3. After(t, o) \in Seq(Occurrences) /\ Len(After(t, o)) = n - p
    BY <1>4, <1>5
  <2>4. \A j \in 1 .. n - p : After(t, o)[j] \in Listed(After(t, o))
    BY <2>3, ListedElements
  <2>5. QED
    BY <2>1, <2>2, <2>4
<1>9. QED
  BY <1>1, <1>3, <1>4, <1>5, <1>6, <1>7, <1>8 DEF p, n

\* Of two occurrences one comes after the other.
LEMMA OneComesFirst ==
    ASSUME NEW t \in Seq(Occurrences), NEW o \in Listed(t), NEW q \in Listed(t), o # q
    PROVE  q \in Listed(After(t, o)) \/ o \in Listed(After(t, q))
<1>1. /\ Place(t, o) \in 1 .. Len(t) /\ t[Place(t, o)] = o
      /\ \A k \in 1 .. Len(t) : k > Place(t, o) => t[k] \in Listed(After(t, o))
  BY Parted
<1>2. /\ Place(t, q) \in 1 .. Len(t) /\ t[Place(t, q)] = q
      /\ \A k \in 1 .. Len(t) : k > Place(t, q) => t[k] \in Listed(After(t, q))
  BY Parted
<1>3. CASE Place(t, q) > Place(t, o)
  BY <1>1, <1>2, <1>3
<1>4. CASE Place(t, o) > Place(t, q)
  BY <1>1, <1>2, <1>4
<1>5. Place(t, q) > Place(t, o) \/ Place(t, o) > Place(t, q)
  <2>1. Place(t, q) # Place(t, o)
    BY <1>1, <1>2
  <2>2. Len(t) \in Nat
    BY LenProperties
  <2>3. QED
    BY <2>1, <2>2, <1>1, <1>2
<1>6. QED
  BY <1>3, <1>4, <1>5

\* A list is as long as the set of what it lists exactly when it lists nothing twice.
LEMMA DistinctSize ==
    ASSUME NEW s \in Seq(Occurrences)
    PROVE  /\ IsFiniteSet(Listed(s))
           /\ Cardinality(Listed(s)) = Len(s) <=> Distinct(s)
<1> DEFINE n == Len(s)
           I == 1 .. n
<1>1. n \in Nat /\ Listed(s) = {s[k] : k \in I} /\ \A k \in I : s[k] \in Listed(s)
  BY ListedElements
<1>2. s \in [I -> Listed(s)]
  BY <1>1, LenProperties
<1>3. s \in Surjection(I, Listed(s))
  BY <1>1, <1>2 DEF Surjection
<1>4. IsFiniteSet(I) /\ Cardinality(I) = n
  <2>1. 1 \in Int /\ n \in Int
    BY <1>1
  <2>2. IsFiniteSet(I) /\ Cardinality(I) = IF 1 > n THEN 0 ELSE n - 1 + 1
    BY <2>1, FS_Interval
  <2>3. QED
    BY <2>2, <1>1
<1>5. s \in Injection(I, Listed(s)) <=> Distinct(s)
  BY <1>2 DEF Injection, IsInjective, Distinct
<1>6. QED
  BY <1>3, <1>4, <1>5, FS_Surjection

\* What IsEulerTour asks of a list besides its length: it leads from a through every edge
\* both ways to the sentinel of a.
OpenTour(t, a) == /\ Path(t, a, Null) /\ Distinct(t)
                  /\ TwoWays(Listed(t)) /\ EndsAt(Listed(t), a)

\* An Euler tour is a closed walk from its first vertex that ends in its sentinel.
LEMMA TourShape ==
    ASSUME NEW t \in Seq(Occurrences), t # <<>>, IsEulerTour(t)
    PROVE  /\ t[1][1] \in Nodes /\ OpenTour(t, t[1][1])
           /\ t[Len(t)] = Sentinel(t[1][1]) /\ Sentinel(t[1][1]) \in Listed(t)
           /\ Len(t) = 2 * Cardinality(VerticesOf(t)) - 1
<1> DEFINE n == Len(t)
           a == t[1][1]
<1>1. /\ n \in Nat \ {0} /\ Listed(t) = {t[k] : k \in 1 .. n} /\ \A k \in 1 .. n : t[k] \in Occurrences
  BY ListedElements
<1>2. /\ \A k \in 1 .. n - 1 : t[k][2] = t[k + 1][1]
      /\ t[n] = Sentinel(a)
      /\ \A k \in 1 .. n - 1 : Back(t[k]) \in Listed(t)
      /\ Cardinality(Listed(t)) = n /\ n = 2 * Cardinality(VerticesOf(t)) - 1
  BY DEF IsEulerTour, Back
<1> HIDE DEF n, a
<1>3. a \in Nodes /\ 1 \in 1 .. n /\ n \in 1 .. n
  <2>1. 1 \in 1 .. n /\ n \in 1 .. n
    BY <1>1
  <2>2. t[1] \in Occurrences
    BY <2>1, <1>1
  <2>3. QED
    BY <2>1, <2>2, OccurrenceParts DEF a
<1>4. t[n][2] = Null /\ t[n][1] = a
  BY <1>2 DEF Sentinel
<1>5. Path(t, a, Null)
  BY <1>2, <1>4 DEF Path, n, a
<1>6. Distinct(t)
  BY <1>2, DistinctSize DEF n
<1>7. \A k \in 1 .. n : k \in 1 .. n - 1 \/ k = n
  BY <1>1
<1>8. TwoWays(Listed(t))
  BY <1>1, <1>2, <1>4, <1>7 DEF TwoWays
<1>9. ASSUME NEW k \in 1 .. n - 1
      PROVE  t[k][2] # Null
  <2>1. k + 1 \in 1 .. n
    BY <1>1
  <2>2. t[k + 1][1] \in Nodes
    BY <2>1, <1>1, OccurrenceParts
  <2>3. QED
    BY <2>2, <1>2, NullAssumption
<1>10. EndsAt(Listed(t), a)
  BY <1>1, <1>4, <1>7, <1>9 DEF EndsAt
<1>11. QED
  BY <1>1, <1>2, <1>3, <1>5, <1>6, <1>8, <1>10 DEF OpenTour, n, a

\* Such a walk of the right length is an Euler tour.
LEMMA ShapeIsTour ==
    ASSUME NEW t \in Seq(Occurrences), NEW a \in Nodes, OpenTour(t, a),
           Len(t) = 2 * Cardinality(VerticesOf(t)) - 1
    PROVE  IsEulerTour(t) /\ t # <<>> /\ Sentinel(a) \in Listed(t) /\ t[Len(t)] = Sentinel(a)
<1> DEFINE n == Len(t)
<1>1. t # <<>> /\ n \in Nat \ {0}
  BY NullAssumption, ListedElements DEF OpenTour, Path
<1>2. Listed(t) = {t[k] : k \in 1 .. n} /\ \A k \in 1 .. n : t[k] \in Occurrences
  BY ListedElements
<1>3. /\ t[1][1] = a /\ t[n][2] = Null
      /\ \A k \in 1 .. n - 1 : t[k][2] = t[k + 1][1]
  BY <1>1 DEF OpenTour, Path
<1> HIDE DEF n
<1>4. n \in 1 .. n
  BY <1>1
<1>5. t[n][1] = a
  BY <1>2, <1>3, <1>4 DEF OpenTour, EndsAt
<1>6. t[n] = Sentinel(a)
  <2>1. t[n] \in Occurrences
    BY <1>2, <1>4
  <2>2. QED
    BY <2>1, <1>3, <1>5, OccurrenceParts
<1>7. ASSUME NEW k \in 1 .. n - 1
      PROVE  <<t[k][2], t[k][1]>> \in Listed(t)
  <2>1. k \in 1 .. n /\ k + 1 \in 1 .. n
    BY <1>1
  <2>2. t[k + 1][1] \in Nodes
    BY <2>1, <1>2, OccurrenceParts
  <2>3. t[k][2] # Null /\ t[k] \in Listed(t)
    BY <2>1, <2>2, <1>2, <1>3, NullAssumption
  <2>4. QED
    BY <2>3 DEF OpenTour, TwoWays, Back
<1>8. Cardinality(Listed(t)) = n
  BY DistinctSize DEF OpenTour, n
<1>9. QED
  BY <1>1, <1>2, <1>3, <1>4, <1>6, <1>7, <1>8 DEF IsEulerTour, n

------------------------------------------------------------------------------
\* How long a closed walk is

\* A walk stays in a set that none of its edges leaves.
LEMMA WalkStays ==
    ASSUME NEW s \in Seq(Occurrences), NEW a, NEW b, Path(s, a, b), NEW S, a \in S,
           \A o \in Listed(s) : o[2] # Null /\ o[1] \in S => o[2] \in S
    PROVE  \A o \in Listed(s) : o[1] \in S
<1> DEFINE n == Len(s)
           Out == {k \in 1 .. n : s[k][1] \notin S}
<1>1. /\ n \in Nat /\ Listed(s) = {s[k] : k \in 1 .. n} /\ \A k \in 1 .. n : s[k] \in Occurrences
      /\ s # <<>> <=> n # 0
  BY ListedElements
<1> HIDE DEF n
<1>2. ASSUME Out # {}
      PROVE  FALSE
  <2>1. PICK m \in Out : \A k \in Out : m <= k
    <3>1. Out \in SUBSET Nat
      BY <1>1
    <3>2. QED
      BY <3>1, <1>2, LeastNumber
  <2>2. m \in 1 .. n /\ s[m][1] \notin S
    OBVIOUS
  <2>3. /\ s[1][1] = a
        /\ \A k \in 1 .. n - 1 : s[k][2] = s[k + 1][1]
    BY <2>2, <1>1 DEF Path, n
  <2>4. m # 1
    BY <2>2, <2>3
  <2>5. m - 1 \in 1 .. n - 1 /\ m - 1 \in 1 .. n /\ m - 1 + 1 = m /\ ~(m <= m - 1)
    BY <2>2, <2>4, <1>1
  <2>6. s[m - 1][1] \in S
    BY <2>1, <2>5
  <2>7. s[m - 1][2] = s[m][1]
    BY <2>3, <2>5
  <2>8. s[m][1] \in Nodes
    BY <2>2, <1>1, OccurrenceParts
  <2>9. s[m - 1] \in Listed(s)
    BY <2>5, <1>1
  <2>10. QED
    BY <2>2, <2>6, <2>7, <2>8, <2>9, NullAssumption
<1>3. QED
  BY <1>1, <1>2

\* Each occurrence goes on to the next one or to the end of the walk, and the first is at
\* its start.
LEMMA WalkGoesOn ==
    ASSUME NEW s \in Seq(Occurrences), NEW a, NEW b, Path(s, a, b)
    PROVE  /\ \A o \in Listed(s) : o[2] = b \/ \E q \in Listed(s) : q[1] = o[2]
           /\ s # <<>> => \E q \in Listed(s) : q[1] = a
<1> DEFINE n == Len(s)
<1>1. /\ n \in Nat /\ Listed(s) = {s[k] : k \in 1 .. n} /\ (s # <<>> <=> n # 0)
  BY ListedElements
<1>2. n # 0 => /\ s[1][1] = a /\ s[n][2] = b
               /\ \A k \in 1 .. n - 1 : s[k][2] = s[k + 1][1]
  BY <1>1 DEF Path
<1> HIDE DEF n
<1>3. ASSUME NEW k \in 1 .. n
      PROVE  s[k][2] = b \/ \E q \in Listed(s) : q[1] = s[k][2]
  <2>1. CASE k = n
    BY <2>1, <1>1, <1>2
  <2>2. CASE k \in 1 .. n - 1
    <3>1. k + 1 \in 1 .. n
      BY <2>2, <1>1
    <3>2. s[k][2] = s[k + 1][1]
      BY <2>2, <1>1, <1>2
    <3>3. QED
      BY <3>1, <3>2, <1>1
  <2>3. QED
    BY <2>1, <2>2, <1>1
<1>4. s # <<>> => s[1] \in Listed(s)
  <2>1. n # 0 => 1 \in 1 .. n
    BY <1>1
  <2>2. QED
    BY <2>1, <1>1
<1>5. QED
  BY <1>1, <1>2, <1>3, <1>4

\* Each vertex but the first was once entered for the first time, over an edge of its own,
\* and each edge is listed both ways.
LEMMA EnoughArcs ==
    ASSUME NEW t \in Seq(Occurrences), NEW a \in Nodes, OpenTour(t, a)
    PROVE  /\ IsFiniteSet(VerticesOf(t)) /\ Cardinality(VerticesOf(t)) \in Nat
           /\ Len(t) \in Nat /\ Len(t) >= 2 * Cardinality(VerticesOf(t)) - 1
<1> DEFINE n == Len(t)
           V == VerticesOf(t)
           At(w) == {k \in 1 .. n : t[k][1] = w}
           First(w) == CHOOSE k \in At(w) : \A j \in At(w) : k <= j
           D == V \ {a}
           f == [w \in D |-> t[First(w) - 1]]
           g == [w \in D |-> Back(t[First(w) - 1])]
           In == {f[w] : w \in D}
           Out == {g[w] : w \in D}
           L == Listed(t) \ {Sentinel(a)}
<1>1. /\ n \in Nat /\ Listed(t) = {t[k] : k \in 1 .. n} /\ \A k \in 1 .. n : t[k] \in Occurrences
      /\ t # <<>> <=> n # 0
  BY ListedElements
<1>2. /\ n # 0 /\ t[1][1] = a /\ t[n][2] = Null
      /\ \A k \in 1 .. n - 1 : t[k][2] = t[k + 1][1]
  BY <1>1, NullAssumption DEF OpenTour, Path
<1> HIDE DEF n
<1>3. V \subseteq Nodes /\ V = {t[k][1] : k \in 1 .. n}
  <2>1. V = {o[1] : o \in Listed(t)}
    BY DEF VerticesOf
  <2> HIDE DEF V
  <2>2. V = {t[k][1] : k \in 1 .. n}
    BY <2>1, <1>1
  <2>3. \A k \in 1 .. n : t[k][1] \in Nodes
    BY <1>1, OccurrenceParts
  <2>4. QED
    BY <2>2, <2>3
<1>4. a \in V
  <2>1. 1 \in 1 .. n
    BY <1>1, <1>2
  <2>2. QED
    BY <2>1, <1>2, <1>3
<1>5. IsFiniteSet(V) /\ IsFiniteSet(D) /\ Cardinality(V) \in Nat /\ Cardinality(D) = Cardinality(V) - 1
  <2>1. IsFiniteSet(V)
    BY <1>3, NodesAssumption, FS_Subset
  <2>2. QED
    BY <2>1, <1>4, FS_RemoveElement, FS_CardinalityType
<1> HIDE DEF V
<1>6. ASSUME NEW w \in V
      PROVE  First(w) \in At(w) /\ \A j \in At(w) : First(w) <= j
  <2>1. At(w) \in SUBSET Nat /\ At(w) # {}
    BY <1>1, <1>3
  <2>2. \E k \in At(w) : \A j \in At(w) : k <= j
    BY <2>1, LeastNumber
  <2>3. QED
    BY <2>2
<1> HIDE DEF First
<1>7. ASSUME NEW w \in D
      PROVE  /\ f[w] \in Listed(t) /\ f[w] \in Occurrences /\ f[w][2] = w /\ f[w][1] \in V
             /\ First(f[w][1]) < First(w)
             /\ g[w] = Back(f[w]) /\ g[w] \in Listed(t)
  <2>1. First(w) \in 1 .. n /\ t[First(w)][1] = w /\ w # a /\ w \in V /\ w \in Nodes
    BY <1>6, <1>3
  <2>2. First(w) - 1 \in 1 .. n - 1 /\ First(w) - 1 \in 1 .. n /\ First(w) - 1 + 1 = First(w)
    <3>1. First(w) # 1
      BY <2>1, <1>2
    <3>2. \A k \in 1 .. n : k # 1 => k - 1 \in 1 .. n - 1 /\ k - 1 \in 1 .. n /\ k - 1 + 1 = k
      BY <1>1
    <3>3. QED
      BY <2>1, <3>1, <3>2
  <2>3. t[First(w) - 1][2] = w
    BY <2>1, <2>2, <1>2
  <2>4. t[First(w) - 1] \in Listed(t) /\ t[First(w) - 1] \in Occurrences
    BY <2>2, <1>1
  <2>5. t[First(w) - 1][1] \in V /\ First(w) - 1 \in At(t[First(w) - 1][1])
    BY <2>2, <1>3
  <2>6. First(t[First(w) - 1][1]) <= First(w) - 1 /\ First(t[First(w) - 1][1]) \in 1 .. n
    BY <2>5, <1>6
  <2>7. First(t[First(w) - 1][1]) < First(w)
    BY <2>6, <2>1, <1>1
  <2>8. f[w] = t[First(w) - 1] /\ g[w] = Back(t[First(w) - 1])
    OBVIOUS
  <2>9. Back(t[First(w) - 1]) \in Listed(t)
    BY <2>1, <2>3, <2>4, NullAssumption DEF OpenTour, TwoWays
  <2>10. QED
    BY <2>3, <2>4, <2>5, <2>7, <2>8, <2>9
<1>8. \A w \in D : First(w) \in Nat
  BY <1>6, <1>1
<1>9. f \in Surjection(D, In) /\ f \in Injection(D, In)
  <2>1. f \in [D -> In] /\ \A o \in In : \E w \in D : f[w] = o
    OBVIOUS
  <2>2. \A w, x \in D : f[w] = f[x] => w = x
    BY <1>7
  <2> HIDE DEF f, In
  <2>3. QED
    BY <2>1, <2>2 DEF Surjection, Injection, IsInjective
<1>10. g \in Surjection(D, Out) /\ g \in Injection(D, Out)
  <2>1. g \in [D -> Out] /\ \A o \in Out : \E w \in D : g[w] = o
    OBVIOUS
  <2>2. \A w \in D : g[w][1] = w
    BY <1>7 DEF Back
  <2> HIDE DEF g, Out
  <2>3. \A w, x \in D : g[w] = g[x] => w = x
    BY <2>2
  <2>4. QED
    BY <2>1, <2>3 DEF Surjection, Injection, IsInjective
<1>11. In \cap Out = {}
  <2>1. ASSUME NEW w \in D, NEW x \in D, f[w] = g[x]
        PROVE  FALSE
    <3>1. f[w][2] = w /\ f[x][2] = x /\ First(f[w][1]) < First(w) /\ First(f[x][1]) < First(x) /\ f[w] = Back(f[x])
      BY <2>1, <1>7
    <3>2. f[w][1] = x /\ f[x][1] = w
      BY <3>1 DEF Back
    <3>3. First(x) < First(w) /\ First(w) < First(x)
      BY <3>1, <3>2
    <3>4. QED
      BY <3>3, <1>8
  <2>2. QED
    BY <2>1
<1>12. In \subseteq L /\ Out \subseteq L
  <2>1. ASSUME NEW w \in D
        PROVE  f[w] \in L /\ g[w] \in L
    <3>1. f[w] \in Listed(t) /\ f[w] \in Occurrences /\ f[w][2] = w /\ g[w] \in Listed(t) /\ g[w] = Back(f[w])
      BY <1>7
    <3>2. f[w][1] \in Nodes /\ w \in Nodes
      BY <3>1, OccurrenceParts, <1>3
    <3>3. f[w] # Sentinel(a) /\ g[w] # Sentinel(a)
      BY <3>1, <3>2, NullAssumption DEF Sentinel, Back
    <3>4. QED
      BY <3>1, <3>3
  <2>2. QED
    BY <2>1
<1>13. Cardinality(In) = Cardinality(D) /\ Cardinality(Out) = Cardinality(D)
  BY <1>5, <1>9, <1>10, FS_Surjection
<1> HIDE DEF In, Out, D
<1>14. IsFiniteSet(Listed(t)) /\ Cardinality(Listed(t)) = n
  BY DistinctSize DEF OpenTour, n
<1>15. Sentinel(a) \in Listed(t)
  <2>1. n \in 1 .. n
    BY <1>1, <1>2
  <2>2. t[n] \in Listed(t) /\ t[n] \in Occurrences
    BY <2>1, <1>1
  <2>3. t[n][1] = a
    BY <2>2, <1>2 DEF OpenTour, EndsAt
  <2>4. QED
    BY <2>2, <2>3, <1>2, OccurrenceParts
<1>16. IsFiniteSet(L) /\ Cardinality(L) = n - 1
  BY <1>14, <1>15, FS_RemoveElement
<1> HIDE DEF L
<1>17. Cardinality(In) + Cardinality(Out) <= Cardinality(L)
  BY <1>11, <1>12, <1>16, DisjointParts
<1>18. QED
  BY <1>1, <1>5, <1>13, <1>16, <1>17 DEF n, V

------------------------------------------------------------------------------
\* Two tours spliced by link()

\* No walk goes on from a sentinel.
LEMMA PathEnds ==
    ASSUME NEW s \in Seq(Occurrences), NEW b, Path(s, Null, b)
    PROVE  s = <<>>
<1>1. ASSUME s # <<>>
      PROVE  FALSE
  <2>1. s[1][1] = Null
    BY <1>1 DEF Path
  <2>2. Len(s) \in Nat /\ Len(s) # 0
    BY <1>1, ListedElements
  <2>3. 1 \in 1 .. Len(s)
    BY <2>2
  <2>4. s[1] \in Occurrences
    BY <2>3, ElementOfSeq
  <2>5. QED
    BY <2>1, <2>4, OccurrenceParts, NullAssumption
<1>2. QED
  BY <1>1

\* Two walks, one after the other, that list nothing both.
LEMMA Chained ==
    ASSUME NEW s \in Seq(Occurrences), NEW r \in Seq(Occurrences), NEW a, NEW b, NEW c,
           Path(s, a, b), Path(r, b, c), Distinct(s), Distinct(r), Listed(s) \cap Listed(r) = {}
    PROVE  /\ s \o r \in Seq(Occurrences) /\ Path(s \o r, a, c) /\ Distinct(s \o r)
           /\ Listed(s \o r) = Listed(s) \cup Listed(r)
           /\ Len(s \o r) = Len(s) + Len(r)
<1>1. Path(s \o r, a, c)
  BY PathJoined
<1>2. QED
  BY <1>1, Joined

\* What is left of a tour without its sentinel.
LEMMA SentinelOff ==
    ASSUME NEW t \in Seq(Occurrences), NEW a \in Nodes, OpenTour(t, a), Sentinel(a) \in Listed(t)
    PROVE  LET w == Before(t, Sentinel(a))
           IN  /\ w \in Seq(Occurrences) /\ Path(w, a, a) /\ Distinct(w)
               /\ Listed(t) = Listed(w) \cup {Sentinel(a)} /\ Sentinel(a) \notin Listed(w)
               /\ Len(w) = Len(t) - 1
               /\ TwoWays(Listed(w)) /\ \A o \in Listed(w) : o[2] # Null
<1> DEFINE s == Sentinel(a)
           w == Before(t, s)
           z == After(t, s)
<1>1. /\ w \in Seq(Occurrences) /\ z \in Seq(Occurrences) /\ t = w \o (<<s>> \o z)
  BY Parted
<1>2. s \in Occurrences /\ s[1] = a /\ s[2] = Null
  BY NullAssumption DEF Sentinel, Occurrences
<1> HIDE DEF s, w, z
<1>3. Path(w, a, a) /\ Path(z, Null, Null)
  BY <1>1, <1>2, PathParted DEF OpenTour
<1>4. z = <<>>
  BY <1>1, <1>3, PathEnds
<1>5. <<s>> \in Seq(Occurrences) /\ Listed(<<s>>) = {s} /\ Len(<<s>>) = 1 /\ <<s>> \o z = <<s>>
  BY <1>2, <1>4, Single, Nothing
<1>6. t = w \o <<s>>
  BY <1>1, <1>5
<1>7. /\ Listed(t) = Listed(w) \cup {s} /\ Len(t) = Len(w) + 1
      /\ Distinct(w) /\ Listed(w) \cap {s} = {}
  <2>1. Distinct(w \o <<s>>)
    BY <1>6 DEF OpenTour
  <2>2. <<s>> \in Seq(Occurrences)
    BY <1>5
  <2>3. /\ Len(w \o <<s>>) = Len(w) + Len(<<s>>)
        /\ Listed(w \o <<s>>) = Listed(w) \cup Listed(<<s>>)
        /\ Distinct(w) /\ Listed(w) \cap Listed(<<s>>) = {}
    BY <2>1, <2>2, <1>1, Joined
  <2>4. QED
    BY <2>3, <1>5, <1>6
<1>8. Len(w) = Len(t) - 1
  <2>1. Len(w) \in Nat
    BY <1>1, ListedElements
  <2>2. QED
    BY <2>1, <1>7
<1>9. \A o \in Listed(t) : o \in Occurrences
  BY ListedElements
<1>10. \A o \in Listed(w) : o[2] # Null
  <2>1. ASSUME NEW o \in Listed(w), o[2] = Null
        PROVE  FALSE
    <3>1. o \in Listed(t) /\ o \in Occurrences
      BY <1>7, <1>9
    <3>2. o[1] = a
      BY <3>1, <2>1 DEF OpenTour, EndsAt
    <3>3. o = s
      BY <3>1, <3>2, <2>1, OccurrenceParts DEF s
    <3>4. QED
      BY <3>3, <1>7
  <2>2. QED
    BY <2>1
<1>11. ASSUME NEW o \in Listed(w)
       PROVE  Back(o) \in Listed(w)
  <2>1. o \in Listed(t) /\ o \in Occurrences /\ o[2] # Null
    BY <1>7, <1>9, <1>10
  <2>2. Back(o) \in Listed(t) /\ Back(o)[2] = o[1] /\ o[1] \in Nodes
    BY <2>1, OccurrenceParts DEF OpenTour, TwoWays
  <2>3. QED
    BY <2>2, <1>2, <1>7, NullAssumption
<1>12. QED
  BY <1>1, <1>3, <1>7, <1>8, <1>10, <1>11 DEF TwoWays, s, w

\* The tour of v begun at v.
LEMMA RerootedLoop ==
    ASSUME NEW w \in Seq(Occurrences), NEW r \in Nodes, Path(w, r, r), Distinct(w),
           NEW v \in Nodes, w = <<>> => v = r,
           NEW starts, \A o \in starts : w # <<>> => o \in Listed(w) /\ o[1] = v,
           NEW loop \in Rerooted(w, starts)
    PROVE  /\ loop \in Seq(Occurrences) /\ Path(loop, v, v) /\ Distinct(loop)
           /\ Listed(loop) = Listed(w) /\ Len(loop) = Len(w)
<1>1. CASE w = <<>>
  <2>1. loop = w
    BY <1>1 DEF Rerooted
  <2>2. QED
    BY <2>1, <1>1
<1>2. CASE w # <<>>
  <2>1. PICK o \in starts : loop = From(w, o) \o Before(w, o)
    BY <1>2 DEF Rerooted
  <2>2. o \in Listed(w) /\ o[1] = v /\ o \in Occurrences
    BY <1>2, ListedElements
  <2> DEFINE B == Before(w, o)
             A == After(w, o)
             R == <<o>> \o A
  <2>3. /\ B \in Seq(Occurrences) /\ A \in Seq(Occurrences) /\ From(w, o) = R /\ w = B \o R
    BY <2>2, Parted
  <2> HIDE DEF B, A
  <2>4. <<o>> \in Seq(Occurrences) /\ Path(<<o>>, v, o[2])
    BY <2>2, Single
  <2>5. Path(B, r, v) /\ Path(A, o[2], r)
    BY <2>2, <2>3, PathParted
  <2>6. R \in Seq(Occurrences) /\ Path(R, v, r)
    BY <2>3, <2>4, <2>5, Joined, PathJoined
  <2> HIDE DEF R
  <2>7. loop = R \o B
    BY <2>1, <2>3 DEF B
  <2>8. loop \in Seq(Occurrences) /\ Path(loop, v, v)
    BY <2>3, <2>5, <2>6, <2>7, Joined, PathJoined
  <2>9. /\ Listed(w) = Listed(B) \cup Listed(R) /\ Len(w) = Len(B) + Len(R)
        /\ Distinct(B) /\ Distinct(R) /\ Listed(B) \cap Listed(R) = {}
    BY <2>3, <2>6, Joined
  <2>10. /\ Listed(loop) = Listed(R) \cup Listed(B) /\ Len(loop) = Len(R) + Len(B)
         /\ Distinct(R) /\ Distinct(B) /\ Listed(R) \cap Listed(B) = {} => Distinct(loop)
    BY <2>3, <2>6, <2>7, Joined
  <2>11. Len(B) \in Nat /\ Len(R) \in Nat
    BY <2>3, <2>6, ListedElements
  <2>12. QED
    BY <2>8, <2>9, <2>10, <2>11
<1>3. QED
  BY <1>1, <1>2

\* Splicing a loop from v to v into a tour at an occurrence of u, between the two new
\* occurrences.
LEMMA Spliced ==
    ASSUME NEW mine \in Seq(Occurrences), NEW a \in Nodes, Path(mine, a, Null), Distinct(mine),
           NEW at \in Listed(mine), NEW u \in Nodes, at[1] = u,
           NEW loop \in Seq(Occurrences), NEW v \in Nodes, Path(loop, v, v), Distinct(loop),
           Listed(mine) \cap Listed(loop) = {}, u # v,
           <<u, v>> \notin Listed(mine) \cup Listed(loop), <<v, u>> \notin Listed(mine) \cup Listed(loop)
    PROVE  LET t == LinkedTour(mine, at, loop, u, v)
           IN  /\ t \in Seq(Occurrences) /\ Path(t, a, Null) /\ Distinct(t)
               /\ Listed(t) = Listed(mine) \cup Listed(loop) \cup {<<u, v>>, <<v, u>>}
               /\ Len(t) = Len(mine) + Len(loop) + 2
<1> DEFINE B == Before(mine, at)
           A == After(mine, at)
           R == <<at>> \o A
           uv == <<u, v>>
           vu == <<v, u>>
           s1 == B \o <<uv>>
           s2 == s1 \o loop
           s3 == s2 \o <<vu>>
           s4 == s3 \o R
<1>1. at \in Occurrences /\ uv \in Occurrences /\ vu \in Occurrences /\ uv # vu
      /\ uv[1] = u /\ uv[2] = v /\ vu[1] = v /\ vu[2] = u
  <2>1. at \in Occurrences
    BY ListedElements
  <2>2. QED
    BY <2>1 DEF Occurrences
<1>2. /\ B \in Seq(Occurrences) /\ A \in Seq(Occurrences) /\ From(mine, at) = R /\ mine = B \o R
  <2>1. /\ Before(mine, at) \in Seq(Occurrences) /\ After(mine, at) \in Seq(Occurrences)
        /\ From(mine, at) = <<at>> \o After(mine, at)
        /\ mine = Before(mine, at) \o From(mine, at)
    BY Parted
  <2>2. QED
    BY <2>1
<1> HIDE DEF B, A, uv, vu
<1>3. /\ <<at>> \in Seq(Occurrences) /\ Path(<<at>>, u, at[2])
      /\ <<uv>> \in Seq(Occurrences) /\ Path(<<uv>>, u, v) /\ Listed(<<uv>>) = {uv} /\ Len(<<uv>>) = 1 /\ Distinct(<<uv>>)
      /\ <<vu>> \in Seq(Occurrences) /\ Path(<<vu>>, v, u) /\ Listed(<<vu>>) = {vu} /\ Len(<<vu>>) = 1 /\ Distinct(<<vu>>)
  <2>1. <<at>> \in Seq(Occurrences) /\ Path(<<at>>, u, at[2])
    BY <1>1, Single
  <2>2. <<uv>> \in Seq(Occurrences) /\ Path(<<uv>>, u, v) /\ Listed(<<uv>>) = {uv} /\ Len(<<uv>>) = 1 /\ Distinct(<<uv>>)
    BY <1>1, Single
  <2>3. <<vu>> \in Seq(Occurrences) /\ Path(<<vu>>, v, u) /\ Listed(<<vu>>) = {vu} /\ Len(<<vu>>) = 1 /\ Distinct(<<vu>>)
    BY <1>1, Single
  <2>4. QED
    BY <2>1, <2>2, <2>3
<1>4. Path(B, a, u) /\ Path(A, at[2], Null)
  BY <1>1, <1>2, PathParted
<1>5. R \in Seq(Occurrences) /\ Path(R, u, Null)
  BY <1>2, <1>3, <1>4, Joined, PathJoined
<1> HIDE DEF R
<1>6. /\ Listed(mine) = Listed(B) \cup Listed(R) /\ Len(mine) = Len(B) + Len(R)
      /\ Distinct(B) /\ Distinct(R) /\ Listed(B) \cap Listed(R) = {}
  BY <1>2, <1>5, Joined
<1>7. uv \notin Listed(mine) \cup Listed(loop) /\ vu \notin Listed(mine) \cup Listed(loop)
  BY DEF uv, vu
<1>8. /\ s1 \in Seq(Occurrences) /\ Path(s1, a, v) /\ Distinct(s1)
      /\ Listed(s1) = Listed(B) \cup {uv} /\ Len(s1) = Len(B) + 1
  <2>1. Listed(B) \cap Listed(<<uv>>) = {}
    BY <1>3, <1>6, <1>7
  <2>2. /\ s1 \in Seq(Occurrences) /\ Path(s1, a, v) /\ Distinct(s1)
        /\ Listed(s1) = Listed(B) \cup Listed(<<uv>>) /\ Len(s1) = Len(B) + Len(<<uv>>)
    BY <2>1, <1>2, <1>3, <1>4, <1>6, Chained
  <2>3. QED
    BY <2>2, <1>3
<1> HIDE DEF s1
<1>9. /\ s2 \in Seq(Occurrences) /\ Path(s2, a, v) /\ Distinct(s2)
      /\ Listed(s2) = Listed(B) \cup {uv} \cup Listed(loop) /\ Len(s2) = Len(B) + 1 + Len(loop)
  BY <1>8, <1>6, <1>7, Joined, PathJoined
<1> HIDE DEF s2
<1>10. /\ s3 \in Seq(Occurrences) /\ Path(s3, a, u) /\ Distinct(s3)
       /\ Listed(s3) = Listed(B) \cup {uv} \cup Listed(loop) \cup {vu}
       /\ Len(s3) = Len(B) + 1 + Len(loop) + 1
  <2>1. Listed(s2) \cap Listed(<<vu>>) = {}
    BY <1>1, <1>3, <1>6, <1>7, <1>9
  <2>2. /\ s3 \in Seq(Occurrences) /\ Path(s3, a, u) /\ Distinct(s3)
        /\ Listed(s3) = Listed(s2) \cup Listed(<<vu>>) /\ Len(s3) = Len(s2) + Len(<<vu>>)
    BY <2>1, <1>3, <1>9, Chained
  <2>3. QED
    BY <2>2, <1>3, <1>9
<1> HIDE DEF s3
<1>11. Listed(s3) \cap Listed(R) = {}
  BY <1>10, <1>6, <1>7
<1>12. /\ s4 \in Seq(Occurrences) /\ Path(s4, a, Null) /\ Distinct(s4)
       /\ Listed(s4) = Listed(s3) \cup Listed(R)
       /\ Len(s4) = Len(s3) + Len(R)
  BY <1>10, <1>11, <1>5, <1>6, Joined, PathJoined
<1>13. s4 = LinkedTour(mine, at, loop, u, v)
  BY <1>2 DEF s4, s3, s2, s1, LinkedTour, B, uv, vu
<1> HIDE DEF s4
<1>14. Len(s4) = Len(mine) + Len(loop) + 2
  <2>1. Len(B) \in Nat /\ Len(loop) \in Nat /\ Len(R) \in Nat
    BY <1>2, <1>5, ListedElements
  <2>2. QED
    BY <2>1, <1>6, <1>10, <1>12
<1>15. Listed(s4) = Listed(mine) \cup Listed(loop) \cup {<<u, v>>, <<v, u>>}
  BY <1>6, <1>10, <1>12 DEF uv, vu
<1>16. QED
  BY <1>12, <1>13, <1>14, <1>15

\* When link() may splice the tour of v into the tour of u.
MayLink(mine, theirs, at, u, v, r, starts, loop) ==
    /\ mine \in Seq(Occurrences) /\ mine # <<>> /\ IsEulerTour(mine)
    /\ theirs \in Seq(Occurrences) /\ theirs # <<>> /\ IsEulerTour(theirs)
    /\ VerticesOf(mine) \cap VerticesOf(theirs) = {}
    /\ at \in Listed(mine) /\ u \in Nodes /\ at[1] = u
    /\ v \in Nodes /\ v \in VerticesOf(theirs)
    /\ r = theirs[Len(theirs)][1]
    /\ \A o \in starts : o \in Listed(theirs) /\ o[1] = v /\ o # Sentinel(r)
    /\ loop \in Rerooted(Before(theirs, Sentinel(r)), starts)

\* What it makes of the two tours.
Links(t, mine, theirs, u, v, r) ==
    /\ t \in Seq(Occurrences) /\ t # <<>> /\ IsEulerTour(t)
    /\ Listed(t) = (Listed(mine) \cup Listed(theirs) \cup {<<u, v>>, <<v, u>>}) \ {Sentinel(r)}
    /\ VerticesOf(t) = VerticesOf(mine) \cup VerticesOf(theirs)

\* link() makes one Euler tour of two.
LEMMA LinkMakesTour ==
    ASSUME NEW mine, NEW theirs, NEW at, NEW u, NEW v, NEW r, NEW starts, NEW loop,
           MayLink(mine, theirs, at, u, v, r, starts, loop)
    PROVE  Links(LinkedTour(mine, at, loop, u, v), mine, theirs, u, v, r)
<1> USE DEF MayLink
<1> DEFINE a == mine[1][1]
           w == Before(theirs, Sentinel(r))
           t == LinkedTour(mine, at, loop, u, v)
           V1 == VerticesOf(mine)
           V2 == VerticesOf(theirs)
<1>1. /\ a \in Nodes /\ OpenTour(mine, a) /\ Len(mine) = 2 * Cardinality(V1) - 1 /\ Sentinel(a) \in Listed(mine)
  BY TourShape
<1>2. /\ r \in Nodes /\ OpenTour(theirs, r) /\ Len(theirs) = 2 * Cardinality(V2) - 1
      /\ Sentinel(r) \in Listed(theirs)
  <2>1. theirs[Len(theirs)] = Sentinel(theirs[1][1])
    BY TourShape
  <2>2. r = theirs[1][1]
    BY <2>1 DEF Sentinel
  <2>3. QED
    BY <2>2, TourShape
<1> HIDE DEF a
<1>3. /\ w \in Seq(Occurrences) /\ Path(w, r, r) /\ Distinct(w)
      /\ Listed(theirs) = Listed(w) \cup {Sentinel(r)} /\ Sentinel(r) \notin Listed(w)
      /\ Len(w) = Len(theirs) - 1
      /\ TwoWays(Listed(w)) /\ \A o \in Listed(w) : o[2] # Null
  BY <1>2, SentinelOff
<1> HIDE DEF w
<1>4. /\ V1 = {o[1] : o \in Listed(mine)} /\ V2 = {o[1] : o \in Listed(theirs)}
  BY DEF VerticesOf
<1> HIDE DEF V1, V2
<1>5. V1 \cap V2 = {} /\ v \in V2 /\ u \in V1 /\ u # v
  BY <1>4 DEF V1, V2
<1>6. w = <<>> => v = r
  <2>1. ASSUME w = <<>>
        PROVE  v = r
    <3>1. Listed(theirs) = {Sentinel(r)}
      BY <2>1, <1>3, Nothing
    <3>2. QED
      BY <3>1, <1>4, <1>5 DEF Sentinel
  <2>2. QED
    BY <2>1
<1>7. \A o \in starts : w # <<>> => o \in Listed(w) /\ o[1] = v
  BY <1>3
<1>8. /\ loop \in Seq(Occurrences) /\ Path(loop, v, v) /\ Distinct(loop)
      /\ Listed(loop) = Listed(w) /\ Len(loop) = Len(w)
  BY <1>2, <1>3, <1>6, <1>7, RerootedLoop DEF w
<1>9. /\ Listed(mine) \subseteq Occurrences /\ Listed(theirs) \subseteq Occurrences
  BY ListedElements
<1>10. Listed(mine) \cap Listed(theirs) = {}
  <2>1. \A o \in Listed(mine) : o[1] \in V1
    BY <1>4
  <2>2. \A o \in Listed(theirs) : o[1] \in V2
    BY <1>4
  <2>3. QED
    BY <2>1, <2>2, <1>5
<1>11. /\ <<u, v>> \notin Listed(mine) /\ <<v, u>> \notin Listed(mine)
       /\ <<u, v>> \notin Listed(theirs) /\ <<v, u>> \notin Listed(theirs)
  <2>1. /\ Back(<<u, v>>) = <<v, u>> /\ Back(<<v, u>>) = <<u, v>> /\ <<u, v>>[1] = u /\ <<v, u>>[1] = v
        /\ <<u, v>>[2] # Null /\ <<v, u>>[2] # Null
    BY NullAssumption DEF Back
  <2>2. <<v, u>> \notin Listed(mine) /\ <<u, v>> \notin Listed(theirs)
    BY <2>1, <1>4, <1>5
  <2>3. /\ <<u, v>> \in Listed(mine) => <<v, u>> \in Listed(mine)
        /\ <<v, u>> \in Listed(theirs) => <<u, v>> \in Listed(theirs)
    BY <2>1, <1>1, <1>2 DEF OpenTour, TwoWays
  <2>4. QED
    BY <2>2, <2>3
<1>12. /\ t \in Seq(Occurrences) /\ Path(t, a, Null) /\ Distinct(t)
       /\ Listed(t) = Listed(mine) \cup Listed(loop) \cup {<<u, v>>, <<v, u>>}
       /\ Len(t) = Len(mine) + Len(loop) + 2
  <2>1. Listed(mine) \cap Listed(loop) = {}
    BY <1>3, <1>8, <1>10
  <2>2. <<u, v>> \notin Listed(mine) \cup Listed(loop) /\ <<v, u>> \notin Listed(mine) \cup Listed(loop)
    BY <1>3, <1>8, <1>11
  <2>3. QED
    BY <2>1, <2>2, <1>1, <1>5, <1>8, Spliced DEF OpenTour
<1> HIDE DEF t
<1>13. ASSUME NEW o \in Listed(t), o[2] # Null
       PROVE  Back(o) \in Listed(t)
  <2>1. CASE o \in Listed(mine)
    BY <2>1, <1>1, <1>12, <1>13 DEF OpenTour, TwoWays
  <2>2. CASE o \in Listed(loop)
    BY <2>2, <1>3, <1>8, <1>12, <1>13 DEF TwoWays
  <2>3. CASE o \in {<<u, v>>, <<v, u>>}
    BY <2>3, <1>12 DEF Back
  <2>4. QED
    BY <2>1, <2>2, <2>3, <1>12
<1>14. EndsAt(Listed(t), a)
  <2>1. <<u, v>>[2] # Null /\ <<v, u>>[2] # Null
    BY NullAssumption
  <2>2. QED
    BY <2>1, <1>1, <1>3, <1>8, <1>12 DEF OpenTour, EndsAt
<1>15. OpenTour(t, a)
  BY <1>12, <1>13, <1>14 DEF OpenTour, TwoWays
<1>16. VerticesOf(t) = V1 \cup V2
  <2>1. VerticesOf(t) = {o[1] : o \in Listed(t)}
    BY DEF VerticesOf
  <2>2. VerticesOf(t) \subseteq V1 \cup V2
    BY <2>1, <1>3, <1>4, <1>5, <1>8, <1>12
  <2>3. V1 \subseteq VerticesOf(t)
    BY <2>1, <1>4, <1>12
  <2>4. r \in VerticesOf(t)
    <3>1. CASE w = <<>>
      BY <3>1, <2>1, <1>6, <1>12
    <3>2. CASE w # <<>>
      <4>1. \E o \in Listed(w) : o[1] = r
        BY <3>2, <1>3, WalkGoesOn
      <4>2. QED
        BY <4>1, <2>1, <1>8, <1>12
    <3>3. QED
      BY <3>1, <3>2
  <2>5. \A o \in Listed(w) : o[1] \in VerticesOf(t)
    BY <2>1, <1>8, <1>12
  <2>6. V2 \subseteq VerticesOf(t)
    BY <2>4, <2>5, <1>3, <1>4 DEF Sentinel
  <2>7. QED
    BY <2>2, <2>3, <2>6
<1>17. /\ Cardinality(V1 \cup V2) = Cardinality(V1) + Cardinality(V2)
       /\ Cardinality(V1) \in Nat /\ Cardinality(V2) \in Nat
  <2>1. IsFiniteSet(V1) /\ IsFiniteSet(V2)
    BY <1>1, <1>2, EnoughArcs DEF V1, V2
  <2>2. Cardinality(V1) \in Nat /\ Cardinality(V2) \in Nat
    BY <2>1, FS_CardinalityType
  <2>3. Cardinality(V1 \cap V2) = 0
    BY <1>5, FS_EmptySet
  <2>4. Cardinality(V1 \cup V2) = Cardinality(V1) + Cardinality(V2) - Cardinality(V1 \cap V2)
    BY <2>1, FS_Union
  <2>5. QED
    BY <2>2, <2>3, <2>4
<1>18. Len(t) = 2 * Cardinality(VerticesOf(t)) - 1
  <2>1. Len(t) = Len(mine) + (Len(theirs) - 1) + 2
    BY <1>3, <1>8, <1>12
  <2>2. \A c, d \in Nat : (2 * c - 1) + ((2 * d - 1) - 1) + 2 = 2 * (c + d) - 1
    OBVIOUS
  <2>3. Len(t) = 2 * (Cardinality(V1) + Cardinality(V2)) - 1
    BY <2>1, <2>2, <1>1, <1>2, <1>17, Zenon
  <2>4. QED
    BY <2>3, <1>16, <1>17, Zenon
<1>19. Listed(t) = (Listed(mine) \cup Listed(theirs) \cup {<<u, v>>, <<v, u>>}) \ {Sentinel(r)}
  <2>1. Sentinel(r) \notin Listed(mine)
    BY <1>2, <1>10
  <2>2. Sentinel(r) \notin {<<u, v>>, <<v, u>>}
    BY NullAssumption DEF Sentinel
  <2>3. QED
    BY <2>1, <2>2, <1>3, <1>8, <1>12
<1>20. QED
  BY <1>1, <1>12, <1>15, <1>16, <1>18, <1>19, ShapeIsTour DEF t, V1, V2, Links

------------------------------------------------------------------------------
\* A tour taken apart by cut()

\* A list that lists nothing twice falls apart at an occurrence in one way.
LEMMA PartsUnique ==
    ASSUME NEW s \in Seq(Occurrences), NEW r \in Seq(Occurrences), NEW o \in Occurrences,
           NEW t, t = s \o (<<o>> \o r), Distinct(t)
    PROVE  o \in Listed(t) /\ Before(t, o) = s /\ After(t, o) = r
<1> DEFINE q == <<o>> \o r
           m == Len(s)
           n == Len(r)
           p == Place(t, o)
<1>1. <<o>> \in Seq(Occurrences) /\ Len(<<o>>) = 1 /\ <<o>>[1] = o
  OBVIOUS
<1>2. q \in Seq(Occurrences) /\ Len(q) = 1 + n /\ q[1] = o /\ Listed(q) = {o} \cup Listed(r)
  <2>1. Len(q) = 1 + n /\ \A i \in 1 .. 1 + n : q[i] = IF i <= 1 THEN <<o>>[i] ELSE r[i - 1]
    BY <1>1, ConcatProperties
  <2>2. n \in Nat
    BY ListedElements
  <2>3. 1 \in 1 .. 1 + n
    BY <2>2
  <2>4. q \in Seq(Occurrences) /\ Listed(q) = {o} \cup Listed(r)
    BY <1>1, Joined, Single
  <2> HIDE DEF q, n
  <2>5. q[1] = <<o>>[1]
    BY <2>1, <2>3
  <2>6. QED
    BY <2>1, <2>4, <2>5, <1>1
<1>3. t = s \o q
  OBVIOUS
<1> HIDE DEF q
<1>4. /\ t \in Seq(Occurrences) /\ Len(t) = m + (1 + n) /\ Listed(t) = Listed(s) \cup Listed(q)
      /\ \A i \in 1 .. m + (1 + n) : t[i] = IF i <= m THEN s[i] ELSE q[i - m]
  <2>1. /\ t \in Seq(Occurrences) /\ Len(t) = m + Len(q)
        /\ \A i \in 1 .. m + Len(q) : t[i] = IF i <= m THEN s[i] ELSE q[i - m]
    <3>1. q \in Seq(Occurrences)
      BY <1>2
    <3>2. QED
      BY <3>1, <1>3, ConcatProperties, Zenon
  <2>2. Listed(t) = Listed(s) \cup Listed(q)
    BY <1>2, <1>3, Joined
  <2>3. QED
    BY <2>1, <2>2, <1>2
<1>5. m \in Nat /\ n \in Nat
  BY ListedElements
<1> HIDE DEF m, n
<1>6. o \in Listed(t)
  BY <1>2, <1>4
<1>7. p \in 1 .. Len(t) /\ t[p] = o
  BY <1>4, <1>6, Parted
<1>8. t[m + 1] = o /\ m + 1 \in 1 .. Len(t)
  <2>1. 1 \in 1 .. Len(q)
    BY <1>2, <1>5
  <2>2. (s \o q)[Len(s) + 1] = q[1] /\ Len(s) + 1 \in 1 .. Len(s) + Len(q)
    BY <2>1, <1>2, InSecond
  <2>3. QED
    BY <2>2, <1>2, <1>3, <1>4 DEF m
<1>9. p = m + 1
  BY <1>7, <1>8 DEF Distinct
<1>10. Before(t, o) = s
  <2>1. Before(t, o) = SubSeq(t, 1, m)
    <3>1. p - 1 = m
      BY <1>5, <1>9
    <3>2. QED
      BY <3>1 DEF Before, p
  <2>2. CASE m = 0
    <3>1. SubSeq(t, 1, m) = <<>>
      BY <2>2, SubSeqEmpty
    <3>2. s = <<>>
      BY <2>2, ListedElements DEF m
    <3>3. QED
      BY <2>1, <3>1, <3>2
  <2>3. CASE m # 0
    <3>1. 1 \in 1 .. Len(s) /\ m \in 1 .. Len(s)
      BY <2>3, <1>5 DEF m
    <3>2. SubSeq(s \o q, 1, m) = SubSeq(s, 1, m)
      BY <3>1, <1>2, SubSeqOfConcat1
    <3>3. SubSeq(s, 1, m) = s
      BY SubSeqFull DEF m
    <3>4. QED
      BY <2>1, <3>2, <3>3, <1>3
  <2>4. QED
    BY <2>2, <2>3
<1>11. /\ After(t, o) \in Seq(Occurrences) /\ From(t, o) = <<o>> \o After(t, o)
       /\ t = Before(t, o) \o From(t, o)
  BY <1>4, <1>6, Parted
<1>12. From(t, o) = q
  <2>1. s \o From(t, o) = s \o q
    BY <1>3, <1>10, <1>11
  <2>2. From(t, o) \in Seq(Occurrences)
    BY <1>1, <1>11, ConcatProperties
  <2>3. q \in Seq(Occurrences)
    BY <1>2
  <2>4. QED
    BY <2>1, <2>2, <2>3, ConcatSimplifications, Zenon
<1>13. After(t, o) = r
  <2>1. <<o>> \o After(t, o) = <<o>> \o r
    BY <1>11, <1>12 DEF q
  <2>2. <<o>> \in Seq(Occurrences) /\ After(t, o) \in Seq(Occurrences)
    BY <1>1, <1>11
  <2>3. QED
    BY <2>1, <2>2, ConcatSimplifications, Zenon
<1>14. QED
  BY <1>6, <1>10, <1>13

\* What follows an occurrence that is listed once.
LEMMA Later ==
    ASSUME NEW s \in Seq(Occurrences), NEW r \in Seq(Occurrences), NEW o \in Occurrences,
           Distinct(s \o (<<o>> \o r))
    PROVE  After(s \o (<<o>> \o r), o) = r
  BY PartsUnique

\* Lists may be put together in any grouping.
LEMMA Grouped == \A s, t, u \in Seq(Occurrences) : s \o (t \o u) = (s \o t) \o u
<1>1. ASSUME NEW s \in Seq(Occurrences), NEW t \in Seq(Occurrences), NEW u \in Seq(Occurrences)
      PROVE  s \o (t \o u) = (s \o t) \o u
  BY ConcatAssociative
<1>2. QED
  BY <1>1

\* A walk only joins vertices that its edges connect.
LEMMA WalkConnects ==
    ASSUME NEW s \in Seq(Occurrences), NEW a \in Nodes, NEW b, Path(s, a, b),
           NEW E \in SUBSET Edges, \A o \in Listed(s) : o[2] # Null => {o[1], o[2]} \in E
    PROVE  \A o \in Listed(s) : o[1] \in Component(E, a)
<1>1. Component(E, a) \in ClosedSets(E) /\ a \in Component(E, a)
  BY ComponentClosed
<1>2. \A o \in Listed(s) : o[2] # Null /\ o[1] \in Component(E, a) => o[2] \in Component(E, a)
  BY <1>1 DEF ClosedSets
<1>3. QED
  BY <1>1, <1>2, WalkStays

\* The trees of vertices that are not connected have no vertex in common.
LEMMA SeparateTrees ==
    ASSUME NEW E \in SUBSET Edges, NEW a \in Nodes, NEW b \in Nodes, ~Connected(E, a, b)
    PROVE  Component(E, a) \cap Component(E, b) = {}
<1>1. ASSUME NEW x \in Component(E, a), x \in Component(E, b)
      PROVE  FALSE
  <2>1. x \in Nodes
    BY DEF Component
  <2>2. Component(E, x) = Component(E, a) /\ Component(E, x) = Component(E, b)
    BY <2>1, <1>1, SameTree
  <2>3. b \in Component(E, a)
    BY <2>2, ComponentClosed
  <2>4. QED
    BY <2>3 DEF Connected
<1>2. QED
  BY <1>1

\* When cut() may take a tour apart: E is what stays linked.
MayCut(t, x, y, E) ==
    /\ t \in Seq(Occurrences) /\ t # <<>> /\ IsEulerTour(t)
    /\ x \in Nodes /\ y \in Nodes /\ <<x, y>> \in Listed(t)
    /\ <<y, x>> \in Listed(After(t, <<x, y>>))
    /\ E \in SUBSET Edges /\ ~Connected(E, x, y)
    /\ \A o \in Listed(t) \ {<<x, y>>, <<y, x>>} : o[2] # Null => {o[1], o[2]} \in E

\* What it makes of the tour.
Cuts(inner, outer, t, x, y) ==
    /\ inner \in Seq(Occurrences) /\ inner # <<>> /\ IsEulerTour(inner)
    /\ outer \in Seq(Occurrences) /\ outer # <<>> /\ IsEulerTour(outer)
    /\ Listed(inner) \cup Listed(outer) = (Listed(t) \ {<<x, y>>, <<y, x>>}) \cup {Sentinel(y)}
    /\ VerticesOf(inner) \cap VerticesOf(outer) = {}
    /\ VerticesOf(inner) \cup VerticesOf(outer) = VerticesOf(t)
    /\ y \in VerticesOf(inner) /\ x \in VerticesOf(outer)
    /\ Sentinel(y) \in Listed(inner)

\* The two fragments, the inner one with its new sentinel.
Inner(t, x, y) == Append(Before(After(t, <<x, y>>), <<y, x>>), Sentinel(y))
Outer(t, x, y) == Before(t, <<x, y>>) \o After(t, <<y, x>>)

\* cut() makes two Euler tours of one, over the two trees that the cut leaves.
LEMMA CutMakesTours ==
    ASSUME NEW t, NEW x, NEW y, NEW E, MayCut(t, x, y, E)
    PROVE  Cuts(Inner(t, x, y), Outer(t, x, y), t, x, y)
<1> USE DEF MayCut
<1> DEFINE xy == <<x, y>>
           yx == <<y, x>>
           a == t[1][1]
           B == Before(t, xy)
           R == After(t, xy)
           W == Before(R, yx)
           A == After(R, yx)
           S == Sentinel(y)
           inner == Append(W, S)
           outer == B \o After(t, yx)
           front == B \o (<<xy>> \o W)
           back == <<yx>> \o A
           Cx == Component(E, x)
           Cy == Component(E, y)
<1>1. /\ a \in Nodes /\ OpenTour(t, a) /\ Len(t) = 2 * Cardinality(VerticesOf(t)) - 1
  BY TourShape
<1> HIDE DEF a
<1>2. Path(t, a, Null) /\ Distinct(t) /\ TwoWays(Listed(t)) /\ EndsAt(Listed(t), a)
  BY <1>1 DEF OpenTour
<1>3. Listed(t) \subseteq Occurrences
  BY ListedElements
<1>4. x # y /\ xy \in Occurrences /\ yx \in Occurrences /\ S \in Occurrences /\ xy # yx
      /\ xy[1] = x /\ xy[2] = y /\ yx[1] = y /\ yx[2] = x /\ S[1] = y /\ S[2] = Null
      /\ Back(xy) = yx /\ Back(yx) = xy
  <2>1. xy \in Occurrences /\ xy[1] = x /\ xy[2] = y /\ x # y
    BY <1>3, OccurrenceParts
  <2>2. yx \in Occurrences /\ S \in Occurrences /\ xy # yx
    BY <2>1, NullAssumption DEF Occurrences, Sentinel
  <2>3. QED
    BY <2>1, <2>2 DEF Back, Sentinel
<1>5. /\ B \in Seq(Occurrences) /\ R \in Seq(Occurrences) /\ t = B \o (<<xy>> \o R)
  BY Parted
<1>6. /\ W \in Seq(Occurrences) /\ A \in Seq(Occurrences) /\ R = W \o (<<yx>> \o A)
  BY <1>5, Parted
<1> HIDE DEF xy, yx, S, B, R, W, Cx, Cy
<1>7. /\ <<xy>> \in Seq(Occurrences) /\ Listed(<<xy>>) = {xy} /\ Len(<<xy>>) = 1
      /\ <<yx>> \in Seq(Occurrences) /\ Listed(<<yx>>) = {yx} /\ Len(<<yx>>) = 1
      /\ <<S>> \in Seq(Occurrences) /\ Listed(<<S>>) = {S} /\ Len(<<S>>) = 1 /\ Distinct(<<S>>) /\ Path(<<S>>, y, Null)
  <2>1. <<xy>> \in Seq(Occurrences) /\ Listed(<<xy>>) = {xy} /\ Len(<<xy>>) = 1
    BY <1>4, Single
  <2>2. <<yx>> \in Seq(Occurrences) /\ Listed(<<yx>>) = {yx} /\ Len(<<yx>>) = 1
    BY <1>4, Single
  <2>3. <<S>> \in Seq(Occurrences) /\ Listed(<<S>>) = {S} /\ Len(<<S>>) = 1 /\ Distinct(<<S>>) /\ Path(<<S>>, y, Null)
    BY <1>4, Single
  <2>4. QED
    BY <2>1, <2>2, <2>3
<1>8. Path(B, a, x) /\ Path(R, y, Null)
  BY <1>2, <1>4, <1>5, PathParted
<1>9. Path(W, y, y) /\ Path(A, x, Null)
  <2>1. Path(W \o (<<yx>> \o A), y, Null)
    BY <1>6, <1>8
  <2> HIDE DEF A
  <2>2. QED
    BY <2>1, <1>4, <1>6, PathParted
<1>10. back \in Seq(Occurrences) /\ Listed(back) = {yx} \cup Listed(A) /\ Len(back) = 1 + Len(A)
       /\ (Distinct(back) => Distinct(A) /\ {yx} \cap Listed(A) = {})
  <2> HIDE DEF A
  <2>1. /\ back \in Seq(Occurrences) /\ Listed(back) = Listed(<<yx>>) \cup Listed(A)
        /\ Len(back) = Len(<<yx>>) + Len(A)
        /\ Distinct(back) => Distinct(A) /\ Listed(<<yx>>) \cap Listed(A) = {}
    BY <1>6, <1>7, Joined
  <2>2. QED
    BY <2>1, <1>7
<1>11. (<<xy>> \o W) \in Seq(Occurrences) /\ Listed(<<xy>> \o W) = {xy} \cup Listed(W) /\ Len(<<xy>> \o W) = 1 + Len(W)
       /\ (Distinct(<<xy>> \o W) => Distinct(W) /\ {xy} \cap Listed(W) = {})
  <2>1. /\ <<xy>> \o W \in Seq(Occurrences) /\ Listed(<<xy>> \o W) = Listed(<<xy>>) \cup Listed(W)
        /\ Len(<<xy>> \o W) = Len(<<xy>>) + Len(W)
        /\ Distinct(<<xy>> \o W) => Distinct(W) /\ Listed(<<xy>>) \cap Listed(W) = {}
    BY <1>6, <1>7, Joined
  <2>2. QED
    BY <2>1, <1>7
<1>12. front \in Seq(Occurrences) /\ Listed(front) = Listed(B) \cup {xy} \cup Listed(W) /\ Len(front) = Len(B) + (1 + Len(W))
       /\ (Distinct(front) => Distinct(B) /\ Distinct(<<xy>> \o W) /\ Listed(B) \cap ({xy} \cup Listed(W)) = {})
  <2> DEFINE Y == <<xy>> \o W
  <2>1. Y \in Seq(Occurrences) /\ Listed(Y) = {xy} \cup Listed(W) /\ Len(Y) = 1 + Len(W)
    BY <1>11
  <2> HIDE DEF Y
  <2>2. /\ B \o Y \in Seq(Occurrences) /\ Listed(B \o Y) = Listed(B) \cup Listed(Y)
        /\ Len(B \o Y) = Len(B) + Len(Y)
        /\ Distinct(B \o Y) => Distinct(B) /\ Distinct(Y) /\ Listed(B) \cap Listed(Y) = {}
    BY <2>1, <1>5, Joined
  <2>3. front = B \o Y
    BY DEF Y
  <2>4. QED
    BY <2>1, <2>2, <2>3 DEF Y
<1>13. t = front \o back
  <2> HIDE DEF A
  <2> DEFINE X == <<xy>>
             Y == X \o W
  <2>0. B \in Seq(Occurrences) /\ W \in Seq(Occurrences) /\ X \in Seq(Occurrences)
        /\ Y \in Seq(Occurrences) /\ back \in Seq(Occurrences)
    BY <1>5, <1>6, <1>7, <1>10, <1>11
  <2>1. t = B \o (X \o (W \o back)) /\ front = B \o Y
    BY <1>5, <1>6
  <2> HIDE DEF X, back, front
  <2>2. X \o (W \o back) = (X \o W) \o back
    BY <2>0, Grouped, Zenon
  <2>3. t = B \o (Y \o back)
    BY <2>1, <2>2, Zenon
  <2> HIDE DEF Y
  <2>4. B \o (Y \o back) = (B \o Y) \o back
    <3>1. B \in Seq(Occurrences) /\ Y \in Seq(Occurrences) /\ back \in Seq(Occurrences)
      BY <2>0
    <3>2. QED
      BY <3>1, Grouped, Zenon
  <2>5. QED
    BY <2>1, <2>3, <2>4, Zenon
<1>14. /\ Listed(t) = Listed(front) \cup Listed(back) /\ Len(t) = Len(front) + Len(back)
       /\ Distinct(front) /\ Distinct(back) /\ Listed(front) \cap Listed(back) = {}
  <2> HIDE DEF front, back
  <2>1. QED
    BY <1>2, <1>10, <1>12, <1>13, Joined
<1>15. After(t, yx) = A
  <2> HIDE DEF A, front
  <2>1. t = front \o (<<yx>> \o A)
    BY <1>13
  <2>2. front \in Seq(Occurrences) /\ A \in Seq(Occurrences) /\ yx \in Occurrences /\ Distinct(t)
    BY <1>2, <1>4, <1>6, <1>12
  <2>3. QED
    BY <2>1, <2>2, Later
<1> HIDE DEF A, front, back
<1>16. /\ Distinct(B) /\ Distinct(W) /\ Distinct(A)
       /\ Listed(B) \cap Listed(W) = {} /\ Listed(B) \cap Listed(A) = {} /\ Listed(W) \cap Listed(A) = {}
       /\ \A o \in Listed(B) \cup Listed(W) \cup Listed(A) : o # xy /\ o # yx
       /\ Listed(t) = Listed(B) \cup Listed(W) \cup Listed(A) \cup {xy, yx}
  <2>1. Distinct(B) /\ Distinct(W) /\ Distinct(A)
    BY <1>10, <1>11, <1>12, <1>14
  <2>2. /\ {yx} \cap Listed(A) = {} /\ {xy} \cap Listed(W) = {}
        /\ Listed(B) \cap ({xy} \cup Listed(W)) = {}
        /\ (Listed(B) \cup {xy} \cup Listed(W)) \cap ({yx} \cup Listed(A)) = {}
    BY <1>10, <1>11, <1>12, <1>14
  <2>3. QED
    BY <2>1, <2>2, <1>10, <1>12, <1>14
<1>17. Len(t) = Len(B) + Len(W) + Len(A) + 2 /\ Len(B) \in Nat /\ Len(W) \in Nat /\ Len(A) \in Nat
  <2>1. Len(B) \in Nat /\ Len(W) \in Nat /\ Len(A) \in Nat
    BY <1>5, <1>6, ListedElements
  <2>2. QED
    BY <2>1, <1>10, <1>12, <1>14
<1>18. \A o \in Listed(B) \cup Listed(W) \cup Listed(A) :
          /\ o \in Listed(t) /\ o \in Occurrences
          /\ o[2] # Null => {o[1], o[2]} \in E /\ Back(o) \in Listed(t)
          /\ o[2] = Null => o[1] = a
  <2>1. TAKE o \in Listed(B) \cup Listed(W) \cup Listed(A)
  <2>2. o \in Listed(t) /\ o \in Occurrences /\ o # xy /\ o # yx
    BY <1>3, <1>16
  <2>3. o[2] # Null => {o[1], o[2]} \in E
    BY <2>2 DEF xy, yx
  <2>4. QED
    BY <2>2, <2>3, <1>2 DEF TwoWays, EndsAt
<1>19. \A o \in Listed(W) : o[1] \in Cy
  BY <1>6, <1>9, <1>18, WalkConnects DEF Cy
<1>20. \A o \in Listed(A) : o[1] \in Cx
  BY <1>6, <1>9, <1>18, WalkConnects DEF Cx
<1>21. A # <<>> /\ a \in Cx /\ a \in {o[1] : o \in Listed(A)}
  <2>1. A # <<>>
    BY <1>9, NullAssumption DEF Path
  <2>2. A[Len(A)][2] = Null
    BY <2>1, <1>9 DEF Path
  <2>3. Len(A) \in 1 .. Len(A)
    BY <2>1, <1>6, <1>17, ListedElements
  <2>4. A[Len(A)] \in Listed(A)
    BY <2>3, <1>6, ListedElements
  <2>5. A[Len(A)][1] = a
    BY <2>2, <2>4, <1>18
  <2>6. QED
    BY <2>1, <2>4, <2>5, <1>20
<1>22. \A o \in Listed(B) : o[1] \in Cx
  <2>1. \A o \in Listed(B) : o[1] \in Component(E, a)
    BY <1>1, <1>5, <1>8, <1>18, WalkConnects
  <2>2. Component(E, a) = Cx
    BY <1>1, <1>21, SameTree DEF Cx
  <2>3. QED
    BY <2>1, <2>2
<1>23. Cx \cap Cy = {} /\ x \in Cx /\ y \in Cy
  BY SeparateTrees, ComponentClosed DEF Cx, Cy
<1>24. \A o \in Listed(W) : o[2] # Null
  BY <1>18, <1>19, <1>21, <1>23
<1>25. S \notin Listed(W)
  BY <1>4, <1>24
<1>26. /\ outer \in Seq(Occurrences) /\ Path(outer, a, Null) /\ Distinct(outer)
       /\ Listed(outer) = Listed(B) \cup Listed(A) /\ Len(outer) = Len(B) + Len(A)
  <2>1. outer = B \o A
    BY <1>15
  <2> HIDE DEF outer
  <2>2. QED
    BY <2>1, <1>5, <1>6, <1>8, <1>9, <1>16, Chained
<1>27. /\ inner \in Seq(Occurrences) /\ Path(inner, y, Null) /\ Distinct(inner)
       /\ Listed(inner) = Listed(W) \cup {S} /\ Len(inner) = Len(W) + 1
  <2>1. inner = W \o <<S>>
    BY <1>4, <1>6, AppendIsConcat
  <2> HIDE DEF inner
  <2>2. Listed(W) \cap Listed(<<S>>) = {}
    BY <1>7, <1>25
  <2>3. /\ inner \in Seq(Occurrences) /\ Path(inner, y, Null) /\ Distinct(inner)
        /\ Listed(inner) = Listed(W) \cup Listed(<<S>>) /\ Len(inner) = Len(W) + Len(<<S>>)
    BY <2>1, <2>2, <1>6, <1>7, <1>9, <1>16, Chained
  <2>4. QED
    BY <2>3, <1>7
<1> HIDE DEF inner, outer
<1>28. \A o \in Listed(B) \cup Listed(W) \cup Listed(A) : o[2] # Null =>
          /\ Back(o) # xy /\ Back(o) # yx /\ Back(o)[1] = o[2]
          /\ Back(o) \in Listed(B) \cup Listed(W) \cup Listed(A)
  <2>1. TAKE o \in Listed(B) \cup Listed(W) \cup Listed(A)
  <2>2. HAVE o[2] # Null
  <2>3. o \in Occurrences /\ Back(o) \in Listed(t) /\ o # xy /\ o # yx
    BY <2>2, <1>16, <1>18
  <2>4. o = <<o[1], o[2]>> /\ Back(o)[1] = o[2] /\ Back(o)[2] = o[1]
    BY <2>2, <2>3, OccurrenceParts
  <2>5. Back(o) # xy /\ Back(o) # yx
    BY <2>3, <2>4, <1>4 DEF xy, yx
  <2>6. QED
    BY <2>3, <2>4, <2>5, <1>16
<1>29. OpenTour(inner, y)
  <2>1. ASSUME NEW o \in Listed(W)
        PROVE  Back(o) \in Listed(W)
    <3>1. o[2] \in Cy
      <4>1. o[2] = y \/ \E q \in Listed(W) : q[1] = o[2]
        BY <1>6, <1>9, WalkGoesOn
      <4>2. QED
        BY <4>1, <1>19, <1>23
    <3>2. Back(o)[1] = o[2] /\ Back(o) \in Listed(B) \cup Listed(W) \cup Listed(A)
      BY <1>24, <1>28
    <3>3. QED
      BY <3>1, <3>2, <1>20, <1>22, <1>23
  <2>2. TwoWays(Listed(inner))
    BY <2>1, <1>4, <1>27 DEF TwoWays
  <2>3. EndsAt(Listed(inner), y)
    BY <1>4, <1>24, <1>27 DEF EndsAt
  <2>4. QED
    BY <2>2, <2>3, <1>27 DEF OpenTour
<1>30. OpenTour(outer, a)
  <2>1. ASSUME NEW o \in Listed(outer), o[2] # Null
        PROVE  Back(o) \in Listed(outer)
    <3>1. o[2] \in Cx
      <4>1. \E q \in Listed(outer) : q[1] = o[2]
        BY <2>1, <1>26, WalkGoesOn
      <4>2. QED
        BY <4>1, <1>20, <1>22, <1>26
    <3>2. Back(o)[1] = o[2] /\ Back(o) \in Listed(B) \cup Listed(W) \cup Listed(A)
      BY <2>1, <1>26, <1>28
    <3>3. QED
      BY <3>1, <3>2, <1>19, <1>23, <1>26
  <2>2. EndsAt(Listed(outer), a)
    BY <1>18, <1>26 DEF EndsAt
  <2>3. QED
    BY <2>1, <2>2, <1>26 DEF OpenTour, TwoWays
<1> DEFINE Vi == VerticesOf(inner)
           Vo == VerticesOf(outer)
           Vt == VerticesOf(t)
<1>31. Vi = {o[1] : o \in Listed(inner)} /\ Vo = {o[1] : o \in Listed(outer)} /\ Vt = {o[1] : o \in Listed(t)}
  BY DEF VerticesOf
<1> HIDE DEF Vi, Vo, Vt
<1>32. Vi \subseteq Cy /\ Vo \subseteq Cx /\ y \in Vi /\ Vi \cap Vo = {}
  <2>1. \A o \in Listed(inner) : o[1] \in Cy
    BY <1>4, <1>19, <1>23, <1>27
  <2>2. \A o \in Listed(outer) : o[1] \in Cx
    BY <1>20, <1>22, <1>26
  <2>3. y \in Vi
    BY <1>4, <1>27, <1>31
  <2>4. QED
    BY <2>1, <2>2, <2>3, <1>23, <1>31
<1>33. x \in Vo
  <2>1. \E q \in Listed(A) : q[1] = x
    BY <1>6, <1>9, <1>21, WalkGoesOn
  <2>2. QED
    BY <2>1, <1>26, <1>31
<1>34. Vi \cup Vo = Vt
  <2>1. ASSUME NEW o \in Listed(t)
        PROVE  o[1] \in Vi \cup Vo
    BY <1>4, <1>16, <1>26, <1>27, <1>31, <1>32, <1>33
  <2>2. ASSUME NEW o \in Listed(inner) \cup Listed(outer)
        PROVE  o[1] \in Vt
    <3>1. CASE o = S
      <4>1. yx \in Listed(t)
        BY <1>16
      <4>2. QED
        BY <3>1, <4>1, <1>4, <1>31
    <3>2. CASE o # S
      BY <3>2, <2>2, <1>16, <1>26, <1>27, <1>31
    <3>3. QED
      BY <3>1, <3>2
  <2>3. QED
    BY <2>1, <2>2, <1>31
<1>35. /\ IsFiniteSet(Vi) /\ IsFiniteSet(Vo) /\ Cardinality(Vi) \in Nat /\ Cardinality(Vo) \in Nat
       /\ Len(inner) >= 2 * Cardinality(Vi) - 1 /\ Len(outer) >= 2 * Cardinality(Vo) - 1
  BY <1>1, <1>26, <1>27, <1>29, <1>30, EnoughArcs DEF Vi, Vo
<1>36. Cardinality(Vt) = Cardinality(Vi) + Cardinality(Vo)
  <2>1. Cardinality(Vi \cup Vo) = Cardinality(Vi) + Cardinality(Vo) - Cardinality(Vi \cap Vo)
    BY <1>35, FS_Union
  <2>2. Cardinality(Vi \cap Vo) = 0
    BY <1>32, FS_EmptySet
  <2>3. \A c, d \in Nat : c + d - 0 = c + d
    OBVIOUS
  <2>4. QED
    BY <2>1, <2>2, <2>3, <1>34, <1>35, Zenon
<1>37. Len(inner) = 2 * Cardinality(Vi) - 1 /\ Len(outer) = 2 * Cardinality(Vo) - 1
  <2>1. Len(t) = 2 * (Cardinality(Vi) + Cardinality(Vo)) - 1
    BY <1>1, <1>36, Zenon DEF Vt
  <2>2. \A c, d, l, m \in Nat : l >= 2 * c - 1 /\ m >= 2 * d - 1 /\ l + m + 1 = 2 * (c + d) - 1
                                => l = 2 * c - 1 /\ m = 2 * d - 1
    OBVIOUS
  <2>3. Len(inner) \in Nat /\ Len(outer) \in Nat /\ Len(t) = Len(inner) + Len(outer) + 1
    BY <1>17, <1>26, <1>27
  <2>4. Len(inner) + Len(outer) + 1 = 2 * (Cardinality(Vi) + Cardinality(Vo)) - 1
    BY <2>1, <2>3
  <2>5. QED
    BY <2>2, <2>3, <2>4, <1>35, Zenon
<1>38. /\ IsEulerTour(inner) /\ inner # <<>> /\ Sentinel(y) \in Listed(inner)
       /\ IsEulerTour(outer) /\ outer # <<>>
  BY <1>1, <1>26, <1>27, <1>29, <1>30, <1>37, ShapeIsTour DEF Vi, Vo
<1>39. Listed(inner) \cup Listed(outer) = (Listed(t) \ {xy, yx}) \cup {S}
  BY <1>16, <1>26, <1>27
<1>40. QED
  BY <1>26, <1>27, <1>32, <1>33, <1>34, <1>38, <1>39 DEF inner, outer, Vi, Vo, Vt, xy, yx, S, W, R, B, Cuts, Inner, Outer

------------------------------------------------------------------------------
\* All lists together

\* What the lists must be for the lemmas on them, and what is listed in any of them.
AreTours(T) == /\ \A t \in T : t # <<>> /\ t \in Seq(Occurrences) /\ IsEulerTour(t)
               /\ \A t, r \in T : t # r => VerticesOf(t) \cap VerticesOf(r) = {}
AllListed(T) == {o \in Occurrences : \E t \in T : o \in Listed(t)}

\* What a tour lists: each arc with its way back, and the one sentinel.
LEMMA TourLists ==
    ASSUME NEW t \in Seq(Occurrences), t # <<>>, IsEulerTour(t)
    PROVE  /\ Listed(t) \subseteq Occurrences
           /\ \A o \in Listed(t) : o[1] \in VerticesOf(t)
           /\ \A x \in VerticesOf(t) : x \in Nodes /\ \E o \in Listed(t) : o[1] = x
           /\ \A o \in Listed(t) : o[2] # Null => /\ Back(o) \in Listed(t) /\ o[2] \in VerticesOf(t)
                                                  /\ {o[1], o[2]} \in Edges
<1>1. Listed(t) \subseteq Occurrences
  BY ListedElements
<1>2. TwoWays(Listed(t))
  BY TourShape DEF OpenTour
<1>3. \A o \in Listed(t) : o[1] \in VerticesOf(t)
  BY DEF VerticesOf
<1>4. \A x \in VerticesOf(t) : x \in Nodes /\ \E o \in Listed(t) : o[1] = x
  BY <1>1, OccurrenceParts DEF VerticesOf
<1>5. ASSUME NEW o \in Listed(t), o[2] # Null
      PROVE  /\ Back(o) \in Listed(t) /\ o[2] \in VerticesOf(t) /\ {o[1], o[2]} \in Edges
  <2>1. Back(o) \in Listed(t)
    BY <1>2, <1>5 DEF TwoWays
  <2>2. Back(o)[1] = o[2] /\ {o[1], o[2]} \in Edges
    BY <1>1, <1>5, OccurrenceParts
  <2>3. o[2] \in VerticesOf(t)
    BY <2>1, <2>2, <1>3
  <2>4. QED
    BY <2>1, <2>2, <2>3
<1>6. QED
  BY <1>1, <1>3, <1>4, <1>5

\* The tour of an occurrence is the one tour that lists any occurrence of its vertex.
LEMMA TourFound ==
    ASSUME NEW T, AreTours(T), NEW t \in T, NEW o \in Listed(t)
    PROVE  /\ TourOf(T, o) = t
           /\ \A r \in T : o[1] \in VerticesOf(r) => r = t
<1>1. o[1] \in VerticesOf(t)
  BY DEF VerticesOf
<1>2. \A r \in T : o[1] \in VerticesOf(r) => r = t
  BY <1>1 DEF AreTours
<1>3. TourOf(T, o) \in T /\ o \in Listed(TourOf(T, o))
  BY DEF TourOf
<1>4. o[1] \in VerticesOf(TourOf(T, o))
  BY <1>3 DEF VerticesOf
<1>5. QED
  BY <1>2, <1>3, <1>4

\* The linked edges, from what is listed.
LEMMA EdgesListed ==
    ASSUME NEW T
    PROVE  LinkedEdges(T) \in SUBSET Edges
<1>1. QED
  BY DEF LinkedEdges

\* What a tour lists, sentinels apart, is linked.
LEMMA ArcIsLinked ==
    ASSUME NEW T, AreTours(T), NEW t \in T, NEW o \in Listed(t), o[2] # Null
    PROVE  {o[1], o[2]} \in LinkedEdges(T)
<1>1. {o[1], o[2]} \in Edges
  BY TourLists DEF AreTours
<1>2. QED
  BY <1>1 DEF LinkedEdges

\* A linked edge is listed by a tour that holds both its ends.
LEMMA LinkedIsArc ==
    ASSUME NEW T, AreTours(T), NEW e \in LinkedEdges(T)
    PROVE  \E t \in T : \E o \in Listed(t) : e = {o[1], o[2]} /\ o[2] # Null
<1>1. PICK t \in T : \E o \in Listed(t) : e = {o[1], o[2]}
  BY DEF LinkedEdges
<1>2. PICK o \in Listed(t) : e = {o[1], o[2]}
  BY <1>1
<1>3. e \subseteq Nodes
  BY DEF LinkedEdges, Edges
<1>4. o[2] # Null
  BY <1>2, <1>3, NullAssumption
<1>5. QED
  BY <1>2, <1>4

\* The vertices of a tour are a tree of the linked edges.
LEMMA TourSpans ==
    ASSUME NEW T, AreTours(T), NEW t \in T, NEW v \in VerticesOf(t)
    PROVE  VerticesOf(t) = Component(LinkedEdges(T), v)
<1> DEFINE L == LinkedEdges(T)
           a == t[1][1]
<1>1. t \in Seq(Occurrences) /\ t # <<>> /\ IsEulerTour(t)
  BY DEF AreTours
<1>2. L \in SUBSET Edges
  BY EdgesListed
<1>3. a \in Nodes /\ Path(t, a, Null)
  BY <1>1, TourShape DEF OpenTour
<1>4. \A o \in Listed(t) : o[2] # Null => {o[1], o[2]} \in L
  BY ArcIsLinked
<1> HIDE DEF L, a
<1>5. \A o \in Listed(t) : o[1] \in Component(L, a)
  BY <1>1, <1>2, <1>3, <1>4, WalkConnects
<1>6. \A x \in VerticesOf(t) : x \in Component(L, a)
  BY <1>5 DEF VerticesOf
<1>7. v \in Nodes /\ VerticesOf(t) \subseteq Nodes
  BY <1>1, TourLists
<1>8. Component(L, v) = Component(L, a)
  BY <1>2, <1>3, <1>6, <1>7, SameTree
<1>9. VerticesOf(t) \in ClosedSets(L)
  <2>1. ASSUME NEW e \in L
        PROVE  e \subseteq VerticesOf(t) \/ e \cap VerticesOf(t) = {}
    <3>1. PICK r \in T : \E o \in Listed(r) : e = {o[1], o[2]} /\ o[2] # Null
      BY LinkedIsArc DEF L
    <3>2. PICK o \in Listed(r) : e = {o[1], o[2]} /\ o[2] # Null
      BY <3>1
    <3>3. r \in Seq(Occurrences) /\ r # <<>> /\ IsEulerTour(r)
      BY DEF AreTours
    <3>4. e \subseteq VerticesOf(r)
      BY <3>2, <3>3, TourLists
    <3>5. r # t => VerticesOf(r) \cap VerticesOf(t) = {}
      BY DEF AreTours
    <3>6. QED
      BY <3>4, <3>5
  <2>2. QED
    BY <2>1, <1>7 DEF ClosedSets
<1>10. Component(L, v) \subseteq VerticesOf(t)
  BY <1>9 DEF Component
<1>11. QED
  BY <1>6, <1>8, <1>10 DEF L

\* The linked edges are those of all that is listed.
LEMMA LinkedFromListed ==
    ASSUME NEW T, AreTours(T)
    PROVE  LinkedEdges(T) = {e \in Edges : \E o \in AllListed(T) : e = {o[1], o[2]}}
<1>1. \A t \in T : Listed(t) \subseteq Occurrences
  BY TourLists DEF AreTours
<1>2. QED
  BY <1>1 DEF LinkedEdges, AllListed

\* What the lists are after a link of u and v that deletes the sentinel of r.
LinksLists(N, T, u, v, r) ==
    /\ AreTours(N)
    /\ AllListed(N) = (AllListed(T) \cup {<<u, v>>, <<v, u>>}) \ {Sentinel(r)}
    /\ LinkedEdges(N) = LinkedEdges(T) \cup {{u, v}}
    /\ Acyclic(LinkedEdges(N))
    /\ ~Connected(LinkedEdges(T), u, v)

\* What link() makes of the lists.
LEMMA LinkTours ==
    ASSUME NEW T, AreTours(T), Acyclic(LinkedEdges(T)),
           NEW mine \in T, NEW theirs \in T, mine # theirs,
           NEW at, NEW u, NEW v, NEW r, NEW starts, NEW loop,
           MayLink(mine, theirs, at, u, v, r, starts, loop)
    PROVE  LinksLists((T \ {mine, theirs}) \cup {LinkedTour(mine, at, loop, u, v)}, T, u, v, r)
<1> DEFINE new == LinkedTour(mine, at, loop, u, v)
           N == (T \ {mine, theirs}) \cup {new}
<1> USE DEF MayLink
<1>1. /\ mine # <<>> /\ mine \in Seq(Occurrences) /\ IsEulerTour(mine)
      /\ theirs # <<>> /\ theirs \in Seq(Occurrences) /\ IsEulerTour(theirs)
      /\ VerticesOf(mine) \cap VerticesOf(theirs) = {}
  BY DEF AreTours
<1>2. /\ new \in Seq(Occurrences) /\ new # <<>> /\ IsEulerTour(new)
      /\ Listed(new) = (Listed(mine) \cup Listed(theirs) \cup {<<u, v>>, <<v, u>>}) \ {Sentinel(r)}
      /\ VerticesOf(new) = VerticesOf(mine) \cup VerticesOf(theirs)
  <2>1. Links(LinkedTour(mine, at, loop, u, v), mine, theirs, u, v, r)
    BY LinkMakesTour
  <2>2. QED
    BY <2>1 DEF Links
<1> HIDE DEF new
<1>3. \A t \in T \ {mine, theirs} :
         /\ VerticesOf(t) \cap VerticesOf(mine) = {} /\ VerticesOf(t) \cap VerticesOf(theirs) = {}
  BY DEF AreTours
<1>4. AreTours(N)
  <2>1. \A t \in N : t # <<>> /\ t \in Seq(Occurrences) /\ IsEulerTour(t)
    BY <1>2 DEF AreTours
  <2>2. \A t \in T \ {mine, theirs} : VerticesOf(t) \cap VerticesOf(new) = {}
    BY <1>2, <1>3
  <2>3. \A t, q \in T : t # q => VerticesOf(t) \cap VerticesOf(q) = {}
    BY DEF AreTours
  <2>4. ASSUME NEW t \in N, NEW q \in N, t # q
        PROVE  VerticesOf(t) \cap VerticesOf(q) = {}
    BY <2>2, <2>3, <2>4
  <2>5. QED
    BY <2>1, <2>4 DEF AreTours
<1>5. u \in VerticesOf(mine) /\ u # v
  BY <1>1 DEF VerticesOf
<1>6. r \in VerticesOf(theirs) /\ Sentinel(r) \in Listed(theirs) /\ r \in Nodes
  <2>1. theirs[Len(theirs)] = Sentinel(theirs[1][1]) /\ Sentinel(theirs[1][1]) \in Listed(theirs)
    BY <1>1, TourShape
  <2>2. r = theirs[1][1]
    BY <2>1 DEF Sentinel
  <2>3. Sentinel(r)[1] = r
    BY DEF Sentinel
  <2>4. QED
    BY <2>1, <2>2, <2>3, <1>1, TourLists
<1>7. {<<u, v>>, <<v, u>>} \subseteq Occurrences
  BY <1>5 DEF Occurrences
<1>8. \A t \in T \ {mine, theirs} : Sentinel(r) \notin Listed(t)
  BY <1>6, TourFound DEF Sentinel
<1>9. AllListed(N) = (AllListed(T) \cup {<<u, v>>, <<v, u>>}) \ {Sentinel(r)}
  <2>1. ASSUME NEW o \in AllListed(N)
        PROVE  o \in (AllListed(T) \cup {<<u, v>>, <<v, u>>}) \ {Sentinel(r)}
    <3>1. PICK t \in N : o \in Listed(t)
      BY DEF AllListed
    <3>2. o \in Occurrences
      BY DEF AllListed
    <3>3. CASE t = new
      BY <3>1, <3>2, <3>3, <1>2 DEF AllListed
    <3>4. CASE t \in T \ {mine, theirs}
      BY <3>1, <3>2, <3>4, <1>8 DEF AllListed
    <3>5. QED
      BY <3>3, <3>4
  <2>2. ASSUME NEW o \in (AllListed(T) \cup {<<u, v>>, <<v, u>>}) \ {Sentinel(r)}
        PROVE  o \in AllListed(N)
    <3>1. CASE o \in {<<u, v>>, <<v, u>>}
      <4>1. o \in Listed(new) /\ o \in Occurrences
        BY <2>2, <3>1, <1>2, <1>7
      <4>2. QED
        BY <4>1 DEF AllListed
    <3>2. CASE o \in AllListed(T)
      <4>1. PICK t \in T : o \in Listed(t)
        BY <3>2 DEF AllListed
      <4>2. o \in Occurrences
        BY <3>2 DEF AllListed
      <4>3. CASE t \in {mine, theirs}
        <5>1. o \in Listed(new)
          BY <2>2, <4>1, <4>3, <1>2
        <5>2. QED
          BY <4>2, <5>1 DEF AllListed
      <4>4. CASE t \notin {mine, theirs}
        BY <4>1, <4>2, <4>4 DEF AllListed
      <4>5. QED
        BY <4>3, <4>4
    <3>3. QED
      BY <2>2, <3>1, <3>2
  <2>3. QED
    BY <2>1, <2>2
<1> HIDE DEF N
<1>10. LinkedEdges(N) = LinkedEdges(T) \cup {{u, v}}
  <2>1. {u, v} \in Edges /\ Sentinel(r)[2] \notin Nodes
    BY <1>5, NullAssumption DEF Edges, Sentinel
  <2>2. LinkedEdges(N) = {e \in Edges : \E o \in AllListed(N) : e = {o[1], o[2]}}
    BY <1>4, LinkedFromListed
  <2>3. LinkedEdges(T) = {e \in Edges : \E o \in AllListed(T) : e = {o[1], o[2]}}
    BY LinkedFromListed
  <2>4. \A e \in Edges : e \subseteq Nodes
    BY DEF Edges
  <2>5. ASSUME NEW e \in LinkedEdges(N)
        PROVE  e \in LinkedEdges(T) \cup {{u, v}}
    <3>1. PICK o \in AllListed(N) : e = {o[1], o[2]}
      BY <2>2
    <3>2. CASE o \in {<<u, v>>, <<v, u>>}
      BY <3>1, <3>2
    <3>3. CASE o \in AllListed(T)
      BY <3>1, <3>3, <2>2, <2>3
    <3>4. QED
      BY <3>2, <3>3, <1>9
  <2>6. {u, v} \in LinkedEdges(N)
    <3>1. <<u, v>> # Sentinel(r) /\ {<<u, v>>[1], <<u, v>>[2]} = {u, v}
      BY NullAssumption DEF Sentinel
    <3>2. <<u, v>> \in AllListed(N)
      BY <3>1, <1>9
    <3>3. QED
      BY <3>1, <3>2, <2>1, <2>2
  <2>7. ASSUME NEW e \in LinkedEdges(T)
        PROVE  e \in LinkedEdges(N)
    <3>1. PICK o \in AllListed(T) : e = {o[1], o[2]}
      BY <2>3
    <3>2. o # Sentinel(r)
      BY <3>1, <2>1, <2>3, <2>4
    <3>3. o \in AllListed(N)
      BY <3>2, <1>9
    <3>4. QED
      BY <3>1, <3>3, <2>2, <2>3
  <2>8. QED
    BY <2>5, <2>6, <2>7
<1>11. ~Connected(LinkedEdges(T), u, v)
  <2>1. VerticesOf(mine) = Component(LinkedEdges(T), u)
    BY <1>5, TourSpans
  <2>2. v \notin VerticesOf(mine)
    BY <1>1
  <2>3. QED
    BY <2>1, <2>2 DEF Connected
<1>12. Acyclic(LinkedEdges(N))
  <2>1. LinkedEdges(T) \in SUBSET Edges /\ Acyclic(LinkedEdges(T))
    BY EdgesListed
  <2>2. Acyclic(LinkedEdges(T) \cup {{u, v}})
    BY <2>1, <1>5, <1>11, AcyclicLink
  <2>3. QED
    BY <2>2, <1>10
<1>13. QED
  BY <1>4, <1>9, <1>10, <1>11, <1>12 DEF N, new, LinksLists

\* What the lists are after a cut of x and y, y in the inner fragment.
CutsLists(N, T, t, x, y) ==
    /\ AreTours(N)
    /\ AllListed(N) = (AllListed(T) \ {<<x, y>>, <<y, x>>}) \cup {Sentinel(y)}
    /\ LinkedEdges(N) = LinkedEdges(T) \ {{x, y}}
    /\ Acyclic(LinkedEdges(N))
    /\ \E o \in Listed(t) : o[1] = x /\ o # <<x, y>>

\* What cut() makes of the lists.
LEMMA CutLists ==
    ASSUME NEW T, AreTours(T), Acyclic(LinkedEdges(T)), NEW t \in T,
           NEW x \in Nodes, NEW y \in Nodes, <<x, y>> \in Listed(t),
           <<y, x>> \in Listed(After(t, <<x, y>>))
    PROVE  CutsLists((T \ {t}) \cup {Inner(t, x, y), Outer(t, x, y)}, T, t, x, y)
<1> DEFINE inner == Inner(t, x, y)
           outer == Outer(t, x, y)
           L == LinkedEdges(T)
           N == (T \ {t}) \cup {inner, outer}
<1>1. /\ t # <<>> /\ t \in Seq(Occurrences) /\ IsEulerTour(t)
  BY DEF AreTours
<1>2. /\ <<x, y>> \in Occurrences /\ <<x, y>>[1] = x /\ <<x, y>>[2] = y /\ x # y /\ y # Null
      /\ <<y, x>>[1] = y /\ <<y, x>>[2] = x /\ <<x, y>> # <<y, x>> /\ <<y, x>> \in Occurrences
  <2>1. <<x, y>> \in Occurrences
    BY <1>1, TourLists
  <2>2. <<x, y>>[1] # <<x, y>>[2]
    BY <2>1 DEF Occurrences
  <2>3. QED
    BY <2>1, <2>2, NullAssumption DEF Occurrences
<1>3. {x, y} \in L /\ L \in SUBSET Edges
  <2>1. {<<x, y>>[1], <<x, y>>[2]} \in L
    BY <1>2, ArcIsLinked
  <2>2. QED
    BY <2>1, EdgesListed
<1>4. ~Connected(L \ {{x, y}}, x, y)
  BY <1>2, <1>3 DEF Acyclic
<1>5. \A o \in Occurrences : {o[1], o[2]} = {x, y} <=> o \in {<<x, y>>, <<y, x>>}
  <2>1. ASSUME NEW o \in Occurrences
        PROVE  {o[1], o[2]} = {x, y} <=> o \in {<<x, y>>, <<y, x>>}
    <3>1. o = <<o[1], o[2]>>
      BY OccurrenceParts
    <3>2. QED
      BY <3>1
  <2>2. QED
    BY <2>1
<1>6. \A o \in Listed(t) \ {<<x, y>>, <<y, x>>} : o[2] # Null => {o[1], o[2]} \in L \ {{x, y}}
  <2>1. Listed(t) \subseteq Occurrences
    BY <1>1, TourLists
  <2>2. QED
    BY <2>1, <1>5, ArcIsLinked
<1>7. MayCut(t, x, y, L \ {{x, y}})
  <2> HIDE DEF L
  <2>1. QED
    BY <1>1, <1>3, <1>4, <1>6 DEF MayCut
<1>8. Cuts(inner, outer, t, x, y)
  BY <1>7, CutMakesTours
<1> HIDE DEF inner, outer
<1>9. /\ Listed(inner) \cup Listed(outer) = (Listed(t) \ {<<x, y>>, <<y, x>>}) \cup {Sentinel(y)}
      /\ VerticesOf(inner) \cap VerticesOf(outer) = {}
      /\ VerticesOf(inner) \cup VerticesOf(outer) = VerticesOf(t)
      /\ x \in VerticesOf(outer)
  BY <1>8 DEF Cuts
<1>10. AreTours(N)
  <2>1. \A q \in N : q # <<>> /\ q \in Seq(Occurrences) /\ IsEulerTour(q)
    BY <1>8 DEF AreTours, Cuts
  <2>2. \A q \in T \ {t} : VerticesOf(q) \cap VerticesOf(t) = {}
    BY DEF AreTours
  <2>3. \A q \in T \ {t} : /\ VerticesOf(q) \cap VerticesOf(inner) = {}
                           /\ VerticesOf(q) \cap VerticesOf(outer) = {}
    BY <2>2, <1>9
  <2>4. \A p, q \in T : p # q => VerticesOf(p) \cap VerticesOf(q) = {}
    BY DEF AreTours
  <2>5. ASSUME NEW p \in N, NEW q \in N, p # q
        PROVE  VerticesOf(p) \cap VerticesOf(q) = {}
    BY <2>3, <2>4, <2>5, <1>9
  <2>6. QED
    BY <2>1, <2>5 DEF AreTours
<1>11. Sentinel(y) \in Occurrences /\ Sentinel(y)[2] = Null /\ Sentinel(y) \notin {<<x, y>>, <<y, x>>}
  BY NullAssumption, <1>2 DEF Occurrences, Sentinel
<1>12. \A q \in T \ {t} : <<x, y>> \notin Listed(q) /\ <<y, x>> \notin Listed(q)
  <2>1. <<y, x>> \in Listed(t)
    <3>1. Back(<<x, y>>) \in Listed(t)
      BY <1>1, <1>2, TourLists
    <3>2. QED
      BY <3>1, <1>2 DEF Back
  <2>2. \A q \in T \ {t} : VerticesOf(q) \cap VerticesOf(t) = {}
    BY DEF AreTours
  <2>3. x \in VerticesOf(t) /\ y \in VerticesOf(t)
    BY <2>1, <1>2 DEF VerticesOf
  <2>4. QED
    BY <2>2, <2>3, <1>2 DEF VerticesOf
<1>13. AllListed(N) = (AllListed(T) \ {<<x, y>>, <<y, x>>}) \cup {Sentinel(y)}
  <2>1. ASSUME NEW o \in AllListed(N)
        PROVE  o \in (AllListed(T) \ {<<x, y>>, <<y, x>>}) \cup {Sentinel(y)}
    <3>1. PICK q \in N : o \in Listed(q)
      BY DEF AllListed
    <3>2. o \in Occurrences
      BY DEF AllListed
    <3>3. CASE q \in {inner, outer}
      <4>1. o \in (Listed(t) \ {<<x, y>>, <<y, x>>}) \cup {Sentinel(y)}
        BY <3>1, <3>3, <1>9
      <4>2. QED
        BY <4>1, <3>2 DEF AllListed
    <3>4. CASE q \in T \ {t}
      BY <3>1, <3>2, <3>4, <1>12 DEF AllListed
    <3>5. QED
      BY <3>3, <3>4
  <2>2. ASSUME NEW o \in AllListed(T), o \notin {<<x, y>>, <<y, x>>}
        PROVE  o \in AllListed(N)
    <3>1. PICK q \in T : o \in Listed(q)
      BY DEF AllListed
    <3>2. o \in Occurrences
      BY DEF AllListed
    <3>3. CASE q = t
      <4>1. o \in Listed(inner) \cup Listed(outer)
        BY <3>1, <3>3, <2>2, <1>9
      <4>2. QED
        BY <4>1, <3>2 DEF AllListed
    <3>4. CASE q # t
      BY <3>1, <3>2, <3>4 DEF AllListed
    <3>5. QED
      BY <3>3, <3>4
  <2>3. Sentinel(y) \in AllListed(N)
    BY <1>9, <1>11 DEF AllListed
  <2>4. QED
    BY <2>1, <2>2, <2>3
<1> HIDE DEF N
<1>14. LinkedEdges(N) = L \ {{x, y}}
  <2>1. LinkedEdges(N) = {e \in Edges : \E o \in AllListed(N) : e = {o[1], o[2]}}
    BY <1>10, LinkedFromListed
  <2>2. L = {e \in Edges : \E o \in AllListed(T) : e = {o[1], o[2]}}
    BY LinkedFromListed
  <2>3. \A e \in Edges : e \subseteq Nodes
    BY DEF Edges
  <2>4. AllListed(T) \subseteq Occurrences
    BY DEF AllListed
  <2> HIDE DEF L
  <2>5. ASSUME NEW e \in LinkedEdges(N)
        PROVE  e \in L /\ e # {x, y}
    <3>1. PICK o \in AllListed(N) : e = {o[1], o[2]}
      BY <2>1
    <3>2. o # Sentinel(y)
      BY <3>1, <2>1, <2>3, <1>11, NullAssumption
    <3>3. o \in AllListed(T) /\ o \notin {<<x, y>>, <<y, x>>}
      BY <3>2, <1>13
    <3>4. QED
      BY <3>1, <3>3, <2>1, <2>2, <2>4, <1>5
  <2>6. ASSUME NEW e \in L, e # {x, y}
        PROVE  e \in LinkedEdges(N)
    <3>1. PICK o \in AllListed(T) : e = {o[1], o[2]}
      BY <2>2
    <3>2. o \in AllListed(N)
      BY <3>1, <2>4, <2>6, <1>5, <1>13
    <3>3. QED
      BY <3>1, <3>2, <2>1, <2>2
  <2>7. QED
    BY <2>5, <2>6
<1>15. Acyclic(LinkedEdges(N))
  <2>1. LinkedEdges(N) \subseteq L /\ Acyclic(L)
    BY <1>14
  <2>2. QED
    BY <2>1, AcyclicSubset
<1>16. \E o \in Listed(t) : o[1] = x /\ o # <<x, y>>
  <2>1. PICK o \in Listed(outer) : o[1] = x
    BY <1>9 DEF VerticesOf
  <2>2. o # Sentinel(y)
    BY <2>1, <1>2 DEF Sentinel
  <2>3. QED
    BY <2>1, <2>2, <1>9
<1>17. QED
  BY <1>10, <1>13, <1>14, <1>15, <1>16 DEF N, inner, outer, L, CutsLists

------------------------------------------------------------------------------
\* What make_edge() and delete_edge() do to the vertices

\* The vertices without an occurrence while an operation is under way, and what summarises
\* the sketch of a vertex.
Orphans(s) == {v \in Nodes : s.nodes[v].allowed_caller = NoCaller}
Holding(s, v) == IF v \in Orphans(s) THEN s.temp ELSE s.sketch[s.nodes[v].allowed_caller]

\* What ett_nodes may hold while an operation is under way.
VertexStates == [Nodes -> [edges : SUBSET Occurrences, allowed_caller : Occurrences \cup {NoCaller}]]

NodeStates == [nodes  : VertexStates,
               sketch : [Occurrences -> SUBSET Indexes],
               temp   : SUBSET Indexes]

\* One occurrence of each vertex carries its sketch, or temp_sketch that of the one vertex
\* that has no occurrence.
Carried(s) ==
    /\ s \in NodeStates
    /\ \A v \in Nodes : \A o \in s.nodes[v].edges : o[1] = v
    /\ \A v \in Nodes \ Orphans(s) : s.nodes[v].allowed_caller \in s.nodes[v].edges
    /\ \A v \in Orphans(s) : s.nodes[v].edges = {}
    /\ \A o \in Occurrences : s.sketch[o] # {} => s.nodes[o[1]].allowed_caller = o
    /\ \A v, w \in Orphans(s) : v = w
    /\ Orphans(s) = {} => s.temp = {}

\* No occurrence is taken for a missing allowed_caller.
LEMMA CallerIsNone == \A o \in Occurrences : o # NoCaller
  BY DEF Occurrences, NoCaller

\* Merging an empty sketch changes nothing.
LEMMA MergeNothing == \A S : Merge(S, {}) = S /\ Merge({}, S) = S
  BY DEF Merge

\* The state of the vertices in which v has these occurrences and this allowed_caller.
Given(e, v, S, c) == [e EXCEPT ![v].edges = S, ![v].allowed_caller = c]

\* What Given does to the state of the vertices.
LEMMA NodeUpdate ==
    ASSUME NEW e, e \in VertexStates,
           NEW v, v \in Nodes, NEW S, S \in SUBSET Occurrences, NEW c, c \in Occurrences \cup {NoCaller}
    PROVE  /\ Given(e, v, S, c) \in VertexStates
           /\ Given(e, v, S, c)[v].edges = S /\ Given(e, v, S, c)[v].allowed_caller = c
           /\ \A x \in Nodes : x # v => Given(e, v, S, c)[x] = e[x]
<1> DEFINE d == [e EXCEPT ![v].edges = S]
<1> USE DEF VertexStates
<1>1. e[v] \in [edges : SUBSET Occurrences, allowed_caller : Occurrences \cup {NoCaller}]
  OBVIOUS
<1>2. [e[v] EXCEPT !.edges = S] = [edges |-> S, allowed_caller |-> e[v].allowed_caller]
  BY <1>1
<1>3. d = [e EXCEPT ![v] = [edges |-> S, allowed_caller |-> e[v].allowed_caller]]
  BY <1>2
<1>4. Given(e, v, S, c) = [d EXCEPT ![v].allowed_caller = c]
  BY DEF Given
<1>5. d[v] = [edges |-> S, allowed_caller |-> e[v].allowed_caller] /\ DOMAIN d = Nodes
  BY <1>3
<1>6. d \in VertexStates
  BY <1>1, <1>3
<1>7. \A x \in Nodes : x # v => d[x] = e[x]
  BY <1>3
<1> HIDE DEF d
<1>8. [d[v] EXCEPT !.allowed_caller = c] = [edges |-> S, allowed_caller |-> c]
  BY <1>5
<1>9. [d EXCEPT ![v].allowed_caller = c] = [d EXCEPT ![v] = [edges |-> S, allowed_caller |-> c]]
  BY <1>8
<1>10. QED
  BY <1>4, <1>6, <1>7, <1>9

\* What make_edge() does.
MadeEdge(n, s, v, o) ==
    /\ Carried(n)
    /\ \A x \in Nodes : n.nodes[x].edges = IF x = v THEN s.nodes[x].edges \cup {o}
                                           ELSE s.nodes[x].edges
    /\ \A x \in Nodes : Holding(n, x) = Holding(s, x)
    /\ Orphans(n) = Orphans(s) \ {v}
    /\ \A x \in Nodes : x # v => n.nodes[x] = s.nodes[x]
    /\ n.nodes[v] = Sketchless!MakeEdge(s.nodes[v], o)

\* make_edge() gives a vertex an occurrence, takes up what temp_sketch holds if that is the
\* first one, and leaves every vertex what it holds.
LEMMA MakeEdgeCarries ==
    ASSUME NEW s, Carried(s), NEW v \in Nodes, NEW o \in Occurrences, o[1] = v
    PROVE  MadeEdge(MakeEdge(s, v, o), s, v, o)
<1> DEFINE n == MakeEdge(s, v, o)
           e == s.nodes
           k == s.sketch
<1>1. /\ s \in NodeStates /\ e \in VertexStates
      /\ k \in [Occurrences -> SUBSET Indexes] /\ s.temp \in SUBSET Indexes
      /\ s = [nodes |-> e, sketch |-> k, temp |-> s.temp]
  BY DEF Carried, NodeStates
<1>2. /\ \A x \in Nodes : \A q \in e[x].edges : q[1] = x
      /\ \A x \in Nodes \ Orphans(s) : e[x].allowed_caller \in e[x].edges
      /\ \A x \in Orphans(s) : e[x].edges = {}
      /\ \A q \in Occurrences : k[q] # {} => e[q[1]].allowed_caller = q
      /\ \A x, w \in Orphans(s) : x = w
      /\ Orphans(s) = {} => s.temp = {}
  BY DEF Carried
<1>3. Orphans(s) = {x \in Nodes : e[x].allowed_caller = NoCaller}
  BY DEF Orphans
<1>4. o # NoCaller
  BY CallerIsNone
<1> HIDE DEF e, k
<1>5. CASE v \in Orphans(s)
  <2>1. e[v].allowed_caller = NoCaller /\ k[o] = {} /\ e[v].edges = {}
    BY <1>2, <1>3, <1>4, <1>5
  <2>2. n = [nodes |-> Given(e, v, {o}, o), sketch |-> [k EXCEPT ![o] = s.temp], temp |-> {}]
    <3>1. n = [nodes  |-> [e EXCEPT ![v].edges = @ \cup {o}, ![v].allowed_caller = o],
               sketch |-> [k EXCEPT ![o] = Merge(@, s.temp)], temp |-> {}]
      BY <2>1 DEF MakeEdge, e, k
    <3>2. [e EXCEPT ![v].edges = @ \cup {o}, ![v].allowed_caller = o] = Given(e, v, {o}, o)
      BY <2>1 DEF Given
    <3>3. [k EXCEPT ![o] = Merge(@, s.temp)] = [k EXCEPT ![o] = s.temp]
      BY <2>1, MergeNothing
    <3>4. QED
      BY <3>1, <3>2, <3>3
  <2> HIDE DEF n
  <2>0. e \in VertexStates /\ {o} \in SUBSET Occurrences /\ o \in Occurrences \cup {NoCaller}
    BY <1>1
  <2>3. /\ n \in NodeStates
        /\ n.nodes \in VertexStates
        /\ n.sketch \in [Occurrences -> SUBSET Indexes]
        /\ n.nodes[v].edges = {o} /\ n.nodes[v].allowed_caller = o
        /\ \A x \in Nodes \ {v} : n.nodes[x] = e[x]
        /\ n.sketch[o] = s.temp /\ \A q \in Occurrences \ {o} : n.sketch[q] = k[q]
        /\ n.temp = {}
    <3>1. /\ Given(e, v, {o}, o) \in VertexStates
          /\ Given(e, v, {o}, o)[v].edges = {o} /\ Given(e, v, {o}, o)[v].allowed_caller = o
          /\ \A x \in Nodes : x # v => Given(e, v, {o}, o)[x] = e[x]
      BY <2>0, NodeUpdate
    <3>2. QED
      BY <1>1, <2>2, <3>1 DEF NodeStates, VertexStates
  <2>4. Orphans(n) = {} /\ Orphans(s) = {v}
    <3>1. Orphans(s) = {v}
      BY <1>2, <1>5
    <3>2. \A x \in Nodes : n.nodes[x].allowed_caller # NoCaller
      BY <3>1, <2>3, <1>3, <1>4
    <3>3. QED
      BY <3>1, <3>2 DEF Orphans
  <2>5. \A x \in Nodes \ {v} : /\ n.nodes[x].edges = e[x].edges /\ n.nodes[x].allowed_caller = e[x].allowed_caller
                               /\ e[x].allowed_caller \in e[x].edges /\ e[x].allowed_caller \in Occurrences
                               /\ e[x].allowed_caller # o
    <3>1. TAKE x \in Nodes \ {v}
    <3>2. n.nodes[x] = e[x]
      BY <2>3
    <3>3. e[x].allowed_caller \in e[x].edges /\ e[x] \in [edges : SUBSET Occurrences, allowed_caller : Occurrences \cup {NoCaller}]
      BY <2>4, <1>1, <1>2 DEF VertexStates
    <3>4. e[x].allowed_caller[1] = x
      BY <3>3, <1>2
    <3>5. QED
      BY <3>2, <3>3, <3>4
  <2>6. \A q \in Occurrences : n.sketch[q] # {} => n.nodes[q[1]].allowed_caller = q
    <3>1. TAKE q \in Occurrences
    <3>2. CASE q = o
      BY <3>2, <2>3
    <3>3. CASE q # o
      <4>1. n.sketch[q] = k[q] /\ q[1] \in Nodes
        BY <3>3, <2>3, OccurrenceParts
      <4>2. CASE q[1] = v
        BY <4>1, <4>2, <2>1, <1>2, CallerIsNone
      <4>3. CASE q[1] # v
        BY <4>1, <4>3, <2>5, <1>2
      <4>4. QED
        BY <4>2, <4>3
    <3>4. QED
      BY <3>2, <3>3
  <2>7. Carried(n)
    <3>1. \A x \in Nodes : \A q \in n.nodes[x].edges : q[1] = x
      BY <2>3, <2>5, <1>2
    <3>2. \A x \in Nodes : n.nodes[x].allowed_caller \in n.nodes[x].edges
      BY <2>3, <2>5
    <3>3. QED
      BY <3>1, <3>2, <2>3, <2>4, <2>6 DEF Carried
  <2>8. \A x \in Nodes : Holding(n, x) = Holding(s, x)
    <3>1. TAKE x \in Nodes
    <3>2. Holding(n, x) = n.sketch[n.nodes[x].allowed_caller]
      BY <2>4 DEF Holding
    <3>3. CASE x = v
      BY <3>2, <3>3, <2>3, <1>5 DEF Holding
    <3>4. CASE x # v
      <4>1. Holding(s, x) = k[e[x].allowed_caller]
        BY <3>4, <2>4 DEF Holding, k, e
      <4>2. QED
        BY <3>2, <3>4, <4>1, <2>3, <2>5
    <3>5. QED
      BY <3>3, <3>4
  <2>9. \A x \in Nodes : n.nodes[x].edges = IF x = v THEN e[x].edges \cup {o} ELSE e[x].edges
    BY <2>1, <2>3, <2>5
  <2>10. n.nodes[v] = [edges |-> {o}, allowed_caller |-> o]
    BY <2>3 DEF VertexStates
  <2>11. Sketchless!MakeEdge(e[v], o) = [edges |-> {o}, allowed_caller |-> o]
    BY <2>1 DEF Sketchless!MakeEdge, Sketchless!NoCaller, NoCaller
  <2>12. QED
    BY <2>3, <2>4, <2>7, <2>8, <2>9, <2>10, <2>11 DEF n, e, MadeEdge
<1>6. CASE v \notin Orphans(s)
  <2>1. e[v].allowed_caller # NoCaller
    BY <1>3, <1>6
  <2>2. n = [nodes |-> Given(e, v, e[v].edges \cup {o}, e[v].allowed_caller), sketch |-> k, temp |-> s.temp]
    <3>1. n = [nodes  |-> [e EXCEPT ![v].edges = @ \cup {o}, ![v].allowed_caller = @],
               sketch |-> [k EXCEPT ![o] = @], temp |-> s.temp]
      BY <2>1 DEF MakeEdge, e, k
    <3>2. [e EXCEPT ![v].edges = @ \cup {o}, ![v].allowed_caller = @]
             = Given(e, v, e[v].edges \cup {o}, e[v].allowed_caller)
      BY <1>1 DEF Given
    <3>3. [k EXCEPT ![o] = @] = k
      BY <1>1
    <3>4. QED
      BY <3>1, <3>2, <3>3
  <2> HIDE DEF n
  <2>0. e \in VertexStates /\ {o} \in SUBSET Occurrences /\ o \in Occurrences \cup {NoCaller}
    BY <1>1
  <2>3. /\ n \in NodeStates /\ n.sketch = k /\ n.temp = s.temp
        /\ \A x \in Nodes : /\ n.nodes[x].edges = IF x = v THEN e[x].edges \cup {o} ELSE e[x].edges
                            /\ n.nodes[x].allowed_caller = e[x].allowed_caller
        /\ \A x \in Nodes : x # v => n.nodes[x] = e[x]
    <3>1. e[v].edges \cup {o} \in SUBSET Occurrences /\ e[v].allowed_caller \in Occurrences \cup {NoCaller}
      BY <1>1 DEF VertexStates
    <3>2. /\ n.nodes \in VertexStates
          /\ n.nodes[v].edges = e[v].edges \cup {o} /\ n.nodes[v].allowed_caller = e[v].allowed_caller
          /\ \A x \in Nodes : x # v => n.nodes[x] = e[x]
      BY <2>0, <2>2, <3>1, NodeUpdate
    <3>3. QED
      BY <1>1, <2>2, <3>2 DEF NodeStates, VertexStates
  <2>4. Orphans(n) = Orphans(s)
    <3>1. \A x \in Nodes : n.nodes[x].allowed_caller = s.nodes[x].allowed_caller
      BY <2>3 DEF e
    <3>2. QED
      BY <3>1 DEF Orphans
  <2>5. \A q \in Occurrences : n.nodes[q[1]].allowed_caller = e[q[1]].allowed_caller
    BY <2>3, OccurrenceParts
  <2>6. Carried(n)
    <3>1. \A x \in Nodes : \A q \in n.nodes[x].edges : q[1] = x
      <4>1. TAKE x \in Nodes
      <4>2. CASE x = v
        <5>1. n.nodes[x].edges = e[x].edges \cup {o} /\ \A q \in e[x].edges : q[1] = x
          BY <4>2, <2>3, <1>2
        <5>2. QED
          BY <4>2, <5>1
      <4>3. CASE x # v
        BY <4>3, <2>3, <1>2
      <4>4. QED
        BY <4>2, <4>3
    <3>2. \A x \in Nodes \ Orphans(n) : n.nodes[x].allowed_caller \in n.nodes[x].edges
      <4>1. TAKE x \in Nodes \ Orphans(n)
      <4>2. e[x].allowed_caller \in e[x].edges
        BY <2>4, <1>2
      <4>3. n.nodes[x].allowed_caller = e[x].allowed_caller /\ e[x].edges \subseteq n.nodes[x].edges
        BY <2>3
      <4>4. QED
        BY <4>2, <4>3
    <3>3. \A x \in Orphans(n) : n.nodes[x].edges = {}
      <4>1. \A x \in Orphans(n) : x \in Nodes /\ x # v
        BY <2>4, <1>6 DEF Orphans
      <4>2. QED
        BY <4>1, <2>3, <2>4, <1>2
    <3>4. \A q \in Occurrences : n.sketch[q] # {} => n.nodes[q[1]].allowed_caller = q
      BY <2>3, <2>5, <1>2
    <3>5. (\A x, w \in Orphans(n) : x = w) /\ (Orphans(n) = {} => n.temp = {})
      BY <2>3, <2>4, <1>2
    <3>6. QED
      BY <3>1, <3>2, <3>3, <3>4, <3>5, <2>3 DEF Carried
  <2>7. \A x \in Nodes : Holding(n, x) = Holding(s, x)
    BY <2>3, <2>4 DEF Holding, e, k
  <2>8. n.nodes[v] = [edges |-> e[v].edges \cup {o}, allowed_caller |-> e[v].allowed_caller]
    <3>1. n.nodes \in VertexStates
      BY <2>3 DEF NodeStates
    <3>2. n.nodes[v] = [edges |-> n.nodes[v].edges, allowed_caller |-> n.nodes[v].allowed_caller]
      BY <3>1 DEF VertexStates
    <3>3. QED
      BY <2>3, <3>2
  <2>9. Sketchless!MakeEdge(e[v], o) = [edges |-> e[v].edges \cup {o}, allowed_caller |-> e[v].allowed_caller]
    BY <2>1 DEF Sketchless!MakeEdge, Sketchless!NoCaller, NoCaller
  <2>10. n.nodes[v] = Sketchless!MakeEdge(e[v], o)
    BY <2>8, <2>9
  <2>11. \A x \in Nodes : n.nodes[x].edges = IF x = v THEN e[x].edges \cup {o} ELSE e[x].edges
    BY <2>3
  <2>12. Orphans(n) = Orphans(s) \ {v} /\ \A x \in Nodes : x # v => n.nodes[x] = e[x]
    BY <2>3, <2>4, <1>6
  <2>13. MadeEdge(n, s, v, o)
    BY <2>6, <2>7, <2>10, <2>11, <2>12 DEF e, MadeEdge
  <2>14. QED
    BY <2>13 DEF n
<1>7. QED
  BY <1>5, <1>6

\* What delete_edge() does.
DeletedEdge(n, s, v, o) ==
    /\ Carried(n)
    /\ \A x \in Nodes : n.nodes[x].edges = IF x = v THEN s.nodes[x].edges \ {o}
                                           ELSE s.nodes[x].edges
    /\ \A x \in Nodes : Holding(n, x) = Holding(s, x)
    /\ Orphans(n) = IF s.nodes[v].edges = {o} THEN {v} ELSE Orphans(s)
    /\ \A x \in Nodes : x # v => n.nodes[x] = s.nodes[x]
    /\ n.nodes[v] \in Sketchless!DeleteEdge(s.nodes[v], o)

\* delete_edge() leaves every vertex what it holds too, in temp_sketch if no occurrence of it
\* is left, as long as temp_sketch holds nothing of another vertex.
LEMMA DeleteEdgeCarries ==
    ASSUME NEW s, Carried(s), NEW v \in Nodes, NEW o, o \in s.nodes[v].edges,
           s.nodes[v].edges = {o} => Orphans(s) = {},
           NEW n \in DeleteEdge(s, v, o)
    PROVE  DeletedEdge(n, s, v, o)
<1> DEFINE e == s.nodes
           k == s.sketch
           rest == e[v].edges \ {o}
<1>1. /\ s \in NodeStates /\ e \in VertexStates
      /\ k \in [Occurrences -> SUBSET Indexes] /\ s.temp \in SUBSET Indexes
      /\ s = [nodes |-> e, sketch |-> k, temp |-> s.temp]
  BY DEF Carried, NodeStates
<1>2. /\ \A x \in Nodes : \A q \in e[x].edges : q[1] = x
      /\ \A x \in Nodes \ Orphans(s) : e[x].allowed_caller \in e[x].edges
      /\ \A x \in Orphans(s) : e[x].edges = {}
      /\ \A q \in Occurrences : k[q] # {} => e[q[1]].allowed_caller = q
      /\ \A x, w \in Orphans(s) : x = w
      /\ Orphans(s) = {} => s.temp = {}
  BY DEF Carried
<1>3. Orphans(s) = {x \in Nodes : e[x].allowed_caller = NoCaller}
  BY DEF Orphans
<1>4. /\ e[v].edges \in SUBSET Occurrences /\ o \in Occurrences /\ o[1] = v /\ o # NoCaller
      /\ v \notin Orphans(s) /\ rest \in SUBSET Occurrences
      /\ e[v].allowed_caller \in e[v].edges /\ e[v].allowed_caller \in Occurrences \cup {NoCaller}
  <2>1. e[v].edges \in SUBSET Occurrences /\ e[v].allowed_caller \in Occurrences \cup {NoCaller}
    BY <1>1 DEF VertexStates
  <2>2. v \notin Orphans(s)
    BY <1>2
  <2>3. QED
    BY <2>1, <2>2, <1>2, CallerIsNone
<1> DEFINE erased == [s EXCEPT !.nodes[v].edges = rest, !.sketch[o] = {}]
           bare == [e EXCEPT ![v].edges = rest]
           off == [k EXCEPT ![o] = {}]
<1>5. erased = [nodes |-> bare, sketch |-> off, temp |-> s.temp]
  <2>1. [s EXCEPT !.nodes[v].edges = rest] = [nodes |-> bare, sketch |-> k, temp |-> s.temp]
    BY <1>1
  <2> DEFINE r == [s EXCEPT !.nodes[v].edges = rest]
  <2>2. erased = [r EXCEPT !.sketch[o] = {}]
    OBVIOUS
  <2> HIDE DEF r
  <2>3. r = [nodes |-> bare, sketch |-> k, temp |-> s.temp]
    BY <2>1 DEF r
  <2> HIDE DEF bare, k, rest, e
  <2>4. [r EXCEPT !.sketch[o] = {}] = [nodes |-> bare, sketch |-> off, temp |-> s.temp]
    BY <2>3
  <2>5. QED
    BY <2>2, <2>4
<1>6. \A c : Given(e, v, rest, c) = [bare EXCEPT ![v].allowed_caller = c]
  BY DEF Given
<1>7. bare = Given(e, v, rest, e[v].allowed_caller)
  BY <1>1 DEF Given, VertexStates
<1> HIDE DEF bare, off, rest
<1>8. \E c \in Occurrences \cup {NoCaller} :
         /\ n.nodes = Given(e, v, rest, c)
         /\ n \in [nodes : {n.nodes}, sketch : [Occurrences -> SUBSET Indexes], temp : SUBSET Indexes]
         /\ \/ e[v].allowed_caller # o /\ c = e[v].allowed_caller /\ n.sketch = k /\ n.temp = s.temp
            \/ /\ e[v].allowed_caller = o /\ rest = {} /\ c = NoCaller
               /\ n.sketch = off /\ n.temp = k[o]
            \/ /\ e[v].allowed_caller = o /\ c \in rest
               /\ n.sketch = [off EXCEPT ![c] = k[o]] /\ n.temp = s.temp
  <2>0. off \in [Occurrences -> SUBSET Indexes] /\ k[o] \in SUBSET Indexes
    BY <1>1, <1>4 DEF off
  <2>1. CASE e[v].allowed_caller # o
    <3>1. n = [nodes |-> bare, sketch |-> off, temp |-> s.temp]
      BY <1>5, <2>1 DEF DeleteEdge, rest
    <3>2. k[o] = {}
      BY <1>2, <1>4, <2>1
    <3>3. off = k
      BY <1>1, <3>2 DEF off
    <3>4. QED
      BY <3>1, <3>3, <1>1, <1>4, <1>7, <2>1
  <2>2. CASE e[v].allowed_caller = o /\ rest = {}
    <3>1. n = [erased EXCEPT !.nodes[v].allowed_caller = NoCaller, !.temp = Merge(@, k[o])]
      BY <2>2 DEF DeleteEdge, rest
    <3>2. s.temp = {} /\ Merge({}, k[o]) = k[o]
      <4>1. e[v].edges = {o}
        BY <2>2, <1>4 DEF rest
      <4>2. QED
        BY <4>1, <1>2, MergeNothing DEF e
    <3> HIDE DEF erased
    <3>3. n = [nodes |-> [bare EXCEPT ![v].allowed_caller = NoCaller], sketch |-> off, temp |-> Merge(s.temp, k[o])]
      <4>1. n = [[erased EXCEPT !.nodes[v].allowed_caller = NoCaller] EXCEPT !.temp = Merge(@, k[o])]
        BY <3>1
      <4>2. [erased EXCEPT !.nodes[v].allowed_caller = NoCaller]
              = [nodes |-> [bare EXCEPT ![v].allowed_caller = NoCaller], sketch |-> off, temp |-> s.temp]
        BY <1>5
      <4> DEFINE r == [erased EXCEPT !.nodes[v].allowed_caller = NoCaller]
                 b == [bare EXCEPT ![v].allowed_caller = NoCaller]
      <4> HIDE DEF b, r
      <4>3. r = [nodes |-> b, sketch |-> off, temp |-> s.temp]
        BY <4>2 DEF b, r
      <4>4. [r EXCEPT !.temp = Merge(@, k[o])] = [nodes |-> b, sketch |-> off, temp |-> Merge(s.temp, k[o])]
        BY <4>3
      <4>5. QED
        BY <4>1, <4>4 DEF b, r
    <3>4. n.nodes = Given(e, v, rest, NoCaller) /\ n.sketch = off /\ n.temp = k[o]
      <4>1. Given(e, v, rest, NoCaller) = [bare EXCEPT ![v].allowed_caller = NoCaller]
        BY <1>6
      <4>2. QED
        BY <3>2, <3>3, <4>1
    <3>5. n \in [nodes : {n.nodes}, sketch : [Occurrences -> SUBSET Indexes], temp : SUBSET Indexes]
      BY <2>0, <3>3, <3>4
    <3>6. QED
      BY <2>2, <3>4, <3>5
  <2>3. CASE e[v].allowed_caller = o /\ rest # {}
    <3>1. PICK c \in rest : n = [erased EXCEPT !.nodes[v].allowed_caller = c, !.sketch[c] = Merge(@, k[o])]
      BY <2>3 DEF DeleteEdge, rest
    <3>2. c \in Occurrences /\ c # o /\ c[1] = v
      BY <1>2, <1>4 DEF rest
    <3>3. off[c] = {} /\ Merge({}, k[o]) = k[o]
      BY <3>2, <1>1, <1>2, <2>3, MergeNothing DEF off
    <3> HIDE DEF erased
    <3>4. n = [nodes |-> [bare EXCEPT ![v].allowed_caller = c], sketch |-> [off EXCEPT ![c] = k[o]], temp |-> s.temp]
      <4>1. n = [[erased EXCEPT !.nodes[v].allowed_caller = c] EXCEPT !.sketch[c] = Merge(@, k[o])]
        BY <3>1
      <4>2. [erased EXCEPT !.nodes[v].allowed_caller = c]
              = [nodes |-> [bare EXCEPT ![v].allowed_caller = c], sketch |-> off, temp |-> s.temp]
        BY <1>5
      <4> DEFINE r == [erased EXCEPT !.nodes[v].allowed_caller = c]
                 b == [bare EXCEPT ![v].allowed_caller = c]
      <4> HIDE DEF b, r
      <4>3. r = [nodes |-> b, sketch |-> off, temp |-> s.temp]
        BY <4>2 DEF b, r
      <4>4. [r EXCEPT !.sketch[c] = Merge(@, k[o])]
              = [nodes |-> b, sketch |-> [off EXCEPT ![c] = Merge(@, k[o])], temp |-> s.temp]
        BY <4>3
      <4>5. [off EXCEPT ![c] = Merge(@, k[o])] = [off EXCEPT ![c] = k[o]]
        BY <3>3
      <4>6. QED
        BY <4>1, <4>4, <4>5 DEF b, r
    <3>5. n.nodes = Given(e, v, rest, c) /\ n.sketch = [off EXCEPT ![c] = k[o]] /\ n.temp = s.temp
      <4>1. Given(e, v, rest, c) = [bare EXCEPT ![v].allowed_caller = c]
        BY <1>6
      <4>2. QED
        BY <3>4, <4>1
    <3>6. n \in [nodes : {n.nodes}, sketch : [Occurrences -> SUBSET Indexes], temp : SUBSET Indexes]
      BY <2>0, <3>2, <3>4, <3>5, <1>1
    <3>7. QED
      BY <2>3, <3>2, <3>5, <3>6
  <2>4. QED
    BY <2>1, <2>2, <2>3
<1>9. PICK c \in Occurrences \cup {NoCaller} :
         /\ n.nodes = Given(e, v, rest, c)
         /\ n \in [nodes : {n.nodes}, sketch : [Occurrences -> SUBSET Indexes], temp : SUBSET Indexes]
         /\ \/ e[v].allowed_caller # o /\ c = e[v].allowed_caller /\ n.sketch = k /\ n.temp = s.temp
            \/ /\ e[v].allowed_caller = o /\ rest = {} /\ c = NoCaller
               /\ n.sketch = off /\ n.temp = k[o]
            \/ /\ e[v].allowed_caller = o /\ c \in rest
               /\ n.sketch = [off EXCEPT ![c] = k[o]] /\ n.temp = s.temp
  BY <1>8
<1>10. /\ n.nodes \in VertexStates
       /\ n.nodes[v].edges = rest /\ n.nodes[v].allowed_caller = c
       /\ \A x \in Nodes : x # v => n.nodes[x] = e[x]
  BY <1>1, <1>4, <1>9, NodeUpdate
<1>11. n \in NodeStates
  <2>1. /\ n = [nodes |-> n.nodes, sketch |-> n.sketch, temp |-> n.temp]
        /\ n.sketch \in [Occurrences -> SUBSET Indexes] /\ n.temp \in SUBSET Indexes
    BY <1>9
  <2>2. QED
    BY <2>1, <1>10 DEF NodeStates
<1>12. \A x \in Nodes : n.nodes[x].edges = IF x = v THEN e[x].edges \ {o} ELSE e[x].edges
  BY <1>10 DEF rest
<1>13. \A x \in Nodes : \A q \in n.nodes[x].edges : q[1] = x
  BY <1>2, <1>12
<1>14. rest = {} <=> e[v].edges = {o}
  BY <1>4 DEF rest
<1>15. \A x \in Nodes : x \in Orphans(n) <=> (IF x = v THEN c = NoCaller ELSE x \in Orphans(s))
  <2>1. \A x \in Nodes : x \in Orphans(n) <=> n.nodes[x].allowed_caller = NoCaller
    BY DEF Orphans
  <2>2. \A x \in Nodes : x # v => n.nodes[x].allowed_caller = e[x].allowed_caller
    BY <1>10
  <2>3. QED
    BY <2>1, <2>2, <1>3, <1>10
<1>16. c = NoCaller <=> rest = {}
  <2>1. c \in rest => c # NoCaller
    BY <1>4, CallerIsNone
  <2>2. e[v].allowed_caller # o => e[v].allowed_caller \in rest /\ e[v].allowed_caller # NoCaller
    BY <1>4, CallerIsNone DEF rest
  <2>3. QED
    BY <1>9, <2>1, <2>2
<1>17. Orphans(n) = IF e[v].edges = {o} THEN {v} ELSE Orphans(s)
  <2>1. Orphans(n) \subseteq Nodes /\ Orphans(s) \subseteq Nodes
    BY DEF Orphans
  <2>2. CASE e[v].edges = {o}
    <3>1. Orphans(s) = {} /\ c = NoCaller
      BY <2>2, <1>14, <1>16 DEF e
    <3>2. \A x \in Nodes : x \in Orphans(n) <=> x = v
      BY <3>1, <1>15
    <3>3. QED
      BY <2>1, <2>2, <3>2
  <2>3. CASE e[v].edges # {o}
    <3>1. \A x \in Nodes : x \in Orphans(n) <=> x \in Orphans(s)
      BY <2>3, <1>4, <1>14, <1>15, <1>16
    <3>2. QED
      BY <2>1, <2>3, <3>1
  <2>4. QED
    BY <2>2, <2>3
<1>18. c # NoCaller => c \in rest
  BY <1>4, <1>9, CallerIsNone DEF rest
<1>19. \A x \in Nodes \ Orphans(n) : n.nodes[x].allowed_caller \in n.nodes[x].edges
  BY <1>2, <1>10, <1>15, <1>18
<1>20. \A x \in Orphans(n) : n.nodes[x].edges = {}
  <2>1. \A x \in Orphans(n) : x \in Nodes
    BY DEF Orphans
  <2>2. QED
    BY <2>1, <1>2, <1>10, <1>15, <1>16
<1>21. \A q \in Occurrences : n.sketch[q] # {} => n.nodes[q[1]].allowed_caller = q
  <2>1. TAKE q \in Occurrences
  <2>2. q[1] \in Nodes
    BY OccurrenceParts
  <2>3. CASE q[1] # v
    <3>1. c # q /\ o # q
      BY <2>3, <1>2, <1>4, <1>18, CallerIsNone DEF rest
    <3>2. n.sketch[q] = k[q]
      BY <3>1, <1>1, <1>9 DEF off
    <3>3. QED
      BY <2>2, <2>3, <3>2, <1>2, <1>10
  <2>4. CASE q[1] = v
    <3>1. k[q] # {} => e[v].allowed_caller = q
      BY <2>4, <1>2
    <3>2. off[q] # {} => k[q] # {} /\ q # o
      BY <1>1, <1>4 DEF off
    <3>3. off \in [Occurrences -> SUBSET Indexes]
      BY <1>1, <1>4 DEF off
    <3>4. n.sketch[q] # {} => c = q
      BY <3>1, <3>2, <3>3, <1>9
    <3>5. QED
      BY <2>4, <3>4, <1>10
  <2>5. QED
    BY <2>3, <2>4
<1>22. \A x, w \in Orphans(n) : x = w
  BY <1>2, <1>17
<1>23. Orphans(n) = {} => n.temp = {}
  <2>1. Orphans(n) = {} => Orphans(s) = {} /\ rest # {}
    BY <1>14, <1>17
  <2>2. QED
    BY <2>1, <1>2, <1>9
<1>24. \A x \in Nodes : Holding(n, x) = Holding(s, x)
  <2>1. TAKE x \in Nodes
  <2>2. CASE x # v
    <3>1. x \in Orphans(n) <=> x \in Orphans(s)
      BY <2>2, <1>15
    <3>2. n.nodes[x].allowed_caller = e[x].allowed_caller
      BY <2>2, <1>10
    <3>3. CASE x \in Orphans(s)
      <4>1. rest # {}
        BY <3>3, <1>14 DEF e
      <4>2. n.temp = s.temp
        BY <4>1, <1>9
      <4>3. QED
        BY <3>1, <3>3, <4>2 DEF Holding
    <3>4. CASE x \notin Orphans(s)
      <4>1. e[x].allowed_caller \in Occurrences /\ e[x].allowed_caller[1] = x
        <5>1. e[x].allowed_caller \in e[x].edges /\ e[x].edges \in SUBSET Occurrences
          BY <3>4, <1>1, <1>2 DEF VertexStates
        <5>2. QED
          BY <5>1, <1>2
      <4>2. e[x].allowed_caller # o /\ e[x].allowed_caller # c
        BY <4>1, <2>2, <1>2, <1>4, <1>18, CallerIsNone DEF rest
      <4>3. n.sketch[e[x].allowed_caller] = k[e[x].allowed_caller]
        BY <4>1, <4>2, <1>1, <1>9 DEF off
      <4>4. QED
        BY <3>1, <3>2, <3>4, <4>3 DEF Holding, e, k
    <3>5. QED
      BY <3>3, <3>4
  <2>3. CASE x = v
    <3>1. Holding(s, v) = k[e[v].allowed_caller]
      BY <1>4 DEF Holding, e, k
    <3>2. CASE c = NoCaller
      <4>1. v \in Orphans(n)
        BY <3>2, <1>15
      <4>2. n.temp = k[e[v].allowed_caller]
        BY <3>2, <1>4, <1>9, <1>16, CallerIsNone
      <4>3. QED
        BY <2>3, <3>1, <4>1, <4>2 DEF Holding
    <3>3. CASE c # NoCaller
      <4>1. v \notin Orphans(n)
        BY <3>3, <1>15
      <4>2. off \in [Occurrences -> SUBSET Indexes] /\ c \in Occurrences
        BY <3>3, <1>1, <1>4 DEF off
      <4>3. n.sketch[c] = k[e[v].allowed_caller]
        BY <3>3, <4>2, <1>9
      <4>4. QED
        BY <2>3, <3>1, <4>1, <4>3, <1>10 DEF Holding
    <3>4. QED
      BY <3>2, <3>3
  <2>4. QED
    BY <2>2, <2>3
<1>25. Carried(n)
  BY <1>11, <1>13, <1>19, <1>20, <1>21, <1>22, <1>23 DEF Carried
<1>26. n.nodes[v] \in Sketchless!DeleteEdge(e[v], o)
  <2>1. n.nodes[v] = [edges |-> rest, allowed_caller |-> c]
    BY <1>10 DEF VertexStates
  <2>2. c \in IF e[v].allowed_caller # o THEN {e[v].allowed_caller}
              ELSE IF rest = {} THEN {NoCaller} ELSE rest
    BY <1>9
  <2>3. QED
    BY <2>1, <2>2 DEF Sketchless!DeleteEdge, Sketchless!NoCaller, NoCaller, rest
<1>27. QED
  BY <1>10, <1>12, <1>17, <1>24, <1>25, <1>26 DEF e, DeletedEdge

------------------------------------------------------------------------------
\* The state

\* The vertices hold what is listed.
Holds(nodes, T) == \A x \in Nodes : nodes[x].edges = {o \in AllListed(T) : o[1] = x}

\* The invariant, as the lemmas on lists and on vertices take it.
LEMMA StateFacts ==
    ASSUME IInv
    PROVE  /\ AreTours(tours) /\ Acyclic(LinkedEdges(tours))
           /\ Carried(Nodes0) /\ Orphans(Nodes0) = {}
           /\ Nodes0.nodes = ett_nodes /\ Holds(ett_nodes, tours)
           /\ \A x \in Nodes : /\ Caller(x) \in ett_nodes[x].edges
                               /\ Holding(Nodes0, x) = sketch[Caller(x)]
<1>1. TypeOK /\ ToursAreEuler /\ OneCarrier
  BY DEF IInv
<1>2. AreTours(tours) /\ Acyclic(LinkedEdges(tours))
  BY <1>1 DEF TypeOK, ToursAreEuler, AreTours
<1>3. Holds(ett_nodes, tours)
  BY <1>1 DEF ToursAreEuler, Holds, AllListed
<1>4. Nodes0.nodes = ett_nodes /\ Nodes0.sketch = sketch /\ Nodes0.temp = temp_sketch
  BY DEF Nodes0
<1>5. \A x \in Nodes : Caller(x) \in ett_nodes[x].edges
  BY <1>1 DEF OneCarrier
<1>6. ett_nodes \in VertexStates /\ \A x \in Nodes : ett_nodes[x].allowed_caller \in Occurrences
  <2>1. ett_nodes \in [Nodes -> [edges : SUBSET Occurrences, allowed_caller : Occurrences]]
    BY <1>1 DEF TypeOK
  <2>2. QED
    BY <2>1 DEF VertexStates
<1>7. Orphans(Nodes0) = {}
  BY <1>4, <1>6, CallerIsNone DEF Orphans
<1>8. Nodes0 \in NodeStates
  BY <1>1, <1>6 DEF Nodes0, NodeStates, TypeOK
<1>9. \A x \in Nodes : \A o \in ett_nodes[x].edges : o[1] = x
  BY <1>3 DEF Holds
<1>10. \A o \in Occurrences : sketch[o] # {} => ett_nodes[o[1]].allowed_caller = o
  BY <1>1 DEF OneCarrier, Caller
<1>11. temp_sketch = {}
  BY <1>1 DEF OneCarrier
<1>12. Carried(Nodes0)
  BY <1>4, <1>5, <1>7, <1>8, <1>9, <1>10, <1>11 DEF Carried, Caller
<1>13. \A x \in Nodes : Holding(Nodes0, x) = sketch[Caller(x)]
  BY <1>4, <1>7 DEF Holding, Caller
<1>14. QED
  BY <1>2, <1>3, <1>4, <1>5, <1>7, <1>12, <1>13

\* An operation that leaves lists and vertices in order restores the invariant, and leaves
\* each vertex the sketch it has.
LEMMA StateRestored ==
    ASSUME IInv, AreTours(tours'), Acyclic(LinkedEdges(tours')),
           NEW n, EndsIn(n), Carried(n), Orphans(n) = {}, Holds(n.nodes, tours'),
           \A x \in Nodes : Holding(n, x) = Holding(Nodes0, x)
    PROVE  /\ IInv'
           /\ \A x \in Nodes : sketch'[Caller(x)'] = sketch[Caller(x)]
<1>1. ett_nodes' = n.nodes /\ sketch' = n.sketch /\ temp_sketch' = n.temp
  BY DEF EndsIn
<1>2. n \in NodeStates /\ n.nodes \in VertexStates /\ n.sketch \in [Occurrences -> SUBSET Indexes]
  BY DEF Carried, NodeStates
<1>3. \A x \in Nodes : n.nodes[x].allowed_caller \in n.nodes[x].edges
  BY DEF Carried
<1>4. n.nodes \in [Nodes -> [edges : SUBSET Occurrences, allowed_caller : Occurrences]]
  <2>1. \A x \in Nodes : n.nodes[x] \in [edges : SUBSET Occurrences, allowed_caller : Occurrences]
    BY <1>2, <1>3 DEF VertexStates
  <2>2. n.nodes = [x \in Nodes |-> n.nodes[x]]
    BY <1>2 DEF VertexStates
  <2>3. QED
    BY <2>1, <2>2
<1>5. n.temp = {} /\ \A o \in Occurrences : n.sketch[o] # {} => n.nodes[o[1]].allowed_caller = o
  BY DEF Carried
<1>6. TypeOK'
  BY <1>1, <1>2, <1>4, <1>5 DEF TypeOK, AreTours
<1>7. OneCarrier'
  BY <1>1, <1>3, <1>5 DEF OneCarrier, Caller
<1>8. ToursAreEuler'
  <2>1. \A v \in Nodes : ett_nodes'[v].edges =
           {o \in Occurrences : o[1] = v /\ \E t \in tours' : o \in Listed(t)}
    BY <1>1 DEF Holds, AllListed
  <2>2. QED
    BY <2>1 DEF ToursAreEuler, AreTours
<1>9. \A x \in Nodes : sketch'[Caller(x)'] = sketch[Caller(x)]
  <2>1. TAKE x \in Nodes
  <2>2. Holding(n, x) = n.sketch[n.nodes[x].allowed_caller]
    BY DEF Holding
  <2>3. Caller(x)' = n.nodes[x].allowed_caller
    BY <1>1 DEF Caller
  <2>4. Holding(Nodes0, x) = sketch[Caller(x)]
    BY StateFacts
  <2>5. QED
    BY <2>2, <2>3, <2>4, <1>1
<1>10. QED
  BY <1>6, <1>7, <1>8, <1>9 DEF IInv

\* The operators on lists are those of the sketchless tree.
LEMMA SameLists ==
    /\ \A T, o : Sketchless!TourOf(T, o) = TourOf(T, o)
    /\ \A t, r : Sketchless!SameSentinel(t, r) <=> SameSentinel(t, r)
    /\ \A x : Sketchless!Sentinel(x) = Sentinel(x)
    /\ \A t, o : Sketchless!Before(t, o) = Before(t, o) /\ Sketchless!After(t, o) = After(t, o)
    /\ \A t, starts : Sketchless!Rerooted(t, starts) = Rerooted(t, starts)
    /\ \A t, at, loop, u, v : Sketchless!LinkedTour(t, at, loop, u, v) = LinkedTour(t, at, loop, u, v)
    /\ \A t, u, v : Sketchless!EntersFirst(t, u, v) <=> EntersFirst(t, u, v)
    /\ \A t, u, v : Sketchless!CutTours(t, u, v) = CutTours(t, u, v)
<1>1. \A t : Sketchless!Listed(t) = Listed(t)
  BY DEF Sketchless!Listed, Listed
<1>2. \A T, o : Sketchless!TourOf(T, o) = TourOf(T, o)
  BY DEF Sketchless!TourOf, TourOf, Sketchless!Listed, Listed
<1>3. \A t, r : Sketchless!SameSentinel(t, r) <=> SameSentinel(t, r)
  BY DEF Sketchless!SameSentinel, SameSentinel
<1>4. \A x : Sketchless!Sentinel(x) = Sentinel(x)
  BY DEF Sketchless!Sentinel, Sentinel
<1>5. \A t, o : Sketchless!Place(t, o) = Place(t, o)
  BY DEF Sketchless!Place, Place
<1>6. \A t, o : Sketchless!Before(t, o) = Before(t, o) /\ Sketchless!After(t, o) = After(t, o)
  BY <1>5 DEF Sketchless!Before, Before, Sketchless!After, After
<1>7. \A t, o : Sketchless!From(t, o) = From(t, o)
  BY <1>6 DEF Sketchless!From, From
<1>8. \A t, starts : Sketchless!Rerooted(t, starts) = Rerooted(t, starts)
  BY <1>6, <1>7 DEF Sketchless!Rerooted, Rerooted
<1>9. \A t, at, loop, u, v : Sketchless!LinkedTour(t, at, loop, u, v) = LinkedTour(t, at, loop, u, v)
  BY <1>6, <1>7 DEF Sketchless!LinkedTour, LinkedTour
<1>10. \A t, u, v : Sketchless!EntersFirst(t, u, v) <=> EntersFirst(t, u, v)
  BY <1>1, <1>6 DEF Sketchless!EntersFirst, EntersFirst
<1>11. \A t, u, v : Sketchless!CutTours(t, u, v) = CutTours(t, u, v)
  <2>1. TAKE t, u, v
  <2>2. CASE EntersFirst(t, u, v)
    BY <2>2, <1>4, <1>6, <1>10 DEF Sketchless!CutTours, CutTours
  <2>3. CASE ~EntersFirst(t, u, v)
    BY <2>3, <1>4, <1>6, <1>10 DEF Sketchless!CutTours, CutTours
  <2>4. QED
    BY <2>2, <2>3
<1>12. QED
  BY <1>2, <1>3, <1>4, <1>6, <1>8, <1>9, <1>10, <1>11

\* What a link() of the sketchless tree is made of.
LEMMA SketchlessLink ==
    ASSUME NEW u \in Nodes, NEW v \in Nodes, NEW at \in ett_nodes[u].edges, NEW d, NEW loop,
           LET mine   == TourOf(tours, at)
               theirs == GetTour(v)
               r      == theirs[Len(theirs)][1]
               nodes  == [ett_nodes EXCEPT ![r] = d]
           IN  /\ ~SameSentinel(mine, theirs)
               /\ d \in Sketchless!DeleteEdge(ett_nodes[r], Sentinel(r))
               /\ ett_nodes' = [nodes EXCEPT ![u] = Sketchless!MakeEdge(@, <<u, v>>),
                                             ![v] = Sketchless!MakeEdge(@, <<v, u>>)]
               /\ loop \in Rerooted(Before(theirs, Sentinel(r)), nodes[v].edges)
               /\ tours' = (tours \ {mine, theirs}) \cup {LinkedTour(mine, at, loop, u, v)}
    PROVE  Sketchless!Link(u, v)
<1> DEFINE mine   == Sketchless!TourOf(tours, at)
           theirs == Sketchless!GetTour(v)
           r      == theirs[Len(theirs)][1]
           nodes  == [ett_nodes EXCEPT ![r] = d]
<1>1. mine = TourOf(tours, at) /\ theirs = GetTour(v)
  BY SameLists DEF Sketchless!GetTour, GetTour, Caller
<1>2. /\ ~Sketchless!SameSentinel(mine, theirs)
      /\ d \in Sketchless!DeleteEdge(ett_nodes[r], Sketchless!Sentinel(r))
      /\ ett_nodes' = [nodes EXCEPT ![u] = Sketchless!MakeEdge(@, <<u, v>>),
                                    ![v] = Sketchless!MakeEdge(@, <<v, u>>)]
      /\ loop \in Sketchless!Rerooted(Sketchless!Before(theirs, Sketchless!Sentinel(r)), nodes[v].edges)
      /\ tours' = (tours \ {mine, theirs}) \cup {Sketchless!LinkedTour(mine, at, loop, u, v)}
  BY <1>1, SameLists
<1>3. QED
  BY <1>2 DEF Sketchless!Link

\* What a cut() of the sketchless tree is made of.
LEMMA SketchlessCut ==
    ASSUME NEW u \in Nodes, NEW v \in Nodes, NEW mine, NEW theirs, Cut(u, v),
           LET inner == IF EntersFirst(TourOf(tours, <<u, v>>), u, v) THEN v ELSE u
               nodes == [ett_nodes EXCEPT ![u] = mine, ![v] = theirs]
           IN  /\ mine \in Sketchless!DeleteEdge(ett_nodes[u], <<u, v>>)
               /\ theirs \in Sketchless!DeleteEdge(ett_nodes[v], <<v, u>>)
               /\ ett_nodes' = [nodes EXCEPT ![inner] = Sketchless!MakeEdge(@, Sentinel(inner))]
    PROVE  Sketchless!Cut(u, v)
<1> DEFINE tour  == Sketchless!TourOf(tours, <<u, v>>)
           inner == IF Sketchless!EntersFirst(tour, u, v) THEN v ELSE u
           nodes == [ett_nodes EXCEPT ![u] = mine, ![v] = theirs]
<1>1. tour = TourOf(tours, <<u, v>>)
  BY SameLists
<1>2. inner = IF EntersFirst(TourOf(tours, <<u, v>>), u, v) THEN v ELSE u
  BY <1>1, SameLists
<1>3. /\ Sketchless!HasEdge(u, v)
      /\ tours' = (tours \ {tour}) \cup Sketchless!CutTours(tour, u, v)
  BY <1>1, SameLists DEF Cut, HasEdge, Sketchless!HasEdge
<1>4. ett_nodes' = [nodes EXCEPT ![inner] = Sketchless!MakeEdge(@, Sketchless!Sentinel(inner))]
  BY <1>2, SameLists
<1>5. QED
  BY <1>3, <1>4 DEF Sketchless!Cut

\* A function changed at one place, or at two.
Put(f, r, d)           == [f EXCEPT ![r] = d]
PutTwo(f, u, d, v, e) == [f EXCEPT ![u] = d, ![v] = e]

\* Functions that differ where they were updated.
LEMMA OneUpdated ==
    ASSUME NEW f \in VertexStates, NEW g \in VertexStates, NEW r \in Nodes,
           \A x \in Nodes : x # r => g[x] = f[x]
    PROVE  g = Put(f, r, g[r])
<1>1. f = [x \in Nodes |-> f[x]] /\ g = [x \in Nodes |-> g[x]]
  BY DEF VertexStates
<1>2. QED
  BY <1>1 DEF Put

\* The same for two vertices.
LEMMA TwoUpdated ==
    ASSUME NEW f \in VertexStates, NEW g \in VertexStates, NEW u \in Nodes, NEW v \in Nodes, u # v,
           \A x \in Nodes : x # u /\ x # v => g[x] = f[x]
    PROVE  g = PutTwo(f, u, g[u], v, g[v])
<1>1. f = [x \in Nodes |-> f[x]] /\ g = [x \in Nodes |-> g[x]]
  BY DEF VertexStates
<1>2. QED
  BY <1>1 DEF PutTwo

------------------------------------------------------------------------------
\* Operations

\* get_root() from any occurrence of a vertex finds the list of its tree.
LEMMA VertexTour ==
    ASSUME IInv, NEW v \in Nodes
    PROVE  /\ GetTour(v) \in tours /\ v \in VerticesOf(GetTour(v))
           /\ VerticesOf(GetTour(v)) = Component(LinkedEdges(tours), v)
           /\ \A o \in ett_nodes[v].edges :
                 o \in Listed(GetTour(v)) /\ o[1] = v /\ TourOf(tours, o) = GetTour(v)
           /\ \A t \in tours : v \in VerticesOf(t) => t = GetTour(v)
<1>1. AreTours(tours) /\ Holds(ett_nodes, tours) /\ Caller(v) \in ett_nodes[v].edges
  BY StateFacts
<1>2. \A o \in ett_nodes[v].edges : o \in AllListed(tours) /\ o[1] = v
  BY <1>1 DEF Holds
<1>3. PICK t \in tours : Caller(v) \in Listed(t)
  BY <1>1, <1>2 DEF AllListed
<1>4. GetTour(v) = t
  BY <1>1, <1>3, TourFound DEF GetTour
<1>5. v \in VerticesOf(t)
  BY <1>1, <1>2, <1>3 DEF VerticesOf
<1>6. \A q \in tours : v \in VerticesOf(q) => q = t
  BY <1>1, <1>5 DEF AreTours
<1>7. ASSUME NEW o \in ett_nodes[v].edges
      PROVE  o \in Listed(t) /\ o[1] = v /\ TourOf(tours, o) = t
  <2>1. PICK q \in tours : o \in Listed(q)
    BY <1>2 DEF AllListed
  <2>2. v \in VerticesOf(q)
    BY <1>2, <2>1 DEF VerticesOf
  <2>3. q = t
    BY <1>6, <2>2
  <2>4. QED
    BY <1>1, <1>2, <2>1, <2>3, TourFound
<1>8. VerticesOf(t) = Component(LinkedEdges(tours), v)
  BY <1>1, <1>5, TourSpans
<1>9. QED
  BY <1>3, <1>4, <1>5, <1>6, <1>7, <1>8

\* A tour that lists its first vertex once is that of a vertex alone.
LEMMA TourOfOne ==
    ASSUME NEW t \in Seq(Occurrences), t # <<>>, IsEulerTour(t),
           NEW r, r = t[Len(t)][1],
           \A o \in Listed(t) : o[1] = r => o = Sentinel(r)
    PROVE  VerticesOf(t) = {r}
<1>1. t[Len(t)] = Sentinel(t[1][1]) /\ Distinct(t)
  BY TourShape DEF OpenTour
<1>2. r = t[1][1]
  BY <1>1 DEF Sentinel
<1>3. Len(t) \in Nat /\ Len(t) # 0 /\ \A k \in 1 .. Len(t) : t[k] \in Listed(t)
  BY ListedElements
<1>4. t[1] = t[Len(t)]
  BY <1>1, <1>2, <1>3
<1>5. Len(t) = 1
  <2>1. 1 \in 1 .. Len(t) /\ Len(t) \in 1 .. Len(t)
    BY <1>3
  <2>2. QED
    BY <2>1, <1>1, <1>4 DEF Distinct
<1>6. \A o \in Listed(t) : o = t[1]
  BY <1>5, ListedElements
<1>7. t[1] \in Listed(t)
  BY <1>3
<1>8. QED
  BY <1>2, <1>6, <1>7 DEF VerticesOf

\* What a link does.
LEMMA LinkStep ==
    ASSUME IInv, NEW u \in Nodes, NEW v \in Nodes, Link(u, v)
    PROVE  /\ IInv'
           /\ \A x \in Nodes : sketch'[Caller(x)'] = sketch[Caller(x)]
           /\ LinkedEdges(tours') = LinkedEdges(tours) \cup {{u, v}}
           /\ ~Connected(LinkedEdges(tours), u, v)
           /\ Sketchless!Link(u, v)
<1> DEFINE theirs == GetTour(v)
           r == theirs[Len(theirs)][1]
<1>1. PICK at \in ett_nodes[u].edges :
         /\ ~SameSentinel(TourOf(tours, at), theirs)
         /\ \E s \in DeleteEdge(Nodes0, r, Sentinel(r)) :
              /\ EndsIn(MakeEdge(MakeEdge(s, u, <<u, v>>), v, <<v, u>>))
              /\ \E loop \in Rerooted(Before(theirs, Sentinel(r)), s.nodes[v].edges) :
                   tours' = (tours \ {TourOf(tours, at), theirs})
                               \cup {LinkedTour(TourOf(tours, at), at, loop, u, v)}
  BY DEF Link
<1> DEFINE mine == TourOf(tours, at)
<1>2. PICK s \in DeleteEdge(Nodes0, r, Sentinel(r)) :
         /\ EndsIn(MakeEdge(MakeEdge(s, u, <<u, v>>), v, <<v, u>>))
         /\ \E loop \in Rerooted(Before(theirs, Sentinel(r)), s.nodes[v].edges) :
              tours' = (tours \ {mine, theirs}) \cup {LinkedTour(mine, at, loop, u, v)}
  BY <1>1
<1>3. PICK loop \in Rerooted(Before(theirs, Sentinel(r)), s.nodes[v].edges) :
         tours' = (tours \ {mine, theirs}) \cup {LinkedTour(mine, at, loop, u, v)}
  BY <1>2
<1>4. /\ AreTours(tours) /\ Acyclic(LinkedEdges(tours)) /\ Carried(Nodes0) /\ Orphans(Nodes0) = {}
      /\ Nodes0.nodes = ett_nodes /\ Holds(ett_nodes, tours)
  BY StateFacts
<1>5. /\ mine \in tours /\ theirs \in tours /\ at \in Listed(mine) /\ at[1] = u
      /\ v \in VerticesOf(theirs) /\ theirs # <<>> /\ theirs \in Seq(Occurrences) /\ IsEulerTour(theirs)
  BY <1>4, VertexTour DEF AreTours
<1>6. mine # theirs
  BY <1>1 DEF SameSentinel
<1> HIDE DEF theirs, mine
<1>7. /\ r \in Nodes /\ Sentinel(r) \in Listed(theirs) /\ Sentinel(r) \in Occurrences
      /\ r \in VerticesOf(theirs) /\ Sentinel(r)[1] = r
  <2>1. theirs[Len(theirs)] = Sentinel(theirs[1][1]) /\ Sentinel(theirs[1][1]) \in Listed(theirs)
        /\ theirs[1][1] \in Nodes
    BY <1>5, TourShape
  <2>2. r = theirs[1][1]
    BY <2>1 DEF Sentinel
  <2>3. Sentinel(r) \in Listed(theirs) /\ r \in Nodes /\ Sentinel(r)[1] = r
    BY <2>1, <2>2 DEF Sentinel
  <2>4. QED
    BY <2>3, <1>5, TourLists
<1>8. r = theirs[Len(theirs)][1]
  OBVIOUS
<1> HIDE DEF r
<1>9. Sentinel(r) \in Nodes0.nodes[r].edges
  <2>1. Sentinel(r) \in AllListed(tours)
    BY <1>5, <1>7 DEF AllListed
  <2>2. QED
    BY <2>1, <1>4, <1>7 DEF Holds
<1>10. /\ Carried(s)
       /\ \A x \in Nodes : s.nodes[x].edges = IF x = r THEN ett_nodes[x].edges \ {Sentinel(r)}
                                              ELSE ett_nodes[x].edges
       /\ \A x \in Nodes : Holding(s, x) = Holding(Nodes0, x)
       /\ Orphans(s) = IF ett_nodes[r].edges = {Sentinel(r)} THEN {r} ELSE {}
       /\ \A x \in Nodes : x # r => s.nodes[x] = ett_nodes[x]
       /\ s.nodes[r] \in Sketchless!DeleteEdge(ett_nodes[r], Sentinel(r))
  <2>1. DeletedEdge(s, Nodes0, r, Sentinel(r))
    BY <1>2, <1>4, <1>7, <1>9, DeleteEdgeCarries
  <2>2. QED
    BY <2>1, <1>4 DEF DeletedEdge
<1>11. \A o \in s.nodes[v].edges : o \in Listed(theirs) /\ o[1] = v /\ o # Sentinel(r)
  <2>1. \A o \in ett_nodes[v].edges : o \in Listed(theirs) /\ o[1] = v
    BY VertexTour DEF theirs
  <2>2. s.nodes[v].edges = IF v = r THEN ett_nodes[v].edges \ {Sentinel(r)} ELSE ett_nodes[v].edges
    BY <1>10
  <2>3. v # r => \A o \in ett_nodes[v].edges : o # Sentinel(r)
    BY <2>1, <1>7
  <2>4. QED
    BY <2>1, <2>2, <2>3
<1>12. /\ AreTours(tours')
       /\ AllListed(tours') = (AllListed(tours) \cup {<<u, v>>, <<v, u>>}) \ {Sentinel(r)}
       /\ LinkedEdges(tours') = LinkedEdges(tours) \cup {{u, v}}
       /\ Acyclic(LinkedEdges(tours'))
       /\ ~Connected(LinkedEdges(tours), u, v)
  <2>1. MayLink(mine, theirs, at, u, v, r, s.nodes[v].edges, loop)
    BY <1>3, <1>4, <1>5, <1>6, <1>8, <1>11 DEF MayLink, AreTours
  <2>2. LinksLists((tours \ {mine, theirs}) \cup {LinkedTour(mine, at, loop, u, v)}, tours, u, v, r)
    BY <2>1, <1>4, <1>5, <1>6, LinkTours
  <2>3. QED
    BY <2>2, <1>3 DEF LinksLists
<1>13. u # v /\ <<u, v>> \in Occurrences /\ <<v, u>> \in Occurrences
  <2>1. u # v
    BY <1>12, ComponentClosed, EdgesListed DEF Connected
  <2>2. QED
    BY <2>1 DEF Occurrences
<1> DEFINE n1 == MakeEdge(s, u, <<u, v>>)
           n == MakeEdge(n1, v, <<v, u>>)
<1>14. /\ Carried(n1)
       /\ \A x \in Nodes : n1.nodes[x].edges = IF x = u THEN s.nodes[x].edges \cup {<<u, v>>}
                                               ELSE s.nodes[x].edges
       /\ \A x \in Nodes : Holding(n1, x) = Holding(s, x)
       /\ Orphans(n1) = Orphans(s) \ {u}
       /\ \A x \in Nodes : x # u => n1.nodes[x] = s.nodes[x]
       /\ n1.nodes[u] = Sketchless!MakeEdge(s.nodes[u], <<u, v>>)
  <2>1. <<u, v>>[1] = u
    OBVIOUS
  <2>2. MadeEdge(n1, s, u, <<u, v>>)
    BY <2>1, <1>10, <1>13, MakeEdgeCarries
  <2>3. QED
    BY <2>2 DEF MadeEdge
<1> HIDE DEF n1
<1>15. /\ Carried(n)
       /\ \A x \in Nodes : n.nodes[x].edges = IF x = v THEN n1.nodes[x].edges \cup {<<v, u>>}
                                              ELSE n1.nodes[x].edges
       /\ \A x \in Nodes : Holding(n, x) = Holding(n1, x)
       /\ Orphans(n) = Orphans(n1) \ {v}
       /\ \A x \in Nodes : x # v => n.nodes[x] = n1.nodes[x]
       /\ n.nodes[v] = Sketchless!MakeEdge(n1.nodes[v], <<v, u>>)
  <2>1. <<v, u>>[1] = v
    OBVIOUS
  <2>2. MadeEdge(n, n1, v, <<v, u>>)
    BY <2>1, <1>14, <1>13, MakeEdgeCarries
  <2>3. QED
    BY <2>2 DEF MadeEdge
<1>16. EndsIn(n)
  BY <1>2 DEF n1
<1> HIDE DEF n
<1>17. Orphans(n) = {}
  <2>1. ASSUME ett_nodes[r].edges = {Sentinel(r)}
        PROVE  r = v
    <3>1. \A o \in Listed(theirs) : o[1] = r => o = Sentinel(r)
      <4>1. ASSUME NEW o \in Listed(theirs), o[1] = r
            PROVE  o = Sentinel(r)
        <5>1. o \in Occurrences
          BY <1>5, TourLists
        <5>2. o \in AllListed(tours)
          BY <5>1, <1>5 DEF AllListed
        <5>3. o \in ett_nodes[r].edges
          BY <5>2, <4>1, <1>4, <1>7 DEF Holds
        <5>4. QED
          BY <5>3, <2>1
      <4>2. QED
        BY <4>1
    <3>2. VerticesOf(theirs) = {r}
      BY <3>1, <1>5, <1>8, TourOfOne
    <3>3. QED
      BY <3>2, <1>5
  <2>2. QED
    BY <2>1, <1>10, <1>14, <1>15
<1>18. Holds(n.nodes, tours')
  <2>1. ASSUME NEW x \in Nodes
        PROVE  n.nodes[x].edges = {o \in AllListed(tours') : o[1] = x}
    <3>1. ett_nodes[x].edges = {o \in AllListed(tours) : o[1] = x}
      BY <1>4 DEF Holds
    <3>2. s.nodes[x].edges = {o \in AllListed(tours) \ {Sentinel(r)} : o[1] = x}
      BY <3>1, <1>7, <1>10
    <3>3. n1.nodes[x].edges = {o \in (AllListed(tours) \ {Sentinel(r)}) \cup {<<u, v>>} : o[1] = x}
      <4>1. <<u, v>>[1] = u
        OBVIOUS
      <4>2. CASE x = u
        BY <4>1, <4>2, <3>2, <1>14
      <4>3. CASE x # u
        BY <4>1, <4>3, <3>2, <1>14
      <4>4. QED
        BY <4>2, <4>3
    <3>4. n.nodes[x].edges = {o \in (AllListed(tours) \ {Sentinel(r)}) \cup {<<u, v>>, <<v, u>>} : o[1] = x}
      <4>1. <<v, u>>[1] = v
        OBVIOUS
      <4>2. CASE x = v
        BY <4>1, <4>2, <3>3, <1>15
      <4>3. CASE x # v
        BY <4>1, <4>3, <3>3, <1>15
      <4>4. QED
        BY <4>2, <4>3
    <3>5. <<u, v>> # Sentinel(r) /\ <<v, u>> # Sentinel(r)
      BY NullAssumption DEF Sentinel
    <3>6. AllListed(tours') = (AllListed(tours) \ {Sentinel(r)}) \cup {<<u, v>>, <<v, u>>}
      BY <3>5, <1>12
    <3>7. QED
      BY <3>4, <3>6
  <2>2. QED
    BY <2>1 DEF Holds
<1>19. \A x \in Nodes : Holding(n, x) = Holding(Nodes0, x)
  BY <1>10, <1>14, <1>15
<1>20. Sketchless!Link(u, v)
  <2>1. /\ ett_nodes \in VertexStates /\ s.nodes \in VertexStates /\ n.nodes \in VertexStates
        /\ ett_nodes' = n.nodes
    BY <1>4, <1>10, <1>15, <1>16 DEF Carried, NodeStates, EndsIn
  <2> DEFINE d == s.nodes[r]
  <2>2. s.nodes = [ett_nodes EXCEPT ![r] = d]
    <3>1. s.nodes = Put(ett_nodes, r, s.nodes[r])
      BY <2>1, <1>7, <1>10, OneUpdated
    <3>2. QED
      BY <3>1 DEF Put
  <2>3. n.nodes[u] = Sketchless!MakeEdge(s.nodes[u], <<u, v>>)
    BY <1>13, <1>14, <1>15
  <2>4. n.nodes[v] = Sketchless!MakeEdge(s.nodes[v], <<v, u>>)
    BY <1>13, <1>14, <1>15
  <2>5. \A x \in Nodes : x # u /\ x # v => n.nodes[x] = s.nodes[x]
    BY <1>14, <1>15
  <2>6. n.nodes = [s.nodes EXCEPT ![u] = n.nodes[u], ![v] = n.nodes[v]]
    <3>1. n.nodes = PutTwo(s.nodes, u, n.nodes[u], v, n.nodes[v])
      BY <2>1, <2>5, <1>13, TwoUpdated
    <3>2. QED
      BY <3>1 DEF PutTwo
  <2>7. ett_nodes' = [s.nodes EXCEPT ![u] = Sketchless!MakeEdge(@, <<u, v>>),
                                     ![v] = Sketchless!MakeEdge(@, <<v, u>>)]
    BY <2>1, <2>3, <2>4, <2>6, <1>13 DEF VertexStates
  <2> DEFINE nodes == [ett_nodes EXCEPT ![r] = d]
  <2>8. nodes = s.nodes
    BY <2>2
  <2> HIDE DEF d, nodes
  <2>9. /\ ~SameSentinel(mine, theirs)
        /\ d \in Sketchless!DeleteEdge(ett_nodes[r], Sentinel(r))
        /\ ett_nodes' = [nodes EXCEPT ![u] = Sketchless!MakeEdge(@, <<u, v>>),
                                      ![v] = Sketchless!MakeEdge(@, <<v, u>>)]
        /\ loop \in Rerooted(Before(theirs, Sentinel(r)), nodes[v].edges)
        /\ tours' = (tours \ {mine, theirs}) \cup {LinkedTour(mine, at, loop, u, v)}
    BY <2>7, <2>8, <1>1, <1>3, <1>10 DEF d, mine, theirs
  <2>10. QED
    BY <2>9, SketchlessLink DEF mine, theirs, r, nodes
<1>21. QED
  BY <1>12, <1>15, <1>16, <1>17, <1>18, <1>19, <1>20, StateRestored

\* What cut() does to the vertices.
Reseated(n, s, u, v, y) ==
    /\ Carried(n) /\ Orphans(n) = {}
    /\ \A w \in Nodes : Holding(n, w) = Holding(s, w)
    /\ \A w \in Nodes : n.nodes[w].edges =
          (s.nodes[w].edges \ {<<u, v>>, <<v, u>>}) \cup (IF w = y THEN {Sentinel(y)} ELSE {})
    /\ \E mine \in Sketchless!DeleteEdge(s.nodes[u], <<u, v>>),
          theirs \in Sketchless!DeleteEdge(s.nodes[v], <<v, u>>) :
          n.nodes = Put(PutTwo(s.nodes, u, mine, v, theirs), y,
                        Sketchless!MakeEdge(PutTwo(s.nodes, u, mine, v, theirs)[y], Sentinel(y)))

\* The occurrences of the vertices after both arcs of an edge are gone and the vertex of the
\* inner tour has a sentinel.
LEMMA CutVertices ==
    ASSUME NEW s, Carried(s), Orphans(s) = {}, NEW u \in Nodes, NEW v \in Nodes, u # v,
           <<u, v>> \in s.nodes[u].edges, <<v, u>> \in s.nodes[v].edges,
           NEW x, NEW y, {x, y} = {u, v}, s.nodes[x].edges # {<<x, y>>},
           NEW s1 \in DeleteEdge(s, u, <<u, v>>), NEW s2 \in DeleteEdge(s1, v, <<v, u>>)
    PROVE  Reseated(MakeEdge(s2, y, Sentinel(y)), s, u, v, y)
<1> DEFINE n == MakeEdge(s2, y, Sentinel(y))
<1>1. /\ \A w \in Nodes : \A o \in s.nodes[w].edges : o[1] = w
      /\ <<u, v>>[1] = u /\ <<v, u>>[1] = v
  BY DEF Carried
<1>2. (x = u /\ y = v) \/ (x = v /\ y = u)
  OBVIOUS
<1>3. DeletedEdge(s1, s, u, <<u, v>>)
  BY DeleteEdgeCarries
<1>4. /\ Carried(s1)
      /\ \A w \in Nodes : s1.nodes[w].edges = IF w = u THEN s.nodes[w].edges \ {<<u, v>>}
                                              ELSE s.nodes[w].edges
      /\ \A w \in Nodes : Holding(s1, w) = Holding(s, w)
      /\ Orphans(s1) = IF s.nodes[u].edges = {<<u, v>>} THEN {u} ELSE {}
      /\ \A w \in Nodes : w # u => s1.nodes[w] = s.nodes[w]
      /\ s1.nodes[u] \in Sketchless!DeleteEdge(s.nodes[u], <<u, v>>)
  BY <1>3 DEF DeletedEdge
<1>5. s1.nodes[v].edges = s.nodes[v].edges
  BY <1>4
<1>6. s1.nodes[v].edges = {<<v, u>>} => Orphans(s1) = {}
  BY <1>2, <1>4, <1>5
<1>7. DeletedEdge(s2, s1, v, <<v, u>>)
  BY <1>4, <1>5, <1>6, DeleteEdgeCarries
<1>8. /\ Carried(s2)
      /\ \A w \in Nodes : s2.nodes[w].edges = IF w = v THEN s1.nodes[w].edges \ {<<v, u>>}
                                              ELSE s1.nodes[w].edges
      /\ \A w \in Nodes : Holding(s2, w) = Holding(s1, w)
      /\ Orphans(s2) = IF s1.nodes[v].edges = {<<v, u>>} THEN {v} ELSE Orphans(s1)
      /\ \A w \in Nodes : w # v => s2.nodes[w] = s1.nodes[w]
      /\ s2.nodes[v] \in Sketchless!DeleteEdge(s1.nodes[v], <<v, u>>)
  BY <1>7 DEF DeletedEdge
<1>9. Orphans(s2) \subseteq {y}
  BY <1>2, <1>4, <1>5, <1>8
<1>10. Sentinel(y) \in Occurrences /\ Sentinel(y)[1] = y /\ y \in Nodes
  BY <1>2, NullAssumption DEF Sentinel, Occurrences
<1>11. MadeEdge(n, s2, y, Sentinel(y))
  BY <1>8, <1>10, MakeEdgeCarries
<1> HIDE DEF n
<1>12. /\ Carried(n)
       /\ \A w \in Nodes : n.nodes[w].edges = IF w = y THEN s2.nodes[w].edges \cup {Sentinel(y)}
                                              ELSE s2.nodes[w].edges
       /\ \A w \in Nodes : Holding(n, w) = Holding(s2, w)
       /\ Orphans(n) = Orphans(s2) \ {y}
       /\ \A w \in Nodes : w # y => n.nodes[w] = s2.nodes[w]
       /\ n.nodes[y] = Sketchless!MakeEdge(s2.nodes[y], Sentinel(y))
  BY <1>11 DEF MadeEdge
<1>13. \A w \in Nodes : n.nodes[w].edges =
          (s.nodes[w].edges \ {<<u, v>>, <<v, u>>}) \cup (IF w = y THEN {Sentinel(y)} ELSE {})
  <2>1. TAKE w \in Nodes
  <2>2. s1.nodes[w].edges = s.nodes[w].edges \ {<<u, v>>}
    <3>1. w # u => <<u, v>> \notin s.nodes[w].edges
      BY <1>1
    <3>2. QED
      BY <3>1, <1>4
  <2>3. s2.nodes[w].edges = s1.nodes[w].edges \ {<<v, u>>}
    <3>1. w # v => <<v, u>> \notin s1.nodes[w].edges
      BY <1>1, <2>2
    <3>2. QED
      BY <3>1, <1>8
  <2>4. QED
    BY <2>2, <2>3, <1>12
<1>14. Orphans(n) = {}
  BY <1>9, <1>12
<1>15. \A w \in Nodes : Holding(n, w) = Holding(s, w)
  BY <1>4, <1>8, <1>12
<1>16. \E mine \in Sketchless!DeleteEdge(s.nodes[u], <<u, v>>),
          theirs \in Sketchless!DeleteEdge(s.nodes[v], <<v, u>>) :
          n.nodes = Put(PutTwo(s.nodes, u, mine, v, theirs), y,
                        Sketchless!MakeEdge(PutTwo(s.nodes, u, mine, v, theirs)[y], Sentinel(y)))
  <2>1. s.nodes \in VertexStates /\ s2.nodes \in VertexStates /\ n.nodes \in VertexStates
    BY <1>8, <1>12 DEF Carried, NodeStates
  <2>2. /\ s2.nodes[u] \in Sketchless!DeleteEdge(s.nodes[u], <<u, v>>)
        /\ s2.nodes[v] \in Sketchless!DeleteEdge(s.nodes[v], <<v, u>>)
    BY <1>4, <1>8
  <2>3. \A w \in Nodes : w # u /\ w # v => s2.nodes[w] = s.nodes[w]
    BY <1>4, <1>8
  <2>4. s2.nodes = PutTwo(s.nodes, u, s2.nodes[u], v, s2.nodes[v])
    BY <2>1, <2>3, TwoUpdated
  <2>5. n.nodes = Put(s2.nodes, y, n.nodes[y])
    BY <2>1, <1>10, <1>12, OneUpdated
  <2>6. n.nodes = Put(s2.nodes, y, Sketchless!MakeEdge(s2.nodes[y], Sentinel(y)))
    BY <2>5, <1>12
  <2>7. n.nodes = Put(PutTwo(s.nodes, u, s2.nodes[u], v, s2.nodes[v]), y,
                      Sketchless!MakeEdge(PutTwo(s.nodes, u, s2.nodes[u], v, s2.nodes[v])[y], Sentinel(y)))
    BY <2>4, <2>6
  <2>8. QED
    BY <2>2, <2>7
<1>17. Reseated(n, s, u, v, y)
  BY <1>12, <1>13, <1>14, <1>15, <1>16 DEF Reseated
<1>18. QED
  BY <1>17 DEF n

\* What a cut does.
LEMMA CutStep ==
    ASSUME IInv, NEW u \in Nodes, NEW v \in Nodes, Cut(u, v)
    PROVE  /\ IInv'
           /\ \A x \in Nodes : sketch'[Caller(x)'] = sketch[Caller(x)]
           /\ LinkedEdges(tours') = LinkedEdges(tours) \ {{u, v}}
           /\ Sketchless!Cut(u, v)
<1> DEFINE tour == TourOf(tours, <<u, v>>)
           x == IF EntersFirst(tour, u, v) THEN u ELSE v
           y == IF EntersFirst(tour, u, v) THEN v ELSE u
<1>1. /\ <<u, v>> \in ett_nodes[u].edges
      /\ tours' = (tours \ {tour}) \cup CutTours(tour, u, v)
      /\ \E s1 \in DeleteEdge(Nodes0, u, <<u, v>>) :
            \E s2 \in DeleteEdge(s1, v, <<v, u>>) : EndsIn(MakeEdge(s2, y, Sentinel(y)))
  BY DEF Cut, HasEdge
<1>2. PICK s1 \in DeleteEdge(Nodes0, u, <<u, v>>) :
         \E s2 \in DeleteEdge(s1, v, <<v, u>>) : EndsIn(MakeEdge(s2, y, Sentinel(y)))
  BY <1>1
<1>3. PICK s2 \in DeleteEdge(s1, v, <<v, u>>) : EndsIn(MakeEdge(s2, y, Sentinel(y)))
  BY <1>2
<1>4. /\ AreTours(tours) /\ Acyclic(LinkedEdges(tours)) /\ Carried(Nodes0) /\ Orphans(Nodes0) = {}
      /\ Nodes0.nodes = ett_nodes /\ Holds(ett_nodes, tours)
  BY StateFacts
<1>5. tour \in tours /\ <<u, v>> \in Listed(tour)
  BY <1>1, VertexTour
<1>6. tour # <<>> /\ tour \in Seq(Occurrences) /\ IsEulerTour(tour)
  BY <1>4, <1>5 DEF AreTours
<1>7. /\ <<u, v>>[1] = u /\ <<u, v>>[2] = v /\ <<v, u>>[1] = v
      /\ v # Null /\ u # v /\ <<u, v>> # <<v, u>> /\ Back(<<u, v>>) = <<v, u>>
  <2>1. <<u, v>> \in Occurrences
    BY <1>5, <1>6, TourLists
  <2>2. <<u, v>>[1] # <<u, v>>[2]
    BY <2>1, OccurrenceParts
  <2>3. QED
    BY <2>2, NullAssumption DEF Back
<1> HIDE DEF tour
<1>8. <<v, u>> \in Listed(tour)
  BY <1>5, <1>6, <1>7, TourLists
<1>9. /\ {x, y} = {u, v} /\ x \in Nodes /\ y \in Nodes
      /\ <<x, y>> \in Listed(tour) /\ <<y, x>> \in Listed(After(tour, <<x, y>>))
      /\ CutTours(tour, u, v) = {Inner(tour, x, y), Outer(tour, x, y)}
  <2>1. CASE EntersFirst(tour, u, v)
    BY <2>1, <1>5, <1>7 DEF EntersFirst, CutTours, Inner, Outer
  <2>2. CASE ~EntersFirst(tour, u, v)
    <3>1. <<u, v>> \in Listed(After(tour, <<v, u>>))
      BY <2>2, <1>5, <1>6, <1>7, <1>8, OneComesFirst DEF EntersFirst
    <3>2. QED
      BY <2>2, <3>1, <1>7, <1>8 DEF CutTours, Inner, Outer
  <2>3. QED
    BY <2>1, <2>2
<1> HIDE DEF x, y
<1>10. CutsLists(tours', tours, tour, x, y)
  BY <1>1, <1>4, <1>5, <1>9, CutLists
<1>11. /\ AreTours(tours')
       /\ AllListed(tours') = (AllListed(tours) \ {<<x, y>>, <<y, x>>}) \cup {Sentinel(y)}
       /\ LinkedEdges(tours') = LinkedEdges(tours) \ {{x, y}}
       /\ Acyclic(LinkedEdges(tours'))
       /\ \E o \in Listed(tour) : o[1] = x /\ o # <<x, y>>
  BY <1>10 DEF CutsLists
<1>12. \A o \in Listed(tour) : o[1] \in Nodes /\ o \in ett_nodes[o[1]].edges
  <2>1. ASSUME NEW o \in Listed(tour)
        PROVE  o[1] \in Nodes /\ o \in ett_nodes[o[1]].edges
    <3>1. o \in Occurrences
      BY <1>6, TourLists
    <3>2. o \in AllListed(tours)
      BY <3>1, <1>5 DEF AllListed
    <3>3. o[1] \in Nodes
      BY <3>1, OccurrenceParts
    <3>4. QED
      BY <3>2, <3>3, <1>4 DEF Holds
  <2>2. QED
    BY <2>1
<1>13. ett_nodes[x].edges # {<<x, y>>}
  BY <1>11, <1>12
<1>14. <<v, u>> \in ett_nodes[v].edges
  BY <1>7, <1>8, <1>12
<1> DEFINE n == MakeEdge(s2, y, Sentinel(y))
<1>15. /\ Carried(n) /\ Orphans(n) = {}
       /\ \A w \in Nodes : Holding(n, w) = Holding(Nodes0, w)
       /\ \A w \in Nodes : n.nodes[w].edges =
             (Nodes0.nodes[w].edges \ {<<u, v>>, <<v, u>>}) \cup (IF w = y THEN {Sentinel(y)} ELSE {})
       /\ \E mine \in Sketchless!DeleteEdge(ett_nodes[u], <<u, v>>),
             theirs \in Sketchless!DeleteEdge(ett_nodes[v], <<v, u>>) :
             n.nodes = Put(PutTwo(ett_nodes, u, mine, v, theirs), y,
                           Sketchless!MakeEdge(PutTwo(ett_nodes, u, mine, v, theirs)[y], Sentinel(y)))
  <2>1. Reseated(n, Nodes0, u, v, y)
    BY <1>1, <1>4, <1>7, <1>9, <1>13, <1>14, CutVertices
  <2>2. QED
    BY <2>1, <1>4 DEF Reseated
<1>16. EndsIn(n)
  BY <1>3
<1> HIDE DEF n
<1>17. {<<x, y>>, <<y, x>>} = {<<u, v>>, <<v, u>>}
  BY <1>9 DEF x, y
<1>18. Holds(n.nodes, tours')
  <2>1. ASSUME NEW w \in Nodes
        PROVE  n.nodes[w].edges = {o \in AllListed(tours') : o[1] = w}
    <3>1. ett_nodes[w].edges = {o \in AllListed(tours) : o[1] = w}
      BY <1>4 DEF Holds
    <3>2. n.nodes[w].edges = (ett_nodes[w].edges \ {<<u, v>>, <<v, u>>}) \cup (IF w = y THEN {Sentinel(y)} ELSE {})
      BY <1>4, <1>15
    <3>3. AllListed(tours') = (AllListed(tours) \ {<<u, v>>, <<v, u>>}) \cup {Sentinel(y)}
      BY <1>11, <1>17
    <3>4. Sentinel(y)[1] = y
      BY DEF Sentinel
    <3>5. QED
      BY <3>1, <3>2, <3>3, <3>4
  <2>2. QED
    BY <2>1 DEF Holds
<1>19. LinkedEdges(tours') = LinkedEdges(tours) \ {{u, v}}
  BY <1>9, <1>11
<1>20. Sketchless!Cut(u, v)
  <2>1. PICK mine \in Sketchless!DeleteEdge(ett_nodes[u], <<u, v>>),
             theirs \in Sketchless!DeleteEdge(ett_nodes[v], <<v, u>>) :
             n.nodes = Put(PutTwo(ett_nodes, u, mine, v, theirs), y,
                           Sketchless!MakeEdge(PutTwo(ett_nodes, u, mine, v, theirs)[y], Sentinel(y)))
    BY <1>15
  <2>2. ett_nodes' = n.nodes
    BY <1>16 DEF EndsIn
  <2> DEFINE nodes == [ett_nodes EXCEPT ![u] = mine, ![v] = theirs]
  <2>3. ett_nodes' = [nodes EXCEPT ![y] = Sketchless!MakeEdge(@, Sentinel(y))]
    BY <2>1, <2>2 DEF Put, PutTwo
  <2> HIDE DEF nodes
  <2>4. y = IF EntersFirst(TourOf(tours, <<u, v>>), u, v) THEN v ELSE u
    BY DEF y, tour
  <2>5. QED
    BY <2>1, <2>3, <2>4, SketchlessCut DEF nodes
<1>21. QED
  BY <1>11, <1>15, <1>16, <1>18, <1>19, <1>20, StateRestored

------------------------------------------------------------------------------
\* The initial state and the updates

\* The tour of a vertex alone.
LEMMA LoneTour ==
    ASSUME NEW v \in Nodes
    PROVE  /\ <<Sentinel(v)>> # <<>> /\ <<Sentinel(v)>> \in Seq(Occurrences)
           /\ IsEulerTour(<<Sentinel(v)>>)
           /\ Listed(<<Sentinel(v)>>) = {Sentinel(v)} /\ VerticesOf(<<Sentinel(v)>>) = {v}
<1> DEFINE S == Sentinel(v)
           t == <<S>>
<1>1. S \in Occurrences /\ S[1] = v
  BY NullAssumption DEF Occurrences, Sentinel
<1>2. t \in Seq(Occurrences) /\ Len(t) = 1 /\ t # <<>> /\ Listed(t) = {S} /\ t[1] = S
  BY <1>1, Single
<1>3. VerticesOf(t) = {v}
  BY <1>1, <1>2 DEF VerticesOf
<1>4. Cardinality({S}) = 1 /\ Cardinality({v}) = 1
  BY FS_Singleton
<1> HIDE DEF t
<1>5. t[Len(t)] = Sentinel(t[1][1])
  BY <1>1, <1>2
<1> HIDE DEF S
<1>6. Cardinality(Listed(t)) = Len(t) /\ Len(t) = 2 * Cardinality(VerticesOf(t)) - 1
  BY <1>2, <1>3, <1>4
<1>7. 1 .. Len(t) - 1 = {}
  BY <1>2
<1>8. IsEulerTour(t)
  BY <1>5, <1>6, <1>7 DEF IsEulerTour
<1>9. QED
  BY <1>2, <1>3, <1>8 DEF t, S

\* The initial state.
LEMMA InitHolds ==
    ASSUME Init
    PROVE  IInv /\ LinkedEdges(tours) = {}
<1>1. /\ tours = {<<Sentinel(v)>> : v \in Nodes}
      /\ ett_nodes = [v \in Nodes |-> [edges |-> {Sentinel(v)}, allowed_caller |-> Sentinel(v)]]
      /\ sketch = [o \in Occurrences |-> {}]
      /\ temp_sketch = {}
  BY DEF Init
<1>2. \A v \in Nodes : Sentinel(v) \in Occurrences /\ Sentinel(v)[1] = v /\ Sentinel(v)[2] = Null
  BY NullAssumption DEF Occurrences, Sentinel
<1>3. TypeOK
  <2>1. \A t \in tours : t # <<>> /\ t \in Seq(Occurrences)
    BY <1>1, LoneTour
  <2>2. QED
    BY <1>1, <1>2, <2>1 DEF TypeOK
<1>4. LinkedEdges(tours) = {}
  <2>1. ASSUME NEW e \in LinkedEdges(tours)
        PROVE  FALSE
    <3>1. PICK t \in tours : \E o \in Listed(t) : e = {o[1], o[2]}
      BY DEF LinkedEdges
    <3>2. PICK v \in Nodes : t = <<Sentinel(v)>>
      BY <1>1
    <3>3. e = {v, Null}
      BY <3>1, <3>2, <1>2, LoneTour
    <3>4. QED
      BY <3>3, NullAssumption DEF LinkedEdges, Edges
  <2>2. QED
    BY <2>1
<1>5. ToursAreEuler
  <2>1. \A t \in tours : IsEulerTour(t)
    BY <1>1, LoneTour
  <2>2. \A t, r \in tours : t # r => VerticesOf(t) \cap VerticesOf(r) = {}
    <3>1. ASSUME NEW t \in tours, NEW r \in tours, t # r
          PROVE  VerticesOf(t) \cap VerticesOf(r) = {}
      <4>1. PICK v \in Nodes : t = <<Sentinel(v)>>
        BY <1>1
      <4>2. PICK w \in Nodes : r = <<Sentinel(w)>>
        BY <1>1
      <4>3. VerticesOf(t) = {v} /\ VerticesOf(r) = {w} /\ v # w
        BY <3>1, <4>1, <4>2, LoneTour
      <4>4. QED
        BY <4>3
    <3>2. QED
      BY <3>1
  <2>3. \A v \in Nodes : ett_nodes[v].edges =
           {o \in Occurrences : o[1] = v /\ \E t \in tours : o \in Listed(t)}
    <3>1. ASSUME NEW v \in Nodes
          PROVE  {Sentinel(v)} = {o \in Occurrences : o[1] = v /\ \E t \in tours : o \in Listed(t)}
      <4>1. \E t \in tours : Sentinel(v) \in Listed(t)
        BY <1>1, LoneTour
      <4>2. ASSUME NEW o \in Occurrences, o[1] = v, NEW t \in tours, o \in Listed(t)
            PROVE  o = Sentinel(v)
        <5>1. PICK w \in Nodes : t = <<Sentinel(w)>>
          BY <1>1
        <5>2. o = Sentinel(w)
          BY <4>2, <5>1, LoneTour
        <5>3. QED
          BY <4>2, <5>2, <1>2
      <4>3. QED
        BY <4>1, <4>2, <1>2
    <3>2. QED
      BY <3>1, <1>1
  <2>4. Acyclic(LinkedEdges(tours))
    BY <1>4 DEF Acyclic
  <2>5. QED
    BY <2>1, <2>2, <2>3, <2>4 DEF ToursAreEuler
<1>6. OneCarrier
  BY <1>1 DEF OneCarrier, Caller
<1>7. QED
  BY <1>3, <1>4, <1>5, <1>6 DEF IInv

\* An update reaches the sketch at the allowed_caller of a vertex.
LEMMA UpdateStep ==
    ASSUME IInv, NEW i \in Indexes,
           \/ \E v \in Nodes : UpdateSketch(v, i)
           \/ \E u, v \in Nodes : UpdateSketches(u, v, i)
    PROVE  IInv' /\ tours' = tours
<1>1. \A x \in Nodes : Caller(x) \in Occurrences /\ Caller(x)[1] = x
  <2>1. \A x \in Nodes : Caller(x) \in ett_nodes[x].edges
    BY DEF IInv, OneCarrier
  <2>2. QED
    BY <2>1 DEF IInv, ToursAreEuler
<1>2. UNCHANGED <<tours, ett_nodes, temp_sketch>>
  BY DEF UpdateSketch, UpdateSketches
<1>3. sketch \in [Occurrences -> SUBSET Indexes]
  BY DEF IInv, TypeOK
<1>4. \A S \in SUBSET Indexes : Merge(S, {i}) \in SUBSET Indexes
  BY DEF Merge
<1>5. /\ sketch' \in [Occurrences -> SUBSET Indexes]
      /\ \A o \in Occurrences : sketch'[o] # {} => sketch[o] # {} \/ \E x \in Nodes : o = Caller(x)
  <2>1. ASSUME NEW v \in Nodes, UpdateSketch(v, i)
        PROVE  /\ sketch' \in [Occurrences -> SUBSET Indexes]
               /\ \A o \in Occurrences : sketch'[o] # {} => sketch[o] # {} \/ \E x \in Nodes : o = Caller(x)
    <3>1. sketch' = [sketch EXCEPT ![Caller(v)] = Merge(@, {i})]
      BY <2>1 DEF UpdateSketch
    <3>2. QED
      BY <3>1, <1>1, <1>3, <1>4
  <2>2. ASSUME NEW u \in Nodes, NEW v \in Nodes, UpdateSketches(u, v, i)
        PROVE  /\ sketch' \in [Occurrences -> SUBSET Indexes]
               /\ \A o \in Occurrences : sketch'[o] # {} => sketch[o] # {} \/ \E x \in Nodes : o = Caller(x)
    <3>1. sketch' = [sketch EXCEPT ![Caller(u)] = Merge(@, {i}), ![Caller(v)] = Merge(@, {i})]
      BY <2>2 DEF UpdateSketches
    <3>2. QED
      BY <3>1, <1>1, <1>3, <1>4
  <2>3. QED
    BY <2>1, <2>2
<1>6. \A x \in Nodes : Caller(x)' = Caller(x)
  BY <1>2 DEF Caller
<1>7. OneCarrier'
  <2>1. /\ temp_sketch = {} /\ \A v \in Nodes : Caller(v) \in ett_nodes[v].edges
        /\ \A o \in Occurrences : sketch[o] # {} => o = Caller(o[1])
    BY DEF IInv, OneCarrier
  <2>2. \A o \in Occurrences : sketch'[o] # {} => o = Caller(o[1])
    BY <2>1, <1>1, <1>5
  <2>3. \A o \in Occurrences : o[1] \in Nodes
    BY OccurrenceParts
  <2>4. QED
    BY <2>1, <2>2, <2>3, <1>2, <1>6 DEF OneCarrier
<1>8. TypeOK'
  BY <1>2, <1>5 DEF IInv, TypeOK
<1>9. ToursAreEuler'
  BY <1>2 DEF IInv, ToursAreEuler
<1>10. QED
  BY <1>2, <1>7, <1>8, <1>9 DEF IInv

\* Every step keeps the invariant.
LEMMA StepHolds ==
    ASSUME IInv, [Next]_vars
    PROVE  IInv'
<1>1. CASE UNCHANGED vars
  BY <1>1 DEF vars, IInv, TypeOK, ToursAreEuler, OneCarrier, Caller
<1>2. ASSUME NEW u \in Nodes, NEW v \in Nodes, Link(u, v)
      PROVE  IInv'
  BY <1>2, LinkStep
<1>3. ASSUME NEW u \in Nodes, NEW v \in Nodes, Cut(u, v)
      PROVE  IInv'
  BY <1>3, CutStep
<1>4. ASSUME NEW u \in Nodes, NEW i \in Indexes,
             UpdateSketch(u, i) \/ \E v \in Nodes : UpdateSketches(u, v, i)
      PROVE  IInv'
  BY <1>4, UpdateStep
<1>5. QED
  BY <1>1, <1>2, <1>3, <1>4 DEF Next

------------------------------------------------------------------------------
\* Theorems

\* The lists are Euler tours of a forest and each vertex has one occurrence that carries its
\* sketch, after every operation (link, cut, update_sketch and update_sketches).
THEOREM Invariance == Spec => []IInv
<1>1. Init => IInv
  BY InitHolds
<1>2. IInv /\ [Next]_vars => IInv'
  BY StepHolds
<1>3. QED
  BY <1>1, <1>2, PTL DEF Spec

\* The variables have their types.
THEOREM TypeCorrect == Spec => []TypeOK
<1>1. IInv => TypeOK
  BY DEF IInv
<1>2. QED
  BY <1>1, Invariance, PTL

\* The lists are the Euler tours of a forest, end in their only sentinels and are as long as
\* link() and GraphTiers take them to be, and edges holds exactly the listed occurrences.
THEOREM AlwaysEuler == Spec => []ToursAreEuler
<1>1. IInv => ToursAreEuler
  BY DEF IInv
<1>2. QED
  BY <1>1, Invariance, PTL

\* Each vertex has one occurrence that carries its sketch, no other carries any, and
\* delete_edge() leaves nothing behind in temp_sketch once link() or cut() is over.
THEOREM AlwaysOneCarrier == Spec => []OneCarrier
<1>1. IInv => OneCarrier
  BY DEF IInv
<1>2. QED
  BY <1>1, Invariance, PTL

\* link() and cut() leave every vertex the sketch it has, whichever occurrences they delete
\* and whichever occurrence edges.begin() is.
THEOREM SketchesKept == Spec => SketchesStay
<1>1. IInv /\ [Next]_vars
         => [tours' # tours => \A v \in Nodes : sketch'[Caller(v)'] = sketch[Caller(v)]]_vars
  <2> SUFFICES ASSUME IInv, [Next]_vars, tours' # tours
               PROVE  \A v \in Nodes : sketch'[Caller(v)'] = sketch[Caller(v)]
    OBVIOUS
  <2>1. \/ \E u, v \in Nodes : Link(u, v) \/ Cut(u, v)
        \/ \E i \in Indexes : \/ \E v \in Nodes : UpdateSketch(v, i)
                              \/ \E u, v \in Nodes : UpdateSketches(u, v, i)
    BY DEF Next, vars
  <2>2. QED
    BY <2>1, LinkStep, CutStep, UpdateStep
<1>2. QED
  BY <1>1, Invariance, PTL DEF Spec, SketchesStay

\* link() takes effect exactly between two trees and cut() exactly on a linked edge: the
\* linked edges move as LinkedForest does.
THEOREM ForestRefinement == Spec => ImplementsForest
<1>1. Init => Linked!Init
  BY InitHolds DEF Linked!Init
<1>2. IInv /\ [Next]_vars => [Linked!Next]_(LinkedEdges(tours))
  <2> SUFFICES ASSUME IInv, [Next]_vars
               PROVE  [Linked!Next]_(LinkedEdges(tours))
    OBVIOUS
  <2>1. ASSUME NEW u \in Nodes, NEW v \in Nodes, Link(u, v)
        PROVE  Linked!Link(u, v)
    <3>1. LinkedEdges(tours') = LinkedEdges(tours) \cup {{u, v}} /\ ~Connected(LinkedEdges(tours), u, v)
      BY <2>1, LinkStep
    <3>2. \A E : Linked!Connected(E, u, v) <=> Connected(E, u, v)
      BY DEF Linked!Connected, Linked!Component, Linked!ClosedSets, Connected, Component, ClosedSets
    <3>3. QED
      BY <3>1, <3>2 DEF Linked!Link, Linked!EttLink
  <2>2. ASSUME NEW u \in Nodes, NEW v \in Nodes, Cut(u, v)
        PROVE  Linked!Cut(u, v)
    BY <2>2, CutStep DEF Linked!Cut, Linked!EttCut
  <2>3. CASE tours' = tours
    BY <2>3
  <2>4. QED
    BY <2>1, <2>2, <2>3, UpdateStep DEF Next, vars, Linked!Next
<1>3. QED
  BY <1>1, <1>2, Invariance, PTL DEF Spec, ImplementsForest

\* is_connected() and cc_query() answer the trees of the linked edges.
THEOREM AlwaysAnswers == Spec => []QueriesAnswerTrees
<1>1. IInv => QueriesAnswerTrees
  <2> SUFFICES ASSUME IInv
               PROVE  QueriesAnswerTrees
    OBVIOUS
  <2> DEFINE L == LinkedEdges(tours)
  <2>1. \A v \in Nodes : Sketchless!GetTour(v) = GetTour(v)
    BY DEF Sketchless!GetTour, GetTour, Caller, Sketchless!TourOf, TourOf, Sketchless!Listed, Listed
  <2>2. \A v \in Nodes : VerticesOf(GetTour(v)) = Component(L, v)
    BY VertexTour
  <2> HIDE DEF L
  <2>3. Sketchless!CcQuery = Components(L)
    <3>1. \A v \in Nodes : Sketchless!VerticesOf(Sketchless!GetTour(v)) = Component(L, v)
      BY <2>1, <2>2 DEF Sketchless!VerticesOf, VerticesOf, Sketchless!Listed, Listed
    <3>2. QED
      BY <3>1 DEF Sketchless!CcQuery, Components
  <2>4. ASSUME NEW u \in Nodes, NEW v \in Nodes
        PROVE  Sketchless!IsConnected(u, v) <=> Connected(L, u, v)
    <3>1. Sketchless!IsConnected(u, v) <=> GetTour(u) = GetTour(v)
      BY <2>1 DEF Sketchless!IsConnected
    <3>2. v \in VerticesOf(GetTour(v)) /\ GetTour(u) \in tours
      BY VertexTour
    <3>3. v \in VerticesOf(GetTour(u)) => GetTour(u) = GetTour(v)
      BY <3>2, VertexTour
    <3>4. QED
      BY <3>1, <3>2, <3>3, <2>2 DEF Connected
  <2>5. QED
    BY <2>3, <2>4 DEF QueriesAnswerTrees, L
<1>2. QED
  BY <1>1, Invariance, PTL

\* Without the sketches, the tree of a tier moves as the query forest of the MPI engine.
THEOREM SketchlessRefinement == Spec => ImplementsSketchless
<1>1. Init => Sketchless!Init
  <2> SUFFICES ASSUME Init
               PROVE  Sketchless!Init
    OBVIOUS
  <2>1. \A v \in Nodes : Sketchless!NewNode(v) = [edges |-> {Sentinel(v)}, allowed_caller |-> Sentinel(v)]
    BY DEF Sketchless!NewNode, Sketchless!MakeEdge, Sketchless!NoCaller, Sketchless!Sentinel, Sentinel
  <2>2. tours = {<<Sketchless!Sentinel(v)>> : v \in Nodes}
    BY DEF Init, Sketchless!Sentinel, Sentinel
  <2>3. ett_nodes = [v \in Nodes |-> Sketchless!NewNode(v)]
    BY <2>1 DEF Init
  <2>4. QED
    BY <2>2, <2>3 DEF Sketchless!Init
<1>2. IInv /\ [Next]_vars => [Sketchless!Next]_(Sketchless!vars)
  <2> SUFFICES ASSUME IInv, [Next]_vars
               PROVE  [Sketchless!Next]_(Sketchless!vars)
    OBVIOUS
  <2>1. ASSUME NEW u \in Nodes, NEW v \in Nodes, Link(u, v) \/ Cut(u, v)
        PROVE  Sketchless!Next
    <3>1. Sketchless!Link(u, v) \/ Sketchless!Cut(u, v)
      BY <2>1, LinkStep, CutStep
    <3>2. QED
      BY <3>1 DEF Sketchless!Next
  <2>2. CASE UNCHANGED <<tours, ett_nodes>>
    BY <2>2 DEF Sketchless!vars
  <2>3. QED
    BY <2>1, <2>2 DEF Next, vars, UpdateSketch, UpdateSketches
<1>3. QED
  BY <1>1, <1>2, Invariance, PTL DEF Spec, ImplementsSketchless, Sketchless!Spec

=============================================================================
