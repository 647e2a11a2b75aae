-------------------------- MODULE StreamReadersProofs --------------------------
(***************************************************************************)
(* The readers of one stream share it out without loss or repetition, for  *)
(* any number of readers, any length of the file and any buffer size.      *)
(***************************************************************************)
EXTENDS StreamReaders, FiniteSetTheorems, TLAPS

\* The numbers of the module, and how far beyond the end of the file an offset may be.
LEMMA Numbers ==
    /\ NumEdges \in Nat /\ BufSize \in Nat /\ BufSize > 0
    /\ Cardinality(Readers) \in Nat /\ Cardinality(Readers) > 0
    /\ BufSize * Cardinality(Readers) \in Nat
    /\ NoQuery = NumEdges + BufSize * Cardinality(Readers) + BufSize
    /\ NoQuery \in Nat /\ NoQuery > NumEdges
<1>1. NumEdges \in Nat /\ BufSize \in Nat /\ BufSize > 0 /\ IsFiniteSet(Readers) /\ Readers # {}
  BY StreamAssumption
<1> DEFINE c == Cardinality(Readers)
<1>2. c \in Nat /\ c # 0
  BY <1>1, FS_CardinalityType, FS_EmptySet
<1>3. NoQuery = NumEdges + BufSize * (c + 1)
  BY DEF NoQuery
<1> HIDE DEF c
<1>4. BufSize * c \in Nat /\ BufSize * (c + 1) = BufSize * c + BufSize
  BY <1>1, <1>2
<1>5. c > 0
  BY <1>2
<1>6. QED
  BY <1>1, <1>2, <1>3, <1>4, <1>5 DEF c

\* The bound of OffsetInv, when the readers S of it change.
LEMMA BufferBound ==
    ASSUME NEW S \in SUBSET Readers
    PROVE  /\ Cardinality(S) \in Nat /\ BufSize * Cardinality(S) \in Nat
           /\ BufSize * Cardinality(S) <= BufSize * Cardinality(Readers)
           /\ \A r \in Readers \ S :
                 BufSize * Cardinality(S \cup {r}) = BufSize * Cardinality(S) + BufSize
           /\ S # {} => BufSize * Cardinality(S) >= BufSize
<1>1. /\ IsFiniteSet(S) /\ Cardinality(S) \in Nat /\ Cardinality(S) <= Cardinality(Readers)
      /\ Cardinality(Readers) \in Nat /\ BufSize \in Nat
  BY StreamAssumption, FS_Subset, FS_CardinalityType
<1>2. \A r \in Readers \ S : Cardinality(S \cup {r}) = Cardinality(S) + 1
  BY <1>1, FS_AddElement
<1>3. S # {} => Cardinality(S) >= 1
  BY <1>1, FS_EmptySet
<1>4. \A m, n \in Nat : m <= n => BufSize * m \in Nat /\ BufSize * m <= BufSize * n
  BY <1>1
<1>5. \A m \in Nat : BufSize * (m + 1) = BufSize * m + BufSize /\ BufSize * 1 = BufSize
  BY <1>1
<1>6. QED
  BY <1>1, <1>2, <1>3, <1>4, <1>5

\* A larger set of readers that may still claim raises the bound.
LEMMA BufferMonotone ==
    ASSUME NEW S \in SUBSET Readers, NEW T \in SUBSET S
    PROVE  BufSize * Cardinality(T) <= BufSize * Cardinality(S)
<1>1. /\ Cardinality(S) \in Nat /\ Cardinality(T) \in Nat /\ Cardinality(T) <= Cardinality(S)
      /\ BufSize \in Nat
  BY StreamAssumption, FS_Subset, FS_CardinalityType
<1>2. \A m, n \in Nat : m <= n => BufSize * m <= BufSize * n
  BY <1>1
<1>3. QED
  BY <1>1, <1>2

\* Moving a reader changes nothing else about it or about the others.
LEMMA MoveFacts ==
    ASSUME TypeOK, NEW r \in Readers, NEW pc, Move(r, pc)
    PROVE  /\ reader' \in [Readers -> [pc : {"paused", "ready", "block?", "end?", "query?",
                                             "claim", "claimed"} \cup {pc},
                                       next : 0 .. NoQuery, end : 0 .. NoQuery]]
           /\ reader'[r].pc = pc
           /\ reader'[r].next = reader[r].next /\ reader'[r].end = reader[r].end
           /\ \A q \in Readers \ {r} : reader'[q] = reader[q]
  BY DEF TypeOK, Move

\* A paused reader is not past the test for the end of the file.
LEMMA PausedOffset ==
    ASSUME AllPaused, TypeOK
    PROVE  /\ Passed = {}
           /\ NumEdges < NumEdges + BufSize * Cardinality(Readers \ Passed)
<1>1. Passed = {}
  BY DEF AllPaused, At, Passed
<1>2. Readers \ Passed = Readers
  BY <1>1
<1>3. BufSize * Cardinality(Readers) >= BufSize
  BY StreamAssumption, BufferBound
<1>4. QED
  BY <1>1, <1>2, <1>3, Numbers, BufferBound

\* The readers cannot run away beyond the end of the file.
LEMMA OffsetStep ==
    ASSUME IInv, [Next]_vars
    PROVE  OffsetInv'
<1> DEFINE Bound(S) == NumEdges + BufSize * Cardinality(Readers \ S)
<1>t. /\ stream_off \in Nat /\ query_index \in Nat /\ stream_off < Bound(Passed)
      /\ NumEdges \in Nat /\ BufSize \in Nat /\ BufSize > 0 /\ NoQuery \in Nat
      /\ Passed \in SUBSET Readers
  BY Numbers DEF IInv, TypeOK, OffsetInv, Passed
<1>b. ASSUME NEW S \in SUBSET Readers
      PROVE  /\ Bound(S) \in Nat /\ Bound(S) >= NumEdges
             /\ S # Readers => Bound(S) > NumEdges
             /\ \A r \in S : Bound(S \ {r}) = Bound(S) + BufSize
             /\ \A T \in SUBSET S : Bound(S) <= Bound(T)
  <2>1. /\ BufSize * Cardinality(Readers \ S) \in Nat
        /\ (Readers \ S # {} => BufSize * Cardinality(Readers \ S) >= BufSize)
    BY BufferBound
  <2>2. ASSUME NEW r \in S
        PROVE  BufSize * Cardinality(Readers \ (S \ {r})) = BufSize * Cardinality(Readers \ S) + BufSize
    <3>1. Readers \ (S \ {r}) = (Readers \ S) \cup {r} /\ r \in Readers \ (Readers \ S)
      OBVIOUS
    <3>2. QED
      BY <3>1, BufferBound
  <2>3. ASSUME NEW T \in SUBSET S
        PROVE  BufSize * Cardinality(Readers \ S) <= BufSize * Cardinality(Readers \ T)
    BY BufferMonotone
  <2>4. \A T \in SUBSET S : BufSize * Cardinality(Readers \ T) \in Nat
    BY BufferBound
  <2>5. S # Readers => Readers \ S # {}
    OBVIOUS
  <2>6. /\ Bound(S) \in Nat /\ Bound(S) >= NumEdges
        /\ S # Readers => Bound(S) > NumEdges
    <3> DEFINE b == BufSize * Cardinality(Readers \ S)
    <3>1. /\ b \in Nat /\ (S # Readers => b >= BufSize)
          /\ Bound(S) = NumEdges + b
      BY <2>1, <2>5
    <3> HIDE DEF b, Bound
    <3>2. QED
      BY <1>t, <3>1
  <2>7. ASSUME NEW r \in S
        PROVE  Bound(S \ {r}) = Bound(S) + BufSize
    <3> DEFINE b == BufSize * Cardinality(Readers \ S)
    <3>1. b \in Nat /\ Bound(S) = NumEdges + b /\ Bound(S \ {r}) = NumEdges + (b + BufSize)
      BY <2>1, <2>2
    <3> HIDE DEF b, Bound
    <3>2. QED
      BY <1>t, <3>1
  <2>8. ASSUME NEW T \in SUBSET S
        PROVE  Bound(S) <= Bound(T)
    <3> DEFINE b == BufSize * Cardinality(Readers \ S)
               d == BufSize * Cardinality(Readers \ T)
    <3>1. /\ b \in Nat /\ d \in Nat /\ b <= d
          /\ Bound(S) = NumEdges + b /\ Bound(T) = NumEdges + d
      BY <2>1, <2>3, <2>4
    <3> HIDE DEF b, d, Bound
    <3>2. QED
      BY <1>t, <3>1
  <2>9. QED
    BY <2>6, <2>7, <2>8
<1>i. OffsetInv' <=> stream_off' < Bound(Passed')
  BY DEF OffsetInv
<1>p. Passed' \in SUBSET Readers
  BY DEF Passed
<1> HIDE DEF Bound
<1>k. ASSUME stream_off' = stream_off, Passed' \subseteq Passed
      PROVE  OffsetInv'
  <2>1. Bound(Passed) <= Bound(Passed') /\ Bound(Passed) \in Nat /\ Bound(Passed') \in Nat
    BY <1>b, <1>k, <1>p, <1>t
  <2>2. QED
    BY <1>i, <1>k, <1>t, <2>1
<1>q. ASSUME stream_off' \in Nat, stream_off' <= NumEdges, Passed' # Readers
      PROVE  OffsetInv'
  BY <1>b, <1>i, <1>p, <1>q, <1>t
<1>1. ASSUME NEW r \in Readers, GetEdge(r)
      PROVE  OffsetInv'
  <2>1. stream_off' = stream_off /\ Passed' \subseteq Passed
    BY <1>1 DEF GetEdge, Move, At, Passed, IInv, TypeOK
  <2>2. QED
    BY <1>k, <2>1
<1>2. ASSUME NEW r \in Readers, TestBlock(r) \/ TestQuery(r) \/ Drop(r) \/ Read(r)
      PROVE  OffsetInv'
  <2>1. stream_off' = stream_off /\ Passed' \subseteq Passed
    BY <1>2 DEF TestBlock, TestQuery, Drop, Read, Fill, BreakPoint, Move, At, Passed, IInv, TypeOK
  <2>2. QED
    BY <1>k, <2>1
<1>3. ASSUME NEW r \in Readers, TestEnd(r)
      PROVE  OffsetInv'
  <2>1. CASE stream_off >= NumEdges
    <3>1. stream_off' = stream_off /\ Passed' \subseteq Passed
      BY <1>3, <2>1 DEF TestEnd, BreakPoint, Move, At, Passed, IInv, TypeOK
    <3>2. QED
      BY <1>k, <3>1
  <2>2. CASE stream_off < NumEdges
    BY <1>3, <1>b, <1>i, <1>p, <1>t, <2>2 DEF TestEnd
  <2>3. QED
    BY <1>t, <2>1, <2>2
<1>4. ASSUME NEW r \in Readers, Claim(r)
      PROVE  OffsetInv'
  <2>1. stream_off' = stream_off + BufSize /\ r \in Passed /\ Passed' = Passed \ {r}
    BY <1>4 DEF Claim, At, Passed, IInv, TypeOK
  <2>2. Bound(Passed') = Bound(Passed) + BufSize /\ Bound(Passed) \in Nat
    BY <1>b, <1>t, <2>1
  <2>3. QED
    BY <1>i, <1>t, <2>1, <2>2
<1>5. ASSUME NEW r \in Readers, GiveBack(r) \/ ReadToQuery(r)
      PROVE  OffsetInv'
  <2>1. At(r, "claimed") /\ stream_off' = query_index
    BY <1>5 DEF GiveBack, ReadToQuery
  <2>2. query_index < reader[r].end
    BY <1>5, <1>t, <2>1 DEF GiveBack, ReadToQuery, IInv, SetBackInv, TypeOK
  <2>3. stream_off' <= stream_off /\ stream_off' \in Nat
    BY <1>t, <2>1, <2>2 DEF IInv, SetBackInv
  <2>4. Passed' \subseteq Passed
    BY <1>5 DEF GiveBack, ReadToQuery, BreakPoint, Fill, Move, At, Passed, IInv, TypeOK
  <2>5. Bound(Passed) <= Bound(Passed') /\ Bound(Passed) \in Nat /\ Bound(Passed') \in Nat
    BY <1>b, <1>p, <1>t, <2>4
  <2>6. QED
    BY <1>i, <1>t, <2>3, <2>5
<1>6. CASE OnDemandQuery \/ (\E idx \in 1 .. NoQuery - 1 : RegisterQuery(idx)) \/ PostQueryResume
  BY <1>6, <1>k DEF OnDemandQuery, RegisterQuery, PostQueryResume, Passed
<1>7. CASE StreamReset
  <2>1. Passed' = {} /\ stream_off' = 0
    BY <1>7, PausedOffset DEF StreamReset, IInv, Passed
  <2>2. QED
    BY <1>q, <1>t, <2>1, StreamAssumption
<1>8. CASE Resume
  <2>1. Passed' = {} /\ stream_off' = stream_off
    BY <1>8 DEF Resume, Passed
  <2>2. QED
    BY <1>k, <2>1
<1>9. CASE UNCHANGED vars
  BY <1>9, <1>k DEF vars, Passed
<1>10. QED
  BY <1>1, <1>2, <1>3, <1>4, <1>5, <1>6, <1>7, <1>8, <1>9 DEF Next, ReadData


\* A step that leaves the offset, the query and what is claimed keeps SetBackInv.
LEMMA SameClaims ==
    ASSUME SetBackInv, UNCHANGED <<stream_off, query_index>>,
           \A r \in Readers : At(r, "claimed") <=> At(r, "claimed")',
           \A r \in Readers : At(r, "claimed") => reader'[r] = reader[r]
    PROVE  SetBackInv'
<1>1. /\ stream_off' = stream_off /\ query_index' = query_index
      /\ \A r \in Readers : At(r, "claimed")' => At(r, "claimed") /\ reader'[r] = reader[r]
      /\ \A r \in Readers : At(r, "claimed") => At(r, "claimed")' /\ reader'[r] = reader[r]
  OBVIOUS
<1>2. QED
  BY <1>1, Zenon DEF SetBackInv

\* The offset a reader sets back is the one query that others see.
LEMMA SetBackStep ==
    ASSUME IInv, [Next]_vars
    PROVE  SetBackInv'
<1>t. /\ stream_off \in Nat /\ query_index \in 1 .. NoQuery
      /\ stream_off < NoQuery /\ query_index \in Nat
      /\ NumEdges \in Nat /\ BufSize \in Nat /\ BufSize > 0 /\ NoQuery \in Nat
      /\ NumEdges < NoQuery
      /\ \A r \in Readers : reader[r].next \in Nat /\ reader[r].end \in Nat
      /\ SetBackInv /\ TypeOK
  BY Numbers DEF IInv, TypeOK
<1>p. AllPaused => /\ stream_off <= query_index \/ query_index > NumEdges
                   /\ \A r \in Readers : ~ At(r, "claimed")
  BY <1>t DEF AllPaused, At, SetBackInv
<1>n. ASSUME \A r \in Readers : ~ At(r, "claimed")', stream_off' \in Nat, query_index' \in Nat,
             stream_off' <= query_index' \/ query_index' > NumEdges
      PROVE  SetBackInv'
  BY <1>n, <1>t DEF SetBackInv
<1>1. ASSUME NEW r \in Readers, GetEdge(r)
      PROVE  SetBackInv'
  <2>1. /\ stream_off' = stream_off /\ query_index' = query_index
        /\ ~ At(r, "claimed") /\ ~ At(r, "claimed")'
        /\ \A q \in Readers \ {r} : reader'[q] = reader[q]
    BY <1>1, <1>t DEF GetEdge, Move, At, TypeOK
  <2>2. QED
    BY <1>t, <2>1, SameClaims DEF At
<1>2. ASSUME NEW r \in Readers, TestBlock(r) \/ TestEnd(r) \/ TestQuery(r)
      PROVE  SetBackInv'
  <2>1. /\ stream_off' = stream_off /\ query_index' = query_index
        /\ ~ At(r, "claimed") /\ ~ At(r, "claimed")'
        /\ \A q \in Readers \ {r} : reader'[q] = reader[q]
    BY <1>2, <1>t DEF TestBlock, TestEnd, TestQuery, BreakPoint, Move, At, TypeOK
  <2>2. QED
    BY <1>t, <2>1, SameClaims DEF At
<1>3. ASSUME NEW r \in Readers, Claim(r)
      PROVE  SetBackInv'
  <2>1. /\ stream_off' = stream_off + BufSize /\ query_index' = query_index
        /\ reader'[r] = [pc |-> "claimed", next |-> stream_off, end |-> stream_off + BufSize]
        /\ \A q \in Readers \ {r} : reader'[q] = reader[q]
    BY <1>3, <1>t DEF Claim, TypeOK
  <2>2. ASSUME NEW q \in Readers, At(q, "claimed")'
        PROVE  /\ reader'[q].end = reader'[q].next + BufSize
               /\ reader'[q].end > query_index' => stream_off' >= query_index'
    BY <1>t, <2>1, <2>2 DEF SetBackInv, At
  <2>3. At(r, "claimed")' /\ reader'[r].end = stream_off'
    BY <2>1 DEF At
  <2>4. QED
    BY <1>t, <2>1, <2>2, <2>3 DEF SetBackInv
<1>4. ASSUME NEW r \in Readers, GiveBack(r) \/ ReadToQuery(r)
      PROVE  SetBackInv'
  <2>1. /\ stream_off' = query_index /\ query_index' = query_index
        /\ ~ At(r, "claimed")'
        /\ \A q \in Readers \ {r} : reader'[q] = reader[q]
    BY <1>4, <1>t DEF GiveBack, ReadToQuery, BreakPoint, Fill, Move, At, TypeOK
  <2>2. \A q \in Readers : At(q, "claimed")' => At(q, "claimed") /\ reader'[q] = reader[q]
    BY <2>1 DEF At
  <2>3. QED
    BY <1>t, <2>1, <2>2 DEF SetBackInv
<1>5. ASSUME NEW r \in Readers, Drop(r) \/ Read(r)
      PROVE  SetBackInv'
  <2>1. /\ stream_off' = stream_off /\ query_index' = query_index
        /\ ~ At(r, "claimed")'
        /\ \A q \in Readers \ {r} : reader'[q] = reader[q]
    BY <1>5, <1>t DEF Drop, Read, BreakPoint, Fill, Move, At, TypeOK
  <2>2. \A q \in Readers : At(q, "claimed")' => At(q, "claimed") /\ reader'[q] = reader[q]
    BY <2>1 DEF At
  <2>3. query_index <= NumEdges => ~ (reader[r].end > query_index)
    <3>1. CASE Drop(r)
      BY <1>t, <3>1 DEF Drop
    <3>2. CASE Read(r)
      BY <1>t, <3>2 DEF Read
    <3>3. QED
      BY <1>5, <3>1, <3>2
  <2>4. \A q \in Readers : At(q, "claimed") /\ q # r => At(q, "claimed")' /\ reader'[q] = reader[q]
    BY <2>1 DEF At
  <2>5. QED
    BY <1>t, <2>1, <2>2, <2>3, <2>4 DEF SetBackInv
<1>6. CASE OnDemandQuery
  BY <1>6, <1>t, SameClaims DEF OnDemandQuery, At
<1>7. ASSUME NEW idx \in 1 .. NoQuery - 1, RegisterQuery(idx)
      PROVE  SetBackInv'
  BY <1>7, <1>n, <1>p, <1>t DEF RegisterQuery, At
<1>8. CASE PostQueryResume
  BY <1>8, <1>n, <1>p, <1>t DEF PostQueryResume, At
<1>9. CASE StreamReset
  BY <1>9, <1>n, <1>p, <1>t DEF StreamReset, At
<1>10. CASE Resume
  <2>1. \A r \in Readers : ~ At(r, "claimed")'
    BY <1>10 DEF Resume, At
  <2>2. QED
    BY <1>10, <1>n, <1>p, <1>t, <2>1 DEF Resume
<1>11. CASE UNCHANGED vars
  BY <1>11, <1>t, SameClaims DEF vars, At
<1>12. QED
  BY <1>1, <1>2, <1>3, <1>4, <1>5, <1>6, <1>7, <1>8, <1>9, <1>10, <1>11 DEF Next, ReadData


\* A step that moves neither the frontier nor anything that is due or given.
LEMMA QuietStep ==
    ASSUME SharesInv, given' = given, Frontier' = Frontier,
           \A r \in Readers : Due(r)' = Due(r)
    PROVE  SharesInv'
  BY DEF SharesInv

\* Of a reader that is neither at a buffer nor at a claim, nothing is due.
LEMMA NothingDue ==
    ASSUME NEW r \in Readers
    PROVE  /\ ~ At(r, "ready") /\ ~ At(r, "claimed") => Due(r) = {}
           /\ ~ At(r, "ready")' /\ ~ At(r, "claimed")' => Due(r)' = {}
           /\ reader'[r] = reader[r] /\ query_index' = query_index => Due(r)' = Due(r)
  BY DEF Due, Held, At

\* What a reader claims extends what is before the frontier, by all that the frontier moves.
LEMMA ClaimShare ==
    ASSUME NEW s \in Nat, NEW q \in Nat, NEW e \in Nat, NEW b \in Nat \ {0}
    PROVE  LET new == s .. Least(Least(s + b, q), e) - 1
               old == 0 .. Least(Least(s, q), e) - 1
           IN  /\ 0 .. Least(Least(s + b, q), e) - 1 = old \cup new
               /\ old \cap new = {}
<1>1. CASE s <= q /\ s <= e
  <2>1. Least(Least(s, q), e) = s
    BY <1>1 DEF Least
  <2>2. Least(Least(s + b, q), e) \in Nat /\ Least(Least(s + b, q), e) >= s
    BY <1>1 DEF Least
  <2>3. QED
    BY <2>1, <2>2
<1>2. CASE s > q \/ s > e
  <2>1. /\ Least(Least(s + b, q), e) = Least(Least(s, q), e)
        /\ Least(Least(s, q), e) \in Nat /\ Least(Least(s, q), e) < s
    BY <1>2 DEF Least
  <2>2. QED
    BY <2>1
<1>3. QED
  BY <1>1, <1>2

\* No step loses an update, or gives two readers the same.
LEMMA SharesStep ==
    ASSUME IInv, [Next]_vars
    PROVE  SharesInv'
<1>t. /\ stream_off \in Nat /\ query_index \in 1 .. NoQuery
      /\ stream_off < NoQuery /\ query_index \in Nat
      /\ NumEdges \in Nat /\ BufSize \in Nat /\ BufSize > 0 /\ NoQuery \in Nat
      /\ NumEdges < NoQuery
      /\ \A r \in Readers : /\ reader[r].next \in Nat /\ reader[r].end \in Nat
                            /\ reader[r].next <= reader[r].end
      /\ SharesInv /\ SetBackInv /\ TypeOK
  BY Numbers DEF IInv, TypeOK
<1>p. AllPaused => /\ stream_off <= query_index \/ query_index > NumEdges
                   /\ \A r \in Readers : Due(r) = {} /\ ~ At(r, "ready") /\ ~ At(r, "claimed")
  BY <1>t, NothingDue DEF AllPaused, At, SetBackInv
<1>q. ASSUME NEW r \in Readers, given' = given, Frontier' = Frontier,
             query_index' = query_index, Due(r)' = Due(r),
             \A q \in Readers \ {r} : reader'[q] = reader[q]
      PROVE  SharesInv'
  <2>1. \A q \in Readers : Due(q)' = Due(q)
    BY <1>q, NothingDue
  <2>2. QED
    BY <1>q, <1>t, <2>1, QuietStep
<1>1. ASSUME NEW r \in Readers, GetEdge(r)
      PROVE  SharesInv'
  <2>0. /\ \A q \in Readers \ {r} : reader'[q] = reader[q]
        /\ query_index' = query_index /\ Frontier' = Frontier
    BY <1>1, <1>t DEF GetEdge, Move, Frontier, TypeOK
  <2>1. CASE reader[r].next < reader[r].end
    <3> DEFINE x == reader[r].next
    <3>1. /\ given' = given \cup {x}
          /\ At(r, "ready") /\ At(r, "ready")'
          /\ reader'[r].next = x + 1 /\ reader'[r].end = reader[r].end
      BY <1>1, <1>t, <2>1 DEF GetEdge, At, TypeOK
    <3>2. Due(r) = x .. reader[r].end - 1 /\ Due(r)' = (x + 1) .. reader[r].end - 1
      BY <3>1 DEF Due, Held, At
    <3>3. x \in Due(r) /\ Due(r)' = Due(r) \ {x}
      BY <1>t, <2>1, <3>2
    <3> HIDE DEF x
    <3>4. \A q \in Readers \ {r} : Due(q)' = Due(q)
      BY <2>0, NothingDue
    <3>5. \A q \in Readers \ {r} : x \notin Due(q)
      BY <1>t, <3>3 DEF SharesInv
    <3>6. /\ given' \subseteq 0 .. Frontier' - 1
          /\ \A q \in Readers : Due(q)' \subseteq 0 .. Frontier' - 1
      <4>1. /\ given \subseteq 0 .. Frontier - 1 /\ Frontier' = Frontier
            /\ \A q \in Readers : Due(q) \subseteq 0 .. Frontier - 1
        BY <1>t, <2>0 DEF SharesInv
      <4>2. \A q \in Readers : Due(q)' \subseteq Due(q)
        BY <3>3, <3>4
      <4>3. QED
        BY <3>1, <3>3, <4>1, <4>2
    <3>7. \A y \in 0 .. Frontier' - 1 : y \in given' \/ \E q \in Readers : y \in Due(q)'
      <4>1. TAKE y \in 0 .. Frontier' - 1
      <4>2. y \in given \/ \E q \in Readers : y \in Due(q)
        BY <1>t, <2>0 DEF SharesInv
      <4>3. QED
        BY <3>1, <3>3, <3>4, <4>2
    <3>8. \A q \in Readers : /\ Due(q)' \cap given' = {}
                             /\ \A p \in Readers \ {q} : Due(q)' \cap Due(p)' = {}
      <4>1. TAKE q \in Readers
      <4>2. Due(q)' \cap given' = {}
        BY <1>t, <3>1, <3>3, <3>4, <3>5 DEF SharesInv
      <4>3. ASSUME NEW p \in Readers \ {q}
            PROVE  Due(q)' \cap Due(p)' = {}
        <5>1. Due(q)' \subseteq Due(q) /\ Due(p)' \subseteq Due(p)
          BY <3>3, <3>4
        <5>2. Due(q) \cap Due(p) = {}
          BY <1>t, Zenon DEF SharesInv
        <5>3. QED
          BY <5>1, <5>2
      <4>4. QED
        BY <4>2, <4>3
    <3>9. QED
      BY <3>6, <3>7, <3>8 DEF SharesInv
  <2>2. CASE ~ (reader[r].next < reader[r].end)
    <3>1. given' = given /\ At(r, "ready") /\ At(r, "block?")'
      BY <1>1, <1>t, <2>2 DEF GetEdge, Move, At, TypeOK
    <3>2. Due(r) = {}
      BY <1>t, <2>2, <3>1 DEF Due, Held, At
    <3>3. Due(r)' = {}
      BY <3>1, NothingDue DEF At
    <3>4. QED
      BY <1>q, <2>0, <3>1, <3>2, <3>3
  <2>3. QED
    BY <2>1, <2>2
<1>2. ASSUME NEW r \in Readers, TestBlock(r) \/ TestEnd(r) \/ TestQuery(r)
      PROVE  SharesInv'
  <2>1. /\ \A q \in Readers \ {r} : reader'[q] = reader[q]
        /\ query_index' = query_index /\ stream_off' = stream_off /\ given' = given
        /\ ~ At(r, "ready") /\ ~ At(r, "claimed")
        /\ ~ At(r, "ready")' /\ ~ At(r, "claimed")'
    BY <1>2, <1>t DEF TestBlock, TestEnd, TestQuery, BreakPoint, Move, At, TypeOK
  <2>2. Frontier' = Frontier /\ Due(r)' = Due(r)
    BY <2>1, NothingDue DEF Frontier
  <2>3. QED
    BY <1>q, <2>1, <2>2
<1>3. ASSUME NEW r \in Readers, Claim(r)
      PROVE  SharesInv'
  <2>1. /\ \A q \in Readers \ {r} : reader'[q] = reader[q]
        /\ query_index' = query_index /\ stream_off' = stream_off + BufSize /\ given' = given
        /\ ~ At(r, "ready") /\ ~ At(r, "claimed")
        /\ reader'[r] = [pc |-> "claimed", next |-> stream_off, end |-> stream_off + BufSize]
    BY <1>3, <1>t DEF Claim, At, TypeOK
  <2> DEFINE old == 0 .. Frontier - 1
             new == stream_off .. Least(Least(stream_off + BufSize, query_index), NumEdges) - 1
  <2>2. 0 .. Frontier' - 1 = old \cup new /\ old \cap new = {}
    <3>1. Frontier' = Least(Least(stream_off + BufSize, query_index), NumEdges)
      BY <2>1 DEF Frontier
    <3>2. BufSize \in Nat \ {0}
      BY <1>t
    <3>3. /\ 0 .. Least(Least(stream_off + BufSize, query_index), NumEdges) - 1 = old \cup new
          /\ old \cap new = {}
      BY <1>t, <3>2, ClaimShare DEF Frontier
    <3>4. QED
      BY <3>1, <3>3
  <2>3. Due(r) = {} /\ Due(r)' = new
    BY <2>1, NothingDue DEF Due, At
  <2>4. \A q \in Readers \ {r} : Due(q)' = Due(q)
    BY <2>1, NothingDue
  <2>5. /\ given \subseteq old /\ \A q \in Readers : Due(q) \subseteq old
        /\ \A x \in old : x \in given \/ \E q \in Readers : x \in Due(q)
        /\ \A q \in Readers : Due(q) \cap given = {}
        /\ \A q \in Readers : \A p \in Readers \ {q} : Due(q) \cap Due(p) = {}
    BY <1>t, Zenon DEF SharesInv
  <2> HIDE DEF old, new
  <2>6. /\ given' \subseteq 0 .. Frontier' - 1
        /\ \A q \in Readers : Due(q)' \subseteq 0 .. Frontier' - 1
    BY <2>1, <2>2, <2>3, <2>4, <2>5
  <2>7. \A y \in 0 .. Frontier' - 1 : y \in given' \/ \E q \in Readers : y \in Due(q)'
    <3>1. TAKE y \in 0 .. Frontier' - 1
    <3>2. CASE y \in new
      BY <2>3, <3>2
    <3>3. CASE y \in old
      <4>1. y \in given \/ \E q \in Readers \ {r} : y \in Due(q)
        BY <2>3, <2>5, <3>3
      <4>2. QED
        BY <2>1, <2>4, <4>1
    <3>4. QED
      BY <2>2, <3>2, <3>3
  <2>8. \A q \in Readers : Due(q)' \cap given' = {}
    BY <2>1, <2>2, <2>3, <2>4, <2>5
  <2>9. ASSUME NEW q \in Readers, NEW p \in Readers \ {q}
        PROVE  Due(q)' \cap Due(p)' = {}
    <3>1. CASE q = r
      BY <2>2, <2>3, <2>4, <2>5, <3>1
    <3>2. CASE p = r
      BY <2>2, <2>3, <2>4, <2>5, <3>2
    <3>3. CASE q # r /\ p # r
      BY <2>4, <2>5, <3>3
    <3>4. QED
      BY <3>1, <3>2, <3>3
  <2>10. QED
    BY <2>6, <2>7, <2>8, <2>9 DEF SharesInv
<1>4. ASSUME NEW r \in Readers, GiveBack(r) \/ ReadToQuery(r)
      PROVE  SharesInv'
  <2>1. /\ \A q \in Readers \ {r} : reader'[q] = reader[q]
        /\ query_index' = query_index /\ stream_off' = query_index /\ given' = given
        /\ At(r, "claimed")
    BY <1>4, <1>t DEF GiveBack, ReadToQuery, BreakPoint, Fill, Move, At, TypeOK
  <2>2. reader[r].end = reader[r].next + BufSize /\ reader[r].end > query_index
    BY <1>4, <1>t, <2>1 DEF GiveBack, ReadToQuery, SetBackInv
  <2>3. stream_off >= query_index
    BY <1>t, <2>1, <2>2 DEF SetBackInv
  <2>4. Frontier' = Frontier
    BY <1>t, <2>1, <2>3 DEF Frontier, Least
  <2>5. Due(r) = reader[r].next .. Least(query_index, NumEdges) - 1
    BY <1>t, <2>1, <2>2 DEF Due, Least
  <2>6. CASE GiveBack(r)
    <3>1. ~ At(r, "ready")' /\ ~ At(r, "claimed")'
      BY <1>t, <2>6 DEF GiveBack, BreakPoint, Move, At, TypeOK
    <3>2. Due(r) = {}
      <4>1. /\ Least(query_index, NumEdges) \in Nat
            /\ Least(query_index, NumEdges) <= reader[r].next
        BY <1>t, <2>6 DEF GiveBack, Least
      <4>2. QED
        BY <1>t, <2>5, <4>1
    <3>3. QED
      BY <1>q, <2>1, <2>4, <3>1, <3>2, NothingDue
  <2>7. CASE ReadToQuery(r)
    <3>1. /\ At(r, "ready")' /\ reader'[r].next = reader[r].next
          /\ reader'[r].end = Least(query_index, NumEdges)
      BY <1>t, <2>7 DEF ReadToQuery, Fill, At, TypeOK
    <3>2. Due(r)' = reader[r].next .. Least(query_index, NumEdges) - 1
      BY <3>1 DEF Due, Held, At
    <3>3. QED
      BY <1>q, <2>1, <2>4, <2>5, <3>2
  <2>8. QED
    BY <1>4, <2>6, <2>7
<1>5. ASSUME NEW r \in Readers, Drop(r)
      PROVE  SharesInv'
  <2>1. /\ \A q \in Readers \ {r} : reader'[q] = reader[q]
        /\ query_index' = query_index /\ Frontier' = Frontier /\ given' = given
        /\ At(r, "claimed") /\ ~ At(r, "ready")' /\ ~ At(r, "claimed")'
    BY <1>5, <1>t DEF Drop, BreakPoint, Move, At, Frontier, TypeOK
  <2>2. /\ Least(Least(reader[r].end, query_index), NumEdges) \in Nat
        /\ Least(Least(reader[r].end, query_index), NumEdges) <= reader[r].next
    BY <1>5, <1>t DEF Drop, Least
  <2>3. Due(r) = {}
    BY <1>t, <2>1, <2>2 DEF Due
  <2>4. QED
    BY <1>q, <2>1, <2>3, NothingDue
<1>6. ASSUME NEW r \in Readers, Read(r)
      PROVE  SharesInv'
  <2>1. /\ \A q \in Readers \ {r} : reader'[q] = reader[q]
        /\ query_index' = query_index /\ Frontier' = Frontier /\ given' = given
        /\ At(r, "claimed") /\ At(r, "ready")' /\ reader'[r].next = reader[r].next
        /\ reader'[r].end = Least(reader[r].end, NumEdges)
    BY <1>6, <1>t DEF Read, Fill, At, Frontier, TypeOK
  <2>2. Least(reader[r].end, query_index) = reader[r].end
    BY <1>6, <1>t DEF Read, Least
  <2>3. Due(r)' = Due(r)
    BY <2>1, <2>2 DEF Due, Held, At
  <2>4. QED
    BY <1>q, <2>1, <2>3
<1>7. CASE OnDemandQuery \/ UNCHANGED vars
  <2>1. /\ given' = given /\ Frontier' = Frontier /\ reader' = reader
        /\ query_index' = query_index
    BY <1>7 DEF OnDemandQuery, vars, Frontier
  <2>2. \A r \in Readers : Due(r)' = Due(r)
    BY <2>1, NothingDue
  <2>3. QED
    BY <1>t, <2>1, <2>2, QuietStep
<1>8. ASSUME (\E idx \in 1 .. NoQuery - 1 : RegisterQuery(idx)) \/ PostQueryResume \/ Resume
      PROVE  SharesInv'
  <2>1. /\ AllPaused /\ given' = given /\ stream_off' = stream_off
        /\ query_index' \in Nat
        /\ stream_off <= query_index' \/ query_index' > NumEdges
    BY <1>8, <1>p, <1>t DEF RegisterQuery, PostQueryResume, Resume
  <2>2. Frontier' = Frontier
    BY <1>p, <1>t, <2>1 DEF Frontier, Least
  <2>3. ASSUME NEW r \in Readers
        PROVE  Due(r)' = {}
    <3>1. CASE reader' = reader
      BY <1>p, <2>1, <3>1, NothingDue DEF At
    <3>2. CASE Resume
      <4>1. reader'[r] = [pc |-> "ready", next |-> 0, end |-> 0]
        BY <3>2 DEF Resume
      <4>2. QED
        BY <4>1 DEF Due, Held, At
    <3>3. QED
      BY <1>8, <3>1, <3>2 DEF RegisterQuery, PostQueryResume
  <2>4. QED
    BY <1>p, <1>t, <2>1, <2>2, <2>3, QuietStep
<1>9. CASE StreamReset
  <2>1. /\ AllPaused /\ given' = {} /\ reader' = reader /\ stream_off' = 0
        /\ query_index' = query_index
    BY <1>9 DEF StreamReset
  <2>2. Frontier' = 0
    BY <1>t, <2>1 DEF Frontier, Least
  <2>3. \A r \in Readers : Due(r)' = {}
    BY <1>p, <2>1, NothingDue
  <2>4. QED
    BY <2>1, <2>2, <2>3 DEF SharesInv
<1>10. QED
  BY <1>1, <1>2, <1>3, <1>4, <1>5, <1>6, <1>7, <1>8, <1>9 DEF Next, ReadData


\* The types are kept: what a reader claims ends before NoQuery, and it is only given
\* updates of the file.
LEMMA TypeStep ==
    ASSUME IInv, [Next]_vars, OffsetInv', SharesInv'
    PROVE  TypeOK'
<1> DEFINE PCs == {"paused", "ready", "block?", "end?", "query?", "claim", "claimed"}
<1>t. /\ stream_off \in Nat /\ query_index \in 1 .. NoQuery
      /\ query_index \in Nat /\ query_block \in BOOLEAN
      /\ NumEdges \in Nat /\ BufSize \in Nat /\ BufSize > 0 /\ NoQuery \in Nat
      /\ NumEdges < NoQuery /\ TypeOK
  BY Numbers DEF IInv, TypeOK
<1>r. /\ reader \in [Readers -> [pc : PCs, next : 0 .. NoQuery, end : 0 .. NoQuery]]
      /\ \A r \in Readers : reader[r].next <= reader[r].end
  BY <1>t DEF TypeOK
<1>q. /\ query_index' \in 1 .. NoQuery
      /\ query_block' \in BOOLEAN
      /\ stream_off' \in Nat
  <2>1. CASE OnDemandQuery
    BY <1>t, <2>1 DEF OnDemandQuery
  <2>2. CASE \E idx \in 1 .. NoQuery - 1 : RegisterQuery(idx)
    BY <1>t, <2>2 DEF RegisterQuery
  <2>3. CASE PostQueryResume \/ StreamReset \/ Resume \/ UNCHANGED vars
    <3>1. query_index' = query_index \/ query_index' = NoQuery
      BY <2>3 DEF PostQueryResume, StreamReset, Resume, vars
    <3>2. query_block' = query_block \/ query_block' = FALSE
      BY <2>3, Zenon DEF PostQueryResume, StreamReset, Resume, vars
    <3>3. stream_off' = stream_off \/ stream_off' = 0
      BY <2>3 DEF PostQueryResume, StreamReset, Resume, vars
    <3>4. query_index' \in 1 .. NoQuery
      BY <1>t, <3>1
    <3>5. query_block' \in BOOLEAN
      BY <1>t, <3>2, Zenon
    <3>6. QED
      BY <1>t, <3>3, <3>4, <3>5
  <2>4. ASSUME NEW r \in Readers, GetEdge(r) \/ ReadData(r)
        PROVE  /\ query_index' = query_index /\ query_block' = query_block
               /\ \/ stream_off' = stream_off
                  \/ stream_off' = stream_off + BufSize
                  \/ stream_off' = query_index
    BY <2>4 DEF ReadData, GetEdge, TestBlock, TestEnd, TestQuery, Claim, GiveBack, Drop,
                ReadToQuery, Read
  <2>5. CASE \E r \in Readers : GetEdge(r) \/ ReadData(r)
    BY <1>t, <2>4, <2>5
  <2>6. QED
    BY <2>1, <2>2, <2>3, <2>5 DEF Next
<1>o. stream_off' \in 0 .. NoQuery - 1
  <2> DEFINE b == BufSize * Cardinality(Readers \ Passed')
             c == BufSize * Cardinality(Readers)
  <2>1. b \in Nat /\ c \in Nat /\ b <= c /\ NoQuery = NumEdges + c + BufSize
    BY Numbers, BufferBound
  <2>2. stream_off' < NumEdges + b
    BY DEF OffsetInv
  <2> HIDE DEF b, c
  <2>3. QED
    BY <1>q, <1>t, <2>1, <2>2
<1>g. given' \subseteq 0 .. NumEdges - 1
  <2>1. Frontier' \in Int /\ Frontier' <= NumEdges
    BY <1>q, <1>t DEF Frontier, Least
  <2>2. given' \subseteq 0 .. Frontier' - 1
    BY DEF SharesInv
  <2> DEFINE f == Frontier'
  <2>3. f \in Int /\ f <= NumEdges /\ given' \subseteq 0 .. f - 1
    BY <2>1, <2>2
  <2> HIDE DEF f
  <2>4. QED
    BY <1>t, <2>3
<1>i. ASSUME reader' \in [Readers -> [pc : PCs, next : 0 .. NoQuery, end : 0 .. NoQuery]],
             \A r \in Readers : reader'[r].next <= reader'[r].end
      PROVE  TypeOK'
  BY <1>g, <1>i, <1>o, <1>q DEF TypeOK
<1>u. ASSUME NEW r \in Readers, NEW rec, reader' = [reader EXCEPT ![r] = rec],
             rec \in [pc : PCs, next : 0 .. NoQuery, end : 0 .. NoQuery],
             rec.next <= rec.end
      PROVE  TypeOK'
  <2> DEFINE Recs == [pc : PCs, next : 0 .. NoQuery, end : 0 .. NoQuery]
  <2>0. reader \in [Readers -> Recs] /\ rec \in Recs
    BY <1>r, <1>u
  <2> HIDE DEF Recs
  <2>1. /\ reader'[r] = rec /\ \A q \in Readers \ {r} : reader'[q] = reader[q]
        /\ reader' \in [Readers -> Recs]
    BY <1>u, <2>0
  <2>2. \A q \in Readers : reader'[q].next <= reader'[q].end
    BY <1>r, <1>u, <2>1
  <2>3. QED
    BY <1>i, <2>1, <2>2 DEF Recs
<1>m. ASSUME NEW r \in Readers, NEW pc \in PCs, Move(r, pc)
      PROVE  TypeOK'
  <2>1. reader' = [reader EXCEPT ![r] = [reader[r] EXCEPT !.pc = pc]]
    BY <1>m DEF Move
  <2>2. [reader[r] EXCEPT !.pc = pc] \in [pc : PCs, next : 0 .. NoQuery, end : 0 .. NoQuery]
    BY <1>r
  <2>3. [reader[r] EXCEPT !.pc = pc].next <= [reader[r] EXCEPT !.pc = pc].end
    BY <1>r
  <2>4. QED
    BY <1>u, <2>1, <2>2, <2>3
<1>f. ASSUME NEW r \in Readers, NEW e \in 0 .. NoQuery, Fill(r, e),
             reader[r].next < NumEdges, reader[r].next <= e
      PROVE  TypeOK'
  <2>1. Least(e, NumEdges) \in 0 .. NoQuery /\ reader[r].next <= Least(e, NumEdges)
    BY <1>f, <1>r, <1>t DEF Least
  <2> DEFINE l == Least(e, NumEdges)
             Recs == [pc : PCs, next : 0 .. NoQuery, end : 0 .. NoQuery]
  <2>2. /\ l \in 0 .. NoQuery
        /\ reader' = [reader EXCEPT ![r].pc = "ready", ![r].end = l]
    BY <1>f, <2>1 DEF Fill
  <2> HIDE DEF l
  <2>3. /\ reader' \in [Readers -> Recs]
        /\ reader'[r].next = reader[r].next /\ reader'[r].end = l
        /\ \A q \in Readers \ {r} : reader'[q] = reader[q]
    BY <1>r, <2>2
  <2>4. \A q \in Readers : reader'[q].next <= reader'[q].end
    BY <1>r, <2>1, <2>3 DEF l
  <2>5. QED
    BY <1>i, <2>3, <2>4
<1> HIDE DEF PCs
<1>1. ASSUME NEW r \in Readers, GetEdge(r)
      PROVE  TypeOK'
  <2>1. CASE reader[r].next < reader[r].end
    <3>1. reader' = [reader EXCEPT ![r] = [reader[r] EXCEPT !.next = @ + 1]]
      BY <1>1, <2>1 DEF GetEdge
    <3>2. /\ [reader[r] EXCEPT !.next = @ + 1]
                \in [pc : PCs, next : 0 .. NoQuery, end : 0 .. NoQuery]
          /\ [reader[r] EXCEPT !.next = @ + 1].next <= [reader[r] EXCEPT !.next = @ + 1].end
      BY <1>r, <1>t, <2>1
    <3>3. QED
      BY <1>u, <3>1, <3>2
  <2>2. CASE ~ (reader[r].next < reader[r].end)
    BY <1>1, <1>m, <2>2 DEF GetEdge, PCs
  <2>3. QED
    BY <2>1, <2>2
<1>2. ASSUME NEW r \in Readers, TestBlock(r) \/ TestEnd(r) \/ TestQuery(r) \/ GiveBack(r) \/ Drop(r)
      PROVE  TypeOK'
  <2>1. \E pc \in PCs : Move(r, pc)
    BY <1>2 DEF TestBlock, TestEnd, TestQuery, GiveBack, Drop, BreakPoint, PCs
  <2>2. QED
    BY <1>m, <2>1
<1>3. ASSUME NEW r \in Readers, Claim(r)
      PROVE  TypeOK'
  <2> DEFINE rec == [pc |-> "claimed", next |-> stream_off, end |-> stream_off + BufSize]
  <2>1. reader' = [reader EXCEPT ![r] = rec] /\ stream_off' = stream_off + BufSize
    BY <1>3 DEF Claim
  <2>2. stream_off + BufSize \in 0 .. NoQuery /\ stream_off \in 0 .. NoQuery
    BY <1>o, <1>t, <2>1
  <2>3. rec \in [pc : PCs, next : 0 .. NoQuery, end : 0 .. NoQuery] /\ rec.next <= rec.end
    BY <1>t, <2>2 DEF PCs
  <2> HIDE DEF rec
  <2>4. QED
    BY <1>u, <2>1, <2>3
<1>4. ASSUME NEW r \in Readers, ReadToQuery(r)
      PROVE  TypeOK'
  <2>1. /\ query_index \in 0 .. NoQuery /\ Fill(r, query_index)
        /\ reader[r].next < NumEdges /\ reader[r].next <= query_index
    BY <1>4, <1>r, <1>t DEF ReadToQuery, Least
  <2>2. QED
    BY <1>f, <2>1
<1>5. ASSUME NEW r \in Readers, Read(r)
      PROVE  TypeOK'
  <2>1. /\ reader[r].end \in 0 .. NoQuery /\ Fill(r, reader[r].end)
        /\ reader[r].next < NumEdges /\ reader[r].next <= reader[r].end
    BY <1>5, <1>r, <1>t DEF Read, Least
  <2>2. QED
    BY <1>f, <2>1
<1>6. CASE Resume
  <2>1. reader' = [r \in Readers |-> [pc |-> "ready", next |-> 0, end |-> 0]]
    BY <1>6 DEF Resume
  <2>2. [pc |-> "ready", next |-> 0, end |-> 0]
            \in [pc : PCs, next : 0 .. NoQuery, end : 0 .. NoQuery]
    BY <1>t DEF PCs
  <2>3. QED
    BY <1>i, <2>1, <2>2
<1>7. ASSUME OnDemandQuery \/ (\E idx \in 1 .. NoQuery - 1 : RegisterQuery(idx)) \/ PostQueryResume
             \/ StreamReset \/ UNCHANGED vars
      PROVE  TypeOK'
  <2>1. reader' = reader
    BY <1>7 DEF OnDemandQuery, RegisterQuery, PostQueryResume, StreamReset, vars
  <2>2. QED
    BY <1>i, <1>r, <2>1
<1>8. QED
  BY <1>1, <1>2, <1>3, <1>4, <1>5, <1>6, <1>7 DEF Next, ReadData

\* All threads begin paused, at the beginning of the file.
LEMMA InitIInv ==
    ASSUME Init
    PROVE  IInv
<1>1. /\ \A r \in Readers : At(r, "paused") /\ reader[r].next = 0 /\ reader[r].end = 0
      /\ AllPaused /\ stream_off = 0 /\ query_index = NoQuery /\ given = {}
  BY DEF Init, At, AllPaused
<1>2. TypeOK
  <2>1. [pc |-> "paused", next |-> 0, end |-> 0]
          \in [pc : {"paused", "ready", "block?", "end?", "query?", "claim", "claimed"},
               next : 0 .. NoQuery, end : 0 .. NoQuery]
    BY Numbers
  <2>2. QED
    <3> DEFINE Recs == [pc : {"paused", "ready", "block?", "end?", "query?", "claim", "claimed"},
                        next : 0 .. NoQuery, end : 0 .. NoQuery]
    <3>1. reader \in [Readers -> Recs]
      BY <2>1 DEF Init
    <3>2. /\ stream_off \in 0 .. NoQuery - 1
          /\ \A r \in Readers : reader[r].next <= reader[r].end
      BY <1>1, Numbers
    <3>3. query_index \in 1 .. NoQuery
      BY <1>1, Numbers
    <3>4. query_block \in BOOLEAN /\ given \subseteq 0 .. NumEdges - 1
      BY <1>1, Zenon DEF Init
    <3>5. QED
      BY <3>1, <3>2, <3>3, <3>4 DEF TypeOK
<1>3. SharesInv
  <2>1. Frontier = 0
    BY <1>1, Numbers DEF Frontier, Least
  <2>2. \A r \in Readers : Due(r) = {}
    BY <1>1 DEF Due, Held, At
  <2>3. QED
    BY <1>1, <2>1, <2>2 DEF SharesInv
<1>4. SetBackInv
  BY <1>1, Numbers DEF SetBackInv, At
<1>5. OffsetInv
  BY <1>1, <1>2, PausedOffset, Numbers, BufferBound DEF OffsetInv
<1>6. QED
  BY <1>2, <1>3, <1>4, <1>5 DEF IInv

-------------------------------------------------------------------------------
\* The inductive invariant of the readers holds for any number of them, any file and any
\* buffer size, whatever read_data() calls, queries and resets interleave.
THEOREM Invariance == Spec => []IInv
<1>1. Init => IInv
  BY InitIInv
<1>2. IInv /\ [Next]_vars => IInv'
  <2>1. SUFFICES ASSUME IInv, [Next]_vars
                 PROVE  IInv'
    OBVIOUS
  <2>2. OffsetInv' /\ SharesInv' /\ SetBackInv'
    BY <2>1, OffsetStep, SharesStep, SetBackStep
  <2>3. TypeOK'
    BY <2>1, <2>2, TypeStep
  <2>4. QED
    BY <2>2, <2>3 DEF IInv
<1>3. QED
  BY <1>1, <1>2, PTL DEF Spec

\* The shared offset never comes near the value that stands for "no query", and the
\* readers only return updates of the file.
THEOREM TypeCorrect == Spec => []TypeOK
<1>1. IInv => TypeOK
  BY DEF IInv
<1>2. QED
  BY <1>1, Invariance, PTL

\* get_edge() hands no update to two readers, and none twice.
THEOREM OnlyOnce == Spec => []EachOnce
<1>1. IInv => EachOnce
  <2>1. SUFFICES ASSUME IInv
                 PROVE  EachOnce
    OBVIOUS
  <2>2. \A r \in Readers : Held(r) \subseteq Due(r)
    BY DEF Due, Held, At
  <2>3. \A r \in Readers : /\ Due(r) \cap given = {}
                           /\ \A q \in Readers \ {r} : Due(r) \cap Due(q) = {}
    BY <2>1 DEF IInv, SharesInv
  <2>4. QED
    BY <2>2, <2>3 DEF EachOnce
<1>2. QED
  BY <1>1, Invariance, PTL

\* Once every thread has answered BREAKPOINT, exactly the updates before the break point
\* have been returned, though the threads pass a registered query and set it back.
THEOREM BreakPoints == Spec => []BreakPointIsExact
<1>1. IInv => BreakPointIsExact
  <2>1. SUFFICES ASSUME IInv, AllPaused
                 PROVE  given = 0 .. Frontier - 1
    BY DEF BreakPointIsExact, Frontier
  <2>2. \A r \in Readers : Due(r) = {}
    BY <2>1, NothingDue DEF AllPaused, At
  <2>3. QED
    BY <2>1, <2>2 DEF IInv, SharesInv
<1>2. QED
  BY <1>1, Invariance, PTL

\* While the user waits, only a reader that was past the test of query_block before claims,
\* and it leaves those admitted with its claim.
LEMMA ReachStep ==
    ASSUME IInv, [Next]_vars, query_block
    PROVE  Reach' <= Reach
<1> DEFINE More(S) == BufSize * Cardinality(S)
<1>t. /\ stream_off \in Nat /\ BufSize \in Nat /\ BufSize > 0 /\ query_index \in Nat /\ TypeOK
      /\ \A r \in Readers : reader[r].next \in Nat /\ reader[r].end \in Nat
      /\ Admitted \in SUBSET Readers /\ Admitted' \in SUBSET Readers
      /\ Reach = stream_off + More(Admitted) /\ Reach' = stream_off' + More(Admitted')
  BY Numbers DEF IInv, TypeOK, Admitted, Reach
<1>m. ASSUME NEW S \in SUBSET Readers
      PROVE  /\ More(S) \in Nat
             /\ \A T \in SUBSET S : More(T) <= More(S)
             /\ \A r \in S : More(S) = More(S \ {r}) + BufSize
  <2>1. More(S) \in Nat /\ \A T \in SUBSET S : More(T) <= More(S)
    BY BufferBound, BufferMonotone
  <2>2. ASSUME NEW r \in S
        PROVE  More(S) = More(S \ {r}) + BufSize
    <3>1. (S \ {r}) \cup {r} = S /\ r \in Readers \ (S \ {r})
      OBVIOUS
    <3>2. QED
      BY <3>1, BufferBound
  <2>3. QED
    BY <2>1, <2>2
<1> HIDE DEF More
<1>k. ASSUME stream_off' \in Nat, stream_off' <= stream_off, Admitted' \subseteq Admitted
      PROVE  Reach' <= Reach
  BY <1>k, <1>m, <1>t
<1>1. ASSUME NEW r \in Readers,
             \/ GetEdge(r) \/ TestBlock(r) \/ TestEnd(r) \/ TestQuery(r) \/ Drop(r) \/ Read(r)
      PROVE  Reach' <= Reach
  <2>1. stream_off' = stream_off
    BY <1>1 DEF GetEdge, TestBlock, TestEnd, TestQuery, Drop, Read
  <2>2. CASE GetEdge(r) \/ TestBlock(r)
    <3>1. ASSUME GetEdge(r)
          PROVE  Admitted' \subseteq Admitted
      BY <1>t, <3>1 DEF GetEdge, Move, At, Admitted, TypeOK
    <3>2. ASSUME TestBlock(r)
          PROVE  Admitted' \subseteq Admitted
      <4>1. BreakPoint(r)
        BY <3>2, Zenon DEF TestBlock
      <4>2. QED
        BY <1>t, <4>1 DEF BreakPoint, Move, Admitted, TypeOK
    <3>3. QED
      BY <1>k, <1>t, <2>1, <2>2, <3>1, <3>2
  <2>3. CASE TestEnd(r) \/ TestQuery(r) \/ Drop(r) \/ Read(r)
    <3>1. Admitted' \subseteq Admitted
      BY <1>t, <2>3 DEF TestEnd, TestQuery, Drop, Read, Fill, BreakPoint, Move, At, Admitted, TypeOK
    <3>2. QED
      BY <1>k, <1>t, <2>1, <3>1
  <2>4. QED
    BY <1>1, <2>2, <2>3
<1>2. ASSUME NEW r \in Readers, Claim(r)
      PROVE  Reach' <= Reach
  <2>1. stream_off' = stream_off + BufSize /\ r \in Admitted /\ Admitted' = Admitted \ {r}
    BY <1>2, <1>t DEF Claim, At, Admitted, TypeOK
  <2>2. More(Admitted) = More(Admitted') + BufSize /\ More(Admitted') \in Nat
    BY <1>m, <1>t, <2>1
  <2>3. QED
    BY <1>t, <2>1, <2>2
<1>3. ASSUME NEW r \in Readers, GiveBack(r) \/ ReadToQuery(r)
      PROVE  Reach' <= Reach
  <2>1. At(r, "claimed") /\ stream_off' = query_index
    BY <1>3 DEF GiveBack, ReadToQuery
  <2>2. query_index < reader[r].end
    <3>1. reader[r].end = reader[r].next + BufSize
      BY <2>1 DEF IInv, SetBackInv
    <3>2. CASE GiveBack(r)
      BY <1>t, <3>1, <3>2 DEF GiveBack
    <3>3. CASE ReadToQuery(r)
      BY <3>3 DEF ReadToQuery
    <3>4. QED
      BY <1>3, <3>2, <3>3
  <2>3. stream_off' <= stream_off
    BY <2>1, <2>2 DEF IInv, SetBackInv
  <2>4. Admitted' \subseteq Admitted
    BY <1>3, <1>t DEF GiveBack, ReadToQuery, Fill, BreakPoint, Move, At, Admitted, TypeOK
  <2>5. QED
    BY <1>k, <1>t, <2>1, <2>3, <2>4
<1>4. CASE \/ OnDemandQuery \/ (\E idx \in 1 .. NoQuery - 1 : RegisterQuery(idx)) \/ PostQueryResume
           \/ UNCHANGED vars
  <2>1. stream_off' = stream_off /\ Admitted' = Admitted
    BY <1>4 DEF OnDemandQuery, RegisterQuery, PostQueryResume, vars, Admitted
  <2>2. QED
    BY <1>k, <1>t, <2>1
<1>5. CASE StreamReset \/ Resume
  <2>1. stream_off' = stream_off \/ stream_off' = 0
    BY <1>5 DEF StreamReset, Resume
  <2>2. \A r \in Readers : reader'[r].pc \in {"paused", "ready"}
    <3>1. CASE StreamReset
      BY <3>1 DEF StreamReset, AllPaused, At
    <3>2. CASE Resume
      BY <3>2 DEF Resume
    <3>3. QED
      BY <1>5, <3>1, <3>2
  <2>3. Admitted' = {}
    BY <2>2 DEF Admitted
  <2>4. QED
    BY <1>k, <1>t, <2>1, <2>3
<1>6. QED
  BY <1>1, <1>2, <1>3, <1>4, <1>5 DEF Next, ReadData

\* After on_demand_query() each reader takes at most the one buffer for which it is past the
\* test already: the safety half of QueriesAreReached.
THEOREM OneBufferMore == Spec => NoReaderAdmitted
<1>1. IInv /\ [Next]_vars => [query_block => Reach' <= Reach]_vars
  BY ReachStep
<1>2. QED
  BY <1>1, Invariance, PTL DEF Spec, NoReaderAdmitted

=============================================================================
