--------------------------- MODULE MpiTiersProofs ----------------------------
(***************************************************************************)
(* The ranks of the MPI engine take part in one sequence of collective     *)
(* calls, and no message outlives its batch, for any number of tiers and   *)
(* any size of the batches, whether the library buffers messages or not;   *)
(* and every tier applies the cuts and links of the input node that        *)
(* concern it, in its order.                                               *)
(***************************************************************************)
EXTENDS MpiSteps, TLAPS

------------------------------------------------------------------------------
\* The question about a cycle and its answer

\* The ends of a sequence.
LEMMA SequenceEnds ==
    ASSUME NEW S, NEW q \in Seq(S)
    PROVE  /\ q # <<>> => q[1] = Head(q) /\ 1 \in 1 .. Len(q) /\ Head(q) \in S
           /\ Len(q) = 1 => Tail(q) = <<>>
           /\ \A m \in S : Append(<<>>, m) = <<m>>
           /\ \A k \in 1 .. Len(q) : q[k] \in S
           /\ Len(q) \in Nat
<1>1. q # <<>> => q[1] = Head(q) /\ 1 \in 1 .. Len(q) /\ Head(q) \in S
  OBVIOUS
<1>2. Len(q) = 1 => Tail(q) = <<>>
  <2>1. SUFFICES ASSUME Len(q) = 1
                 PROVE  Tail(q) = <<>>
    OBVIOUS
  <2>2. q # <<>>
    BY <2>1
  <2>3. Tail(q) \in Seq(S) /\ Len(Tail(q)) = 0
    BY <2>1, <2>2
  <2>4. QED
    BY <2>3, EmptySeq
<1>3. \A m \in S : Append(<<>>, m) = <<m>>
  OBVIOUS
<1>4. QED
  BY <1>1, <1>2, <1>3

\* The tier whose turn it is broadcasts.
LEMMA TurnSpeaker ==
    \A num, idx, tier, endpoint : \A pc \in {"head", "ops", "link"} :
        Speaker(Turn(pc, num, idx, tier, endpoint)) = tier + 1
  BY DEF Speaker, Turn

\* A step of one rank to variables that fit it keeps the invariant of the variables.
LEMMA StepLocal ==
    ASSUME Typed, LocalInv, NEW r \in Ranks, NEW l, Step(r, l)
    PROVE  LocalInv' /\ loc'[r] = l /\ \A q \in Ranks \ {r} : loc'[q] = loc[q]
<1>1. loc'[r] = l /\ Fits(r, l) /\ \A q \in Ranks \ {r} : loc'[q] = loc[q]
  BY PlaceAfter DEF Step
<1>2. \A q \in Ranks : Fits(q, loc'[q])
  BY <1>1 DEF LocalInv
<1>3. QED
  BY <1>1, <1>2 DEF LocalInv

\* Who asked whether a cycle closes speaks where all others come to.
LEMMA LastIsolated ==
    ASSUME Typed, InStep, NEW n, n = Len(bcasts[Input]), n \in 1 .. n, bcasts[Input][n].msg.kind = "isolated"
    PROVE  Speaker(End(Input)) = bcasts[Input][n].root
<1> DEFINE q == bcasts[Input]
           w == Walk(Place(Input), q)
           p == w[n - 1]
           msg == q[n].msg
<1>1. q \in Seq(Packets) /\ Reaches(Input, Place(Input), q, End(Input))
  BY TakeFacts, ComeTogether, RankNumbers DEF Together
<1>2. \A k \in 1 .. Len(q) : w[k] = AfterMsg(w[k - 1], q[k].msg)
  BY <1>1, WalkNext
<1>3. /\ w[n] = End(Input)
      /\ q[n].root = Speaker(p) /\ msg.kind \in Kinds(p)
  BY <1>1 DEF Reaches
<1>4. w[n] = AfterMsg(p, msg) /\ msg.kind = "isolated"
  BY <1>2
<1> HIDE DEF p, msg, w
<1>5. p.pc = "head"
  <2>1. \/ p.pc = "batch" /\ Kinds(p) = {"batch", "end"}
        \/ p.pc = "head"
        \/ p.pc = "ops" /\ Kinds(p) = {"cut", "link"}
        \/ p.pc = "link" /\ Kinds(p) = {"link"}
        \/ Kinds(p) = {}
    BY DEF Kinds
  <2>2. QED
    BY <1>3, <1>4, <2>1
<1>6. Speaker(p) = p.tier + 1
  BY <1>5 DEF Speaker
<1>7. AfterMsg(p, msg) = Turn("ops", p.num, p.idx, p.tier, p.endpoint)
  BY <1>4 DEF AfterMsg
<1>8. Speaker(AfterMsg(p, msg)) = p.tier + 1
  BY <1>7, TurnSpeaker
<1>9. QED
  BY <1>3, <1>4, <1>6, <1>8

\* The tier that waits for an answer is the one all others come to.
LEMMA WhoAsks ==
    ASSUME Typed, LocalInv, InStep, bcasts[Input] = <<>>, loc[Input].pc \in {"answer", "ops"}
    PROVE  /\ Speaker(End(Input)) = loc[Input].tier + 1 /\ End(Input) = Place(Input)
           /\ loc[Input].tier + 1 \in TierNodes
<1> DEFINE l == loc[Input]
<1>1. l \in Locals /\ Place(Input) = PlaceOf(l) /\ End(Input) = Place(Input) /\ l.tier # 0
      /\ l.tier \in 0 .. Top
  BY Here, AtTheEnd, RankNumbers, Fields
<1>2. \E pc \in {"ops", "link"} : PlaceOf(l) = Turn(pc, l.num, l.idx, l.tier, l.endpoint)
  <2>1. CASE l.pc = "answer"
    BY <1>1, <2>1, Places
  <2>2. CASE l.pc = "ops" /\ l.round = 1
    BY <1>1, <2>2, Places
  <2>3. CASE l.pc = "ops" /\ l.round # 1
    BY <1>1, <2>3, Places
  <2>4. QED
    BY <2>1, <2>2, <2>3
<1>3. l.tier + 1 \in TierNodes
  BY <1>1, RankNumbers DEF TierNodes
<1>4. QED
  BY <1>1, <1>2, <1>3, TurnSpeaker

\* Whoever speaks is the one all others come to.
LEMMA WhoSpeaks ==
    ASSUME Typed, InStep, NEW r \in Ranks, NEW l, NEW msg, Speaks(r, l, msg)
    PROVE  Speaker(End(Input)) = r /\ bcasts[r] = <<>>
<1>1. Speaker(Place(r)) = r
  BY DEF Speaks
<1>2. bcasts[r] = <<>>
  BY <1>1, TakeFacts
<1>3. QED
  BY <1>1, <1>2, AtTheEnd

\* Broadcasts keep the question and its answer together, ...
LEMMA SpeaksAnswer ==
    ASSUME Typed, LocalInv, InStep, AnswerInv, NEW r \in Ranks, NEW l, NEW msg, Speaks(r, l, msg)
    PROVE  AnswerInv'
<1>1. Speaker(End(Input)) = r /\ bcasts[r] = <<>>
  BY WhoSpeaks
<1>2. loc'[r] = l /\ \A q \in Ranks \ {r} : loc'[q] = loc[q]
  BY StepLocal DEF Speaks
<1>3. msg \in Announcements /\ Bcast(r, msg) /\ loc[r].pc # "query"
      /\ (msg.kind = "isolated" => l.pc = "query") /\ (r = Input => l.pc \in {"reduce", "done"})
  BY DEF Speaks
<1>4. /\ net' = net /\ bcasts'[r] = bcasts[r]
      /\ \E m \in Packets : m.msg = msg /\ m.root = r /\ \A q \in Ranks \ {r} : bcasts'[q] = Append(bcasts[q], m)
  BY <1>3, BcastEffect
<1>i. Input \in Ranks /\ bcasts[Input] \in Seq(Packets)
  BY RankNumbers, TakeFacts
<1>5. ASSUME NEW q \in TierNodes \ {1}
      PROVE  net'[Input][q] = <<>>
  <2>1. SUFFICES ASSUME net[Input][q] # <<>>
                 PROVE  FALSE
    BY <1>4
  <2>2. /\ loc[q].pc = "query" /\ loc[Input].pc = "ops" /\ loc[Input].tier = TierNum(q)
        /\ bcasts[Input] = <<>>
    BY <2>1 DEF AnswerInv
  <2>3. r = loc[Input].tier + 1
    BY <1>1, <2>2, WhoAsks
  <2>4. r = q
    BY <2>2, <2>3, Numbers, RankNumbers
  <2>5. QED
    BY <1>3, <2>2, <2>4
<1>6. loc'[Input].pc # "answer"
  <2>1. SUFFICES ASSUME r # Input, loc[Input].pc = "answer"
                 PROVE  FALSE
    BY <1>2, <1>3, <1>i
  <2>2. loc[loc[Input].tier + 1].pc = "query" /\ bcasts[Input] = <<>>
    BY <2>1 DEF AnswerInv
  <2>3. r = loc[Input].tier + 1
    BY <1>1, <2>1, <2>2, WhoAsks
  <2>4. QED
    BY <1>3, <2>2, <2>3
<1>7. \A k \in 1 .. Len(bcasts'[Input]) : bcasts'[Input][k].msg.kind = "isolated" =>
          k = Len(bcasts'[Input]) /\ loc'[bcasts'[Input][k].root].pc = "query"
  <2>1. CASE r = Input
    BY <1>1, <1>4, <2>1
  <2>2. CASE r # Input
    <3> DEFINE q == bcasts[Input]
               n == Len(q)
    <3>1. PICK m \in Packets : m.msg = msg /\ m.root = r /\ bcasts'[Input] = Append(q, m)
      BY <1>4, <1>i, <2>2
    <3>2. \A k \in 1 .. n : q[k].msg.kind # "isolated"
      <4>1. SUFFICES ASSUME NEW k \in 1 .. n, q[k].msg.kind = "isolated"
                     PROVE  FALSE
        OBVIOUS
      <4>2. k = n /\ loc[q[k].root].pc = "query"
        BY <4>1 DEF AnswerInv
      <4>3. Speaker(End(Input)) = q[k].root
        <5>1. n = Len(bcasts[Input]) /\ n \in 1 .. n /\ bcasts[Input][n].msg.kind = "isolated"
          BY <4>1, <4>2
        <5> HIDE DEF n
        <5>2. QED
          BY <4>2, <5>1, LastIsolated
      <4>4. QED
        BY <1>1, <1>3, <4>2, <4>3
    <3>3. /\ Len(bcasts'[Input]) = n + 1 /\ bcasts'[Input][n + 1] = m /\ n \in Nat
          /\ \A k \in 1 .. n : bcasts'[Input][k] = q[k]
      BY <1>i, <3>1
    <3> HIDE DEF n, q
    <3>4. SUFFICES ASSUME NEW k \in 1 .. n + 1, bcasts'[Input][k].msg.kind = "isolated"
                   PROVE  k = n + 1 /\ loc'[bcasts'[Input][k].root].pc = "query"
      BY <3>3
    <3>5. k = n + 1
      <4>1. k \in 1 .. n \/ k = n + 1
        BY <3>3
      <4>2. k \notin 1 .. n
        BY <3>2, <3>3, <3>4
      <4>3. QED
        BY <4>1, <4>2
    <3>6. QED
      BY <1>2, <1>3, <3>1, <3>3, <3>4, <3>5
  <2>3. QED
    BY <2>1, <2>2
<1>8. QED
  BY <1>5, <1>6, <1>7 DEF AnswerInv

\* ... and so do the ranks that take them, ...
LEMMA TakesAnswer ==
    ASSUME Typed, LocalInv, InStep, AnswerInv, NEW r \in Ranks, NEW l, Takes(r, l)
    PROVE  AnswerInv'
<1>1. loc'[r] = l /\ \A q \in Ranks \ {r} : loc'[q] = loc[q]
  BY StepLocal DEF Takes
<1>2. /\ net' = net /\ bcasts[r] # <<>> /\ bcasts[r] \in Seq(Packets) /\ bcasts'[r] = Tail(bcasts[r])
      /\ \A q \in Ranks \ {r} : bcasts'[q] = bcasts[q]
  BY TakeEffect DEF Takes
<1>3. /\ loc[r].pc # "query"
      /\ l.pc = "answer" => Announced(r).kind = "isolated" /\ l.tier + 1 = Speaker(Place(r))
  BY DEF Takes
<1>i. Input \in Ranks /\ bcasts[Input] \in Seq(Packets) /\ TierNodes \subseteq Ranks
  BY RankNumbers, TakeFacts
<1>4. ASSUME NEW q \in TierNodes \ {1}, net'[Input][q] # <<>>
      PROVE  /\ Len(net'[Input][q]) = 1 /\ loc'[q].pc = "query"
             /\ loc'[Input].pc = "ops" /\ loc'[Input].tier = TierNum(q) /\ bcasts'[Input] = <<>>
             /\ Head(net'[Input][q]).msg.kind = "lct"
  <2>1. /\ Len(net[Input][q]) = 1 /\ loc[q].pc = "query"
        /\ loc[Input].pc = "ops" /\ loc[Input].tier = TierNum(q) /\ bcasts[Input] = <<>>
        /\ Head(net[Input][q]).msg.kind = "lct"
    BY <1>2, <1>4 DEF AnswerInv
  <2>2. r # Input /\ r # q
    BY <1>2, <1>3, <2>1
  <2>3. loc'[Input] = loc[Input] /\ loc'[q] = loc[q] /\ bcasts'[Input] = bcasts[Input]
    BY <1>1, <1>2, <1>i, <2>2
  <2>4. QED
    BY <1>2, <2>1, <2>3
<1>5. ASSUME loc'[Input].pc = "answer"
      PROVE  loc'[loc'[Input].tier + 1].pc = "query" /\ bcasts'[Input] = <<>>
  <2>1. CASE r = Input
    <3>1. l.pc = "answer" /\ loc'[Input] = l
      BY <1>1, <1>5, <2>1
    <3>2. Announced(r).kind = "isolated" /\ l.tier + 1 = Speaker(Place(r)) /\ Head(bcasts[r]).root = Speaker(Place(r))
      BY <1>2, <1>3, <3>1, TakeFacts
    <3>3. bcasts[r][1].msg.kind = "isolated" /\ bcasts[r][1].root = l.tier + 1 /\ 1 \in 1 .. Len(bcasts[r])
          /\ bcasts[r][1].root \in Ranks
      <4>1. /\ bcasts[r][1] = Head(bcasts[r]) /\ 1 \in 1 .. Len(bcasts[r]) /\ Head(bcasts[r]) \in Packets
        BY <1>2, SequenceEnds
      <4>2. Head(bcasts[r]).root \in Ranks
        BY <4>1 DEF Packets
      <4>3. QED
        BY <3>2, <4>1, <4>2 DEF Announced
    <3>4. 1 = Len(bcasts[r]) /\ loc[l.tier + 1].pc = "query" /\ l.tier + 1 \in Ranks
      BY <2>1, <3>3 DEF AnswerInv
    <3>5. bcasts'[r] = <<>>
      BY <1>2, <3>4, SequenceEnds
    <3>6. loc'[l.tier + 1] = loc[l.tier + 1]
      BY <1>1, <1>3, <3>4
    <3>7. QED
      BY <2>1, <3>1, <3>4, <3>5, <3>6
  <2>2. CASE r # Input
    <3>1. loc'[Input] = loc[Input] /\ bcasts'[Input] = bcasts[Input]
      BY <1>1, <1>2, <1>i, <2>2
    <3>2. loc[loc[Input].tier + 1].pc = "query" /\ bcasts[Input] = <<>>
      BY <1>5, <3>1 DEF AnswerInv
    <3>3. loc[Input].tier + 1 \in Ranks
      BY <1>5, <1>i, <3>1, <3>2, WhoAsks
    <3>4. loc'[loc[Input].tier + 1] = loc[loc[Input].tier + 1]
      BY <1>1, <1>3, <3>2, <3>3
    <3>5. QED
      BY <3>1, <3>2, <3>4
  <2>3. QED
    BY <2>1, <2>2
<1>6. ASSUME NEW k \in 1 .. Len(bcasts'[Input]), bcasts'[Input][k].msg.kind = "isolated"
      PROVE  k = Len(bcasts'[Input]) /\ loc'[bcasts'[Input][k].root].pc = "query"
  <2>1. PICK j \in 1 .. Len(bcasts[Input]) :
            bcasts[Input][j] = bcasts'[Input][k] /\ (j = Len(bcasts[Input]) => k = Len(bcasts'[Input]))
    <3>1. CASE r = Input
      <4> DEFINE b == bcasts[Input]
      <4>1. b \in Seq(Packets) /\ b # <<>> /\ bcasts'[Input] = Tail(b) /\ k \in 1 .. Len(Tail(b))
        BY <1>2, <1>6, <3>1
      <4> HIDE DEF b
      <4>2. k + 1 \in 1 .. Len(b) /\ Tail(b)[k] = b[k + 1] /\ Len(Tail(b)) = Len(b) - 1 /\ Len(b) \in Nat
        BY <4>1
      <4>3. k + 1 = Len(b) => k = Len(Tail(b))
        BY <4>2
      <4>4. QED
        BY <4>1, <4>2, <4>3 DEF b
    <3>2. CASE r # Input
      BY <1>2, <1>i, <3>2
    <3>3. QED
      BY <3>1, <3>2
  <2>2. j = Len(bcasts[Input]) /\ loc[bcasts[Input][j].root].pc = "query"
    BY <1>6, <2>1 DEF AnswerInv
  <2>3. bcasts[Input][j].root \in Ranks
    <3>1. bcasts[Input][j] \in Packets
      BY <1>i, <2>1
    <3>2. QED
      BY <3>1 DEF Packets
  <2>4. QED
    BY <1>1, <1>3, <2>1, <2>2, <2>3
<1>7. QED
  BY <1>4, <1>5, <1>6 DEF AnswerInv

\* ... the steps that have nothing to do with the question, ...
LEMMA QuietAnswer ==
    ASSUME Typed, LocalInv, InStep, AnswerInv, NEW r \in Ranks, NEW l, Quiet(r, l),
           loc[r].pc # "query", l.pc # "answer", r = Input => loc[r].pc \notin {"answer", "ops"},
           \A q \in TierNodes \ {1} : net'[Input][q] = net[Input][q]
    PROVE  AnswerInv'
<1>1. loc'[r] = l /\ \A q \in Ranks \ {r} : loc'[q] = loc[q]
  BY StepLocal DEF Quiet
<1>2. bcasts' = bcasts
  BY DEF Quiet
<1>i. Input \in Ranks /\ bcasts[Input] \in Seq(Packets) /\ TierNodes \subseteq Ranks
  BY RankNumbers, TakeFacts
<1>4. ASSUME NEW q \in TierNodes \ {1}, net'[Input][q] # <<>>
      PROVE  /\ Len(net'[Input][q]) = 1 /\ loc'[q].pc = "query"
             /\ loc'[Input].pc = "ops" /\ loc'[Input].tier = TierNum(q) /\ bcasts'[Input] = <<>>
             /\ Head(net'[Input][q]).msg.kind = "lct"
  <2>1. /\ Len(net[Input][q]) = 1 /\ loc[q].pc = "query"
        /\ loc[Input].pc = "ops" /\ loc[Input].tier = TierNum(q) /\ bcasts[Input] = <<>>
        /\ Head(net[Input][q]).msg.kind = "lct"
    BY <1>4 DEF AnswerInv
  <2>2. r # Input /\ r # q
    BY <2>1
  <2>3. loc'[Input] = loc[Input] /\ loc'[q] = loc[q]
    BY <1>1, <1>i, <2>2
  <2>4. QED
    BY <1>2, <1>4, <2>1, <2>3
<1>5. ASSUME loc'[Input].pc = "answer"
      PROVE  loc'[loc'[Input].tier + 1].pc = "query" /\ bcasts'[Input] = <<>>
  <2>1. r # Input /\ loc'[Input] = loc[Input]
    BY <1>1, <1>5, <1>i
  <2>2. loc[loc[Input].tier + 1].pc = "query" /\ bcasts[Input] = <<>>
    BY <1>5, <2>1 DEF AnswerInv
  <2>3. loc[Input].tier + 1 \in Ranks
    BY <1>5, <1>i, <2>1, <2>2, WhoAsks
  <2>4. loc'[loc[Input].tier + 1] = loc[loc[Input].tier + 1]
    BY <1>1, <2>2, <2>3
  <2>5. QED
    BY <1>2, <2>1, <2>2, <2>4
<1>6. ASSUME NEW k \in 1 .. Len(bcasts'[Input]), bcasts'[Input][k].msg.kind = "isolated"
      PROVE  k = Len(bcasts'[Input]) /\ loc'[bcasts'[Input][k].root].pc = "query"
  <2>1. k \in 1 .. Len(bcasts[Input]) /\ bcasts[Input][k] = bcasts'[Input][k]
    BY <1>2, <1>6
  <2>2. k = Len(bcasts[Input]) /\ loc[bcasts[Input][k].root].pc = "query"
    BY <1>6, <2>1 DEF AnswerInv
  <2>3. bcasts[Input][k].root \in Ranks
    <3>1. bcasts[Input][k] \in Packets
      BY <1>i, <2>1
    <3>2. QED
      BY <3>1 DEF Packets
  <2>4. QED
    BY <1>1, <1>2, <2>2, <2>3
<1>7. QED
  BY <1>4, <1>5, <1>6 DEF AnswerInv

\* ... the receipt of the answer, ...
LEMMA ResponseAnswer ==
    ASSUME Typed, LocalInv, InStep, AnswerInv, NEW r \in TierNodes, r # 1, NEW l, Quiet(r, l), Recv(r, Input)
    PROVE  AnswerInv'
<1>i. Input \in Ranks /\ r \in Ranks /\ r # Input /\ TierNodes \subseteq Ranks
  BY RankNumbers
<1>1. loc'[Input] = loc[Input] /\ bcasts' = bcasts
  BY <1>i, StepLocal DEF Quiet
<1>2. /\ net[Input][r] # <<>> /\ net[Input][r] \in Seq(Letters) /\ net'[Input][r] = Tail(net[Input][r])
      /\ \A q \in Ranks \ {r} : net'[Input][q] = net[Input][q]
  BY <1>i, RecvEffect
<1>3. /\ Len(net[Input][r]) = 1 /\ loc[Input].pc = "ops" /\ loc[Input].tier = TierNum(r) /\ bcasts[Input] = <<>>
  BY <1>2 DEF AnswerInv
<1>4. net'[Input][r] = <<>>
  BY <1>2, <1>3, SequenceEnds
<1>5. ASSUME NEW q \in TierNodes \ {1}
      PROVE  net'[Input][q] = <<>>
  <2>1. CASE q = r
    BY <1>4, <2>1
  <2>2. CASE q # r
    <3>1. TierNum(q) # TierNum(r)
      BY <1>i, <2>2, Numbers
    <3>2. net[Input][q] = <<>>
      BY <1>3, <3>1 DEF AnswerInv
    <3>3. QED
      BY <1>2, <1>i, <2>2, <3>2
  <2>3. QED
    BY <2>1, <2>2
<1>6. QED
  BY <1>1, <1>3, <1>5 DEF AnswerInv

\* ... and the answer itself.
LEMMA AnswerAnswer ==
    ASSUME Typed, LocalInv, InStep, AnswerInv, Answer
    PROVE  AnswerInv'
<1> DEFINE to == loc[Input].tier + 1
<1>0. PICK l : \E weight \in 0 .. Top :
          /\ Quiet(Input, l) /\ l.pc = "ops" /\ l.tier = loc[Input].tier
          /\ [kind |-> "lct", weight |-> weight] \in Messages
          /\ Send(Input, to, [kind |-> "lct", weight |-> weight])
  BY AnswerQuiet
<1>1. PICK weight \in 0 .. Top :
          /\ Quiet(Input, l) /\ l.pc = "ops" /\ l.tier = loc[Input].tier
          /\ [kind |-> "lct", weight |-> weight] \in Messages
          /\ Send(Input, to, [kind |-> "lct", weight |-> weight])
  BY <1>0
<1>2. loc[Input].pc = "answer" /\ to \in TierNodes \ {1} /\ to \in Ranks /\ Input \in Ranks /\ to # Input
  BY AnswerQuiet, RankNumbers
<1>3. loc[to].pc = "query" /\ bcasts[Input] = <<>>
  BY <1>2 DEF AnswerInv
<1>4. \A q \in TierNodes \ {1} : net[Input][q] = <<>>
  BY <1>2 DEF AnswerInv
<1> DEFINE msg == [kind |-> "lct", weight |-> weight]
<1>5. PICK m \in Letters : m.msg = msg /\ net'[Input][to] = Append(net[Input][to], m)
      /\ \A q \in Ranks : q # to => net'[Input][q] = net[Input][q]
  <2>1. msg \in Messages /\ Send(Input, to, msg)
    BY <1>1
  <2> HIDE DEF msg, to
  <2>2. QED
    BY <1>2, <2>1, SendEffect
<1>6. net'[Input][to] = <<m>>
  <2>1. net[Input][to] = <<>>
    BY <1>2, <1>4
  <2>2. Append(<<>>, m) = <<m>>
    OBVIOUS
  <2>3. QED
    BY <1>5, <2>1, <2>2
<1>7. loc'[Input] = l /\ loc'[to] = loc[to] /\ bcasts' = bcasts
  BY <1>1, <1>2, StepLocal DEF Quiet
<1>8. Len(<<m>>) = 1 /\ Head(<<m>>) = m /\ m.msg.kind = "lct"
  BY <1>5
<1>9. loc[Input].tier = TierNum(to)
  <2>1. loc[Input].tier \in Nat
    BY <1>2, Here, Fields
  <2>2. QED
    BY <1>2, <2>1, Numbers
<1>10. ASSUME NEW q \in TierNodes \ {1}, net'[Input][q] # <<>>
       PROVE  /\ Len(net'[Input][q]) = 1 /\ loc'[q].pc = "query"
              /\ loc'[Input].pc = "ops" /\ loc'[Input].tier = TierNum(q) /\ bcasts'[Input] = <<>>
              /\ Head(net'[Input][q]).msg.kind = "lct"
  <2>1. q = to
    BY <1>4, <1>5, <1>10, RankNumbers
  <2> HIDE DEF to
  <2>2. QED
    BY <1>1, <1>3, <1>6, <1>7, <1>8, <1>9, <2>1
<1> HIDE DEF to
<1>11. QED
  BY <1>1, <1>3, <1>7, <1>10 DEF AnswerInv

------------------------------------------------------------------------------
\* The broadcasts

TalkInv == Typed /\ LocalInv /\ InStep /\ AnswerInv

\* Every step is of one of these kinds.
LEMMA NextKinds ==
    ASSUME TalkInv, Next
    PROVE  \/ \E r \in Ranks : \E l, msg : Speaks(r, l, msg) /\ Typed'
           \/ \E r \in Ranks : \E l : Takes(r, l) /\ Typed'
           \/ StartRefresh \/ Answer \/ AllReduce
           \/ \E r \in TierNodes : PassRefresh(r) \/ TakeRefresh(r) \/ TakeResponse(r) \/ ExchangeSizes(r)
           \/ \E r \in Ranks : NextUpdate(r)
           \/ UNCHANGED vars
<1>1. Input \in Ranks /\ TierNodes \subseteq Ranks /\ Typed /\ LocalInv /\ InStep /\ AnswerInv
  BY RankNumbers DEF TalkInv
<1>2. CASE StartBatch \/ EndStream
  BY <1>1, <1>2, StartBatchSpeaks, EndStreamSpeaks
<1>3. CASE InputStep
  <2>1. CASE StartRefresh \/ Answer \/ NextUpdate(Input)
    BY <1>1, <2>1
  <2>2. CASE FollowHead(Input) \/ FollowOp(Input)
    BY <1>1, <2>2, FollowHeadTakes, FollowOpTakes
  <2>3. QED
    BY <1>3, <2>1, <2>2 DEF InputStep
<1>4. ASSUME NEW r \in TierNodes, TierStep(r)
      PROVE  \/ \E q \in Ranks : \E l, msg : Speaks(q, l, msg) /\ Typed'
             \/ \E q \in Ranks : \E l : Takes(q, l) /\ Typed'
             \/ PassRefresh(r) \/ TakeRefresh(r) \/ TakeResponse(r) \/ ExchangeSizes(r) \/ NextUpdate(r)
  <2>0. r \in Ranks
    BY <1>1
  <2>1. CASE TakeBatch(r) \/ FollowHead(r) \/ FollowOp(r)
    BY <1>1, <2>0, <2>1, TakeBatchTakes, FollowHeadTakes, FollowOpTakes
  <2>2. CASE Declare(r) \/ AnnounceCut(r) \/ AnnounceLink(r)
    BY <1>1, <2>0, <2>2, DeclareSpeaks, AnnounceCutSpeaks, AnnounceLinkSpeaks
  <2>3. CASE PassRefresh(r) \/ TakeRefresh(r) \/ TakeResponse(r) \/ ExchangeSizes(r) \/ NextUpdate(r)
    BY <2>3
  <2>4. QED
    BY <1>4, <2>1, <2>2, <2>3 DEF TierStep
<1>5. CASE AllReduce \/ Terminated
  BY <1>5 DEF Terminated
<1>6. CASE \E r \in TierNodes : TierStep(r)
  BY <1>1, <1>4, <1>6
<1>7. QED
  BY <1>2, <1>3, <1>5, <1>6 DEF Next

\* A step that takes no part in a broadcast keeps what is said of broadcasts.
LEMMA QuietTalk ==
    ASSUME TalkInv, Typed', NEW r \in Ranks, NEW l, Quiet(r, l), AnswerInv'
    PROVE  TalkInv'
<1>1. Typed /\ LocalInv /\ InStep /\ loc' = [loc EXCEPT ![r] = l] /\ bcasts' = bcasts /\ PlaceOf(l) = Place(r)
  BY DEF TalkInv, Quiet, Step
<1>2. InStep'
  BY <1>1, QuietInStep
<1>3. LocalInv'
  BY <1>1, StepLocal DEF Quiet
<1>4. QED
  BY <1>2, <1>3 DEF TalkInv

\* The invariant of the broadcasts is inductive, ...
LEMMA TalkStep ==
    ASSUME TalkInv, [Next]_vars
    PROVE  TalkInv'
<1>0. Typed /\ LocalInv /\ InStep /\ AnswerInv /\ Input \in Ranks /\ TierNodes \subseteq Ranks
      /\ Input \notin TierNodes
  BY RankNumbers DEF TalkInv
<1>1. ASSUME NEW r \in Ranks, NEW l, NEW msg, Speaks(r, l, msg), Typed'
      PROVE  TalkInv'
  <2>1. InStep'
    BY <1>0, <1>1, SpeakInStep DEF Speaks, Step
  <2>2. LocalInv' /\ AnswerInv'
    BY <1>0, <1>1, StepLocal, SpeaksAnswer DEF Speaks
  <2>3. QED
    BY <1>1, <2>1, <2>2 DEF TalkInv
<1>2. ASSUME NEW r \in Ranks, NEW l, Takes(r, l), Typed'
      PROVE  TalkInv'
  <2>1. InStep'
    BY <1>0, <1>2, TakeInStep DEF Takes, Step
  <2>2. LocalInv' /\ AnswerInv'
    BY <1>0, <1>2, StepLocal, TakesAnswer DEF Takes
  <2>3. QED
    BY <1>2, <2>1, <2>2 DEF TalkInv
<1>3. CASE StartRefresh
  <2>1. PICK l : Quiet(Input, l) /\ l.pc = "head"
    BY <1>0, <1>3, StartRefreshQuiet
  <2>2. Typed' /\ loc[Input].pc = "start" /\ Send(Input, 1, [kind |-> "refresh"]) /\ 1 \in Ranks
        /\ [kind |-> "refresh"] \in Messages
    BY <1>0, <1>3, StartRefreshQuiet
  <2>3. \A q \in TierNodes \ {1} : net'[Input][q] = net[Input][q]
    BY <1>0, <2>2, SendEffect
  <2>4. AnswerInv'
    BY <1>0, <2>1, <2>2, <2>3, QuietAnswer
  <2>5. QED
    BY <1>0, <2>1, <2>2, <2>4, QuietTalk
<1>4. CASE Answer
  <2>1. PICK l : Quiet(Input, l)
    BY <1>0, <1>4, AnswerQuiet
  <2>2. Typed' /\ AnswerInv'
    BY <1>0, <1>4, AnswerQuiet, AnswerAnswer
  <2>3. QED
    BY <1>0, <2>1, <2>2, QuietTalk
<1>5. CASE AllReduce
  <2>1. /\ Typed' /\ InStep' /\ LocalInv' /\ net' = net /\ bcasts' = bcasts
        /\ \A r \in Ranks : loc[r].pc = "reduce" /\ bcasts[r] = <<>>
        /\ \A r \in Ranks : loc'[r].pc \in {"fill", "batch", "start", "refresh", "head"}
    BY <1>0, <1>5, AllReduceTogether
  <2>2. \A q \in TierNodes \ {1} : net'[Input][q] = <<>>
    BY <1>0, <2>1 DEF AnswerInv
  <2>3. AnswerInv'
    BY <1>0, <2>1, <2>2 DEF AnswerInv
  <2>4. QED
    BY <2>1, <2>3 DEF TalkInv
<1>6. ASSUME NEW r \in TierNodes, PassRefresh(r)
      PROVE  TalkInv'
  <2>1. PICK l : Quiet(r, l) /\ l.pc = "head"
    BY <1>0, <1>6, PassRefreshQuiet
  <2>2. Typed' /\ loc[r].pc = "pass" /\ Send(r, r + 1, [kind |-> "refresh"]) /\ r + 1 \in Ranks
        /\ [kind |-> "refresh"] \in Messages /\ r \in Ranks /\ r # Input
    BY <1>0, <1>6, PassRefreshQuiet
  <2>3. \A q \in TierNodes \ {1} : net'[Input][q] = net[Input][q]
    BY <1>0, <2>2, SendEffect
  <2>4. AnswerInv'
    BY <1>0, <2>1, <2>2, <2>3, QuietAnswer
  <2>5. QED
    BY <2>1, <2>2, <2>4, QuietTalk
<1>7. ASSUME NEW r \in TierNodes, TakeRefresh(r)
      PROVE  TalkInv'
  <2>1. PICK l : Quiet(r, l) /\ l.pc \in {"pass", "declare"}
    BY <1>0, <1>7, TakeRefreshQuiet
  <2>2. Typed' /\ loc[r].pc = "refresh" /\ Recv(r, r - 1) /\ r - 1 \in Ranks /\ r \in Ranks /\ r # Input
    BY <1>0, <1>7, TakeRefreshQuiet
  <2>3. \A q \in TierNodes \ {1} : net'[Input][q] = net[Input][q]
    <3>1. TAKE q \in TierNodes \ {1}
    <3>2. r - 1 # Input \/ q # r
      BY <2>2, RankNumbers
    <3>3. QED
      BY <1>0, <2>2, <3>2, RecvEffect
  <2>4. AnswerInv'
    BY <1>0, <2>1, <2>2, <2>3, QuietAnswer
  <2>5. QED
    BY <2>1, <2>2, <2>4, QuietTalk
<1>8. ASSUME NEW r \in TierNodes, TakeResponse(r)
      PROVE  TalkInv'
  <2>1. PICK l : Quiet(r, l)
    BY <1>0, <1>8, TakeResponseQuiet
  <2>2. Typed' /\ r # 1 /\ Recv(r, Input) /\ r \in Ranks
    BY <1>0, <1>8, TakeResponseQuiet
  <2>3. AnswerInv'
    BY <1>0, <2>1, <2>2, ResponseAnswer
  <2>4. QED
    BY <2>1, <2>2, <2>3, QuietTalk
<1>9. ASSUME NEW r \in TierNodes, ExchangeSizes(r)
      PROVE  TalkInv'
  <2>1. PICK l : Quiet(r, l) /\ l.pc \in {"sizes", "reduce"} /\ (SendsSizes(r, l) \/ TakesSizes(r, l))
    BY <1>0, <1>9, ExchangeQuiet
  <2>2. Typed' /\ loc[r].pc = "sizes" /\ r \in Ranks /\ r # Input
    BY <1>0, <1>9, ExchangeQuiet
  <2>3. \A q \in TierNodes \ {1} : net'[Input][q] = net[Input][q]
    <3>1. CASE SendsSizes(r, l)
      BY <1>0, <2>2, <3>1, SendEffect DEF SendsSizes
    <3>2. CASE TakesSizes(r, l)
      BY <1>0, <2>2, <3>2, RecvEffect DEF TakesSizes
    <3>3. QED
      BY <2>1, <3>1, <3>2
  <2>4. AnswerInv'
    BY <1>0, <2>1, <2>2, <2>3, QuietAnswer
  <2>5. QED
    BY <2>1, <2>2, <2>4, QuietTalk
<1>10. ASSUME NEW r \in Ranks, NextUpdate(r)
       PROVE  TalkInv'
  <2>1. PICK l : Quiet(r, l) /\ l.pc \in {"fill", "batch", "start", "refresh", "head"}
    BY <1>0, <1>10, NextUpdateQuiet
  <2>2. Typed' /\ loc[r].pc = "next" /\ net' = net
    BY <1>0, <1>10, NextUpdateQuiet
  <2>3. AnswerInv'
    BY <1>0, <2>1, <2>2, QuietAnswer
  <2>4. QED
    BY <2>1, <2>2, <2>3, QuietTalk
<1>11. CASE UNCHANGED vars
  <2>1. loc' = loc /\ net' = net /\ bcasts' = bcasts /\ blocked' = blocked /\ log' = log
    BY <1>11 DEF vars
  <2>2. Typed' /\ LocalInv' /\ AnswerInv'
    BY <1>0, <2>1 DEF Typed, LocalInv, AnswerInv
  <2>3. InStep'
    <3>1. PICK g : Together(g)
      BY <1>0, ComeTogether
    <3>2. \A r \in Ranks : Reaches(r, Place(r)', bcasts'[r], g)
      BY <2>1, <3>1 DEF Together, Place
    <3>3. QED
      BY <3>2, StayTogether
  <2>4. QED
    BY <2>2, <2>3 DEF TalkInv
<1>12. QED
  BY <1>1, <1>2, <1>3, <1>4, <1>5, <1>6, <1>7, <1>8, <1>9, <1>10, <1>11, NextKinds

\* ... holds at first, ...
LEMMA InitTalk ==
    ASSUME Init
    PROVE  TalkInv
<1>1. /\ loc = [r \in Ranks |-> Idle(r)] /\ net = [s \in Ranks |-> [r \in Ranks |-> <<>>]]
      /\ bcasts = [r \in Ranks |-> <<>>] /\ blocked = [r \in Ranks |-> {}] /\ log = [r \in Ranks |-> <<>>]
  BY DEF Init
<1>2. \A r \in Ranks : /\ loc[r] \in Locals /\ Fits(r, loc[r]) /\ Place(r) = Rest("batch", 0)
                       /\ loc[r].pc \in {"fill", "batch"}
  BY <1>1, IdleFits DEF Place
<1>3. Typed
  <2>1. \A S : <<>> \in Seq(S)
    OBVIOUS
  <2>2. loc \in [Ranks -> Locals]
    BY <1>1, <1>2
  <2>3. net \in NetType /\ bcasts \in BcastsType /\ blocked \in BlockedType /\ log \in LogType
    BY <1>1, <2>1 DEF NetType, BcastsType, BlockedType, LogType
  <2>4. QED
    BY <2>2, <2>3, Types
<1>4. LocalInv
  BY <1>2 DEF LocalInv
<1>5. InStep
  <2>1. \A r \in Ranks : Reaches(r, Place(r), bcasts[r], Rest("batch", 0))
    BY <1>1, <1>2, NothingToTake
  <2>2. QED
    BY <2>1, RankNumbers DEF InStep, Follows, Reaches, End
<1>6. AnswerInv
  <2>1. Input \in Ranks /\ TierNodes \subseteq Ranks
    BY RankNumbers
  <2>2. QED
    BY <1>1, <1>2, <2>1 DEF AnswerInv
<1>7. QED
  BY <1>3, <1>4, <1>5, <1>6 DEF TalkInv

\* ... and says that collective calls match.
LEMMA TalkMatches ==
    ASSUME TalkInv
    PROVE  CollectivesMatch
<1>0. Typed /\ LocalInv /\ InStep /\ AnswerInv /\ Input \in Ranks
  BY RankNumbers DEF TalkInv
<1>1. SUFFICES ASSUME NEW r \in Ranks
               PROVE  /\ loc[r].pc \in {"batch", "head", "ops"} /\ bcasts[r] # <<>> =>
                            /\ Head(bcasts[r]).root = ExpectedRoot(r)
                            /\ Announced(r).kind \in ExpectedKinds(r)
                      /\ loc[r].pc \in {"fill", "reduce", "declare", "cut", "link", "done"} => bcasts[r] = <<>>
  BY DEF CollectivesMatch
<1> DEFINE l == loc[r]
<1>2. l \in Locals /\ Fits(r, l) /\ Place(r) = PlaceOf(l)
  BY <1>0, Here
<1>3. bcasts[r] # <<>> => Head(bcasts[r]).root = Speaker(Place(r)) /\ Announced(r).kind \in Kinds(Place(r))
  BY <1>0, TakeFacts
<1>4. Speaker(Place(r)) = r \/ Kinds(Place(r)) = {} => bcasts[r] = <<>>
  BY <1>0, TakeFacts
<1>5. CASE l.pc \in {"batch", "fill"}
  <2>1. Place(r) = Rest("batch", 0)
    BY <1>2, <1>5, Places
  <2>2. Speaker(Place(r)) = Input /\ Kinds(Place(r)) = {"batch", "end"}
    BY <2>1 DEF Speaker, Kinds, Rest
  <2>3. l.pc = "fill" => r = Input
    BY <1>2 DEF Fits, OwnTurn
  <2>4. QED
    BY <1>3, <1>4, <1>5, <2>2, <2>3 DEF ExpectedRoot, ExpectedKinds
<1>6. CASE l.pc \in {"reduce", "done"}
  <2>1. Kinds(Place(r)) = {}
    <3>1. Place(r) = Rest("reduce", l.num) \/ Place(r) = Rest("done", 0)
      BY <1>2, <1>6, Places
    <3>2. QED
      BY <3>1 DEF Kinds, Rest
  <2>2. QED
    BY <1>4, <1>6, <2>1
<1>7. CASE l.pc = "head"
  <2>1. Place(r) = Turn("head", l.num, l.idx, l.tier, l.endpoint)
    BY <1>2, <1>7, Places
  <2>2. Speaker(Place(r)) = l.tier + 1 /\ Kinds(Place(r)) = {"isolated", "not_isolated"}
    BY <2>1, TurnSpeaker, TurnKinds
  <2>3. QED
    BY <1>3, <1>7, <2>2 DEF ExpectedRoot, ExpectedKinds
<1>8. CASE l.pc = "ops"
  <2>1. Place(r) = Turn("ops", l.num, l.idx, l.tier, l.endpoint) \/ Place(r) = Turn("link", l.num, l.idx, l.tier, l.endpoint)
    BY <1>2, <1>8, Places
  <2>2. Speaker(Place(r)) = l.tier + 1
    BY <2>1, TurnSpeaker
  <2>3. Kinds(Place(r)) \subseteq {"cut", "link"}
    BY <2>1, TurnKinds
  <2>4. QED
    BY <1>3, <1>8, <2>2, <2>3 DEF ExpectedRoot, ExpectedKinds
<1>9. CASE l.pc \in {"declare", "cut", "link"}
  <2>1. r \in TierNodes
    <3>1. r # Input
      BY <1>2, <1>9 DEF Fits, OwnTurn
    <3>2. QED
      BY <3>1, RankNumbers
  <2>2. Speaker(Place(r)) = r
    BY <1>0, <1>9, <2>1, OwnPlaces
  <2>3. QED
    BY <1>4, <1>9, <2>2
<1>10. QED
  BY <1>5, <1>6, <1>7, <1>8, <1>9

------------------------------------------------------------------------------
\* Nobody is behind

\* The turns of tier j that a rank at the place p has not behind it in this batch.
Ahead(j, p) == IF Repairs(p) THEN p.num - p.idx + (IF p.tier <= j THEN 1 ELSE 0) ELSE 0
InTurn(p) == Repairs(p) => /\ p.num \in Nat /\ p.idx \in Nat /\ p.idx <= p.num
                           /\ p.tier \in 1 .. Top /\ p.endpoint \in {1, 2}

\* The turns ahead at a place of a turn, ...
LEMMA AheadOfTurn ==
    ASSUME NEW pc \in {"head", "ops", "link"}, NEW num, NEW idx, NEW tier, NEW endpoint
    PROVE  /\ \A j : Ahead(j, Turn(pc, num, idx, tier, endpoint)) = num - idx + (IF tier <= j THEN 1 ELSE 0)
           /\ Repairs(Turn(pc, num, idx, tier, endpoint))
  BY DEF Ahead, Repairs, Turn

\* ... and at a place outside all turns.
LEMMA AheadOfRest ==
    ASSUME NEW pc \in {"batch", "reduce", "done"}, NEW num
    PROVE  /\ \A j : Ahead(j, Rest(pc, num)) = 0
           /\ ~ Repairs(Rest(pc, num))
  BY DEF Ahead, Repairs, Rest

\* The turns ahead are a number that grows with the tier.
LEMMA AheadNumber ==
    ASSUME NEW p, InTurn(p), NEW j \in 0 .. Top
    PROVE  Ahead(j, p) \in Int /\ Ahead(j, p) <= Ahead(Top, p)
  BY RankNumbers DEF Ahead, InTurn

\* The next endpoint has the turn of tier j behind it only if it was the turn of j.
LEMMA NextAhead ==
    ASSUME NEW p, InTurn(p), Repairs(p), NEW j \in 1 .. Top, NEW q, q = NextEndpoint(p)
    PROVE  /\ InTurn(q) /\ Ahead(j, q) <= Ahead(j, p)
           /\ p.tier # j => Ahead(j, q) = Ahead(j, p)
<1>0. /\ p.num \in Nat /\ p.idx \in Nat /\ p.idx <= p.num /\ p.tier \in 1 .. Top /\ p.endpoint \in {1, 2}
      /\ Top \in Nat /\ Top >= 1
      /\ Ahead(j, p) = p.num - p.idx + (IF p.tier <= j THEN 1 ELSE 0)
  BY RankNumbers DEF InTurn, Ahead
<1>1. CASE p.endpoint = 1
  <2>1. q = Turn("head", p.num, p.idx, p.tier, 2)
    BY <1>1 DEF NextEndpoint
  <2>2. Ahead(j, q) = Ahead(j, p)
    BY <1>0, <2>1, AheadOfTurn
  <2>3. InTurn(q)
    BY <1>0, <2>1, PlaceFields DEF InTurn
  <2>4. QED
    BY <1>0, <2>2, <2>3
<1>2. CASE p.endpoint = 2 /\ p.tier < Top
  <2>1. q = Turn("head", p.num, p.idx, p.tier + 1, 1)
    BY <1>0, <1>2 DEF NextEndpoint
  <2>2. Ahead(j, q) = p.num - p.idx + (IF p.tier + 1 <= j THEN 1 ELSE 0)
    BY <2>1, AheadOfTurn
  <2>3. InTurn(q)
    BY <1>0, <1>2, <2>1, PlaceFields DEF InTurn
  <2>4. QED
    BY <1>0, <2>2, <2>3
<1>3. CASE p.endpoint = 2 /\ p.tier = Top /\ p.idx < p.num
  <2>1. q = Turn("head", p.num, p.idx + 1, 1, 1)
    BY <1>0, <1>3 DEF NextEndpoint
  <2>2. Ahead(j, q) = p.num - (p.idx + 1) + 1
    BY <2>1, AheadOfTurn
  <2>3. InTurn(q)
    BY <1>0, <1>3, <2>1, PlaceFields DEF InTurn
  <2>4. QED
    BY <1>0, <1>3, <2>2, <2>3
<1>4. CASE p.endpoint = 2 /\ p.tier = Top /\ ~ p.idx < p.num
  <2>1. q = Rest("batch", 0)
    BY <1>0, <1>4 DEF NextEndpoint
  <2>2. Ahead(j, q) = 0 /\ InTurn(q)
    BY <2>1, AheadOfRest DEF InTurn
  <2>3. QED
    BY <1>0, <1>4, <2>2
<1>5. QED
  BY <1>0, <1>1, <1>2, <1>3, <1>4

\* A broadcast leaves a turn of tier j behind only if rank j + 1 makes it.
LEMMA StepAhead ==
    ASSUME NEW p, InTurn(p), NEW msg, msg.kind \in Kinds(p), NEW j \in 1 .. Top,
           NEW q, q = AfterMsg(p, msg)
    PROVE  /\ InTurn(q) /\ Ahead(j, q) <= Ahead(j, p)
           /\ Speaker(p) # j + 1 => Ahead(j, q) = Ahead(j, p)
<1>1. \/ p.pc = "batch" /\ msg.kind \in {"batch", "end"}
      \/ p.pc = "head" /\ msg.kind \in {"isolated", "not_isolated"}
      \/ p.pc = "ops" /\ msg.kind \in {"cut", "link"}
      \/ p.pc = "link" /\ msg.kind = "link"
  BY DEF Kinds
<1>2. CASE p.pc = "batch" /\ msg.kind \in {"batch", "end"}
  <2>1. q = Rest("done", 0) \/ q = Rest("reduce", msg.num)
    BY <1>2 DEF AfterMsg
  <2>2. InTurn(q) /\ Ahead(j, q) = 0
    BY <2>1, AheadOfRest DEF InTurn
  <2>3. Ahead(j, p) = 0
    BY <1>2 DEF Ahead, Repairs
  <2>4. QED
    BY <2>2, <2>3
<1>3. CASE p.pc \in {"head", "ops", "link"}
  <2>0. /\ Repairs(p) /\ Speaker(p) = p.tier + 1
        /\ p.num \in Nat /\ p.idx \in Nat /\ p.idx <= p.num /\ p.tier \in 1 .. Top /\ p.endpoint \in {1, 2}
        /\ Ahead(j, p) = p.num - p.idx + (IF p.tier <= j THEN 1 ELSE 0)
        /\ Top \in Nat
    BY <1>3, RankNumbers DEF Repairs, Speaker, InTurn, Ahead
  <2>1. CASE msg.kind \in {"isolated", "cut"}
    <3>1. PICK pc \in {"ops", "link"} : q = Turn(pc, p.num, p.idx, p.tier, p.endpoint)
      BY <2>1 DEF AfterMsg
    <3>2. Ahead(j, q) = Ahead(j, p)
      BY <2>0, <3>1, AheadOfTurn
    <3>3. InTurn(q)
      BY <2>0, <3>1, PlaceFields DEF InTurn
    <3>4. QED
      BY <2>0, <3>2, <3>3
  <2>2. CASE msg.kind \in {"not_isolated", "link"}
    <3>1. q = NextEndpoint(p)
      BY <2>2 DEF AfterMsg
    <3>2. /\ InTurn(q) /\ Ahead(j, q) <= Ahead(j, p)
          /\ p.tier # j => Ahead(j, q) = Ahead(j, p)
      BY <2>0, <3>1, NextAhead
    <3>3. QED
      BY <2>0, <3>2
  <2>3. QED
    BY <1>1, <1>3, <2>1, <2>2
<1>4. QED
  BY <1>1, <1>2, <1>3

\* On its way to the place all come to, a rank leaves no turn of its own behind.
LEMMA WalkAhead ==
    ASSUME NEW r, NEW p, NEW q \in Seq(Packets), NEW g, Reaches(r, p, q, g), InTurn(p), NEW j \in 1 .. Top
    PROVE  /\ InTurn(g) /\ Ahead(j, g) <= Ahead(j, p)
           /\ r = j + 1 => Ahead(j, g) = Ahead(j, p)
<1> DEFINE w == Walk(p, q)
           n == Len(q)
           Good(k) == /\ InTurn(w[k]) /\ Ahead(j, w[k]) <= Ahead(j, p)
                      /\ r = j + 1 => Ahead(j, w[k]) = Ahead(j, p)
           Bad == {k \in 0 .. n : ~ Good(k)}
<1>1. /\ n \in Nat /\ w[0] = p /\ w[n] = g
      /\ \A k \in 1 .. n : /\ w[k] = AfterMsg(w[k - 1], q[k].msg)
                           /\ q[k].root = Speaker(w[k - 1]) /\ q[k].root # r
                           /\ q[k].msg.kind \in Kinds(w[k - 1])
  BY WalkNext DEF Reaches
<1>j. j \in 0 .. Top
  BY RankNumbers
<1>2. Good(0)
  BY <1>1, <1>j, AheadNumber
<1> HIDE DEF w
<1>3. ASSUME Bad # {}
      PROVE  FALSE
  <2>0. Bad \in SUBSET Nat
    BY <1>1
  <2>1. PICK m \in Bad : \A k \in Bad : m <= k
    <3> HIDE DEF Bad
    <3>1. QED
      BY <1>3, <2>0, LeastNumber
  <2>2. m \in 1 .. n /\ m - 1 \in 0 .. n
    BY <1>1, <1>2, <2>1
  <2>3. Good(m - 1)
    BY <2>1, <2>2
  <2>4. /\ InTurn(w[m]) /\ Ahead(j, w[m]) <= Ahead(j, w[m - 1])
        /\ Speaker(w[m - 1]) # j + 1 => Ahead(j, w[m]) = Ahead(j, w[m - 1])
    BY <1>1, <2>2, <2>3, StepAhead
  <2>5. Ahead(j, w[m]) \in Int /\ Ahead(j, w[m - 1]) \in Int /\ Ahead(j, p) \in Int
    BY <1>j, <2>3, <2>4, AheadNumber
  <2>6. Speaker(w[m - 1]) # r
    BY <1>1, <2>2
  <2>7. Good(m)
    BY <2>3, <2>4, <2>5, <2>6
  <2>8. QED
    BY <2>1, <2>7
<1>4. n \in 0 .. n /\ n \notin Bad
  BY <1>1, <1>3
<1>5. Good(n)
  BY <1>4
<1>6. QED
  BY <1>1, <1>5

\* Where a rank is, its own turn lies ahead if it has not taken the refresh.
LEMMA TakeAhead ==
    ASSUME NEW r \in Ranks, NEW l \in Locals, Fits(r, l), NEW p, p = PlaceOf(l)
    PROVE  /\ InTurn(p)
           /\ r \in TierNodes \ {1} => ToTake(r, l) <= Ahead(TierNum(r), p)
<1>0. /\ l.num \in Nat /\ l.idx \in Nat /\ l.tier \in 0 .. Top /\ l.endpoint \in {1, 2}
      /\ Top \in Nat /\ Top >= 1 /\ l.idx <= l.num /\ NumTiers \in Nat
      /\ r \in Nat /\ r <= NumTiers /\ TierNum(r) = r - 1 /\ Top = NumTiers - 1
      /\ r \in TierNodes => r # Input /\ r >= 1
      /\ l.pc \in Points
  BY Fields, Numbers, RankNumbers DEF Fits, Locals
<1> DEFINE j == TierNum(r)
<1>f. /\ l.pc \in OwnTurn => l.tier = TierNum(r)
      /\ l.pc \in {"declare", "query", "cut", "link", "head", "ops", "answer"} => l.tier # 0
      /\ l.pc \in {"head", "ops"} => l.tier # TierNum(r)
      /\ l.pc = "pass" => TierNum(r) # Top
  BY DEF Fits
<1>t. r \in TierNodes \ {1} => j \in 1 .. Top
  BY <1>0
<1>1. CASE l.pc \in Resting
  <2>1. \E pc \in {"batch", "reduce", "done"} : \E num : p = Rest(pc, num)
    BY <1>1, Places DEF Resting
  <2>2. \A k : Ahead(k, p) = 0
    BY <2>1, AheadOfRest
  <2>3. InTurn(p)
    BY <2>1, AheadOfRest DEF InTurn
  <2>4. ToTake(r, l) = 0
    BY <1>1 DEF ToTake
  <2>5. QED
    BY <2>2, <2>3, <2>4
<1>2. CASE l.pc = "next"
  <2>1. ToTake(r, l) = l.num - l.idx
    BY <1>0, <1>2 DEF ToTake, HasTaken, HasPassed, Resting, OwnTurn
  <2>2. r \in TierNodes => ToTake(r, l) = l.num - l.idx
    BY <1>0, <2>1
  <2>3. CASE l.idx < l.num
    <3>1. p = Turn("head", l.num, l.idx + 1, 1, 1)
      BY <1>2, <2>3, Places
    <3>2. InTurn(p)
      BY <1>0, <2>3, <3>1, PlaceFields DEF InTurn
    <3>3. r \in TierNodes \ {1} => Ahead(j, p) = l.num - (l.idx + 1) + 1
      BY <1>t, <3>1, AheadOfTurn
    <3>4. QED
      BY <1>0, <2>2, <3>2, <3>3
  <2>4. CASE ~ l.idx < l.num
    <3>1. p = Rest("batch", 0)
      BY <1>0, <1>2, <2>4, Places
    <3>2. InTurn(p) /\ Ahead(j, p) = 0
      BY <3>1, AheadOfRest DEF InTurn
    <3>3. QED
      BY <1>0, <2>2, <2>4, <3>2
  <2>5. QED
    BY <2>3, <2>4
<1>3. CASE l.pc = "start"
  <2>1. p = Turn("head", l.num, l.idx, 1, 1)
    BY <1>3, Places
  <2>2. InTurn(p)
    BY <1>0, <2>1, PlaceFields DEF InTurn
  <2>3. r \notin TierNodes
    BY <1>0, <1>3 DEF Fits, OwnTurn
  <2>4. QED
    BY <2>2, <2>3
<1>4. CASE l.pc \in OwnTurn \cup {"head", "ops", "answer"}
  <2> DEFINE t == IF l.pc = "pass" THEN l.tier + 1 ELSE IF l.tier = 0 THEN 1 ELSE l.tier
             e == IF l.pc \in {"refresh", "pass"} THEN 1 ELSE l.endpoint
  <2>1. t \in 1 .. Top /\ e \in {1, 2}
    BY <1>0, <1>f, <1>4 DEF OwnTurn
  <2>2. \E pc \in {"head", "ops", "link"} : p = Turn(pc, l.num, l.idx, t, e)
    <3>1. CASE l.pc \in {"refresh", "pass"}
      BY <3>1, Places
    <3>2. CASE l.pc \in {"declare", "head", "query", "answer", "cut"}
      BY <1>f, <3>2, Places
    <3>3. CASE l.pc = "link" /\ l.weight = 0
      BY <1>f, <3>3, Places
    <3>4. CASE l.pc = "link" /\ l.weight # 0
      BY <1>f, <3>4, Places
    <3>5. CASE l.pc = "ops" /\ l.round = 1
      BY <1>f, <3>5, Places
    <3>6. CASE l.pc = "ops" /\ l.round # 1
      BY <1>f, <3>6, Places
    <3>7. QED
      BY <1>4, <3>1, <3>2, <3>3, <3>4, <3>5, <3>6 DEF OwnTurn
  <2>3. r \in TierNodes \ {1} => \/ HasTaken(r, l)
                                 \/ t <= j
    <3>1. SUFFICES ASSUME r \in TierNodes \ {1}
                   PROVE  HasTaken(r, l) \/ t <= j
      OBVIOUS
    <3>2. CASE l.pc \in OwnTurn \ {"refresh"}
      BY <3>2 DEF HasTaken
    <3>3. CASE l.pc = "refresh"
      BY <1>0, <1>f, <1>t, <3>1, <3>3 DEF OwnTurn
    <3>4. CASE l.pc \in {"head", "ops", "answer"}
      <4>1. l.tier > j => HasTaken(r, l)
        BY <1>0, <3>1, <3>4 DEF HasTaken, HasPassed, OwnTurn
      <4>2. l.tier <= j => t <= j
        BY <1>t, <3>1, <3>4
      <4>3. QED
        BY <1>0, <1>t, <3>1, <4>1, <4>2
    <3>5. QED
      BY <1>4, <3>2, <3>3, <3>4
  <2>4. l.pc \notin Resting
    BY <1>4 DEF Resting, OwnTurn
  <2>5. ToTake(r, l) = l.num - l.idx + (IF HasTaken(r, l) THEN 0 ELSE 1)
    BY <2>4, Turning
  <2> HIDE DEF t, e
  <2>6. InTurn(p)
    BY <1>0, <2>1, <2>2, PlaceFields DEF InTurn
  <2>7. Ahead(j, p) = l.num - l.idx + (IF t <= j THEN 1 ELSE 0)
    BY <2>2, AheadOfTurn
  <2>8. QED
    BY <1>0, <2>3, <2>5, <2>6, <2>7
<1>5. QED
  BY <1>0, <1>1, <1>2, <1>3, <1>4 DEF Points, Resting, OwnTurn

\* No rank is a whole update behind another.
LEMMA NobodyIsBehind ==
    ASSUME TalkInv, NEW r \in TierNodes \ {1}, NEW s \in Ranks, NEW num \in Nat, NEW idx \in Nat, NEW t \in 1 .. Top,
           Place(s) = Turn("head", num, idx, t, 1)
    PROVE  ToTake(r, loc[r]) <= num - idx + 1
<1>0. Typed /\ LocalInv /\ InStep /\ r \in Ranks /\ TierNum(r) \in 1 .. Top /\ r = TierNum(r) + 1 /\ Top \in Nat
      /\ Top \in 1 .. Top /\ TierNum(r) \in 0 .. Top /\ r \in TierNodes
  BY RankNumbers, Numbers DEF TalkInv
<1> DEFINE j == TierNum(r)
<1>1. PICK g : Together(g)
  BY <1>0, ComeTogether
<1>2. InTurn(Place(r)) /\ ToTake(r, loc[r]) <= Ahead(j, Place(r)) /\ InTurn(Place(s))
  BY <1>0, Here, TakeAhead
<1>j. j \in 1 .. Top /\ r = j + 1
  BY <1>0
<1> HIDE DEF j
<1>w. ASSUME NEW q \in Ranks, NEW p, p = Place(q), NEW b, b = bcasts[q], NEW i \in 1 .. Top
      PROVE  /\ InTurn(g) /\ Ahead(i, g) <= Ahead(i, p)
             /\ q = i + 1 => Ahead(i, g) = Ahead(i, p)
  <2>1. Reaches(q, p, b, g)
    BY <1>1, <1>w DEF Together
  <2>2. b \in Seq(Packets)
    BY <1>0, <1>w, TakeFacts
  <2>3. InTurn(p)
    BY <1>0, <1>w, Here, TakeAhead
  <2>4. QED
    BY <2>1, <2>2, <2>3, WalkAhead
<1>3. InTurn(g) /\ Ahead(j, g) = Ahead(j, Place(r))
  BY <1>0, <1>j, <1>w
<1>4. Ahead(Top, g) <= Ahead(Top, Place(s))
  BY <1>0, <1>w
<1>5. Ahead(Top, Place(s)) = num - idx + 1
  BY <1>0, AheadOfTurn
<1>6. Ahead(j, g) <= Ahead(Top, g) /\ Ahead(j, g) \in Int /\ Ahead(Top, g) \in Int
  <2>1. Top \in 0 .. Top /\ j \in 0 .. Top
    BY <1>0, <1>j
  <2>2. QED
    BY <1>3, <2>1, AheadNumber
<1>7. ToTake(r, loc[r]) \in Int /\ Ahead(Top, Place(s)) \in Int
  <2>1. loc[r].num \in Nat /\ loc[r].idx \in Nat
    BY <1>0, Here, Fields
  <2>2. QED
    BY <1>5, <2>1 DEF ToTake
<1>8. QED
  BY <1>2, <1>3, <1>4, <1>5, <1>6, <1>7

------------------------------------------------------------------------------
\* The refresh and the sizes

\* The messages still to send and to take are numbers.
LEMMA CountTypes ==
    ASSUME Typed, LocalInv, NEW r \in Ranks
    PROVE  ToTake(r, loc[r]) \in Int /\ ToSend(r, loc[r]) \in Int
<1>1. loc[r].num \in Nat /\ loc[r].idx \in Nat
  BY Here, Fields
<1>2. QED
  BY <1>1 DEF ToTake, ToSend

\* The pairs of ranks that exchange a refresh or sizes.
LEMMA Neighbours ==
    /\ \A q \in TierNodes : q \in Ranks /\ q - 1 \in Ranks /\ q - 1 # NumTiers /\ q # Input /\ q \in Nat
    /\ \A q \in 1 .. NumTiers - 1 : /\ q \in TierNodes /\ q + 1 \in TierNodes /\ q \in Ranks /\ q + 1 \in Ranks
                                    /\ q \notin {Input, NumTiers} /\ q + 1 \notin {Input, 1} /\ q \in Nat
  BY RankNumbers DEF TierNodes, Ranks, Input

\* A step that passes no refresh on and takes none.
LEMMA PassKeeps ==
    ASSUME Typed, LocalInv, PassInv, NEW r \in Ranks, NEW l, Step(r, l),
           r # Input => ToTake(r, l) = ToTake(r, loc[r]),
           r # NumTiers => ToSend(r, l) = ToSend(r, loc[r]),
           \A q \in TierNodes : net'[q - 1][q] = net[q - 1][q]
    PROVE  PassInv'
<1>1. loc'[r] = l /\ \A q \in Ranks \ {r} : loc'[q] = loc[q]
  BY StepLocal
<1>2. \A q \in TierNodes : ToTake(q, loc'[q]) = ToTake(q, loc[q])
  BY <1>1, Neighbours
<1>3. \A q \in TierNodes : ToSend(q - 1, loc'[q - 1]) = ToSend(q - 1, loc[q - 1])
  BY <1>1, Neighbours
<1>4. QED
  BY <1>2, <1>3 DEF PassInv

\* A step that exchanges no sizes.
LEMMA SizesKeeps ==
    ASSUME Typed, LocalInv, SizesInv, NEW r \in Ranks, NEW l, Step(r, l),
           r \notin {Input, NumTiers} => (SizesLeft(l, "recv") <=> SizesLeft(loc[r], "recv")),
           r \notin {Input, 1} => (SizesLeft(l, "send") <=> SizesLeft(loc[r], "send")),
           \A q \in 1 .. NumTiers - 1 : net'[q + 1][q] = net[q + 1][q]
    PROVE  SizesInv'
<1>1. loc'[r] = l /\ \A q \in Ranks \ {r} : loc'[q] = loc[q]
  BY StepLocal
<1>2. \A q \in 1 .. NumTiers - 1 : SizesLeft(loc'[q], "recv") <=> SizesLeft(loc[q], "recv")
  BY <1>1, Neighbours
<1>3. \A q \in 1 .. NumTiers - 1 : SizesLeft(loc'[q + 1], "send") <=> SizesLeft(loc[q + 1], "send")
  BY <1>1, Neighbours
<1>4. QED
  BY <1>2, <1>3 DEF SizesInv

\* A step that does neither keeps both counts.
LEMMA CountsKeep ==
    ASSUME Typed, LocalInv, PassInv, SizesInv, NEW r \in Ranks, NEW l, Step(r, l), Keeps(r, loc[r], l),
           \A q \in TierNodes : net'[q - 1][q] = net[q - 1][q],
           \A q \in 1 .. NumTiers - 1 : net'[q + 1][q] = net[q + 1][q]
    PROVE  PassInv' /\ SizesInv'
  BY PassKeeps, SizesKeeps DEF Keeps

\* The refresh of tier r - 1 goes to tier r.
LEMMA PassOn ==
    ASSUME TalkInv, PassInv, NEW r \in Ranks, r + 1 \in TierNodes, NEW l, Step(r, l),
           NEW msg \in Messages, Send(r, r + 1, msg),
           NEW t \in 1 .. Top, Place(r) = Turn("head", loc[r].num, loc[r].idx, t, 1),
           ToSend(r, loc[r]) = loc[r].num - loc[r].idx + 1, ToSend(r, l) = ToSend(r, loc[r]) - 1,
           r # Input => ToTake(r, l) = ToTake(r, loc[r])
    PROVE  PassInv'
<1> DEFINE s == r + 1
<1>0. /\ Typed /\ LocalInv /\ s \in TierNodes /\ s \in Ranks /\ s - 1 = r /\ s # r /\ r \in Nat /\ Input = 0
      /\ loc[r].num \in Nat /\ loc[r].idx \in Nat
  BY RankNumbers, Here, Fields DEF TalkInv
<1>1. loc'[r] = l /\ \A q \in Ranks \ {r} : loc'[q] = loc[q]
  BY <1>0, StepLocal
<1>2. /\ \A p, q \in Ranks : p # r \/ q # s => net'[p][q] = net[p][q]
      /\ net[r][s] \in Seq(Letters)
      /\ \E m \in Letters : net'[r][s] = Append(net[r][s], m)
  <2>1. Send(r, s, msg)
    OBVIOUS
  <2>2. Typed /\ s \in Ranks
    BY <1>0
  <2> HIDE DEF s
  <2>3. \A p, q \in Ranks : p # r \/ q # s => net'[p][q] = net[p][q]
    BY <2>1, <2>2, SendEffect
  <2>4. net[r][s] \in Seq(Letters) /\ \E m \in Letters : net'[r][s] = Append(net[r][s], m)
    BY <2>1, <2>2, SendEffect
  <2>5. QED
    BY <2>3, <2>4
<1>3. Len(net'[r][s]) = Len(net[r][s]) + 1 /\ Len(net[r][s]) \in Nat
  BY <1>2
<1>4. Len(net[r][s]) = ToTake(s, loc[s]) - ToSend(r, loc[r])
  BY <1>0 DEF PassInv
<1>5. ToTake(s, loc[s]) <= loc[r].num - loc[r].idx + 1
  <2>1. CASE s # 1
    <3>1. s \in TierNodes \ {1}
      BY <1>0, <2>1
    <3> HIDE DEF s
    <3>2. QED
      BY <1>0, <3>1, NobodyIsBehind
  <2>2. CASE s = 1
    <3>1. 1 \in TierNodes /\ 2 \in TierNodes \ {1} /\ 1 \in Ranks /\ 2 \in Ranks /\ 2 - 1 = 1 /\ r = Input
      BY <1>0, <2>2, RankNumbers DEF TierNodes
    <3>2. ToTake(2, loc[2]) <= loc[r].num - loc[r].idx + 1
      BY <1>0, <3>1, NobodyIsBehind
    <3>3. Len(net[1][2]) = ToTake(2, loc[2]) - ToSend(1, loc[1])
      BY <3>1 DEF PassInv
    <3>4. Len(net[1][2]) \in Nat
      <4>1. net[1][2] \in Seq(Letters)
        BY <1>0, <3>1 DEF Typed, Letters
      <4>2. QED
        BY <4>1
    <3>5. ToTake(1, loc[1]) <= ToSend(1, loc[1])
      <4>1. loc[1].num \in Nat /\ loc[1].idx \in Nat
        BY <1>0, <3>1, Here, Fields
      <4>2. HasPassed(1, loc[1]) => HasTaken(1, loc[1])
        BY DEF HasTaken
      <4>3. QED
        BY <4>1, <4>2 DEF ToTake, ToSend
    <3>6. /\ ToTake(1, loc[1]) \in Int /\ ToSend(1, loc[1]) \in Int /\ ToTake(2, loc[2]) \in Int
      BY <1>0, <3>1, CountTypes
    <3>7. QED
      BY <1>0, <2>2, <3>2, <3>3, <3>4, <3>5, <3>6
  <2>3. QED
    BY <2>1, <2>2
<1>6. ToTake(s, loc[s]) \in Int /\ ToSend(r, loc[r]) \in Int
  BY <1>0, CountTypes
<1>7. Len(net[r][s]) = 0
  BY <1>0, <1>3, <1>4, <1>5, <1>6
<1>8. Len(net'[r][s]) = ToTake(s, loc'[s]) - ToSend(r, loc'[r]) /\ Len(net'[r][s]) <= 1
  BY <1>0, <1>1, <1>3, <1>4, <1>6, <1>7
<1>9. ASSUME NEW q \in TierNodes, q # s
      PROVE  Len(net'[q - 1][q]) = ToTake(q, loc'[q]) - ToSend(q - 1, loc'[q - 1]) /\ Len(net'[q - 1][q]) <= 1
  <2>1. q \in Ranks /\ q - 1 \in Ranks /\ q # Input /\ q - 1 # r
    BY <1>0, <1>9, Neighbours
  <2>2. net'[q - 1][q] = net[q - 1][q] /\ loc'[q - 1] = loc[q - 1]
    BY <1>1, <1>2, <1>9, <2>1
  <2>3. ToTake(q, loc'[q]) = ToTake(q, loc[q])
    BY <1>1, <2>1
  <2>4. QED
    BY <2>2, <2>3 DEF PassInv
<1>10. QED
  BY <1>0, <1>8, <1>9 DEF PassInv

\* A tier takes the refresh of the one before.
LEMMA PassTaken ==
    ASSUME Typed, LocalInv, PassInv, NEW r \in TierNodes, r \in Ranks, r - 1 \in Ranks, NEW l, Step(r, l), Recv(r, r - 1),
           ToSend(r, l) = ToSend(r, loc[r]), ToTake(r, l) = ToTake(r, loc[r]) - 1
    PROVE  PassInv'
<1>0. r # r - 1 /\ r - 1 \in Nat
  BY Neighbours, RankNumbers
<1>1. loc'[r] = l /\ \A q \in Ranks \ {r} : loc'[q] = loc[q]
  BY StepLocal
<1>2. /\ net[r - 1][r] # <<>> /\ net[r - 1][r] \in Seq(Letters) /\ net'[r - 1][r] = Tail(net[r - 1][r])
      /\ \A p, q \in Ranks : p # r - 1 \/ q # r => net'[p][q] = net[p][q]
  BY RecvEffect
<1>3. Len(net'[r - 1][r]) = Len(net[r - 1][r]) - 1 /\ Len(net[r - 1][r]) \in Nat
  BY <1>2
<1>4. Len(net[r - 1][r]) = ToTake(r, loc[r]) - ToSend(r - 1, loc[r - 1]) /\ Len(net[r - 1][r]) <= 1
  BY DEF PassInv
<1>5. ToTake(r, loc[r]) \in Int /\ ToSend(r - 1, loc[r - 1]) \in Int /\ loc'[r - 1] = loc[r - 1]
  BY <1>0, <1>1, CountTypes
<1>6. Len(net'[r - 1][r]) = ToTake(r, loc'[r]) - ToSend(r - 1, loc'[r - 1]) /\ Len(net'[r - 1][r]) <= 1
  BY <1>1, <1>3, <1>4, <1>5
<1>7. ASSUME NEW q \in TierNodes, q # r
      PROVE  Len(net'[q - 1][q]) = ToTake(q, loc'[q]) - ToSend(q - 1, loc'[q - 1]) /\ Len(net'[q - 1][q]) <= 1
  <2>1. q \in Ranks /\ q - 1 \in Ranks /\ q # Input
    BY Neighbours
  <2>2. net'[q - 1][q] = net[q - 1][q] /\ loc'[q] = loc[q]
    BY <1>1, <1>2, <1>7, <2>1
  <2>3. ToSend(q - 1, loc'[q - 1]) = ToSend(q - 1, loc[q - 1])
    BY <1>1, <2>1
  <2>4. QED
    BY <2>2, <2>3 DEF PassInv
<1>8. QED
  BY <1>6, <1>7 DEF PassInv

\* The sizes go to the tier below, ...
LEMMA SizesSent ==
    ASSUME Typed, LocalInv, SizesInv, NEW r \in TierNodes, NEW l, Step(r, l), SendsSizes(r, l)
    PROVE  SizesInv'
<1> DEFINE s == r - 1
<1>0. /\ s + 1 = r /\ s # r /\ s \in 1 .. NumTiers - 1 /\ s \in Ranks /\ r \in Ranks /\ r \in Nat /\ s \in Nat
  BY RankNumbers DEF SendsSizes, TierNodes
<1>1. loc'[r] = l /\ \A q \in Ranks \ {r} : loc'[q] = loc[q]
  BY <1>0, StepLocal
<1>2. /\ net[r][s] \in Seq(Letters) /\ \E m \in Letters : net'[r][s] = Append(net[r][s], m)
      /\ \A p, q \in Ranks : p # r \/ q # s => net'[p][q] = net[p][q]
  BY <1>0, SendEffect DEF SendsSizes
<1>3. Len(net'[r][s]) = Len(net[r][s]) + 1 /\ Len(net[r][s]) \in Nat
  BY <1>2
<1>4. SizesLeft(loc[r], "send") /\ ~ SizesLeft(l, "send") /\ (SizesLeft(l, "recv") <=> SizesLeft(loc[r], "recv"))
  BY DEF SendsSizes
<1>5. Len(net[r][s]) = (IF SizesLeft(loc[s], "recv") THEN 1 ELSE 0) - (IF SizesLeft(loc[r], "send") THEN 1 ELSE 0)
  BY <1>0 DEF SizesInv
<1>6. loc'[s] = loc[s]
  BY <1>0, <1>1
<1>7. Len(net'[r][s]) = (IF SizesLeft(loc'[s], "recv") THEN 1 ELSE 0) - (IF SizesLeft(loc'[r], "send") THEN 1 ELSE 0)
  BY <1>1, <1>3, <1>4, <1>5, <1>6
<1>8. ASSUME NEW q \in 1 .. NumTiers - 1, q # s
      PROVE  Len(net'[q + 1][q]) = (IF SizesLeft(loc'[q], "recv") THEN 1 ELSE 0)
                                   - (IF SizesLeft(loc'[q + 1], "send") THEN 1 ELSE 0)
  <2>1. q \in Ranks /\ q + 1 \in Ranks /\ q + 1 # r
    BY <1>0, <1>8, Neighbours
  <2>2. net'[q + 1][q] = net[q + 1][q] /\ loc'[q + 1] = loc[q + 1]
    BY <1>1, <1>2, <1>8, <2>1
  <2>3. SizesLeft(loc'[q], "recv") <=> SizesLeft(loc[q], "recv")
    BY <1>1, <1>4, <2>1
  <2>4. QED
    BY <2>2, <2>3 DEF SizesInv
<1>9. QED
  BY <1>0, <1>7, <1>8 DEF SizesInv

\* ... and are taken there.
LEMMA SizesTaken ==
    ASSUME Typed, LocalInv, SizesInv, NEW r \in TierNodes, NEW l, Step(r, l), TakesSizes(r, l)
    PROVE  SizesInv'
<1> DEFINE s == r + 1
<1>0. /\ s # r /\ r \in 1 .. NumTiers - 1 /\ s \in Ranks /\ r \in Ranks /\ r \in Nat /\ s \in Nat
  BY RankNumbers DEF TakesSizes, TierNodes
<1>1. loc'[r] = l /\ \A q \in Ranks \ {r} : loc'[q] = loc[q]
  BY <1>0, StepLocal
<1>2. /\ net[s][r] # <<>> /\ net[s][r] \in Seq(Letters) /\ net'[s][r] = Tail(net[s][r])
      /\ \A p, q \in Ranks : p # s \/ q # r => net'[p][q] = net[p][q]
  BY <1>0, RecvEffect DEF TakesSizes
<1>3. Len(net'[s][r]) = Len(net[s][r]) - 1 /\ Len(net[s][r]) \in Nat
  BY <1>2
<1>4. SizesLeft(loc[r], "recv") /\ ~ SizesLeft(l, "recv") /\ (SizesLeft(l, "send") <=> SizesLeft(loc[r], "send"))
  BY DEF TakesSizes
<1>5. Len(net[s][r]) = (IF SizesLeft(loc[r], "recv") THEN 1 ELSE 0) - (IF SizesLeft(loc[s], "send") THEN 1 ELSE 0)
  BY <1>0 DEF SizesInv
<1>6. loc'[s] = loc[s]
  BY <1>0, <1>1
<1>7. Len(net'[s][r]) = (IF SizesLeft(loc'[r], "recv") THEN 1 ELSE 0) - (IF SizesLeft(loc'[s], "send") THEN 1 ELSE 0)
  BY <1>1, <1>3, <1>4, <1>5, <1>6
<1>8. ASSUME NEW q \in 1 .. NumTiers - 1, q # r
      PROVE  Len(net'[q + 1][q]) = (IF SizesLeft(loc'[q], "recv") THEN 1 ELSE 0)
                                   - (IF SizesLeft(loc'[q + 1], "send") THEN 1 ELSE 0)
  <2>1. q \in Ranks /\ q + 1 \in Ranks
    BY Neighbours
  <2>2. net'[q + 1][q] = net[q + 1][q] /\ loc'[q] = loc[q]
    BY <1>1, <1>2, <1>8, <2>1
  <2>3. SizesLeft(loc'[q + 1], "send") <=> SizesLeft(loc[q + 1], "send")
    BY <1>1, <1>4, <2>1
  <2>4. QED
    BY <2>2, <2>3 DEF SizesInv
<1>9. QED
  BY <1>0, <1>7, <1>8 DEF SizesInv

------------------------------------------------------------------------------
\* Held senders

\* Who may be held by whom.
Holds(q, r) == \/ \E k \in 1 .. Len(bcasts[q]) : bcasts[q][k].root = r /\ bcasts[q][k].waits
               \/ \E k \in 1 .. Len(net[r][q]) : net[r][q][k].waits
HeldInv == \A r \in Ranks : r \notin blocked[r] /\ \A q \in blocked[r] : Holds(q, r)

\* What TypeOK and BlockedInv say of the senders that are held.
LEMMA HeldIsBlocked == (HeldInv <=> BlockedInv /\ \A r \in Ranks : r \notin blocked[r])
  BY DEF HeldInv, BlockedInv, Holds

\* The entries of a longer queue, ...
LEMMA Appended ==
    ASSUME NEW S, NEW q \in Seq(S), NEW m \in S, NEW p, p = Append(q, m)
    PROVE  /\ \A k \in 1 .. Len(q) : k \in 1 .. Len(p) /\ p[k] = q[k]
           /\ Len(p) \in 1 .. Len(p) /\ p[Len(p)] = m
  OBVIOUS

\* ... and of one that lost its head.
LEMMA Shortened ==
    ASSUME NEW S, NEW q \in Seq(S), q # <<>>, NEW p, p = Tail(q)
    PROVE  \A k \in 1 .. Len(q) : q[k] # Head(q) => k - 1 \in 1 .. Len(p) /\ p[k - 1] = q[k]
<1>1. TAKE k \in 1 .. Len(q)
<1>2. Len(q) \in Nat /\ Head(q) = q[1] /\ p \in Seq(S) /\ Len(p) = Len(q) - 1
  OBVIOUS
<1>3. \A i \in 1 .. Len(p) : p[i] = q[i + 1]
  OBVIOUS
<1>4. CASE k = 1
  BY <1>2, <1>4
<1>5. CASE k # 1
  <2>1. k - 1 \in 1 .. Len(p) /\ (k - 1) + 1 = k
    BY <1>2, <1>5
  <2>2. QED
    BY <1>3, <2>1
<1>6. QED
  BY <1>4, <1>5

\* What is owed to r stays owed unless it is taken.
LEMMA StillHolds ==
    ASSUME NEW q \in Ranks, NEW r \in Ranks, Holds(q, r),
           \A k \in 1 .. Len(bcasts[q]) : \E i \in 1 .. Len(bcasts'[q]) : bcasts'[q][i] = bcasts[q][k],
           \A k \in 1 .. Len(net[r][q]) : \E i \in 1 .. Len(net'[r][q]) : net'[r][q][i] = net[r][q][k]
    PROVE  Holds(q, r)'
<1>1. CASE \E k \in 1 .. Len(bcasts[q]) : bcasts[q][k].root = r /\ bcasts[q][k].waits
  <2>1. PICK k \in 1 .. Len(bcasts[q]) : bcasts[q][k].root = r /\ bcasts[q][k].waits
    BY <1>1
  <2>2. PICK i \in 1 .. Len(bcasts'[q]) : bcasts'[q][i] = bcasts[q][k]
    OBVIOUS
  <2>3. bcasts'[q][i].root = r /\ bcasts'[q][i].waits
    BY <2>1, <2>2
  <2>4. QED
    BY <2>3 DEF Holds
<1>2. CASE \E k \in 1 .. Len(net[r][q]) : net[r][q][k].waits
  <2>1. PICK k \in 1 .. Len(net[r][q]) : net[r][q][k].waits
    BY <1>2
  <2>2. PICK i \in 1 .. Len(net'[r][q]) : net'[r][q][i] = net[r][q][k]
    OBVIOUS
  <2>3. net'[r][q][i].waits
    BY <2>1, <2>2
  <2>4. QED
    BY <2>3 DEF Holds
<1>3. QED
  BY <1>1, <1>2 DEF Holds

\* A held sender has its message under way: when a message is sent, ...
LEMMA SendHeld ==
    ASSUME Typed, HeldInv, NEW r \in Ranks, NEW to \in Ranks, to # r, NEW msg \in Messages, Send(r, to, msg)
    PROVE  HeldInv'
<1>1. PICK m \in Letters : /\ net'[r][to] = Append(net[r][to], m)
                           /\ blocked' = [blocked EXCEPT ![r] = IF m.waits THEN {to} ELSE {}]
  BY SendEffect
<1>2. /\ bcasts' = bcasts /\ net[r][to] \in Seq(Letters)
      /\ \A s, q \in Ranks : s # r \/ q # to => net'[s][q] = net[s][q]
  BY SendEffect
<1>3. blocked'[r] = (IF m.waits THEN {to} ELSE {}) /\ \A p \in Ranks \ {r} : blocked'[p] = blocked[p]
  BY <1>1 DEF Typed
<1>4. \A p \in Ranks : p \notin blocked'[p]
  BY <1>3 DEF HeldInv
<1>5. ASSUME NEW p \in Ranks, NEW q \in blocked'[p]
      PROVE  Holds(q, p)'
  <2>1. CASE p = r
    <3>1. m.waits /\ q = to
      BY <1>3, <1>5, <2>1
    <3>2. /\ Len(net'[r][to]) \in 1 .. Len(net'[r][to]) /\ net'[r][to][Len(net'[r][to])] = m
      BY <1>1, <1>2, Appended
    <3>3. QED
      BY <2>1, <3>1, <3>2 DEF Holds
  <2>2. CASE p # r
    <3>1. Holds(q, p) /\ q \in Ranks
      BY <1>3, <1>5, <2>2 DEF HeldInv, Typed
    <3>2. net'[p][q] = net[p][q]
      BY <1>2, <2>2, <3>1
    <3>3. QED
      BY <1>2, <3>1, <3>2 DEF Holds
  <2>3. QED
    BY <2>1, <2>2
<1>6. QED
  BY <1>4, <1>5 DEF HeldInv

\* ... broadcast, ...
LEMMA BcastHeld ==
    ASSUME Typed, HeldInv, NEW r \in Ranks, NEW msg \in Announcements, Bcast(r, msg)
    PROVE  HeldInv'
<1>1. PICK m \in Packets : /\ m.msg = msg /\ m.root = r
                           /\ \A q \in Ranks \ {r} : bcasts'[q] = Append(bcasts[q], m)
                           /\ blocked' = [blocked EXCEPT ![r] = IF m.waits THEN Ranks \ {r} ELSE {}]
  BY BcastEffect
<1>2. net' = net /\ bcasts'[r] = bcasts[r]
  BY BcastEffect
<1>3. blocked'[r] = (IF m.waits THEN Ranks \ {r} ELSE {}) /\ \A p \in Ranks \ {r} : blocked'[p] = blocked[p]
  BY <1>1 DEF Typed
<1>4. \A p \in Ranks : p \notin blocked'[p]
  BY <1>3 DEF HeldInv
<1>5. \A q \in Ranks : bcasts[q] \in Seq(Packets)
  BY Types DEF BcastsType
<1>6. ASSUME NEW p \in Ranks, NEW q \in blocked'[p]
      PROVE  Holds(q, p)'
  <2>1. CASE p = r
    <3>1. m.waits /\ q \in Ranks \ {r}
      BY <1>3, <1>6, <2>1
    <3>2. Len(bcasts'[q]) \in 1 .. Len(bcasts'[q]) /\ bcasts'[q][Len(bcasts'[q])] = m
      BY <1>1, <1>5, <3>1, Appended
    <3>3. QED
      BY <1>1, <2>1, <3>1, <3>2 DEF Holds
  <2>2. CASE p # r
    <3>1. Holds(q, p) /\ q \in Ranks
      BY <1>3, <1>6, <2>2 DEF HeldInv, Typed
    <3>2. \A k \in 1 .. Len(bcasts[q]) : \E i \in 1 .. Len(bcasts'[q]) : bcasts'[q][i] = bcasts[q][k]
      <4>1. CASE q = r
        BY <1>2, <4>1
      <4>2. CASE q # r
        <5>1. \A k \in 1 .. Len(bcasts[q]) : k \in 1 .. Len(bcasts'[q]) /\ bcasts'[q][k] = bcasts[q][k]
          BY <1>1, <1>5, <3>1, <4>2, Appended
        <5>2. QED
          BY <5>1
      <4>3. QED
        BY <4>1, <4>2
    <3>3. QED
      BY <1>2, <3>1, <3>2, StillHolds
  <2>3. QED
    BY <2>1, <2>2
<1>7. QED
  BY <1>4, <1>6 DEF HeldInv

\* Who takes a message releases its sender, and nobody else.
LEMMA Released ==
    ASSUME Typed, NEW r \in Ranks, NEW from \in Ranks, NEW packet, blocked' = Taken(r, from, packet)
    PROVE  /\ \A p \in Ranks : blocked'[p] \subseteq blocked[p]
           /\ packet.waits => r \notin blocked'[from]
<1>1. CASE packet.waits
  BY <1>1 DEF Taken, Typed
<1>2. CASE ~ packet.waits
  BY <1>2 DEF Taken
<1>3. QED
  BY <1>1, <1>2

\* ... received, ...
LEMMA RecvHeld ==
    ASSUME Typed, HeldInv, NEW r \in Ranks, NEW from \in Ranks, Recv(r, from)
    PROVE  HeldInv'
<1>1. /\ bcasts' = bcasts /\ net[from][r] # <<>> /\ net[from][r] \in Seq(Letters)
      /\ net'[from][r] = Tail(net[from][r])
      /\ \A s, q \in Ranks : s # from \/ q # r => net'[s][q] = net[s][q]
      /\ blocked' = Taken(r, from, Head(net[from][r]))
  BY RecvEffect
<1>2. /\ \A p \in Ranks : blocked'[p] \subseteq blocked[p]
      /\ Head(net[from][r]).waits => r \notin blocked'[from]
  BY <1>1, Released
<1>3. \A p \in Ranks : p \notin blocked'[p]
  BY <1>2 DEF HeldInv
<1>4. ASSUME NEW p \in Ranks, NEW q \in blocked'[p]
      PROVE  Holds(q, p)'
  <2>1. Holds(q, p) /\ q \in Ranks
    BY <1>2 DEF HeldInv, Typed
  <2>2. CASE p = from /\ q = r
    <3>1. ~ Head(net[from][r]).waits
      BY <1>2, <2>2
    <3>2. CASE \E k \in 1 .. Len(net[p][q]) : net[p][q][k].waits
      <4>1. PICK k \in 1 .. Len(net[p][q]) : net[p][q][k].waits
        BY <3>2
      <4>2. /\ net[p][q] \in Seq(Letters) /\ net[p][q] # <<>> /\ net'[p][q] = Tail(net[p][q])
            /\ net[p][q][k] # Head(net[p][q])
        BY <1>1, <2>2, <3>1, <4>1
      <4>3. k - 1 \in 1 .. Len(net'[p][q]) /\ net'[p][q][k - 1] = net[p][q][k]
        BY <4>2, Shortened
      <4>4. QED
        BY <4>1, <4>3 DEF Holds
    <3>3. CASE \E k \in 1 .. Len(bcasts[q]) : bcasts[q][k].root = p /\ bcasts[q][k].waits
      BY <1>1, <3>3 DEF Holds
    <3>4. QED
      BY <2>1, <3>2, <3>3 DEF Holds
  <2>3. CASE p # from \/ q # r
    <3>1. net'[p][q] = net[p][q]
      BY <1>1, <2>1, <2>3
    <3>2. QED
      BY <1>1, <2>1, <3>1 DEF Holds
  <2>4. QED
    BY <2>2, <2>3
<1>5. QED
  BY <1>3, <1>4 DEF HeldInv

\* ... or taken as a broadcast.
LEMMA TakeHeld ==
    ASSUME Typed, HeldInv, InStep, NEW r \in Ranks, TakeBcast(r)
    PROVE  HeldInv'
<1> DEFINE root == Head(bcasts[r]).root
<1>1. /\ net' = net /\ bcasts[r] # <<>> /\ bcasts[r] \in Seq(Packets) /\ bcasts'[r] = Tail(bcasts[r])
      /\ \A q \in Ranks \ {r} : bcasts'[q] = bcasts[q]
      /\ blocked' = Taken(r, root, Head(bcasts[r])) /\ root \in Ranks
  BY TakeEffect DEF Packets
<1>2. /\ \A p \in Ranks : blocked'[p] \subseteq blocked[p]
      /\ Head(bcasts[r]).waits => r \notin blocked'[root]
  <2> HIDE DEF root
  <2>1. QED
    BY <1>1, Released
<1>3. \A p \in Ranks : p \notin blocked'[p]
  BY <1>2 DEF HeldInv
<1>4. ASSUME NEW p \in Ranks, NEW q \in blocked'[p]
      PROVE  Holds(q, p)'
  <2>1. Holds(q, p) /\ q \in Ranks
    BY <1>2 DEF HeldInv, Typed
  <2>2. CASE q = r
    <3>1. CASE \E k \in 1 .. Len(bcasts[q]) : bcasts[q][k].root = p /\ bcasts[q][k].waits
      <4>1. PICK k \in 1 .. Len(bcasts[q]) : bcasts[q][k].root = p /\ bcasts[q][k].waits
        BY <3>1
      <4>2. bcasts[q][k] # Head(bcasts[r])
        BY <1>2, <1>4, <2>2, <4>1
      <4>3. k - 1 \in 1 .. Len(bcasts'[q]) /\ bcasts'[q][k - 1] = bcasts[q][k]
        BY <1>1, <2>2, <4>2, Shortened
      <4>4. QED
        BY <4>1, <4>3 DEF Holds
    <3>2. CASE \E k \in 1 .. Len(net[p][q]) : net[p][q][k].waits
      BY <1>1, <3>2 DEF Holds
    <3>3. QED
      BY <2>1, <3>1, <3>2 DEF Holds
  <2>3. CASE q # r
    <3>1. bcasts'[q] = bcasts[q]
      BY <1>1, <2>1, <2>3
    <3>2. QED
      BY <1>1, <2>1, <3>1 DEF Holds
  <2>4. QED
    BY <2>2, <2>3
<1>5. QED
  BY <1>3, <1>4 DEF HeldInv

\* Messages go to a neighbour or come from the input node, ...
LEMMA SendSilent ==
    ASSUME Typed, SilentInv, NEW r \in Ranks, NEW to \in Ranks, to # Input, r \in {to - 1, to + 1, Input},
           NEW msg \in Messages, Send(r, to, msg)
    PROVE  SilentInv'
<1>1. \A s, q \in Ranks : s # r \/ q # to => net'[s][q] = net[s][q]
  BY SendEffect
<1>2. QED
  BY <1>1 DEF SilentInv

\* ... and are received from there.
LEMMA RecvSilent ==
    ASSUME Typed, SilentInv, NEW r \in Ranks, NEW from \in Ranks, Recv(r, from)
    PROVE  SilentInv'
<1>1. /\ net[from][r] # <<>>
      /\ \A s, q \in Ranks : s # from \/ q # r => net'[s][q] = net[s][q]
  BY RecvEffect
<1>2. QED
  BY <1>1 DEF SilentInv

------------------------------------------------------------------------------
\* The theorems

NetInv == TalkInv /\ SizesInv /\ PassInv /\ SilentInv /\ HeldInv

\* What a step leaves as it is.
LEMMA NeighboursKeep ==
    ASSUME net' = net
    PROVE  /\ \A q \in TierNodes : net'[q - 1][q] = net[q - 1][q]
           /\ \A q \in 1 .. NumTiers - 1 : net'[q + 1][q] = net[q + 1][q]
           /\ SilentInv => SilentInv'
  BY DEF SilentInv

\* What is under way stays the difference of what was sent and taken: when a refresh starts, ...
LEMMA StartRefreshNet ==
    ASSUME NetInv, StartRefresh
    PROVE  SizesInv' /\ PassInv' /\ SilentInv' /\ HeldInv'
<1>0. Typed /\ LocalInv /\ TalkInv /\ SizesInv /\ PassInv /\ SilentInv /\ HeldInv
  BY DEF NetInv, TalkInv
<1>1. /\ Input \in Ranks /\ 1 \in Ranks /\ 1 \in TierNodes /\ 1 \in 1 .. Top /\ Input + 1 = 1 /\ Input = 0
      /\ 0 \in Ranks /\ 1 # Input
  BY RankNumbers DEF TierNodes
<1> DEFINE msg == [kind |-> "refresh"]
<1>2. /\ loc[Input].pc = "start" /\ Send(Input, 1, msg) /\ msg \in Messages
      /\ ToSend(Input, loc[Input]) = loc[Input].num - loc[Input].idx + 1
      /\ Place(Input) = Turn("head", loc[Input].num, loc[Input].idx, 1, 1)
  BY <1>0, StartRefreshQuiet
<1>3. PICK l : Quiet(Input, l) /\ l.pc = "head" /\ ToSend(Input, l) = ToSend(Input, loc[Input]) - 1
  BY <1>0, StartRefreshQuiet
<1>4. Step(Input, l)
  BY <1>3 DEF Quiet
<1> HIDE DEF msg
<1>5. PassInv'
  <2>1. Send(Input, Input + 1, msg)
    BY <1>1, <1>2
  <2>2. QED
    BY <1>0, <1>1, <1>2, <1>3, <1>4, <2>1, PassOn
<1>6. \A s, q \in Ranks : s # Input \/ q # 1 => net'[s][q] = net[s][q]
  BY <1>0, <1>1, <1>2, SendEffect
<1>7. SizesInv'
  <2>1. \A q \in 1 .. NumTiers - 1 : net'[q + 1][q] = net[q + 1][q]
    BY <1>1, <1>6, Neighbours
  <2>2. QED
    BY <1>0, <1>1, <1>4, <2>1, SizesKeeps
<1>8. SilentInv' /\ HeldInv'
  BY <1>0, <1>1, <1>2, SendSilent, SendHeld
<1>9. QED
  BY <1>5, <1>7, <1>8

\* ... is passed on, ...
LEMMA PassRefreshNet ==
    ASSUME NetInv, NEW r \in TierNodes, PassRefresh(r)
    PROVE  SizesInv' /\ PassInv' /\ SilentInv' /\ HeldInv'
<1>0. Typed /\ LocalInv /\ TalkInv /\ SizesInv /\ PassInv /\ SilentInv /\ HeldInv
  BY DEF NetInv, TalkInv
<1> DEFINE msg == [kind |-> "refresh"]
           to == r + 1
<1>2. /\ loc[r].pc = "pass" /\ Send(r, to, msg) /\ msg \in Messages /\ to \in TierNodes
      /\ ToSend(r, loc[r]) = loc[r].num - loc[r].idx + 1
      /\ Place(r) = Turn("head", loc[r].num, loc[r].idx, r, 1)
  BY <1>0, PassRefreshQuiet
<1>3. PICK l : /\ Quiet(r, l) /\ l.pc = "head" /\ ToSend(r, l) = ToSend(r, loc[r]) - 1
               /\ ToTake(r, l) = ToTake(r, loc[r])
  BY <1>0, PassRefreshQuiet
<1>1. /\ r \in Ranks /\ to \in Ranks /\ r \in 1 .. Top /\ to # Input /\ to # r /\ r = to - 1 /\ r # to + 1
      /\ r \in Nat
  BY <1>2, RankNumbers DEF TierNodes
<1>4. Step(r, l)
  BY <1>3 DEF Quiet
<1> HIDE DEF msg
<1>5. PassInv'
  <2>1. Send(r, r + 1, msg) /\ r + 1 \in TierNodes
    BY <1>2
  <2>2. QED
    BY <1>0, <1>1, <1>2, <1>3, <1>4, <2>1, PassOn
<1> HIDE DEF to
<1>6. \A s, q \in Ranks : s # r \/ q # to => net'[s][q] = net[s][q]
  BY <1>0, <1>1, <1>2, SendEffect
<1>7. SizesInv'
  <2>1. \A q \in 1 .. NumTiers - 1 : net'[q + 1][q] = net[q + 1][q]
    BY <1>1, <1>6, Neighbours
  <2>2. loc[r].pc \notin Resting /\ l.pc \notin Resting
    BY <1>2, <1>3 DEF Resting
  <2>3. /\ SizesLeft(l, "recv") /\ SizesLeft(l, "send") /\ SizesLeft(loc[r], "recv") /\ SizesLeft(loc[r], "send")
    BY <2>2, Turning
  <2>4. QED
    BY <1>0, <1>1, <1>4, <2>1, <2>3, SizesKeeps
<1>8. SilentInv' /\ HeldInv'
  BY <1>0, <1>1, <1>2, SendSilent, SendHeld
<1>9. QED
  BY <1>5, <1>7, <1>8

\* ... or taken, ...
LEMMA TakeRefreshNet ==
    ASSUME NetInv, NEW r \in TierNodes, TakeRefresh(r)
    PROVE  SizesInv' /\ PassInv' /\ SilentInv' /\ HeldInv'
<1>0. Typed /\ LocalInv /\ TalkInv /\ SizesInv /\ PassInv /\ SilentInv /\ HeldInv
  BY DEF NetInv, TalkInv
<1> DEFINE from == r - 1
<1>2. loc[r].pc = "refresh" /\ Recv(r, from) /\ from \in Ranks
  BY <1>0, TakeRefreshQuiet
<1>3. PICK l : /\ Quiet(r, l) /\ l.pc \in {"pass", "declare"} /\ ToSend(r, l) = ToSend(r, loc[r])
               /\ ToTake(r, l) = ToTake(r, loc[r]) - 1
  BY <1>0, TakeRefreshQuiet
<1>1. r \in Ranks /\ r \in Nat /\ from \in Nat /\ r = from + 1
  BY <1>2, RankNumbers
<1>4. Step(r, l)
  BY <1>3 DEF Quiet
<1>5. PassInv'
  BY <1>0, <1>1, <1>2, <1>3, <1>4, PassTaken
<1> HIDE DEF from
<1>6. \A s, q \in Ranks : s # from \/ q # r => net'[s][q] = net[s][q]
  BY <1>0, <1>1, <1>2, RecvEffect
<1>7. SizesInv'
  <2>1. \A q \in 1 .. NumTiers - 1 : net'[q + 1][q] = net[q + 1][q]
    BY <1>1, <1>6, Neighbours
  <2>2. loc[r].pc \notin Resting /\ l.pc \notin Resting
    BY <1>2, <1>3 DEF Resting
  <2>3. /\ SizesLeft(l, "recv") /\ SizesLeft(l, "send") /\ SizesLeft(loc[r], "recv") /\ SizesLeft(loc[r], "send")
    BY <2>2, Turning
  <2>4. QED
    BY <1>0, <1>1, <1>4, <2>1, <2>3, SizesKeeps
<1>8. SilentInv' /\ HeldInv'
  BY <1>0, <1>1, <1>2, RecvSilent, RecvHeld
<1>9. QED
  BY <1>5, <1>7, <1>8

\* ... when the input node answers, ...
LEMMA AnswerNet ==
    ASSUME NetInv, Answer
    PROVE  SizesInv' /\ PassInv' /\ SilentInv' /\ HeldInv'
<1>0. Typed /\ LocalInv /\ TalkInv /\ SizesInv /\ PassInv /\ SilentInv /\ HeldInv
  BY DEF NetInv, TalkInv
<1> DEFINE to == loc[Input].tier + 1
<1>2. to \in TierNodes \ {1}
  BY <1>0, AnswerQuiet
<1>l. PICK l : \E weight \in 0 .. Top :
           /\ Quiet(Input, l) /\ Keeps(Input, loc[Input], l)
           /\ [kind |-> "lct", weight |-> weight] \in Messages
           /\ Send(Input, to, [kind |-> "lct", weight |-> weight])
  BY <1>0, AnswerQuiet
<1>3. PICK weight \in 0 .. Top :
           /\ Quiet(Input, l) /\ Keeps(Input, loc[Input], l)
           /\ [kind |-> "lct", weight |-> weight] \in Messages
           /\ Send(Input, to, [kind |-> "lct", weight |-> weight])
  BY <1>l
<1> DEFINE msg == [kind |-> "lct", weight |-> weight]
<1> HIDE DEF to
<1>1. /\ Input \in Ranks /\ to \in Ranks /\ to # Input /\ Input = 0 /\ to \in Nat /\ to # 1
  BY <1>2, RankNumbers
<1>4. Step(Input, l)
  BY <1>3 DEF Quiet
<1>5. Send(Input, to, msg) /\ msg \in Messages
  BY <1>3
<1> HIDE DEF msg
<1>6. \A s, q \in Ranks : s # Input \/ q # to => net'[s][q] = net[s][q]
  BY <1>0, <1>1, <1>5, SendEffect
<1>7. \A q \in TierNodes : net'[q - 1][q] = net[q - 1][q]
  <2>1. TAKE q \in TierNodes
  <2>2. q - 1 # Input \/ q # to
    BY <1>1, Neighbours
  <2>3. QED
    BY <1>6, <2>2, Neighbours
<1>8. \A q \in 1 .. NumTiers - 1 : net'[q + 1][q] = net[q + 1][q]
  BY <1>1, <1>6, Neighbours
<1>9. PassInv' /\ SizesInv'
  BY <1>0, <1>1, <1>3, <1>4, <1>7, <1>8, CountsKeep
<1>10. SilentInv' /\ HeldInv'
  BY <1>0, <1>1, <1>5, SendSilent, SendHeld
<1>11. QED
  BY <1>9, <1>10

\* ... its answer is taken, ...
LEMMA ResponseNet ==
    ASSUME NetInv, NEW r \in TierNodes, TakeResponse(r)
    PROVE  SizesInv' /\ PassInv' /\ SilentInv' /\ HeldInv'
<1>0. Typed /\ LocalInv /\ TalkInv /\ SizesInv /\ PassInv /\ SilentInv /\ HeldInv /\ AnswerInv
  BY DEF NetInv, TalkInv
<1>1. /\ Input \in Ranks /\ Input = 0 /\ r \in Ranks /\ r \in Nat
  BY RankNumbers
<1>2. r # 1 /\ Recv(r, Input)
  BY <1>0, TakeResponseQuiet
<1>3. PICK l : Quiet(r, l) /\ Keeps(r, loc[r], l)
  BY <1>0, TakeResponseQuiet
<1>4. Step(r, l)
  BY <1>3 DEF Quiet
<1>6. \A s, q \in Ranks : s # Input \/ q # r => net'[s][q] = net[s][q]
  BY <1>0, <1>1, <1>2, RecvEffect
<1>7. \A q \in TierNodes : net'[q - 1][q] = net[q - 1][q]
  <2>1. TAKE q \in TierNodes
  <2>2. q - 1 # Input \/ q # r
    BY <1>1, <1>2, Neighbours
  <2>3. QED
    BY <1>6, <2>2, Neighbours
<1>8. \A q \in 1 .. NumTiers - 1 : net'[q + 1][q] = net[q + 1][q]
  BY <1>1, <1>6, Neighbours
<1>9. PassInv' /\ SizesInv'
  BY <1>0, <1>1, <1>3, <1>4, <1>7, <1>8, CountsKeep
<1>10. SilentInv' /\ HeldInv'
  BY <1>0, <1>1, <1>2, RecvSilent, RecvHeld
<1>11. QED
  BY <1>9, <1>10

\* ... sizes are exchanged, ...
LEMMA ExchangeNet ==
    ASSUME NetInv, NEW r \in TierNodes, ExchangeSizes(r)
    PROVE  SizesInv' /\ PassInv' /\ SilentInv' /\ HeldInv'
<1>0. Typed /\ LocalInv /\ TalkInv /\ SizesInv /\ PassInv /\ SilentInv /\ HeldInv
  BY DEF NetInv, TalkInv
<1>1. r \in Ranks /\ r \in Nat /\ r # Input /\ Input = 0
  BY RankNumbers
<1>2. PICK l : /\ Quiet(r, l) /\ ToSend(r, l) = ToSend(r, loc[r]) /\ ToTake(r, l) = ToTake(r, loc[r])
               /\ SendsSizes(r, l) \/ TakesSizes(r, l)
  BY <1>0, ExchangeQuiet
<1>3. Step(r, l)
  BY <1>2 DEF Quiet
<1>4. CASE SendsSizes(r, l)
  <2> DEFINE to == r - 1
             msg == [kind |-> "sizes"]
  <2>1. Send(r, to, msg) /\ msg \in Messages /\ to \in TierNodes
    BY <1>4 DEF SendsSizes
  <2>2. to \in Ranks /\ to # Input /\ to # r /\ r = to + 1 /\ r # to - 1 /\ to \in Nat
    BY <1>1, <2>1, RankNumbers
  <2> HIDE DEF to, msg
  <2>s. Typed /\ r \in Ranks /\ to \in Ranks
    BY <1>0, <1>1, <2>2
  <2>3. \A s, q \in Ranks : s # r \/ q # to => net'[s][q] = net[s][q]
    BY <2>1, <2>s, SendEffect
  <2>4. \A q \in TierNodes : net'[q - 1][q] = net[q - 1][q]
    <3>1. TAKE q \in TierNodes
    <3>2. q - 1 # r \/ q # to
      BY <2>2, Neighbours
    <3>3. QED
      BY <2>3, <3>2, Neighbours
  <2>5. PassInv'
    BY <1>0, <1>1, <1>2, <1>3, <2>4, PassKeeps
  <2>6. SizesInv'
    BY <1>0, <1>3, <1>4, SizesSent
  <2>7. SilentInv' /\ HeldInv'
    BY <1>0, <1>1, <2>1, <2>2, SendSilent, SendHeld
  <2>8. QED
    BY <2>5, <2>6, <2>7
<1>5. CASE TakesSizes(r, l)
  <2> DEFINE from == r + 1
  <2>1. Recv(r, from) /\ from \in TierNodes
    BY <1>5 DEF TakesSizes
  <2>2. from \in Ranks /\ from \in Nat /\ r = from - 1
    BY <1>1, <2>1, RankNumbers
  <2> HIDE DEF from
  <2>3. \A s, q \in Ranks : s # from \/ q # r => net'[s][q] = net[s][q]
    BY <1>0, <1>1, <2>1, <2>2, RecvEffect
  <2>4. \A q \in TierNodes : net'[q - 1][q] = net[q - 1][q]
    <3>1. TAKE q \in TierNodes
    <3>2. q - 1 # from \/ q # r
      BY <2>2, Neighbours
    <3>3. QED
      BY <2>3, <3>2, Neighbours
  <2>5. PassInv'
    BY <1>0, <1>1, <1>2, <1>3, <2>4, PassKeeps
  <2>6. SizesInv'
    BY <1>0, <1>3, <1>5, SizesTaken
  <2>7. SilentInv' /\ HeldInv'
    BY <1>0, <1>1, <2>1, <2>2, RecvSilent, RecvHeld
  <2>8. QED
    BY <2>5, <2>6, <2>7
<1>6. QED
  BY <1>2, <1>4, <1>5

\* ... or all ranks reduce.
LEMMA AllReduceNet ==
    ASSUME NetInv, AllReduce
    PROVE  SizesInv' /\ PassInv' /\ SilentInv' /\ HeldInv'
<1>0. /\ Typed /\ LocalInv /\ TalkInv /\ SizesInv /\ PassInv /\ SilentInv /\ HeldInv /\ InStep
  BY DEF NetInv, TalkInv
<1>1. PICK k \in Nat :
          \A r \in Ranks : /\ ToSend(r, loc'[r]) = k /\ (r # Input => ToTake(r, loc'[r]) = k)
                           /\ SizesLeft(loc'[r], "send") /\ SizesLeft(loc'[r], "recv")
  BY <1>0, AllReduceTogether
<1>2. /\ net' = net /\ bcasts' = bcasts /\ blocked' = blocked
      /\ \A r \in Ranks : loc[r].pc = "reduce"
  BY <1>0, AllReduceTogether
<1>3. \A r \in Ranks : ToTake(r, loc[r]) = 0 /\ ToSend(r, loc[r]) = 0
  BY <1>2 DEF ToTake, ToSend, Resting
<1>4. \A r \in Ranks : ~ SizesLeft(loc[r], "send") /\ ~ SizesLeft(loc[r], "recv")
  BY <1>2 DEF SizesLeft
<1>5. PassInv'
  <2>1. SUFFICES ASSUME NEW q \in TierNodes
                 PROVE  /\ Len(net'[q - 1][q]) = ToTake(q, loc'[q]) - ToSend(q - 1, loc'[q - 1])
                        /\ Len(net'[q - 1][q]) <= 1
    BY DEF PassInv
  <2>2. Len(net[q - 1][q]) = ToTake(q, loc[q]) - ToSend(q - 1, loc[q - 1])
    BY <1>0 DEF PassInv
  <2>3. q \in Ranks /\ q - 1 \in Ranks /\ q # Input
    BY Neighbours
  <2>4. QED
    BY <1>1, <1>2, <1>3, <2>2, <2>3
<1>6. SizesInv'
  <2>1. SUFFICES ASSUME NEW q \in 1 .. NumTiers - 1
                 PROVE  Len(net'[q + 1][q]) = (IF SizesLeft(loc'[q], "recv") THEN 1 ELSE 0)
                                              - (IF SizesLeft(loc'[q + 1], "send") THEN 1 ELSE 0)
    BY DEF SizesInv
  <2>2. Len(net[q + 1][q]) = (IF SizesLeft(loc[q], "recv") THEN 1 ELSE 0)
                             - (IF SizesLeft(loc[q + 1], "send") THEN 1 ELSE 0)
    BY <1>0 DEF SizesInv
  <2>3. q \in Ranks /\ q + 1 \in Ranks
    BY Neighbours
  <2>4. QED
    BY <1>1, <1>2, <1>4, <2>2, <2>3
<1>7. SilentInv' /\ HeldInv'
  BY <1>0, <1>2 DEF SilentInv, HeldInv, Holds
<1>8. QED
  BY <1>5, <1>6, <1>7

\* The invariant of the messages is inductive, ...
LEMMA NetStep ==
    ASSUME NetInv, [Next]_vars
    PROVE  NetInv'
<1>0. /\ Typed /\ LocalInv /\ TalkInv /\ SizesInv /\ PassInv /\ SilentInv /\ HeldInv /\ InStep
  BY DEF NetInv, TalkInv
<1>1. TalkInv'
  BY <1>0, TalkStep
<1>2. SUFFICES SizesInv' /\ PassInv' /\ SilentInv' /\ HeldInv'
  BY <1>1 DEF NetInv
<1>3. ASSUME NEW r \in Ranks, NEW l, NEW msg, Speaks(r, l, msg)
      PROVE  SizesInv' /\ PassInv' /\ SilentInv' /\ HeldInv'
  <2>1. Step(r, l) /\ Keeps(r, loc[r], l) /\ msg \in Announcements /\ Bcast(r, msg)
    BY <1>3 DEF Speaks
  <2>2. net' = net
    BY <1>0, <2>1, BcastEffect
  <2>3. HeldInv'
    BY <1>0, <2>1, BcastHeld
  <2>4. QED
    BY <1>0, <2>1, <2>2, <2>3, NeighboursKeep, CountsKeep
<1>4. ASSUME NEW r \in Ranks, NEW l, Takes(r, l)
      PROVE  SizesInv' /\ PassInv' /\ SilentInv' /\ HeldInv'
  <2>1. Step(r, l) /\ Keeps(r, loc[r], l) /\ TakeBcast(r)
    BY <1>4 DEF Takes
  <2>2. net' = net
    BY <1>0, <2>1, TakeEffect
  <2>3. HeldInv'
    BY <1>0, <2>1, TakeHeld
  <2>4. QED
    BY <1>0, <2>1, <2>2, <2>3, NeighboursKeep, CountsKeep
<1>5. ASSUME NEW r \in Ranks, NextUpdate(r)
      PROVE  SizesInv' /\ PassInv' /\ SilentInv' /\ HeldInv'
  <2>1. PICK l : Quiet(r, l) /\ Keeps(r, loc[r], l)
    BY <1>0, <1>5, NextUpdateQuiet
  <2>2. net' = net /\ blocked' = blocked /\ bcasts' = bcasts /\ Step(r, l)
    BY <1>0, <1>5, <2>1, NextUpdateQuiet DEF Quiet
  <2>3. HeldInv'
    BY <1>0, <2>2 DEF HeldInv, Holds
  <2>4. QED
    BY <1>0, <2>1, <2>2, <2>3, NeighboursKeep, CountsKeep
<1>6. CASE UNCHANGED vars
  <2>1. loc' = loc /\ net' = net /\ bcasts' = bcasts /\ blocked' = blocked
    BY <1>6 DEF vars
  <2>2. QED
    BY <1>0, <2>1 DEF SizesInv, PassInv, SilentInv, HeldInv, Holds
<1>7. CASE Next
  BY <1>0, <1>3, <1>4, <1>5, <1>6, <1>7, NextKinds, StartRefreshNet, PassRefreshNet, TakeRefreshNet,
     AnswerNet, ResponseNet, ExchangeNet, AllReduceNet
<1>8. QED
  BY <1>6, <1>7

\* ... and holds at first.
LEMMA InitNet ==
    ASSUME Init
    PROVE  NetInv
<1>1. TalkInv /\ Typed /\ LocalInv
  BY InitTalk DEF TalkInv
<1>2. /\ \A s, r \in Ranks : net[s][r] = <<>> /\ Len(net[s][r]) = 0
      /\ \A r \in Ranks : blocked[r] = {} /\ loc[r] = Idle(r)
  BY DEF Init
<1>3. \A r \in Ranks : /\ ToTake(r, loc[r]) = 0 /\ ToSend(r, loc[r]) = 0
                       /\ SizesLeft(loc[r], "send") /\ SizesLeft(loc[r], "recv")
  BY <1>2, IdleFits
<1>4. PassInv
  BY <1>2, <1>3, Neighbours DEF PassInv
<1>5. SizesInv
  <2>1. \A q \in 1 .. NumTiers - 1 : /\ SizesLeft(loc[q], "recv") /\ SizesLeft(loc[q + 1], "send")
                                    /\ Len(net[q + 1][q]) = 0
    BY <1>2, <1>3, Neighbours
  <2>2. SUFFICES ASSUME NEW q \in 1 .. NumTiers - 1
                 PROVE  Len(net[q + 1][q]) = (IF SizesLeft(loc[q], "recv") THEN 1 ELSE 0)
                                             - (IF SizesLeft(loc[q + 1], "send") THEN 1 ELSE 0)
    BY DEF SizesInv
  <2>3. SizesLeft(loc[q], "recv") /\ SizesLeft(loc[q + 1], "send") /\ Len(net[q + 1][q]) = 0
    BY <2>1
  <2>4. QED
    BY <2>3
<1>6. SilentInv /\ HeldInv
  BY <1>2 DEF SilentInv, HeldInv
<1>7. QED
  BY <1>1, <1>4, <1>5, <1>6 DEF NetInv

\* At most one message is under way from one rank to another.
LEMMA OneLetter ==
    ASSUME NetInv, NEW s \in Ranks, NEW r \in Ranks
    PROVE  Len(net[s][r]) <= 1
<1>0. /\ Typed /\ LocalInv /\ SizesInv /\ PassInv /\ SilentInv /\ AnswerInv
      /\ r \in Nat /\ s \in Nat /\ Input = 0 /\ s <= NumTiers /\ NumTiers \in Nat
      /\ r # Input <=> r \in TierNodes
  BY RankNumbers DEF NetInv, TalkInv
<1>1. CASE r # Input /\ s = r - 1
  BY <1>0, <1>1 DEF PassInv
<1>2. CASE r # Input /\ s = r + 1
  <2>1. r \in 1 .. NumTiers - 1
    BY <1>0, <1>2
  <2> DEFINE a == IF SizesLeft(loc[r], "recv") THEN 1 ELSE 0
             b == IF SizesLeft(loc[r + 1], "send") THEN 1 ELSE 0
  <2>2. Len(net[r + 1][r]) = a - b
    BY <1>0, <2>1 DEF SizesInv
  <2>3. a \in {0, 1} /\ b \in {0, 1}
    OBVIOUS
  <2>4. Len(net[s][r]) = Len(net[r + 1][r])
    BY <1>2
  <2> HIDE DEF a, b
  <2>5. a - b <= 1
    BY <2>3
  <2>6. QED
    BY <2>2, <2>4, <2>5
<1>3. CASE r # Input /\ s = Input /\ r # 1
  <2>1. net[Input][r] # <<>> => Len(net[Input][r]) = 1
    BY <1>0, <1>3 DEF AnswerInv
  <2>2. net[Input][r] = <<>> => Len(net[Input][r]) = 0
    OBVIOUS
  <2>3. Len(net[s][r]) \in {0, 1}
    BY <1>3, <2>1, <2>2
  <2> DEFINE n == Len(net[s][r])
  <2> HIDE DEF n
  <2>4. n \in {0, 1} => n <= 1
    OBVIOUS
  <2>5. QED
    BY <2>3, <2>4 DEF n
<1>4. CASE r = Input \/ s \notin {r - 1, r + 1, Input}
  <2>1. net[s][r] = <<>>
    BY <1>0, <1>4 DEF SilentInv
  <2>2. QED
    BY <2>1
<1>5. QED
  BY <1>0, <1>1, <1>2, <1>3, <1>4

\* It is the invariant IInv of MpiTiers.
LEMMA NetIsIInv == IInv <=> NetInv
<1>1. ASSUME NetInv PROVE IInv
  <2>1. /\ Typed /\ LocalInv /\ SizesInv /\ PassInv /\ SilentInv /\ AnswerInv /\ InStep /\ HeldInv
    BY <1>1 DEF NetInv, TalkInv
  <2>2. \A r \in Ranks : loc[r].idx <= loc[r].num
    BY <2>1, Here
  <2>3. \A s, r \in Ranks : Len(net[s][r]) <= 1
    BY <1>1, OneLetter
  <2>4. BlockedInv /\ \A r \in Ranks : r \notin blocked[r]
    BY <2>1, HeldIsBlocked
  <2>5. QED
    BY <2>1, <2>2, <2>3, <2>4 DEF IInv, TypeOK
<1>2. ASSUME IInv PROVE NetInv
  <2>1. HeldInv
    BY <1>2, HeldIsBlocked DEF IInv, TypeOK
  <2>2. QED
    BY <1>2, <2>1 DEF IInv, TypeOK, NetInv, TalkInv
<1>3. QED
  BY <1>1, <1>2

\* Ranks that all wait for a batch owe each other nothing.
LEMMA NetSeparates ==
    ASSUME NetInv
    PROVE  BatchesAreSeparate
<1>0. /\ Typed /\ LocalInv /\ SizesInv /\ PassInv /\ SilentInv /\ AnswerInv /\ InStep /\ HeldInv
  BY DEF NetInv, TalkInv
<1>1. SUFFICES ASSUME \A r \in Ranks : loc[r].pc \in {"fill", "batch"}
               PROVE  /\ \A s, r \in Ranks : net[s][r] = <<>>
                      /\ \A r \in Ranks : bcasts[r] = <<>> /\ blocked[r] = {}
  BY DEF BatchesAreSeparate
<1>2. \A r \in Ranks : Place(r) = Rest("batch", 0)
  BY <1>0, <1>1, Here, Places
<1>3. End(Input) = Rest("batch", 0)
  <2>1. Input \in Ranks /\ Speaker(Place(Input)) = Input
    BY <1>2, RankNumbers, PlaceFields DEF Speaker
  <2>2. bcasts[Input] = <<>>
    BY <1>0, <2>1, TakeFacts
  <2>3. QED
    BY <1>0, <1>2, <2>1, <2>2, AtTheEnd
<1>4. ASSUME NEW r \in Ranks, bcasts[r] # <<>>
      PROVE  FALSE
  <2> DEFINE q == bcasts[r]
             p == AfterMsg(Place(r), Head(q).msg)
  <2>1. q \in Seq(Packets) /\ Tail(q) \in Seq(Packets) /\ Head(q).msg.kind \in Kinds(Place(r))
        /\ Announced(r) = Head(q).msg
    BY <1>0, <1>4, TakeFacts DEF Announced
  <2>2. Kinds(Place(r)) = {"batch", "end"}
    BY <1>2, PlaceFields DEF Kinds
  <2>3. \E num : \E pc \in {"reduce", "done"} : p = Rest(pc, num)
    BY <2>1, <2>2, Turns
  <2>4. Kinds(p) = {} /\ p # Rest("batch", 0)
    <3>0. PICK num : \E pc \in {"reduce", "done"} : p = Rest(pc, num)
      BY <2>3
    <3>1. PICK pc \in {"reduce", "done"} : p = Rest(pc, num)
      BY <3>0
    <3> HIDE DEF p
    <3>2. p.pc = pc /\ Rest("batch", 0).pc = "batch"
      BY <3>1, PlaceFields
    <3>3. QED
      BY <3>2 DEF Kinds
  <2>5. Reaches(r, Place(r), q, Rest("batch", 0))
    BY <1>0, <1>3, ComeTogether DEF Together
  <2>6. Reaches(r, p, Tail(q), Rest("batch", 0))
    BY <1>4, <2>1, <2>5, TakeReaches
  <2> HIDE DEF q, p
  <2>7. Rest("batch", 0) = p
    BY <2>1, <2>4, <2>6, OwnPlace
  <2>8. QED
    BY <2>4, <2>7
<1>5. ASSUME NEW s \in Ranks, NEW r \in Ranks
      PROVE  net[s][r] = <<>>
  <2>0. /\ r \in Nat /\ s \in Nat /\ Input = 0 /\ s <= NumTiers /\ NumTiers \in Nat
        /\ r # Input <=> r \in TierNodes
        /\ net[s][r] \in Seq(Letters)
    BY <1>0, RankNumbers, Types DEF NetType, Letters
  <2>1. CASE r # Input /\ s = r - 1
    <3>1. ToTake(r, loc[r]) = 0 /\ ToSend(s, loc[s]) = 0
      BY <1>1 DEF ToTake, ToSend, Resting
    <3>2. Len(net[s][r]) = ToTake(r, loc[r]) - ToSend(s, loc[s])
      BY <1>0, <2>0, <2>1 DEF PassInv
    <3>3. Len(net[s][r]) = 0
      BY <3>1, <3>2
    <3>4. QED
      BY <2>0, <3>3
  <2>2. CASE r # Input /\ s = r + 1
    <3>1. r \in 1 .. NumTiers - 1
      BY <2>0, <2>2
    <3>2. SizesLeft(loc[r], "recv") /\ SizesLeft(loc[s], "send")
      BY <1>1 DEF SizesLeft
    <3>3. Len(net[r + 1][r]) = (IF SizesLeft(loc[r], "recv") THEN 1 ELSE 0)
                               - (IF SizesLeft(loc[r + 1], "send") THEN 1 ELSE 0)
      BY <1>0, <3>1 DEF SizesInv
    <3>5. Len(net[s][r]) = 0
      BY <2>2, <3>2, <3>3
    <3>4. QED
      BY <2>0, <3>5
  <2>3. CASE r # Input /\ s = Input /\ r # 1
    BY <1>0, <1>1, <2>0, <2>3 DEF AnswerInv
  <2>4. CASE r = Input \/ s \notin {r - 1, r + 1, Input}
    BY <1>0, <2>4 DEF SilentInv
  <2>5. QED
    BY <2>0, <2>1, <2>2, <2>3, <2>4
<1>6. ASSUME NEW r \in Ranks
      PROVE  blocked[r] = {}
  <2>1. SUFFICES ASSUME NEW q \in blocked[r] PROVE FALSE
    OBVIOUS
  <2>2. Holds(q, r) /\ q \in Ranks
    BY <1>0 DEF HeldInv, Typed
  <2>3. bcasts[q] = <<>> /\ net[r][q] = <<>>
    BY <1>4, <1>5, <2>2
  <2>4. QED
    BY <2>2, <2>3 DEF Holds
<1>7. QED
  BY <1>4, <1>5, <1>6

\* The inductive invariant of the engine: the local variables fit the place of a rank, all
\* ranks come by the same places while they take the broadcasts they are owed, and what is
\* under way between two ranks is the difference of what one sent and the other took.
THEOREM Invariance == Spec => []IInv
<1>1. Init => NetInv
  BY InitNet
<1>2. NetInv /\ [Next]_vars => NetInv'
  BY NetStep
<1>3. NetInv => IInv
  BY NetIsIInv
<1>4. QED
  BY <1>1, <1>2, <1>3, PTL DEF Spec

\* The local variables and messages of every rank are of their types, at most one message is under
\* way from one rank to another, and no rank is held by itself: TypeOK, for any number of tiers.
THEOREM TypeCorrect == Spec => []TypeOK
<1>1. IInv => TypeOK
  BY DEF IInv
<1>2. QED
  BY <1>1, Invariance, PTL

\* Every rank takes part in the same sequence of collective calls, and the broadcast it enters is of
\* the root and the kind it expects (CollectivesMatch), whatever messages the library buffers.
THEOREM CallsMatch == Spec => []CollectivesMatch
<1>1. IInv => CollectivesMatch
  BY NetIsIInv, TalkMatches DEF NetInv
<1>2. QED
  BY <1>1, Invariance, PTL

\* When all ranks wait for the next batch, nothing of the last one is under way and nobody is held
\* (BatchesAreSeparate).
THEOREM NothingOutlives == Spec => []BatchesAreSeparate
<1>1. IInv => BatchesAreSeparate
  BY NetIsIInv, NetSeparates
<1>2. QED
  BY <1>1, Invariance, PTL

------------------------------------------------------------------------------
\* The logs

\* The recursion of Logs: by induction, there is a log after each broadcast of q.
LEMMA LogsDef ==
    ASSUME NEW r, NEW n, NEW s, NEW p, NEW q, Len(q) \in Nat
    PROVE  Logs(r, n, s, p, q) = [k \in 0 .. Len(q) |->
               IF k = 0 THEN s
               ELSE Noted(r, n, Logs(r, n, s, p, q)[k - 1], Walk(p, q)[k - 1], q[k].msg)]
<1> DEFINE N == Len(q)
           Next1(f, k) == Noted(r, n, f[k - 1], Walk(p, q)[k - 1], q[k].msg)
           After(f, m) == f = [k \in 0 .. m |-> IF k = 0 THEN s ELSE Next1(f, k)]
           Bad == {m \in 0 .. N : ~ \E f : After(f, m)}
<1>1. ASSUME Bad # {}
      PROVE  FALSE
  <2>0. Bad \in SUBSET Nat
    OBVIOUS
  <2>1. PICK m \in Bad : \A k \in Bad : m <= k
    <3> HIDE DEF Bad
    <3>1. QED
      BY <1>1, <2>0, LeastNumber
  <2>2. m # 0
    <3>1. After([k \in 0 .. 0 |-> s], 0)
      OBVIOUS
    <3>2. QED
      BY <2>1, <3>1
  <2>3. PICK f : After(f, m - 1)
    <3>1. m - 1 \in 0 .. N /\ ~ (m <= m - 1)
      BY <2>1, <2>2
    <3>2. m - 1 \notin Bad
      <4> HIDE DEF Bad
      <4>1. QED
        BY <2>1, <3>1
    <3>3. QED
      BY <3>1, <3>2
  <2> DEFINE g == [k \in 0 .. m |-> IF k = m THEN Next1(f, m) ELSE f[k]]
  <2>4. \A k \in 0 .. m : g[k] = IF k = 0 THEN s ELSE Next1(g, k)
    <3>1. TAKE k \in 0 .. m
    <3>2. CASE k = m
      BY <2>2, <3>2
    <3>3. CASE k # m
      <4>1. k \in 0 .. m - 1 /\ (k # 0 => k - 1 \in 0 .. m - 1)
        BY <3>3
      <4>2. f[k] = IF k = 0 THEN s ELSE Next1(f, k)
        BY <2>3, <4>1
      <4>3. QED
        BY <3>3, <4>1, <4>2
    <3>4. QED
      BY <3>2, <3>3
  <2>5. After(g, m)
    BY <2>4
  <2>6. QED
    BY <2>1, <2>5
<1>2. \E f : After(f, N)
  BY <1>1
<1>3. Logs(r, n, s, p, q) = CHOOSE f : After(f, N)
  BY DEF Logs
<1>4. QED
  BY <1>2, <1>3

\* The log that r comes to keep: the last of these.
Comes(r, n, s, p, q) == Logs(r, n, s, p, q)[Len(q)]

\* A function that notes the same broadcasts tells the log in the end.
Notes(f, r, n, s, w, q, m) ==
    f[0] = s /\ \A k \in 1 .. m : f[k] = Noted(r, n, f[k - 1], w[k - 1], q[k].msg)
LEMMA LogsNote ==
    ASSUME NEW S, NEW q \in Seq(S), NEW r, NEW n, NEW s, NEW p
    PROVE  Notes(Logs(r, n, s, p, q), r, n, s, Walk(p, q), q, Len(q)) /\ Len(q) \in Nat
<1>1. Len(q) \in Nat
  OBVIOUS
<1> DEFINE f == Logs(r, n, s, p, q)
           N == Len(q)
<1>2. f = [k \in 0 .. N |-> IF k = 0 THEN s ELSE Noted(r, n, f[k - 1], Walk(p, q)[k - 1], q[k].msg)]
  BY <1>1, LogsDef
<1> HIDE DEF f
<1>3. f[0] = s
  BY <1>1, <1>2
<1>4. \A k \in 1 .. N : f[k] = Noted(r, n, f[k - 1], Walk(p, q)[k - 1], q[k].msg)
  <2>1. TAKE k \in 1 .. N
  <2>2. k \in 0 .. N /\ k # 0
    BY <1>1
  <2>3. QED
    BY <1>2, <2>2
<1>5. QED
  BY <1>1, <1>3, <1>4 DEF Notes, f
LEMMA LogsUnique ==
    ASSUME NEW m \in Nat, NEW r, NEW n, NEW s, NEW w, NEW q, NEW f, NEW g, NEW v, NEW t,
           Notes(f, r, n, s, w, q, m), Notes(g, r, n, s, v, t, m),
           \A k \in 1 .. m : v[k - 1] = w[k - 1] /\ t[k] = q[k]
    PROVE  \A k \in 0 .. m : f[k] = g[k]
<1> DEFINE Bad == {k \in 0 .. m : f[k] # g[k]}
<1>1. ASSUME Bad # {}
      PROVE  FALSE
  <2>0. Bad \in SUBSET Nat
    OBVIOUS
  <2>1. PICK i \in Bad : \A k \in Bad : i <= k
    <3> HIDE DEF Bad
    <3>1. QED
      BY <1>1, <2>0, LeastNumber
  <2>2. i \in 1 .. m
    BY <2>1 DEF Notes
  <2>3. i - 1 \notin Bad /\ i - 1 \in 0 .. m
    BY <2>1, <2>2
  <2>4. f[i - 1] = g[i - 1]
    BY <2>3
  <2>5. /\ f[i] = Noted(r, n, f[i - 1], w[i - 1], q[i].msg)
        /\ g[i] = Noted(r, n, g[i - 1], v[i - 1], t[i].msg)
        /\ v[i - 1] = w[i - 1] /\ t[i] = q[i]
    BY <2>2 DEF Notes
  <2>6. f[i] = g[i]
    BY <2>4, <2>5
  <2>7. QED
    BY <2>1, <2>6
<1>2. QED
  BY <1>1

\* A rank that is owed nothing keeps its log, ...
LEMMA NothingToNote ==
    ASSUME NEW r, NEW n, NEW s, NEW p
    PROVE  Comes(r, n, s, p, <<>>) = s
<1>1. <<>> \in Seq({}) /\ Len(<<>>) = 0
  OBVIOUS
<1>2. Notes(Logs(r, n, s, p, <<>>), r, n, s, Walk(p, <<>>), <<>>, Len(<<>>))
  BY <1>1, LogsNote
<1>3. QED
  BY <1>1, <1>2 DEF Comes, Notes

\* ... the next broadcast may be noted before the others are taken, ...
LEMMA TakeNotes ==
    ASSUME NEW S, NEW q \in Seq(S), q # <<>>, NEW r, NEW n, NEW s, NEW p
    PROVE  Comes(r, n, s, p, q)
             = Comes(r, n, Noted(r, n, s, p, Head(q).msg), AfterMsg(p, Head(q).msg), Tail(q))
<1> DEFINE N == Len(q)
           w == Walk(p, q)
           t == Tail(q)
           p1 == AfterMsg(p, Head(q).msg)
           v == Walk(p1, t)
           s1 == Noted(r, n, s, p, Head(q).msg)
           f == Logs(r, n, s, p, q)
           h == [k \in 0 .. N - 1 |-> f[k + 1]]
           g == Logs(r, n, s1, p1, t)
<1>1. /\ N \in Nat /\ N # 0 /\ Head(q) = q[1]
      /\ t \in Seq(S) /\ Len(t) = N - 1 /\ \A k \in 1 .. N - 1 : t[k] = q[k + 1]
  OBVIOUS
<1>2. /\ w[0] = p /\ \A k \in 1 .. N : w[k] = AfterMsg(w[k - 1], q[k].msg)
  BY WalkNext
<1>3. /\ f[0] = s /\ \A k \in 1 .. N : f[k] = Noted(r, n, f[k - 1], w[k - 1], q[k].msg)
  BY LogsNote DEF Notes
<1>4. Notes(g, r, n, s1, v, t, N - 1)
  BY <1>1, LogsNote
<1>m. N - 1 \in Nat
  BY <1>1
<1>5. \A k \in 0 .. N - 1 : w[k + 1] = v[k]
  <2> DEFINE u == [k \in 0 .. N - 1 |-> w[k + 1]]
             M == N - 1
  <2>1. u[0] = p1
    <3>1. 1 \in 1 .. N /\ u[0] = w[1] /\ w[1 - 1] = p
      BY <1>1, <1>2
    <3>2. QED
      BY <1>1, <1>2, <3>1
  <2> HIDE DEF w, t, p1
  <2>2. ASSUME NEW k \in 1 .. M
        PROVE  u[k] = AfterMsg(u[k - 1], t[k].msg)
    <3>1. k + 1 \in 1 .. N /\ u[k] = w[k + 1] /\ u[k - 1] = w[k] /\ t[k] = q[k + 1]
      BY <1>1
    <3>2. w[k + 1] = AfterMsg(w[(k + 1) - 1], q[k + 1].msg) /\ (k + 1) - 1 = k
      BY <1>2, <3>1
    <3>3. QED
      BY <3>1, <3>2
  <2>3. \A k \in 0 .. M : u[k] = w[k + 1]
    OBVIOUS
  <2>4. M \in 0 .. Len(t) /\ t \in Seq(S)
    BY <1>1
  <2> HIDE DEF u, M
  <2>5. Goes(u, p1, t, M)
    BY <2>1, <2>2 DEF Goes
  <2>6. \A k \in 0 .. M : Walk(p1, t)[k] = u[k]
    BY <2>4, <2>5, WalkUnique
  <2>7. QED
    BY <2>3, <2>6 DEF M
<1> HIDE DEF N, w, t, p1, v, s1, f, g
<1>6. Notes(h, r, n, s1, v, t, N - 1)
  <2>1. h[0] = s1
    <3>1. 1 \in 1 .. N /\ h[0] = f[1] /\ 1 - 1 = 0
      BY <1>1
    <3>2. f[1] = Noted(r, n, s, p, q[1].msg)
      BY <1>2, <1>3, <3>1
    <3>3. QED
      BY <1>1, <3>1, <3>2 DEF s1
  <2>2. ASSUME NEW k \in 1 .. N - 1
        PROVE  h[k] = Noted(r, n, h[k - 1], v[k - 1], t[k].msg)
    <3>1. k + 1 \in 1 .. N /\ h[k] = f[k + 1] /\ h[k - 1] = f[k] /\ t[k] = q[k + 1] /\ (k + 1) - 1 = k
          /\ k - 1 \in 0 .. N - 1 /\ (k - 1) + 1 = k
      BY <1>1
    <3>2. v[k - 1] = w[k]
      BY <1>5, <3>1
    <3>3. f[k + 1] = Noted(r, n, f[(k + 1) - 1], w[(k + 1) - 1], q[k + 1].msg)
      BY <1>3, <3>1
    <3>4. QED
      BY <3>1, <3>2, <3>3
  <2> HIDE DEF h
  <2>3. QED
    BY <2>1, <2>2 DEF Notes
<1>h. h[N - 1] = f[N]
  BY <1>1
<1> HIDE DEF h
<1>7. \A k \in 0 .. N - 1 : h[k] = g[k]
  <2> DEFINE M == N - 1
  <2>1. M \in Nat /\ Notes(h, r, n, s1, v, t, M) /\ Notes(g, r, n, s1, v, t, M)
    BY <1>4, <1>6, <1>m
  <2> HIDE DEF M
  <2>2. \A k \in 0 .. M : h[k] = g[k]
    BY <2>1, LogsUnique
  <2>3. QED
    BY <2>2 DEF M
<1>8. N - 1 \in 0 .. N - 1
  BY <1>1
<1>9. f[N] = g[N - 1]
  BY <1>7, <1>8, <1>h
<1>10. QED
  BY <1>1, <1>9 DEF Comes, N, f, g, t, p1, s1

\* ... and a broadcast at the end of them is noted last.
LEMMA SpeakNotes ==
    ASSUME NEW S, NEW q \in Seq(S), NEW m \in S, NEW r, NEW n, NEW s, NEW p, NEW g, Walk(p, q)[Len(q)] = g
    PROVE  Comes(r, n, s, p, Append(q, m)) = Noted(r, n, Comes(r, n, s, p, q), g, m.msg)
<1> DEFINE N == Len(q)
           w == Walk(p, q)
           a == Append(q, m)
           v == Walk(p, a)
           f == Logs(r, n, s, p, q)
           h == Logs(r, n, s, p, a)
           L == Len(a)
<1>1. /\ N \in Nat /\ a \in Seq(S) /\ L = N + 1 /\ N \in 0 .. Len(q)
      /\ a[N + 1] = m /\ \A k \in 1 .. N : a[k] = q[k]
  OBVIOUS
<1>2. v[0] = p /\ \A k \in 1 .. L : v[k] = AfterMsg(v[k - 1], a[k].msg)
  <2> HIDE DEF a
  <2>1. QED
    BY <1>1, WalkNext
<1>3. \A k \in 0 .. N : w[k] = v[k]
  <2>1. \A k \in 1 .. N : v[k] = AfterMsg(v[k - 1], q[k].msg)
    <3> HIDE DEF v, a, L
    <3>1. QED
      BY <1>1, <1>2
  <2> HIDE DEF v
  <2>2. QED
    BY <1>1, <1>2, <2>1, WalkUnique DEF Goes
<1>4. Notes(f, r, n, s, w, q, N)
  BY LogsNote
<1>5. Notes(h, r, n, s, v, a, L)
  <2> HIDE DEF a
  <2>1. QED
    BY <1>1, LogsNote
<1>g. w[N] = g
  OBVIOUS
<1> HIDE DEF N, w, a, v, f, h, L
<1>6. Notes(h, r, n, s, v, a, N)
  BY <1>1, <1>5 DEF Notes
<1>7. \A k \in 0 .. N : h[k] = f[k]
  <2>1. \A k \in 1 .. N : w[k - 1] = v[k - 1] /\ q[k] = a[k]
    <3>1. TAKE k \in 1 .. N
    <3>2. k - 1 \in 0 .. N
      BY <1>1
    <3>3. QED
      BY <1>1, <1>3, <3>2
  <2>2. QED
    BY <1>1, <1>4, <1>6, <2>1, LogsUnique
<1>8. h[L] = Noted(r, n, h[N], v[N], m.msg)
  <2>1. L \in 1 .. L /\ L - 1 = N
    BY <1>1
  <2>2. QED
    BY <1>1, <1>5, <2>1 DEF Notes
<1>9. h[N] = f[N] /\ v[N] = g
  <2>1. N \in 0 .. N
    BY <1>1
  <2>2. QED
    BY <1>3, <1>7, <1>g, <2>1
<1>10. QED
  BY <1>8, <1>9 DEF Comes, N, a, f, h, L

\* What concerns a tier of a log that grows.
Selects(f, s, r, m) ==
    f = [k \in 0 .. m |-> IF k = 0 THEN <<>>
                          ELSE IF s[k].op.start <= TierNum(r) THEN Append(f[k - 1], s[k]) ELSE f[k - 1]]
Selection(s, r) == CHOOSE f : Selects(f, s, r, Len(s))
Along(f, s, r, m) ==
    /\ f[0] = <<>>
    /\ \A k \in 1 .. m : f[k] = IF s[k].op.start <= TierNum(r) THEN Append(f[k - 1], s[k]) ELSE f[k - 1]
LEMMA SelectionDef ==
    ASSUME NEW s, NEW r, Len(s) \in Nat
    PROVE  Along(Selection(s, r), s, r, Len(s)) /\ Concerning(s, r) = Selection(s, r)[Len(s)]
<1> DEFINE N == Len(s)
           Bad == {m \in 0 .. N : ~ \E f : Selects(f, s, r, m)}
<1>1. ASSUME Bad # {}
      PROVE  FALSE
  <2>0. Bad \in SUBSET Nat
    OBVIOUS
  <2>1. PICK m \in Bad : \A k \in Bad : m <= k
    <3> HIDE DEF Bad
    <3>1. QED
      BY <1>1, <2>0, LeastNumber
  <2>2. m # 0
    <3>1. Selects([k \in 0 .. 0 |-> <<>>], s, r, 0)
      BY DEF Selects
    <3>2. QED
      BY <2>1, <3>1
  <2>3. PICK f : Selects(f, s, r, m - 1)
    <3>1. m - 1 \in 0 .. N /\ ~ (m <= m - 1)
      BY <2>1, <2>2
    <3>2. m - 1 \notin Bad
      <4> HIDE DEF Bad
      <4>1. QED
        BY <2>1, <3>1
    <3>3. QED
      BY <3>1, <3>2
  <2> DEFINE Next1(h, k) == IF s[k].op.start <= TierNum(r) THEN Append(h[k - 1], s[k]) ELSE h[k - 1]
             g == [k \in 0 .. m |-> IF k = m THEN Next1(f, m) ELSE f[k]]
  <2>4. \A k \in 0 .. m : g[k] = IF k = 0 THEN <<>> ELSE Next1(g, k)
    <3>1. TAKE k \in 0 .. m
    <3>2. CASE k = m
      BY <2>2, <3>2
    <3>3. CASE k # m
      <4>1. k \in 0 .. m - 1 /\ (k # 0 => k - 1 \in 0 .. m - 1)
        BY <3>3
      <4>2. f[k] = IF k = 0 THEN <<>> ELSE Next1(f, k)
        BY <2>3, <4>1 DEF Selects
      <4>3. QED
        BY <3>3, <4>1, <4>2
    <3>4. QED
      BY <3>2, <3>3
  <2>5. Selects(g, s, r, m)
    BY <2>4 DEF Selects
  <2>6. QED
    BY <2>1, <2>5
<1>2. \E f : Selects(f, s, r, N)
  BY <1>1
<1>3. Selects(Selection(s, r), s, r, N)
  BY <1>2 DEF Selection
<1>4. Concerning(s, r) = Selection(s, r)[N]
  BY DEF Concerning, Selection, Selects
<1> DEFINE f == Selection(s, r)
<1> HIDE DEF f
<1>5. f = [k \in 0 .. N |-> IF k = 0 THEN <<>>
                          ELSE IF s[k].op.start <= TierNum(r) THEN Append(f[k - 1], s[k]) ELSE f[k - 1]]
  BY <1>3 DEF Selects, f
<1>6. f[0] = <<>>
  BY <1>5
<1>7. \A k \in 1 .. N : f[k] = IF s[k].op.start <= TierNum(r) THEN Append(f[k - 1], s[k]) ELSE f[k - 1]
  <2>1. TAKE k \in 1 .. N
  <2>2. k \in 0 .. N /\ k # 0
    OBVIOUS
  <2>3. QED
    BY <1>5, <2>2
<1>8. QED
  BY <1>4, <1>6, <1>7 DEF Along, f

LEMMA ConcerningAppend ==
    ASSUME NEW r
    PROVE  /\ Concerning(<<>>, r) = <<>>
           /\ \A S : \A s \in Seq(S), e \in S :
                 Concerning(Append(s, e), r) = IF e.op.start <= TierNum(r) THEN Append(Concerning(s, r), e)
                                               ELSE Concerning(s, r)
<1>1. Concerning(<<>>, r) = <<>>
  <2> DEFINE s == <<>>
             N == Len(s)
  <2>1. N = 0 /\ N \in Nat
    OBVIOUS
  <2> HIDE DEF s
  <2>2. Concerning(s, r) = Selection(s, r)[N] /\ Selection(s, r)[0] = <<>>
    BY <2>1, SelectionDef DEF Along
  <2>3. QED
    BY <2>1, <2>2 DEF s
<1>2. ASSUME NEW S, NEW s \in Seq(S), NEW e \in S
      PROVE  Concerning(Append(s, e), r) = IF e.op.start <= TierNum(r) THEN Append(Concerning(s, r), e)
                                           ELSE Concerning(s, r)
  <2> DEFINE N == Len(s)
             a == Append(s, e)
             f == Selection(s, r)
             g == Selection(a, r)
             M == N + 1
  <2>1. N \in Nat /\ Len(a) = M /\ M \in Nat /\ a[M] = e /\ \A k \in 1 .. N : a[k] = s[k]
    OBVIOUS
  <2>2. Along(f, s, r, N) /\ Concerning(s, r) = f[N]
    BY <2>1, SelectionDef
  <2>3. Along(g, a, r, M) /\ Concerning(a, r) = g[M]
    <3> HIDE DEF a, M
    <3>1. QED
      BY <2>1, SelectionDef
  <2>m. M = N + 1
    OBVIOUS
  <2> HIDE DEF N, a, f, g, M
  <2> DEFINE Bad == {k \in 0 .. N : f[k] # g[k]}
  <2>6. ASSUME Bad # {}
        PROVE  FALSE
    <3>0. Bad \in SUBSET Nat
      OBVIOUS
    <3>1. PICK i \in Bad : \A k \in Bad : i <= k
      <4> HIDE DEF Bad
      <4>1. QED
        BY <2>6, <3>0, LeastNumber
    <3>2. i \in 1 .. N /\ i \in 1 .. M
      BY <2>1, <2>2, <2>3, <2>m, <3>1 DEF Along
    <3>k. i - 1 \in 0 .. N /\ ~ (i <= i - 1)
      BY <2>1, <3>2
    <3>3. i - 1 \notin Bad /\ i - 1 \in 0 .. N
      <4> HIDE DEF Bad
      <4>1. QED
        BY <3>1, <3>k
    <3>4. f[i - 1] = g[i - 1] /\ a[i] = s[i]
      BY <2>1, <3>2, <3>3
    <3>5. f[i] = g[i]
      BY <2>2, <2>3, <3>2, <3>4 DEF Along
    <3>6. QED
      BY <3>1, <3>5
  <2>7. f[N] = g[N]
    <3>1. N \in 0 .. N /\ N \notin Bad
      BY <2>1, <2>6
    <3>2. QED
      BY <3>1
  <2>8. M \in 1 .. M /\ M - 1 = N
    BY <2>1, <2>m
  <2>9. g[M] = IF e.op.start <= TierNum(r) THEN Append(g[N], e) ELSE g[N]
    BY <2>1, <2>3, <2>8 DEF Along
  <2>10. QED
    BY <2>2, <2>3, <2>7, <2>9 DEF a
<1>3. QED
  BY <1>1, <1>2

\* The logs of the ranks

\* The log a rank comes to keep, with what it has still to take.
LEMMA LedgerComes ==
    /\ \A r, n : Ledger(r, n) = Comes(r, n, Kept(r, n), Place(r), bcasts[r])
    /\ \A r, n : Ledger(r, n)' = Comes(r, n, Kept(r, n)', Place(r)', bcasts'[r])
  BY DEF Ledger, Comes

\* The entries of a log are of their type.
LEMMA NotedType ==
    ASSUME NEW r, NEW n, NEW s \in Seq(Entries), NEW p, InTurn(p), NEW msg \in Announcements,
           msg.kind \in Kinds(p)
    PROVE  Noted(r, n, s, p, msg) \in Seq(Entries)
<1>1. CASE msg.kind \in {"cut", "link"}
  <2> DEFINE e == [op |-> msg, tier |-> p.tier, endpoint |-> p.endpoint]
  <2>1. msg \in Ops
    BY <1>1, Sorts
  <2>2. Repairs(p)
    BY <1>1 DEF Kinds, Repairs
  <2>3. p.tier \in 0 .. Top /\ p.endpoint \in {1, 2}
    BY <2>2, RankNumbers DEF InTurn
  <2>4. e \in Entries
    BY <2>1, <2>3 DEF Entries
  <2>5. Noted(r, n, s, p, msg) = s \/ Noted(r, n, s, p, msg) = Append(s, e)
    BY DEF Noted
  <2> HIDE DEF e
  <2>6. QED
    BY <2>4, <2>5
<1>2. CASE msg.kind \notin {"cut", "link"}
  BY <1>2 DEF Noted
<1>3. QED
  BY <1>1, <1>2
LEMMA LedgerType ==
    ASSUME TalkInv, NEW r \in Ranks, NEW n
    PROVE  Ledger(r, n) \in Seq(Entries)
<1>0. Typed /\ LocalInv /\ InStep
  BY DEF TalkInv
<1> DEFINE p == Place(r)
           q == bcasts[r]
           s == Kept(r, n)
           w == Walk(p, q)
           f == Logs(r, n, s, p, q)
           N == Len(q)
           Good(k) == f[k] \in Seq(Entries) /\ InTurn(w[k])
           Bad == {k \in 0 .. N : ~ Good(k)}
<1>1. s \in Seq(Entries)
  <2>1. log \in [Ranks -> Seq(Entries)] /\ <<>> \in Seq(Entries)
    BY <1>0, Types DEF LogType
  <2>2. QED
    BY <2>1 DEF Kept
<1>2. InTurn(p)
  BY <1>0, Here, TakeAhead
<1>3. q \in Seq(Packets)
  BY <1>0, TakeFacts
<1>4. /\ w[0] = p /\ \A k \in 1 .. N : w[k] = AfterMsg(w[k - 1], q[k].msg)
      /\ N \in Nat
  BY <1>3, WalkNext
<1>5. /\ f[0] = s /\ \A k \in 1 .. N : f[k] = Noted(r, n, f[k - 1], w[k - 1], q[k].msg)
  BY <1>3, LogsNote DEF Notes
<1>6. \A k \in 1 .. N : q[k].msg.kind \in Kinds(w[k - 1]) /\ q[k].msg \in Announcements
  <2>1. Reaches(r, p, q, End(Input))
    BY <1>0, ComeTogether DEF Together
  <2>2. \A k \in 1 .. N : q[k] \in Packets
    BY <1>3
  <2>3. QED
    BY <2>1, <2>2 DEF Reaches, Packets
<1>7. Good(0)
  BY <1>1, <1>2, <1>4, <1>5
<1>e. Ledger(r, n) = f[N]
  BY DEF Ledger
<1>t. Top \in 1 .. Top
  BY RankNumbers
<1> HIDE DEF p, q, s, w, f, N
<1>8. ASSUME Bad # {}
      PROVE  FALSE
  <2>0. Bad \in SUBSET Nat
    BY <1>4
  <2>1. PICK m \in Bad : \A k \in Bad : m <= k
    <3> HIDE DEF Bad
    <3>1. QED
      BY <1>8, <2>0, LeastNumber
  <2>2. m \in 1 .. N /\ m - 1 \in 0 .. N /\ ~ (m <= m - 1)
    BY <1>4, <1>7, <2>1
  <2>3. Good(m - 1)
    <3>1. m - 1 \notin Bad
      <4> HIDE DEF Bad
      <4>1. QED
        BY <2>1, <2>2
    <3>2. QED
      BY <2>2, <3>1
  <2>4. InTurn(w[m])
    BY <1>4, <1>6, <1>t, <2>2, <2>3, StepAhead
  <2>5. f[m] \in Seq(Entries)
    BY <1>5, <1>6, <2>2, <2>3, NotedType
  <2>6. QED
    BY <2>1, <2>4, <2>5
<1>9. N \in 0 .. N /\ N \notin Bad
  BY <1>4, <1>8
<1>10. QED
  BY <1>9, <1>e

\* What a tier notes is what concerns it of what the input node notes.
LEMMA NotedConcerns ==
    ASSUME NEW r \in TierNodes, NEW n, NEW s \in Seq(Entries), NEW p, InTurn(p), NEW msg \in Announcements,
           msg.kind \in Kinds(p)
    PROVE  Concerning(Noted(Input, n, s, p, msg), r) = Noted(r, n, Concerning(s, r), p, msg)
<1> DEFINE e == [op |-> msg, tier |-> p.tier, endpoint |-> p.endpoint]
<1>1. CASE p.idx = n /\ msg.kind \in {"cut", "link"}
  <2>1. msg \in Ops /\ msg.start \in 0 .. Top
    BY <1>1, Sorts
  <2>2. Repairs(p)
    BY <1>1 DEF Kinds, Repairs
  <2>3. p.tier \in 0 .. Top /\ p.endpoint \in {1, 2}
    BY <2>2, RankNumbers DEF InTurn
  <2>4. e \in Entries /\ e.op = msg
    BY <2>1, <2>3 DEF Entries
  <2>5. Noted(Input, n, s, p, msg) = Append(s, e)
    BY <1>1 DEF Noted, Applies
  <2>6. Noted(r, n, Concerning(s, r), p, msg)
          = IF Applies(r, msg) THEN Append(Concerning(s, r), e) ELSE Concerning(s, r)
    BY <1>1 DEF Noted
  <2> HIDE DEF e
  <2>7. Concerning(Append(s, e), r) = IF e.op.start <= TierNum(r) THEN Append(Concerning(s, r), e)
                                      ELSE Concerning(s, r)
    BY <2>4, ConcerningAppend
  <2>8. Applies(r, msg) <=> e.op.start <= TierNum(r)
    <3>1. r # Input /\ TierNum(r) \in Int /\ msg.start \in Int
      BY <2>1, RankNumbers
    <3>2. QED
      BY <2>4, <3>1 DEF Applies
  <2>9. QED
    BY <2>5, <2>6, <2>7, <2>8
<1>2. CASE ~ (p.idx = n /\ msg.kind \in {"cut", "link"})
  BY <1>2 DEF Noted
<1>3. QED
  BY <1>1, <1>2

\* What a rank has applied for update n grows by what it notes, if n is the one it refreshes.
LEMMA RecordsKept ==
    ASSUME Typed, NEW x \in Ranks, NEW l, NEW msg, Step(x, l), Records(x, l, msg), NEW n \in Nat \ {0}
    PROVE  /\ Kept(x, n)' = Noted(x, n, Kept(x, n), Place(x), msg)
           /\ \A q \in Ranks \ {x} : Kept(q, n)' = Kept(q, n)
           /\ \A q \in Ranks : loc'[q].idx = loc[q].idx
           /\ \A q \in Ranks : loc[q].idx = 0 => log'[q] = log[q]
<1>1. loc'[x] = l /\ l.idx = loc[x].idx /\ \A q \in Ranks \ {x} : loc'[q] = loc[q]
  BY PlaceAfter DEF Step, Records
<1>2. CASE msg.kind \in {"cut", "link"}
  <2> DEFINE e == [op |-> msg, tier |-> loc[x].tier, endpoint |-> loc[x].endpoint]
             d == [op |-> msg, tier |-> Place(x).tier, endpoint |-> Place(x).endpoint]
  <2>1. PICK pc \in {"ops", "link"} :
            Place(x) = Turn(pc, loc[x].num, loc[x].idx, loc[x].tier, loc[x].endpoint)
    BY <1>2 DEF Records
  <2>2. Place(x).idx = loc[x].idx /\ Place(x).tier = loc[x].tier /\ Place(x).endpoint = loc[x].endpoint
    BY <2>1, PlaceFields
  <2>3. log' = IF Applies(x, msg) THEN [log EXCEPT ![x] = Append(@, e)] ELSE log
    BY <1>2 DEF Records, Apply
  <2>4. Noted(x, n, Kept(x, n), Place(x), msg)
          = IF Place(x).idx = n /\ Applies(x, msg) THEN Append(Kept(x, n), d) ELSE Kept(x, n)
    BY <1>2 DEF Noted
  <2>5. d = e
    BY <2>2
  <2>6. log \in [Ranks -> Seq(Entries)] /\ loc[x].idx # 0
    BY <1>2, Types DEF LogType, Records
  <2> HIDE DEF d, e
  <2>7. log'[x] = (IF Applies(x, msg) THEN Append(log[x], e) ELSE log[x])
        /\ \A q \in Ranks \ {x} : log'[q] = log[q]
    BY <2>3, <2>6
  <2>8. Kept(x, n)' = Noted(x, n, Kept(x, n), Place(x), msg)
    BY <1>1, <2>2, <2>4, <2>5, <2>7 DEF Kept
  <2>9. QED
    BY <1>1, <2>6, <2>7, <2>8 DEF Kept
<1>3. CASE msg.kind \notin {"cut", "link"}
  <2>1. log' = log
    BY <1>3 DEF Records
  <2>2. QED
    BY <1>1, <1>3, <2>1 DEF Kept, Noted
<1>4. QED
  BY <1>2, <1>3

\* A broadcast is noted last by every rank, ...
LEMMA LedgerSpeaks ==
    ASSUME TalkInv, NEW x \in Ranks, NEW l, NEW msg, Speaks(x, l, msg), NEW n \in Nat \ {0}, NEW q \in Ranks
    PROVE  Ledger(q, n)' = Noted(q, n, Ledger(q, n), Place(x), msg)
<1>0. /\ Typed /\ LocalInv /\ InStep
      /\ Step(x, l) /\ Records(x, l, msg) /\ msg \in Announcements /\ Bcast(x, msg)
      /\ Speaker(Place(x)) = x
  BY DEF TalkInv, Speaks
<1> DEFINE g == Place(x)
<1>1. Together(g) /\ bcasts[x] = <<>>
  BY <1>0, ComeTogether, AtTheEnd, TakeFacts
<1>2. PICK m \in Packets : m.msg = msg /\ \A o \in Ranks \ {x} : bcasts'[o] = Append(bcasts[o], m)
  BY <1>0, BcastEffect
<1>3. bcasts'[x] = bcasts[x]
  BY <1>0, BcastEffect
<1>4. \A o \in Ranks \ {x} : Place(o)' = Place(o)
  BY <1>0, PlaceAfter DEF Step
<1>5. CASE q = x
  <2>1. Ledger(x, n) = Kept(x, n) /\ Ledger(x, n)' = Kept(x, n)'
    BY <1>1, <1>3, LedgerComes, NothingToNote
  <2>2. QED
    BY <1>0, <1>5, <2>1, RecordsKept
<1>6. CASE q # x
  <2>1. Walk(Place(q), bcasts[q])[Len(bcasts[q])] = g /\ bcasts[q] \in Seq(Packets)
    BY <1>0, <1>1, TakeFacts DEF Together, Reaches
  <2>2. Ledger(q, n)' = Comes(q, n, Kept(q, n), Place(q), Append(bcasts[q], m))
    BY <1>0, <1>2, <1>4, <1>6, LedgerComes, RecordsKept
  <2>3. Ledger(q, n) = Comes(q, n, Kept(q, n), Place(q), bcasts[q])
    BY LedgerComes
  <2> HIDE DEF g
  <2>4. QED
    BY <1>2, <2>1, <2>2, <2>3, SpeakNotes DEF g
<1>7. QED
  BY <1>5, <1>6

\* ... a rank that takes one notes what it would, ...
LEMMA LedgerTakes ==
    ASSUME TalkInv, NEW x \in Ranks, NEW l, Takes(x, l), NEW n \in Nat \ {0}, NEW q \in Ranks
    PROVE  Ledger(q, n)' = Ledger(q, n)
<1>0. /\ Typed /\ LocalInv /\ InStep
      /\ Step(x, l) /\ Records(x, l, Announced(x)) /\ TakeBcast(x)
      /\ PlaceOf(l) = AfterMsg(Place(x), Announced(x))
  BY DEF TalkInv, Takes
<1>1. /\ bcasts[x] # <<>> /\ bcasts[x] \in Seq(Packets) /\ bcasts'[x] = Tail(bcasts[x])
      /\ \A o \in Ranks \ {x} : bcasts'[o] = bcasts[o]
  BY <1>0, TakeEffect
<1>2. Place(x)' = PlaceOf(l) /\ \A o \in Ranks \ {x} : Place(o)' = Place(o)
  BY <1>0, PlaceAfter DEF Step
<1>3. PICK msg : msg = Announced(x) /\ msg = Head(bcasts[x]).msg
  BY DEF Announced
<1>4. Records(x, l, msg)
  BY <1>0, <1>3
<1>5. CASE q = x
  <2>1. Kept(x, n)' = Noted(x, n, Kept(x, n), Place(x), msg)
    BY <1>0, <1>4, RecordsKept
  <2>2. Ledger(x, n)' = Comes(x, n, Noted(x, n, Kept(x, n), Place(x), msg), AfterMsg(Place(x), msg), Tail(bcasts[x]))
    BY <1>0, <1>1, <1>2, <1>3, <2>1, LedgerComes
  <2>3. Ledger(x, n) = Comes(x, n, Kept(x, n), Place(x), bcasts[x])
    BY LedgerComes
  <2>4. QED
    BY <1>1, <1>3, <1>5, <2>2, <2>3, TakeNotes
<1>6. CASE q # x
  BY <1>0, <1>1, <1>2, <1>4, <1>6, LedgerComes, RecordsKept
<1>7. QED
  BY <1>5, <1>6

\* ... and a step that neither sends nor logs changes nothing.
LEMMA LedgerStays ==
    ASSUME NEW q \in Ranks, NEW n, log' = log, bcasts' = bcasts, Place(q)' = Place(q), loc'[q].idx = loc[q].idx
    PROVE  Ledger(q, n)' = Ledger(q, n)
<1>1. Kept(q, n)' = Kept(q, n)
  BY DEF Kept
<1>2. QED
  BY <1>1, LedgerComes

\* The update of a place in a turn is that of the rank.
LEMMA PlaceIdx ==
    ASSUME NEW l \in Locals,
           l.pc \in {"start", "refresh", "pass", "declare", "query", "cut", "link", "head", "answer", "ops"}
    PROVE  PlaceOf(l).idx = l.idx
<1>1. \E pc, tier, endpoint : PlaceOf(l) = Turn(pc, l.num, l.idx, tier, endpoint)
  BY Places
<1>2. QED
  BY <1>1, PlaceFields
LEMMA QuietIdx ==
    ASSUME Typed, LocalInv, NEW r \in Ranks, NEW l, Quiet(r, l),
           \/ /\ loc[r].pc \in {"start", "refresh", "pass", "query", "answer"}
              /\ l.pc \in {"head", "pass", "declare", "cut", "link", "ops"}
           \/ loc[r].pc = "sizes" /\ l.pc \in {"sizes", "reduce"}
    PROVE  /\ bcasts' = bcasts
           /\ \A q \in Ranks : Place(q)' = Place(q) /\ loc'[q].idx = loc[q].idx
<1>1. /\ bcasts' = bcasts /\ PlaceOf(l) = Place(r) /\ l \in Locals /\ Fits(r, l)
      /\ loc' = [loc EXCEPT ![r] = l]
  BY DEF Quiet, Step
<1>2. /\ loc[r] \in Locals
      /\ Place(r) = PlaceOf(loc[r])
      /\ loc[r].idx = 0 <=> loc[r].pc \in Resting
  BY Here
<1>3. l.idx = loc[r].idx
  <2>1. CASE /\ loc[r].pc \in {"start", "refresh", "pass", "query", "answer"}
             /\ l.pc \in {"head", "pass", "declare", "cut", "link", "ops"}
    <3>1. PlaceOf(l).idx = l.idx
      BY <1>1, <2>1, PlaceIdx
    <3>2. PlaceOf(loc[r]).idx = loc[r].idx
      <4> DEFINE k == loc[r]
      <4>1. k \in Locals /\ k.pc \in {"start", "refresh", "pass", "query", "answer"}
        BY <1>2, <2>1
      <4> HIDE DEF k
      <4>2. PlaceOf(k).idx = k.idx
        BY <4>1, PlaceIdx
      <4>3. QED
        BY <4>2 DEF k
    <3>3. QED
      BY <1>1, <1>2, <3>1, <3>2
  <2>2. CASE loc[r].pc = "sizes" /\ l.pc \in {"sizes", "reduce"}
    <3>1. l.idx = 0
      BY <1>1, <2>2 DEF Fits, Resting
    <3>2. QED
      BY <1>2, <2>2, <3>1 DEF Resting
  <2>3. QED
    BY <2>1, <2>2
<1>4. QED
  BY <1>1, <1>2, <1>3, PlaceAfter
LEMMA SilentSteps ==
    ASSUME TalkInv,
           \/ StartRefresh \/ Answer
           \/ \E r \in TierNodes : PassRefresh(r) \/ TakeRefresh(r) \/ TakeResponse(r) \/ ExchangeSizes(r)
    PROVE  /\ log' = log /\ bcasts' = bcasts
           /\ \A q \in Ranks : Place(q)' = Place(q) /\ loc'[q].idx = loc[q].idx
<1>0. Typed /\ LocalInv /\ InStep /\ AnswerInv /\ Input \in Ranks /\ TierNodes \subseteq Ranks
  BY RankNumbers DEF TalkInv
<1>1. log' = log
  BY DEF StartRefresh, Answer, PassRefresh, TakeRefresh, TakeResponse, ExchangeSizes
<1>2. PICK r \in Ranks, l \in Locals : /\ Quiet(r, l)
                 /\ \/ /\ loc[r].pc \in {"start", "refresh", "pass", "query", "answer"}
                       /\ l.pc \in {"head", "pass", "declare", "cut", "link", "ops"}
                    \/ loc[r].pc = "sizes" /\ l.pc \in {"sizes", "reduce"}
  <2>1. \A r, l : Quiet(r, l) => l \in Locals
    BY DEF Quiet, Step
  <2>2. CASE StartRefresh
    BY <1>0, <2>1, <2>2, StartRefreshQuiet
  <2>3. CASE Answer
    BY <1>0, <2>1, <2>3, AnswerQuiet
  <2>4. ASSUME NEW r \in TierNodes, PassRefresh(r) \/ TakeRefresh(r) \/ TakeResponse(r) \/ ExchangeSizes(r)
        PROVE  \E l \in Locals :
                  /\ Quiet(r, l)
                  /\ \/ /\ loc[r].pc \in {"start", "refresh", "pass", "query", "answer"}
                        /\ l.pc \in {"head", "pass", "declare", "cut", "link", "ops"}
                     \/ loc[r].pc = "sizes" /\ l.pc \in {"sizes", "reduce"}
    <3>1. CASE PassRefresh(r)
      BY <1>0, <2>1, <3>1, PassRefreshQuiet
    <3>2. CASE TakeRefresh(r)
      BY <1>0, <2>1, <3>2, TakeRefreshQuiet
    <3>3. CASE TakeResponse(r)
      BY <1>0, <2>1, <3>3, TakeResponseQuiet
    <3>4. CASE ExchangeSizes(r)
      BY <1>0, <2>1, <3>4, ExchangeQuiet
    <3>5. QED
      BY <2>4, <3>1, <3>2, <3>3, <3>4
  <2>5. QED
    BY <1>0, <2>2, <2>3, <2>4
<1>3. QED
  BY <1>0, <1>1, <1>2, QuietIdx

\* A rank that goes on to the next update begins an empty log.
LEMMA NextLedger ==
    ASSUME TalkInv, NEW x \in Ranks, NextUpdate(x), NEW n \in Nat \ {0}
    PROVE  /\ \A q \in Ranks : loc'[q].idx \in 1 .. n => loc[q].idx \in 1 .. n /\ Ledger(q, n)' = Ledger(q, n)
           /\ \A q \in Ranks : log'[q] = <<>> \/ (log'[q] = log[q] /\ loc'[q].idx = loc[q].idx)
<1>0. Typed /\ LocalInv /\ InStep
  BY DEF TalkInv
<1>1. PICK l : Quiet(x, l) /\ l.pc \in {"fill", "batch", "start", "refresh", "head"}
  BY <1>0, NextUpdateQuiet
<1>2. loc[x].pc = "next" /\ log' = [log EXCEPT ![x] = <<>>]
  BY <1>0, NextUpdateQuiet DEF NextUpdate
<1>3. /\ bcasts' = bcasts /\ PlaceOf(l) = Place(x) /\ l \in Locals /\ Fits(x, l)
      /\ loc' = [loc EXCEPT ![x] = l]
  BY <1>1 DEF Quiet, Step
<1>4. \A q \in Ranks : Place(q)' = Place(q)
  BY <1>0, <1>3, PlaceAfter
<1>5. loc'[x] = l /\ \A q \in Ranks \ {x} : loc'[q] = loc[q]
  BY <1>0, <1>3, PlaceAfter
<1>6. log'[x] = <<>> /\ \A q \in Ranks \ {x} : log'[q] = log[q]
  BY <1>0, <1>2, Types DEF LogType
<1>7. loc[x] \in Locals /\ Place(x) = PlaceOf(loc[x]) /\ loc[x].idx <= loc[x].num /\ loc[x].idx # 0
      /\ loc[x].idx \in Nat /\ loc[x].num \in Nat
  BY <1>0, <1>2, Here, Fields DEF Resting
<1>8. Place(x).idx \in {0, loc[x].idx + 1}
  <2> DEFINE k == loc[x]
  <2>1. k \in Locals /\ k.pc = "next" /\ k.idx \in Nat /\ k.num \in Nat
    BY <1>2, <1>7
  <2> HIDE DEF k
  <2>2. PlaceOf(k) = Turn("head", k.num, k.idx + 1, 1, 1) \/ PlaceOf(k) = Rest("batch", 0)
    BY <2>1, Places
  <2>3. QED
    BY <1>7, <2>2, PlaceFields DEF k
<1>9. l.idx \in {0, loc[x].idx + 1}
  <2>1. CASE l.pc \in {"fill", "batch"}
    BY <1>3, <2>1 DEF Fits, Resting
  <2>2. CASE l.pc \in {"start", "refresh", "head"}
    BY <1>3, <1>8, <2>2, PlaceIdx
  <2>3. QED
    BY <1>1, <2>1, <2>2
<1>10. ASSUME NEW q \in Ranks, loc'[q].idx \in 1 .. n
       PROVE  loc[q].idx \in 1 .. n /\ Ledger(q, n)' = Ledger(q, n)
  <2>1. CASE q = x
    <3>1. l.idx \in 1 .. n /\ l.idx = loc[x].idx + 1
      BY <1>5, <1>9, <1>10, <2>1
    <3>2. loc[x].idx \in 1 .. n /\ loc[x].idx # n
      BY <1>7, <3>1
    <3>3. Kept(x, n) = <<>> /\ Kept(x, n)' = <<>>
      BY <1>6, <3>2 DEF Kept
    <3>4. Ledger(x, n)' = Ledger(x, n)
      BY <1>3, <1>4, <3>3, LedgerComes
    <3>5. QED
      BY <2>1, <3>2, <3>4
  <2>2. CASE q # x
    <3>1. loc'[q] = loc[q] /\ log'[q] = log[q] /\ bcasts' = bcasts /\ Place(q)' = Place(q)
      BY <1>3, <1>4, <1>5, <1>6, <2>2
    <3>2. Kept(q, n)' = Kept(q, n)
      BY <3>1 DEF Kept
    <3>3. QED
      BY <1>10, <3>1, <3>2, LedgerComes
  <2>3. QED
    BY <2>1, <2>2
<1>11. QED
  BY <1>5, <1>6, <1>10

\* The invariant of the logs is inductive, ...
LEMMA LogStep ==
    ASSUME TalkInv, LogInv, [Next]_vars
    PROVE  LogInv'
<1>0. /\ Typed /\ LocalInv /\ InStep /\ Input \in Ranks /\ TierNodes \subseteq Ranks
      /\ \A n \in 1 .. BatchSize : n \in Nat \ {0}
  BY RankNumbers DEF TalkInv
<1> DEFINE Same1(r, n) == Ledger(r, n) = Concerning(Ledger(Input, n), r)
           Live(r, n) == loc[r].idx \in 1 .. n
<1>1. ASSUME NEW r \in TierNodes, NEW n \in 1 .. BatchSize, Live(r, n), Live(Input, n)
      PROVE  Same1(r, n)
  BY <1>1 DEF LogInv
<1>2. ASSUME NEW x \in Ranks, NEW l, NEW msg, Speaks(x, l, msg)
      PROVE  LogInv'
  <2>0. Step(x, l) /\ Records(x, l, msg) /\ msg \in Announcements /\ msg.kind \in Kinds(Place(x))
    BY <1>2 DEF Speaks
  <2>1. /\ \A q \in Ranks : loc'[q].idx = loc[q].idx
        /\ \A q \in Ranks : loc[q].idx = 0 => log'[q] = log[q]
    <3>1. 1 \in Nat \ {0}
      OBVIOUS
    <3>2. QED
      BY <1>0, <2>0, <3>1, RecordsKept
  <2>2. ASSUME NEW r \in TierNodes, NEW n \in 1 .. BatchSize, loc'[r].idx \in 1 .. n, loc'[Input].idx \in 1 .. n
        PROVE  Ledger(r, n)' = Concerning(Ledger(Input, n)', r)
    <3>1. Same1(r, n)
      BY <1>0, <1>1, <2>1, <2>2
    <3>2. \A q \in Ranks : Ledger(q, n)' = Noted(q, n, Ledger(q, n), Place(x), msg)
      BY <1>0, <1>2, LedgerSpeaks
    <3>3. Ledger(Input, n) \in Seq(Entries) /\ InTurn(Place(x))
      BY <1>0, LedgerType, Here, TakeAhead
    <3> DEFINE s == Ledger(Input, n)
               p == Place(x)
    <3>4. s \in Seq(Entries) /\ InTurn(p) /\ msg.kind \in Kinds(p) /\ Ledger(r, n) = Concerning(s, r)
          /\ Ledger(r, n)' = Noted(r, n, Ledger(r, n), p, msg)
          /\ Ledger(Input, n)' = Noted(Input, n, s, p, msg)
      BY <1>0, <2>0, <3>1, <3>2, <3>3
    <3> HIDE DEF s, p, Same1
    <3>5. Concerning(Noted(Input, n, s, p, msg), r) = Noted(r, n, Concerning(s, r), p, msg)
      BY <2>0, <3>4, NotedConcerns
    <3>6. QED
      BY <3>4, <3>5
  <2>3. \A q \in Ranks : loc'[q].idx = 0 => log'[q] = <<>>
    BY <2>1 DEF LogInv
  <2>4. QED
    BY <2>2, <2>3 DEF LogInv
<1>3. ASSUME \A n \in 1 .. BatchSize, q \in Ranks : loc'[q].idx \in 1 .. n =>
                 loc[q].idx \in 1 .. n /\ Ledger(q, n)' = Ledger(q, n),
             \A q \in Ranks : loc'[q].idx = 0 => log'[q] = <<>>
      PROVE  LogInv'
  <2>1. ASSUME NEW r \in TierNodes, NEW n \in 1 .. BatchSize, loc'[r].idx \in 1 .. n, loc'[Input].idx \in 1 .. n
        PROVE  Ledger(r, n)' = Concerning(Ledger(Input, n)', r)
    <3>1. Same1(r, n) /\ Ledger(r, n)' = Ledger(r, n) /\ Ledger(Input, n)' = Ledger(Input, n)
      BY <1>0, <1>1, <1>3, <2>1
    <3>2. QED
      BY <3>1
  <2>2. QED
    BY <1>3, <2>1 DEF LogInv
<1>4. ASSUME NEW x \in Ranks, NEW l, Takes(x, l)
      PROVE  LogInv'
  <2>1. PICK msg : msg = Announced(x)
    OBVIOUS
  <2>2. Step(x, l) /\ Records(x, l, msg)
    BY <1>4, <2>1 DEF Takes
  <2>3. /\ \A q \in Ranks : loc'[q].idx = loc[q].idx
        /\ \A q \in Ranks : loc[q].idx = 0 => log'[q] = log[q]
    <3>1. 1 \in Nat \ {0}
      OBVIOUS
    <3>2. QED
      BY <1>0, <2>2, <3>1, RecordsKept
  <2>4. \A n \in 1 .. BatchSize, q \in Ranks : Ledger(q, n)' = Ledger(q, n)
    BY <1>0, <1>4, LedgerTakes
  <2>5. \A q \in Ranks : loc'[q].idx = 0 => log'[q] = <<>>
    BY <2>3 DEF LogInv
  <2>6. QED
    BY <1>3, <2>3, <2>4, <2>5
<1>5. ASSUME log' = log, bcasts' = bcasts,
             \A q \in Ranks : Place(q)' = Place(q) /\ loc'[q].idx = loc[q].idx
      PROVE  LogInv'
  <2>1. \A n \in 1 .. BatchSize, q \in Ranks : Ledger(q, n)' = Ledger(q, n)
    BY <1>5, LedgerStays
  <2>2. \A q \in Ranks : loc'[q].idx = 0 => log'[q] = <<>>
    BY <1>5 DEF LogInv
  <2>3. QED
    BY <1>3, <1>5, <2>1, <2>2
<1>6. ASSUME NEW x \in Ranks, NextUpdate(x)
      PROVE  LogInv'
  <2>1. \A n \in 1 .. BatchSize, q \in Ranks : loc'[q].idx \in 1 .. n =>
                 loc[q].idx \in 1 .. n /\ Ledger(q, n)' = Ledger(q, n)
    BY <1>0, <1>6, NextLedger
  <2>2. \A q \in Ranks : log'[q] = <<>> \/ (log'[q] = log[q] /\ loc'[q].idx = loc[q].idx)
    <3>1. 1 \in Nat \ {0}
      OBVIOUS
    <3>2. QED
      BY <1>6, <3>1, NextLedger
  <2>3. \A q \in Ranks : loc'[q].idx = 0 => log'[q] = <<>>
    BY <2>2 DEF LogInv
  <2>4. QED
    BY <1>3, <2>1, <2>3
<1>7. CASE AllReduce
  <2>1. /\ \A q \in Ranks : loc[q].pc = "reduce" /\ bcasts[q] = <<>>
        /\ bcasts' = bcasts /\ log' = log
    BY <1>0, <1>7, AllReduceTogether DEF AllReduce
  <2>2. \A q \in Ranks : log[q] = <<>>
    BY <1>0, <2>1, Here DEF LogInv, Resting
  <2>3. ASSUME NEW q \in Ranks, NEW n
        PROVE  Ledger(q, n)' = <<>>
    <3>1. Kept(q, n)' = <<>>
      BY <2>1, <2>2 DEF Kept
    <3>2. QED
      BY <2>1, <3>1, LedgerComes, NothingToNote
  <2>4. \A r : Concerning(<<>>, r) = <<>>
    BY ConcerningAppend
  <2>5. QED
    BY <1>0, <2>1, <2>2, <2>3, <2>4 DEF LogInv
<1>8. CASE UNCHANGED vars
  <2>1. log' = log /\ bcasts' = bcasts /\ loc' = loc
    BY <1>8 DEF vars
  <2>2. \A q \in Ranks : Place(q)' = Place(q) /\ loc'[q].idx = loc[q].idx
    BY <2>1 DEF Place
  <2>3. QED
    BY <1>5, <2>1, <2>2
<1>9. CASE \/ StartRefresh \/ Answer
           \/ \E r \in TierNodes : PassRefresh(r) \/ TakeRefresh(r) \/ TakeResponse(r) \/ ExchangeSizes(r)
  BY <1>5, <1>9, SilentSteps
<1> HIDE DEF Same1, Live
<1>10. CASE Next
  BY <1>2, <1>4, <1>6, <1>7, <1>8, <1>9, <1>10, NextKinds
<1>11. QED
  BY <1>8, <1>10

\* ... and holds at first.
LEMMA InitLog ==
    ASSUME Init
    PROVE  LogInv
<1>1. \A r \in Ranks : loc[r].idx = 0 /\ log[r] = <<>>
  BY DEF Init, Idle
<1>2. \A r \in TierNodes, n \in 1 .. BatchSize : log[r] = <<>> /\ loc[r].idx \notin 1 .. n
  BY <1>1, RankNumbers
<1>3. QED
  BY <1>1, <1>2, RankNumbers DEF LogInv

\* A rank that has finished an update owes nothing to its log.
Past(p, n) == Repairs(p) => InTurn(p) /\ p.idx > n
LEMMA PastStays ==
    ASSUME NEW p, NEW n \in Nat, Past(p, n), NEW msg, msg.kind \in Kinds(p)
    PROVE  /\ Past(AfterMsg(p, msg), n)
           /\ \A r, s : Noted(r, n, s, p, msg) = s
<1> DEFINE q == AfterMsg(p, msg)
<1>1. CASE Repairs(p)
  <2>1. InTurn(p) /\ p.idx > n /\ p.num \in Nat /\ p.idx \in Nat /\ p.tier \in 1 .. Top /\ p.endpoint \in {1, 2}
    BY <1>1 DEF Past, InTurn
  <2>2. InTurn(q)
    <3>1. Top \in 1 .. Top
      BY RankNumbers
    <3>2. QED
      BY <2>1, <3>1, StepAhead
  <2>3. Repairs(q) => q.idx > n
    <3>0. msg.kind \in {"isolated", "not_isolated", "cut", "link"}
      BY <1>1 DEF Repairs, Kinds
    <3>1. CASE msg.kind \in {"isolated", "cut"}
      <4>1. q.idx = p.idx
        BY <3>1, PlaceFields DEF AfterMsg
      <4>2. QED
        BY <2>1, <4>1
    <3>2. CASE msg.kind \in {"not_isolated", "link"}
      <4>1. q = NextEndpoint(p)
        BY <3>2 DEF AfterMsg
      <4>2. q.idx \in {p.idx, p.idx + 1} \/ q = Rest("batch", 0)
        BY <4>1, PlaceFields DEF NextEndpoint
      <4>3. ~ Repairs(Rest("batch", 0))
        BY AheadOfRest
      <4>4. QED
        BY <2>1, <4>2, <4>3
    <3>3. QED
      BY <3>0, <3>1, <3>2
  <2>4. p.idx # n
    BY <2>1
  <2>5. QED
    BY <2>2, <2>3, <2>4 DEF Past, Noted
<1>2. CASE ~ Repairs(p)
  <2>1. msg.kind \in {"batch", "end"}
    BY <1>2 DEF Repairs, Kinds
  <2>2. q = Rest("done", 0) \/ q = Rest("reduce", msg.num)
    BY <2>1 DEF AfterMsg
  <2>3. ~ Repairs(q)
    BY <2>2, AheadOfRest
  <2>4. QED
    BY <2>1, <2>3 DEF Past, Noted
<1>3. QED
  BY <1>1, <1>2

LEMMA LedgerDone ==
    ASSUME TalkInv, NEW r \in Ranks, loc[r].pc = "next"
    PROVE  Ledger(r, loc[r].idx) = log[r]
<1>0. Typed /\ LocalInv /\ InStep /\ loc[r].idx \in Nat /\ loc[r].num \in Nat /\ loc[r] \in Locals
      /\ Place(r) = PlaceOf(loc[r]) /\ loc[r].idx <= loc[r].num
  BY Here, Fields DEF TalkInv
<1> DEFINE n == loc[r].idx
           p == Place(r)
           q == bcasts[r]
           s == Kept(r, n)
           w == Walk(p, q)
           f == Logs(r, n, s, p, q)
           N == Len(q)
           Good(k) == f[k] = s /\ Past(w[k], n)
           Bad == {k \in 0 .. N : ~ Good(k)}
<1>1. s = log[r]
  BY DEF Kept
<1>2. Past(p, n)
  <2>1. InTurn(p)
    BY <1>0, Here, TakeAhead
  <2> DEFINE k == loc[r]
  <2>2. k \in Locals /\ k.pc = "next" /\ k.idx \in Nat /\ k.num \in Nat
    BY <1>0
  <2> HIDE DEF k
  <2>3. PlaceOf(k) = Turn("head", k.num, k.idx + 1, 1, 1) \/ PlaceOf(k) = Rest("batch", 0)
    BY <2>2, Places
  <2>4. ~ Repairs(Rest("batch", 0))
    BY AheadOfRest
  <2>5. Repairs(PlaceOf(k)) => PlaceOf(k).idx = k.idx + 1
    BY <2>3, <2>4, PlaceFields
  <2>6. Repairs(p) => p.idx = n + 1
    BY <1>0, <2>5 DEF k
  <2>7. n + 1 > n
    BY <1>0
  <2>8. QED
    BY <2>1, <2>6, <2>7 DEF Past
<1>3. q \in Seq(Packets)
  BY <1>0, TakeFacts
<1>4. /\ w[0] = p /\ \A k \in 1 .. N : w[k] = AfterMsg(w[k - 1], q[k].msg)
      /\ N \in Nat
  BY <1>3, WalkNext
<1>5. /\ f[0] = s /\ \A k \in 1 .. N : f[k] = Noted(r, n, f[k - 1], w[k - 1], q[k].msg)
  BY <1>3, LogsNote DEF Notes
<1>6. \A k \in 1 .. N : q[k].msg.kind \in Kinds(w[k - 1])
  <2>1. Reaches(r, p, q, End(Input))
    BY <1>0, ComeTogether DEF Together
  <2>2. QED
    BY <2>1 DEF Reaches
<1>7. Good(0)
  BY <1>2, <1>4, <1>5
<1>e. Ledger(r, n) = f[N]
  BY DEF Ledger
<1>n. n \in Nat
  BY <1>0
<1> HIDE DEF n, p, q, s, w, f, N
<1>8. ASSUME Bad # {}
      PROVE  FALSE
  <2>0. Bad \in SUBSET Nat
    BY <1>4
  <2>1. PICK m \in Bad : \A k \in Bad : m <= k
    <3> HIDE DEF Bad
    <3>1. QED
      BY <1>8, <2>0, LeastNumber
  <2>2. m \in 1 .. N /\ m - 1 \in 0 .. N /\ ~ (m <= m - 1)
    BY <1>4, <1>7, <2>1
  <2>3. Good(m - 1)
    <3>1. m - 1 \notin Bad
      <4> HIDE DEF Bad
      <4>1. QED
        BY <2>1, <2>2
    <3>2. QED
      BY <2>2, <3>1
  <2>4. Past(w[m], n) /\ f[m] = f[m - 1]
    BY <1>4, <1>5, <1>6, <1>n, <2>2, <2>3, PastStays
  <2>5. QED
    BY <2>1, <2>3, <2>4
<1>9. N \in 0 .. N /\ N \notin Bad
  BY <1>4, <1>8
<1>10. QED
  BY <1>1, <1>9, <1>e DEF n

\* A tier and the input node that have finished the same update have the same log of it,
\* as far as it concerns the tier.
LEMMA LogsAgree ==
    ASSUME TalkInv, LogInv
    PROVE  TiersFollowLct
<1>1. SUFFICES ASSUME NEW r \in TierNodes, loc[r].pc = "next", loc[Input].pc = "next",
                      loc[r].idx = loc[Input].idx
               PROVE  log[r] = Concerning(log[Input], r)
  BY DEF TiersFollowLct
<1> DEFINE n == loc[r].idx
<1>2. r \in Ranks /\ Input \in Ranks /\ Typed /\ LocalInv
  BY RankNumbers DEF TalkInv
<1>3. n \in 1 .. BatchSize /\ n \in 1 .. n
  <2>1. n \in 0 .. BatchSize /\ n # 0 /\ BatchSize \in Nat
    BY <1>1, <1>2, Here, Fields, RankNumbers DEF Resting
  <2>2. QED
    BY <2>1
<1>4. Ledger(r, n) = log[r] /\ Ledger(Input, n) = log[Input]
  BY <1>1, <1>2, LedgerDone
<1> HIDE DEF n
<1>5. loc[r].idx \in 1 .. n /\ loc[Input].idx \in 1 .. n
  BY <1>1, <1>3 DEF n
<1>6. Ledger(r, n) = Concerning(Ledger(Input, n), r)
  BY <1>3, <1>5 DEF LogInv
<1>7. QED
  BY <1>4, <1>6

\* A tier applies exactly the cuts and links of the link-cut tree that concern it, in the order in
\* which the input node does (TiersFollowLct), for any number of tiers and whatever is buffered.
THEOREM LogsFollow == Spec => []TiersFollowLct
<1>1. Init => TalkInv /\ LogInv
  BY InitTalk, InitLog
<1>2. TalkInv /\ LogInv /\ [Next]_vars => (TalkInv /\ LogInv)'
  BY TalkStep, LogStep
<1>3. TalkInv /\ LogInv => TiersFollowLct
  BY LogsAgree
<1>4. QED
  BY <1>1, <1>2, <1>3, PTL DEF Spec
==============================================================================
