------------------------------ MODULE MpiSteps -------------------------------
(***************************************************************************)
(* Lemmas on MpiTiers.  First its inductive invariant: the places a rank   *)
(* of the MPI engine comes by while it takes the broadcasts it is owed,    *)
(* what its local variables say of its place, and the ledger of the cuts   *)
(* and links it has still to apply.  Then why all ranks come to the same   *)
(* place whoever of them takes a step: every action is a step of one rank  *)
(* that broadcasts, takes a broadcast or does neither (Speaks, Takes,      *)
(* Quiet), to local variables that fit its new place, or it is the         *)
(* all-reduce.                                                             *)
(***************************************************************************)
EXTENDS MpiTiers, SequenceTheorems, WellFoundedInduction, TLAPS

------------------------------------------------------------------------------
\* The inductive invariant behind TypeOK, CollectivesMatch and BatchesAreSeparate.

\* A place in the sequence of collective calls, which is the same for all ranks: the next
\* broadcast opens a batch, says whether a tree is isolated ("head"), is the first or the
\* second of its operations ("ops", "link"), or there is none before an all-reduce.
Rest(pc, num)                     == [pc |-> pc, num |-> num, idx |-> 0, tier |-> 0, endpoint |-> 0]
Turn(pc, num, idx, tier, endpoint) == [pc |-> pc, num |-> num, idx |-> idx, tier |-> tier,
                                       endpoint |-> endpoint]
Repairs(p) == p.pc \in {"head", "ops", "link"}

\* The place of a rank that has the local variables l.
PlaceOf(l) ==
    CASE l.pc \in {"fill", "batch"}            -> Rest("batch", 0)
      [] l.pc \in {"sizes", "reduce"}          -> Rest("reduce", l.num)
      [] l.pc = "start"                        -> Turn("head", l.num, l.idx, 1, 1)
      [] l.pc = "refresh"                      -> Turn("head", l.num, l.idx, IF l.tier = 0 THEN 1 ELSE l.tier, 1)
      [] l.pc = "pass"                         -> Turn("head", l.num, l.idx, l.tier + 1, 1)
      [] l.pc \in {"declare", "head"}          -> Turn("head", l.num, l.idx, l.tier, l.endpoint)
      [] l.pc \in {"query", "answer", "cut"}   -> Turn("ops", l.num, l.idx, l.tier, l.endpoint)
      [] l.pc = "link"                         -> Turn(IF l.weight = 0 THEN "ops" ELSE "link",
                                                       l.num, l.idx, l.tier, l.endpoint)
      [] l.pc = "ops"                          -> Turn(IF l.round = 1 THEN "ops" ELSE "link",
                                                       l.num, l.idx, l.tier, l.endpoint)
      [] l.pc = "next" /\ l.idx < l.num        -> Turn("head", l.num, l.idx + 1, 1, 1)
      [] l.pc = "next" /\ l.idx >= l.num       -> Rest("batch", 0)
      [] OTHER                                 -> Rest("done", 0)

\* The place after the repair of an endpoint, and after the broadcast of msg.
NextEndpoint(p) ==
    CASE p.endpoint = 1                                  -> Turn("head", p.num, p.idx, p.tier, 2)
      [] p.endpoint # 1 /\ p.tier # Top                  -> Turn("head", p.num, p.idx, p.tier + 1, 1)
      [] p.endpoint # 1 /\ p.tier = Top /\ p.idx < p.num -> Turn("head", p.num, p.idx + 1, 1, 1)
      [] OTHER                                           -> Rest("batch", 0)
AfterMsg(p, msg) ==
    CASE msg.kind = "end"      -> Rest("done", 0)
      [] msg.kind = "batch"    -> Rest("reduce", msg.num)
      [] msg.kind = "isolated" -> Turn("ops", p.num, p.idx, p.tier, p.endpoint)
      [] msg.kind = "cut"      -> Turn("link", p.num, p.idx, p.tier, p.endpoint)
      [] OTHER                 -> NextEndpoint(p)

\* Who broadcasts at a place, and what.
Speaker(p) == IF p.pc = "batch" THEN Input ELSE p.tier + 1
Kinds(p) == CASE p.pc = "batch" -> {"batch", "end"}
              [] p.pc = "head"  -> {"isolated", "not_isolated"}
              [] p.pc = "ops"   -> {"cut", "link"}
              [] p.pc = "link"  -> {"link"}
              [] OTHER          -> {}

\* The places a rank at p comes by while it takes the broadcasts q.
Walk(p, q) ==
    LET place[k \in 0 .. Len(q)] == IF k = 0 THEN p ELSE AfterMsg(place[k - 1], q[k].msg)
    IN  place
Place(r) == PlaceOf(loc[r])
End(r)   == Walk(Place(r), bcasts[r])[Len(bcasts[r])]

\* The broadcasts a rank has still to take are those of the places it comes by, and they
\* bring all ranks to one place.
Follows(r) ==
    \A k \in 1 .. Len(bcasts[r]) :
        LET p == Walk(Place(r), bcasts[r])[k - 1]
        IN  /\ bcasts[r][k].root = Speaker(p) /\ bcasts[r][k].root # r
            /\ bcasts[r][k].msg.kind \in Kinds(p)
InStep == \A r \in Ranks : Follows(r) /\ End(r) = End(Input)

\* What the local variables of rank r may be.
OwnTurn == {"refresh", "pass", "declare", "query", "cut", "link"}
Resting == {"fill", "batch", "sizes", "reduce", "done"}
Fits(r, l) ==
    /\ l.pc \in (IF r = Input
                 THEN {"fill", "reduce", "start", "head", "answer", "ops", "next", "done"}
                 ELSE {"batch", "sizes", "reduce", "head", "ops", "next", "done"} \cup OwnTurn)
    /\ l.idx <= l.num
    /\ l.idx = 0 <=> l.pc \in Resting
    /\ l.pc \in OwnTurn => l.tier = TierNum(r)
    /\ l.pc \in {"declare", "query", "cut", "link", "head", "ops", "answer"} => l.tier # 0
    /\ l.pc \in {"head", "ops"} => l.tier # TierNum(r)
    /\ l.pc = "refresh" => l.endpoint = 1
    /\ l.pc = "pass" => TierNum(r) # Top
    /\ l.pc # "ops" => l.round = 1
    /\ l.pc \notin {"cut", "link"} => l.weight = 0
    /\ l.pc = "cut" => l.weight # 0
    /\ l.pc = "sizes" => l.sizes \in (IF r = 1 THEN {<<"recv">>} ELSE IF r = NumTiers THEN {<<"send">>}
                                     ELSE {<<"send">>, <<"recv">>, <<"send", "recv">>, <<"recv", "send">>})
LocalInv == \A r \in Ranks : Fits(r, loc[r])

\* Whether the sizes of this batch have still to be sent, or received.
SizesLeft(l, way) == l.pc # "reduce" /\ (l.pc = "sizes" => \E k \in DOMAIN l.sizes : l.sizes[k] = way)
SizesInv == \A r \in 1 .. NumTiers - 1 :
    Len(net[r + 1][r]) = (IF SizesLeft(loc[r], "recv") THEN 1 ELSE 0)
                         - (IF SizesLeft(loc[r + 1], "send") THEN 1 ELSE 0)

\* The refresh messages that rank r has still to send, and to receive, in the updates of
\* this batch: what one neighbour sent and the other did not take is under way, and that
\* is one at most.
HasPassed(r, l) == IF r = Input THEN l.pc # "start"
                   ELSE l.pc = "next" \/ (l.pc \notin OwnTurn /\ l.tier > TierNum(r))
HasTaken(r, l)  == HasPassed(r, l) \/ l.pc \in OwnTurn \ {"refresh"}
ToSend(r, l) == IF l.pc \in Resting THEN 0 ELSE l.num - l.idx + (IF HasPassed(r, l) THEN 0 ELSE 1)
ToTake(r, l) == IF l.pc \in Resting THEN 0 ELSE l.num - l.idx + (IF HasTaken(r, l) THEN 0 ELSE 1)
PassInv == \A r \in TierNodes :
    /\ Len(net[r - 1][r]) = ToTake(r, loc[r]) - ToSend(r - 1, loc[r - 1])
    /\ Len(net[r - 1][r]) <= 1

\* A tier that asks about a cycle keeps all others at its turn until it has its answer.
AnswerInv ==
    /\ \A r \in TierNodes \ {1} : net[Input][r] # <<>> =>
          /\ Len(net[Input][r]) = 1 /\ loc[r].pc = "query"
          /\ loc[Input].pc = "ops" /\ loc[Input].tier = TierNum(r) /\ bcasts[Input] = <<>>
          /\ Head(net[Input][r]).msg.kind = "lct"
    /\ loc[Input].pc = "answer" =>
          loc[loc[Input].tier + 1].pc = "query" /\ bcasts[Input] = <<>>
    /\ \A k \in 1 .. Len(bcasts[Input]) : bcasts[Input][k].msg.kind = "isolated" =>
          k = Len(bcasts[Input]) /\ loc[bcasts[Input][k].root].pc = "query"

\* Nobody else sends to anybody.
SilentInv == \A s, r \in Ranks : s \notin {r - 1, r + 1, Input} \/ r = Input => net[s][r] = <<>>

\* A rank is held in a send only by one that has a message of it to take.
BlockedInv == \A r \in Ranks : \A q \in blocked[r] :
    \/ \E k \in 1 .. Len(bcasts[q]) : bcasts[q][k].root = r /\ bcasts[q][k].waits
    \/ \E k \in 1 .. Len(net[r][q]) : net[r][q][k].waits

IInv == TypeOK /\ LocalInv /\ InStep /\ SizesInv /\ PassInv /\ AnswerInv /\ SilentInv /\ BlockedInv


\* What rank r at the place p adds to its log s of update n with the broadcast of msg.
Noted(r, n, s, p, msg) ==
    IF p.idx = n /\ msg.kind \in {"cut", "link"} /\ Applies(r, msg)
    THEN Append(s, [op |-> msg, tier |-> p.tier, endpoint |-> p.endpoint])
    ELSE s
\* The log of update n after each of the broadcasts q that r takes on its way from p.
Logs(r, n, s, p, q) ==
    LET after[k \in 0 .. Len(q)] ==
            IF k = 0 THEN s ELSE Noted(r, n, after[k - 1], Walk(p, q)[k - 1], q[k].msg)
    IN  after
\* What r has applied for update n and will when it has taken all it is owed.
Kept(r, n)   == IF loc[r].idx = n THEN log[r] ELSE <<>>
Ledger(r, n) == Logs(r, n, Kept(r, n), Place(r), bcasts[r])[Len(bcasts[r])]

\* Of the updates that neither has finished, a tier and the input node come to keep the
\* same log, and between the refreshes a log is empty.
LogInv == /\ \A r \in TierNodes, n \in 1 .. BatchSize :
                loc[r].idx \in 1 .. n /\ loc[Input].idx \in 1 .. n =>
                    Ledger(r, n) = Concerning(Ledger(Input, n), r)
          /\ \A r \in Ranks : loc[r].idx = 0 => log[r] = <<>>

------------------------------------------------------------------------------
\* Walks

\* A set of natural numbers has a least element: this stands for induction, which the
\* library states with an operator parameter.
LEMMA LeastNumber ==
    ASSUME NEW S \in SUBSET Nat, S # {}
    PROVE  \E m \in S : \A k \in S : m <= k
<1>1. PICK m \in S : \A k \in S : ~(<<k, m>> \in OpToRel(<, Nat))
  BY NatLessThanWellFounded, WFMin
<1>2. \A k \in S : ~(k < m)
  BY <1>1 DEF OpToRel
<1>3. QED
  BY <1>2

\* The recursion of Walk: by induction, the places up to each broadcast of q exist.
LEMMA WalkDef ==
    ASSUME NEW p, NEW q, Len(q) \in Nat
    PROVE  Walk(p, q) = [k \in 0 .. Len(q) |->
                            IF k = 0 THEN p ELSE AfterMsg(Walk(p, q)[k - 1], q[k].msg)]
<1> DEFINE n == Len(q)
           Places(f, m) == f = [k \in 0 .. m |->
                                   IF k = 0 THEN p ELSE AfterMsg(f[k - 1], q[k].msg)]
           Bad == {m \in 0 .. n : ~ \E f : Places(f, m)}
<1>1. ASSUME Bad # {}
      PROVE  FALSE
  <2>0. Bad \in SUBSET Nat
    OBVIOUS
  <2>1. PICK m \in Bad : \A k \in Bad : m <= k
    <3> HIDE DEF Bad
    <3>1. QED
      BY <1>1, <2>0, LeastNumber
  <2>2. m # 0
    <3>1. Places([k \in 0 .. 0 |-> p], 0)
      OBVIOUS
    <3>2. QED
      BY <2>1, <3>1
  <2>3. PICK f : Places(f, m - 1)
    <3>1. m - 1 \in 0 .. n /\ m - 1 \notin Bad
      BY <2>1, <2>2
    <3>2. QED
      BY <3>1
  <2> DEFINE g == [k \in 0 .. m |-> IF k = m THEN AfterMsg(f[m - 1], q[m].msg) ELSE f[k]]
  <2>4. \A k \in 0 .. m : g[k] = IF k = 0 THEN p ELSE AfterMsg(g[k - 1], q[k].msg)
    <3>1. TAKE k \in 0 .. m
    <3>2. CASE k = m
      BY <2>2, <3>2
    <3>3. CASE k # m
      <4>1. k \in 0 .. m - 1 /\ (k # 0 => k - 1 \in 0 .. m - 1)
        BY <3>3
      <4>2. f[k] = IF k = 0 THEN p ELSE AfterMsg(f[k - 1], q[k].msg)
        BY <2>3, <4>1
      <4>3. QED
        BY <3>3, <4>1, <4>2
    <3>4. QED
      BY <3>2, <3>3
  <2>5. Places(g, m)
    BY <2>4
  <2>6. QED
    BY <2>1, <2>5
<1>2. \E f : Places(f, n)
  BY <1>1
<1>3. Walk(p, q) = CHOOSE f : Places(f, n)
  BY DEF Walk
<1>4. QED
  BY <1>2, <1>3

\* What the rest of the module uses of Walk: the next place along it, ...
LEMMA WalkNext ==
    ASSUME NEW S, NEW q \in Seq(S), NEW p
    PROVE  /\ Len(q) \in Nat
           /\ Walk(p, q)[0] = p
           /\ \A k \in 1 .. Len(q) : Walk(p, q)[k] = AfterMsg(Walk(p, q)[k - 1], q[k].msg)
<1>1. Len(q) \in Nat
  OBVIOUS
<1> DEFINE w == Walk(p, q)
           n == Len(q)
<1>2. w = [k \in 0 .. n |-> IF k = 0 THEN p ELSE AfterMsg(w[k - 1], q[k].msg)]
  BY <1>1, WalkDef
<1> HIDE DEF w
<1>3. w[0] = p
  BY <1>1, <1>2
<1>4. \A k \in 1 .. n : w[k] = AfterMsg(w[k - 1], q[k].msg)
  <2>1. TAKE k \in 1 .. n
  <2>2. k \in 0 .. n /\ k # 0
    BY <1>1
  <2>3. QED
    BY <1>2, <2>2
<1>5. QED
  BY <1>1, <1>3, <1>4 DEF w

\* ... and that there is no other walk along the same broadcasts.
Goes(f, p, q, n) == f[0] = p /\ \A k \in 1 .. n : f[k] = AfterMsg(f[k - 1], q[k].msg)
\* a function that takes the same steps is the walk.
LEMMA WalkUnique ==
    ASSUME NEW S, NEW q \in Seq(S), NEW p, NEW f, NEW n \in 0 .. Len(q), Goes(f, p, q, n)
    PROVE  \A k \in 0 .. n : Walk(p, q)[k] = f[k]
<1> DEFINE Bad == {k \in 0 .. n : Walk(p, q)[k] # f[k]}
<1>1. ASSUME Bad # {}
      PROVE  FALSE
  <2>0. Bad \in SUBSET Nat
    OBVIOUS
  <2>1. PICK m \in Bad : \A k \in Bad : m <= k
    <3> HIDE DEF Bad
    <3>1. QED
      BY <1>1, <2>0, LeastNumber
  <2>2. m \in 1 .. n /\ m \in 1 .. Len(q)
    BY <2>1, WalkNext DEF Goes
  <2>3. m - 1 \notin Bad /\ m - 1 \in 0 .. n
    BY <2>1, <2>2
  <2>4. Walk(p, q)[m] = f[m]
    BY <2>2, <2>3, WalkNext DEF Goes
  <2>5. QED
    BY <2>1, <2>4
<1>2. QED
  BY <1>1

-------------------------------------------------------------------------------
\* Rank r at place p follows the broadcasts q to the place g.
Reaches(r, p, q, g) ==
    /\ \A k \in 1 .. Len(q) : /\ q[k].root = Speaker(Walk(p, q)[k - 1]) /\ q[k].root # r
                              /\ q[k].msg.kind \in Kinds(Walk(p, q)[k - 1])
    /\ Walk(p, q)[Len(q)] = g

\* A rank that is owed nothing stays where it is.
LEMMA NothingToTake ==
    ASSUME NEW r, NEW p
    PROVE  Reaches(r, p, <<>>, p)
<1>1. <<>> \in Seq({}) /\ Len(<<>>) = 0
  OBVIOUS
<1>2. Walk(p, <<>>)[0] = p
  BY <1>1, WalkNext
<1>3. QED
  BY <1>1, <1>2 DEF Reaches

\* At a place where the rank itself or nobody speaks it has nothing to take.
LEMMA OwnPlace ==
    ASSUME NEW S, NEW q \in Seq(S), NEW r, NEW p, NEW g, Reaches(r, p, q, g),
           Speaker(p) = r \/ Kinds(p) = {}
    PROVE  q = <<>> /\ g = p
<1>1. Walk(p, q)[0] = p /\ Len(q) \in Nat
  BY WalkNext
<1>2. Len(q) = 0
  <2>1. SUFFICES ASSUME Len(q) >= 1
                 PROVE  FALSE
    BY <1>1
  <2>2. 1 \in 1 .. Len(q) /\ 1 - 1 = 0
    BY <1>1, <2>1
  <2>3. q[1].root = Speaker(p) /\ q[1].root # r /\ q[1].msg.kind \in Kinds(p)
    BY <1>1, <2>2 DEF Reaches
  <2>4. QED
    BY <2>3
<1>3. QED
  BY <1>1, <1>2, EmptySeq DEF Reaches

\* Taking the next broadcast goes one place on.
LEMMA TakeReaches ==
    ASSUME NEW S, NEW q \in Seq(S), NEW r, NEW p, NEW g, Reaches(r, p, q, g), q # <<>>
    PROVE  /\ Head(q).root = Speaker(p) /\ Head(q).root # r /\ Head(q).msg.kind \in Kinds(p)
           /\ Reaches(r, AfterMsg(p, Head(q).msg), Tail(q), g)
<1> DEFINE n == Len(q)
           w == Walk(p, q)
           f == [k \in 0 .. n - 1 |-> w[k + 1]]
           t == Tail(q)
           p1 == AfterMsg(p, Head(q).msg)
<1>1. /\ n \in Nat /\ n # 0 /\ Head(q) = q[1]
      /\ t \in Seq(S) /\ Len(t) = n - 1 /\ \A k \in 1 .. n - 1 : t[k] = q[k + 1]
  OBVIOUS
<1>2. /\ w[0] = p /\ \A k \in 1 .. n : w[k] = AfterMsg(w[k - 1], q[k].msg)
      /\ w[n] = g
      /\ \A k \in 1 .. n : q[k].root = Speaker(w[k - 1]) /\ q[k].root # r /\ q[k].msg.kind \in Kinds(w[k - 1])
  BY WalkNext DEF Reaches
<1> HIDE DEF n, w, t
<1>3. f[0] = p1 /\ \A k \in 1 .. n - 1 : f[k] = AfterMsg(f[k - 1], t[k].msg)
  <2>1. f[0] = p1
    <3>1. 1 \in 1 .. n /\ f[0] = w[1] /\ w[1 - 1] = p
      BY <1>1, <1>2
    <3>2. QED
      BY <1>1, <1>2, <3>1
  <2>2. ASSUME NEW k \in 1 .. n - 1
        PROVE  f[k] = AfterMsg(f[k - 1], t[k].msg)
    <3>1. k + 1 \in 1 .. n /\ f[k] = w[k + 1] /\ f[k - 1] = w[k] /\ t[k] = q[k + 1]
      BY <1>1
    <3>2. w[k + 1] = AfterMsg(w[(k + 1) - 1], q[k + 1].msg) /\ (k + 1) - 1 = k
      BY <1>2, <3>1
    <3>3. QED
      BY <3>1, <3>2
  <2>3. QED
    BY <2>1, <2>2
<1> HIDE DEF p1
<1>4. \A k \in 0 .. n - 1 : Walk(p1, t)[k] = w[k + 1]
  <2>1. n - 1 \in 0 .. Len(t)
    BY <1>1
  <2> DEFINE h == f
  <2>2. \A k \in 0 .. n - 1 : h[k] = w[k + 1]
    OBVIOUS
  <2>3. h[0] = p1 /\ \A k \in 1 .. n - 1 : h[k] = AfterMsg(h[k - 1], t[k].msg)
    BY <1>3
  <2> HIDE DEF h
  <2>4. \A k \in 0 .. n - 1 : Walk(p1, t)[k] = h[k]
    <3> DEFINE M == n - 1
    <3>1. M \in 0 .. Len(t) /\ t \in Seq(S)
      BY <1>1
    <3>2. Goes(h, p1, t, M)
      BY <2>3 DEF Goes
    <3> HIDE DEF M
    <3>5. \A k \in 0 .. M : Walk(p1, t)[k] = h[k]
      BY <3>1, <3>2, WalkUnique
    <3>4. QED
      BY <3>5 DEF M
  <2>5. QED
    BY <2>2, <2>4
<1>5. Reaches(r, p1, t, g)
  <2>1. ASSUME NEW k \in 1 .. Len(t)
        PROVE  /\ t[k].root = Speaker(Walk(p1, t)[k - 1]) /\ t[k].root # r
               /\ t[k].msg.kind \in Kinds(Walk(p1, t)[k - 1])
    <3>1. k + 1 \in 1 .. n /\ t[k] = q[k + 1] /\ k - 1 \in 0 .. n - 1
      BY <1>1
    <3>2. Walk(p1, t)[k - 1] = w[(k - 1) + 1] /\ (k - 1) + 1 = (k + 1) - 1
      BY <1>4, <3>1
    <3>3. QED
      BY <1>2, <3>1, <3>2
  <2>2. Walk(p1, t)[Len(t)] = w[n]
    BY <1>1, <1>4
  <2>3. QED
    BY <1>2, <2>1, <2>2 DEF Reaches
<1>6. 1 \in 1 .. n /\ w[1 - 1] = p
  BY <1>1, <1>2
<1>7. QED
  BY <1>1, <1>2, <1>5, <1>6 DEF p1, t

\* A broadcast of the place all ranks come to moves that place on.
LEMMA SpeakReaches ==
    ASSUME NEW S, NEW q \in Seq(S), NEW r, NEW p, NEW g, Reaches(r, p, q, g),
           NEW m \in S, m.root = Speaker(g), m.root # r, m.msg.kind \in Kinds(g)
    PROVE  Reaches(r, p, Append(q, m), AfterMsg(g, m.msg))
<1> DEFINE n == Len(q)
           w == Walk(p, q)
           a == Append(q, m)
           v == Walk(p, a)
<1>1. /\ n \in Nat /\ a \in Seq(S) /\ Len(a) = n + 1
      /\ a[n + 1] = m /\ \A k \in 1 .. n : a[k] = q[k]
  OBVIOUS
<1>2. /\ v[0] = p
      /\ \A k \in 1 .. n + 1 : v[k] = AfterMsg(v[k - 1], a[k].msg)
  <2> DEFINE N == Len(a)
  <2>1. N = n + 1 /\ a \in Seq(S)
    BY <1>1
  <2>2. v[0] = p /\ \A k \in 1 .. N : v[k] = AfterMsg(v[k - 1], a[k].msg)
    <3> HIDE DEF a
    <3>1. QED
      BY <2>1, WalkNext
  <2> HIDE DEF N, a, v
  <2>3. QED
    BY <2>1, <2>2
<1>3. /\ w[n] = g
      /\ \A k \in 1 .. n : q[k].root = Speaker(w[k - 1]) /\ q[k].root # r /\ q[k].msg.kind \in Kinds(w[k - 1])
  BY DEF Reaches
<1>4. \A k \in 0 .. n : w[k] = v[k]
  <2>1. \A k \in 1 .. n : v[k] = AfterMsg(v[k - 1], q[k].msg)
    BY <1>1, <1>2
  <2>2. n \in 0 .. Len(q)
    BY <1>1
  <2> HIDE DEF v
  <2>3. QED
    BY <1>2, <2>1, <2>2, WalkUnique DEF Goes
<1> HIDE DEF n, w, a, v
<1>5. ASSUME NEW k \in 1 .. n + 1
      PROVE  a[k].root = Speaker(v[k - 1]) /\ a[k].root # r /\ a[k].msg.kind \in Kinds(v[k - 1])
  <2>1. CASE k = n + 1
    <3>1. k - 1 = n /\ n \in 0 .. n
      BY <1>1, <2>1
    <3>2. v[k - 1] = g /\ a[k] = m
      BY <1>1, <1>3, <1>4, <2>1, <3>1
    <3>3. QED
      BY <3>2
  <2>2. CASE k # n + 1
    <3>1. k \in 1 .. n /\ k - 1 \in 0 .. n
      BY <1>1, <2>2
    <3>2. v[k - 1] = w[k - 1] /\ a[k] = q[k]
      BY <1>1, <1>4, <3>1
    <3>3. QED
      BY <1>3, <3>1, <3>2
  <2>3. QED
    BY <2>1, <2>2
<1>6. v[n + 1] = AfterMsg(g, m.msg)
  <2>1. n + 1 \in 1 .. n + 1 /\ (n + 1) - 1 = n /\ n \in 0 .. n
    BY <1>1
  <2>2. v[n] = g
    BY <1>3, <1>4, <2>1
  <2>3. QED
    BY <1>1, <1>2, <2>1, <2>2
<1>7. QED
  BY <1>1, <1>5, <1>6 DEF Reaches, a, v

------------------------------------------------------------------------------
\* Local variables

\* The ranks are numbers.
LEMMA RankNumbers ==
    /\ NumTiers \in Nat /\ NumTiers >= 2 /\ Top = NumTiers - 1 /\ Top \in Nat /\ Top >= 1
    /\ BatchSize \in Nat /\ Input = 0 /\ Input \in Ranks
    /\ Ranks \subseteq Nat /\ TierNodes \subseteq Ranks /\ Input \notin TierNodes
    /\ \A r \in Ranks : r <= NumTiers /\ (r # Input <=> r \in TierNodes) /\ TierNum(r) = r - 1
    /\ \A r \in TierNodes : r >= 1 /\ TierNum(r) \in 0 .. Top
  BY RanksAssumption, BatchAssumption DEF Top, Input, Ranks, TierNodes, TierNum

\* The types of the local variables.
LEMMA Fields ==
    ASSUME NEW l \in Locals
    PROVE  /\ l.pc \in Points /\ l.sizes \in Seq({"send", "recv"})
           /\ l.num \in 0 .. BatchSize /\ l.idx \in 0 .. BatchSize
           /\ l.tier \in 0 .. Top /\ l.endpoint \in {1, 2} /\ l.weight \in 0 .. Top /\ l.round \in {1, 2}
           /\ l.num \in Nat /\ l.idx \in Nat /\ l.tier \in Nat
  BY RankNumbers DEF Locals

\* Two local variables that agree but for the place of the rank.
Same(m, l) == m.sizes = l.sizes /\ m.num = l.num /\ m.idx = l.idx
\* A rank that only moves keeps its other variables.
LEMMA SetPc ==
    ASSUME NEW l \in Locals, NEW pc \in Points, NEW m, m = [l EXCEPT !.pc = pc]
    PROVE  /\ m \in Locals /\ m.pc = pc /\ Same(m, l)
           /\ m.tier = l.tier /\ m.endpoint = l.endpoint /\ m.weight = l.weight /\ m.round = l.round
  BY DEF Locals, Same

\* The variables at the beginning of the turn of a tier.
LEMMA EnterTierFields ==
    ASSUME NEW l \in Locals, NEW r \in Ranks, NEW t \in 0 .. Top, NEW m, m = EnterTier(r, l, t)
    PROVE  /\ m \in Locals /\ Same(m, l)
           /\ m.tier = t /\ m.endpoint = 1 /\ m.weight = l.weight /\ m.round = l.round
           /\ r # Input /\ t = TierNum(r) => m.pc = "refresh"
           /\ ~ (r # Input /\ t = TierNum(r)) => m.pc = "head"
<1> DEFINE pc == IF r # Input /\ t = TierNum(r) THEN "refresh" ELSE "head"
<1>1. m = [l EXCEPT !.tier = t, !.endpoint = 1, !.pc = pc]
  BY Zenon DEF EnterTier
<1>3. /\ r # Input /\ t = TierNum(r) => pc = "refresh"
      /\ ~ (r # Input /\ t = TierNum(r)) => pc = "head"
  OBVIOUS
<1>2. pc \in Points
  BY DEF Points
<1> HIDE DEF pc
<1>4. /\ m \in Locals /\ Same(m, l) /\ m.pc = pc
      /\ m.tier = t /\ m.endpoint = 1 /\ m.weight = l.weight /\ m.round = l.round
  BY <1>1, <1>2 DEF Locals, Same
<1>5. QED
  BY <1>3, <1>4

\* The variables after the repair of an endpoint, at the root of the turn and elsewhere.
LEMMA AfterEndpointFields ==
    ASSUME NEW l \in Locals, NEW r \in Ranks, NEW m, m = AfterEndpoint(r, l),
           NEW own \in BOOLEAN, own <=> (r # Input /\ l.tier = TierNum(r))
    PROVE  /\ m \in Locals /\ Same(m, l) /\ m.weight = 0 /\ m.round = 1
           /\ l.endpoint = 1 /\ own => m.pc = "declare" /\ m.tier = l.tier /\ m.endpoint = 2
           /\ l.endpoint = 1 /\ ~own => m.pc = "head" /\ m.tier = l.tier /\ m.endpoint = 2
           /\ l.endpoint = 2 /\ own /\ l.tier < Top => m.pc = "pass" /\ m.tier = l.tier /\ m.endpoint = 2
           /\ l.endpoint = 2 /\ ~own /\ l.tier < Top =>
                 /\ m.tier = l.tier + 1 /\ m.endpoint = 1
                 /\ r # Input /\ l.tier + 1 = TierNum(r) => m.pc = "refresh"
                 /\ ~ (r # Input /\ l.tier + 1 = TierNum(r)) => m.pc = "head"
           /\ l.endpoint = 2 /\ l.tier = Top => m.pc = "next" /\ m.tier = l.tier
<1> DEFINE n == [l EXCEPT !.weight = 0, !.round = 1]
<1>1. /\ n \in Locals /\ Same(n, l) /\ n.pc = l.pc
      /\ n.tier = l.tier /\ n.endpoint = l.endpoint /\ n.weight = 0 /\ n.round = 1
  <2>1. 0 \in 0 .. Top /\ 1 \in {1, 2}
    BY RankNumbers
  <2>2. ASSUME NEW w \in 0 .. Top, NEW o \in {1, 2}
        PROVE  LET k == [l EXCEPT !.weight = w, !.round = o]
               IN  /\ k \in Locals /\ Same(k, l)
                   /\ k.pc = l.pc /\ k.tier = l.tier /\ k.endpoint = l.endpoint
                   /\ k.weight = w /\ k.round = o
    BY DEF Locals, Same
  <2>3. QED
    BY <2>1, <2>2
<1>a. m = IF l.endpoint = 1 THEN [n EXCEPT !.endpoint = 2, !.pc = IF own THEN "declare" ELSE "head"]
          ELSE IF own /\ l.tier < Top THEN [n EXCEPT !.pc = "pass"]
          ELSE AfterTier(r, n)
  BY Zenon DEF AfterEndpoint
<1>t. l.tier \in 0 .. Top /\ Top \in Nat /\ l.endpoint \in {1, 2}
  BY Fields, RankNumbers
<1> HIDE DEF n
<1>s. ASSUME NEW k, Same(k, n)
      PROVE  Same(k, l)
  BY <1>1, <1>s DEF Same
<1>2. CASE l.endpoint = 1
  <2> DEFINE pc == IF own THEN "declare" ELSE "head"
  <2>1. m = [n EXCEPT !.endpoint = 2, !.pc = pc]
    BY <1>2, <1>a, Zenon
  <2>3. (own => pc = "declare") /\ (~own => pc = "head")
    OBVIOUS
  <2>5. pc \in Points
    BY DEF Points
  <2> HIDE DEF pc
  <2>2. /\ m \in Locals /\ Same(m, n)
        /\ m.pc = pc /\ m.tier = n.tier /\ m.endpoint = 2
        /\ m.weight = n.weight /\ m.round = n.round
    BY <1>1, <2>1, <2>5 DEF Locals, Same
  <2>4. QED
    BY <1>1, <1>2, <1>s, <2>2, <2>3
<1>3. CASE l.endpoint = 2 /\ own /\ l.tier < Top
  <2>1. m = [n EXCEPT !.pc = "pass"]
    BY <1>3, <1>a
  <2>3. /\ m \in Locals /\ m.pc = "pass" /\ Same(m, n)
        /\ m.tier = n.tier /\ m.endpoint = n.endpoint /\ m.weight = n.weight /\ m.round = n.round
    BY <1>1, <2>1, SetPc DEF Points
  <2>2. QED
    BY <1>1, <1>3, <1>t, <1>s, <2>3
<1>4. CASE l.endpoint = 2 /\ l.tier = Top
  <2>1. m = AfterTier(r, n)
    BY <1>4, <1>a, <1>t
  <2>2. m = [n EXCEPT !.pc = "next"]
    BY <1>1, <1>4, <2>1 DEF AfterTier
  <2>4. /\ m \in Locals /\ m.pc = "next" /\ Same(m, n)
        /\ m.tier = n.tier /\ m.endpoint = n.endpoint /\ m.weight = n.weight /\ m.round = n.round
    BY <1>1, <2>2, SetPc DEF Points
  <2>3. QED
    BY <1>1, <1>4, <1>t, <1>s, <2>4
<1>5. CASE l.endpoint = 2 /\ ~own /\ l.tier < Top
  <2>1. m = AfterTier(r, n)
    BY <1>5, <1>a
  <2> DEFINE t == l.tier + 1
  <2>2. m = EnterTier(r, n, t) /\ t \in 0 .. Top
    <3>1. n.tier + 1 = t /\ n.tier # Top
      BY <1>1, <1>5, <1>t
    <3>2. QED
      BY <1>5, <1>t, <2>1, <3>1 DEF AfterTier
  <2> HIDE DEF t
  <2>4. /\ m \in Locals /\ Same(m, n)
        /\ m.tier = t /\ m.endpoint = 1 /\ m.weight = n.weight /\ m.round = n.round
        /\ r # Input /\ t = TierNum(r) => m.pc = "refresh"
        /\ ~ (r # Input /\ t = TierNum(r)) => m.pc = "head"
    BY <1>1, <2>2, EnterTierFields
  <2>3. QED
    BY <1>1, <1>5, <1>t, <1>s, <2>4 DEF t
<1>6. QED
  BY <1>2, <1>3, <1>4, <1>5, <1>t

------------------------------------------------------------------------------
\* Places

\* The places, one by one.
LEMMA Places ==
    ASSUME NEW l \in Locals
    PROVE  /\ l.pc \in {"fill", "batch"} => PlaceOf(l) = Rest("batch", 0)
           /\ l.pc \in {"sizes", "reduce"} => PlaceOf(l) = Rest("reduce", l.num)
           /\ l.pc = "start" => PlaceOf(l) = Turn("head", l.num, l.idx, 1, 1)
           /\ l.pc = "refresh" => PlaceOf(l) = Turn("head", l.num, l.idx, IF l.tier = 0 THEN 1 ELSE l.tier, 1)
           /\ l.pc = "pass" => PlaceOf(l) = Turn("head", l.num, l.idx, l.tier + 1, 1)
           /\ l.pc \in {"declare", "head"} => PlaceOf(l) = Turn("head", l.num, l.idx, l.tier, l.endpoint)
           /\ l.pc \in {"query", "answer", "cut"} => PlaceOf(l) = Turn("ops", l.num, l.idx, l.tier, l.endpoint)
           /\ l.pc = "link" /\ l.weight = 0 => PlaceOf(l) = Turn("ops", l.num, l.idx, l.tier, l.endpoint)
           /\ l.pc = "link" /\ l.weight # 0 => PlaceOf(l) = Turn("link", l.num, l.idx, l.tier, l.endpoint)
           /\ l.pc = "ops" /\ l.round = 1 => PlaceOf(l) = Turn("ops", l.num, l.idx, l.tier, l.endpoint)
           /\ l.pc = "ops" /\ l.round # 1 => PlaceOf(l) = Turn("link", l.num, l.idx, l.tier, l.endpoint)
           /\ l.pc = "next" /\ l.idx < l.num => PlaceOf(l) = Turn("head", l.num, l.idx + 1, 1, 1)
           /\ l.pc = "next" /\ ~ l.idx < l.num /\ l.idx >= l.num => PlaceOf(l) = Rest("batch", 0)
           /\ l.pc = "done" => PlaceOf(l) = Rest("done", 0)
<1>1. l.pc \in {"fill", "batch"} => PlaceOf(l) = Rest("batch", 0)
  BY DEF PlaceOf
<1>2. l.pc \in {"sizes", "reduce"} => PlaceOf(l) = Rest("reduce", l.num)
  BY DEF PlaceOf
<1>3. l.pc = "start" => PlaceOf(l) = Turn("head", l.num, l.idx, 1, 1)
  BY DEF PlaceOf
<1>4. l.pc = "refresh" => PlaceOf(l) = Turn("head", l.num, l.idx, IF l.tier = 0 THEN 1 ELSE l.tier, 1)
  BY DEF PlaceOf
<1>5. l.pc = "pass" => PlaceOf(l) = Turn("head", l.num, l.idx, l.tier + 1, 1)
  BY DEF PlaceOf
<1>6. l.pc \in {"declare", "head"} => PlaceOf(l) = Turn("head", l.num, l.idx, l.tier, l.endpoint)
  BY DEF PlaceOf
<1>7. l.pc \in {"query", "answer", "cut"} => PlaceOf(l) = Turn("ops", l.num, l.idx, l.tier, l.endpoint)
  BY DEF PlaceOf
<1>8. l.pc = "link" /\ l.weight = 0 => PlaceOf(l) = Turn("ops", l.num, l.idx, l.tier, l.endpoint)
  BY DEF PlaceOf
<1>9. l.pc = "link" /\ l.weight # 0 => PlaceOf(l) = Turn("link", l.num, l.idx, l.tier, l.endpoint)
  BY DEF PlaceOf
<1>10. l.pc = "ops" /\ l.round = 1 => PlaceOf(l) = Turn("ops", l.num, l.idx, l.tier, l.endpoint)
  BY DEF PlaceOf
<1>11. l.pc = "ops" /\ l.round # 1 => PlaceOf(l) = Turn("link", l.num, l.idx, l.tier, l.endpoint)
  BY DEF PlaceOf
<1>12. l.pc = "next" /\ l.idx < l.num => PlaceOf(l) = Turn("head", l.num, l.idx + 1, 1, 1)
  BY Fields DEF PlaceOf
<1>13. l.pc = "next" /\ ~ l.idx < l.num /\ l.idx >= l.num => PlaceOf(l) = Rest("batch", 0)
  BY DEF PlaceOf
<1>14. l.pc = "done" => PlaceOf(l) = Rest("done", 0)
  BY DEF PlaceOf
<1>15. QED
  BY <1>1, <1>2, <1>3, <1>4, <1>5, <1>6, <1>7, <1>8, <1>9, <1>10, <1>11, <1>12, <1>13, <1>14, Zenon

\* The fields of a place.
LEMMA PlaceFields ==
    /\ \A pc, num : /\ Rest(pc, num).pc = pc /\ Rest(pc, num).num = num /\ Rest(pc, num).idx = 0
                    /\ Rest(pc, num).tier = 0 /\ Rest(pc, num).endpoint = 0
    /\ \A pc, num, idx, tier, endpoint :
          LET p == Turn(pc, num, idx, tier, endpoint)
          IN  p.pc = pc /\ p.num = num /\ p.idx = idx /\ p.tier = tier /\ p.endpoint = endpoint
BY DEF Rest, Turn

\* Who speaks in the turn of a tier, and what comes next.
LEMMA Turns ==
    ASSUME NEW num, NEW idx, NEW tier, NEW endpoint, NEW msg
    PROVE  /\ \A pc \in {"head", "ops", "link"} : Speaker(Turn(pc, num, idx, tier, endpoint)) = tier + 1
           /\ Kinds(Turn("head", num, idx, tier, endpoint)) = {"isolated", "not_isolated"}
           /\ Kinds(Turn("ops", num, idx, tier, endpoint)) = {"cut", "link"}
           /\ Kinds(Turn("link", num, idx, tier, endpoint)) = {"link"}
           /\ \A pc : msg.kind = "isolated" => AfterMsg(Turn(pc, num, idx, tier, endpoint), msg)
                                                 = Turn("ops", num, idx, tier, endpoint)
           /\ \A pc : msg.kind = "cut" => AfterMsg(Turn(pc, num, idx, tier, endpoint), msg)
                                                 = Turn("link", num, idx, tier, endpoint)
           /\ \A p : msg.kind \in {"not_isolated", "link"} => AfterMsg(p, msg) = NextEndpoint(p)
           /\ \A p : msg.kind = "end" => AfterMsg(p, msg) = Rest("done", 0)
           /\ \A p : msg.kind = "batch" => AfterMsg(p, msg) = Rest("reduce", msg.num)
           /\ Speaker(Rest("batch", 0)) = Input /\ Kinds(Rest("batch", 0)) = {"batch", "end"}
           /\ \A k : Kinds(Rest("reduce", k)) = {} /\ Kinds(Rest("done", k)) = {}
<1>1. \A pc \in {"head", "ops", "link"} : Speaker(Turn(pc, num, idx, tier, endpoint)) = tier + 1
  BY DEF Speaker, Turn
<1>2. /\ Kinds(Turn("head", num, idx, tier, endpoint)) = {"isolated", "not_isolated"}
      /\ Kinds(Turn("ops", num, idx, tier, endpoint)) = {"cut", "link"}
      /\ Kinds(Turn("link", num, idx, tier, endpoint)) = {"link"}
  BY DEF Kinds, Turn
<1>3. \A pc : msg.kind = "isolated" => AfterMsg(Turn(pc, num, idx, tier, endpoint), msg)
                                                 = Turn("ops", num, idx, tier, endpoint)
  BY PlaceFields DEF AfterMsg
<1>4. \A pc : msg.kind = "cut" => AfterMsg(Turn(pc, num, idx, tier, endpoint), msg)
                                                 = Turn("link", num, idx, tier, endpoint)
  BY PlaceFields DEF AfterMsg
<1>5. \A p : msg.kind \in {"not_isolated", "link"} => AfterMsg(p, msg) = NextEndpoint(p)
  BY DEF AfterMsg
<1>6. \A p : msg.kind = "end" => AfterMsg(p, msg) = Rest("done", 0)
  BY DEF AfterMsg
<1>7. \A p : msg.kind = "batch" => AfterMsg(p, msg) = Rest("reduce", msg.num)
  BY DEF AfterMsg
<1>8. Speaker(Rest("batch", 0)) = Input /\ Kinds(Rest("batch", 0)) = {"batch", "end"}
  BY DEF Speaker, Kinds, Rest
<1>9. \A k : Kinds(Rest("reduce", k)) = {} /\ Kinds(Rest("done", k)) = {}
  BY DEF Kinds, Rest
<1>10. QED
  BY <1>1, <1>2, <1>3, <1>4, <1>5, <1>6, <1>7, <1>8, <1>9

\* The place after a turn.
LEMMA NextEndpoints ==
    ASSUME NEW pc, NEW num \in Nat, NEW idx \in Nat, NEW tier \in 0 .. Top, NEW endpoint \in {1, 2},
           NEW q, q = NextEndpoint(Turn(pc, num, idx, tier, endpoint))
    PROVE  /\ endpoint = 1 => q = Turn("head", num, idx, tier, 2)
           /\ endpoint = 2 /\ tier < Top => q = Turn("head", num, idx, tier + 1, 1)
           /\ endpoint = 2 /\ tier = Top /\ idx < num => q = Turn("head", num, idx + 1, 1, 1)
           /\ endpoint = 2 /\ tier = Top /\ idx >= num => q = Rest("batch", 0)
<1> DEFINE p == Turn(pc, num, idx, tier, endpoint)
<1>1. p.pc = pc /\ p.num = num /\ p.idx = idx /\ p.tier = tier /\ p.endpoint = endpoint /\ q = NextEndpoint(p)
  BY PlaceFields
<1> HIDE DEF p
<1>2. QED
  BY <1>1, RankNumbers DEF NextEndpoint

\* After an endpoint a rank is at the place that follows.
LEMMA AfterEndpointPlace ==
    ASSUME NEW l \in Locals, NEW r \in Ranks, l.tier # 0, l.idx <= l.num, NEW pc, NEW m,
           m = AfterEndpoint(r, l)
    PROVE  PlaceOf(m) = NextEndpoint(Turn(pc, l.num, l.idx, l.tier, l.endpoint))
<1> DEFINE own == r # Input /\ l.tier = TierNum(r)
           q == NextEndpoint(Turn(pc, l.num, l.idx, l.tier, l.endpoint))
<1>1. /\ l.tier \in 0 .. Top /\ l.endpoint \in {1, 2} /\ l.num \in Nat /\ l.idx \in Nat
      /\ Top \in Nat
  BY Fields, RankNumbers
<1>2. /\ l.endpoint = 1 => q = Turn("head", l.num, l.idx, l.tier, 2)
      /\ l.endpoint = 2 /\ l.tier < Top => q = Turn("head", l.num, l.idx, l.tier + 1, 1)
      /\ l.endpoint = 2 /\ l.tier = Top /\ l.idx < l.num => q = Turn("head", l.num, l.idx + 1, 1, 1)
      /\ l.endpoint = 2 /\ l.tier = Top /\ l.idx >= l.num => q = Rest("batch", 0)
  BY <1>1, NextEndpoints
<1>3. own \in BOOLEAN /\ (own <=> (r # Input /\ l.tier = TierNum(r)))
  OBVIOUS
<1> HIDE DEF own, q
<1>4. /\ m \in Locals /\ Same(m, l) /\ m.weight = 0 /\ m.round = 1
      /\ l.endpoint = 1 /\ own => m.pc = "declare" /\ m.tier = l.tier /\ m.endpoint = 2
      /\ l.endpoint = 1 /\ ~own => m.pc = "head" /\ m.tier = l.tier /\ m.endpoint = 2
      /\ l.endpoint = 2 /\ own /\ l.tier < Top => m.pc = "pass" /\ m.tier = l.tier /\ m.endpoint = 2
      /\ l.endpoint = 2 /\ ~own /\ l.tier < Top =>
            /\ m.tier = l.tier + 1 /\ m.endpoint = 1
            /\ r # Input /\ l.tier + 1 = TierNum(r) => m.pc = "refresh"
            /\ ~ (r # Input /\ l.tier + 1 = TierNum(r)) => m.pc = "head"
      /\ l.endpoint = 2 /\ l.tier = Top => m.pc = "next" /\ m.tier = l.tier
  BY <1>3, AfterEndpointFields
<1>5. m.num = l.num /\ m.idx = l.idx
  BY <1>4 DEF Same
<1>0. SUFFICES PlaceOf(m) = q
  BY DEF q
<1>6. CASE l.endpoint = 1
  BY <1>2, <1>4, <1>5, <1>6, Places
<1>7. CASE l.endpoint = 2 /\ own /\ l.tier < Top
  BY <1>2, <1>4, <1>5, <1>7, Places
<1>8. CASE l.endpoint = 2 /\ ~own /\ l.tier < Top
  <2>1. m.pc \in {"refresh", "head"} /\ m.tier = l.tier + 1 /\ m.endpoint = 1
    BY <1>4, <1>8
  <2>2. m.tier # 0
    BY <1>1, <2>1
  <2>3. m.pc = "refresh" => PlaceOf(m) = Turn("head", m.num, m.idx, m.tier, 1)
    BY <1>4, <2>2, Places
  <2>4. m.pc = "head" => PlaceOf(m) = Turn("head", m.num, m.idx, m.tier, m.endpoint)
    BY <1>4, Places
  <2>5. QED
    BY <1>2, <1>5, <1>8, <2>1, <2>3, <2>4
<1>9. CASE l.endpoint = 2 /\ l.tier = Top
  <2>1. m.pc = "next"
    BY <1>4, <1>9
  <2>2. CASE l.idx < l.num
    BY <1>2, <1>4, <1>5, <1>9, <2>1, <2>2, Places
  <2>3. CASE ~ l.idx < l.num /\ l.idx >= l.num
    BY <1>2, <1>4, <1>5, <1>9, <2>1, <2>3, Places
  <2>4. QED
    BY <1>1, <2>2, <2>3
<1>10. QED
  BY <1>1, <1>6, <1>7, <1>8, <1>9

------------------------------------------------------------------------------
\* Ranks that come together

Packets == [msg : Announcements, root : Ranks, waits : BOOLEAN]

\* All ranks come to the place g.
Together(g) == \A r \in Ranks : Reaches(r, Place(r), bcasts[r], g)

\* The invariant InStep says that all come to one place, ...
LEMMA ComeTogether ==
    ASSUME InStep
    PROVE  Together(End(Input))
  BY RankNumbers DEF Together, InStep, Follows, Reaches, End

\* ... and a step that leaves a place all come to keeps it.
LEMMA StayTogether ==
    ASSUME NEW g, \A r \in Ranks : Reaches(r, Place(r)', bcasts'[r], g)
    PROVE  InStep'
  BY RankNumbers DEF InStep, Follows, Reaches, End

\* What a rank may find to take, and that it finds nothing where it speaks.
LEMMA TakeFacts ==
    ASSUME Typed, InStep, NEW r \in Ranks
    PROVE  /\ bcasts[r] # <<>> => /\ Head(bcasts[r]).root = Speaker(Place(r))
                                  /\ Head(bcasts[r]).root # r
                                  /\ Announced(r).kind \in Kinds(Place(r))
           /\ Speaker(Place(r)) = r \/ Kinds(Place(r)) = {} => bcasts[r] = <<>>
           /\ bcasts[r] \in Seq(Packets)
           /\ bcasts[r] # <<>> => Head(bcasts[r]) \in Packets /\ Announced(r) \in Announcements
<1>1. bcasts[r] \in Seq(Packets)
  BY DEF Typed, Packets
<1>2. Reaches(r, Place(r), bcasts[r], End(Input))
  BY ComeTogether DEF Together
<1>3. bcasts[r] # <<>> => /\ Head(bcasts[r]).root = Speaker(Place(r))
                          /\ Head(bcasts[r]).root # r
                          /\ Head(bcasts[r]).msg.kind \in Kinds(Place(r))
  BY <1>1, <1>2, TakeReaches
<1>4. Speaker(Place(r)) = r \/ Kinds(Place(r)) = {} => bcasts[r] = <<>>
  BY <1>1, <1>2, OwnPlace
<1>5. bcasts[r] # <<>> => Head(bcasts[r]) \in Packets
  BY <1>1
<1>6. QED
  BY <1>1, <1>3, <1>4, <1>5 DEF Announced, Packets

\* A rank that has nothing to take is where all others come to.
LEMMA AtTheEnd ==
    ASSUME InStep, NEW r \in Ranks, bcasts[r] = <<>>
    PROVE  End(Input) = Place(r)
<1>1. Reaches(r, Place(r), <<>>, End(Input)) /\ Reaches(r, Place(r), <<>>, Place(r))
  BY ComeTogether, NothingToTake DEF Together
<1>2. QED
  BY <1>1 DEF Reaches

\* A step moves one rank.
LEMMA PlaceAfter ==
    ASSUME Typed, NEW r \in Ranks, NEW l, loc' = [loc EXCEPT ![r] = l]
    PROVE  /\ Place(r)' = PlaceOf(l) /\ loc'[r] = l
           /\ \A q \in Ranks \ {r} : Place(q)' = Place(q) /\ loc'[q] = loc[q]
<1>1. loc'[r] = l /\ \A q \in Ranks \ {r} : loc'[q] = loc[q]
  BY DEF Typed
<1>2. \A q \in Ranks : Place(q)' = PlaceOf(loc'[q])
  BY DEF Place
<1>3. QED
  BY <1>1, <1>2 DEF Place

\* The steps of a rank that takes no part in a broadcast, ...
LEMMA QuietInStep ==
    ASSUME Typed, InStep, NEW r \in Ranks, NEW l, loc' = [loc EXCEPT ![r] = l], bcasts' = bcasts,
           PlaceOf(l) = Place(r)
    PROVE  InStep'
<1>1. PICK g : Together(g)
  BY ComeTogether
<1>2. \A q \in Ranks : Place(q)' = Place(q)
  BY PlaceAfter
<1>3. \A q \in Ranks : Reaches(q, Place(q)', bcasts'[q], g)
  BY <1>1, <1>2 DEF Together
<1>4. QED
  BY <1>3, StayTogether

\* ... of one that takes a broadcast, ...
LEMMA TakeInStep ==
    ASSUME Typed, InStep, NEW r \in Ranks, NEW l, loc' = [loc EXCEPT ![r] = l], TakeBcast(r),
           PlaceOf(l) = AfterMsg(Place(r), Announced(r))
    PROVE  InStep'
<1>1. PICK g : Together(g)
  BY ComeTogether
<1>2. /\ bcasts[r] # <<>> /\ bcasts[r] \in Seq(Packets) /\ bcasts'[r] = Tail(bcasts[r])
      /\ \A q \in Ranks \ {r} : bcasts'[q] = bcasts[q]
  BY TakeFacts DEF TakeBcast, Typed
<1>3. /\ Place(r)' = AfterMsg(Place(r), Head(bcasts[r]).msg)
      /\ \A q \in Ranks \ {r} : Place(q)' = Place(q)
  BY PlaceAfter DEF Announced
<1>4. Reaches(r, Place(r)', bcasts'[r], g)
  BY <1>1, <1>2, <1>3, TakeReaches DEF Together
<1>5. \A q \in Ranks \ {r} : Reaches(q, Place(q)', bcasts'[q], g)
  BY <1>1, <1>2, <1>3 DEF Together
<1>6. QED
  BY <1>4, <1>5, StayTogether

\* ... and of one that makes a broadcast, which all others find at the end of theirs.
LEMMA SpeakInStep ==
    ASSUME Typed, InStep, NEW r \in Ranks, NEW l, loc' = [loc EXCEPT ![r] = l],
           NEW msg \in Announcements, Bcast(r, msg), Speaker(Place(r)) = r, msg.kind \in Kinds(Place(r)),
           PlaceOf(l) = AfterMsg(Place(r), msg)
    PROVE  InStep'
<1>1. Together(End(Input)) /\ bcasts[r] = <<>> /\ End(Input) = Place(r)
  BY ComeTogether, AtTheEnd, TakeFacts
<1>2. PICK g : Together(g) /\ g = Place(r)
  BY <1>1
<1>3. PICK waits \in Waits :
          bcasts' = [q \in Ranks |-> IF q = r THEN bcasts[q]
                                     ELSE Append(bcasts[q], [msg |-> msg, root |-> r, waits |-> waits])]
  BY DEF Bcast
<1> DEFINE m == [msg |-> msg, root |-> r, waits |-> waits]
<1>4. m \in Packets /\ m.msg = msg /\ m.root = r
  BY WaitsAssumption DEF Packets
<1>5. bcasts'[r] = <<>> /\ \A q \in Ranks \ {r} : bcasts'[q] = Append(bcasts[q], m)
  BY <1>1, <1>3
<1> HIDE DEF m
<1>6. /\ Place(r)' = AfterMsg(Place(r), msg)
      /\ \A q \in Ranks \ {r} : Place(q)' = Place(q)
  BY PlaceAfter
<1> DEFINE G == AfterMsg(g, msg)
<1>7. Reaches(r, Place(r)', bcasts'[r], G)
  BY <1>2, <1>5, <1>6, NothingToTake
<1>8. ASSUME NEW q \in Ranks \ {r}
      PROVE  Reaches(q, Place(q)', bcasts'[q], G)
  <2>1. bcasts[q] \in Seq(Packets) /\ Reaches(q, Place(q), bcasts[q], g)
    BY <1>2, TakeFacts DEF Together
  <2>2. m.root = Speaker(g) /\ m.root # q /\ m.msg.kind \in Kinds(g)
    BY <1>2, <1>4
  <2>3. Reaches(q, Place(q), Append(bcasts[q], m), AfterMsg(g, m.msg))
    BY <1>4, <2>1, <2>2, SpeakReaches
  <2>4. QED
    BY <1>4, <1>5, <1>6, <2>3
<1> HIDE DEF G
<1>9. QED
  BY <1>7, <1>8, StayTogether

\* When nobody has anything to take, all may move to one place at once.
LEMMA GatherInStep ==
    ASSUME Typed, NEW g, \A r \in Ranks : bcasts'[r] = <<>> /\ Place(r)' = g
    PROVE  InStep'
<1>1. \A r \in Ranks : Reaches(r, Place(r)', bcasts'[r], g)
  BY NothingToTake
<1>2. QED
  BY <1>1, StayTogether

------------------------------------------------------------------------------
\* Steps that keep the counts

\* A step of rank r from l to m that passes no refresh on and exchanges no sizes.
Keeps(r, l, m) ==
    /\ r # Input => ToTake(r, m) = ToTake(r, l)
    /\ r # NumTiers => ToSend(r, m) = ToSend(r, l)
    /\ r \notin {Input, NumTiers} => (SizesLeft(m, "recv") <=> SizesLeft(l, "recv"))
    /\ r \notin {Input, 1} => (SizesLeft(m, "send") <=> SizesLeft(l, "send"))

\* The counts depend on little.
LEMMA Turning ==
    ASSUME NEW r, NEW l, l.pc \notin Resting
    PROVE  /\ ToSend(r, l) = l.num - l.idx + (IF HasPassed(r, l) THEN 0 ELSE 1)
           /\ ToTake(r, l) = l.num - l.idx + (IF HasTaken(r, l) THEN 0 ELSE 1)
           /\ SizesLeft(l, "recv") /\ SizesLeft(l, "send")
  BY DEF ToSend, ToTake, SizesLeft, Resting

\* A step inside the refresh of an update that neither takes nor passes on the turn.
LEMMA TurningKeeps ==
    ASSUME NEW r, NEW l, NEW m, l.pc \notin Resting, m.pc \notin Resting, Same(m, l),
           HasTaken(r, m) <=> HasTaken(r, l), r # NumTiers => (HasPassed(r, m) <=> HasPassed(r, l))
    PROVE  Keeps(r, l, m)
  BY Turning DEF Keeps, Same

\* A rank is a number.
LEMMA Numbers ==
    ASSUME NEW r \in Ranks
    PROVE  r \in Nat /\ r <= NumTiers /\ TierNum(r) = r - 1 /\ (r # Input <=> r >= 1)
  BY RankNumbers DEF Ranks

\* After an endpoint.
LEMMA AfterEndpointFits ==
    ASSUME NEW r \in Ranks, NEW l \in Locals, Fits(r, l), l.pc \in {"declare", "link", "head", "ops"},
           NEW m, m = AfterEndpoint(r, l)
    PROVE  /\ m \in Locals /\ Fits(r, m) /\ Keeps(r, l, m) /\ m.idx = l.idx
           /\ m.pc \in {"declare", "head", "pass", "refresh", "next"}
<1> DEFINE own == r # Input /\ l.tier = TierNum(r)
<1>1. /\ l.tier \in 0 .. Top /\ l.endpoint \in {1, 2} /\ l.num \in Nat /\ l.idx \in Nat
      /\ NumTiers \in Nat /\ Top \in Nat /\ Top = NumTiers - 1 /\ l.tier \in Nat
      /\ r \in Nat /\ r <= NumTiers /\ TierNum(r) = r - 1 /\ (r # Input <=> r >= 1)
  BY Fields, RankNumbers, Numbers
<1>3. own \in BOOLEAN /\ (own <=> (r # Input /\ l.tier = TierNum(r)))
  OBVIOUS
<1> HIDE DEF own
<1>4. /\ m \in Locals /\ Same(m, l) /\ m.weight = 0 /\ m.round = 1
      /\ l.endpoint = 1 /\ own => m.pc = "declare" /\ m.tier = l.tier /\ m.endpoint = 2
      /\ l.endpoint = 1 /\ ~own => m.pc = "head" /\ m.tier = l.tier /\ m.endpoint = 2
      /\ l.endpoint = 2 /\ own /\ l.tier < Top => m.pc = "pass" /\ m.tier = l.tier /\ m.endpoint = 2
      /\ l.endpoint = 2 /\ ~own /\ l.tier < Top =>
            /\ m.tier = l.tier + 1 /\ m.endpoint = 1
            /\ r # Input /\ l.tier + 1 = TierNum(r) => m.pc = "refresh"
            /\ ~ (r # Input /\ l.tier + 1 = TierNum(r)) => m.pc = "head"
      /\ l.endpoint = 2 /\ l.tier = Top => m.pc = "next" /\ m.tier = l.tier
  BY <1>3, AfterEndpointFields
<1>5. m.sizes = l.sizes /\ m.num = l.num /\ m.idx = l.idx
  BY <1>4 DEF Same
<1>6. /\ l.idx <= l.num /\ l.idx # 0 /\ l.tier # 0
      /\ l.pc \in {"declare", "link"} => own
      /\ l.pc \in {"head", "ops"} => ~own
      /\ l.pc \notin Resting
  BY <1>3 DEF Fits, Resting, OwnTurn
<1>7. /\ m.pc \in {"declare", "head", "pass", "refresh", "next"}
      /\ m.pc \in {"declare", "pass"} => own /\ m.tier = l.tier
      /\ m.pc = "head" => m.tier # TierNum(r) /\ m.tier # 0
      /\ m.pc = "refresh" => r # Input /\ m.tier = TierNum(r) /\ m.endpoint = 1
      /\ m.pc = "pass" => TierNum(r) # Top
      /\ r = Input => m.pc \notin {"declare", "pass", "refresh"}
  BY <1>1, <1>3, <1>4, <1>6
<1>8. Fits(r, m)
  <2>1. m.idx <= m.num /\ (m.idx = 0 <=> m.pc \in Resting)
    BY <1>5, <1>6, <1>7 DEF Resting
  <2>2. m.pc \in OwnTurn => m.tier = TierNum(r)
    BY <1>3, <1>7 DEF OwnTurn
  <2>3. m.pc \in (IF r = Input
                 THEN {"fill", "reduce", "start", "head", "answer", "ops", "next", "done"}
                 ELSE {"batch", "sizes", "reduce", "head", "ops", "next", "done"} \cup OwnTurn)
    BY <1>7 DEF OwnTurn
  <2>4. m.pc \in {"declare", "query", "cut", "link", "head", "ops", "answer"} => m.tier # 0
    BY <1>6, <1>7
  <2>5. m.pc \in {"head", "ops"} => m.tier # TierNum(r)
    BY <1>7
  <2>6. /\ m.pc = "refresh" => m.endpoint = 1
        /\ m.pc = "pass" => TierNum(r) # Top
        /\ m.round = 1 /\ m.weight = 0 /\ m.pc # "cut" /\ m.pc # "sizes"
    BY <1>4, <1>7
  <2>7. QED
    BY <2>1, <2>2, <2>3, <2>4, <2>5, <2>6, Zenon DEF Fits
<1>9. m.pc \notin Resting
  BY <1>7 DEF Resting
<1>10. ASSUME r = Input
       PROVE  Keeps(r, l, m)
  <2>1. l.pc \notin OwnTurn /\ m.pc \notin OwnTurn /\ l.pc # "start" /\ m.pc # "start"
    BY <1>6, <1>7, <1>10, <1>3 DEF OwnTurn
  <2>2. HasPassed(r, l) /\ HasPassed(r, m)
    BY <1>10, <2>1 DEF HasPassed
  <2>3. HasTaken(r, l) /\ HasTaken(r, m)
    BY <2>2 DEF HasTaken
  <2>4. QED
    BY <1>4, <1>6, <1>9, <2>2, <2>3, TurningKeeps
<1>11. ASSUME own
       PROVE  Keeps(r, l, m)
  <2>1. l.pc \in {"declare", "link"} /\ ~ HasPassed(r, l) /\ HasTaken(r, l)
    BY <1>3, <1>6, <1>11 DEF HasPassed, HasTaken, OwnTurn
  <2>2. m.pc \in {"declare", "pass", "next"}
    BY <1>1, <1>4, <1>11
  <2>3. r # NumTiers => m.pc # "next"
    <3>1. r # NumTiers => l.tier < Top
      BY <1>1, <1>3, <1>11
    <3>2. l.tier < Top => m.pc \in {"declare", "pass"}
      BY <1>1, <1>4, <1>11
    <3>3. QED
      BY <3>1, <3>2
  <2>4. HasTaken(r, m) /\ (m.pc # "next" => ~ HasPassed(r, m))
    BY <1>3, <1>11, <2>2 DEF HasPassed, HasTaken, OwnTurn
  <2>5. QED
    BY <1>4, <1>6, <1>9, <2>1, <2>3, <2>4, TurningKeeps
<1>12. ASSUME r # Input, ~own
       PROVE  Keeps(r, l, m)
  <2>1. l.pc \in {"head", "ops"} /\ l.tier # TierNum(r)
    BY <1>3, <1>6, <1>12
  <2>2. (HasPassed(r, l) <=> l.tier > TierNum(r)) /\ (HasTaken(r, l) <=> l.tier > TierNum(r))
    BY <1>12, <2>1 DEF HasPassed, HasTaken, OwnTurn
  <2>3. (HasPassed(r, m) <=> l.tier > TierNum(r)) /\ (HasTaken(r, m) <=> HasPassed(r, m))
    <3>1. CASE l.endpoint = 1
      <4>1. m.pc = "head" /\ m.tier = l.tier
        BY <1>4, <1>12, <3>1
      <4>2. QED
        BY <1>12, <4>1 DEF HasPassed, HasTaken, OwnTurn
    <3>2. CASE l.endpoint = 2 /\ l.tier < Top /\ l.tier + 1 = TierNum(r)
      <4>1. m.pc = "refresh"
        BY <1>4, <1>12, <3>2
      <4>2. ~ (l.tier > TierNum(r))
        BY <1>1, <3>2
      <4>3. QED
        BY <1>12, <4>1, <4>2 DEF HasPassed, HasTaken, OwnTurn
    <3>3. CASE l.endpoint = 2 /\ l.tier < Top /\ l.tier + 1 # TierNum(r)
      <4>1. m.pc = "head" /\ m.tier = l.tier + 1
        BY <1>4, <1>12, <3>3
      <4>2. l.tier + 1 > TierNum(r) <=> l.tier > TierNum(r)
        BY <1>1, <2>1, <3>3
      <4>3. QED
        BY <1>12, <4>1, <4>2 DEF HasPassed, HasTaken, OwnTurn
    <3>4. CASE l.endpoint = 2 /\ l.tier = Top
      <4>1. m.pc = "next"
        BY <1>4, <3>4
      <4>2. l.tier > TierNum(r)
        BY <1>1, <2>1, <3>4
      <4>3. QED
        BY <1>12, <4>1, <4>2 DEF HasPassed, HasTaken, OwnTurn
    <3>5. QED
      BY <1>1, <3>1, <3>2, <3>3, <3>4
  <2>4. QED
    BY <1>4, <1>6, <1>9, <2>2, <2>3, TurningKeeps
<1>13. QED
  BY <1>3, <1>4, <1>5, <1>7, <1>8, <1>10, <1>11, <1>12

------------------------------------------------------------------------------
\* Local variables fit the place

\* The beginning of a turn fits the rank that enters it, ...
LEMMA TurnFits ==
    ASSUME NEW r \in Ranks, NEW m \in Locals, m.pc \in {"head", "refresh"}, m.idx <= m.num, m.idx # 0,
           m.pc = "refresh" => r # Input /\ m.tier = TierNum(r) /\ m.endpoint = 1,
           m.pc = "head" => m.tier # TierNum(r) /\ m.tier # 0, m.weight = 0, m.round = 1
    PROVE  Fits(r, m)
<1>1. m.idx <= m.num /\ (m.idx = 0 <=> m.pc \in Resting)
  BY DEF Resting
<1>2. m.pc \in OwnTurn => m.tier = TierNum(r)
  BY DEF OwnTurn
<1>3. m.pc \in (IF r = Input
                THEN {"fill", "reduce", "start", "head", "answer", "ops", "next", "done"}
                ELSE {"batch", "sizes", "reduce", "head", "ops", "next", "done"} \cup OwnTurn)
  BY DEF OwnTurn
<1>4. /\ m.pc \in {"declare", "query", "cut", "link", "head", "ops", "answer"} => m.tier # 0
      /\ m.pc \in {"head", "ops"} => m.tier # TierNum(r)
  OBVIOUS
<1>5. /\ m.pc = "refresh" => m.endpoint = 1
      /\ m.pc = "pass" => TierNum(r) # Top
      /\ m.round = 1 /\ m.weight = 0 /\ m.pc # "cut" /\ m.pc # "sizes"
  OBVIOUS
<1>6. QED
  BY <1>1, <1>2, <1>3, <1>4, <1>5, Zenon DEF Fits

\* At the start of the refresh of an update, all ranks have their turn before them.
LEMMA BeginUpdateFits ==
    ASSUME NEW r \in Ranks, NEW l \in Locals, l.weight = 0, l.round = 1, NEW i \in 1 .. l.num,
           NEW m, m = BeginUpdate(r, l, i)
    PROVE  /\ m \in Locals /\ Fits(r, m) /\ m.num = l.num /\ m.idx = i
           /\ PlaceOf(m) = Turn("head", l.num, i, 1, 1)
           /\ m.pc \in {"start", "refresh", "head"} /\ (r = Input => m.pc \in {"start", "head"})
           /\ ToSend(r, m) = l.num - i + 1 /\ (r # Input => ToTake(r, m) = l.num - i + 1)
           /\ SizesLeft(m, "send") /\ SizesLeft(m, "recv")
<1> DEFINE n == [l EXCEPT !.idx = i]
<1>0. /\ l.num \in 0 .. BatchSize /\ BatchSize \in Nat
      /\ NumTiers \in Nat /\ NumTiers >= 2 /\ Top \in Nat /\ Top = NumTiers - 1
      /\ r \in Nat /\ r <= NumTiers /\ TierNum(r) = r - 1 /\ (r # Input <=> r >= 1)
  BY Fields, RankNumbers, Numbers
<1>1. i \in 0 .. BatchSize /\ i # 0 /\ i <= l.num
  BY <1>0
<1>2. /\ n \in Locals /\ n.sizes = l.sizes /\ n.num = l.num /\ n.idx = i /\ n.weight = 0 /\ n.round = 1
  BY <1>1 DEF Locals
<1>3. m = IF r = Input THEN [n EXCEPT !.pc = "start"]
          ELSE EnterTier(r, n, IF TierNum(r) = 0 THEN 0 ELSE 1)
  BY DEF BeginUpdate
<1> HIDE DEF n
<1>4. CASE r = Input
  <2>1. m = [n EXCEPT !.pc = "start"]
    BY <1>3, <1>4
  <2>2. m \in Locals /\ m.pc = "start" /\ m.num = l.num /\ m.idx = i /\ m.weight = 0 /\ m.round = 1
    BY <1>2, <2>1, SetPc DEF Points, Same
  <2>3. PlaceOf(m) = Turn("head", l.num, i, 1, 1)
    BY <2>2, Places
  <2>4. Fits(r, m)
    BY <1>1, <1>4, <2>2 DEF Fits, Resting, OwnTurn
  <2>5. ToSend(r, m) = l.num - i + 1
    BY <1>4, <2>2 DEF ToSend, HasPassed, Resting
  <2>6. QED
    BY <1>4, <2>2, <2>3, <2>4, <2>5 DEF SizesLeft
<1>5. CASE r # Input
  <2> DEFINE t == IF TierNum(r) = 0 THEN 0 ELSE 1
  <2>1. t \in 0 .. Top /\ (r = 1 => t = 0 /\ TierNum(r) = 0) /\ (r # 1 => t = 1 /\ TierNum(r) >= 1)
    BY <1>0, <1>5
  <2>2. m = EnterTier(r, n, t)
    BY <1>3, <1>5
  <2> HIDE DEF t
  <2>3. /\ m \in Locals /\ Same(m, n)
        /\ m.tier = t /\ m.endpoint = 1 /\ m.weight = n.weight /\ m.round = n.round
        /\ r # Input /\ t = TierNum(r) => m.pc = "refresh"
        /\ ~ (r # Input /\ t = TierNum(r)) => m.pc = "head"
    BY <1>2, <2>1, <2>2, EnterTierFields
  <2>4. m.num = l.num /\ m.idx = i /\ m.weight = 0 /\ m.round = 1
    BY <1>2, <2>3 DEF Same
  <2>5. m.pc \in {"refresh", "head"}
    BY <2>3
  <2>6. PlaceOf(m) = Turn("head", l.num, i, 1, 1)
    <3>1. CASE m.pc = "refresh"
      BY <2>1, <2>3, <2>4, <3>1, Places
    <3>2. CASE m.pc = "head"
      <4>1. t = 1
        BY <1>5, <2>1, <2>3, <3>2
      <4>2. QED
        BY <2>3, <2>4, <3>2, <4>1, Places
    <3>3. QED
      BY <2>5, <3>1, <3>2
  <2>7. m.pc = "head" => t # TierNum(r) /\ t = 1
    BY <1>5, <2>1, <2>3
  <2>8. Fits(r, m)
    <3>1. m.pc = "refresh" => r # Input /\ m.tier = TierNum(r) /\ m.endpoint = 1
      BY <1>5, <2>3
    <3>2. m.pc = "head" => m.tier # TierNum(r) /\ m.tier # 0
      BY <2>3, <2>7
    <3>3. QED
      BY <1>1, <2>3, <2>4, <2>5, <3>1, <3>2, TurnFits
  <2>9. ~ HasPassed(r, m) /\ ~ HasTaken(r, m)
    <3>1. m.pc = "head" => ~ (m.tier > TierNum(r))
      BY <1>0, <2>1, <2>3, <2>7
    <3>2. QED
      BY <1>5, <2>5, <3>1 DEF HasPassed, HasTaken, OwnTurn
  <2>10. m.pc \notin Resting
    BY <2>5 DEF Resting
  <2>11. QED
    BY <1>5, <2>3, <2>4, <2>5, <2>6, <2>8, <2>9, <2>10, Turning
<1>6. QED
  BY <1>4, <1>5

\* ... and so does the wait for a batch, ...
LEMMA IdleFits ==
    ASSUME NEW r \in Ranks, NEW m, m = Idle(r)
    PROVE  /\ m \in Locals /\ Fits(r, m) /\ PlaceOf(m) = Rest("batch", 0)
           /\ m.pc = (IF r = Input THEN "fill" ELSE "batch")
           /\ m.weight = 0 /\ m.round = 1
           /\ ToSend(r, m) = 0 /\ ToTake(r, m) = 0
           /\ SizesLeft(m, "send") /\ SizesLeft(m, "recv")
<1> DEFINE pc == IF r = Input THEN "fill" ELSE "batch"
<1>1. pc \in {"fill", "batch"} /\ pc \in Points /\ (r = Input => pc = "fill") /\ (r # Input => pc = "batch")
  BY DEF Points
<1>2. /\ m.pc = pc /\ m.sizes = <<>> /\ m.num = 0 /\ m.idx = 0 /\ m.tier = 0 /\ m.endpoint = 1
      /\ m.weight = 0 /\ m.round = 1
  BY DEF Idle
<1>3. m \in Locals
  <2>1. 0 \in 0 .. BatchSize /\ 0 \in 0 .. Top /\ <<>> \in Seq({"send", "recv"})
    BY RankNumbers
  <2>2. QED
    BY <1>1, <2>1 DEF Idle, Locals
<1> HIDE DEF pc
<1>4. m.pc \in Resting /\ m.pc \notin OwnTurn
  BY <1>1, <1>2 DEF Resting, OwnTurn
<1>5. Fits(r, m)
  BY <1>1, <1>2, <1>4 DEF Fits
<1>6. QED
  BY <1>1, <1>2, <1>3, <1>4, <1>5, Places DEF ToSend, ToTake, SizesLeft, pc

\* A tier that passes the refresh on has its own turn behind it, and so has the input node
\* when it starts it.
LEMMA PassFits ==
    ASSUME NEW r \in Ranks, NEW l \in Locals, Fits(r, l), l.pc = "pass", NEW m, m = AfterTier(r, l)
    PROVE  /\ m \in Locals /\ Fits(r, m) /\ Same(m, l) /\ PlaceOf(m) = PlaceOf(l)
           /\ ToSend(r, m) = ToSend(r, l) - 1 /\ ToTake(r, m) = ToTake(r, l) /\ m.pc = "head"
           /\ ToSend(r, l) = l.num - l.idx + 1
           /\ PlaceOf(l) = Turn("head", l.num, l.idx, r, 1) /\ r # Input /\ r # NumTiers
<1>0. /\ l.tier \in 0 .. Top /\ Top \in Nat /\ Top = NumTiers - 1 /\ NumTiers \in Nat
      /\ r \in Nat /\ r <= NumTiers /\ TierNum(r) = r - 1 /\ (r # Input <=> r >= 1)
      /\ l.num \in Nat /\ l.idx \in Nat
  BY Fields, RankNumbers, Numbers
<1>1. /\ l.tier = TierNum(r) /\ TierNum(r) # Top /\ r # Input /\ l.round = 1 /\ l.weight = 0
      /\ l.idx <= l.num /\ l.idx # 0
  BY DEF Fits, OwnTurn, Resting
<1> DEFINE t == l.tier + 1
<1>2. m = EnterTier(r, l, t)
  BY <1>1 DEF AfterTier
<1>3. t \in 0 .. Top /\ t # TierNum(r) /\ t # 0 /\ t > TierNum(r) /\ t = r /\ r # NumTiers
  BY <1>0, <1>1
<1> HIDE DEF t
<1>4. /\ m \in Locals /\ Same(m, l) /\ m.tier = t /\ m.endpoint = 1
      /\ m.weight = l.weight /\ m.round = l.round /\ m.pc = "head"
  BY <1>2, <1>3, EnterTierFields
<1>5. m.num = l.num /\ m.idx = l.idx
  BY <1>4 DEF Same
<1>6. Fits(r, m)
  BY <1>1, <1>3, <1>4, <1>5, TurnFits
<1>7. PlaceOf(l) = Turn("head", l.num, l.idx, t, 1)
  BY Places DEF t
<1>8. PlaceOf(m) = Turn("head", l.num, l.idx, t, 1)
  BY <1>4, <1>5, Places
<1>9. /\ ~ HasPassed(r, l) /\ HasTaken(r, l) /\ HasPassed(r, m) /\ HasTaken(r, m)
      /\ l.pc \notin Resting /\ m.pc \notin Resting
  BY <1>1, <1>3, <1>4 DEF HasPassed, HasTaken, OwnTurn, Resting
<1>10. QED
  BY <1>0, <1>1, <1>3, <1>4, <1>5, <1>6, <1>7, <1>8, <1>9, Turning

\* ... the turn after the input node started the refresh, ...
LEMMA StartFits ==
    ASSUME NEW l \in Locals, Fits(Input, l), l.pc = "start", NEW m, m = EnterTier(Input, l, 1)
    PROVE  /\ m \in Locals /\ Fits(Input, m) /\ Same(m, l) /\ PlaceOf(m) = PlaceOf(l)
           /\ ToSend(Input, m) = ToSend(Input, l) - 1 /\ m.pc = "head"
           /\ ToSend(Input, l) = l.num - l.idx + 1
           /\ PlaceOf(l) = Turn("head", l.num, l.idx, 1, 1)
<1>0. /\ Top \in Nat /\ Top >= 1 /\ TierNum(Input) = 0 - 1 /\ Input \in Ranks /\ Input = 0
      /\ l.num \in Nat /\ l.idx \in Nat
  BY Fields, RankNumbers DEF TierNum
<1>1. l.round = 1 /\ l.weight = 0 /\ l.idx <= l.num /\ l.idx # 0
  BY DEF Fits, OwnTurn, Resting
<1>2. 1 \in 0 .. Top /\ 1 # TierNum(Input)
  BY <1>0
<1>4. /\ m \in Locals /\ Same(m, l) /\ m.tier = 1 /\ m.endpoint = 1
      /\ m.weight = l.weight /\ m.round = l.round /\ m.pc = "head"
  BY <1>0, <1>2, EnterTierFields
<1>5. m.num = l.num /\ m.idx = l.idx
  BY <1>4 DEF Same
<1>6. Fits(Input, m)
  BY <1>0, <1>1, <1>2, <1>4, <1>5, TurnFits
<1>7. PlaceOf(l) = Turn("head", l.num, l.idx, 1, 1) /\ PlaceOf(m) = Turn("head", l.num, l.idx, 1, 1)
  BY <1>4, <1>5, Places
<1>8. ~ HasPassed(Input, l) /\ HasPassed(Input, m) /\ l.pc \notin Resting /\ m.pc \notin Resting
  BY <1>4 DEF HasPassed, Resting
<1>9. QED
  BY <1>0, <1>4, <1>5, <1>6, <1>7, <1>8, Turning

------------------------------------------------------------------------------
\* The effect of the calls

NetType     == [Ranks -> [Ranks -> Seq([msg : Messages, waits : BOOLEAN])]]
BcastsType  == [Ranks -> Seq(Packets)]
BlockedType == [Ranks -> SUBSET Ranks]
LogType     == [Ranks -> Seq(Entries)]

\* The type invariant, one variable at a time.
LEMMA Types ==
    /\ Typed <=> /\ loc \in [Ranks -> Locals] /\ net \in NetType /\ bcasts \in BcastsType
                 /\ blocked \in BlockedType /\ log \in LogType
    /\ Typed' <=> /\ loc' \in [Ranks -> Locals] /\ net' \in NetType /\ bcasts' \in BcastsType
                  /\ blocked' \in BlockedType /\ log' \in LogType
  BY DEF Typed, NetType, BcastsType, BlockedType, LogType, Packets

\* The four ways to communicate.
LEMMA BcastEffect ==
    ASSUME Typed, NEW r \in Ranks, NEW msg \in Announcements, Bcast(r, msg)
    PROVE  /\ bcasts' \in BcastsType /\ blocked' \in BlockedType /\ net' = net
           /\ bcasts'[r] = bcasts[r]
           /\ \E m \in Packets :
                 /\ m.msg = msg /\ m.root = r
                 /\ \A q \in Ranks \ {r} : bcasts'[q] = Append(bcasts[q], m)
                 /\ blocked' = [blocked EXCEPT ![r] = IF m.waits THEN Ranks \ {r} ELSE {}]
<1>1. PICK w \in Waits :
          /\ bcasts' = [q \in Ranks |-> IF q = r THEN bcasts[q]
                                        ELSE Append(bcasts[q], [msg |-> msg, root |-> r, waits |-> w])]
          /\ blocked' = [blocked EXCEPT ![r] = IF w THEN Ranks \ {r} ELSE {}]
          /\ net' = net
  BY DEF Bcast
<1> DEFINE m == [msg |-> msg, root |-> r, waits |-> w]
<1>2. m \in Packets /\ m.msg = msg /\ m.root = r /\ m.waits = w
  BY WaitsAssumption DEF Packets
<1>3. bcasts' = [q \in Ranks |-> IF q = r THEN bcasts[q] ELSE Append(bcasts[q], m)]
  BY <1>1
<1> HIDE DEF m
<1>4. \A q \in Ranks : bcasts[q] \in Seq(Packets) /\ Append(bcasts[q], m) \in Seq(Packets)
  BY <1>2, Types DEF BcastsType
<1>5. bcasts' \in BcastsType
  BY <1>3, <1>4 DEF BcastsType
<1>6. blocked' \in BlockedType
  BY <1>1, Types DEF BlockedType
<1>7. bcasts'[r] = bcasts[r] /\ \A q \in Ranks \ {r} : bcasts'[q] = Append(bcasts[q], m)
  BY <1>3
<1>8. QED
  BY <1>1, <1>2, <1>5, <1>6, <1>7

\* The broadcast a rank takes is the first it is owed.
LEMMA TakeEffect ==
    ASSUME Typed, NEW r \in Ranks, TakeBcast(r)
    PROVE  /\ bcasts' \in BcastsType /\ blocked' \in BlockedType /\ net' = net
           /\ bcasts[r] # <<>> /\ bcasts[r] \in Seq(Packets) /\ bcasts'[r] = Tail(bcasts[r])
           /\ Head(bcasts[r]) \in Packets /\ Announced(r) \in Announcements
           /\ \A q \in Ranks \ {r} : bcasts'[q] = bcasts[q]
           /\ blocked' = Taken(r, Head(bcasts[r]).root, Head(bcasts[r]))
<1>1. /\ bcasts[r] # <<>> /\ bcasts' = [bcasts EXCEPT ![r] = Tail(@)]
      /\ blocked' = Taken(r, Head(bcasts[r]).root, Head(bcasts[r])) /\ net' = net
  BY DEF TakeBcast
<1>2. bcasts[r] \in Seq(Packets) /\ bcasts \in BcastsType /\ blocked \in BlockedType
  BY Types DEF BcastsType
<1>3. Head(bcasts[r]) \in Packets /\ Tail(bcasts[r]) \in Seq(Packets)
  BY <1>1, <1>2
<1>4. Head(bcasts[r]).root \in Ranks /\ Announced(r) \in Announcements
  BY <1>3 DEF Packets, Announced
<1>5. blocked' \in BlockedType
  BY <1>1, <1>2, <1>4 DEF Taken, BlockedType
<1>6. bcasts' \in BcastsType /\ bcasts'[r] = Tail(bcasts[r])
      /\ \A q \in Ranks \ {r} : bcasts'[q] = bcasts[q]
  BY <1>1, <1>2, <1>3 DEF BcastsType
<1>7. QED
  BY <1>1, <1>2, <1>3, <1>4, <1>5, <1>6

Letters == [msg : Messages, waits : BOOLEAN]

\* A message goes behind those that are under way.
LEMMA SendEffect ==
    ASSUME Typed, NEW r \in Ranks, NEW to \in Ranks, NEW msg \in Messages, Send(r, to, msg)
    PROVE  /\ net' \in NetType /\ blocked' \in BlockedType /\ bcasts' = bcasts
           /\ net[r][to] \in Seq(Letters)
           /\ \A s, q \in Ranks : s # r \/ q # to => net'[s][q] = net[s][q]
           /\ \E m \in Letters : /\ m.msg = msg /\ net'[r][to] = Append(net[r][to], m)
                                 /\ blocked' = [blocked EXCEPT ![r] = IF m.waits THEN {to} ELSE {}]
<1>1. PICK w \in Waits :
          /\ net' = [net EXCEPT ![r][to] = Append(@, [msg |-> msg, waits |-> w])]
          /\ blocked' = [blocked EXCEPT ![r] = IF w THEN {to} ELSE {}]
          /\ bcasts' = bcasts
  BY DEF Send
<1> DEFINE m == [msg |-> msg, waits |-> w]
<1>2. m \in Letters /\ m.msg = msg /\ m.waits = w
  BY WaitsAssumption DEF Letters
<1>3. net' = [net EXCEPT ![r][to] = Append(@, m)]
  BY <1>1
<1> HIDE DEF m
<1>4. net \in [Ranks -> [Ranks -> Seq(Letters)]]
  BY Types DEF NetType, Letters
<1>5. Append(net[r][to], m) \in Seq(Letters)
  BY <1>2, <1>4
<1>6. net' \in [Ranks -> [Ranks -> Seq(Letters)]]
  BY <1>3, <1>4, <1>5
<1>7. net'[r][to] = Append(net[r][to], m) /\ \A s, q \in Ranks : s # r \/ q # to => net'[s][q] = net[s][q]
  BY <1>3, <1>4
<1>8. blocked' \in BlockedType
  BY <1>1, Types DEF BlockedType
<1>9. \E k \in Letters : /\ k.msg = msg /\ net'[r][to] = Append(net[r][to], k)
                         /\ blocked' = [blocked EXCEPT ![r] = IF k.waits THEN {to} ELSE {}]
  BY <1>1, <1>2, <1>7
<1>10. net' \in NetType /\ net[r][to] \in Seq(Letters)
  BY <1>4, <1>6 DEF NetType, Letters
<1>11. QED
  BY <1>1, <1>7, <1>8, <1>9, <1>10

\* The message a rank receives is the first that is under way.
LEMMA RecvEffect ==
    ASSUME Typed, NEW r \in Ranks, NEW from \in Ranks, Recv(r, from)
    PROVE  /\ net' \in NetType /\ blocked' \in BlockedType /\ bcasts' = bcasts
           /\ net[from][r] # <<>> /\ net[from][r] \in Seq(Letters) /\ Head(net[from][r]) \in Letters
           /\ net'[from][r] = Tail(net[from][r])
           /\ \A s, q \in Ranks : s # from \/ q # r => net'[s][q] = net[s][q]
           /\ blocked' = Taken(r, from, Head(net[from][r]))
<1>1. /\ net[from][r] # <<>> /\ net' = [net EXCEPT ![from][r] = Tail(@)]
      /\ blocked' = Taken(r, from, Head(net[from][r])) /\ bcasts' = bcasts
  BY DEF Recv
<1>2. net \in [Ranks -> [Ranks -> Seq(Letters)]]
  BY Types DEF NetType, Letters
<1>3. net[from][r] \in Seq(Letters) /\ Head(net[from][r]) \in Letters /\ Tail(net[from][r]) \in Seq(Letters)
  BY <1>1, <1>2
<1>4. net' \in [Ranks -> [Ranks -> Seq(Letters)]]
  BY <1>1, <1>2, <1>3
<1>5. net'[from][r] = Tail(net[from][r]) /\ \A s, q \in Ranks : s # from \/ q # r => net'[s][q] = net[s][q]
  BY <1>1, <1>2
<1>6. blocked' \in BlockedType
  BY <1>1, Types DEF Taken, BlockedType
<1>7. QED
  BY <1>1, <1>3, <1>4, <1>5, <1>6 DEF NetType, Letters

\* An operation goes to the end of the log.
LEMMA ApplyEffect ==
    ASSUME Typed, NEW r \in Ranks, NEW op \in Ops, Apply(r, op)
    PROVE  log' \in LogType
<1> DEFINE e == [op |-> op, tier |-> loc[r].tier, endpoint |-> loc[r].endpoint]
<1>1. loc[r] \in Locals
  BY DEF Typed
<1>2. loc[r].tier \in 0 .. Top /\ loc[r].endpoint \in {1, 2}
  BY <1>1, Fields
<1>3. e \in Entries
  BY <1>2 DEF Entries
<1>4. log' = log \/ log' = [log EXCEPT ![r] = Append(@, e)]
  BY DEF Apply
<1> HIDE DEF e
<1>5. log \in [Ranks -> Seq(Entries)]
  BY Types DEF LogType
<1>6. Append(log[r], e) \in Seq(Entries)
  BY <1>3, <1>5
<1>7. [log EXCEPT ![r] = Append(@, e)] \in [Ranks -> Seq(Entries)]
  BY <1>5, <1>6
<1>8. QED
  BY <1>4, <1>5, <1>7 DEF LogType

------------------------------------------------------------------------------
\* Speaking and taking

\* The messages by their kinds.
LEMMA Sorts ==
    /\ \A msg \in Announcements : /\ msg.kind \in {"end", "isolated", "not_isolated", "batch", "cut", "link"}
                                  /\ msg.kind \in {"cut", "link"} => msg \in Ops
                                  /\ msg.kind = "batch" => msg.num \in 1 .. BatchSize
    /\ \A op \in Ops : op \in Announcements /\ op.kind \in {"cut", "link"} /\ op.start \in 0 .. Top
    /\ \A kind \in {"end", "isolated", "not_isolated"} : [kind |-> kind] \in Announcements
    /\ \A num \in 1 .. BatchSize : [kind |-> "batch", num |-> num] \in Announcements
    /\ \A kind \in {"cut", "link"}, start \in 0 .. Top : [kind |-> kind, start |-> start] \in Ops
    /\ \A kind \in {"refresh", "sizes"} : [kind |-> kind] \in Messages
    /\ \A weight \in 0 .. Top : [kind |-> "lct", weight |-> weight] \in Messages
    /\ \A msg \in Messages : msg.kind = "lct" => msg.weight \in 0 .. Top
<1>1. \A msg \in Announcements : /\ msg.kind \in {"end", "isolated", "not_isolated", "batch", "cut", "link"}
                                 /\ msg.kind \in {"cut", "link"} => msg \in Ops
                                 /\ msg.kind = "batch" => msg.num \in 1 .. BatchSize
  BY DEF Announcements, Ops
<1>2. \A op \in Ops : op \in Announcements /\ op.kind \in {"cut", "link"} /\ op.start \in 0 .. Top
  BY DEF Announcements, Ops
<1>3. \A kind \in {"end", "isolated", "not_isolated"} : [kind |-> kind] \in Announcements
  BY DEF Announcements
<1>4. \A num \in 1 .. BatchSize : [kind |-> "batch", num |-> num] \in Announcements
  BY DEF Announcements
<1>5. \A kind \in {"cut", "link"}, start \in 0 .. Top : [kind |-> kind, start |-> start] \in Ops
  BY DEF Ops
<1>6. \A kind \in {"refresh", "sizes"} : [kind |-> kind] \in Messages
  BY DEF Messages
<1>7. \A weight \in 0 .. Top : [kind |-> "lct", weight |-> weight] \in Messages
  BY DEF Messages
<1>8. \A msg \in Messages : msg.kind = "lct" => msg.weight \in 0 .. Top
  BY DEF Messages
<1>9. QED
  BY <1>1, <1>2, <1>3, <1>4, <1>5, <1>6, <1>7, <1>8

\* A step of rank r, which is not held in a send, to the local variables l.
Step(r, l) == /\ l \in Locals /\ Fits(r, l) /\ loc' = [loc EXCEPT ![r] = l]
              /\ blocked[r] = {}

\* What the step does to the log with the message msg it broadcasts or takes.
Records(r, l, msg) ==
    /\ l.idx = loc[r].idx
    /\ msg.kind \in {"cut", "link"} =>
          /\ Apply(r, msg) /\ loc[r].idx # 0
          /\ \E pc \in {"ops", "link"} :
                Place(r) = Turn(pc, loc[r].num, loc[r].idx, loc[r].tier, loc[r].endpoint)
    /\ msg.kind \notin {"cut", "link"} => log' = log

\* A step with a broadcast of msg, and one that takes a broadcast.
Speaks(r, l, msg) ==
    /\ Step(r, l) /\ Keeps(r, loc[r], l) /\ msg \in Announcements /\ Bcast(r, msg) /\ Records(r, l, msg)
    /\ Speaker(Place(r)) = r /\ msg.kind \in Kinds(Place(r)) /\ PlaceOf(l) = AfterMsg(Place(r), msg)
    /\ loc[r].pc # "query" /\ (msg.kind = "isolated" => l.pc = "query")
    /\ r = Input => l.pc \in {"reduce", "done"}
Takes(r, l) ==
    /\ Step(r, l) /\ Keeps(r, loc[r], l) /\ TakeBcast(r) /\ Records(r, l, Announced(r))
    /\ PlaceOf(l) = AfterMsg(Place(r), Announced(r))
    /\ loc[r].pc # "query" /\ l.pc # "query"
    /\ l.pc = "answer" => Announced(r).kind = "isolated" /\ l.tier + 1 = Speaker(Place(r))
    /\ r = Input => loc[r].pc # "fill"

\* A step of one rank keeps the types.
LEMMA StepTypes ==
    ASSUME Typed, NEW r \in Ranks, NEW l \in Locals, loc' = [loc EXCEPT ![r] = l],
           net' \in NetType, bcasts' \in BcastsType, blocked' \in BlockedType, log' \in LogType
    PROVE  Typed'
<1>1. loc' \in [Ranks -> Locals]
  BY DEF Typed
<1>2. QED
  BY <1>1, Types

\* What the invariants say of one rank.
LEMMA Here ==
    ASSUME Typed, LocalInv, NEW r \in Ranks
    PROVE  /\ loc[r] \in Locals /\ Fits(r, loc[r]) /\ Place(r) = PlaceOf(loc[r])
           /\ loc[r].idx <= loc[r].num
           /\ loc[r].idx = 0 <=> loc[r].pc \in Resting
           /\ loc[r].pc \in OwnTurn => loc[r].tier = TierNum(r)
           /\ loc[r].pc \in {"declare", "query", "cut", "link", "head", "ops", "answer"} => loc[r].tier # 0
           /\ loc[r].pc \in {"head", "ops"} => loc[r].tier # TierNum(r)
           /\ loc[r].pc = "refresh" => loc[r].endpoint = 1
           /\ loc[r].pc = "pass" => TierNum(r) # Top
           /\ loc[r].pc # "ops" => loc[r].round = 1
           /\ loc[r].pc \notin {"cut", "link"} => loc[r].weight = 0
           /\ loc[r].pc = "cut" => loc[r].weight # 0
<1>1. loc[r] \in Locals /\ Fits(r, loc[r]) /\ Place(r) = PlaceOf(loc[r])
  BY DEF Typed, LocalInv, Place
<1>2. QED
  BY <1>1 DEF Fits

\* The input node broadcasts a batch, ...
LEMMA StartBatchSpeaks ==
    ASSUME Typed, LocalInv, StartBatch
    PROVE  Typed' /\ \E l, msg : Speaks(Input, l, msg)
<1> DEFINE l0 == loc[Input]
<1>1. PICK num \in 1 .. BatchSize :
          /\ Bcast(Input, [kind |-> "batch", num |-> num])
          /\ Goto(Input, [l0 EXCEPT !.pc = "reduce", !.num = num])
  BY DEF StartBatch
<1> DEFINE l == [l0 EXCEPT !.pc = "reduce", !.num = num]
           msg == [kind |-> "batch", num |-> num]
<1>2. /\ l0 \in Locals /\ l0.pc = "fill" /\ l0.idx = 0 /\ l0.round = 1 /\ l0.weight = 0
      /\ Place(Input) = PlaceOf(l0) /\ blocked[Input] = {} /\ Input \in Ranks /\ log' = log
  BY Here, RankNumbers DEF StartBatch, At, Resting
<1>3. num \in 0 .. BatchSize /\ num \in Nat /\ "reduce" \in Points /\ num >= 0
  BY RankNumbers DEF Points
<1>4. /\ l \in Locals /\ l.pc = "reduce" /\ l.num = num /\ l.idx = 0 /\ l.round = 1 /\ l.weight = 0
      /\ l.tier = l0.tier
  <2> HIDE DEF l0
  <2> DEFINE pc == "reduce"
  <2>1. pc \in Points
    BY <1>3
  <2> HIDE DEF pc
  <2>2. l = [l0 EXCEPT !.pc = pc, !.num = num]
    BY DEF pc
  <2> HIDE DEF l
  <2>3. /\ l \in Locals /\ l.pc = pc /\ l.num = num /\ l.idx = l0.idx /\ l.round = l0.round
        /\ l.weight = l0.weight /\ l.tier = l0.tier
    BY <1>2, <1>3, <2>1, <2>2 DEF Locals
  <2>4. QED
    BY <1>2, <2>3 DEF pc
<1>5. msg \in Announcements /\ msg.kind = "batch" /\ msg.num = num
  BY Sorts
<1>6. Bcast(Input, msg) /\ loc' = [loc EXCEPT ![Input] = l]
  BY <1>1 DEF Goto
<1> HIDE DEF l, msg, l0
<1>7. Fits(Input, l)
  BY <1>3, <1>4 DEF Fits, Resting, OwnTurn
<1>8. Keeps(Input, l0, l)
  BY <1>2, <1>4, RankNumbers DEF Keeps, ToSend, Resting, SizesLeft
<1>9. Place(Input) = Rest("batch", 0) /\ PlaceOf(l) = Rest("reduce", num)
  BY <1>2, <1>4, Places
<1>r. Records(Input, l, msg)
  BY <1>2, <1>4, <1>5 DEF Records, l0
<1>10. Speaks(Input, l, msg)
  BY <1>r, <1>2, <1>4, <1>5, <1>6, <1>7, <1>8, <1>9, Turns DEF Speaks, Step, l0
<1>11. Typed'
  BY <1>2, <1>4, <1>5, <1>6, BcastEffect, StepTypes, Types
<1>12. QED
  BY <1>10, <1>11

------------------------------------------------------------------------------
\* The root of a turn

\* ... or the end of the stream.
LEMMA EndStreamSpeaks ==
    ASSUME Typed, LocalInv, EndStream
    PROVE  Typed' /\ \E l, msg : Speaks(Input, l, msg)
<1> DEFINE l0 == loc[Input]
           l == [l0 EXCEPT !.pc = "done"]
           msg == [kind |-> "end"]
<1>1. Bcast(Input, msg) /\ loc' = [loc EXCEPT ![Input] = l] /\ log' = log
  BY DEF EndStream, Move, Goto
<1>2. /\ l0 \in Locals /\ l0.pc = "fill" /\ l0.idx = 0 /\ l0.round = 1 /\ l0.weight = 0 /\ l0.idx <= l0.num
      /\ Place(Input) = PlaceOf(l0) /\ blocked[Input] = {} /\ Input \in Ranks
  BY Here, RankNumbers DEF EndStream, At, Resting
<1>3. msg \in Announcements /\ msg.kind = "end"
  BY Sorts
<1> HIDE DEF l0, msg
<1>4. /\ l \in Locals /\ l.pc = "done" /\ Same(l, l0) /\ l.tier = l0.tier /\ l.weight = l0.weight
      /\ l.round = l0.round
  BY <1>2, SetPc DEF Points
<1>5. l.num = l0.num /\ l.idx = l0.idx
  BY <1>4 DEF Same
<1> HIDE DEF l
<1>6. Fits(Input, l)
  BY <1>2, <1>4, <1>5 DEF Fits, Resting, OwnTurn
<1>7. Keeps(Input, l0, l)
  BY <1>2, <1>4, RankNumbers DEF Keeps, ToSend, Resting, SizesLeft
<1>8. Place(Input) = Rest("batch", 0) /\ PlaceOf(l) = Rest("done", 0)
  BY <1>2, <1>4, Places
<1>r. Records(Input, l, msg)
  BY <1>1, <1>3, <1>5 DEF Records, l0
<1>9. Speaks(Input, l, msg)
  BY <1>r, <1>1, <1>2, <1>3, <1>4, <1>6, <1>7, <1>8, Turns DEF Speaks, Step, l0
<1>10. Typed'
  BY <1>1, <1>2, <1>3, <1>4, BcastEffect, StepTypes, Types
<1>11. QED
  BY <1>9, <1>10

\* The three points at which a tier speaks in its turn.
LEMMA OwnPlaces ==
    ASSUME Typed, LocalInv, NEW r \in TierNodes, NEW l0, l0 = loc[r], l0.pc \in {"declare", "cut", "link"}
    PROVE  /\ l0 \in Locals /\ Fits(r, l0) /\ r \in Ranks /\ r # Input /\ l0.tier + 1 = r
           /\ Speaker(Place(r)) = r /\ l0.idx <= l0.num /\ l0.idx # 0 /\ l0.tier # 0
           /\ l0.tier = TierNum(r)
           /\ l0.pc = "declare" => Place(r) = Turn("head", l0.num, l0.idx, l0.tier, l0.endpoint)
           /\ l0.pc = "cut" => Place(r) = Turn("ops", l0.num, l0.idx, l0.tier, l0.endpoint) /\ l0.weight # 0
           /\ l0.pc = "link" => \E pc \in {"ops", "link"} :
                                   Place(r) = Turn(pc, l0.num, l0.idx, l0.tier, l0.endpoint)
<1>1. /\ l0 \in Locals /\ Fits(r, l0) /\ r \in Ranks /\ r # Input /\ l0.tier = TierNum(r)
      /\ l0.idx <= l0.num /\ l0.idx # 0 /\ l0.tier # 0 /\ Place(r) = PlaceOf(l0)
      /\ l0.pc = "cut" => l0.weight # 0
  BY Here, RankNumbers DEF OwnTurn, Resting
<1>2. l0.tier + 1 = r
  BY <1>1, Numbers
<1>3. /\ l0.pc = "declare" => Place(r) = Turn("head", l0.num, l0.idx, l0.tier, l0.endpoint)
      /\ l0.pc = "cut" => Place(r) = Turn("ops", l0.num, l0.idx, l0.tier, l0.endpoint)
      /\ l0.pc = "link" => \E pc \in {"ops", "link"} :
                              Place(r) = Turn(pc, l0.num, l0.idx, l0.tier, l0.endpoint)
  <2>1. /\ l0.pc = "declare" => Place(r) = Turn("head", l0.num, l0.idx, l0.tier, l0.endpoint)
        /\ l0.pc = "cut" => Place(r) = Turn("ops", l0.num, l0.idx, l0.tier, l0.endpoint)
    BY <1>1, Places
  <2>2. ASSUME l0.pc = "link"
        PROVE  \E pc \in {"ops", "link"} : Place(r) = Turn(pc, l0.num, l0.idx, l0.tier, l0.endpoint)
    <3>1. CASE l0.weight = 0
      BY <1>1, <2>2, <3>1, Places
    <3>2. CASE l0.weight # 0
      BY <1>1, <2>2, <3>2, Places
    <3>3. QED
      BY <3>1, <3>2
  <2>3. QED
    BY <2>1, <2>2
<1>4. Speaker(Place(r)) = r
  BY <1>2, <1>3, Turns
<1>5. QED
  BY <1>1, <1>2, <1>3, <1>4

\* Within its own turn a tier neither takes nor passes on the refresh.
LEMMA OwnKeeps ==
    ASSUME NEW r \in TierNodes, NEW l, NEW m, Same(m, l), l.pc \in OwnTurn \ {"refresh"}, m.pc \in OwnTurn \ {"refresh"}
    PROVE  Keeps(r, l, m)
<1>1. r # Input
  BY RankNumbers
<1>2. HasTaken(r, l) /\ HasTaken(r, m) /\ ~ HasPassed(r, l) /\ ~ HasPassed(r, m)
  BY <1>1 DEF HasTaken, HasPassed, OwnTurn
<1>3. l.pc \notin Resting /\ m.pc \notin Resting
  BY DEF OwnTurn, Resting
<1>4. QED
  BY <1>2, <1>3, TurningKeeps

\* The stations of a turn fit its root.
LEMMA OwnFits ==
    ASSUME NEW r \in TierNodes, NEW m, m.pc \in {"query", "cut", "link"}, m.idx <= m.num, m.idx # 0,
           m.tier = TierNum(r), m.tier # 0, m.round = 1, m.weight # 0 => m.pc # "query",
           m.pc = "cut" => m.weight # 0
    PROVE  Fits(r, m)
  BY RankNumbers DEF Fits, OwnTurn, Resting

\* The root of a turn broadcasts whether the tree is isolated, ...
LEMMA DeclareSpeaks ==
    ASSUME Typed, LocalInv, NEW r \in TierNodes, Declare(r)
    PROVE  Typed' /\ \E l, msg : Speaks(r, l, msg)
<1> DEFINE l0 == loc[r]
<1>1. l0.pc = "declare" /\ blocked[r] = {} /\ log' = log
  BY DEF Declare, At
<1>2. /\ l0 \in Locals /\ Fits(r, l0) /\ r \in Ranks /\ r # Input /\ l0.tier + 1 = r
      /\ Speaker(Place(r)) = r /\ l0.idx <= l0.num /\ l0.idx # 0 /\ l0.tier # 0 /\ l0.tier = TierNum(r)
      /\ Place(r) = Turn("head", l0.num, l0.idx, l0.tier, l0.endpoint)
  BY <1>1, OwnPlaces
<1>3. CASE Bcast(r, [kind |-> "not_isolated"]) /\ Goto(r, AfterEndpoint(r, l0))
  <2> DEFINE msg == [kind |-> "not_isolated"]
             l == AfterEndpoint(r, l0)
  <2>1. msg \in Announcements /\ msg.kind = "not_isolated" /\ Bcast(r, msg)
    BY <1>3, Sorts
  <2>2. loc' = [loc EXCEPT ![r] = l]
    BY <1>3 DEF Goto
  <2> HIDE DEF l0, msg, l
  <2>3. PlaceOf(l) = NextEndpoint(Turn("head", l0.num, l0.idx, l0.tier, l0.endpoint))
    BY <1>2, AfterEndpointPlace DEF l
  <2>4. /\ l \in Locals /\ Fits(r, l) /\ Keeps(r, l0, l) /\ l.idx = l0.idx
        /\ l.pc \in {"declare", "head", "pass", "refresh", "next"}
    BY <1>1, <1>2, AfterEndpointFits DEF l
  <2>5. msg.kind \in Kinds(Place(r)) /\ PlaceOf(l) = AfterMsg(Place(r), msg)
    BY <1>2, <2>1, <2>3, Turns
  <2>r. Records(r, l, msg)
    BY <1>1, <2>1, <2>4 DEF Records, l0
  <2>6. Speaks(r, l, msg)
    BY <2>r, <1>1, <1>2, <2>1, <2>2, <2>4, <2>5 DEF Speaks, Step, l0
  <2>7. Typed'
    BY <1>1, <1>2, <2>1, <2>2, <2>4, BcastEffect, StepTypes, Types
  <2>8. QED
    BY <2>6, <2>7
<1>4. CASE Bcast(r, [kind |-> "isolated"]) /\ Move(r, "query")
  <2> DEFINE msg == [kind |-> "isolated"]
             l == [l0 EXCEPT !.pc = "query"]
  <2>1. msg \in Announcements /\ msg.kind = "isolated" /\ Bcast(r, msg)
    BY <1>4, Sorts
  <2>2. loc' = [loc EXCEPT ![r] = l]
    BY <1>4 DEF Goto, Move
  <2>3. l0.weight = 0 /\ l0.round = 1
    BY <1>1, <1>2, Here
  <2> HIDE DEF l0, msg
  <2>4. /\ l \in Locals /\ l.pc = "query" /\ Same(l, l0) /\ l.tier = l0.tier /\ l.weight = l0.weight
        /\ l.round = l0.round /\ l.endpoint = l0.endpoint
    BY <1>2, SetPc DEF Points
  <2> HIDE DEF l
  <2>5. l.num = l0.num /\ l.idx = l0.idx
    BY <2>4 DEF Same
  <2>6. Fits(r, l) /\ Keeps(r, l0, l)
    <3>1. Fits(r, l)
      BY <1>2, <2>3, <2>4, <2>5, OwnFits
    <3>2. Keeps(r, l0, l)
      BY <1>1, <2>4, OwnKeeps DEF OwnTurn, l0
    <3>3. QED
      BY <3>1, <3>2
  <2>7. PlaceOf(l) = Turn("ops", l0.num, l0.idx, l0.tier, l0.endpoint)
    BY <2>4, <2>5, Places
  <2>8. msg.kind \in Kinds(Place(r)) /\ PlaceOf(l) = AfterMsg(Place(r), msg)
    BY <1>2, <2>1, <2>7, Turns
  <2>r. Records(r, l, msg)
    BY <1>1, <2>1, <2>5 DEF Records, l0
  <2>9. Speaks(r, l, msg)
    BY <2>r, <1>1, <1>2, <2>1, <2>2, <2>4, <2>6, <2>8 DEF Speaks, Step, l0
  <2>10. Typed'
    BY <1>1, <1>2, <2>1, <2>2, <2>4, BcastEffect, StepTypes, Types
  <2>11. QED
    BY <2>9, <2>10
<1>5. QED
  BY <1>3, <1>4 DEF Declare

\* ... the cut, ...
LEMMA AnnounceCutSpeaks ==
    ASSUME Typed, LocalInv, NEW r \in TierNodes, AnnounceCut(r)
    PROVE  Typed' /\ \E l, msg : Speaks(r, l, msg)
<1> DEFINE l0 == loc[r]
           l == [l0 EXCEPT !.pc = "link"]
           msg == [kind |-> "cut", start |-> l0.weight]
<1>1. /\ l0.pc = "cut" /\ blocked[r] = {} /\ Bcast(r, msg) /\ Apply(r, msg)
      /\ loc' = [loc EXCEPT ![r] = l]
  BY DEF AnnounceCut, At, Goto, Move
<1>2. /\ l0 \in Locals /\ Fits(r, l0) /\ r \in Ranks /\ r # Input /\ l0.tier + 1 = r
      /\ Speaker(Place(r)) = r /\ l0.idx <= l0.num /\ l0.idx # 0 /\ l0.tier # 0 /\ l0.tier = TierNum(r)
      /\ Place(r) = Turn("ops", l0.num, l0.idx, l0.tier, l0.endpoint) /\ l0.weight # 0
  BY <1>1, OwnPlaces
<1>3. msg \in Ops /\ msg \in Announcements /\ msg.kind = "cut"
  <2>1. l0.weight \in 0 .. Top
    BY <1>2, Fields
  <2>2. QED
    BY <2>1, Sorts
<1>4. l0.round = 1
  BY <1>1, <1>2, Here
<1> HIDE DEF l0, msg
<1>5. /\ l \in Locals /\ l.pc = "link" /\ Same(l, l0) /\ l.tier = l0.tier /\ l.weight = l0.weight
      /\ l.round = l0.round /\ l.endpoint = l0.endpoint
  BY <1>2, SetPc DEF Points
<1> HIDE DEF l
<1>6. l.num = l0.num /\ l.idx = l0.idx
  BY <1>5 DEF Same
<1>7. Fits(r, l)
  BY <1>2, <1>4, <1>5, <1>6, OwnFits
<1>8. Keeps(r, l0, l)
  BY <1>1, <1>5, OwnKeeps DEF OwnTurn, l0
<1>9. PlaceOf(l) = Turn("link", l0.num, l0.idx, l0.tier, l0.endpoint)
  BY <1>2, <1>5, <1>6, Places
<1>10. msg.kind \in Kinds(Place(r)) /\ PlaceOf(l) = AfterMsg(Place(r), msg)
  BY <1>2, <1>3, <1>9, Turns
<1>r. Records(r, l, msg)
  BY <1>1, <1>2, <1>3, <1>6 DEF Records, l0
<1>11. Speaks(r, l, msg)
  BY <1>r, <1>1, <1>2, <1>3, <1>5, <1>7, <1>8, <1>10 DEF Speaks, Step, l0
<1>12. log' \in LogType
  BY <1>1, <1>2, <1>3, ApplyEffect
<1>13. Typed'
  BY <1>1, <1>2, <1>3, <1>5, <1>12, BcastEffect, StepTypes, Types
<1>14. QED
  BY <1>11, <1>13

\* ... and the link.
LEMMA AnnounceLinkSpeaks ==
    ASSUME Typed, LocalInv, NEW r \in TierNodes, AnnounceLink(r)
    PROVE  Typed' /\ \E l, msg : Speaks(r, l, msg)
<1> DEFINE l0 == loc[r]
           l == AfterEndpoint(r, l0)
           msg == [kind |-> "link", start |-> TierNum(r)]
<1>1. /\ l0.pc = "link" /\ blocked[r] = {} /\ Bcast(r, msg) /\ Apply(r, msg)
      /\ loc' = [loc EXCEPT ![r] = l]
  BY DEF AnnounceLink, At, Goto
<1>2. /\ l0 \in Locals /\ Fits(r, l0) /\ r \in Ranks /\ r # Input /\ l0.tier + 1 = r
      /\ Speaker(Place(r)) = r /\ l0.idx <= l0.num /\ l0.idx # 0 /\ l0.tier # 0 /\ l0.tier = TierNum(r)
  BY <1>1, OwnPlaces
<1>0. PICK pc \in {"ops", "link"} : Place(r) = Turn(pc, l0.num, l0.idx, l0.tier, l0.endpoint)
  BY <1>1, OwnPlaces
<1>3. msg \in Ops /\ msg \in Announcements /\ msg.kind = "link"
  <2>1. TierNum(r) \in 0 .. Top
    BY RankNumbers
  <2>2. QED
    BY <2>1, Sorts
<1> HIDE DEF l0, msg, l
<1>4. PlaceOf(l) = NextEndpoint(Turn(pc, l0.num, l0.idx, l0.tier, l0.endpoint))
  BY <1>2, AfterEndpointPlace DEF l
<1>5. /\ l \in Locals /\ Fits(r, l) /\ Keeps(r, l0, l) /\ l.idx = l0.idx
      /\ l.pc \in {"declare", "head", "pass", "refresh", "next"}
  BY <1>1, <1>2, AfterEndpointFits DEF l, l0
<1>6. msg.kind \in Kinds(Place(r)) /\ PlaceOf(l) = AfterMsg(Place(r), msg)
  <2>1. msg.kind \in Kinds(Turn("ops", l0.num, l0.idx, l0.tier, l0.endpoint))
    BY <1>3 DEF Kinds, Turn
  <2>2. msg.kind \in Kinds(Turn("link", l0.num, l0.idx, l0.tier, l0.endpoint))
    BY <1>3 DEF Kinds, Turn
  <2>3. AfterMsg(Place(r), msg) = NextEndpoint(Place(r))
    BY <1>3, Turns
  <2>4. QED
    BY <1>0, <1>4, <2>1, <2>2, <2>3
<1>r. Records(r, l, msg)
  BY <1>0, <1>1, <1>2, <1>3, <1>5 DEF Records, l0
<1>7. Speaks(r, l, msg)
  BY <1>r, <1>1, <1>2, <1>3, <1>5, <1>6 DEF Speaks, Step, l0
<1>8. log' \in LogType
  BY <1>1, <1>2, <1>3, ApplyEffect
<1>9. Typed'
  BY <1>1, <1>2, <1>3, <1>5, <1>8, BcastEffect, StepTypes, Types
<1>10. QED
  BY <1>7, <1>9

------------------------------------------------------------------------------
\* The ranks that follow

\* The order of the exchange names what a tier has to do with its neighbours.
LEMMA Orders ==
    /\ \A l : l.pc = "sizes" /\ l.sizes \in {<<"recv">>, <<"send", "recv">>, <<"recv", "send">>} =>
                  SizesLeft(l, "recv")
    /\ \A l : l.pc = "sizes" /\ l.sizes \in {<<"send">>, <<"send", "recv">>, <<"recv", "send">>} =>
                  SizesLeft(l, "send")
    /\ \A l : l.pc = "sizes" /\ l.sizes = <<"recv">> => ~ SizesLeft(l, "send")
    /\ \A l : l.pc = "sizes" /\ l.sizes = <<"send">> => ~ SizesLeft(l, "recv")
<1>1. /\ DOMAIN <<"recv">> = {1} /\ DOMAIN <<"send">> = {1}
      /\ DOMAIN <<"recv", "send">> = {1, 2} /\ DOMAIN <<"send", "recv">> = {1, 2}
      /\ <<"recv">>[1] = "recv" /\ <<"send">>[1] = "send"
      /\ <<"recv", "send">>[1] = "recv" /\ <<"recv", "send">>[2] = "send"
      /\ <<"send", "recv">>[1] = "send" /\ <<"send", "recv">>[2] = "recv"
  OBVIOUS
<1>2. QED
  BY <1>1 DEF SizesLeft

\* A tier takes the broadcast that opens a batch or ends the stream.
LEMMA TakeBatchTakes ==
    ASSUME Typed, LocalInv, InStep, NEW r \in TierNodes, TakeBatch(r)
    PROVE  Typed' /\ \E l : Takes(r, l)
<1> DEFINE l0 == loc[r]
<1>1. l0.pc = "batch" /\ blocked[r] = {} /\ TakeBcast(r) /\ log' = log
  BY DEF TakeBatch, At
<1>2. /\ l0 \in Locals /\ Fits(r, l0) /\ r \in Ranks /\ r # Input /\ l0.idx = 0 /\ l0.idx <= l0.num
      /\ Place(r) = Rest("batch", 0) /\ l0.round = 1 /\ l0.weight = 0
  BY <1>1, Here, Places, RankNumbers DEF Resting
<1>3. Announced(r) \in Announcements /\ Announced(r).kind \in {"batch", "end"}
  BY <1>1, <1>2, TakeFacts, TakeEffect, Turns
<1>t. r \in Nat /\ r <= NumTiers /\ r >= 1 /\ TierNum(r) = r - 1 /\ NumTiers \in Nat /\ NumTiers >= 2
      /\ Top = NumTiers - 1
  BY <1>2, Numbers, RankNumbers
<1>4. CASE Announced(r).kind = "end"
  <2> DEFINE l == [l0 EXCEPT !.pc = "done"]
  <2>1. loc' = [loc EXCEPT ![r] = l]
    BY <1>4 DEF TakeBatch, Move, Goto
  <2> HIDE DEF l0
  <2>2. /\ l \in Locals /\ l.pc = "done" /\ Same(l, l0) /\ l.tier = l0.tier /\ l.weight = l0.weight
        /\ l.round = l0.round
    BY <1>2, SetPc DEF Points
  <2> HIDE DEF l
  <2>3. l.num = l0.num /\ l.idx = l0.idx
    BY <2>2 DEF Same
  <2>4. Fits(r, l)
    BY <1>2, <2>2, <2>3 DEF Fits, Resting, OwnTurn
  <2>5. Keeps(r, l0, l)
    BY <1>1, <2>2 DEF Keeps, ToSend, ToTake, Resting, SizesLeft, l0
  <2>6. PlaceOf(l) = AfterMsg(Place(r), Announced(r))
    BY <1>4, <2>2, Places, Turns
  <2>r. Records(r, l, Announced(r))
    BY <1>1, <1>4, <2>3 DEF Records, l0
  <2>7. Takes(r, l)
    BY <2>r, <1>1, <1>2, <2>1, <2>2, <2>4, <2>5, <2>6 DEF Takes, Step, l0
  <2>8. Typed'
    BY <1>1, <1>2, <2>1, <2>2, TakeEffect, StepTypes, Types
  <2>9. QED
    BY <2>7, <2>8
<1>5. CASE Announced(r).kind = "batch"
  <2> DEFINE k == Announced(r).num
             order == SizesOrder(r)
             pc == "sizes"
             l == [l0 EXCEPT !.pc = pc, !.sizes = order, !.num = k]
  <2>1. loc' = [loc EXCEPT ![r] = l]
    BY <1>5 DEF TakeBatch, Goto
  <2>2. k \in 0 .. BatchSize /\ k >= 0 /\ pc \in Points
    <3>1. k \in 1 .. BatchSize
      BY <1>3, <1>5, Sorts
    <3>2. QED
      BY <3>1, RankNumbers DEF Points
  <2>3. /\ r = 1 => order = <<"recv">>
        /\ r = NumTiers => order = <<"send">>
        /\ r # 1 /\ r # NumTiers => order \in {<<"send", "recv">>, <<"recv", "send">>}
    BY <1>t DEF SizesOrder
  <2>4. order \in Seq({"send", "recv"})
    <3>1. /\ <<"recv">> \in Seq({"send", "recv"}) /\ <<"send">> \in Seq({"send", "recv"})
          /\ <<"send", "recv">> \in Seq({"send", "recv"}) /\ <<"recv", "send">> \in Seq({"send", "recv"})
      OBVIOUS
    <3> HIDE DEF order
    <3>2. QED
      BY <2>3, <3>1
  <2> HIDE DEF l0, order, k, pc
  <2>5. /\ l \in Locals /\ l.pc = pc /\ l.sizes = order /\ l.num = k /\ l.idx = l0.idx
        /\ l.tier = l0.tier /\ l.weight = l0.weight /\ l.round = l0.round
    BY <1>2, <2>2, <2>4 DEF Locals
  <2> HIDE DEF l
  <2>6. l.pc = "sizes" /\ l.sizes = order
    BY <2>5 DEF pc
  <2>7. Fits(r, l)
    <3>1. order \in (IF r = 1 THEN {<<"recv">>} ELSE IF r = NumTiers THEN {<<"send">>}
                       ELSE {<<"send">>, <<"recv">>, <<"send", "recv">>, <<"recv", "send">>})
      BY <2>3
    <3>2. l.pc \in Resting /\ l.pc \notin OwnTurn
      BY <2>6 DEF Resting, OwnTurn
    <3>3. QED
      BY <1>2, <2>2, <2>5, <2>6, <3>1, <3>2 DEF Fits
  <2>8. Keeps(r, l0, l)
    <3>1. ToSend(r, l0) = 0 /\ ToSend(r, l) = 0 /\ ToTake(r, l0) = 0 /\ ToTake(r, l) = 0
      BY <1>1, <2>6 DEF ToSend, ToTake, Resting, l0
    <3>2. SizesLeft(l0, "recv") /\ SizesLeft(l0, "send")
      BY <1>1 DEF SizesLeft, l0
    <3>3. r # NumTiers => SizesLeft(l, "recv")
      <4>1. r # NumTiers => order \in {<<"recv">>, <<"send", "recv">>, <<"recv", "send">>}
        BY <2>3
      <4>2. QED
        BY <2>6, <4>1, Orders
    <3>4. r # 1 => SizesLeft(l, "send")
      <4>1. r # 1 => order \in {<<"send">>, <<"send", "recv">>, <<"recv", "send">>}
        BY <2>3
      <4>2. QED
        BY <2>6, <4>1, Orders
    <3>5. QED
      BY <3>1, <3>2, <3>3, <3>4 DEF Keeps
  <2>9. PlaceOf(l) = AfterMsg(Place(r), Announced(r))
    BY <1>5, <2>5, <2>6, Places, Turns DEF k
  <2>r. Records(r, l, Announced(r))
    BY <1>1, <1>5, <2>5 DEF Records, l0
  <2>10. Takes(r, l)
    BY <2>r, <1>1, <1>2, <2>1, <2>5, <2>6, <2>7, <2>8, <2>9 DEF Takes, Step, l0
  <2>11. Typed'
    BY <1>1, <1>2, <2>1, <2>5, TakeEffect, StepTypes, Types
  <2>12. QED
    BY <2>10, <2>11
<1>6. QED
  BY <1>3, <1>4, <1>5

\* What is broadcast at the places of a turn.
LEMMA TurnKinds ==
    \A num, idx, tier, endpoint :
        /\ Kinds(Turn("head", num, idx, tier, endpoint)) = {"isolated", "not_isolated"}
        /\ Kinds(Turn("ops", num, idx, tier, endpoint)) = {"cut", "link"}
        /\ Kinds(Turn("link", num, idx, tier, endpoint)) = {"link"}
  BY DEF Kinds, Turn

\* The link follows the cut.
LEMMA AfterCut ==
    ASSUME NEW num, NEW idx, NEW tier, NEW endpoint, NEW pc, NEW msg, msg.kind = "cut"
    PROVE  AfterMsg(Turn(pc, num, idx, tier, endpoint), msg) = Turn("link", num, idx, tier, endpoint)
<1> DEFINE p == Turn(pc, num, idx, tier, endpoint)
<1>1. p.num = num /\ p.idx = idx /\ p.tier = tier /\ p.endpoint = endpoint
  BY PlaceFields
<1> HIDE DEF p
<1>2. AfterMsg(p, msg) = Turn("link", num, idx, tier, endpoint)
  BY <1>1 DEF AfterMsg
<1>3. QED
  BY <1>2 DEF p

\* The turn of another tier.
LEMMA FollowPlaces ==
    ASSUME Typed, LocalInv, InStep, NEW r \in Ranks, NEW l0, l0 = loc[r], l0.pc \in {"head", "ops"},
           TakeBcast(r)
    PROVE  /\ l0 \in Locals /\ Fits(r, l0)
           /\ l0.idx <= l0.num /\ l0.idx # 0 /\ l0.tier # 0 /\ l0.tier # TierNum(r) /\ l0.weight = 0
           /\ Announced(r) \in Announcements
           /\ l0.pc = "head" => /\ Place(r) = Turn("head", l0.num, l0.idx, l0.tier, l0.endpoint)
                                /\ Announced(r).kind \in {"isolated", "not_isolated"}
                                /\ l0.round = 1
           /\ l0.pc = "ops" => /\ Announced(r).kind \in {"cut", "link"} /\ Announced(r) \in Ops
                               /\ \E pc \in {"ops", "link"} :
                                     /\ Place(r) = Turn(pc, l0.num, l0.idx, l0.tier, l0.endpoint)
                                     /\ pc = "link" => Announced(r).kind = "link"
                                     /\ pc = "link" <=> l0.round # 1
<1>1. /\ l0 \in Locals /\ Fits(r, l0) /\ l0.idx <= l0.num /\ l0.idx # 0 /\ l0.tier # 0
      /\ l0.tier # TierNum(r) /\ Place(r) = PlaceOf(l0) /\ l0.weight = 0
      /\ l0.pc = "head" => l0.round = 1
  BY Here DEF Resting
<1>2. Announced(r) \in Announcements /\ Announced(r).kind \in Kinds(Place(r))
  BY TakeFacts, TakeEffect
<1>3. l0.pc = "head" => /\ Place(r) = Turn("head", l0.num, l0.idx, l0.tier, l0.endpoint)
                        /\ Announced(r).kind \in {"isolated", "not_isolated"}
  BY <1>1, <1>2, Places, Turns
<1>4. ASSUME l0.pc = "ops", l0.round = 1
      PROVE  /\ Place(r) = Turn("ops", l0.num, l0.idx, l0.tier, l0.endpoint)
             /\ Announced(r).kind \in {"cut", "link"}
  <2>1. Place(r) = Turn("ops", l0.num, l0.idx, l0.tier, l0.endpoint)
    BY <1>1, <1>4, Places
  <2>2. QED
    BY <1>2, <2>1, TurnKinds
<1>5. ASSUME l0.pc = "ops", l0.round # 1
      PROVE  /\ Place(r) = Turn("link", l0.num, l0.idx, l0.tier, l0.endpoint)
             /\ Announced(r).kind = "link"
  <2>1. Place(r) = Turn("link", l0.num, l0.idx, l0.tier, l0.endpoint)
    BY <1>1, <1>5, Places
  <2>2. QED
    BY <1>2, <2>1, TurnKinds
<1>6. l0.pc = "ops" => /\ Announced(r).kind \in {"cut", "link"} /\ Announced(r) \in Ops
                       /\ \E pc \in {"ops", "link"} :
                             /\ Place(r) = Turn(pc, l0.num, l0.idx, l0.tier, l0.endpoint)
                             /\ pc = "link" => Announced(r).kind = "link"
                             /\ pc = "link" <=> l0.round # 1
  <2>1. SUFFICES ASSUME l0.pc = "ops"
                 PROVE  /\ Announced(r).kind \in {"cut", "link"} /\ Announced(r) \in Ops
                        /\ \E pc \in {"ops", "link"} :
                             /\ Place(r) = Turn(pc, l0.num, l0.idx, l0.tier, l0.endpoint)
                             /\ pc = "link" => Announced(r).kind = "link"
                             /\ pc = "link" <=> l0.round # 1
    OBVIOUS
  <2>2. Announced(r).kind \in {"cut", "link"}
    BY <1>4, <1>5, <2>1
  <2>3. Announced(r) \in Ops
    BY <1>2, <2>2, Sorts
  <2>4. CASE l0.round = 1
    BY <1>4, <2>1, <2>2, <2>3, <2>4
  <2>5. CASE l0.round # 1
    BY <1>5, <2>1, <2>2, <2>3, <2>5
  <2>6. QED
    BY <2>4, <2>5
<1>7. QED
  BY <1>1, <1>2, <1>3, <1>6

\* Following changes neither count but by a turn that ends.
LEMMA FollowKeeps ==
    ASSUME NEW r \in Ranks, NEW l, NEW m, Same(m, l), m.tier = l.tier, m.pc \in {"head", "ops", "answer"},
           l.pc \in {"head", "ops", "answer"}
    PROVE  Keeps(r, l, m)
<1>1. /\ HasPassed(r, l) <=> HasPassed(r, m)
      /\ HasTaken(r, l) <=> HasTaken(r, m)
  BY DEF HasPassed, HasTaken, OwnTurn
<1>2. l.pc \notin Resting /\ m.pc \notin Resting
  BY DEF Resting
<1>3. QED
  BY <1>1, <1>2, TurningKeeps

\* The stations of a turn fit a rank that follows it.
LEMMA FollowFits ==
    ASSUME NEW r \in Ranks, NEW m, m.pc \in {"answer", "ops"}, m.pc = "answer" => r = Input,
           m.idx <= m.num, m.idx # 0, m.tier # 0, m.tier # TierNum(r), m.weight = 0,
           m.pc = "answer" => m.round = 1
    PROVE  Fits(r, m)
  BY DEF Fits, OwnTurn, Resting

\* A rank takes the broadcast that opens the repair of an endpoint, ...
LEMMA FollowHeadTakes ==
    ASSUME Typed, LocalInv, InStep, NEW r \in Ranks, FollowHead(r)
    PROVE  Typed' /\ \E l : Takes(r, l)
<1> DEFINE l0 == loc[r]
<1>1. l0.pc = "head" /\ blocked[r] = {} /\ TakeBcast(r) /\ log' = log
  BY DEF FollowHead, At
<1>2. /\ l0 \in Locals /\ Fits(r, l0)
      /\ l0.idx <= l0.num /\ l0.idx # 0 /\ l0.tier # 0 /\ l0.tier # TierNum(r) /\ l0.weight = 0
      /\ Announced(r) \in Announcements /\ l0.round = 1
      /\ Place(r) = Turn("head", l0.num, l0.idx, l0.tier, l0.endpoint)
      /\ Announced(r).kind \in {"isolated", "not_isolated"}
  BY <1>1, FollowPlaces
<1>3. CASE Announced(r).kind = "not_isolated"
  <2> DEFINE l == AfterEndpoint(r, l0)
  <2>1. loc' = [loc EXCEPT ![r] = l]
    BY <1>3 DEF FollowHead, Goto
  <2> HIDE DEF l0, l
  <2>2. PlaceOf(l) = NextEndpoint(Turn("head", l0.num, l0.idx, l0.tier, l0.endpoint))
    BY <1>2, AfterEndpointPlace DEF l
  <2>3. /\ l \in Locals /\ Fits(r, l) /\ Keeps(r, l0, l) /\ l.idx = l0.idx
        /\ l.pc \in {"declare", "head", "pass", "refresh", "next"}
    BY <1>1, <1>2, AfterEndpointFits DEF l, l0
  <2>4. PlaceOf(l) = AfterMsg(Place(r), Announced(r))
    BY <1>2, <1>3, <2>2, Turns
  <2>r. Records(r, l, Announced(r))
    BY <1>1, <1>3, <2>3 DEF Records, l0
  <2>5. Takes(r, l)
    BY <2>r, <1>1, <1>2, <2>1, <2>3, <2>4 DEF Takes, Step, l0
  <2>6. Typed'
    BY <1>1, <2>1, <2>3, TakeEffect, StepTypes, Types
  <2>7. QED
    BY <2>5, <2>6
<1>4. CASE Announced(r).kind = "isolated"
  <2> DEFINE pc == IF r = Input THEN "answer" ELSE "ops"
             l == [l0 EXCEPT !.pc = pc]
  <2>1. loc' = [loc EXCEPT ![r] = l]
    BY <1>4 DEF FollowHead, Goto, Move
  <2>2. pc \in {"answer", "ops"} /\ pc \in Points /\ (pc = "answer" => r = Input)
    BY DEF Points
  <2> HIDE DEF l0, pc
  <2>3. /\ l \in Locals /\ l.pc = pc /\ Same(l, l0) /\ l.tier = l0.tier /\ l.weight = l0.weight
        /\ l.round = l0.round /\ l.endpoint = l0.endpoint
    BY <1>2, <2>2, SetPc
  <2> HIDE DEF l
  <2>4. l.num = l0.num /\ l.idx = l0.idx
    BY <2>3 DEF Same
  <2>5. Fits(r, l)
    BY <1>2, <2>2, <2>3, <2>4, FollowFits
  <2>6. Keeps(r, l0, l)
    BY <1>1, <2>2, <2>3, FollowKeeps DEF l0
  <2>7. PlaceOf(l) = Turn("ops", l0.num, l0.idx, l0.tier, l0.endpoint)
    BY <1>2, <2>2, <2>3, <2>4, Places
  <2>8. PlaceOf(l) = AfterMsg(Place(r), Announced(r)) /\ Speaker(Place(r)) = l.tier + 1
    BY <1>2, <1>4, <2>3, <2>7, Turns
  <2>r. Records(r, l, Announced(r))
    BY <1>1, <1>4, <2>4 DEF Records, l0
  <2>9. Takes(r, l)
    BY <2>r, <1>1, <1>2, <1>4, <2>1, <2>2, <2>3, <2>5, <2>6, <2>8 DEF Takes, Step, l0
  <2>10. Typed'
    BY <1>1, <2>1, <2>3, TakeEffect, StepTypes, Types
  <2>11. QED
    BY <2>9, <2>10
<1>5. QED
  BY <1>2, <1>3, <1>4

\* ... and those of its operations.
LEMMA FollowOpTakes ==
    ASSUME Typed, LocalInv, InStep, NEW r \in Ranks, FollowOp(r)
    PROVE  Typed' /\ \E l : Takes(r, l)
<1> DEFINE l0 == loc[r]
           op == Announced(r)
<1>1. l0.pc = "ops" /\ blocked[r] = {} /\ TakeBcast(r) /\ Apply(r, op)
  BY DEF FollowOp, At
<1>2. /\ l0 \in Locals /\ Fits(r, l0)
      /\ l0.idx <= l0.num /\ l0.idx # 0 /\ l0.tier # 0 /\ l0.tier # TierNum(r) /\ l0.weight = 0
      /\ op \in Ops /\ op.kind \in {"cut", "link"}
  BY <1>1, FollowPlaces
<1>3. PICK pc \in {"ops", "link"} :
          /\ Place(r) = Turn(pc, l0.num, l0.idx, l0.tier, l0.endpoint)
          /\ pc = "link" => op.kind = "link"
          /\ pc = "link" <=> l0.round # 1
  BY <1>1, FollowPlaces
<1>4. log' \in LogType
  BY <1>1, <1>2, ApplyEffect
<1>5. CASE op.kind = "link"
  <2> DEFINE l == AfterEndpoint(r, l0)
  <2>1. loc' = [loc EXCEPT ![r] = l]
    BY <1>5 DEF FollowOp, FollowsUp, Goto
  <2> HIDE DEF l0, l, op
  <2>2. PlaceOf(l) = NextEndpoint(Turn(pc, l0.num, l0.idx, l0.tier, l0.endpoint))
    BY <1>2, AfterEndpointPlace DEF l
  <2>3. /\ l \in Locals /\ Fits(r, l) /\ Keeps(r, l0, l) /\ l.idx = l0.idx
        /\ l.pc \in {"declare", "head", "pass", "refresh", "next"}
    BY <1>1, <1>2, AfterEndpointFits DEF l, l0
  <2>4. PlaceOf(l) = AfterMsg(Place(r), op)
    BY <1>3, <1>5, <2>2, Turns
  <2>r. Records(r, l, op)
    BY <1>1, <1>2, <1>3, <2>3 DEF Records, l0
  <2>5. Takes(r, l)
    BY <2>r, <1>1, <1>2, <2>1, <2>3, <2>4 DEF Takes, Step, l0, op
  <2>6. Typed'
    BY <1>1, <1>4, <2>1, <2>3, TakeEffect, StepTypes, Types
  <2>7. QED
    BY <2>5, <2>6
<1>6. CASE op.kind = "cut"
  <2> DEFINE l == [l0 EXCEPT !.round = 2]
  <2>0. l0.round = 1 /\ pc = "ops"
    BY <1>3, <1>6
  <2>1. loc' = [loc EXCEPT ![r] = l]
    BY <1>6, <2>0 DEF FollowOp, FollowsUp, Goto
  <2> HIDE DEF l0, op
  <2>2. /\ l \in Locals /\ Same(l, l0) /\ l.pc = l0.pc /\ l.tier = l0.tier /\ l.weight = l0.weight
        /\ l.round = 2 /\ l.endpoint = l0.endpoint
    BY <1>2 DEF Locals, Same
  <2> HIDE DEF l
  <2>3. l.num = l0.num /\ l.idx = l0.idx /\ l.pc = "ops"
    BY <1>1, <2>2 DEF Same, l0
  <2>4. Fits(r, l)
    BY <1>2, <2>2, <2>3, FollowFits
  <2>5. Keeps(r, l0, l)
    BY <2>2, <2>3, FollowKeeps
  <2>6. PlaceOf(l) = Turn("link", l0.num, l0.idx, l0.tier, l0.endpoint)
    BY <2>2, <2>3, Places
  <2>7. PlaceOf(l) = AfterMsg(Place(r), op)
    <3>1. Place(r) = Turn("ops", l0.num, l0.idx, l0.tier, l0.endpoint)
      BY <1>3, <2>0
    <3>2. QED
      BY <1>6, <2>6, <3>1, AfterCut
  <2>r. Records(r, l, op)
    BY <1>1, <1>2, <1>3, <2>3 DEF Records, l0
  <2>8. Takes(r, l)
    BY <2>r, <1>1, <1>2, <2>1, <2>2, <2>3, <2>4, <2>5, <2>7 DEF Takes, Step, l0, op
  <2>9. Typed'
    BY <1>1, <1>4, <2>1, <2>2, TakeEffect, StepTypes, Types
  <2>10. QED
    BY <2>8, <2>9
<1>7. QED
  BY <1>2, <1>5, <1>6

------------------------------------------------------------------------------
\* Steps without a broadcast

\* A step of rank r that takes part in no broadcast and stays where it is among them.
Quiet(r, l) == Step(r, l) /\ bcasts' = bcasts /\ PlaceOf(l) = Place(r)

\* The input node starts a refresh, ...
LEMMA StartRefreshQuiet ==
    ASSUME Typed, LocalInv, StartRefresh
    PROVE  /\ Typed' /\ loc[Input].pc = "start" /\ Send(Input, 1, [kind |-> "refresh"]) /\ 1 \in TierNodes
           /\ [kind |-> "refresh"] \in Messages
           /\ ToSend(Input, loc[Input]) = loc[Input].num - loc[Input].idx + 1
           /\ Place(Input) = Turn("head", loc[Input].num, loc[Input].idx, 1, 1)
           /\ \E l : Quiet(Input, l) /\ l.pc = "head" /\ ToSend(Input, l) = ToSend(Input, loc[Input]) - 1
<1> DEFINE l0 == loc[Input]
           l == EnterTier(Input, l0, 1)
           msg == [kind |-> "refresh"]
<1>1. /\ l0.pc = "start" /\ blocked[Input] = {} /\ log' = log /\ Send(Input, 1, msg)
      /\ loc' = [loc EXCEPT ![Input] = l]
  BY DEF StartRefresh, At, Goto
<1>2. l0 \in Locals /\ Fits(Input, l0) /\ Place(Input) = PlaceOf(l0) /\ Input \in Ranks /\ 1 \in Ranks /\ 1 \in TierNodes
  BY Here, RankNumbers DEF Ranks, TierNodes
<1>3. msg \in Messages
  BY Sorts
<1> HIDE DEF l0, l, msg
<1>4. /\ l \in Locals /\ Fits(Input, l) /\ PlaceOf(l) = PlaceOf(l0)
      /\ ToSend(Input, l) = ToSend(Input, l0) - 1 /\ l.pc = "head"
      /\ ToSend(Input, l0) = l0.num - l0.idx + 1
      /\ PlaceOf(l0) = Turn("head", l0.num, l0.idx, 1, 1)
  BY <1>1, <1>2, StartFits DEF l
<1>5. Typed' /\ bcasts' = bcasts
  BY <1>1, <1>2, <1>3, <1>4, SendEffect, StepTypes, Types
<1>6. Quiet(Input, l)
  BY <1>1, <1>2, <1>4, <1>5 DEF Quiet, Step
<1>7. QED
  BY <1>1, <1>2, <1>3, <1>4, <1>5, <1>6 DEF l0, msg

\* ... a tier passes it on, ...
LEMMA PassRefreshQuiet ==
    ASSUME Typed, LocalInv, NEW r \in TierNodes, PassRefresh(r)
    PROVE  /\ Typed' /\ loc[r].pc = "pass" /\ Send(r, r + 1, [kind |-> "refresh"]) /\ r + 1 \in TierNodes
           /\ [kind |-> "refresh"] \in Messages
           /\ ToSend(r, loc[r]) = loc[r].num - loc[r].idx + 1
           /\ Place(r) = Turn("head", loc[r].num, loc[r].idx, r, 1)
           /\ \E l : /\ Quiet(r, l) /\ l.pc = "head" /\ ToSend(r, l) = ToSend(r, loc[r]) - 1
                     /\ ToTake(r, l) = ToTake(r, loc[r])
<1> DEFINE l0 == loc[r]
           l == AfterTier(r, l0)
           msg == [kind |-> "refresh"]
<1>1. /\ l0.pc = "pass" /\ blocked[r] = {} /\ log' = log /\ Send(r, r + 1, msg)
      /\ loc' = [loc EXCEPT ![r] = l]
  BY DEF PassRefresh, At, Goto
<1>2. l0 \in Locals /\ Fits(r, l0) /\ Place(r) = PlaceOf(l0) /\ r \in Ranks
  BY Here, RankNumbers
<1>3. msg \in Messages
  BY Sorts
<1> HIDE DEF l0, l, msg
<1>4. /\ l \in Locals /\ Fits(r, l) /\ PlaceOf(l) = PlaceOf(l0)
      /\ ToSend(r, l) = ToSend(r, l0) - 1 /\ ToTake(r, l) = ToTake(r, l0) /\ l.pc = "head"
      /\ ToSend(r, l0) = l0.num - l0.idx + 1
      /\ PlaceOf(l0) = Turn("head", l0.num, l0.idx, r, 1) /\ r # Input /\ r # NumTiers
  BY <1>1, <1>2, PassFits DEF l
<1>5. r + 1 \in Ranks /\ r + 1 \in TierNodes
  BY <1>2, <1>4, Numbers, RankNumbers DEF Ranks, TierNodes
<1>6. Typed' /\ bcasts' = bcasts
  BY <1>1, <1>2, <1>3, <1>4, <1>5, SendEffect, StepTypes, Types
<1>7. Quiet(r, l)
  BY <1>1, <1>2, <1>4, <1>6 DEF Quiet, Step
<1>8. QED
  BY <1>1, <1>2, <1>3, <1>4, <1>5, <1>6, <1>7 DEF l0, msg

\* ... and the next tier takes it.
LEMMA TakeRefreshQuiet ==
    ASSUME Typed, LocalInv, NEW r \in TierNodes, TakeRefresh(r)
    PROVE  /\ Typed' /\ loc[r].pc = "refresh" /\ Recv(r, r - 1) /\ r - 1 \in Ranks
           /\ \E l : /\ Quiet(r, l) /\ l.pc \in {"pass", "declare"} /\ ToSend(r, l) = ToSend(r, loc[r])
                     /\ ToTake(r, l) = ToTake(r, loc[r]) - 1
<1> DEFINE l0 == loc[r]
           pc == IF TierNum(r) = 0 THEN "pass" ELSE "declare"
           l == [l0 EXCEPT !.pc = pc]
<1>1. /\ l0.pc = "refresh" /\ blocked[r] = {} /\ log' = log /\ Recv(r, r - 1)
      /\ loc' = [loc EXCEPT ![r] = l]
  BY DEF TakeRefresh, At, Goto, Move
<1>2. /\ l0 \in Locals /\ Fits(r, l0) /\ Place(r) = PlaceOf(l0) /\ r \in Ranks /\ r # Input
      /\ l0.endpoint = 1 /\ l0.tier = TierNum(r) /\ l0.idx <= l0.num /\ l0.idx # 0
      /\ l0.round = 1 /\ l0.weight = 0 /\ TierNum(r) = r - 1 /\ r \in Nat /\ r >= 1
      /\ l0.num \in Nat /\ l0.idx \in Nat /\ Top \in Nat /\ Top >= 1
  BY <1>1, Here, RankNumbers, Numbers, Fields DEF OwnTurn, Resting
<1>3. /\ pc \in {"pass", "declare"} /\ pc \in Points
      /\ pc = "pass" <=> l0.tier = 0
  BY <1>2 DEF Points
<1>4. r - 1 \in Ranks
  BY <1>2, Numbers, RankNumbers DEF Ranks
<1> HIDE DEF l0, pc
<1>5. /\ l \in Locals /\ l.pc = pc /\ Same(l, l0) /\ l.tier = l0.tier /\ l.weight = l0.weight
      /\ l.round = l0.round /\ l.endpoint = l0.endpoint
  BY <1>2, <1>3, SetPc
<1> HIDE DEF l
<1>6. l.num = l0.num /\ l.idx = l0.idx
  BY <1>5 DEF Same
<1>7. Fits(r, l)
  <2>1. l.pc = "pass" => TierNum(r) # Top
    BY <1>2, <1>3, <1>5
  <2>2. l.pc \in {"pass", "declare"}
    BY <1>3, <1>5
  <2>3. l.pc = "declare" => l.tier # 0
    BY <1>3, <1>5
  <2>4. QED
    BY <1>2, <1>5, <1>6, <2>1, <2>2, <2>3 DEF Fits, OwnTurn, Resting
<1>8. PlaceOf(l) = PlaceOf(l0)
  <2>1. CASE l0.tier = 0
    <3>1. l.pc = "pass" /\ l.tier + 1 = 1
      BY <1>3, <1>5, <2>1
    <3>2. PlaceOf(l) = Turn("head", l0.num, l0.idx, 1, 1)
      BY <1>5, <1>6, <3>1, Places
    <3>3. PlaceOf(l0) = Turn("head", l0.num, l0.idx, 1, 1)
      BY <1>1, <1>2, <2>1, Places DEF l0
    <3>4. QED
      BY <3>2, <3>3
  <2>2. CASE l0.tier # 0
    <3>1. l.pc = "declare"
      BY <1>3, <1>5, <2>2
    <3>2. PlaceOf(l) = Turn("head", l0.num, l0.idx, l0.tier, 1)
      BY <1>2, <1>5, <1>6, <3>1, Places
    <3>3. PlaceOf(l0) = Turn("head", l0.num, l0.idx, l0.tier, 1)
      BY <1>1, <1>2, <2>2, Places DEF l0
    <3>4. QED
      BY <3>2, <3>3
  <2>3. QED
    BY <2>1, <2>2
<1>9. /\ ~ HasPassed(r, l0) /\ ~ HasTaken(r, l0) /\ ~ HasPassed(r, l) /\ HasTaken(r, l)
      /\ l0.pc \notin Resting /\ l.pc \notin Resting
  BY <1>1, <1>2, <1>3, <1>5 DEF HasPassed, HasTaken, OwnTurn, Resting, l0
<1>10. ToSend(r, l) = ToSend(r, l0) /\ ToTake(r, l) = ToTake(r, l0) - 1
  BY <1>2, <1>6, <1>9, Turning
<1>11. Typed' /\ bcasts' = bcasts
  BY <1>1, <1>2, <1>4, <1>5, RecvEffect, StepTypes, Types
<1>12. Quiet(r, l)
  BY <1>1, <1>2, <1>5, <1>7, <1>8, <1>11 DEF Quiet, Step
<1>13. QED
  BY <1>1, <1>3, <1>4, <1>5, <1>10, <1>11, <1>12 DEF l0

\* The input node answers the tier whose turn it is.
LEMMA AnswerQuiet ==
    ASSUME Typed, LocalInv, Answer
    PROVE  /\ Typed' /\ loc[Input].pc = "answer" /\ loc[Input].tier + 1 \in TierNodes \ {1}
           /\ \E l : \E weight \in 0 .. Top :
                 /\ Quiet(Input, l) /\ Keeps(Input, loc[Input], l) /\ l.pc = "ops" /\ l.tier = loc[Input].tier
                 /\ [kind |-> "lct", weight |-> weight] \in Messages
                 /\ Send(Input, loc[Input].tier + 1, [kind |-> "lct", weight |-> weight])
<1> DEFINE l0 == loc[Input]
           l == [l0 EXCEPT !.pc = "ops"]
           to == l0.tier + 1
<1>1. /\ l0.pc = "answer" /\ blocked[Input] = {} /\ log' = log /\ loc' = [loc EXCEPT ![Input] = l]
  BY DEF Answer, At, Goto, Move
<1>0. PICK weight \in {0} \cup l0.tier + 1 .. Top : Send(Input, to, [kind |-> "lct", weight |-> weight])
  BY DEF Answer
<1>2. /\ l0 \in Locals /\ Fits(Input, l0) /\ Place(Input) = PlaceOf(l0) /\ Input \in Ranks
      /\ l0.tier # 0 /\ l0.idx <= l0.num /\ l0.idx # 0
      /\ l0.round = 1 /\ l0.weight = 0
      /\ l0.tier \in 0 .. Top
  BY <1>1, Here, RankNumbers, Fields DEF OwnTurn, Resting
<1>3. weight \in 0 .. Top /\ to \in TierNodes \ {1} /\ to \in Ranks /\ l0.tier # TierNum(Input)
  BY <1>2, RankNumbers DEF TierNodes, Ranks, TierNum
<1> DEFINE msg == [kind |-> "lct", weight |-> weight]
<1>4. msg \in Messages
  BY <1>3, Sorts
<1> HIDE DEF l0, to, msg
<1>5. /\ l \in Locals /\ l.pc = "ops" /\ Same(l, l0) /\ l.tier = l0.tier /\ l.weight = l0.weight
      /\ l.round = l0.round /\ l.endpoint = l0.endpoint
  BY <1>2, SetPc DEF Points
<1> HIDE DEF l
<1>6. l.num = l0.num /\ l.idx = l0.idx
  BY <1>5 DEF Same
<1>7. Fits(Input, l)
  BY <1>2, <1>3, <1>5, <1>6, FollowFits
<1>8. Keeps(Input, l0, l)
  BY <1>1, <1>2, <1>5, FollowKeeps DEF l0
<1>9. PlaceOf(l) = PlaceOf(l0)
  <2>1. PlaceOf(l0) = Turn("ops", l0.num, l0.idx, l0.tier, l0.endpoint)
    BY <1>1, <1>2, Places DEF l0
  <2>2. PlaceOf(l) = Turn("ops", l0.num, l0.idx, l0.tier, l0.endpoint)
    BY <1>2, <1>5, <1>6, Places
  <2>3. QED
    BY <2>1, <2>2
<1>10. Send(Input, to, msg)
  BY <1>0 DEF msg
<1>11. Typed' /\ bcasts' = bcasts
  BY <1>1, <1>2, <1>3, <1>4, <1>5, <1>10, SendEffect, StepTypes, Types
<1>12. Quiet(Input, l)
  BY <1>1, <1>2, <1>5, <1>7, <1>9, <1>11 DEF Quiet, Step
<1>13. QED
  BY <1>1, <1>3, <1>4, <1>5, <1>8, <1>10, <1>11, <1>12 DEF l0, msg, to

\* A tier takes the answer of the link-cut tree.
LEMMA TakeResponseQuiet ==
    ASSUME Typed, LocalInv, AnswerInv, NEW r \in TierNodes, TakeResponse(r)
    PROVE  /\ Typed' /\ loc[r].pc = "query" /\ r # 1 /\ Recv(r, Input)
           /\ \E l : Quiet(r, l) /\ Keeps(r, loc[r], l) /\ l.pc \in {"link", "cut"}
<1> DEFINE l0 == loc[r]
           w == Head(net[Input][r]).msg.weight
           pc == IF w = 0 THEN "link" ELSE "cut"
           l == [l0 EXCEPT !.weight = w, !.pc = pc]
<1>1. /\ l0.pc = "query" /\ blocked[r] = {} /\ log' = log /\ loc' = [loc EXCEPT ![r] = l]
      /\ Recv(r, Input)
  BY DEF TakeResponse, At, Goto
<1>2. /\ l0 \in Locals /\ Fits(r, l0) /\ Place(r) = PlaceOf(l0) /\ r \in Ranks /\ Input \in Ranks
      /\ l0.tier # 0 /\ l0.idx <= l0.num /\ l0.idx # 0 /\ l0.tier = TierNum(r)
      /\ l0.round = 1 /\ l0.weight = 0
  BY <1>1, Here, RankNumbers DEF OwnTurn, Resting
<1>3. r # 1
  BY <1>2, Numbers
<1>4. /\ net[Input][r] # <<>> /\ Head(net[Input][r]) \in Letters
  BY <1>1, <1>2, RecvEffect
<1>5. Head(net[Input][r]).msg.kind = "lct"
  BY <1>3, <1>4 DEF AnswerInv
<1>6. w \in 0 .. Top
  BY <1>4, <1>5, Sorts DEF Letters
<1>7. pc \in {"link", "cut"} /\ pc \in Points /\ (pc = "link" <=> w = 0)
  BY DEF Points
<1> HIDE DEF l0, pc, w
<1>8. /\ l \in Locals /\ Same(l, l0) /\ l.pc = pc /\ l.weight = w /\ l.tier = l0.tier /\ l.round = l0.round
      /\ l.endpoint = l0.endpoint
  BY <1>2, <1>6, <1>7 DEF Locals, Same
<1> HIDE DEF l
<1>9. l.num = l0.num /\ l.idx = l0.idx
  BY <1>8 DEF Same
<1>10. Fits(r, l)
  BY <1>2, <1>7, <1>8, <1>9, OwnFits
<1>11. Keeps(r, l0, l)
  BY <1>1, <1>7, <1>8, OwnKeeps DEF OwnTurn, l0
<1>12. PlaceOf(l) = PlaceOf(l0)
  <2>1. PlaceOf(l0) = Turn("ops", l0.num, l0.idx, l0.tier, l0.endpoint)
    BY <1>1, <1>2, Places DEF l0
  <2>2. PlaceOf(l) = Turn("ops", l0.num, l0.idx, l0.tier, l0.endpoint)
    BY <1>7, <1>8, <1>9, Places
  <2>3. QED
    BY <2>1, <2>2
<1>13. Typed' /\ bcasts' = bcasts
  BY <1>1, <1>2, <1>8, RecvEffect, StepTypes, Types
<1>14. Quiet(r, l)
  BY <1>1, <1>2, <1>8, <1>10, <1>12, <1>13 DEF Quiet, Step
<1>15. QED
  BY <1>1, <1>3, <1>7, <1>8, <1>11, <1>13, <1>14 DEF l0

\* A rank goes on to the next update, or waits for the next batch.
LEMMA NextUpdateQuiet ==
    ASSUME Typed, LocalInv, NEW r \in Ranks, NextUpdate(r)
    PROVE  /\ Typed' /\ loc[r].pc = "next" /\ net' = net /\ blocked' = blocked
           /\ \E l : /\ Quiet(r, l) /\ Keeps(r, loc[r], l)
                     /\ l.pc \in {"fill", "batch", "start", "refresh", "head"}
<1> DEFINE l0 == loc[r]
           next == l0.idx + 1
           l == IF LastUpdate(l0) THEN Idle(r) ELSE BeginUpdate(r, l0, next)
<1>1. /\ l0.pc = "next" /\ blocked[r] = {} /\ log' = [log EXCEPT ![r] = <<>>]
      /\ loc' = [loc EXCEPT ![r] = l] /\ net' = net /\ blocked' = blocked /\ bcasts' = bcasts
  BY DEF NextUpdate, At, Goto
<1>2. /\ l0 \in Locals /\ Fits(r, l0) /\ Place(r) = PlaceOf(l0)
      /\ l0.idx <= l0.num /\ l0.idx # 0 /\ l0.round = 1 /\ l0.weight = 0
      /\ l0.num \in Nat /\ l0.idx \in Nat
  BY <1>1, Here, RankNumbers, Fields DEF OwnTurn, Resting
<1>3. HasPassed(r, l0) /\ HasTaken(r, l0) /\ l0.pc \notin Resting
  BY <1>1 DEF HasPassed, HasTaken, OwnTurn, Resting
<1>4. /\ ToSend(r, l0) = l0.num - l0.idx /\ ToTake(r, l0) = l0.num - l0.idx
      /\ SizesLeft(l0, "send") /\ SizesLeft(l0, "recv")
  BY <1>2, <1>3, Turning
<1>5. /\ l \in Locals /\ Fits(r, l) /\ PlaceOf(l) = PlaceOf(l0) /\ Keeps(r, l0, l)
      /\ l.pc \in {"fill", "batch", "start", "refresh", "head"}
  <2>1. CASE LastUpdate(l0)
    <3>1. l0.idx = l0.num /\ l = Idle(r)
      BY <2>1 DEF LastUpdate
    <3> HIDE DEF l, l0
    <3>2. /\ l \in Locals /\ Fits(r, l) /\ PlaceOf(l) = Rest("batch", 0)
          /\ l.pc \in {"fill", "batch"} /\ ToSend(r, l) = 0 /\ ToTake(r, l) = 0
          /\ SizesLeft(l, "send") /\ SizesLeft(l, "recv")
      BY <3>1, IdleFits
    <3>3. PlaceOf(l0) = Rest("batch", 0)
      <4>1. ~ l0.idx < l0.num /\ l0.idx >= l0.num
        BY <1>2, <3>1
      <4>2. QED
        BY <1>1, <1>2, <4>1, Places DEF l0
    <3>4. Keeps(r, l0, l)
      BY <1>2, <1>4, <3>1, <3>2 DEF Keeps
    <3>5. QED
      BY <3>2, <3>3, <3>4
  <2>2. CASE ~ LastUpdate(l0)
    <3>1. l0.idx < l0.num /\ l = BeginUpdate(r, l0, next) /\ next \in 1 .. l0.num
      BY <1>2, <2>2 DEF LastUpdate
    <3>0. next = l0.idx + 1
      OBVIOUS
    <3> HIDE DEF l, l0, next
    <3>2. /\ l \in Locals /\ Fits(r, l) /\ PlaceOf(l) = Turn("head", l0.num, next, 1, 1)
          /\ l.pc \in {"start", "refresh", "head"}
          /\ ToSend(r, l) = l0.num - next + 1 /\ (r # Input => ToTake(r, l) = l0.num - next + 1)
          /\ SizesLeft(l, "send") /\ SizesLeft(l, "recv")
      BY <1>2, <3>1, BeginUpdateFits
    <3>3. PlaceOf(l0) = Turn("head", l0.num, next, 1, 1)
      BY <1>1, <1>2, <3>0, <3>1, Places DEF l0
    <3>4. l0.num - next + 1 = l0.num - l0.idx
      BY <1>2, <3>0
    <3>5. Keeps(r, l0, l)
      BY <1>4, <3>2, <3>4 DEF Keeps
    <3>6. QED
      BY <3>2, <3>3, <3>5
  <2>3. QED
    BY <2>1, <2>2
<1> HIDE DEF l, l0
<1>6. log' \in LogType
  <2>1. log \in [Ranks -> Seq(Entries)] /\ <<>> \in Seq(Entries)
    BY Types DEF LogType
  <2>2. QED
    BY <1>1, <2>1 DEF LogType
<1>7. Typed'
  BY <1>1, <1>2, <1>5, <1>6, StepTypes, Types
<1>8. Quiet(r, l)
  BY <1>1, <1>2, <1>5 DEF Quiet, Step
<1>9. QED
  BY <1>1, <1>5, <1>7, <1>8 DEF l0

------------------------------------------------------------------------------
\* The exchange of sizes and the all-reduce

\* The orders of the exchange, message by message.
LEMMA Lists ==
    /\ Head(<<"send">>) = "send" /\ Tail(<<"send">>) = <<>>
    /\ Head(<<"recv">>) = "recv" /\ Tail(<<"recv">>) = <<>>
    /\ Head(<<"send", "recv">>) = "send" /\ Tail(<<"send", "recv">>) = <<"recv">>
    /\ Head(<<"recv", "send">>) = "recv" /\ Tail(<<"recv", "send">>) = <<"send">>
    /\ <<"recv">> # <<>> /\ <<"send">> # <<>>
<1>1. \A a : Head(<<a>>) = a /\ Tail(<<a>>) = <<>> /\ <<a>> # <<>>
  OBVIOUS
<1>2. \A a, b : Head(<<a, b>>) = a /\ Tail(<<a, b>>) = <<b>>
  OBVIOUS
<1>3. QED
  BY <1>1, <1>2

\* What a tier has still to exchange.
LEMMA FitsSizes ==
    ASSUME NEW r, NEW l, Fits(r, l), l.pc = "sizes"
    PROVE  l.sizes \in (IF r = 1 THEN {<<"recv">>} ELSE IF r = NumTiers THEN {<<"send">>}
                        ELSE {<<"send">>, <<"recv">>, <<"send", "recv">>, <<"recv", "send">>})
<1> DEFINE Lists1 == IF r = 1 THEN {<<"recv">>} ELSE IF r = NumTiers THEN {<<"send">>}
                     ELSE {<<"send">>, <<"recv">>, <<"send", "recv">>, <<"recv", "send">>}
<1>1. l.pc = "sizes" => l.sizes \in Lists1
  BY Zenon DEF Fits
<1> HIDE DEF Lists1
<1>2. l.sizes \in Lists1
  BY <1>1
<1>3. QED
  BY <1>2 DEF Lists1

\* What is left to exchange after the head of the list.
LEMMA ExchangeLeft ==
    ASSUME NEW l, NEW m, l.pc = "sizes",
           l.sizes \in {<<"send">>, <<"recv">>, <<"send", "recv">>, <<"recv", "send">>},
           m.sizes = Tail(l.sizes), m.pc = IF Tail(l.sizes) = <<>> THEN "reduce" ELSE "sizes"
    PROVE  /\ m.pc = "sizes" => m.sizes \in {<<"send">>, <<"recv">>}
           /\ m.pc \in {"sizes", "reduce"}
           /\ Head(l.sizes) \in {"send", "recv"}
           /\ Head(l.sizes) = "send" => /\ SizesLeft(l, "send") /\ ~ SizesLeft(m, "send")
                                        /\ SizesLeft(m, "recv") <=> SizesLeft(l, "recv")
           /\ Head(l.sizes) = "recv" => /\ SizesLeft(l, "recv") /\ ~ SizesLeft(m, "recv")
                                        /\ SizesLeft(m, "send") <=> SizesLeft(l, "send")
<1>0. \A k : k.pc = "reduce" => ~ SizesLeft(k, "send") /\ ~ SizesLeft(k, "recv")
  BY DEF SizesLeft
<1>1. CASE l.sizes = <<"send">>
  <2>1. m.pc = "reduce" /\ Head(l.sizes) = "send"
    BY <1>1, Lists
  <2>2. SizesLeft(l, "send") /\ ~ SizesLeft(l, "recv")
    BY <1>1, Orders
  <2>3. QED
    BY <1>0, <2>1, <2>2
<1>2. CASE l.sizes = <<"recv">>
  <2>1. m.pc = "reduce" /\ Head(l.sizes) = "recv"
    BY <1>2, Lists
  <2>2. SizesLeft(l, "recv") /\ ~ SizesLeft(l, "send")
    BY <1>2, Orders
  <2>3. QED
    BY <1>0, <2>1, <2>2
<1>3. CASE l.sizes = <<"send", "recv">>
  <2>1. m.pc = "sizes" /\ m.sizes = <<"recv">> /\ Head(l.sizes) = "send"
    BY <1>3, Lists
  <2>2. /\ SizesLeft(l, "recv") /\ SizesLeft(l, "send") /\ SizesLeft(m, "recv") /\ ~ SizesLeft(m, "send")
    BY <1>3, <2>1, Orders
  <2>3. QED
    BY <2>1, <2>2
<1>4. CASE l.sizes = <<"recv", "send">>
  <2>1. m.pc = "sizes" /\ m.sizes = <<"send">> /\ Head(l.sizes) = "recv"
    BY <1>4, Lists
  <2>2. /\ SizesLeft(l, "recv") /\ SizesLeft(l, "send") /\ SizesLeft(m, "send") /\ ~ SizesLeft(m, "recv")
    BY <1>4, <2>1, Orders
  <2>3. QED
    BY <2>1, <2>2
<1>5. QED
  BY <1>1, <1>2, <1>3, <1>4

\* The exchange of the sizes, with the tier below or the one above.
SendsSizes(r, l) ==
    /\ Send(r, r - 1, [kind |-> "sizes"]) /\ [kind |-> "sizes"] \in Messages /\ r - 1 \in TierNodes
    /\ SizesLeft(loc[r], "send") /\ ~ SizesLeft(l, "send")
    /\ SizesLeft(l, "recv") <=> SizesLeft(loc[r], "recv")
TakesSizes(r, l) ==
    /\ Recv(r, r + 1) /\ r + 1 \in TierNodes
    /\ SizesLeft(loc[r], "recv") /\ ~ SizesLeft(l, "recv")
    /\ SizesLeft(l, "send") <=> SizesLeft(loc[r], "send")

\* The exchange of sizes sends one message or takes one.
LEMMA ExchangeQuiet ==
    ASSUME Typed, LocalInv, NEW r \in TierNodes, ExchangeSizes(r)
    PROVE  /\ Typed' /\ loc[r].pc = "sizes"
           /\ \E l : /\ Quiet(r, l) /\ l.pc \in {"sizes", "reduce"}
                     /\ ToSend(r, l) = ToSend(r, loc[r]) /\ ToTake(r, l) = ToTake(r, loc[r])
                     /\ SendsSizes(r, l) \/ TakesSizes(r, l)
<1> DEFINE l0 == loc[r]
           rest == Tail(l0.sizes)
           pc == IF rest = <<>> THEN "reduce" ELSE "sizes"
           l == [l0 EXCEPT !.sizes = rest, !.pc = pc]
           msg == [kind |-> "sizes"]
<1>1. /\ l0.pc = "sizes" /\ blocked[r] = {} /\ log' = log /\ loc' = [loc EXCEPT ![r] = l]
      /\ \/ Head(l0.sizes) = "send" /\ Send(r, r - 1, msg)
         \/ Head(l0.sizes) = "recv" /\ Recv(r, r + 1)
  BY DEF ExchangeSizes, At, Goto
<1>2. /\ l0 \in Locals /\ Fits(r, l0) /\ Place(r) = PlaceOf(l0) /\ r \in Ranks /\ r # Input
      /\ l0.idx <= l0.num /\ l0.idx = 0 /\ l0.round = 1 /\ l0.weight = 0
      /\ r \in Nat /\ r <= NumTiers /\ r >= 1 /\ NumTiers \in Nat /\ NumTiers >= 2
  BY <1>1, Here, Numbers, RankNumbers DEF Resting
<1>3. l0.sizes \in (IF r = 1 THEN {<<"recv">>} ELSE IF r = NumTiers THEN {<<"send">>}
                    ELSE {<<"send">>, <<"recv">>, <<"send", "recv">>, <<"recv", "send">>})
  <2>1. Fits(r, l0) /\ l0.pc = "sizes"
    BY <1>1, <1>2
  <2> HIDE DEF l0, rest, pc, l, msg
  <2>2. QED
    BY <2>1, FitsSizes
<1>4. l0.sizes \in {<<"send">>, <<"recv">>, <<"send", "recv">>, <<"recv", "send">>} /\ l0.sizes # <<>>
  <2> HIDE DEF l0
  <2>1. l0.sizes \in {<<"send">>, <<"recv">>, <<"send", "recv">>, <<"recv", "send">>}
    BY <1>3, Zenon
  <2>2. QED
    BY <2>1
<1>5. rest \in Seq({"send", "recv"})
  <2>1. l0.sizes \in Seq({"send", "recv"})
    BY <1>2, Fields
  <2>2. QED
    BY <1>4, <2>1
<1>6. pc \in Points
  BY DEF Points
<1>7. pc = IF rest = <<>> THEN "reduce" ELSE "sizes"
  OBVIOUS
<1>r. rest = Tail(l0.sizes)
  OBVIOUS
<1>m. msg \in Messages /\ msg = [kind |-> "sizes"]
  BY Sorts
<1> HIDE DEF l0, rest, pc, msg
<1>8. /\ l \in Locals /\ l.sizes = rest /\ l.pc = pc /\ l.num = l0.num /\ l.idx = l0.idx
      /\ l.weight = l0.weight /\ l.round = l0.round /\ l.tier = l0.tier
  BY <1>2, <1>5, <1>6 DEF Locals
<1> HIDE DEF l
<1>9. /\ l.pc = "sizes" => l.sizes \in {<<"send">>, <<"recv">>}
      /\ l.pc \in {"sizes", "reduce"}
      /\ Head(l0.sizes) = "send" => /\ SizesLeft(l0, "send") /\ ~ SizesLeft(l, "send")
                                    /\ SizesLeft(l, "recv") <=> SizesLeft(l0, "recv")
      /\ Head(l0.sizes) = "recv" => /\ SizesLeft(l0, "recv") /\ ~ SizesLeft(l, "recv")
                                    /\ SizesLeft(l, "send") <=> SizesLeft(l0, "send")
  <2>1. l0.pc = "sizes" /\ l.sizes = Tail(l0.sizes)
        /\ l.pc = IF Tail(l0.sizes) = <<>> THEN "reduce" ELSE "sizes"
    BY <1>1, <1>7, <1>8, <1>r DEF l0
  <2>2. QED
    BY <1>4, <2>1, ExchangeLeft
<1>10. (r = 1 => l.pc = "reduce" /\ Head(l0.sizes) = "recv")
       /\ (r = NumTiers => l.pc = "reduce" /\ Head(l0.sizes) = "send")
  <2>1. r = 1 => l0.sizes = <<"recv">>
    BY <1>3
  <2>2. r = NumTiers => l0.sizes = <<"send">>
    BY <1>2, <1>3
  <2>3. QED
    BY <1>7, <1>8, <1>r, <2>1, <2>2, Lists
<1>11. Fits(r, l)
  <2>1. l.pc = "sizes" => l.sizes \in (IF r = 1 THEN {<<"recv">>} ELSE IF r = NumTiers THEN {<<"send">>}
                                       ELSE {<<"send">>, <<"recv">>, <<"send", "recv">>, <<"recv", "send">>})
    BY <1>9, <1>10
  <2>2. l.pc \in Resting /\ l.pc \notin OwnTurn
    BY <1>9 DEF Resting, OwnTurn
  <2>3. QED
    BY <1>2, <1>8, <1>9, <2>1, <2>2 DEF Fits
<1>12. PlaceOf(l) = PlaceOf(l0)
  <2>1. PlaceOf(l0) = Rest("reduce", l0.num)
    BY <1>1, <1>2, Places DEF l0
  <2>2. PlaceOf(l) = Rest("reduce", l0.num)
    BY <1>8, <1>9, Places
  <2>3. QED
    BY <2>1, <2>2
<1>13. ToSend(r, l) = ToSend(r, l0) /\ ToTake(r, l) = ToTake(r, l0)
  BY <1>1, <1>9 DEF ToSend, ToTake, Resting, l0
<1>14. CASE Head(l0.sizes) = "send" /\ Send(r, r - 1, msg)
  <2>1. r - 1 \in Ranks /\ r - 1 \in TierNodes
    BY <1>2, <1>10, <1>14 DEF Ranks, TierNodes
  <2>2. Typed' /\ bcasts' = bcasts
    BY <1>1, <1>2, <1>8, <1>14, <1>m, <2>1, SendEffect, StepTypes, Types
  <2>3. Quiet(r, l)
    BY <1>1, <1>2, <1>8, <1>11, <1>12, <2>2 DEF Quiet, Step
  <2>4. SendsSizes(r, l)
    BY <1>9, <1>14, <1>m, <2>1 DEF SendsSizes, l0
  <2>5. QED
    BY <1>1, <1>9, <1>13, <2>2, <2>3, <2>4 DEF l0
<1>15. CASE Head(l0.sizes) = "recv" /\ Recv(r, r + 1)
  <2>1. r + 1 \in Ranks /\ r + 1 \in TierNodes
    BY <1>2, <1>10, <1>15 DEF Ranks, TierNodes
  <2>2. Typed' /\ bcasts' = bcasts
    BY <1>1, <1>2, <1>8, <1>15, <2>1, RecvEffect, StepTypes, Types
  <2>3. Quiet(r, l)
    BY <1>1, <1>2, <1>8, <1>11, <1>12, <2>2 DEF Quiet, Step
  <2>4. TakesSizes(r, l)
    BY <1>9, <1>15, <2>1 DEF TakesSizes, l0
  <2>5. QED
    BY <1>1, <1>9, <1>13, <2>2, <2>3, <2>4 DEF l0
<1>16. QED
  BY <1>1, <1>14, <1>15

\* When all ranks reduce they are at one place, and they leave it together.
LEMMA AllReduceTogether ==
    ASSUME Typed, LocalInv, InStep, AllReduce
    PROVE  /\ Typed' /\ InStep' /\ LocalInv' /\ UNCHANGED <<net, bcasts, blocked>>
           /\ \A r \in Ranks : loc[r].pc = "reduce" /\ bcasts[r] = <<>>
           /\ \E k \in Nat :
                 \A r \in Ranks : /\ ToSend(r, loc'[r]) = k /\ (r # Input => ToTake(r, loc'[r]) = k)
                                  /\ SizesLeft(loc'[r], "send") /\ SizesLeft(loc'[r], "recv")
                                  /\ loc'[r].pc \in {"fill", "batch", "start", "refresh", "head"}
<1>1. /\ \A r \in Ranks : loc[r].pc = "reduce" /\ blocked[r] = {}
      /\ net' = net /\ bcasts' = bcasts /\ blocked' = blocked /\ log' = log
  BY DEF AllReduce, At
<1>2. PICK first \in {None} \cup 1 .. loc[Input].num :
          loc' = [r \in Ranks |-> IF first = None THEN Idle(r) ELSE BeginUpdate(r, loc[r], first)]
  BY DEF AllReduce
<1>3. \A r \in Ranks : Place(r) = Rest("reduce", loc[r].num) /\ bcasts[r] = <<>>
  <2>1. TAKE r \in Ranks
  <2>2. Place(r) = Rest("reduce", loc[r].num)
    BY <1>1, Here, Places
  <2>3. Kinds(Place(r)) = {}
    BY <2>2, Turns
  <2>4. QED
    BY <2>2, <2>3, TakeFacts
<1>4. \A r \in Ranks : loc[r].num = loc[Input].num
  <2>1. TAKE r \in Ranks
  <2>2. End(Input) = Place(r) /\ End(Input) = Place(Input) /\ Input \in Ranks
    BY <1>3, AtTheEnd, RankNumbers
  <2>3. Rest("reduce", loc[r].num).num = Rest("reduce", loc[Input].num).num
    BY <1>3, <2>2
  <2>4. QED
    BY <2>3, PlaceFields
<1>5. \A r \in Ranks : /\ loc[r] \in Locals /\ loc[r].weight = 0 /\ loc[r].round = 1
                       /\ loc[r].num \in Nat
  <2>1. TAKE r \in Ranks
  <2>2. QED
    BY <1>1, Here, Fields
<1>b. bcasts \in BcastsType /\ net \in NetType /\ blocked \in BlockedType /\ log \in LogType
  BY Types
<1>6. CASE first = None
  <2>1. \A r \in Ranks : loc'[r] = Idle(r)
    BY <1>2, <1>6
  <2>2. \A r \in Ranks : /\ loc'[r] \in Locals /\ Fits(r, loc'[r]) /\ PlaceOf(loc'[r]) = Rest("batch", 0)
                         /\ loc'[r].pc \in {"fill", "batch"}
                         /\ ToSend(r, loc'[r]) = 0 /\ ToTake(r, loc'[r]) = 0
                         /\ SizesLeft(loc'[r], "send") /\ SizesLeft(loc'[r], "recv")
    BY <2>1, IdleFits
  <2>3. loc' \in [Ranks -> Locals]
    BY <1>2, <2>2
  <2>4. Typed' /\ LocalInv'
    BY <1>1, <1>b, <2>2, <2>3, Types DEF LocalInv
  <2>5. InStep'
    <3>1. \A r \in Ranks : bcasts'[r] = <<>> /\ Place(r)' = Rest("batch", 0)
      BY <1>1, <1>3, <2>2 DEF Place
    <3>2. QED
      BY <3>1, GatherInStep
  <2>6. QED
    BY <1>1, <1>3, <2>2, <2>4, <2>5
<1>7. CASE first # None
  <2>0. first \in 1 .. loc[Input].num
    BY <1>7
  <2>1. \A r \in Ranks : loc'[r] = BeginUpdate(r, loc[r], first)
    BY <1>2, <1>7
  <2> DEFINE num == loc[Input].num
             k == num - first + 1
  <2>2. k \in Nat
    BY <1>5, <2>0, RankNumbers
  <2>3. \A r \in Ranks : /\ loc'[r] \in Locals /\ Fits(r, loc'[r])
                         /\ PlaceOf(loc'[r]) = Turn("head", num, first, 1, 1)
                         /\ loc'[r].pc \in {"start", "refresh", "head"}
                         /\ ToSend(r, loc'[r]) = k /\ (r # Input => ToTake(r, loc'[r]) = k)
                         /\ SizesLeft(loc'[r], "send") /\ SizesLeft(loc'[r], "recv")
    <3>1. TAKE r \in Ranks
    <3>2. first \in 1 .. loc[r].num /\ loc[r].num = num
      BY <1>4, <2>0
    <3>3. QED
      BY <1>5, <2>1, <3>2, BeginUpdateFits
  <2> HIDE DEF num, k
  <2>4. loc' \in [Ranks -> Locals]
    BY <1>2, <2>3
  <2>5. Typed' /\ LocalInv'
    BY <1>1, <1>b, <2>3, <2>4, Types DEF LocalInv
  <2>6. InStep'
    <3>1. \A r \in Ranks : bcasts'[r] = <<>> /\ Place(r)' = Turn("head", num, first, 1, 1)
      BY <1>1, <1>3, <2>3 DEF Place
    <3>2. QED
      BY <3>1, GatherInStep
  <2>7. QED
    BY <1>1, <1>3, <2>2, <2>3, <2>5, <2>6
<1>8. QED
  BY <1>6, <1>7

==============================================================================
