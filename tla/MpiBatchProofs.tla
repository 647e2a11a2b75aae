--------------------------- MODULE MpiBatchProofs ----------------------------
(***************************************************************************)
(* The ranks of the MPI engine hold what the sequential engine may hold.   *)
(***************************************************************************)
EXTENDS MpiBatch, ForestProofs

------------------------------------------------------------------------------
\* What the ranks hold when they agree

\* The edges that link-cut weights w link, and those among them of weight i at most.
Linked(w)  == {e \in Edges : w[e] # 0}
UpTo(w, i) == {e \in Edges : w[e] # 0 /\ w[e] <= i}
Weights    == [Edges -> Tiers]

\* All that the ranks hold follows from the graph and the link-cut tree.
State(g, w) == [graph |-> g, ett |-> [i \in Tiers |-> UpTo(w, i)], toggled |-> [i \in Tiers |-> g],
                lct |-> w, query_ett |-> Linked(w)]
Sound(g, w) == /\ g \in SUBSET Edges /\ w \in Weights
               /\ Linked(w) \subseteq g /\ Acyclic(Linked(w))
Agreed(h) == Sound(h.graph, h.lct) /\ h = State(h.graph, h.lct)

\* A valid stream inserts absent edges and deletes present ones.
Fitting(g, u) == u \in Updates /\ (u.type = "DELETE" <=> EdgeOf(u) \in g)

LEMMA TierNumbers ==
    /\ Top \in Nat /\ Top >= 1 /\ NumTiers = Top + 1 /\ 0 \in Tiers /\ Top \in Tiers
    /\ \A i \in Tiers : i \in Nat /\ i <= Top
    /\ \A i \in 0 .. Top - 1 : i \in Tiers /\ i + 1 \in Tiers /\ i \in Nat
    /\ \A i \in 1 .. Top : i \in Tiers /\ i - 1 \in Tiers /\ i \in Nat /\ i # 0
  BY MpiBatchAssumption DEF Tiers, Top

\* The ends of an edge.
LEMMA EdgeEnds ==
    /\ \A a, b \in Nodes : a # b => {a, b} \in Edges
    /\ \A a, b \in Nodes : {a, b} \in Edges => a # b
    /\ \A u \in Updates : /\ u.src \in Nodes /\ u.dst \in Nodes /\ u.src # u.dst
                          /\ EdgeOf(u) \in Edges /\ EdgeOf(u) = {u.src, u.dst}
    /\ {} \notin Edges
  BY DEF Edges, Updates, EdgeOf

\* The forests of the tiers are nested forests of the link-cut tree.
LEMMA Nested ==
    ASSUME NEW w \in Weights
    PROVE  /\ Linked(w) \in SUBSET Edges
           /\ \A i : UpTo(w, i) \in SUBSET Linked(w)
           /\ \A i \in Tiers : \A j \in Tiers : i <= j => UpTo(w, i) \subseteq UpTo(w, j)
           /\ UpTo(w, Top) = Linked(w)
           /\ \A e \in Edges : w[e] \in Nat /\ w[e] <= Top
<1>1. \A e \in Edges : w[e] \in Nat /\ w[e] <= Top
  BY TierNumbers DEF Weights
<1>2. QED
  BY <1>1, TierNumbers DEF Linked, UpTo

\* What the fields of such a state are.
LEMMA Fields ==
    ASSUME NEW g, NEW w
    PROVE  /\ State(g, w).graph = g /\ State(g, w).lct = w /\ State(g, w).query_ett = Linked(w)
           /\ \A i \in Tiers : State(g, w).ett[i] = UpTo(w, i) /\ State(g, w).toggled[i] = g
           /\ {f \in Edges : State(g, w).lct[f] # 0} = Linked(w)
  BY DEF State, Linked

\* An edge that is linked twice or not at all is not cut: how the weights change.
Without(w, e) == [w EXCEPT ![e] = 0]
LEMMA WithoutEdge ==
    ASSUME NEW w \in Weights, NEW e \in Edges
    PROVE  /\ Without(w, e) \in Weights
           /\ Linked(Without(w, e)) = Linked(w) \ {e}
           /\ \A i : UpTo(Without(w, e), i) = UpTo(w, i) \ {e}
           /\ e \notin Linked(w) => Without(w, e) = w
<1>1. Without(w, e) \in [Edges -> Tiers] /\ \A f \in Edges : Without(w, e)[f] = IF f = e THEN 0 ELSE w[f]
  BY TierNumbers DEF Without, Weights
<1>2. e \notin Linked(w) => w[e] = 0
  BY DEF Linked
<1>3. e \notin Linked(w) => Without(w, e) = w
  BY <1>2 DEF Without, Weights
<1>4. QED
  BY <1>1, <1>3 DEF Linked, UpTo, Weights

\* The weights after an update.
AfterUpdate(w, u) == IF u.type = "DELETE" THEN Without(w, EdgeOf(u)) ELSE w

\* Applying an update keeps the ranks in agreement.
LEMMA AppliedState ==
    ASSUME NEW g, NEW w, Sound(g, w), NEW u, Fitting(g, u)
    PROVE  LET x == Engine!Toggle(g, EdgeOf(u))
               y == AfterUpdate(w, u)
           IN  /\ Applied(State(g, w), u) = State(x, y)
               /\ Sound(x, y)
<1> DEFINE e == EdgeOf(u)
           x == Engine!Toggle(g, e)
           y == AfterUpdate(w, u)
           h == State(g, w)
           d == u.type = "DELETE"
<1>1. /\ g \in SUBSET Edges /\ w \in Weights /\ Linked(w) \subseteq g /\ Acyclic(Linked(w))
      /\ e \in Edges /\ (d <=> e \in g)
  BY EdgeEnds DEF Sound, Fitting
<1>2. x \in SUBSET Edges /\ \A f \in Edges : f \in x <=> IF f = e THEN f \notin g ELSE f \in g
  BY <1>1 DEF Engine!Toggle
<1>3. /\ y \in Weights
      /\ Linked(y) = IF d THEN Linked(w) \ {e} ELSE Linked(w)
      /\ \A i : UpTo(y, i) = IF d THEN UpTo(w, i) \ {e} ELSE UpTo(w, i)
  BY <1>1, WithoutEdge DEF AfterUpdate
<1>4. Sound(x, y)
  <2>1. Linked(y) \subseteq Linked(w) /\ Linked(y) \subseteq Edges
    BY <1>1, <1>3, Nested
  <2>2. Linked(y) \subseteq x
    BY <1>1, <1>2, <1>3, <2>1
  <2>3. Acyclic(Linked(y))
    BY <1>1, <2>1, AcyclicSubset
  <2>4. QED
    BY <1>2, <1>3, <2>2, <2>3 DEF Sound
<1>5. /\ h.graph = g /\ h.lct = w /\ h.query_ett = Linked(w)
      /\ \A i \in Tiers : h.ett[i] = UpTo(w, i) /\ h.toggled[i] = g
      /\ {f \in Edges : h.lct[f] # 0} = Linked(w)
  BY Fields
<1>6. /\ \A F : (IF Cuts(F, u) THEN EttCut(F, e) ELSE F) = IF d THEN F \ {e} ELSE F
      /\ (IF Cuts(Linked(w), u) THEN [w EXCEPT ![e] = 0] ELSE w) = y
  <2>1. \A F : (IF Cuts(F, u) THEN EttCut(F, e) ELSE F) = IF d THEN F \ {e} ELSE F
    BY DEF Cuts, EttCut
  <2>2. (IF Cuts(Linked(w), u) THEN [w EXCEPT ![e] = 0] ELSE w) = y
    BY <1>1, WithoutEdge DEF Cuts, AfterUpdate, Without
  <2>3. QED
    BY <2>1, <2>2
<1> HIDE DEF h, x, y
<1>7. Applied(h, u) = [graph |-> x, ett |-> [i \in Tiers |-> UpTo(y, i)],
                       toggled |-> [i \in Tiers |-> x], lct |-> y, query_ett |-> Linked(y)]
  <2>1. [i \in Tiers |-> IF Cuts(h.ett[i], u) THEN EttCut(h.ett[i], e) ELSE h.ett[i]]
          = [i \in Tiers |-> UpTo(y, i)]
    <3>1. ASSUME NEW i \in Tiers
          PROVE  (IF Cuts(h.ett[i], u) THEN EttCut(h.ett[i], e) ELSE h.ett[i]) = UpTo(y, i)
      <4>1. (IF Cuts(h.ett[i], u) THEN EttCut(h.ett[i], e) ELSE h.ett[i])
              = IF d THEN h.ett[i] \ {e} ELSE h.ett[i]
        BY <1>6
      <4>2. QED
        BY <1>3, <1>5, <4>1
    <3>2. QED
      BY <3>1
  <2>2. [i \in Tiers |-> Engine!Toggle(h.toggled[i], e)] = [i \in Tiers |-> x]
    BY <1>5 DEF x
  <2>3. (IF Cuts(Linked(w), u) THEN EttCut(h.query_ett, e) ELSE h.query_ett) = Linked(y)
    BY <1>3, <1>5, <1>6
  <2>4. QED
    BY <1>5, <1>6, <2>1, <2>2, <2>3 DEF Applied, x
<1>8. Applied(h, u) = State(x, y)
  BY <1>7 DEF State
<1>9. QED
  BY <1>4, <1>8 DEF h, x, y

\* Such a record is a state of agreement, and agreement says which one.
LEMMA AgreedState ==
    /\ \A g, w : Sound(g, w) => Agreed(State(g, w))
    /\ \A h : Agreed(h) => h = State(h.graph, h.lct) /\ Sound(h.graph, h.lct)
  BY Fields DEF Agreed

\* The same of a state that is only known to be one of agreement.
LEMMA AppliedAgreed ==
    ASSUME NEW h, Agreed(h), NEW u, Fitting(h.graph, u)
    PROVE  /\ Agreed(Applied(h, u))
           /\ Applied(h, u).graph = Engine!Toggle(h.graph, EdgeOf(u))
           /\ Applied(h, u).lct = AfterUpdate(h.lct, u)
<1> DEFINE x == Engine!Toggle(h.graph, EdgeOf(u))
           y == AfterUpdate(h.lct, u)
<1>1. h = State(h.graph, h.lct) /\ Sound(h.graph, h.lct)
  BY AgreedState
<1>2. Applied(State(h.graph, h.lct), u) = State(x, y) /\ Sound(x, y)
  BY <1>1, AppliedState
<1> HIDE DEF x, y
<1>3. Applied(h, u) = State(x, y)
  BY <1>1, <1>2
<1>4. QED
  BY <1>2, <1>3, Fields, AgreedState DEF x, y

\* A linked edge has the weight it was linked with.
WithWeight(w, e, x) == [w EXCEPT ![e] = x]
Adds(w, e, x, y) ==
    /\ y \in Weights
    /\ \A f \in Edges : y[f] = IF f = e THEN x ELSE w[f]
    /\ Linked(y) = Linked(w) \cup {e}
    /\ \A i \in Tiers : UpTo(y, i) = IF x <= i THEN UpTo(w, i) \cup {e} ELSE UpTo(w, i)
LEMMA WithEdge ==
    ASSUME NEW w \in Weights, NEW e \in Edges, e \notin Linked(w), NEW x \in Tiers, x # 0,
           NEW y, y = WithWeight(w, e, x)
    PROVE  Adds(w, e, x, y)
<1>0. w[e] = 0
  BY DEF Linked
<1>1. y \in [Edges -> Tiers] /\ \A f \in Edges : y[f] = IF f = e THEN x ELSE w[f]
  BY DEF WithWeight, Weights
<1>2. Linked(y) = Linked(w) \cup {e}
  BY <1>0, <1>1 DEF Linked
<1>3. ASSUME NEW i \in Tiers
      PROVE  UpTo(y, i) = IF x <= i THEN UpTo(w, i) \cup {e} ELSE UpTo(w, i)
  <2>1. CASE x <= i
    BY <1>0, <1>1, <2>1 DEF UpTo
  <2>2. CASE ~(x <= i)
    BY <1>0, <1>1, <2>2 DEF UpTo
  <2>3. QED
    BY <2>1, <2>2
<1>4. QED
  BY <1>1, <1>2, <1>3 DEF Weights, Adds

\* Linking an edge whose ends are in different trees is refused in no tier.
LinksInTiers(w, a, b, x, y) ==
    /\ y \in Weights
    /\ Linked(y) = EttLink(Linked(w), a, b)
    /\ \A i \in Tiers : UpTo(y, i) = IF x <= i THEN EttLink(UpTo(w, i), a, b) ELSE UpTo(w, i)
    /\ Acyclic(Linked(w)) => Acyclic(Linked(y))
LEMMA LinkedInTiers ==
    ASSUME NEW w \in Weights, NEW a \in Nodes, NEW b \in Nodes, NEW e, e = {a, b}, a # b,
           ~Connected(Linked(w), a, b), NEW x \in Tiers, x # 0, NEW y, y = WithWeight(w, e, x)
    PROVE  LinksInTiers(w, a, b, x, y) /\ Adds(w, e, x, y) /\ e \in Edges /\ e \notin Linked(w)
<1>1. e \in Edges
  BY EdgeEnds
<1>2. Linked(w) \in SUBSET Edges /\ \A i : UpTo(w, i) \in SUBSET Linked(w)
  BY Nested
<1>3. e \notin Linked(w)
  BY <1>2, EdgeConnects
<1>a. Adds(w, e, x, y)
  BY <1>1, <1>3, WithEdge
<1>4. /\ y \in Weights /\ Linked(y) = Linked(w) \cup {e}
      /\ \A i \in Tiers : UpTo(y, i) = IF x <= i THEN UpTo(w, i) \cup {e} ELSE UpTo(w, i)
  BY <1>a DEF Adds
<1>5. \A F : ~Connected(F, a, b) => EttLink(F, a, b) = F \cup {e}
  BY DEF EttLink
<1>6. \A i : ~Connected(UpTo(w, i), a, b)
  BY <1>2, ConnectedMonotone
<1>7. Linked(y) = EttLink(Linked(w), a, b)
  BY <1>4, <1>5
<1>8. ASSUME NEW i \in Tiers
      PROVE  UpTo(y, i) = IF x <= i THEN EttLink(UpTo(w, i), a, b) ELSE UpTo(w, i)
  <2>1. EttLink(UpTo(w, i), a, b) = UpTo(w, i) \cup {e}
    BY <1>5, <1>6
  <2>2. QED
    BY <1>4, <2>1
<1>9. Acyclic(Linked(w)) => Acyclic(Linked(w) \cup {e})
  BY <1>2, AcyclicLink
<1>10. QED
  BY <1>1, <1>3, <1>a, <1>4, <1>7, <1>8, <1>9 DEF LinksInTiers

\* An update that was cut is linked again in the tiers and with the weight it had.
Recorded(r) == /\ r.weight \in Tiers
               /\ r.tiers = {i \in Tiers : r.weight # 0 /\ r.weight <= i}
Reweighted(w, u, r) == IF r.weight = 0 THEN w ELSE WithWeight(w, EdgeOf(u), r.weight)
LEMMA UndoneState ==
    ASSUME NEW g, NEW w \in Weights, NEW u \in Updates, NEW r, Recorded(r),
           r.weight # 0 => ~Connected(Linked(w), u.src, u.dst)
    PROVE  Undone(State(g, w), u, r) = State(Engine!Toggle(g, EdgeOf(u)), Reweighted(w, u, r))
<1> DEFINE e == EdgeOf(u)
           x == Engine!Toggle(g, e)
           y == IF r.weight = 0 THEN w ELSE WithWeight(w, e, r.weight)
           h == State(g, w)
<1>0. r.weight \in Tiers /\ r.tiers = {i \in Tiers : r.weight # 0 /\ r.weight <= i}
  BY DEF Recorded
<1>1. /\ u.src \in Nodes /\ u.dst \in Nodes /\ u.src # u.dst /\ e = {u.src, u.dst}
  BY EdgeEnds
<1>2. /\ y \in Weights
      /\ Linked(y) = IF r.weight = 0 THEN Linked(w) ELSE EttLink(Linked(w), u.src, u.dst)
      /\ \A i \in Tiers : UpTo(y, i) = IF i \in r.tiers THEN EttLink(UpTo(w, i), u.src, u.dst)
                                                      ELSE UpTo(w, i)
  <2>1. CASE r.weight = 0
    BY <1>0, <2>1
  <2>2. CASE r.weight # 0
    <3>1. y = WithWeight(w, e, r.weight)
      BY <2>2
    <3> HIDE DEF y, e
    <3>2. /\ y \in Weights /\ Linked(y) = EttLink(Linked(w), u.src, u.dst)
          /\ \A i \in Tiers : UpTo(y, i) = IF r.weight <= i THEN EttLink(UpTo(w, i), u.src, u.dst)
                                                            ELSE UpTo(w, i)
      <4>1. LinksInTiers(w, u.src, u.dst, r.weight, y)
        BY <1>0, <1>1, <2>2, <3>1, LinkedInTiers
      <4>2. QED
        BY <4>1 DEF LinksInTiers
    <3>3. QED
      BY <1>0, <2>2, <3>2
  <2>3. QED
    BY <2>1, <2>2
<1>3. /\ h.graph = g /\ h.lct = w /\ h.query_ett = Linked(w)
      /\ \A i \in Tiers : h.ett[i] = UpTo(w, i) /\ h.toggled[i] = g
  BY Fields DEF State
<1>4. [i \in Tiers |-> Relinked(h.ett[i], u, i \in r.tiers)] = [i \in Tiers |-> UpTo(y, i)]
  BY <1>2, <1>3 DEF Relinked
<1>5. [i \in Tiers |-> Retoggled(h.toggled[i], u)] = [i \in Tiers |-> x]
  BY <1>3 DEF Retoggled
<1>6. y = IF r.weight # 0 THEN [w EXCEPT ![e] = r.weight] ELSE w
  BY DEF WithWeight
<1>7. Linked(y) = Relinked(h.query_ett, u, r.weight # 0)
  BY <1>2, <1>3 DEF Relinked
<1> HIDE DEF y, h
<1>8. Undone(h, u, r) = [graph |-> x, ett |-> [i \in Tiers |-> UpTo(y, i)],
                         toggled |-> [i \in Tiers |-> x], lct |-> y, query_ett |-> Linked(y)]
  BY <1>3, <1>4, <1>5, <1>6, <1>7 DEF Undone
<1>9. Undone(h, u, r) = State(x, y)
  BY <1>8 DEF State
<1>10. QED
  BY <1>9 DEF h, y, Reweighted

\* What the ranks hold after a cut broadcast ...
LEMMA EvictedState ==
    ASSUME NEW g, NEW w \in Weights, NEW e \in Linked(w)
    PROVE  Evicted(State(g, w), e) = State(g, Without(w, e))
<1> DEFINE h == State(g, w)
           y == Without(w, e)
<1>1. /\ h.graph = g /\ h.lct = w /\ h.query_ett = Linked(w)
      /\ \A i \in Tiers : h.ett[i] = UpTo(w, i)
      /\ h.toggled = [i \in Tiers |-> g]
  BY Fields DEF State
<1>2. e \in Edges
  BY DEF Linked
<1>3. Linked(y) = Linked(w) \ {e} /\ \A i : UpTo(y, i) = UpTo(w, i) \ {e}
  BY <1>2, WithoutEdge
<1>4. \A i \in Tiers : ~(i >= w[e]) => e \notin UpTo(w, i)
  <2>1. w[e] \in Nat
    BY <1>2, Nested
  <2>2. QED
    BY <2>1, TierNumbers DEF UpTo
<1>5. [i \in Tiers |-> IF i \in CutIn(h, e) THEN EttCut(h.ett[i], e) ELSE h.ett[i]]
         = [i \in Tiers |-> UpTo(y, i)]
  BY <1>1, <1>3, <1>4 DEF EttCut, CutIn
<1>6. EttCut(h.query_ett, e) = Linked(y)
  BY <1>1, <1>3 DEF EttCut
<1>7. y = [w EXCEPT ![e] = 0]
  BY DEF Without
<1> HIDE DEF h, y
<1>8. Evicted(h, e) = [graph |-> g, ett |-> [i \in Tiers |-> UpTo(y, i)],
                       toggled |-> [i \in Tiers |-> g], lct |-> y, query_ett |-> Linked(y)]
  BY <1>1, <1>5, <1>6, <1>7 DEF Evicted
<1>9. QED
  BY <1>8 DEF State, h, y

\* ... and after a link broadcast of the current tier.
LEMMA GrownState ==
    ASSUME NEW g, NEW w \in Weights, NEW a \in Nodes, NEW b \in Nodes, a # b,
           ~Connected(Linked(w), a, b), tier \in Tiers, tier # 0
    PROVE  Grown(State(g, w), a, b) = State(g, WithWeight(w, {a, b}, tier))
<1> DEFINE h == State(g, w)
           e == {a, b}
           y == WithWeight(w, e, tier)
<1>1. /\ h.graph = g /\ h.lct = w /\ h.query_ett = Linked(w)
      /\ \A i \in Tiers : h.ett[i] = UpTo(w, i)
      /\ h.toggled = [i \in Tiers |-> g]
  BY Fields DEF State
<1>2. /\ Linked(y) = EttLink(Linked(w), a, b)
      /\ \A i \in Tiers : UpTo(y, i) = IF tier <= i THEN EttLink(UpTo(w, i), a, b) ELSE UpTo(w, i)
  <2> HIDE DEF e, y
  <2>1. e = {a, b} /\ y = WithWeight(w, e, tier)
    BY DEF e, y
  <2>2. LinksInTiers(w, a, b, tier, y)
    BY <2>1, LinkedInTiers
  <2>3. QED
    BY <2>2 DEF LinksInTiers
<1>3. \A i \in Tiers : i >= tier <=> tier <= i
  BY TierNumbers
<1>4. [i \in Tiers |-> IF i >= tier THEN EttLink(h.ett[i], a, b) ELSE h.ett[i]]
         = [i \in Tiers |-> UpTo(y, i)]
  BY <1>1, <1>2, <1>3
<1>5. EttLink(h.query_ett, a, b) = Linked(y)
  BY <1>1, <1>2
<1>6. y = [w EXCEPT ![{a, b}] = tier]
  BY DEF WithWeight
<1> HIDE DEF h, y
<1>7. Grown(h, a, b) = [graph |-> g, ett |-> [i \in Tiers |-> UpTo(y, i)],
                        toggled |-> [i \in Tiers |-> g], lct |-> y, query_ett |-> Linked(y)]
  BY <1>1, <1>4, <1>5, <1>6 DEF Grown
<1>8. QED
  BY <1>7 DEF State, h, y

------------------------------------------------------------------------------
\* The inductive invariant

\* What the ranks held after update k of the batch, when they applied all of it.
Seen(k) == Applied(before[k], batch[k])

\* What is kept of the batch: each update fits what it was applied to.
History ==
    /\ batch \in Seq(Updates) /\ Len(batch) >= 1
    /\ \A k \in 1 .. Len(batch) :
          /\ Agreed(before[k]) /\ Fitting(before[k].graph, batch[k])
          /\ split_revert[k] = Reverts(before[k], batch[k])
          /\ k # Len(batch) => before[k + 1] = Seen(k)

BatchInv ==
    /\ phase \in {"idle", "reduce", "undo", "next", "refresh"}
    /\ Agreed(Holding)
    /\ phase # "idle" => History
    /\ phase \in {"undo", "next", "refresh"} => update_idx \in 1 .. Len(batch)
    /\ phase \in {"reduce", "undo"} => Holding = Seen(Len(batch))
    /\ phase = "reduce" => \A i \in Tiers : \A k \in 1 .. Len(batch) :
                              checks[i][k] = Ends(Seen(k), i, batch[k])
    /\ phase = "next" => graph = before[update_idx].graph
    /\ phase = "refresh" =>
          /\ graph = Seen(update_idx).graph
          /\ tier \in 1 .. Top /\ endpoint \in {1, 2}
          /\ message \in Messages(Holding, tier - 1)

\* The tree of v in tier i did not grow in the next tier, and edges leave it.
Tree(w, i, v)   == Component(UpTo(w, i), v)
Iso(g, w, i, v) == Tree(w, i, v) = Tree(w, i + 1, v) /\ CutOf(g, Tree(w, i, v)) # {}
Clean(g, w)     == \A i \in 0 .. Top - 1 : \A v \in Nodes : ~Iso(g, w, i, v)

\* Tier t is at its k-th end: every isolated tree is that of an end of the update which
\* that tier or a later one has still to compare with its own.
EndOf(u, j) == IF j = 1 THEN u.src ELSE u.dst
Pending(t, k, i, j) == i >= t \/ (i = t - 1 /\ j >= k)
Repairable(g, w, u, t, k) ==
    \A i \in 0 .. Top - 1 : \A v \in Nodes :
        Iso(g, w, i, v) => \E j \in {1, 2} : Pending(t, k, i, j) /\ EndOf(u, j) \in Tree(w, i, v)

\* What is inductive besides when the sketches do not fail.
CleanInv ==
    /\ phase \in {"idle", "next"} => Clean(graph, lct)
    /\ phase = "reduce" => Clean(before[1].graph, before[1].lct)
    /\ phase = "undo" => Clean(before[update_idx].graph, before[update_idx].lct)
    /\ phase = "refresh" => Repairable(graph, lct, batch[update_idx], tier, endpoint)

------------------------------------------------------------------------------
\* Agreement

\* The sequential engine has the vertices, edges and forests of this module.
LEMMA EngineVocabulary ==
    /\ Engine!Edges = Edges
    /\ \A E, u : Engine!Component(E, u) = Component(E, u)
    /\ \A E, u, v : Engine!Connected(E, u, v) <=> Connected(E, u, v)
    /\ \A E : Engine!Acyclic(E) <=> Acyclic(E)
    /\ \A F, u, v : Engine!PathEdges(F, u, v) = PathEdges(F, u, v)
    /\ \A E, S : Engine!CutOf(E, S) = CutOf(E, S)
    /\ \A E : Engine!Components(E) = Components(E)
    /\ Engine!Tiers = Tiers /\ Engine!Top = Top
    /\ Engine!LctEdges = Linked(lct)
    /\ \A i : Engine!LctUpTo(i) = UpTo(lct, i)
    /\ \A S : Engine!Cardinality(S) = Cardinality(S)
<1>1. Engine!Edges = Edges
  BY DEF Engine!Edges, Edges
<1>2. \A E : Engine!ClosedSets(E) = ClosedSets(E)
  BY DEF Engine!ClosedSets, ClosedSets
<1>3. \A E, u : Engine!Component(E, u) = Component(E, u)
  BY <1>2 DEF Engine!Component, Component
<1>4. \A E, u, v : Engine!Connected(E, u, v) <=> Connected(E, u, v)
  BY <1>3 DEF Engine!Connected, Connected
<1>5. \A E : Engine!Acyclic(E) <=> Acyclic(E)
  BY <1>4 DEF Engine!Acyclic, Acyclic
<1>6. \A F, u, v : Engine!PathEdges(F, u, v) = PathEdges(F, u, v)
  BY <1>4 DEF Engine!PathEdges, PathEdges
<1>7. \A E, S : Engine!CutOf(E, S) = CutOf(E, S)
  BY DEF Engine!CutOf, CutOf
<1>8. \A E : Engine!Components(E) = Components(E)
  BY <1>3 DEF Engine!Components, Components
<1>9. Engine!Tiers = Tiers /\ Engine!Top = Top
  BY DEF Engine!Tiers, Tiers, Engine!Top, Top
<1>10. Engine!LctEdges = Linked(lct)
  BY <1>1 DEF Engine!LctEdges, Linked
<1>11. \A i : Engine!LctUpTo(i) = UpTo(lct, i)
  BY <1>10 DEF Engine!LctUpTo, UpTo, Linked
<1>12. \A S : Engine!Cardinality(S) = Cardinality(S)
  BY DEF Engine!Cardinality, Cardinality, Engine!IsFiniteSet, IsFiniteSet
<1>13. QED
  BY <1>1, <1>3, <1>4, <1>5, <1>6, <1>7, <1>8, <1>9, <1>10, <1>11, <1>12

\* Ranks that agree mirror the input node's link-cut tree, without a cycle.
LEMMA AgreedRanks ==
    ASSUME Agreed(Holding)
    PROVE  /\ RanksAgree
           /\ Sound(graph, lct)
           /\ \A i \in Tiers : ett[i] = UpTo(lct, i) /\ toggled[i] = graph
           /\ ett = [i \in Tiers |-> UpTo(lct, i)] /\ toggled = [i \in Tiers |-> graph]
           /\ query_ett = Linked(lct)
<1>1. Holding = State(graph, lct) /\ Sound(graph, lct)
  BY AgreedState DEF Holding
<1>2. /\ ett = [i \in Tiers |-> UpTo(lct, i)] /\ toggled = [i \in Tiers |-> graph]
      /\ query_ett = Linked(lct)
  BY <1>1 DEF Holding, State
<1>3. \A i \in Tiers : ett[i] = UpTo(lct, i) /\ toggled[i] = graph
  BY <1>2
<1>4. /\ Engine!Tiers = Tiers /\ Engine!LctEdges = Linked(lct)
      /\ \A i : Engine!LctUpTo(i) = UpTo(lct, i)
  BY EngineVocabulary
<1>5. Engine!TiersMirrorLct
  BY <1>3, <1>4 DEF Engine!TiersMirrorLct, Engine!AwaitsCut, Engine!Expected
<1>6. Acyclic(Linked(lct)) /\ \A i \in Tiers : Acyclic(UpTo(lct, i))
  <2>1. lct \in Weights /\ Acyclic(Linked(lct))
    BY <1>1 DEF Sound
  <2>2. \A i \in Tiers : UpTo(lct, i) \in SUBSET Linked(lct)
    BY <2>1, Nested
  <2>3. QED
    BY <2>1, <2>2, AcyclicSubset
<1>7. Engine!TierForests
  BY <1>3, <1>4, <1>6, EngineVocabulary DEF Engine!TierForests
<1>8. QED
  BY <1>1, <1>2, <1>3, <1>4, <1>5, <1>7 DEF RanksAgree

\* The recursion of Greedy: by induction, what the ranks hold after each update exists.
LEMMA GreedyDef ==
    ASSUME NEW us, Len(us) \in Nat
    PROVE  Greedy(us) = [k \in 0 .. Len(us) |->
                            IF k = 0 THEN Holding ELSE Applied(Greedy(us)[k - 1], us[k])]
<1> DEFINE n == Len(us)
           Held(f, m) == f = [k \in 0 .. m |-> IF k = 0 THEN Holding ELSE Applied(f[k - 1], us[k])]
           Bad == {m \in 0 .. n : ~ \E f : Held(f, m)}
<1>1. ASSUME Bad # {}
      PROVE  FALSE
  <2>0. Bad \in SUBSET Nat
    OBVIOUS
  <2>1. PICK m \in Bad : \A k \in Bad : m <= k
    <3> HIDE DEF Bad
    <3>1. QED
      BY <1>1, <2>0, LeastNumber
  <2>2. m # 0
    <3>1. Held([k \in 0 .. 0 |-> Holding], 0)
      OBVIOUS
    <3>2. QED
      BY <2>1, <3>1
  <2>3. PICK f : Held(f, m - 1)
    <3>1. m \in 0 .. n /\ m - 1 \in 0 .. n
      BY <2>1, <2>2
    <3>2. m - 1 \notin Bad
      <4> HIDE DEF Bad
      <4>1. QED
        BY <2>1, <3>1
    <3>3. QED
      BY <3>1, <3>2
  <2> DEFINE g == [k \in 0 .. m |-> IF k = m THEN Applied(f[m - 1], us[m]) ELSE f[k]]
  <2>4. \A k \in 0 .. m : g[k] = IF k = 0 THEN Holding ELSE Applied(g[k - 1], us[k])
    <3>1. TAKE k \in 0 .. m
    <3>2. CASE k = m
      BY <2>2, <3>2
    <3>3. CASE k # m
      <4>1. k \in 0 .. m - 1 /\ (k # 0 => k - 1 \in 0 .. m - 1)
        BY <3>3
      <4>2. f[k] = IF k = 0 THEN Holding ELSE Applied(f[k - 1], us[k])
        BY <2>3, <4>1
      <4>3. QED
        BY <3>3, <4>1, <4>2
    <3>4. QED
      BY <3>2, <3>3
  <2>5. Held(g, m)
    BY <2>4
  <2>6. QED
    BY <2>1, <2>5
<1>2. \E f : Held(f, n)
  BY <1>1
<1>3. Greedy(us) = CHOOSE f : Held(f, n)
  BY DEF Greedy
<1>4. QED
  BY <1>2, <1>3

\* While a batch of a valid stream is applied the ranks agree after every update.
LEMMA GreedyAgrees ==
    ASSUME Agreed(Holding), NEW us \in Seq(Updates), Valid(us)
    PROVE  /\ Len(us) \in Nat /\ DOMAIN us = 1 .. Len(us)
           /\ Greedy(us)[0] = Holding
           /\ \A k \in 1 .. Len(us) : /\ Greedy(us)[k] = Applied(Greedy(us)[k - 1], us[k])
                                      /\ Agreed(Greedy(us)[k - 1]) /\ Agreed(Greedy(us)[k])
                                      /\ Fitting(Greedy(us)[k - 1].graph, us[k])
<1> DEFINE h == Greedy(us)
           n == Len(us)
           Bad == {k \in 0 .. n : ~Agreed(h[k])}
<1>1. n \in Nat /\ DOMAIN us = 1 .. n /\ \A k \in 1 .. n : us[k] \in Updates
  OBVIOUS
<1>2. h = [k \in 0 .. n |-> IF k = 0 THEN Holding ELSE Applied(h[k - 1], us[k])]
  BY <1>1, GreedyDef
<1>3. \A k \in 1 .. n : Fitting(h[k - 1].graph, us[k])
  BY <1>1 DEF Valid, Fitting
<1> HIDE DEF h
<1>4. h[0] = Holding /\ \A k \in 1 .. n : h[k] = Applied(h[k - 1], us[k])
  BY <1>1, <1>2
<1>5. Bad = {}
  <2>1. SUFFICES ASSUME Bad # {} PROVE FALSE
    OBVIOUS
  <2>2. PICK m \in Bad : \A k \in Bad : m <= k
    <3>1. Bad \in SUBSET Nat
      BY <1>1
    <3> HIDE DEF Bad
    <3>2. QED
      BY <2>1, <3>1, LeastNumber
  <2>3. m \in 1 .. n /\ m - 1 \in 0 .. n /\ m - 1 \notin Bad
    BY <1>1, <1>4, <2>2
  <2>4. Agreed(h[m - 1])
    BY <2>3
  <2>5. Agreed(Applied(h[m - 1], us[m]))
    BY <1>3, <2>3, <2>4, AppliedAgreed
  <2>6. QED
    BY <1>4, <2>2, <2>3, <2>5
<1>6. \A k \in 0 .. n : Agreed(h[k])
  BY <1>5
<1>7. ASSUME NEW k \in 1 .. n
      PROVE  Agreed(h[k - 1]) /\ Agreed(h[k])
  <2>1. k \in 0 .. n /\ k - 1 \in 0 .. n
    BY <1>1
  <2>2. QED
    BY <1>6, <2>1
<1>8. QED
  BY <1>1, <1>3, <1>4, <1>7 DEF h

------------------------------------------------------------------------------
\* The roll-back

\* What History says of one update of the batch.
LEMMA SeenFacts ==
    ASSUME History, NEW k \in 1 .. Len(batch)
    PROVE  /\ batch[k] \in Updates /\ EdgeOf(batch[k]) \in Edges
           /\ Sound(before[k].graph, before[k].lct)
           /\ before[k] = State(before[k].graph, before[k].lct)
           /\ Agreed(Seen(k))
           /\ Seen(k).graph = Engine!Toggle(before[k].graph, EdgeOf(batch[k]))
           /\ Seen(k).lct = AfterUpdate(before[k].lct, batch[k])
           /\ Sound(Seen(k).graph, Seen(k).lct)
<1>1. Agreed(before[k]) /\ Fitting(before[k].graph, batch[k])
  BY DEF History
<1>2. batch[k] \in Updates /\ EdgeOf(batch[k]) \in Edges
  BY <1>1, EdgeEnds DEF Fitting
<1>3. /\ Agreed(Seen(k))
      /\ Seen(k).graph = Engine!Toggle(before[k].graph, EdgeOf(batch[k]))
      /\ Seen(k).lct = AfterUpdate(before[k].lct, batch[k])
  BY <1>1, AppliedAgreed DEF Seen
<1>4. QED
  BY <1>1, <1>2, <1>3, AgreedState

\* While a batch is applied edges only leave the link-cut tree.
LEMMA OnlyCut ==
    ASSUME History, NEW f \in 1 .. Len(batch), NEW e \in Edges
    PROVE  \A k \in f .. Len(batch) : Seen(k).lct[e] \in {0, before[f].lct[e]}
<1> DEFINE n == Len(batch)
           Bad == {k \in f .. n : Seen(k).lct[e] \notin {0, before[f].lct[e]}}
<1>1. n \in Nat /\ f \in Nat /\ f >= 1 /\ f <= n
  BY DEF History
<1>2. ASSUME NEW k \in 1 .. n
      PROVE  Seen(k).lct[e] \in {0, before[k].lct[e]}
  <2>1. before[k].lct \in Weights
    BY SeenFacts DEF Sound
  <2>2. QED
    BY <2>1, SeenFacts DEF AfterUpdate, Without, Weights
<1>3. \A k \in 1 .. n : k # n => before[k + 1] = Seen(k)
  BY DEF History
<1>4. Bad = {}
  <2>1. SUFFICES ASSUME Bad # {} PROVE FALSE
    OBVIOUS
  <2>2. PICK m \in Bad : \A k \in Bad : m <= k
    <3>1. Bad \in SUBSET Nat
      BY <1>1
    <3> HIDE DEF Bad
    <3>2. QED
      BY <2>1, <3>1, LeastNumber
  <2>3. m \in f .. n /\ m \in 1 .. n /\ Seen(m).lct[e] \notin {0, before[f].lct[e]}
    BY <1>1, <2>2
  <2>4. m # f
    BY <1>2, <2>3
  <2>5. m - 1 \in f .. n /\ m - 1 \in 1 .. n /\ m - 1 # n /\ (m - 1) + 1 = m
    BY <1>1, <2>3, <2>4
  <2>6. m - 1 \notin Bad
    <3> HIDE DEF Bad
    <3>1. QED
      BY <2>2, <2>5
  <2>7. before[m] = Seen(m - 1)
    BY <1>3, <2>5
  <2>8. before[m].lct[e] \in {0, before[f].lct[e]}
    BY <2>5, <2>6, <2>7
  <2>9. QED
    BY <1>2, <2>3, <2>8
<1>5. QED
  BY <1>4

\* The records that came to be before and after an update, once the updates from f on to
\* that one are rolled back again: an edge has its old weight if it was cut on the way.
Midway(h, f) ==
    State({e \in Edges : e \in graph <=> (e \in h.graph <=> e \in before[f].graph)},
          [e \in Edges |-> IF h.lct[e] = 0 THEN before[f].lct[e] ELSE lct[e]])

\* Nothing is rolled back yet, and everything is.
LEMMA MidwayEnds ==
    ASSUME Agreed(Holding), History, Holding = Seen(Len(batch)), NEW f \in 1 .. Len(batch)
    PROVE  Midway(before[f], f) = Holding /\ Midway(Holding, f) = before[f]
<1>1. graph \in SUBSET Edges /\ lct \in Weights /\ Holding = State(graph, lct)
  BY AgreedState DEF Sound, Holding
<1>2. /\ before[f].graph \in SUBSET Edges /\ before[f].lct \in Weights
      /\ before[f] = State(before[f].graph, before[f].lct)
  BY SeenFacts DEF Sound
<1>3. \A e \in Edges : lct[e] \in {0, before[f].lct[e]}
  <2>1. Len(batch) \in f .. Len(batch)
    BY DEF History
  <2>2. Seen(Len(batch)).lct = lct
    BY DEF Holding
  <2>3. QED
    BY <2>1, <2>2, OnlyCut
<1>4. Midway(before[f], f) = State(graph, lct)
  <2>1. {e \in Edges : e \in graph <=> (e \in before[f].graph <=> e \in before[f].graph)} = graph
    BY <1>1
  <2>2. [e \in Edges |-> IF before[f].lct[e] = 0 THEN before[f].lct[e] ELSE lct[e]] = lct
    BY <1>1, <1>3 DEF Weights
  <2>3. QED
    BY <2>1, <2>2 DEF Midway
<1>5. Midway(Holding, f) = State(before[f].graph, before[f].lct)
  <2>1. Holding.graph = graph /\ Holding.lct = lct
    BY DEF Holding
  <2>2. {e \in Edges : e \in graph <=> (e \in graph <=> e \in before[f].graph)} = before[f].graph
    BY <1>2
  <2>3. [e \in Edges |-> IF lct[e] = 0 THEN before[f].lct[e] ELSE lct[e]] = before[f].lct
    BY <1>2, <1>3 DEF Weights
  <2>4. QED
    BY <2>1, <2>2, <2>3 DEF Midway
<1>6. QED
  BY <1>1, <1>2, <1>4, <1>5

\* One update is rolled back.  No relinking is refused: the edge was linked before the
\* first of the updates, together with all edges that are linked now.
LEMMA MidwayStep ==
    ASSUME Agreed(Holding), History, Holding = Seen(Len(batch)), NEW f \in 1 .. Len(batch),
           NEW k \in f .. Len(batch)
    PROVE  Undone(Midway(before[k], f), batch[k], split_revert[k]) = Midway(Seen(k), f)
<1> DEFINE u == batch[k]
           e == EdgeOf(u)
           d == u.type = "DELETE"
           n == Len(batch)
           r == split_revert[k]
           old == before[k].lct
           first == before[f].lct
           g == {c \in Edges : c \in graph <=> (c \in before[k].graph <=> c \in before[f].graph)}
           w == [c \in Edges |-> IF old[c] = 0 THEN first[c] ELSE lct[c]]
           x == {c \in Edges : c \in graph <=> (c \in Seen(k).graph <=> c \in before[f].graph)}
           y == [c \in Edges |-> IF Seen(k).lct[c] = 0 THEN first[c] ELSE lct[c]]
<1>1. n \in Nat /\ k \in 1 .. n /\ f \in Nat /\ f >= 1
  BY DEF History
<1>2. /\ u \in Updates /\ e \in Edges /\ u.src \in Nodes /\ u.dst \in Nodes /\ u.src # u.dst
      /\ e = {u.src, u.dst}
  BY <1>1, SeenFacts, EdgeEnds
<1>3. /\ old \in Weights /\ first \in Weights /\ lct \in Weights
      /\ Acyclic(Linked(first))
      /\ Seen(k).graph = Engine!Toggle(before[k].graph, e)
      /\ Seen(k).lct = AfterUpdate(old, u)
  BY <1>1, SeenFacts, AgreedState DEF Sound, Holding
<1>4. \A c \in Edges : /\ lct[c] \in {0, Seen(k).lct[c]}
                       /\ Seen(k).lct[c] \in {0, first[c]}
                       /\ old[c] \in {0, first[c]}
  <2>1. ASSUME NEW c \in Edges
        PROVE  /\ lct[c] \in {0, Seen(k).lct[c]}
               /\ Seen(k).lct[c] \in {0, first[c]}
               /\ old[c] \in {0, first[c]}
    <3>1. Seen(k).lct[c] \in {0, first[c]}
      BY <1>1, OnlyCut
    <3>2. lct[c] \in {0, Seen(k).lct[c]}
      <4>1. CASE k = n
        BY <4>1 DEF Holding
      <4>2. CASE k # n
        <5>1. k + 1 \in 1 .. n /\ before[k + 1] = Seen(k) /\ n \in k + 1 .. n
          BY <1>1, <4>2 DEF History
        <5>2. Seen(n).lct[c] \in {0, before[k + 1].lct[c]}
          BY <5>1, OnlyCut
        <5>3. QED
          BY <5>1, <5>2 DEF Holding
      <4>3. QED
        BY <4>1, <4>2
    <3>3. old[c] \in {0, first[c]}
      <4>1. CASE k = f
        BY <4>1
      <4>2. CASE k # f
        <5>1. k - 1 \in f .. n /\ k - 1 \in 1 .. n /\ k - 1 # n /\ (k - 1) + 1 = k
          BY <1>1, <4>2
        <5>2. before[k] = Seen(k - 1)
          BY <5>1 DEF History
        <5>3. QED
          BY <5>1, <5>2, OnlyCut
      <4>3. QED
        BY <4>1, <4>2
    <3>4. QED
      BY <3>1, <3>2, <3>3
  <2>2. QED
    BY <2>1
<1>5. /\ r.weight = IF d THEN old[e] ELSE 0
      /\ r.weight \in Tiers
      /\ r.tiers = {i \in Tiers : r.weight # 0 /\ r.weight <= i}
  <2>1. r = Reverts(before[k], u)
    BY <1>1 DEF History
  <2>2. r.weight = IF d THEN old[e] ELSE 0
    BY <2>1 DEF Reverts
  <2>3. \A i \in Tiers : before[k].ett[i] = UpTo(old, i)
    BY <1>1, SeenFacts, Fields
  <2>4. r.tiers = {i \in Tiers : d /\ e \in UpTo(old, i)}
    BY <2>1, <2>3 DEF Reverts, Cuts
  <2>5. \A i \in Tiers : d /\ e \in UpTo(old, i) <=> r.weight # 0 /\ r.weight <= i
    BY <1>2, <2>2 DEF UpTo
  <2>6. QED
    BY <1>2, <1>3, <2>2, <2>4, <2>5, TierNumbers DEF Weights
<1>r. Recorded(r)
  BY <1>5 DEF Recorded
<1>6. Engine!Toggle(g, e) = x
  BY <1>2, <1>3 DEF Engine!Toggle
<1>7. w \in Weights
  BY <1>3 DEF Weights
<1>8. CASE r.weight = 0
  <2>1. Seen(k).lct = old
    BY <1>2, <1>3, <1>5, <1>8 DEF AfterUpdate, Without, Weights
  <2>2. y = w
    BY <2>1
  <2>3. Undone(State(g, w), u, r) = State(Engine!Toggle(g, e), w)
    <3> HIDE DEF w, g, r, u
    <3>1. Undone(State(g, w), u, r) = State(Engine!Toggle(g, e), Reweighted(w, u, r))
      BY <1>2, <1>r, <1>7, <1>8, UndoneState
    <3>2. QED
      BY <1>8, <3>1 DEF Reweighted
  <2>4. QED
    BY <1>6, <2>2, <2>3 DEF Midway
<1>9. CASE r.weight # 0
  <2>1. d /\ r.weight = old[e] /\ Seen(k).lct = Without(old, e)
    BY <1>3, <1>5, <1>9 DEF AfterUpdate
  <2>2. Seen(k).lct[e] = 0 /\ \A c \in Edges : c # e => Seen(k).lct[c] = old[c]
    BY <1>2, <1>3, <2>1 DEF Without, Weights
  <2>3. lct[e] = 0 /\ first[e] = r.weight /\ w[e] = 0
    BY <1>2, <1>4, <1>9, <2>1, <2>2
  <2>4. y = WithWeight(w, e, r.weight)
    BY <1>2, <2>2, <2>3 DEF WithWeight
  <2>5. ~Connected(Linked(w), u.src, u.dst)
    <3>1. Linked(w) \subseteq Linked(first) \ {e}
      BY <1>4, <2>3 DEF Linked
    <3>2. e \in Linked(first)
      BY <1>2, <1>9, <2>3 DEF Linked
    <3>3. ~Connected(Linked(first) \ {e}, u.src, u.dst)
      BY <1>2, <1>3, <3>2 DEF Acyclic
    <3>4. QED
      BY <1>2, <3>1, <3>3, ConnectedMonotone
  <2>6. Undone(State(g, w), u, r) = State(Engine!Toggle(g, e), WithWeight(w, e, r.weight))
    <3> HIDE DEF w, g, r, u, old
    <3>1. r.weight # 0 => ~Connected(Linked(w), u.src, u.dst)
      BY <2>5
    <3>2. Undone(State(g, w), u, r) = State(Engine!Toggle(g, e), Reweighted(w, u, r))
      BY <1>2, <1>r, <1>7, <3>1, UndoneState
    <3>3. QED
      BY <1>9, <3>2 DEF Reweighted
  <2>7. QED
    BY <1>6, <2>4, <2>6 DEF Midway
<1>10. QED
  BY <1>8, <1>9

\* The recursion of Undoing, and what it comes to: the updates are rolled back one by one.
LEMMA UndoingHolds ==
    ASSUME Agreed(Holding), History, Holding = Seen(Len(batch)), update_idx \in 1 .. Len(batch)
    PROVE  Undoing[Len(batch)] = before[update_idx]
<1> DEFINE n == Len(batch)
           f == update_idx
           Held(h) == h = [k \in f - 1 .. n |-> IF k = f - 1 THEN Holding
                                                ELSE Undone(h[k - 1], batch[k], split_revert[k])]
           m == [k \in f - 1 .. n |-> IF k = f - 1 THEN Holding ELSE Midway(Seen(k), f)]
           h == Undoing
           Bad == {k \in f - 1 .. n : h[k] # m[k]}
<1>1. n \in Nat /\ f \in 1 .. n /\ f \in Nat /\ f >= 1
  BY DEF History
<1>2. ASSUME NEW k \in f .. n
      PROVE  m[k] = Undone(m[k - 1], batch[k], split_revert[k])
  <2>1. m[k - 1] = Midway(before[k], f)
    <3>1. CASE k = f
      <4>1. m[k - 1] = Holding
        BY <1>1, <3>1
      <4>2. QED
        BY <1>1, <3>1, <4>1, MidwayEnds
    <3>2. CASE k # f
      <4>1. k - 1 \in f - 1 .. n /\ k - 1 # f - 1 /\ k - 1 \in 1 .. n /\ k - 1 # n /\ (k - 1) + 1 = k
        BY <1>1, <3>2
      <4>2. before[k] = Seen(k - 1)
        BY <4>1 DEF History
      <4>3. QED
        BY <4>1, <4>2
    <3>3. QED
      BY <3>1, <3>2
  <2>2. m[k] = Midway(Seen(k), f)
    BY <1>1
  <2> HIDE DEF m
  <2>3. QED
    BY <1>1, <2>1, <2>2, MidwayStep
<1>3. \A k \in f - 1 .. n : m[k] = IF k = f - 1 THEN Holding
                                 ELSE Undone(m[k - 1], batch[k], split_revert[k])
  <2>1. TAKE k \in f - 1 .. n
  <2>2. CASE k = f - 1
    BY <2>2
  <2>3. CASE k # f - 1
    <3>1. k \in f .. n
      BY <1>1, <2>3
    <3> HIDE DEF m
    <3>2. QED
      BY <1>2, <2>3, <3>1
  <2>4. QED
    BY <2>2, <2>3
<1>4. Held(m)
  <2>1. m = [k \in f - 1 .. n |-> m[k]]
    OBVIOUS
  <2> HIDE DEF m
  <2>2. QED
    BY <1>3, <2>1
<1>5. Held(h)
  <2>1. h = CHOOSE x : Held(x)
    BY DEF Undoing
  <2> HIDE DEF m, h
  <2>2. QED
    BY <1>4, <2>1
<1> HIDE DEF h, m
<1>6. Bad = {}
  <2>1. SUFFICES ASSUME Bad # {} PROVE FALSE
    OBVIOUS
  <2>2. PICK k \in Bad : \A j \in Bad : k <= j
    <3>1. Bad \in SUBSET Nat
      BY <1>1
    <3> HIDE DEF Bad
    <3>2. QED
      BY <2>1, <3>1, LeastNumber
  <2>3. k \in f - 1 .. n /\ h[k] # m[k]
    BY <2>2
  <2>4. k # f - 1
    <3>1. h[f - 1] = Holding /\ m[f - 1] = Holding
      BY <1>1, <1>3, <1>5
    <3>2. QED
      BY <2>3, <3>1
  <2>5. k - 1 \in f - 1 .. n
    BY <1>1, <2>3, <2>4
  <2>6. k - 1 \notin Bad
    <3> HIDE DEF Bad
    <3>1. QED
      BY <1>1, <2>2, <2>3, <2>5
  <2>7. h[k - 1] = m[k - 1]
    BY <2>5, <2>6
  <2>8. h[k] = Undone(h[k - 1], batch[k], split_revert[k])
    BY <1>5, <2>3, <2>4
  <2>9. QED
    BY <1>3, <2>3, <2>4, <2>7, <2>8
<1>7. h[n] = Midway(Seen(n), f)
  <2>1. n \in f - 1 .. n /\ n # f - 1
    BY <1>1
  <2>2. h[n] = m[n]
    BY <1>6, <2>1
  <2>3. QED
    BY <2>1, <2>2 DEF m
<1>8. QED
  BY <1>1, <1>7, MidwayEnds DEF h

------------------------------------------------------------------------------
\* Growing a tree

\* A tree with as many vertices in the next tier is the tree of the next tier.
LEMMA SameSize ==
    ASSUME NEW w \in Weights, NEW i \in Tiers, NEW j \in Tiers, i <= j, NEW v \in Nodes,
           Cardinality(Tree(w, i, v)) = Cardinality(Tree(w, j, v))
    PROVE  Tree(w, i, v) = Tree(w, j, v)
<1>1. Tree(w, i, v) \subseteq Tree(w, j, v)
  BY Nested, ComponentMonotone DEF Tree
<1>2. IsFiniteSet(Tree(w, j, v))
  BY NodesAssumption, FS_Subset DEF Tree, Component
<1>3. QED
  BY <1>1, <1>2, FS_Subset

\* A sampled edge is an edge of the graph between two trees of a tier where the sampled
\* tree did not grow.
LEMMA SampleCrosses ==
    ASSUME NEW g \in SUBSET Edges, NEW w \in Weights, NEW i \in Tiers, NEW v \in Nodes,
           NEW a, NEW b, {a, b} \in CutOf(g, Tree(w, i, v))
    PROVE  /\ a \in Nodes /\ b \in Nodes /\ a # b /\ {a, b} \in g
           /\ a \in Tree(w, i, v) <=> b \notin Tree(w, i, v)
           /\ ~Connected(UpTo(w, i), a, b)
<1> DEFINE tree == Tree(w, i, v)
<1>1. {a, b} \in g /\ (a \in tree <=> b \notin tree)
  BY DEF CutOf
<1>2. a \in Nodes /\ b \in Nodes /\ a # b
  <2>1. {a, b} \in Edges
    BY <1>1
  <2>2. a \in Nodes /\ b \in Nodes
    BY <2>1 DEF Edges
  <2>3. QED
    BY <1>1, <2>2
<1>3. UpTo(w, i) \in SUBSET Edges
  BY Nested
<1>4. tree \in ClosedSets(UpTo(w, i))
  BY <1>3, ComponentClosed DEF Tree
<1>5. ~Connected(UpTo(w, i), a, b)
  BY <1>1, <1>2, <1>3, <1>4, SameSide
<1>6. QED
  BY <1>1, <1>2, <1>5

\* The edges that may be cut for a sampled edge: the heaviest of the path between its ends.
Heaviest(w, a, b) == {e \in PathEdges(Linked(w), a, b) :
                         \A f \in PathEdges(Linked(w), a, b) : w[f] <= w[e]}

\* The evicted edge is in no tier up to the one that grows.
LEMMA EvictedIsHigh ==
    ASSUME NEW w \in Weights, Acyclic(Linked(w)), NEW t \in Tiers, NEW a \in Nodes, NEW b \in Nodes,
           Connected(Linked(w), a, b), ~Connected(UpTo(w, t), a, b), NEW e \in Heaviest(w, a, b)
    PROVE  /\ e \in Linked(w) /\ e \in Edges /\ ~Connected(Linked(w) \ {e}, a, b)
           /\ w[e] > t
           /\ \A i \in Tiers : w[e] <= i => Connected(UpTo(w, i), a, b)
<1>1. /\ e \in Linked(w) /\ ~Connected(Linked(w) \ {e}, a, b)
      /\ \A f \in PathEdges(Linked(w), a, b) : w[f] <= w[e]
  BY DEF Heaviest, PathEdges
<1>2. ASSUME NEW i \in Tiers, ~Connected(UpTo(w, i), a, b)
      PROVE  w[e] > i
  <2>1. Linked(w) \in SUBSET Edges /\ UpTo(w, i) \in SUBSET Linked(w)
    BY Nested
  <2>2. PICK f \in Linked(w) \ UpTo(w, i) : f \in PathEdges(Linked(w), a, b)
    BY <1>2, <2>1, PathLeavesPart
  <2>3. f \in Edges /\ e \in Edges /\ w[f] \in Nat /\ w[e] \in Nat /\ i \in Nat
    BY <1>1, <2>1, <2>2, Nested, TierNumbers
  <2>4. w[f] > i
    BY <2>2, <2>3 DEF UpTo, Linked
  <2>5. w[f] <= w[e]
    BY <1>1, <2>2
  <2>6. QED
    BY <2>3, <2>4, <2>5
<1>3. e \in Edges /\ w[e] \in Nat
  BY <1>1, Nested
<1>4. \A i \in Tiers : w[e] <= i => Connected(UpTo(w, i), a, b)
  BY <1>2, <1>3, TierNumbers
<1>5. QED
  BY <1>1, <1>2, <1>3, <1>4

\* What becomes of the weights when tier t links the edge {a, b}.
Grows(g, w, y, t, a, b) ==
    /\ Sound(g, y)
    /\ \A i \in Tiers : i < t => UpTo(y, i) = UpTo(w, i)
    /\ \A i \in Tiers : i >= t => {a, b} \in UpTo(y, i)
    /\ \A i \in Tiers : \A v \in Nodes :
          /\ Tree(w, i, v) \subseteq Tree(y, i, v)
          /\ a \notin Tree(y, i, v) /\ b \notin Tree(y, i, v) => Tree(y, i, v) = Tree(w, i, v)

\* z is what is linked once room is made for the edge.
MakesRoom(w, z, a, b) ==
    \/ z = w /\ ~Connected(Linked(w), a, b)
    \/ Connected(Linked(w), a, b) /\ \E e \in Heaviest(w, a, b) : z = Without(w, e)

LEMMA RoomMade ==
    ASSUME NEW g, NEW w, Sound(g, w), NEW t \in 1 .. Top, NEW a \in Nodes, NEW b \in Nodes,
           ~Connected(UpTo(w, t), a, b), NEW z, MakesRoom(w, z, a, b)
    PROVE  /\ z \in Weights /\ Linked(z) \subseteq Linked(w) /\ ~Connected(Linked(z), a, b)
           /\ \A i \in Tiers : i <= t => UpTo(z, i) = UpTo(w, i)
           /\ \A i \in Tiers : \/ UpTo(z, i) = UpTo(w, i)
                               \/ \E e \in UpTo(w, i) : /\ UpTo(z, i) = UpTo(w, i) \ {e}
                                                        /\ Connected(UpTo(w, i), a, b)
<1>1. w \in Weights /\ Acyclic(Linked(w)) /\ t \in Tiers /\ t \in Nat
  BY TierNumbers DEF Sound
<1>2. CASE z = w /\ ~Connected(Linked(w), a, b)
  BY <1>1, <1>2
<1>3. CASE Connected(Linked(w), a, b) /\ \E e \in Heaviest(w, a, b) : z = Without(w, e)
  <2>1. PICK e \in Heaviest(w, a, b) : z = Without(w, e)
    BY <1>3
  <2>2. /\ e \in Linked(w) /\ e \in Edges /\ ~Connected(Linked(w) \ {e}, a, b)
        /\ w[e] > t /\ \A i \in Tiers : w[e] <= i => Connected(UpTo(w, i), a, b)
    BY <1>1, <1>3, EvictedIsHigh
  <2>3. z \in Weights /\ Linked(z) = Linked(w) \ {e} /\ \A i : UpTo(z, i) = UpTo(w, i) \ {e}
    BY <1>1, <2>1, <2>2, WithoutEdge
  <2>4. w[e] \in Nat /\ \A i \in Tiers : i \in Nat
    BY <1>1, <2>2, Nested, TierNumbers
  <2>5. \A i \in Tiers : i <= t => e \notin UpTo(w, i)
    BY <1>1, <2>2, <2>4 DEF UpTo
  <2>6. \A i \in Tiers : e \in UpTo(w, i) => w[e] <= i
    BY DEF UpTo
  <2>7. ASSUME NEW i \in Tiers
        PROVE  \/ UpTo(z, i) = UpTo(w, i)
               \/ \E f \in UpTo(w, i) : /\ UpTo(z, i) = UpTo(w, i) \ {f}
                                        /\ Connected(UpTo(w, i), a, b)
    <3>1. CASE e \in UpTo(w, i)
      BY <2>2, <2>3, <2>6, <3>1
    <3>2. CASE e \notin UpTo(w, i)
      BY <2>3, <3>2
    <3>3. QED
      BY <3>1, <3>2
  <2>8. QED
    BY <2>2, <2>3, <2>5, <2>7
<1>4. QED
  BY <1>2, <1>3 DEF MakesRoom

LEMMA Growing ==
    ASSUME NEW g, NEW w, Sound(g, w), NEW t \in 1 .. Top, NEW a \in Nodes, NEW b \in Nodes,
           a # b, NEW e, e = {a, b}, e \in g, ~Connected(UpTo(w, t), a, b),
           NEW z, MakesRoom(w, z, a, b), NEW y, y = WithWeight(z, e, t)
    PROVE  Grows(g, w, y, t, a, b)
<1>1. w \in Weights /\ Acyclic(Linked(w)) /\ t \in Tiers /\ t \in Nat /\ t # 0
      /\ g \in SUBSET Edges /\ Linked(w) \subseteq g
  BY TierNumbers DEF Sound
<1>2. /\ z \in Weights /\ Linked(z) \subseteq Linked(w) /\ ~Connected(Linked(z), a, b)
      /\ \A i \in Tiers : i <= t => UpTo(z, i) = UpTo(w, i)
  BY RoomMade
<1>3. LinksInTiers(z, a, b, t, y) /\ Adds(z, e, t, y)
  BY <1>1, <1>2, LinkedInTiers
<1>4. Sound(g, y)
  <2>1. Acyclic(Linked(z))
    BY <1>1, <1>2, AcyclicSubset
  <2>2. y \in Weights /\ Linked(y) = Linked(z) \cup {e} /\ Acyclic(Linked(y))
    BY <1>3, <2>1 DEF LinksInTiers, Adds
  <2>3. QED
    BY <1>1, <1>2, <2>2 DEF Sound
<1>5. \A i \in Tiers : i \in Nat
  BY TierNumbers
<1>6. ASSUME NEW i \in Tiers, i < t
      PROVE  UpTo(y, i) = UpTo(w, i)
  <2>1. ~(t <= i) /\ i <= t
    BY <1>1, <1>5, <1>6
  <2>2. UpTo(y, i) = UpTo(z, i)
    BY <1>3, <2>1 DEF Adds
  <2>3. QED
    BY <1>2, <2>1, <2>2
<1>7. \A i \in Tiers : i >= t => UpTo(y, i) = UpTo(z, i) \cup {e}
  BY <1>1, <1>3, <1>5 DEF Adds
<1>8. ASSUME NEW i \in Tiers, NEW v \in Nodes
      PROVE  /\ Tree(w, i, v) \subseteq Tree(y, i, v)
             /\ a \notin Tree(y, i, v) /\ b \notin Tree(y, i, v) => Tree(y, i, v) = Tree(w, i, v)
  <2> DEFINE old == UpTo(w, i)
             new == UpTo(y, i)
  <2>1. old \in SUBSET Edges /\ new \in SUBSET Edges
    BY <1>1, <1>4, Nested DEF Sound
  <2>2. CASE i < t
    BY <1>6, <2>2 DEF Tree
  <2>3. CASE i >= t /\ UpTo(z, i) = old
    <3>1. new = old \cup {{a, b}}
      BY <1>7, <2>3
    <3>2. Component(old, v) \subseteq Component(new, v)
      BY <3>1, ComponentMonotone
    <3>3. ASSUME a \notin Component(new, v), b \notin Component(new, v)
          PROVE  Component(new, v) = Component(old, v)
      <4>1. a \notin Component(old, v) /\ b \notin Component(old, v)
        BY <3>2, <3>3
      <4>2. new \subseteq old \cup {{a, b}} /\ old \in SUBSET new
        BY <3>1
      <4> HIDE DEF old, new
      <4>3. QED
        BY <2>1, <4>1, <4>2, UntouchedTree
    <3>4. QED
      BY <3>2, <3>3 DEF Tree
  <2>4. CASE i >= t /\ UpTo(z, i) # old
    <3>1. PICK f \in old : UpTo(z, i) = old \ {f} /\ Connected(old, a, b)
      BY <2>4, RoomMade
    <3>2. new = (old \ {f}) \cup {{a, b}}
      BY <1>7, <2>4, <3>1
    <3>3. ~Connected(old \ {f}, a, b)
      <4>1. UpTo(z, i) \subseteq Linked(z)
        BY <1>2, Nested
      <4>2. QED
        BY <1>2, <3>1, <4>1, ConnectedMonotone
    <3>4. Component(new, v) = Component(old, v)
      <4> HIDE DEF old, new
      <4>1. QED
        BY <2>1, <3>1, <3>2, <3>3, SwapKeepsTrees
    <3>5. QED
      BY <3>4 DEF Tree
  <2>5. QED
    BY <1>1, <1>5, <2>2, <2>3, <2>4
<1>9. QED
  BY <1>4, <1>6, <1>7, <1>8 DEF Grows

------------------------------------------------------------------------------
\* Agreement is invariant

\* A step that makes the ranks hold a state of agreement does so.
LEMMA HoldIs ==
    ASSUME NEW STATE h, Agreed(h), Hold(h)
    PROVE  Holding' = h /\ graph' = h.graph /\ lct' = h.lct
<1>1. h = State(h.graph, h.lct)
  BY AgreedState
<1>2. h = [graph |-> h.graph, ett |-> h.ett, toggled |-> h.toggled, lct |-> h.lct,
           query_ett |-> h.query_ett]
  BY <1>1 DEF State
<1>3. QED
  BY <1>2 DEF Hold, Holding

LEMMA Kept ==
    ASSUME UNCHANGED contents
    PROVE  Holding' = Holding /\ graph' = graph /\ lct' = lct
  BY DEF contents, Holding

LEMMA ApplyAgrees ==
    ASSUME BatchInv, NEW n \in 1 .. BatchSize, NEW us \in [1 .. n -> Updates], ApplyBatch(us)
    PROVE  /\ BatchInv'
           /\ before'[1] = Holding /\ phase = "idle" /\ phase' = "reduce"
<1> DEFINE held == Greedy(us)
<1>1. /\ us \in Seq(Updates) /\ Len(us) = n /\ DOMAIN us = 1 .. n /\ n \in Nat /\ n >= 1
  BY MpiBatchAssumption
<1>2. /\ phase = "idle" /\ Valid(us) /\ batch' = us /\ phase' = "reduce"
      /\ Hold(held[n])
      /\ split_revert' = [k \in 1 .. n |-> Reverts(held[k - 1], us[k])]
      /\ checks' = [i \in Tiers |-> [k \in 1 .. n |-> Ends(held[k], i, us[k])]]
      /\ before' = [k \in 1 .. n |-> held[k - 1]]
  BY <1>1 DEF ApplyBatch
<1>3. /\ held[0] = Holding
      /\ \A k \in 1 .. n : /\ held[k] = Applied(held[k - 1], us[k])
                           /\ Agreed(held[k - 1]) /\ Agreed(held[k])
                           /\ Fitting(held[k - 1].graph, us[k])
  BY <1>1, <1>2, GreedyAgrees DEF BatchInv
<1> HIDE DEF held
<1>4. Holding' = held[n]
  BY <1>1, <1>2, <1>3, HoldIs
<1>5. \A k \in 1 .. n : before'[k] = held[k - 1] /\ batch'[k] = us[k]
  BY <1>2
<1>6. \A k \in 1 .. n : Seen(k)' = held[k]
  BY <1>3, <1>5 DEF Seen
<1>7. History'
  <2>1. \A k \in 1 .. n : k # n => before'[k + 1] = held[k]
    <3>1. TAKE k \in 1 .. n
    <3>2. HAVE k # n
    <3>3. k + 1 \in 1 .. n /\ (k + 1) - 1 = k
      BY <1>1, <3>2
    <3>4. QED
      BY <1>5, <3>3
  <2>2. Len(batch') = n /\ batch' \in Seq(Updates)
    BY <1>1, <1>2
  <2>3. \A k \in 1 .. n : split_revert'[k] = Reverts(before'[k], batch'[k])
    BY <1>2, <1>5
  <2>4. QED
    BY <1>1, <1>3, <1>5, <1>6, <2>1, <2>2, <2>3 DEF History
<1>8. \A i \in Tiers : \A k \in 1 .. n : checks'[i][k] = Ends(Seen(k)', i, batch'[k])
  BY <1>2, <1>5, <1>6
<1>9. n \in 1 .. n /\ 1 \in 1 .. n /\ Len(batch') = n
  BY <1>1, <1>2
<1>10. Agreed(Holding') /\ Holding' = Seen(n)'
  BY <1>3, <1>4, <1>6, <1>9
<1>11. before'[1] = Holding
  BY <1>3, <1>5, <1>9
<1>12. QED
  BY <1>2, <1>7, <1>8, <1>9, <1>10, <1>11 DEF BatchInv

LEMMA ReduceAgrees ==
    ASSUME BatchInv, AllReduce
    PROVE  BatchInv'
<1>1. Holding' = Holding /\ phase = "reduce"
  BY Kept DEF AllReduce
<1>2. CASE EndBatch
  BY <1>1, <1>2 DEF EndBatch, BatchInv
<1>3. CASE ~EndBatch
  <2>1. PICK k \in DOMAIN batch : /\ phase' = "undo" /\ update_idx' = k
                                  /\ UNCHANGED <<batch, split_revert, checks, before, tier, endpoint, message>>
    BY <1>3 DEF AllReduce
  <2>2. DOMAIN batch = 1 .. Len(batch)
    BY <1>1 DEF BatchInv, History
  <2>3. History' /\ Seen(Len(batch))' = Seen(Len(batch))
    BY <1>1, <2>1 DEF BatchInv, History, Seen
  <2>4. QED
    BY <1>1, <2>1, <2>2, <2>3 DEF BatchInv
<1>4. QED
  BY <1>2, <1>3

LEMMA RollBackAgrees ==
    ASSUME BatchInv, RollBack
    PROVE  BatchInv' /\ Holding' = before[update_idx]
<1>1. /\ phase = "undo" /\ phase' = "next" /\ Hold(Undoing[Len(batch)])
      /\ UNCHANGED <<batch, split_revert, before, update_idx>>
  BY DEF RollBack
<1>2. Undoing[Len(batch)] = before[update_idx]
  BY <1>1, UndoingHolds DEF BatchInv
<1>3. Agreed(before[update_idx])
  BY <1>1 DEF BatchInv, History
<1>4. Holding' = before[update_idx] /\ graph' = before[update_idx].graph
  BY <1>1, <1>2, <1>3, HoldIs
<1>5. History'
  BY <1>1 DEF BatchInv, History, Seen
<1>6. QED
  BY <1>1, <1>3, <1>4, <1>5 DEF BatchInv

LEMMA StartAgrees ==
    ASSUME BatchInv, StartUpdate
    PROVE  /\ BatchInv'
           /\ phase = "next" /\ phase' = "refresh" /\ tier' = 1 /\ endpoint' = 1
           /\ batch' = batch /\ update_idx' = update_idx
           /\ graph' = Engine!Toggle(graph, EdgeOf(batch[update_idx]))
           /\ lct' = AfterUpdate(lct, batch[update_idx])
           /\ Fitting(graph, batch[update_idx])
<1> DEFINE u == batch[update_idx]
           h == Applied(Holding, u)
<1>1. /\ phase = "next" /\ phase' = "refresh" /\ Hold(h) /\ tier' = 1 /\ endpoint' = 1
      /\ message' \in Messages(h, 0)
      /\ UNCHANGED <<batch, split_revert, before, update_idx>>
  BY DEF StartUpdate
<1>2. update_idx \in 1 .. Len(batch) /\ History /\ graph = before[update_idx].graph /\ Agreed(Holding)
  BY <1>1 DEF BatchInv
<1>3. Fitting(graph, u) /\ Holding.graph = graph /\ Holding.lct = lct
  BY <1>2 DEF History, Holding
<1>4. /\ Agreed(h) /\ h.graph = Engine!Toggle(graph, EdgeOf(u)) /\ h.lct = AfterUpdate(lct, u)
  BY <1>2, <1>3, AppliedAgreed
<1>5. h.graph = Seen(update_idx).graph
  BY <1>2, <1>4, SeenFacts
<1> HIDE DEF h
<1>6. Holding' = h /\ graph' = h.graph /\ lct' = h.lct
  BY <1>1, <1>4, HoldIs
<1>7. History' /\ Seen(update_idx)' = Seen(update_idx)
  BY <1>1, <1>2 DEF History, Seen
<1>8. Messages(Holding, tier - 1)' = Messages(h, 0)
  BY <1>1, <1>6 DEF Messages
<1>9. tier' \in 1 .. Top
  BY <1>1, TierNumbers
<1>10. QED
  BY <1>1, <1>2, <1>3, <1>4, <1>5, <1>6, <1>7, <1>8, <1>9 DEF BatchInv

\* What the current tier was told of an end of the update, and finds itself.
Told == message[endpoint]
End  == EndOf(batch[update_idx], endpoint)

LEMMA ToldFacts ==
    ASSUME BatchInv, phase = "refresh"
    PROVE  /\ batch[update_idx] \in Updates /\ End \in Nodes
           /\ End = IF endpoint = 1 THEN batch[update_idx].src ELSE batch[update_idx].dst
           /\ Sound(graph, lct)
           /\ tier \in 1 .. Top /\ tier \in Tiers /\ tier - 1 \in Tiers /\ tier \in Nat
           /\ Told.size = Cardinality(Tree(lct, tier - 1, End))
           /\ Told.sample \in Engine!Samples(CutOf(graph, Tree(lct, tier - 1, End)))
           /\ Engine!GetSize(tier, End) = Cardinality(Tree(lct, tier, End))
<1> DEFINE u == batch[update_idx]
           i == tier - 1
           ends == Ends(Holding, i, u)
<1>1. /\ update_idx \in 1 .. Len(batch) /\ History /\ Agreed(Holding)
      /\ tier \in 1 .. Top /\ endpoint \in {1, 2} /\ message \in Messages(Holding, i)
  BY DEF BatchInv
<1>2. u \in Updates /\ u.src \in Nodes /\ u.dst \in Nodes
  BY <1>1, SeenFacts, EdgeEnds
<1>3. End \in Nodes /\ End = IF endpoint = 1 THEN u.src ELSE u.dst
  BY <1>1, <1>2 DEF End, EndOf
<1>4. tier \in Tiers /\ i \in Tiers /\ tier \in Nat
  BY <1>1, TierNumbers
<1>5. /\ Sound(graph, lct)
      /\ ett[i] = UpTo(lct, i) /\ toggled[i] = graph /\ ett[tier] = UpTo(lct, tier)
  BY <1>1, <1>4, AgreedRanks
<1>6. /\ Holding.ett[i] = UpTo(lct, i) /\ Holding.toggled[i] = graph
  BY <1>5 DEF Holding
<1>7. \A k \in {1, 2} : /\ ends[k].size = Cardinality(Tree(lct, i, EndOf(u, k)))
                        /\ ends[k].cut = CutOf(graph, Tree(lct, i, EndOf(u, k)))
  BY <1>6 DEF Ends, Tree, EndOf
<1>8. PICK s \in Engine!Samples(ends[1].cut), t \in Engine!Samples(ends[2].cut) :
         message = <<[size |-> ends[1].size, sample |-> s], [size |-> ends[2].size, sample |-> t]>>
  BY <1>1 DEF Messages
<1>9. /\ Told.size = Cardinality(Tree(lct, i, End))
      /\ Told.sample \in Engine!Samples(CutOf(graph, Tree(lct, i, End)))
  <2> HIDE DEF ends
  <2>1. CASE endpoint = 1
    BY <1>7, <1>8, <2>1 DEF Told, End
  <2>2. CASE endpoint = 2
    BY <1>7, <1>8, <2>2 DEF Told, End
  <2>3. QED
    BY <1>1, <2>1, <2>2
<1>10. Engine!GetSize(tier, End) = Cardinality(Tree(lct, tier, End))
  BY <1>5, EngineVocabulary DEF Engine!GetSize, Tree
<1>11. QED
  BY <1>1, <1>2, <1>3, <1>4, <1>5, <1>9, <1>10

\* An end that is isolated: its tree is the same in both tiers, and the sampled edge
\* leaves it.
LEMMA IsolatedEnd ==
    ASSUME BatchInv, phase = "refresh", Told.size = Engine!GetSize(tier, End),
           NEW a \in Nodes, NEW b \in Nodes, Told.sample = {a, b}
    PROVE  /\ a # b /\ {a, b} \in graph
           /\ Tree(lct, tier - 1, End) = Tree(lct, tier, End)
           /\ a \in Tree(lct, tier, End) <=> b \notin Tree(lct, tier, End)
           /\ ~Connected(UpTo(lct, tier), a, b)
<1>1. Sound(graph, lct) /\ graph \in SUBSET Edges /\ lct \in Weights
  BY ToldFacts DEF Sound
<1>2. Tree(lct, tier - 1, End) = Tree(lct, tier, End)
  <2>1. tier - 1 <= tier
    BY ToldFacts
  <2>2. QED
    BY <1>1, <2>1, ToldFacts, SameSize
<1>3. {a, b} \in CutOf(graph, Tree(lct, tier, End))
  <2>1. {a, b} # Engine!NoEdge
    BY DEF Engine!NoEdge
  <2>2. QED
    BY <1>2, <2>1, ToldFacts DEF Engine!Samples
<1>4. QED
  BY <1>1, <1>2, <1>3, ToldFacts, SampleCrosses

\* What the ranks hold once the current tier has linked the edge.
LEMMA GrownTier ==
    ASSUME BatchInv, phase = "refresh", Told.size = Engine!GetSize(tier, End),
           NEW a \in Nodes, NEW b \in Nodes, Told.sample = {a, b},
           NEW h \in (IF Connected(Engine!LctEdges, a, b)
                     THEN {Evicted(Holding, e) : e \in Engine!MaxPathEdges(a, b)}
                     ELSE {Holding})
    PROVE  \E y : Grown(h, a, b) = State(graph, y) /\ Grows(graph, lct, y, tier, a, b)
<1>1. /\ Sound(graph, lct) /\ lct \in Weights /\ tier \in Tiers /\ tier \in 1 .. Top /\ tier # 0
      /\ Holding = State(graph, lct)
  BY ToldFacts, AgreedState DEF Sound, BatchInv, Holding
<1>2. a # b /\ {a, b} \in graph /\ ~Connected(UpTo(lct, tier), a, b)
  BY IsolatedEnd
<1>3. Engine!LctEdges = Linked(lct) /\ Engine!MaxPathEdges(a, b) = Heaviest(lct, a, b)
  BY EngineVocabulary DEF Engine!MaxPathEdges, Heaviest
<1>4. PICK z : h = State(graph, z) /\ MakesRoom(lct, z, a, b)
  <2>1. CASE ~Connected(Linked(lct), a, b)
    BY <1>1, <1>3, <2>1 DEF MakesRoom
  <2>2. CASE Connected(Linked(lct), a, b)
    <3>1. PICK e \in Heaviest(lct, a, b) : h = Evicted(Holding, e)
      BY <1>3, <2>2
    <3>2. e \in Linked(lct)
      BY <3>1 DEF Heaviest, PathEdges
    <3>3. h = State(graph, Without(lct, e))
      BY <1>1, <3>1, <3>2, EvictedState
    <3>4. MakesRoom(lct, Without(lct, e), a, b)
      BY <2>2, <3>1 DEF MakesRoom
    <3>5. QED
      BY <3>3, <3>4
  <2>3. QED
    BY <2>1, <2>2
<1>5. z \in Weights /\ ~Connected(Linked(z), a, b)
  BY <1>1, <1>2, <1>4, RoomMade
<1> DEFINE y == WithWeight(z, {a, b}, tier)
<1>6. Grown(h, a, b) = State(graph, y)
  BY <1>1, <1>2, <1>4, <1>5, GrownState
<1>7. Grows(graph, lct, y, tier, a, b)
  <2> DEFINE e == {a, b}
  <2>1. y = WithWeight(z, e, tier) /\ e = {a, b} /\ e \in graph
    BY <1>2
  <2> HIDE DEF y, e
  <2>2. QED
    BY <1>1, <1>2, <1>4, <2>1, Growing
<1>8. QED
  BY <1>6, <1>7

\* The next end, tier or update: what the next tier is told is what the ranks hold, and
\* what this tier was told of the other end still is.
LEMMA OnwardAgrees ==
    ASSUME BatchInv, phase = "refresh", NEW STATE h, Agreed(h), h.graph = graph,
           h.ett[tier - 1] = ett[tier - 1], Holding' = h, Onward(h)
    PROVE  BatchInv'
<1> DEFINE u == batch[update_idx]
           n == Len(batch)
<1>1. /\ update_idx \in 1 .. n /\ History /\ n \in Nat /\ update_idx \in Nat
      /\ tier \in 1 .. Top /\ tier \in Nat /\ tier - 1 \in Tiers /\ endpoint \in {1, 2}
      /\ message \in Messages(Holding, tier - 1) /\ graph = Seen(update_idx).graph
  BY ToldFacts DEF BatchInv, History
<1>2. Agreed(Holding)' /\ graph' = graph
  BY DEF Holding
<1>3. Top \in Nat
  BY TierNumbers
<1>4. CASE endpoint = 1
  <2>1. /\ endpoint' = 2
        /\ UNCHANGED <<batch, split_revert, checks, before, phase, update_idx, tier, message>>
    BY <1>4 DEF Onward
  <2>2. h.toggled[tier - 1] = graph
    BY <1>1, AgreedState, Fields
  <2>3. Ends(h, tier - 1, u) = Ends(Holding, tier - 1, u)
    <3>1. Holding.ett[tier - 1] = ett[tier - 1] /\ Holding.toggled[tier - 1] = graph
      BY <1>1, AgreedRanks DEF Holding, BatchInv
    <3>2. QED
      BY <2>2, <3>1 DEF Ends
  <2>4. Messages(Holding, tier - 1)' = Messages(Holding, tier - 1)
    BY <2>1, <2>3 DEF Messages
  <2>5. History' /\ Seen(update_idx)' = Seen(update_idx)
    BY <1>1, <2>1 DEF History, Seen
  <2>6. QED
    BY <1>1, <1>2, <2>1, <2>4, <2>5 DEF BatchInv
<1>5. CASE endpoint = 2 /\ tier < Top
  <2>1. /\ message' \in Messages(h, tier) /\ tier' = tier + 1 /\ endpoint' = 1
        /\ UNCHANGED <<batch, split_revert, checks, before, phase, update_idx>>
    BY <1>1, <1>3, <1>5 DEF Onward
  <2>2. Messages(Holding, tier - 1)' = Messages(h, tier)
    BY <1>1, <2>1 DEF Messages
  <2>3. History' /\ Seen(update_idx)' = Seen(update_idx)
    BY <1>1, <2>1 DEF History, Seen
  <2>4. tier' \in 1 .. Top
    BY <1>1, <1>3, <1>5, <2>1
  <2>5. QED
    BY <1>1, <1>2, <2>1, <2>2, <2>3, <2>4 DEF BatchInv
<1>6. CASE endpoint = 2 /\ tier = Top /\ update_idx = n
  <2>1. EndBatch
    BY <1>1, <1>3, <1>6 DEF Onward
  <2>2. QED
    BY <1>2, <2>1 DEF EndBatch, BatchInv
<1>7. CASE endpoint = 2 /\ tier = Top /\ update_idx # n
  <2>1. /\ update_idx' = update_idx + 1 /\ phase' = "next"
        /\ UNCHANGED <<batch, split_revert, checks, before>>
    BY <1>1, <1>3, <1>7 DEF Onward
  <2>2. update_idx' \in 1 .. n
    BY <1>1, <1>7, <2>1
  <2>3. before[update_idx + 1] = Seen(update_idx)
    BY <1>1, <1>7 DEF History
  <2>4. History'
    BY <1>1, <2>1 DEF History, Seen
  <2>5. QED
    BY <1>1, <1>2, <2>1, <2>2, <2>3, <2>4 DEF BatchInv
<1>8. QED
  BY <1>1, <1>3, <1>4, <1>5, <1>6, <1>7

\* An end is skipped, or the current tier links an edge that was sampled at it.
Isolated == Told.size = Engine!GetSize(tier, End) /\ Told.sample # {}
Skips == ~Isolated /\ Holding' = Holding
Links(a, b, y) == /\ Isolated /\ Told.sample = {a, b}
                  /\ Holding' = State(graph, y)
                  /\ Grows(graph, lct, y, tier, a, b)

LEMMA RefreshSteps ==
    ASSUME BatchInv, RefreshTier
    PROVE  /\ phase = "refresh" /\ graph' = graph
           /\ BatchInv'
           /\ \E h : Onward(h)
           /\ Skips \/ \E a, b \in Nodes : \E y : Links(a, b, y)
<1> DEFINE u == batch[update_idx]
           choices(a, b) == IF Connected(Engine!LctEdges, a, b)
                            THEN {Evicted(Holding, e) : e \in Engine!MaxPathEdges(a, b)}
                            ELSE {Holding}
<1>1. phase = "refresh"
  BY DEF RefreshTier
<1>2. /\ Agreed(Holding) /\ Holding.graph = graph
      /\ tier \in 1 .. Top /\ tier \in Tiers /\ tier - 1 \in Tiers /\ tier \in Nat
      /\ ett[tier - 1] = UpTo(lct, tier - 1)
  <2>1. Agreed(Holding)
    BY DEF BatchInv
  <2>2. QED
    BY <1>1, <2>1, ToldFacts, AgreedRanks DEF Holding
<1>3. End = IF endpoint = 1 THEN u.src ELSE u.dst
  BY <1>1, ToldFacts
<1>4. \/ ~Isolated /\ Onward(Holding) /\ UNCHANGED contents
      \/ /\ Isolated
         /\ \E a, b \in Nodes : \E h \in choices(a, b) :
               Told.sample = {a, b} /\ Hold(Grown(h, a, b)) /\ Onward(Grown(h, a, b))
  BY <1>3 DEF RefreshTier, Told, Isolated, NoSample
<1>5. CASE ~Isolated /\ Onward(Holding) /\ UNCHANGED contents
  <2>1. Holding' = Holding /\ graph' = graph
    BY <1>5, Kept
  <2>2. Holding.ett[tier - 1] = ett[tier - 1]
    BY DEF Holding
  <2>3. BatchInv'
    BY <1>1, <1>2, <1>5, <2>1, <2>2, OnwardAgrees
  <2>4. QED
    BY <1>1, <1>5, <2>1, <2>3 DEF Skips
<1>6. CASE /\ Isolated
           /\ \E a, b \in Nodes : \E h \in choices(a, b) :
                 Told.sample = {a, b} /\ Hold(Grown(h, a, b)) /\ Onward(Grown(h, a, b))
  <2>1. PICK a \in Nodes, b \in Nodes : \E h \in choices(a, b) :
           Told.sample = {a, b} /\ Hold(Grown(h, a, b)) /\ Onward(Grown(h, a, b))
    BY <1>6
  <2>2. PICK h \in choices(a, b) :
           Told.sample = {a, b} /\ Hold(Grown(h, a, b)) /\ Onward(Grown(h, a, b))
    BY <2>1
  <2>3. PICK y : Grown(h, a, b) = State(graph, y) /\ Grows(graph, lct, y, tier, a, b)
    BY <1>1, <1>6, <2>2, GrownTier DEF Isolated
  <2>4. Hold(State(graph, y)) /\ Onward(State(graph, y))
    BY <2>2, <2>3
  <2>5. Agreed(State(graph, y)) /\ State(graph, y).graph = graph
    BY <2>3, AgreedState, Fields DEF Grows
  <2>6. State(graph, y).ett[tier - 1] = ett[tier - 1]
    <3>1. State(graph, y).ett[tier - 1] = UpTo(y, tier - 1)
      BY <1>2, Fields
    <3>2. tier - 1 < tier
      BY <1>2
    <3>3. UpTo(y, tier - 1) = UpTo(lct, tier - 1)
      BY <1>2, <2>3, <3>2 DEF Grows
    <3>4. QED
      BY <1>2, <3>1, <3>3
  <2>7. Holding' = State(graph, y) /\ graph' = graph
    BY <2>4, <2>5, HoldIs
  <2>8. BatchInv'
    BY <1>1, <2>4, <2>5, <2>6, <2>7, OnwardAgrees
  <2>9. Links(a, b, y)
    BY <1>6, <2>2, <2>3, <2>7 DEF Links
  <2>10. QED
    BY <1>1, <2>4, <2>7, <2>8, <2>9
<1>7. QED
  BY <1>4, <1>5, <1>6

\* In the initial state the ranks hold nothing.
LEMMA InitAgrees ==
    ASSUME Init
    PROVE  BatchInv /\ graph = {} /\ lct = [e \in Edges |-> 0]
<1> DEFINE w == [e \in Edges |-> 0]
<1>1. /\ graph = {} /\ lct = w /\ phase = "idle" /\ query_ett = {}
      /\ ett = [i \in Tiers |-> {}] /\ toggled = [i \in Tiers |-> {}]
  BY DEF Init
<1>2. w \in Weights /\ Linked(w) = {} /\ \A i : UpTo(w, i) = {}
  BY TierNumbers DEF Weights, Linked, UpTo
<1>3. Acyclic({})
  BY DEF Acyclic
<1> HIDE DEF w
<1>4. Sound({}, w)
  BY <1>2, <1>3 DEF Sound
<1>5. Holding = State({}, w)
  BY <1>1, <1>2 DEF Holding, State
<1>6. Agreed(Holding)
  BY <1>4, <1>5, AgreedState
<1>7. QED
  BY <1>1, <1>6 DEF BatchInv, w

LEMMA StutterAgrees ==
    ASSUME BatchInv, UNCHANGED vars
    PROVE  BatchInv' /\ Holding' = Holding /\ graph' = graph /\ lct' = lct
<1>1. Holding' = Holding /\ Seen(Len(batch))' = Seen(Len(batch)) /\ Seen(update_idx)' = Seen(update_idx)
  BY DEF vars, Holding, Seen
<1>2. History' <=> History
  BY DEF vars, History, Seen
<1>3. Messages(Holding, tier - 1)' = Messages(Holding, tier - 1)
  BY <1>1 DEF vars, Messages
<1>4. (phase = "reduce" => \A i \in Tiers : \A k \in 1 .. Len(batch) :
                              checks[i][k] = Ends(Seen(k), i, batch[k]))' <=>
      (phase = "reduce" => \A i \in Tiers : \A k \in 1 .. Len(batch) :
                              checks[i][k] = Ends(Seen(k), i, batch[k]))
  BY DEF vars, Seen
<1>5. QED
  BY <1>1, <1>2, <1>3, <1>4 DEF BatchInv, vars

\* THE INVARIANT.  Whatever the sketches answer, the ranks agree after every step, and
\* while a batch is being checked, rolled back and refreshed they hold what its updates
\* make of what they held before.
THEOREM Invariance == Spec => []BatchInv
<1>1. Init => BatchInv
  BY InitAgrees
<1>2. BatchInv /\ [Next]_vars => BatchInv'
  <2>1. SUFFICES ASSUME BatchInv, [Next]_vars PROVE BatchInv'
    OBVIOUS
  <2>2. ASSUME NEW n \in 1 .. BatchSize, NEW us \in [1 .. n -> Updates], ApplyBatch(us)
        PROVE  BatchInv'
    BY <2>1, <2>2, ApplyAgrees
  <2>3. CASE AllReduce
    BY <2>1, <2>3, ReduceAgrees
  <2>4. CASE RollBack
    BY <2>1, <2>4, RollBackAgrees
  <2>5. CASE StartUpdate
    BY <2>1, <2>5, StartAgrees
  <2>6. CASE RefreshTier
    BY <2>1, <2>6, RefreshSteps
  <2>7. CASE UNCHANGED vars
    BY <2>1, <2>7, StutterAgrees
  <2>8. QED
    BY <2>1, <2>2, <2>3, <2>4, <2>5, <2>6, <2>7 DEF Next
<1>3. QED
  BY <1>1, <1>2, PTL DEF Spec

\* THE RANKS AGREE.  Through the application of a batch, its roll-back and every cut and
\* link of a refresh, the tiers and the query forest of all ranks are what the link-cut
\* tree of the input node says, without a cycle, and all tiers summarise one graph.
THEOREM Agreement == Spec => []RanksAgree
<1>1. BatchInv => RanksAgree
  BY AgreedRanks DEF BatchInv
<1>2. QED
  BY <1>1, Invariance, PTL

\* THE ROLL-BACK.  Undoing the updates from the first isolated one on in the order they
\* were applied, not in the reverse one, still leaves all ranks with exactly the forests,
\* sketches and weights they had before that update, for every length of the batch.
THEOREM RollBackExact == Spec => RollBackRestores
<1>1. BatchInv /\ [Next]_vars => [phase = "undo" => Holding' = before[update_idx]]_vars
  <2>1. SUFFICES ASSUME BatchInv, Next, phase = "undo"
                 PROVE  Holding' = before[update_idx]
    OBVIOUS
  <2>2. RollBack
    BY <2>1 DEF Next, ApplyBatch, AllReduce, StartUpdate, RefreshTier
  <2>3. QED
    BY <2>1, <2>2, RollBackAgrees
<1>2. QED
  BY <1>1, Invariance, PTL DEF Spec, RollBackRestores

------------------------------------------------------------------------------
\* When every sketch gives an edge

\* Vertices of one tree: what is isolated at one is isolated at the other.
LEMMA IsoOfMember ==
    ASSUME NEW g, NEW w \in Weights, NEW i \in 0 .. Top - 1, NEW v \in Nodes, Iso(g, w, i, v),
           NEW x \in Tree(w, i, v)
    PROVE  /\ x \in Nodes
           /\ Tree(w, i, x) = Tree(w, i, v) /\ Tree(w, i + 1, x) = Tree(w, i, v)
           /\ CutOf(g, Tree(w, i, x)) # {}
<1>1. x \in Nodes
  BY DEF Tree, Component
<1>2. \A k : UpTo(w, k) \in SUBSET Edges
  BY Nested
<1>3. Tree(w, i, x) = Tree(w, i, v)
  BY <1>1, <1>2, SameTree DEF Tree
<1>4. x \in Tree(w, i + 1, v)
  BY DEF Iso
<1>5. Tree(w, i + 1, x) = Tree(w, i + 1, v)
  BY <1>1, <1>2, <1>4, SameTree DEF Tree
<1>6. QED
  BY <1>1, <1>3, <1>5 DEF Iso

\* An update isolates no trees but those of its ends.
LEMMA OnlyEndsIsolated ==
    ASSUME NEW g, NEW w, Sound(g, w), NEW u, Fitting(g, u), Clean(g, w),
           NEW x, x = Engine!Toggle(g, EdgeOf(u)), NEW y, y = AfterUpdate(w, u),
           NEW i \in 0 .. Top - 1, NEW v \in Nodes, Iso(x, y, i, v)
    PROVE  \E j \in {1, 2} : EndOf(u, j) \in Tree(y, i, v)
<1> DEFINE e == EdgeOf(u)
           tree == Tree(y, i, v)
<1>1. /\ g \in SUBSET Edges /\ w \in Weights /\ e \in Edges /\ e = {u.src, u.dst}
      /\ u.src \in Nodes /\ u.dst \in Nodes
  BY EdgeEnds DEF Sound, Fitting
<1>2. SUFFICES ASSUME u.src \notin tree, u.dst \notin tree PROVE FALSE
  BY DEF EndOf
<1>3. y \in Weights /\ \A k : UpTo(y, k) \in SUBSET UpTo(w, k) /\ UpTo(w, k) \subseteq UpTo(y, k) \cup {e}
  <2> HIDE DEF e
  <2>1. CASE y = w
    BY <1>1, <2>1
  <2>2. CASE y = Without(w, e)
    <3>1. e \in Edges
      BY <1>1
    <3>2. Without(w, e) \in Weights /\ \A k : UpTo(Without(w, e), k) = UpTo(w, k) \ {e}
      BY <1>1, <3>1, WithoutEdge
    <3>3. y \in Weights /\ \A k : UpTo(y, k) = UpTo(w, k) \ {e}
      BY <2>2, <3>2
    <3>4. QED
      BY <3>3
  <2>3. QED
    BY <2>1, <2>2 DEF AfterUpdate, e
<1>4. \A k : UpTo(w, k) \in SUBSET Edges
  BY <1>1, Nested
<1>5. tree = Tree(y, i + 1, v)
  BY DEF Iso
<1>6. Tree(w, i, v) = tree
  <2>1. UpTo(w, i) \subseteq UpTo(y, i) \cup {{u.src, u.dst}}
    BY <1>1, <1>3
  <2>2. QED
    BY <1>2, <1>3, <1>4, <2>1, UntouchedTree DEF Tree
<1>7. Tree(w, i + 1, v) = tree
  <2>1. UpTo(w, i + 1) \subseteq UpTo(y, i + 1) \cup {{u.src, u.dst}}
    BY <1>1, <1>3
  <2>2. QED
    BY <1>2, <1>3, <1>4, <1>5, <2>1, UntouchedTree DEF Tree
<1>8. CutOf(x, tree) = CutOf(g, tree)
  <2> HIDE DEF tree
  <2>1. e \cap tree = {}
    BY <1>1, <1>2
  <2>2. \A f : f \cap tree # {} => (f \in x <=> f \in g)
    BY <2>1 DEF Engine!Toggle
  <2>3. QED
    BY <2>2 DEF CutOf
<1>9. Iso(g, w, i, v)
  BY <1>6, <1>7, <1>8 DEF Iso
<1>10. QED
  BY <1>9 DEF Clean

\* An update that no tier found isolated isolated nothing.
LEMMA NoneFound ==
    ASSUME BatchInv, phase = "reduce", NEW k \in 1 .. Len(batch),
           Clean(before[k].graph, before[k].lct),
           \A i \in 0 .. Top - 1 : \A j \in {1, 2} : ~Isolates(i, k, j)
    PROVE  Clean(Seen(k).graph, Seen(k).lct)
<1> DEFINE u == batch[k]
           g == Seen(k).graph
           w == Seen(k).lct
<1>1. History /\ \A i \in Tiers : checks[i][k] = Ends(Seen(k), i, u)
  BY DEF BatchInv
<1>2. /\ Sound(before[k].graph, before[k].lct) /\ Fitting(before[k].graph, u)
      /\ g = Engine!Toggle(before[k].graph, EdgeOf(u)) /\ w = AfterUpdate(before[k].lct, u)
      /\ Sound(g, w) /\ Seen(k) = State(g, w) /\ w \in Weights
  BY <1>1, SeenFacts, AgreedState DEF History, Sound
<1>3. ASSUME NEW i \in Tiers, NEW j \in {1, 2}
      PROVE  /\ checks[i][k][j].size = Cardinality(Tree(w, i, EndOf(u, j)))
             /\ checks[i][k][j].cut = CutOf(g, Tree(w, i, EndOf(u, j)))
  <2> DEFINE h == Seen(k)
  <2>1. h.ett[i] = UpTo(w, i) /\ h.toggled[i] = g
    <3>1. State(g, w).ett[i] = UpTo(w, i) /\ State(g, w).toggled[i] = g
      BY Fields
    <3>2. QED
      BY <1>2, <3>1
  <2> HIDE DEF h, g, w, u
  <2>2. /\ Ends(h, i, u)[j].size = Cardinality(Tree(w, i, EndOf(u, j)))
        /\ Ends(h, i, u)[j].cut = CutOf(g, Tree(w, i, EndOf(u, j)))
    BY <2>1 DEF Ends, Tree, EndOf
  <2>3. checks[i][k] = Ends(h, i, u)
    BY <1>1 DEF h, u
  <2>4. QED
    BY <2>2, <2>3
<1>4. SUFFICES ASSUME NEW i \in 0 .. Top - 1, NEW v \in Nodes, Iso(g, w, i, v) PROVE FALSE
  BY DEF Clean
<1>5. PICK j \in {1, 2} : EndOf(u, j) \in Tree(w, i, v)
  <2> HIDE DEF g, w, u
  <2>1. QED
    BY <1>2, <1>4, OnlyEndsIsolated
<1>6. i \in Tiers /\ i + 1 \in Tiers
  BY TierNumbers
<1>7. /\ Tree(w, i, EndOf(u, j)) = Tree(w, i + 1, EndOf(u, j))
      /\ CutOf(g, Tree(w, i, EndOf(u, j))) # {}
  <2> HIDE DEF g, w, u
  <2>1. QED
    BY <1>2, <1>4, <1>5, IsoOfMember
<1>8. Isolates(i, k, j)
  BY <1>3, <1>6, <1>7 DEF Isolates
<1>9. QED
  BY <1>8

\* Up to the first update that isolated a tree, none is isolated.
LEMMA CleanUntil ==
    ASSUME BatchInv, phase = "reduce", Clean(before[1].graph, before[1].lct),
           NEW f \in 1 .. Len(batch),
           \A k \in 1 .. Len(batch) : k < f =>
              \A i \in 0 .. Top - 1 : \A j \in {1, 2} : ~Isolates(i, k, j)
    PROVE  Clean(before[f].graph, before[f].lct)
<1> DEFINE n == Len(batch)
           Bad == {k \in 1 .. f : ~Clean(before[k].graph, before[k].lct)}
<1>1. n \in Nat /\ f \in Nat /\ f <= n /\ f >= 1 /\ \A k \in 1 .. n : k # n => before[k + 1] = Seen(k)
  BY DEF BatchInv, History
<1>2. SUFFICES ASSUME Bad # {} PROVE FALSE
  BY <1>1
<1>3. PICK m \in Bad : \A k \in Bad : m <= k
  <2>1. Bad \in SUBSET Nat
    BY <1>1
  <2> HIDE DEF Bad
  <2>2. QED
    BY <1>2, <2>1, LeastNumber
<1>4. m \in 1 .. f /\ ~Clean(before[m].graph, before[m].lct)
  BY <1>3
<1>5. m # 1
  BY <1>4
<1>6. m - 1 \in 1 .. f /\ m - 1 \in 1 .. n /\ m - 1 # n /\ m - 1 < f /\ (m - 1) + 1 = m
  BY <1>1, <1>4, <1>5
<1>7. Clean(before[m - 1].graph, before[m - 1].lct)
  <2>1. m - 1 \notin Bad
    <3> HIDE DEF Bad
    <3>1. QED
      BY <1>3, <1>6
  <2>2. QED
    BY <1>6, <2>1
<1>8. Clean(Seen(m - 1).graph, Seen(m - 1).lct)
  BY <1>6, <1>7, NoneFound
<1>9. before[m] = Seen(m - 1)
  BY <1>1, <1>6
<1>10. QED
  BY <1>4, <1>8, <1>9

LEMMA ReduceClean ==
    ASSUME ~SketchesMayFail, BatchInv, CleanInv, AllReduce
    PROVE  CleanInv'
<1> DEFINE n == Len(batch)
           found == {k \in DOMAIN batch : \E i \in 0 .. Top - 1, j \in {1, 2} : Isolates(i, k, j)}
<1>1. /\ phase = "reduce" /\ DOMAIN batch = 1 .. n /\ n \in Nat /\ n \in 1 .. n
      /\ Clean(before[1].graph, before[1].lct)
      /\ Holding = Seen(n) /\ graph' = graph /\ lct' = lct
      /\ graph = Seen(n).graph /\ lct = Seen(n).lct
  BY Kept DEF AllReduce, BatchInv, History, CleanInv, Holding
<1>2. PICK first \in (IF found = {} THEN {0} ELSE {k \in found : \A j \in found : k <= j}) :
         IF first = 0 THEN EndBatch
         ELSE /\ phase' = "undo" /\ update_idx' = first
              /\ UNCHANGED <<batch, split_revert, checks, before, tier, endpoint, message>>
  BY DEF AllReduce
<1>3. CASE found = {}
  <2>1. EndBatch
    BY <1>2, <1>3
  <2>2. \A k \in 1 .. n : \A i \in 0 .. Top - 1 : \A j \in {1, 2} : ~Isolates(i, k, j)
    BY <1>1, <1>3
  <2>3. Clean(Seen(n).graph, Seen(n).lct)
    BY <1>1, <2>2, CleanUntil, NoneFound
  <2>4. QED
    BY <1>1, <2>1, <2>3 DEF CleanInv, EndBatch
<1>4. CASE found # {}
  <2>1. first \in found /\ \A j \in found : first <= j
    BY <1>2, <1>4
  <2>2. first \in 1 .. n /\ first # 0
    BY <1>1, <2>1
  <2>3. phase' = "undo" /\ update_idx' = first /\ before' = before
    BY <1>2, <2>2
  <2>4. ASSUME NEW k \in 1 .. n, k < first
        PROVE  \A i \in 0 .. Top - 1 : \A j \in {1, 2} : ~Isolates(i, k, j)
    <3>1. k \notin found
      <4> HIDE DEF found
      <4>1. QED
        BY <2>1, <2>2, <2>4
    <3>2. QED
      BY <1>1, <3>1
  <2>5. Clean(before[first].graph, before[first].lct)
    BY <1>1, <2>2, <2>4, CleanUntil
  <2>6. QED
    BY <2>3, <2>5 DEF CleanInv
<1>5. QED
  BY <1>3, <1>4

\* The ends and tiers left once this end has been dealt with.
Later(t, k, i, j) == i >= t \/ (i = t - 1 /\ j > k)
Remaining(g, w, u, t, k) ==
    \A i \in 0 .. Top - 1 : \A v \in Nodes :
        Iso(g, w, i, v) => \E j \in {1, 2} : Later(t, k, i, j) /\ EndOf(u, j) \in Tree(w, i, v)

\* An end that is skipped is not isolated.
LEMMA SkipRemains ==
    ASSUME ~SketchesMayFail, BatchInv, phase = "refresh", ~Isolated,
           Repairable(graph, lct, batch[update_idx], tier, endpoint)
    PROVE  Remaining(graph, lct, batch[update_idx], tier, endpoint)
<1> DEFINE u == batch[update_idx]
<1>1. /\ Sound(graph, lct) /\ lct \in Weights /\ graph \in SUBSET Edges
      /\ tier \in 1 .. Top /\ tier \in Nat /\ endpoint \in {1, 2}
      /\ Told.size = Cardinality(Tree(lct, tier - 1, End))
      /\ Told.sample \in Engine!Samples(CutOf(graph, Tree(lct, tier - 1, End)))
      /\ Engine!GetSize(tier, End) = Cardinality(Tree(lct, tier, End))
  BY ToldFacts DEF Sound, BatchInv
<1>2. SUFFICES ASSUME NEW i \in 0 .. Top - 1, NEW v \in Nodes, Iso(graph, lct, i, v)
               PROVE  \E j \in {1, 2} : Later(tier, endpoint, i, j) /\ EndOf(u, j) \in Tree(lct, i, v)
  BY DEF Remaining
<1>3. PICK j \in {1, 2} : Pending(tier, endpoint, i, j) /\ EndOf(u, j) \in Tree(lct, i, v)
  BY <1>2 DEF Repairable
<1>4. SUFFICES ASSUME i = tier - 1, j = endpoint PROVE FALSE
  BY <1>1, <1>3 DEF Pending, Later
<1>5. End \in Tree(lct, tier - 1, v)
  BY <1>3, <1>4 DEF End
<1>6. /\ Tree(lct, tier - 1, End) = Tree(lct, tier, End)
      /\ CutOf(graph, Tree(lct, tier - 1, End)) # {}
  <2>1. (tier - 1) + 1 = tier
    BY <1>1
  <2>2. QED
    BY <1>1, <1>2, <1>4, <1>5, <2>1, IsoOfMember
<1>7. Told.sample \in graph
  BY <1>1, <1>6 DEF Engine!Samples, CutOf
<1>8. Told.sample # {}
  BY <1>1, <1>7, EdgeEnds
<1>9. QED
  BY <1>1, <1>6, <1>8 DEF Isolated

\* An edge that is linked grows the tree of this end in this tier, and isolates no tree
\* that does not hold the end.
LEMMA LinkRemains ==
    ASSUME BatchInv, phase = "refresh", NEW a \in Nodes, NEW b \in Nodes, NEW y, Links(a, b, y),
           Repairable(graph, lct, batch[update_idx], tier, endpoint)
    PROVE  Remaining(graph, y, batch[update_idx], tier, endpoint)
<1> DEFINE u == batch[update_idx]
           t == tier
<1>1. /\ Sound(graph, lct) /\ lct \in Weights /\ t \in 1 .. Top /\ t \in Tiers /\ t - 1 \in Tiers
      /\ t \in Nat /\ endpoint \in {1, 2} /\ End \in Nodes /\ End = EndOf(u, endpoint)
  BY ToldFacts DEF Sound, BatchInv, End
<1>2. /\ a # b /\ Tree(lct, t - 1, End) = Tree(lct, t, End)
      /\ a \in Tree(lct, t, End) <=> b \notin Tree(lct, t, End)
  BY IsolatedEnd DEF Links, Isolated
<1>3. /\ Sound(graph, y) /\ y \in Weights
      /\ \A i \in Tiers : i < t => UpTo(y, i) = UpTo(lct, i)
      /\ \A i \in Tiers : i >= t => {a, b} \in UpTo(y, i)
      /\ \A i \in Tiers : \A v \in Nodes :
            /\ Tree(lct, i, v) \subseteq Tree(y, i, v)
            /\ a \notin Tree(y, i, v) /\ b \notin Tree(y, i, v) => Tree(y, i, v) = Tree(lct, i, v)
  BY DEF Links, Grows, Sound
<1>4. SUFFICES ASSUME NEW i \in 0 .. Top - 1, NEW v \in Nodes, Iso(graph, y, i, v)
               PROVE  \E j \in {1, 2} : Later(t, endpoint, i, j) /\ EndOf(u, j) \in Tree(y, i, v)
  BY DEF Remaining
<1>5. i \in Tiers /\ i + 1 \in Tiers /\ i \in Nat
  BY TierNumbers
<1>6. Tree(y, i, v) = Tree(y, i + 1, v) /\ CutOf(graph, Tree(y, i, v)) # {}
  BY <1>4 DEF Iso
<1>p. Iso(graph, lct, i, v) => \E j \in {1, 2} : Pending(t, endpoint, i, j) /\ EndOf(u, j) \in Tree(lct, i, v)
  BY DEF Repairable
<1>7. \A k \in Tiers : k >= t => (a \in Tree(y, k, v) <=> b \in Tree(y, k, v))
  <2>1. TAKE k \in Tiers
  <2>2. HAVE k >= t
  <2>3. UpTo(y, k) \in SUBSET Edges
    BY <1>3, Nested
  <2>4. Tree(y, k, v) \in ClosedSets(UpTo(y, k))
    BY <2>3, ComponentClosed DEF Tree
  <2>5. {a, b} \in UpTo(y, k)
    BY <1>3, <2>2
  <2>6. QED
    BY <2>4, <2>5 DEF ClosedSets
<1>8. CASE i < t - 1
  <2>1. Tree(y, i, v) = Tree(lct, i, v) /\ Tree(y, i + 1, v) = Tree(lct, i + 1, v)
    BY <1>1, <1>3, <1>5, <1>8 DEF Tree
  <2>2. Iso(graph, lct, i, v)
    BY <1>6, <2>1 DEF Iso
  <2>3. QED
    BY <1>1, <1>5, <1>8, <1>p, <2>2 DEF Pending
<1>9. CASE i = t - 1
  <2>1. i + 1 = t /\ i < t
    BY <1>1, <1>9
  <2>2. Tree(y, i, v) = Tree(lct, i, v)
    BY <1>3, <1>5, <2>1 DEF Tree
  <2>3. Tree(lct, i, v) \subseteq Tree(lct, t, v)
    BY <1>1, <1>5, <2>1, Nested, ComponentMonotone DEF Tree
  <2>4. Tree(lct, t, v) \subseteq Tree(y, t, v)
    BY <1>1, <1>3
  <2>5. Tree(lct, t, v) = Tree(lct, i, v) /\ Tree(y, t, v) = Tree(lct, i, v)
    BY <1>6, <2>1, <2>2, <2>3, <2>4
  <2>6. Iso(graph, lct, i, v)
    BY <1>6, <2>1, <2>2, <2>5 DEF Iso
  <2>7. PICK j \in {1, 2} : Pending(t, endpoint, i, j) /\ EndOf(u, j) \in Tree(lct, i, v)
    BY <1>p, <2>6
  <2>8. j # endpoint
    <3>1. SUFFICES ASSUME End \in Tree(lct, i, v) PROVE FALSE
      BY <1>1, <2>7
    <3>2. Tree(lct, i, End) = Tree(lct, i, v)
      BY <1>1, <1>5, <2>6, <3>1, IsoOfMember
    <3>3. Tree(y, t, v) = Tree(lct, t, End)
      BY <1>2, <1>9, <2>5, <3>2
    <3>4. a \in Tree(y, t, v) <=> b \in Tree(y, t, v)
      BY <1>1, <1>7
    <3>5. QED
      BY <1>2, <3>3, <3>4
  <2>9. Later(t, endpoint, i, j)
    BY <1>1, <1>5, <2>7, <2>8 DEF Pending, Later
  <2>10. QED
    BY <2>2, <2>7, <2>9
<1>10. CASE i >= t
  <2>1. \A j : Later(t, endpoint, i, j)
    BY <1>10 DEF Later
  <2>2. CASE a \notin Tree(y, i, v) /\ b \notin Tree(y, i, v)
    <3>1. Tree(y, i, v) = Tree(lct, i, v) /\ Tree(y, i + 1, v) = Tree(lct, i + 1, v)
      BY <1>3, <1>5, <1>6, <2>2
    <3>2. Iso(graph, lct, i, v)
      BY <1>6, <3>1 DEF Iso
    <3>3. QED
      BY <1>p, <2>1, <3>1, <3>2
  <2>3. CASE ~(a \notin Tree(y, i, v) /\ b \notin Tree(y, i, v))
    <3>1. a \in Tree(y, i, v) /\ b \in Tree(y, i, v)
      BY <1>5, <1>7, <1>10, <2>3
    <3>2. PICK c \in Nodes : c \in Tree(y, i, v) /\ c \in Tree(lct, t, End)
      BY <1>2, <3>1
    <3>3. c \in Tree(y, i, End)
      <4>1. Tree(lct, t, End) \subseteq Tree(lct, i, End)
        BY <1>1, <1>5, <1>10, Nested, ComponentMonotone DEF Tree
      <4>2. QED
        BY <1>1, <1>3, <1>5, <3>2, <4>1
    <3>4. UpTo(y, i) \in SUBSET Edges
      BY <1>3, Nested
    <3>5. Tree(y, i, c) = Tree(y, i, End) /\ Tree(y, i, c) = Tree(y, i, v)
      BY <1>1, <3>2, <3>3, <3>4, SameTree DEF Tree
    <3>6. End \in Tree(y, i, End)
      BY <1>1, <3>4, ComponentClosed DEF Tree
    <3>7. QED
      BY <1>1, <2>1, <3>5, <3>6
  <2>4. QED
    BY <2>2, <2>3
<1>11. QED
  BY <1>1, <1>5, <1>8, <1>9, <1>10

\* The next end, tier or update has what remains.
LEMMA OnwardClean ==
    ASSUME BatchInv, phase = "refresh", NEW STATE h, Onward(h), graph' = graph,
           Remaining(graph, lct', batch[update_idx], tier, endpoint)
    PROVE  CleanInv'
<1> DEFINE u == batch[update_idx]
<1>1. tier \in 1 .. Top /\ tier \in Nat /\ endpoint \in {1, 2} /\ Top \in Nat
  BY ToldFacts, TierNumbers DEF BatchInv
<1>2. \A i \in 0 .. Top - 1 : i \in Nat /\ i < Top
  BY <1>1
<1>3. CASE endpoint = 1
  <2>1. endpoint' = 2 /\ UNCHANGED <<batch, phase, update_idx, tier>>
    BY <1>3 DEF Onward
  <2>2. \A i \in 0 .. Top - 1 : \A j \in {1, 2} : Later(tier, endpoint, i, j) => Pending(tier, 2, i, j)
    BY <1>1, <1>2, <1>3 DEF Later, Pending
  <2>3. Repairable(graph, lct', u, tier, 2)
    BY <2>2 DEF Remaining, Repairable
  <2>4. QED
    BY <2>1, <2>3 DEF CleanInv
<1>4. CASE endpoint = 2 /\ tier < Top
  <2>1. tier' = tier + 1 /\ endpoint' = 1 /\ UNCHANGED <<batch, phase, update_idx>>
    BY <1>1, <1>4 DEF Onward
  <2>2. \A i \in 0 .. Top - 1 : \A j \in {1, 2} : Later(tier, endpoint, i, j) => Pending(tier + 1, 1, i, j)
    BY <1>1, <1>2, <1>4 DEF Later, Pending
  <2>3. Repairable(graph, lct', u, tier + 1, 1)
    BY <2>2 DEF Remaining, Repairable
  <2>4. QED
    BY <2>1, <2>3 DEF CleanInv
<1>5. CASE endpoint = 2 /\ tier = Top
  <2>1. \A i \in 0 .. Top - 1 : \A j \in {1, 2} : ~Later(tier, endpoint, i, j)
    BY <1>1, <1>2, <1>5 DEF Later
  <2>2. Clean(graph, lct')
    BY <2>1 DEF Remaining, Clean
  <2>3. phase' \in {"idle", "next"}
    BY <1>1, <1>5 DEF Onward, EndBatch
  <2>4. QED
    BY <2>2, <2>3 DEF CleanInv
<1>6. QED
  BY <1>1, <1>3, <1>4, <1>5

LEMMA RefreshClean ==
    ASSUME ~SketchesMayFail, BatchInv, CleanInv, RefreshTier
    PROVE  CleanInv'
<1>1. /\ phase = "refresh" /\ graph' = graph
      /\ Repairable(graph, lct, batch[update_idx], tier, endpoint)
  BY RefreshSteps DEF CleanInv
<1>2. PICK h : Onward(h)
  BY RefreshSteps
<1>3. CASE Skips
  <2>1. lct' = lct
    BY <1>3 DEF Skips, Holding
  <2>2. Remaining(graph, lct, batch[update_idx], tier, endpoint)
    BY <1>1, <1>3, SkipRemains DEF Skips
  <2>3. QED
    BY <1>1, <1>2, <2>1, <2>2, OnwardClean
<1>4. CASE \E a, b \in Nodes : \E y : Links(a, b, y)
  <2>0. PICK a \in Nodes, b \in Nodes : \E y : Links(a, b, y)
    BY <1>4
  <2>1. PICK y : Links(a, b, y)
    BY <2>0
  <2>2. lct' = y
    BY <2>1, Fields DEF Links, Holding
  <2>3. Remaining(graph, y, batch[update_idx], tier, endpoint)
    BY <1>1, <2>1, LinkRemains
  <2>4. QED
    BY <1>1, <1>2, <2>2, <2>3, OnwardClean
<1>5. QED
  BY <1>3, <1>4, RefreshSteps

LEMMA StartClean ==
    ASSUME BatchInv, CleanInv, StartUpdate
    PROVE  CleanInv'
<1> DEFINE u == batch[update_idx]
<1>1. /\ phase = "next" /\ phase' = "refresh" /\ tier' = 1 /\ endpoint' = 1 /\ u' = u
      /\ graph' = Engine!Toggle(graph, EdgeOf(u)) /\ lct' = AfterUpdate(lct, u)
      /\ Fitting(graph, u) /\ Clean(graph, lct)
  BY StartAgrees DEF CleanInv
<1>2. Sound(graph, lct)
  BY AgreedRanks DEF BatchInv
<1>3. \A i \in 0 .. Top - 1 : \A j \in {1, 2} : Pending(1, 1, i, j)
  BY TierNumbers DEF Pending
<1> HIDE DEF u
<1>4. ASSUME NEW i \in 0 .. Top - 1, NEW v \in Nodes, Iso(graph', lct', i, v)
      PROVE  \E j \in {1, 2} : EndOf(u, j) \in Tree(lct', i, v)
  BY <1>1, <1>2, <1>4, OnlyEndsIsolated
<1>5. Repairable(graph', lct', u, 1, 1)
  BY <1>3, <1>4 DEF Repairable
<1>6. QED
  BY <1>1, <1>5 DEF CleanInv, u

\* Sketches that do not fail: the isolated trees stay within reach of the refresh, and
\* no tree is isolated once a batch is done.
THEOREM CleanInvariance == ~SketchesMayFail => (Spec => []CleanInv)
<1>s. SUFFICES ASSUME ~SketchesMayFail
               PROVE  Spec => []CleanInv
  OBVIOUS
<1>1. ASSUME Init
      PROVE  CleanInv
  <2>1. graph = {} /\ phase = "idle"
    BY <1>1 DEF Init
  <2>2. Clean(graph, lct)
    BY <2>1 DEF Clean, Iso, CutOf
  <2>3. QED
    BY <2>1, <2>2 DEF CleanInv
<1>2. ASSUME BatchInv, CleanInv, [Next]_vars
      PROVE  CleanInv'
  <2>1. ASSUME NEW n \in 1 .. BatchSize, NEW us \in [1 .. n -> Updates], ApplyBatch(us)
        PROVE  CleanInv'
    <3>1. before'[1] = Holding /\ phase = "idle" /\ phase' = "reduce"
      BY <1>2, <2>1, ApplyAgrees
    <3>2. Clean(graph, lct) /\ Holding.graph = graph /\ Holding.lct = lct
      BY <1>2, <3>1 DEF CleanInv, Holding
    <3>3. QED
      BY <3>1, <3>2 DEF CleanInv
  <2>2. CASE AllReduce
    BY <1>s, <1>2, <2>2, ReduceClean
  <2>3. CASE RollBack
    <3>1. phase = "undo" /\ phase' = "next" /\ Holding' = before[update_idx]
      BY <1>2, <2>3, RollBackAgrees DEF RollBack
    <3>2. graph' = before[update_idx].graph /\ lct' = before[update_idx].lct
      BY <3>1 DEF Holding
    <3>3. QED
      BY <1>2, <3>1, <3>2 DEF CleanInv
  <2>4. CASE StartUpdate
    BY <1>2, <2>4, StartClean
  <2>5. CASE RefreshTier
    BY <1>s, <1>2, <2>5, RefreshClean
  <2>6. CASE UNCHANGED vars
    BY <1>2, <2>6 DEF vars, CleanInv
  <2>7. QED
    BY <1>2, <2>1, <2>2, <2>3, <2>4, <2>5, <2>6 DEF Next
<1>3. QED
  BY <1>1, <1>2, Invariance, PTL DEF Spec

------------------------------------------------------------------------------
\* What the sequential engine may hold

\* Ranks that agree are in a state of the sequential engine's inductive invariant.
LEMMA EngineInvariant ==
    ASSUME Agreed(Holding)
    PROVE  Engine!IInv
<1>1. /\ Sound(graph, lct) /\ graph \in SUBSET Edges /\ lct \in Weights /\ Linked(lct) \subseteq graph
      /\ \A i \in Tiers : ett[i] = UpTo(lct, i) /\ toggled[i] = graph
      /\ ett = [i \in Tiers |-> UpTo(lct, i)]
      /\ Engine!TiersMirrorLct /\ Engine!TierForests
  BY AgreedRanks DEF Sound, RanksAgree
<1>2. Engine!Edges = Edges /\ Engine!Tiers = Tiers /\ Engine!LctEdges = Linked(lct) /\ Tiers = 0 .. NumTiers - 1
  BY EngineVocabulary DEF Tiers
<1> DEFINE sketch == [i \in 0 .. NumTiers - 1 |-> [v \in Nodes |-> {e \in toggled[i] : v \in e}]]
<1>3. sketch \in [Tiers -> [Nodes -> SUBSET Edges]]
  BY <1>1, <1>2
<1>4. ett \in [Tiers -> SUBSET Edges]
  BY <1>1, Nested
<1>5. Engine!TypeOK
  BY <1>1, <1>2, <1>3, <1>4, TierNumbers DEF Engine!TypeOK, Weights, Engine!NoUpdate, Engine!NoEdge
<1>6. Engine!ControlInv
  BY DEF Engine!ControlInv
<1>7. Engine!SketchInv
  BY <1>1, <1>2 DEF Engine!SketchInv
<1>8. Engine!LctInGraph
  BY <1>1, <1>2 DEF Engine!LctInGraph
<1>9. Engine!RefreshInv
  BY DEF Engine!RefreshInv
<1>10. QED
  BY <1>1, <1>5, <1>6, <1>7, <1>8, <1>9 DEF Engine!IInv

\* The theorems about the sequential engine, in the state the ranks hold.
Tiered == INSTANCE GraphTiersProofs WITH
    sketch <- [i \in 0 .. NumTiers - 1 |-> [v \in Nodes |-> {e \in toggled[i] : v \in e}]],
    phase <- "idle", root_nodes <- [i \in 0 .. NumTiers - 1 |-> <<>>],
    update <- [type |-> "NONE"], tier <- 0, endpoint <- 1,
    adding <- {}, evicting <- {}, todo <- {}

LEMMA TieredAssumptions ==
    Tiered!IsFiniteSet(Nodes) /\ Nodes # {} /\ NumTiers \in Nat \ {0} /\ SketchesMayFail \in BOOLEAN
  BY NodesAssumption, MpiBatchAssumption DEF Tiered!IsFiniteSet, IsFiniteSet

\* They are about the same forests.
LEMMA TieredVocabulary ==
    /\ \A E, u : Tiered!Component(E, u) = Component(E, u)
    /\ \A E, S : Tiered!CutOf(E, S) = CutOf(E, S)
    /\ Tiered!Top = Top
    /\ \A i : Tiered!LctUpTo(i) = UpTo(lct, i)
    /\ Tiered!IInv <=> Engine!IInv
    /\ Tiered!EnoughTiers <=> Engine!EnoughTiers
    /\ Tiered!NoIsolatedTree <=> Engine!NoIsolatedTree
<1>1. \A E : Tiered!ClosedSets(E) = Engine!ClosedSets(E)
  BY DEF Tiered!ClosedSets, Engine!ClosedSets
<1>2. \A E, u : Tiered!Component(E, u) = Engine!Component(E, u)
  BY <1>1 DEF Tiered!Component, Engine!Component
<1>3. \A E, S : Tiered!CutOf(E, S) = Engine!CutOf(E, S)
  BY DEF Tiered!CutOf, Engine!CutOf
<1>4. Tiered!Edges = Engine!Edges /\ Tiered!Top = Engine!Top /\ Tiered!Tiers = Engine!Tiers
  BY DEF Tiered!Edges, Engine!Edges, Tiered!Top, Engine!Top, Tiered!Tiers, Engine!Tiers
<1>5. Tiered!LctEdges = Engine!LctEdges
  BY <1>4 DEF Tiered!LctEdges, Engine!LctEdges
<1>6. \A i : Tiered!LctUpTo(i) = Engine!LctUpTo(i)
  BY <1>5 DEF Tiered!LctUpTo, Engine!LctUpTo
<1>7. \A S : Tiered!Cardinality(S) = Engine!Cardinality(S)
  BY DEF Tiered!Cardinality, Engine!Cardinality, Tiered!IsFiniteSet, Engine!IsFiniteSet
<1>8. \A E, u, v : Tiered!Connected(E, u, v) <=> Engine!Connected(E, u, v)
  BY <1>2 DEF Tiered!Connected, Engine!Connected
<1>9. \A E : Tiered!Acyclic(E) <=> Engine!Acyclic(E)
  BY <1>8 DEF Tiered!Acyclic, Engine!Acyclic
<1>10. Tiered!IInv <=> Engine!IInv
  <2>1. Tiered!TypeOK <=> Engine!TypeOK
    BY <1>4 DEF Tiered!TypeOK, Engine!TypeOK, Tiered!NoUpdate, Engine!NoUpdate,
                Tiered!NoEdge, Engine!NoEdge, Tiered!Updates, Engine!Updates
  <2>2. Tiered!ControlInv <=> Engine!ControlInv
    BY DEF Tiered!ControlInv, Engine!ControlInv
  <2>3. Tiered!SketchInv <=> Engine!SketchInv
    BY <1>4 DEF Tiered!SketchInv, Engine!SketchInv
  <2>4. Tiered!LctInGraph <=> Engine!LctInGraph
    BY <1>5 DEF Tiered!LctInGraph, Engine!LctInGraph
  <2>5. Tiered!RefreshInv <=> Engine!RefreshInv
    BY DEF Tiered!RefreshInv, Engine!RefreshInv
  <2>6. Tiered!TiersMirrorLct <=> Engine!TiersMirrorLct
    BY <1>4, <1>6 DEF Tiered!TiersMirrorLct, Engine!TiersMirrorLct, Tiered!AwaitsCut, Engine!AwaitsCut,
                      Tiered!Expected, Engine!Expected
  <2>7. Tiered!TierForests <=> Engine!TierForests
    BY <1>4, <1>5, <1>9 DEF Tiered!TierForests, Engine!TierForests
  <2>8. QED
    BY <2>1, <2>2, <2>3, <2>4, <2>5, <2>6, <2>7 DEF Tiered!IInv, Engine!IInv
<1>11. Tiered!EnoughTiers <=> Engine!EnoughTiers
  BY <1>7 DEF Tiered!EnoughTiers, Engine!EnoughTiers
<1>12. \A i, v : Tiered!GetSize(i, v) = Engine!GetSize(i, v)
  BY <1>2, <1>7 DEF Tiered!GetSize, Engine!GetSize
<1>13. Tiered!NoIsolatedTree <=> Engine!NoIsolatedTree
  BY <1>2, <1>3, <1>4, <1>12 DEF Tiered!NoIsolatedTree, Engine!NoIsolatedTree
<1>14. QED
  BY <1>2, <1>3, <1>4, <1>6, <1>10, <1>11, <1>13, EngineVocabulary

\* Without isolated trees it is in a state of what is inductive when no sketch fails.
LEMMA TieredExact ==
    ASSUME Agreed(Holding), Clean(graph, lct)
    PROVE  Tiered!ExactInv
<1>1. Tiered!IInv
  BY EngineInvariant, TieredVocabulary
<1>2. Tiered!RootsInv
  BY DEF Tiered!RootsInv
<1>3. \A i : Tiered!Planned(i) = UpTo(lct, i)
  BY TieredVocabulary DEF Tiered!Planned
<1>4. \A i \in 0 .. Top - 1 : \A v \in Nodes : ~Tiered!Isolated(i, v)
  BY <1>3, TieredVocabulary DEF Tiered!Isolated, Clean, Iso, Tree
<1>5. Tiered!RepairInv
  BY <1>4, TieredVocabulary DEF Tiered!RepairInv
<1>6. QED
  BY <1>1, <1>2, <1>5 DEF Tiered!ExactInv

\* Hence queries between batches are exact.
LEMMA ExactBetweenBatches ==
    ASSUME Agreed(Holding), Clean(graph, lct), Engine!EnoughTiers
    PROVE  Engine!NoIsolatedTree /\ Engine!QueriesAreExact
<1>1. Tiered!ExactInv /\ Tiered!EnoughTiers
  BY TieredExact, TieredVocabulary
<1>2. Engine!NoIsolatedTree
  BY <1>1, TieredAssumptions, Tiered!IdleNoneIsolated, TieredVocabulary
<1>3. ASSUME NEW v \in Nodes
      PROVE  Component(ett[Top], v) = Component(graph, v)
  <2>1. Tiered!Component(ett[Tiered!Top], v) = Tiered!Component(graph, v)
    BY <1>1, TieredAssumptions, Tiered!TopIsExact
  <2>2. QED
    BY <2>1, TieredVocabulary
<1>4. ett[Top] = Linked(lct)
  BY AgreedRanks, Nested, TierNumbers DEF Sound
<1>5. QED
  BY <1>2, <1>3, <1>4, EngineVocabulary
     DEF Engine!QueriesAreExact, Engine!GetCC, Engine!IsConnected, Engine!Components, Engine!Connected

\* BATCHES ARE SEQUENTIAL.  Whenever a batch is done, when it has been rolled back and
\* before each update after that, the ranks hold what the sequential engine may hold
\* between two updates; and when no sketch fails and there are tiers enough, no tree is
\* isolated and every query is exact, as if no update had been applied greedily.
THEOREM Sequential ==
    (~SketchesMayFail => Engine!EnoughTiers) => (Spec => []BatchesAreSequential)
<1>s. SUFFICES ASSUME ~SketchesMayFail => Engine!EnoughTiers
               PROVE  Spec => []BatchesAreSequential
  OBVIOUS
<1>1. CASE SketchesMayFail
  <2>1. BatchInv => BatchesAreSequential
    BY <1>1, EngineInvariant DEF BatchInv, BatchesAreSequential
  <2>2. QED
    BY <2>1, Invariance, PTL
<1>2. CASE ~SketchesMayFail
  <2>1. BatchInv /\ CleanInv => BatchesAreSequential
    BY <1>s, <1>2, EngineInvariant, ExactBetweenBatches DEF BatchInv, CleanInv, BatchesAreSequential
  <2>2. Spec => []CleanInv
    BY <1>2, CleanInvariance
  <2>3. QED
    BY <2>1, <2>2, Invariance, PTL
<1>3. QED
  BY <1>1, <1>2

==============================================================================
