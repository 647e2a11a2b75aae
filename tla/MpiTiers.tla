------------------------------- MODULE MpiTiers -------------------------------
(***************************************************************************)
(* The MPI engine: rank 0 is the input node (src/input_node.cpp), rank t+1 *)
(* the node of tier t (src/tier_node.cpp).  This module is about who talks *)
(* to whom and in which order.  What the forests hold is abstracted to the *)
(* log of cuts and links a rank applied for the update being refreshed;    *)
(* whether a tree is isolated and which edge the link-cut tree evicts is   *)
(* left open.  GraphTiers says what the forests do.                        *)
(*                                                                         *)
(* A standard-mode MPI_Send may return at once or block until the message  *)
(* is received, and so may the root of an MPI_Bcast: both are possible for *)
(* every message (Waits), and the code must not depend on either.          *)
(***************************************************************************)
EXTENDS Integers, Sequences

CONSTANTS
    NumTiers,         \* the number of tier nodes
    BatchSize,        \* the updates the input node buffers
    Waits             \* what a send may do: wait for its receiver (TRUE) or not

ASSUME RanksAssumption == NumTiers \in Nat /\ NumTiers >= 2
ASSUME BatchAssumption == BatchSize \in Nat \ {0}
ASSUME WaitsAssumption == Waits \in (SUBSET BOOLEAN) \ {{}}

VARIABLES
    loc,              \* loc[r]: the local variables of rank r and where it is
    net,              \* net[s][r]: the point-to-point messages from s to r
    bcasts,           \* bcasts[r]: the broadcasts rank r has still to take part in
    blocked,          \* blocked[r]: the ranks that must still take r's last message
    log               \* log[r]: the cuts and links r applied for its current update

vars == <<loc, net, bcasts, blocked, log>>

-------------------------------------------------------------------------------
Input      == 0
TierNodes  == 1 .. NumTiers
Ranks      == 0 .. NumTiers
Top        == NumTiers - 1
TierNum(r) == r - 1
None       == 0           \* no update of the batch is isolated (MAX_INT)

At(r, pc)    == loc[r].pc = pc /\ blocked[r] = {}
Idle(r)      == [pc |-> IF r = Input THEN "fill" ELSE "batch", sizes |-> <<>>, num |-> 0,
                 idx |-> 0, tier |-> 0, endpoint |-> 1, weight |-> 0, round |-> 1]
Goto(r, l)   == loc' = [loc EXCEPT ![r] = l]
Move(r, pc)  == Goto(r, [loc[r] EXCEPT !.pc = pc])

\* MPI_Send and MPI_Recv.
Send(r, to, msg) ==
    \E waits \in Waits :
        /\ net' = [net EXCEPT ![r][to] = Append(@, [msg |-> msg, waits |-> waits])]
        /\ blocked' = [blocked EXCEPT ![r] = IF waits THEN {to} ELSE {}]
        /\ UNCHANGED bcasts
Taken(r, from, packet) == IF packet.waits THEN [blocked EXCEPT ![from] = @ \ {r}] ELSE blocked
Recv(r, from) ==
    /\ net[from][r] # <<>>
    /\ net' = [net EXCEPT ![from][r] = Tail(@)]
    /\ blocked' = Taken(r, from, Head(net[from][r]))
    /\ UNCHANGED bcasts

\* MPI_Bcast at its root and at any other rank: collectives of a communicator match in
\* the order each rank calls them, whatever root it names.
Bcast(r, msg) ==
    \E waits \in Waits :
        /\ bcasts' = [q \in Ranks |-> IF q = r THEN bcasts[q]
                                      ELSE Append(bcasts[q], [msg |-> msg, root |-> r, waits |-> waits])]
        /\ blocked' = [blocked EXCEPT ![r] = IF waits THEN Ranks \ {r} ELSE {}]
        /\ UNCHANGED net
TakeBcast(r) ==
    /\ bcasts[r] # <<>>
    /\ bcasts' = [bcasts EXCEPT ![r] = Tail(@)]
    /\ blocked' = Taken(r, Head(bcasts[r]).root, Head(bcasts[r]))
    /\ UNCHANGED net
Announced(r) == Head(bcasts[r]).msg

-------------------------------------------------------------------------------
Bug_SizesOrder(r) == IF TierNum(r) = Top THEN <<"send">>
                     ELSE IF TierNum(r) % 2 = 0 THEN <<"send", "recv">> ELSE <<"recv", "send">>
\* The order in which a tier exchanges tree sizes with its neighbours.
SizesOrder(r) == IF TierNum(r) = 0 THEN <<"recv">>
                 ELSE IF TierNum(r) = Top THEN <<"send">>
                 ELSE IF TierNum(r) % 2 = 0 THEN <<"send", "recv">> ELSE <<"recv", "send">>

\* A rank enters the turn of a tier as its root or as one that follows its broadcasts.
EnterTier(r, l, t) == [l EXCEPT !.tier = t, !.endpoint = 1,
                                !.pc = IF r # Input /\ t = TierNum(r) THEN "refresh" ELSE "head"]
Bug_AfterTier(r, l) == IF l.tier + 1 = Top THEN [l EXCEPT !.pc = "next"]
                       ELSE EnterTier(r, l, l.tier + 1)
AfterTier(r, l) == IF l.tier = Top THEN [l EXCEPT !.pc = "next"]
                   ELSE EnterTier(r, l, l.tier + 1)
\* The second endpoint, the message to the next tier, or the end of the turn.
AfterEndpoint(r, l) ==
    LET root == r # Input /\ l.tier = TierNum(r)
        m == [l EXCEPT !.weight = 0, !.round = 1]
    IN  IF l.endpoint = 1 THEN [m EXCEPT !.endpoint = 2, !.pc = IF root THEN "declare" ELSE "head"]
        ELSE IF root /\ l.tier < Top THEN [m EXCEPT !.pc = "pass"]
        ELSE AfterTier(r, m)
\* The refresh of one update; nobody broadcasts in the turn of tier 0.
BeginUpdate(r, l, i) ==
    LET m == [l EXCEPT !.idx = i]
    IN  IF r = Input THEN [m EXCEPT !.pc = "start"]
        ELSE EnterTier(r, m, IF TierNum(r) = 0 THEN 0 ELSE 1)

\* ett_update_tier: the tiers from start_tier on apply the operation; the input node
\* applies every one to its link-cut tree and its query forest.
Bug_Applies(r, op) == r = Input \/ TierNum(r) > op.start
Applies(r, op) == r = Input \/ TierNum(r) >= op.start
Apply(r, op) ==
    log' = IF Applies(r, op)
           THEN [log EXCEPT ![r] = Append(@, [op |-> op, tier |-> loc[r].tier,
                                              endpoint |-> loc[r].endpoint])]
           ELSE log

-------------------------------------------------------------------------------
Init == /\ loc = [r \in Ranks |-> Idle(r)]
        /\ net = [s \in Ranks |-> [r \in Ranks |-> <<>>]]
        /\ bcasts = [r \in Ranks |-> <<>>]
        /\ blocked = [r \in Ranks |-> {}]
        /\ log = [r \in Ranks |-> <<>>]

\* process_updates(), when the buffer is full or a query is asked; end().
StartBatch == /\ At(Input, "fill")
              /\ \E num \in 1 .. BatchSize :
                    /\ Bcast(Input, [kind |-> "batch", num |-> num])
                    /\ Goto(Input, [loc[Input] EXCEPT !.pc = "reduce", !.num = num])
              /\ UNCHANGED log
EndStream == /\ At(Input, "fill")
             /\ Bcast(Input, [kind |-> "end"])
             /\ Move(Input, "done")
             /\ UNCHANGED log

\* The top of main(): the end of the stream, or a batch, which the tier applies greedily.
TakeBatch(r) ==
    /\ At(r, "batch")
    /\ TakeBcast(r)
    /\ IF Announced(r).kind = "end"
       THEN Move(r, "done")
       ELSE Goto(r, [loc[r] EXCEPT !.pc = "sizes", !.sizes = SizesOrder(r), !.num = Announced(r).num])
    /\ UNCHANGED log

\* The sizes of the trees go to the tier below, those of the tier above come in.
ExchangeSizes(r) ==
    /\ At(r, "sizes")
    /\ \/ /\ Head(loc[r].sizes) = "send"
          /\ Send(r, r - 1, [kind |-> "sizes"])
       \/ /\ Head(loc[r].sizes) = "recv"
          /\ Recv(r, r + 1)
    /\ LET rest == Tail(loc[r].sizes)
       IN  Goto(r, [loc[r] EXCEPT !.sizes = rest, !.pc = IF rest = <<>> THEN "reduce" ELSE "sizes"])
    /\ UNCHANGED log

\* The all-reduce with MIN of the first isolated update of each tier.  Without one the
\* batch is done; otherwise every rank rolls back to it, on its own, and refreshes from it.
AllReduce ==
    /\ \A r \in Ranks : At(r, "reduce")
    /\ \E first \in {None} \cup 1 .. loc[Input].num :
          loc' = [r \in Ranks |-> IF first = None THEN Idle(r) ELSE BeginUpdate(r, loc[r], first)]
    /\ UNCHANGED <<net, bcasts, blocked, log>>

-------------------------------------------------------------------------------
\* The input node starts the refresh of an update at tier 0.
StartRefresh == /\ At(Input, "start")
                /\ Send(Input, 1, [kind |-> "refresh"])
                /\ Goto(Input, EnterTier(Input, loc[Input], 1))
                /\ UNCHANGED log

\* A tier waits for its turn; tier 0 has nothing to repair and passes the turn on.
TakeRefresh(r) == /\ At(r, "refresh")
                  /\ Recv(r, r - 1)
                  /\ Move(r, IF TierNum(r) = 0 THEN "pass" ELSE "declare")
                  /\ UNCHANGED log
PassRefresh(r) == /\ At(r, "pass")
                  /\ Send(r, r + 1, [kind |-> "refresh"])
                  /\ Goto(r, AfterTier(r, loc[r]))
                  /\ UNCHANGED log

\* refresh_tier(): tell everybody whether the tree of the endpoint is isolated, ask the
\* input node about the cycle, then announce the cut, if any, and the link.
Declare(r) == /\ At(r, "declare")
              /\ \/ /\ Bcast(r, [kind |-> "not_isolated"])
                    /\ Goto(r, AfterEndpoint(r, loc[r]))
                 \/ /\ Bcast(r, [kind |-> "isolated"])
                    /\ Move(r, "query")
              /\ UNCHANGED log
TakeResponse(r) == /\ At(r, "query")
                   /\ Recv(r, Input)
                   /\ LET weight == Head(net[Input][r]).msg.weight
                      IN  Goto(r, [loc[r] EXCEPT !.weight = weight,
                                                 !.pc = IF weight = 0 THEN "link" ELSE "cut"])
                   /\ UNCHANGED log
AnnounceCut(r) == /\ At(r, "cut")
                  /\ LET op == [kind |-> "cut", start |-> loc[r].weight]
                     IN  Bcast(r, op) /\ Apply(r, op)
                  /\ Move(r, "link")
AnnounceLink(r) == /\ At(r, "link")
                   /\ LET op == [kind |-> "link", start |-> TierNum(r)]
                      IN  Bcast(r, op) /\ Apply(r, op)
                   /\ Goto(r, AfterEndpoint(r, loc[r]))

\* Everybody else follows the broadcasts of the tier whose turn it is.
FollowHead(r) ==
    /\ At(r, "head")
    /\ TakeBcast(r)
    /\ IF Announced(r).kind = "not_isolated"
       THEN Goto(r, AfterEndpoint(r, loc[r]))
       ELSE Move(r, IF r = Input THEN "answer" ELSE "ops")
    /\ UNCHANGED log
\* The answer of the link-cut tree: 0 if the new edge closes no cycle, otherwise the
\* weight of the edge to evict, which is above the tier that links (RefreshInv of GraphTiers).
Answer == /\ At(Input, "answer")
          /\ \E weight \in {0} \cup loc[Input].tier + 1 .. Top :
                Send(Input, loc[Input].tier + 1, [kind |-> "lct", weight |-> weight])
          /\ Move(Input, "ops")
          /\ UNCHANGED log
Bug_FollowsUp(l, op) == l.round = 1
\* A second broadcast follows unless the first was the link.
FollowsUp(l, op) == l.round = 1 /\ op.kind # "link"
FollowOp(r) ==
    /\ At(r, "ops")
    /\ TakeBcast(r)
    /\ Apply(r, Announced(r))
    /\ Goto(r, IF FollowsUp(loc[r], Announced(r)) THEN [loc[r] EXCEPT !.round = 2]
               ELSE AfterEndpoint(r, loc[r]))

Bug_LastUpdate(l) == l.idx > l.num
LastUpdate(l)     == l.idx = l.num
\* The next update of the batch, or the end of it.
NextUpdate(r) == /\ At(r, "next")
                 /\ Goto(r, IF LastUpdate(loc[r]) THEN Idle(r)
                            ELSE BeginUpdate(r, loc[r], loc[r].idx + 1))
                 /\ log' = [log EXCEPT ![r] = <<>>]
                 /\ UNCHANGED <<net, bcasts, blocked>>

InputStep == StartRefresh \/ FollowHead(Input) \/ Answer \/ FollowOp(Input) \/ NextUpdate(Input)
TierStep(r) == \/ TakeBatch(r) \/ ExchangeSizes(r)
               \/ TakeRefresh(r) \/ PassRefresh(r) \/ Declare(r) \/ TakeResponse(r)
               \/ AnnounceCut(r) \/ AnnounceLink(r)
               \/ FollowHead(r) \/ FollowOp(r) \/ NextUpdate(r)

\* Every rank has returned from its loop.
Terminated == (\A r \in Ranks : loc[r].pc = "done") /\ UNCHANGED vars

Next == \/ StartBatch \/ EndStream \/ AllReduce \/ InputStep
        \/ \E r \in TierNodes : TierStep(r)
        \/ Terminated

\* Every rank is a process that runs on; nobody has to send another update.
Fairness == WF_vars(AllReduce) /\ WF_vars(InputStep) /\ \A r \in TierNodes : WF_vars(TierStep(r))
Spec == Init /\ [][Next]_vars /\ Fairness

-------------------------------------------------------------------------------
\* The local variables, the messages and the entries of a log.
Points    == {"fill", "batch", "sizes", "reduce", "start", "refresh", "pass", "declare", "query",
              "cut", "link", "head", "answer", "ops", "next", "done"}
Locals    == [pc : Points, sizes : Seq({"send", "recv"}), num : 0 .. BatchSize, idx : 0 .. BatchSize,
              tier : 0 .. Top, endpoint : {1, 2}, weight : 0 .. Top, round : {1, 2}]
Messages  == [kind : {"refresh", "sizes"}] \cup [kind : {"lct"}, weight : 0 .. Top]
Ops       == [kind : {"cut", "link"}, start : 0 .. Top]
Announcements == [kind : {"end", "isolated", "not_isolated"}]
             \cup [kind : {"batch"}, num : 1 .. BatchSize] \cup Ops
Entries   == [op : Ops, tier : 0 .. Top, endpoint : {1, 2}]

Typed  == /\ loc \in [Ranks -> Locals]
          /\ net \in [Ranks -> [Ranks -> Seq([msg : Messages, waits : BOOLEAN])]]
          /\ bcasts \in [Ranks -> Seq([msg : Announcements, root : Ranks, waits : BOOLEAN])]
          /\ blocked \in [Ranks -> SUBSET Ranks]
          /\ log \in [Ranks -> Seq(Entries)]

TypeOK == /\ Typed
          /\ \A r \in Ranks : loc[r].idx <= loc[r].num /\ r \notin blocked[r]
          /\ \A s, r \in Ranks : Len(net[s][r]) <= 1

\* What a rank waits for: the root of the broadcast and the kinds it can tell apart.
ExpectedRoot(r)  == IF loc[r].pc = "batch" THEN Input ELSE loc[r].tier + 1
ExpectedKinds(r) == CASE loc[r].pc = "batch" -> {"batch", "end"}
                      [] loc[r].pc = "head"  -> {"isolated", "not_isolated"}
                      [] loc[r].pc = "ops"   -> {"cut", "link"}
                      [] OTHER               -> {}

\* Every rank takes part in the same sequence of collective calls: the next broadcast a
\* rank enters is the one its root is making, of the message it expects, and no rank
\* broadcasts or reduces while a broadcast of another rank is still owed.
CollectivesMatch ==
    \A r \in Ranks :
        /\ loc[r].pc \in {"batch", "head", "ops"} /\ bcasts[r] # <<>> =>
              /\ Head(bcasts[r]).root = ExpectedRoot(r)
              /\ Announced(r).kind \in ExpectedKinds(r)
        /\ loc[r].pc \in {"fill", "reduce", "declare", "cut", "link", "done"} => bcasts[r] = <<>>

\* The entries of a log that concern the tier of rank r.
Concerning(s, r) ==
    LET part[k \in 0 .. Len(s)] ==
            IF k = 0 THEN <<>>
            ELSE IF s[k].op.start <= TierNum(r) THEN Append(part[k - 1], s[k]) ELSE part[k - 1]
    IN  part[Len(s)]

\* When a tier and the input node have finished the same update, the tier has applied
\* exactly the cuts and links of the link-cut tree that concern it, in the same order.
TiersFollowLct ==
    \A r \in TierNodes :
        loc[r].pc = "next" /\ loc[Input].pc = "next" /\ loc[r].idx = loc[Input].idx =>
            log[r] = Concerning(log[Input], r)

\* No message outlives its batch: when all ranks wait for the next one, nothing is in
\* flight and nobody is held in a send.
BatchesAreSeparate ==
    (\A r \in Ranks : loc[r].pc \in {"fill", "batch"}) =>
        /\ \A s, r \in Ranks : net[s][r] = <<>>
        /\ \A r \in Ranks : bcasts[r] = <<>> /\ blocked[r] = {}

\* Every batch comes to an end in every rank, and at the end of the stream all return.
BatchesComplete ==
    /\ \A r \in Ranks : loc[r].pc = "reduce" ~> loc[r].pc \in {"fill", "batch"}
    /\ loc[Input].pc = "done" ~> \A r \in Ranks : loc[r].pc = "done"

=============================================================================
