---------------------------- MODULE StreamReaders ----------------------------
(***************************************************************************)
(* BinaryGraphStream_MT and its MT_StreamReaders                           *)
(* (src/include/binary_graph_stream.h): threads that read one file of      *)
(* updates through a shared offset, and a user who pauses them for         *)
(* queries.  read_data() is one step per access to a shared atomic.        *)
(*                                                                         *)
(* Offsets count updates, not bytes: every offset of the code is the       *)
(* header plus a whole number of edges, the buffer size included.  The     *)
(* file has the length its header says, so that pread returns all that it  *)
(* is asked for.                                                           *)
(***************************************************************************)
EXTENDS Integers, FiniteSets

CONSTANTS Readers,          \* the MT_StreamReader threads
          NumEdges,         \* the updates of the file (end_of_file)
          BufSize           \* the updates a reader takes at a time (buf_size)

ASSUME StreamAssumption == /\ IsFiniteSet(Readers) /\ Readers # {}
                           /\ NumEdges \in Nat
                           /\ BufSize \in Nat \ {0}

VARIABLES
    stream_off,       \* where the next reader reads
    query_index,      \* the update before which a registered query waits, or NoQuery
    query_block,      \* an on-demand query waits
    reader,           \* reader[r]: where r is in get_edge(), and the updates it buffers
    given             \* the updates get_edge() has returned

vars == <<stream_off, query_index, query_block, reader, given>>

-------------------------------------------------------------------------------
\* query_index = -1, unsigned: beyond any offset the readers can reach.
NoQuery == NumEdges + BufSize * (Cardinality(Readers) + 1)
Least(a, b) == IF a < b THEN a ELSE b

At(r, pc) == reader[r].pc = pc
Move(r, pc) == reader' = [reader EXCEPT ![r].pc = pc]
Bug_BreakPoint(r) == Move(r, "ready")
\* get_edge() returns BREAKPOINT; the thread does not call it again during the query.
BreakPoint(r) == Move(r, "paused")

\* No thread is in get_edge() or will call it: what the class asks the user to wait for.
AllPaused == \A r \in Readers : At(r, "paused")

-------------------------------------------------------------------------------
Init == /\ stream_off = 0
        /\ query_index = NoQuery
        /\ query_block = FALSE
        /\ reader = [r \in Readers |-> [pc |-> "paused", next |-> 0, end |-> 0]]
        /\ given = {}

\* get_edge() returns the next update of the buffer, or refills an empty one.
GetEdge(r) ==
    /\ At(r, "ready")
    /\ IF reader[r].next < reader[r].end
       THEN /\ given' = given \cup {reader[r].next}
            /\ reader' = [reader EXCEPT ![r].next = @ + 1]
       ELSE /\ Move(r, "block?")
            /\ UNCHANGED given
    /\ UNCHANGED <<stream_off, query_index, query_block>>

\* read_data(): the three tests before anything is taken.
Bug_TestBlock(r) == /\ At(r, "block?")
                    /\ Move(r, "end?")
                    /\ UNCHANGED <<stream_off, query_index, query_block, given>>
TestBlock(r) == /\ At(r, "block?")
                /\ IF query_block THEN BreakPoint(r) ELSE Move(r, "end?")
                /\ UNCHANGED <<stream_off, query_index, query_block, given>>
TestEnd(r)   == /\ At(r, "end?")
                /\ IF stream_off >= NumEdges THEN BreakPoint(r) ELSE Move(r, "query?")
                /\ UNCHANGED <<stream_off, query_index, query_block, given>>
TestQuery(r) == /\ At(r, "query?")
                /\ IF stream_off >= query_index THEN BreakPoint(r) ELSE Move(r, "claim")
                /\ UNCHANGED <<stream_off, query_index, query_block, given>>

\* stream_off.fetch_add(buf_size): next and end are then the range r has claimed.
Claim(r) == /\ At(r, "claim")
            /\ reader' = [reader EXCEPT ![r] = [pc |-> "claimed", next |-> stream_off,
                                                end |-> stream_off + BufSize]]
            /\ stream_off' = stream_off + BufSize
            /\ UNCHANGED <<query_index, query_block, given>>

\* What read_data() does with the range it claimed, in the order of its tests: a range
\* beyond the query is given back, one beyond the end of the file dropped; the query, then
\* the end of the file cut off what is behind them.
Bug_GiveBack(r) == /\ At(r, "claimed")
                   /\ reader[r].next >= query_index
                   /\ stream_off' = stream_off - BufSize
                   /\ BreakPoint(r)
                   /\ UNCHANGED <<query_index, query_block, given>>
GiveBack(r) == /\ At(r, "claimed")
               /\ reader[r].next >= query_index
               /\ stream_off' = query_index
               /\ BreakPoint(r)
               /\ UNCHANGED <<query_index, query_block, given>>

Drop(r) == /\ At(r, "claimed")
           /\ reader[r].next < query_index
           /\ reader[r].next >= NumEdges
           /\ BreakPoint(r)
           /\ UNCHANGED <<stream_off, query_index, query_block, given>>

Fill(r, end) == reader' = [reader EXCEPT ![r].pc = "ready", ![r].end = Least(end, NumEdges)]
Bug_ReadToQuery(r) == /\ At(r, "claimed")
                      /\ reader[r].next < Least(query_index, NumEdges)
                      /\ query_index < reader[r].end
                      /\ Fill(r, query_index)
                      /\ UNCHANGED <<stream_off, query_index, query_block, given>>
ReadToQuery(r) == /\ At(r, "claimed")
                  /\ reader[r].next < Least(query_index, NumEdges)
                  /\ query_index < reader[r].end
                  /\ stream_off' = query_index
                  /\ Fill(r, query_index)
                  /\ UNCHANGED <<query_index, query_block, given>>

Bug_Read(r) == /\ At(r, "claimed")
               /\ reader[r].next < Least(query_index, NumEdges)
               /\ reader[r].end <= query_index
               /\ Move(r, "ready")
               /\ UNCHANGED <<stream_off, query_index, query_block, given>>
Read(r) == /\ At(r, "claimed")
           /\ reader[r].next < Least(query_index, NumEdges)
           /\ reader[r].end <= query_index
           /\ Fill(r, reader[r].end)
           /\ UNCHANGED <<stream_off, query_index, query_block, given>>

-------------------------------------------------------------------------------
\* The user may ask for a query at any time, ...
OnDemandQuery == /\ ~query_block
                 /\ query_block' = TRUE
                 /\ UNCHANGED <<stream_off, query_index, reader, given>>

\* ... but registers one, resets the stream or goes on after a query only while all
\* threads are paused, as the class demands.  A query before the next read is refused,
\* one beyond the end of the file is not.
RegisterQuery(idx) == /\ AllPaused
                      /\ query_index = NoQuery
                      /\ idx > stream_off
                      /\ query_index' = idx
                      /\ UNCHANGED <<stream_off, query_block, reader, given>>

PostQueryResume == /\ AllPaused
                   /\ query_block' = FALSE
                   /\ query_index' = NoQuery
                   /\ UNCHANGED <<stream_off, reader, given>>

StreamReset == /\ AllPaused
               /\ stream_off' = 0
               /\ given' = {}
               /\ UNCHANGED <<query_index, query_block, reader>>

\* The threads call get_edge() again.
Resume == /\ AllPaused
          /\ reader' = [r \in Readers |-> [pc |-> "ready", next |-> 0, end |-> 0]]
          /\ UNCHANGED <<stream_off, query_index, query_block, given>>

ReadData(r) == \/ TestBlock(r) \/ TestEnd(r) \/ TestQuery(r) \/ Claim(r)
               \/ GiveBack(r) \/ Drop(r) \/ ReadToQuery(r) \/ Read(r)

Next == \/ \E r \in Readers : GetEdge(r) \/ ReadData(r)
        \/ OnDemandQuery
        \/ \E idx \in 1 .. NoQuery - 1 : RegisterQuery(idx)
        \/ PostQueryResume
        \/ StreamReset
        \/ Resume

\* Every thread keeps calling get_edge() until it answers BREAKPOINT.
Spec == Init /\ [][Next]_vars /\ \A r \in Readers : WF_vars(GetEdge(r) \/ ReadData(r))

-------------------------------------------------------------------------------
TypeOK == /\ stream_off \in 0 .. NoQuery - 1
          /\ query_index \in 1 .. NoQuery
          /\ query_block \in BOOLEAN
          /\ reader \in [Readers -> [pc : {"paused", "ready", "block?", "end?", "query?",
                                           "claim", "claimed"},
                                     next : 0 .. NoQuery, end : 0 .. NoQuery]]
          /\ \A r \in Readers : reader[r].next <= reader[r].end
          /\ given \subseteq 0 .. NumEdges - 1

\* The updates reader r holds: read into its buffer and still to be returned.
Held(r) == IF At(r, "ready") THEN reader[r].next .. reader[r].end - 1 ELSE {}

\* No update of the stream reaches two readers, or one twice, though a reader beyond a
\* break point sets back the offset that others advance.
EachOnce == \A r \in Readers : /\ Held(r) \cap given = {}
                               /\ \A q \in Readers \ {r} : Held(r) \cap Held(q) = {}

\* When all threads have answered BREAKPOINT, exactly the updates before the break point
\* have been returned: none is lost in a buffer or in a range nobody read, and none
\* behind a registered query was let through.
BreakPointIsExact ==
    AllPaused => given = 0 .. Least(Least(stream_off, query_index), NumEdges) - 1

\* The updates that are r's to return: those it holds, or will hold of what it claimed.
Due(r) == IF At(r, "claimed")
          THEN reader[r].next .. Least(Least(reader[r].end, query_index), NumEdges) - 1
          ELSE Held(r)
Frontier == Least(Least(stream_off, query_index), NumEdges)

\* Every update before the frontier has been returned or is due from one reader.
SharesInv ==
    /\ given \subseteq 0 .. Frontier - 1
    /\ \A r \in Readers : Due(r) \subseteq 0 .. Frontier - 1
    /\ \A x \in 0 .. Frontier - 1 : x \in given \/ \E r \in Readers : x \in Due(r)
    /\ \A r \in Readers : /\ Due(r) \cap given = {}
                          /\ \A q \in Readers \ {r} : Due(r) \cap Due(q) = {}

\* The offset is only beyond a query in the file while a reader that claimed what lies
\* there has yet to set it back.  One beyond the end of the file may be passed for good.
SetBackInv ==
    /\ \A r \in Readers : At(r, "claimed") =>
            /\ reader[r].end = reader[r].next + BufSize
            /\ reader[r].end > query_index => stream_off >= query_index
    /\ stream_off > query_index /\ query_index <= NumEdges =>
            \E r \in Readers : At(r, "claimed") /\ reader[r].end > query_index

\* Beyond the end of the file each reader claims at most once more.
Passed    == {r \in Readers : reader[r].pc \in {"query?", "claim"}}
OffsetInv == stream_off < NumEdges + BufSize * Cardinality(Readers \ Passed)

\* The inductive invariant behind EachOnce and BreakPointIsExact.
IInv == TypeOK /\ SharesInv /\ SetBackInv /\ OffsetInv

\* The readers that will still claim a range, whatever the user asks for in the meantime,
\* and where the offset is when all of them have.
Admitted == {r \in Readers : reader[r].pc \in {"end?", "query?", "claim"}}
Reach    == stream_off + BufSize * Cardinality(Admitted)

\* The threads always come to the break point the user waits for, and not merely because
\* the file ends: once an on-demand query is asked for, no reader is admitted any more.
\* What the readers may still take never grows, so that each takes at most one buffer: the
\* granularity that the class promises of these queries.
NoReaderAdmitted  == [][query_block => Reach' <= Reach]_vars
QueriesAreReached == []<>AllPaused /\ NoReaderAdmitted

=============================================================================
