------------------------------ MODULE MemAlign ------------------------------
(***************************************************************************)
(* The accesses of an execution that are no whole words on their way to    *)
(* the rows of the alignment machine: MemCounters measures every chunk,    *)
(* MemAlignPlanner deals the counted rows to instances of NumRows rows, a  *)
(* MemAlignCollector per instance and chunk picks the accesses out of the  *)
(* replayed chunk, and MemAlignSM writes the rows of an instance and       *)
(* counts the lines of the program and the bytes they look up.             *)
(***************************************************************************)
EXTENDS MemAlignSM, Bags, BagsExt

CONSTANTS
    NumRows,    \* rows of an instance
    Executions  \* the executions considered: for each chunk its accesses, by step

ASSUME MemAlignAssumption == NumRows \in Nat /\ NumRows >= 5

VARIABLES
    phase,          \* "count", "plan", "witness" or "panic"
    bus,            \* bus[c]: the accesses of chunk c
    counters,       \* counters[c]: MemCounters of the measured chunks
    chunkId,        \* the chunk the planner is at
    pendingRows, operationsDone,                            \* add_to_current_instance
    chunks, checkPoints, rowsAvailable, instances,          \* fields of MemAlignPlanner
    collected,      \* collected[<<s, c>>]: inputs of the collectors that have run
    traces,         \* traces[s]: the rows of the instances that have been computed
    multiplicity,   \* MemAlignRomSM: bag of the lines of the program
    rangeChecks     \* bag of the bytes the standard library is told about

plannerVars == <<chunkId, pendingRows, operationsDone, chunks, checkPoints, rowsAvailable,
                 instances>>
witnessVars == <<collected, traces, multiplicity, rangeChecks>>
vars == <<phase, bus, counters, plannerVars, witnessVars>>

Chunks == DOMAIN bus
Nothing == [x \in {} |-> 0]

Init ==
    /\ phase = "count"
    /\ bus \in Executions
    /\ counters = Nothing
    /\ chunkId = 0 /\ pendingRows = 0 /\ operationsDone = 0
    /\ chunks = <<>> /\ checkPoints = <<>> /\ rowsAvailable = NumRows /\ instances = <<>>
    /\ collected = Nothing /\ traces = Nothing
    /\ multiplicity = EmptyBag /\ rangeChecks = EmptyBag

-----------------------------------------------------------------------------
(* Counting: the chunks in any order *)

\* The counters of the accesses of a chunk, taken one after the other.
Measured(accesses) ==
    LET count[n \in 0 .. Len(accesses)] ==
            IF n = 0 THEN [addr |-> EmptyBag, ops |-> <<>>, rows |-> 0]
            ELSE LET a == accesses[n]
                     before == count[n - 1]
                 IN  [addr |-> before.addr (+) WordCounts(a),
                      ops |-> IF IsAligned(a) THEN before.ops
                              ELSE Append(before.ops, AlignRows(a)),
                      rows |-> before.rows + (IF IsAligned(a) THEN 0 ELSE AlignRows(a))]
    IN  count[Len(accesses)]

Measure(c) ==
    /\ phase = "count"
    /\ c \notin DOMAIN counters
    /\ counters' = [d \in DOMAIN counters \cup {c} |->
                        IF d = c THEN Measured(bus[c]) ELSE counters[d]]
    /\ phase' = IF DOMAIN counters' = Chunks THEN "plan" ELSE "count"
    /\ UNCHANGED <<bus, plannerVars, witnessVars>>

-----------------------------------------------------------------------------
(* Planning *)

\* align_plan: the next chunk, set_current_chunk_id.
NextChunk ==
    /\ phase = "plan" /\ pendingRows = 0 /\ chunkId < Len(bus)
    /\ chunkId' = chunkId + 1
    /\ pendingRows' = counters[chunkId'].rows
    /\ operationsDone' = 0
    /\ chunks' = IF pendingRows' = 0 THEN chunks ELSE Append(chunks, chunkId')
    /\ UNCHANGED <<phase, bus, counters, checkPoints, rowsAvailable, instances, witnessVars>>

\* calculate_how_many_operations_fit: the longest run of operations that fits.
RowsOfRun(ops, from, n) == FoldSeq(LAMBDA x, sum : x + sum, 0, SubSeq(ops, from + 1, from + n))
HowManyFit(ops, from) ==
    LET fits == {n \in 0 .. Len(ops) - from : RowsOfRun(ops, from, n) <= rowsAvailable}
        n == CHOOSE m \in fits : \A k \in fits : k <= m
    IN  [count |-> n, rows |-> RowsOfRun(ops, from, n)]

\* close_current_instance
Closed(cs, cps) ==
    IF cs = <<>> THEN instances
    ELSE Append(instances, [chunks |-> cs, checkPoints |-> cps])

\* add_to_current_instance: one turn of its loop.  An instance that is full, or in
\* which not one operation fits any more, is closed and the next one opened.
AddRows ==
    /\ phase = "plan" /\ pendingRows > 0
    /\ LET ops == counters[chunkId].ops
           fit == IF rowsAvailable >= pendingRows
                  THEN [count |-> Len(ops) - operationsDone, rows |-> pendingRows]
                  ELSE HowManyFit(ops, operationsDone)
           cps == Append(checkPoints, [skip |-> operationsDone, count |-> fit.count,
                                       rows |-> fit.rows])
           left == pendingRows - fit.rows
           full == rowsAvailable = fit.rows \/ fit.rows = 0
       IN  /\ pendingRows' = left
           /\ operationsDone' = operationsDone + fit.count
           /\ instances' = IF full THEN Closed(chunks, cps) ELSE instances
           /\ checkPoints' = IF full THEN <<>> ELSE cps
           /\ rowsAvailable' = IF full THEN NumRows ELSE rowsAvailable - fit.rows
           /\ chunks' = IF ~ full THEN chunks ELSE IF left > 0 THEN <<chunkId>> ELSE <<>>
    /\ UNCHANGED <<phase, bus, counters, chunkId, witnessVars>>

EndPlan ==
    /\ phase = "plan" /\ pendingRows = 0 /\ chunkId = Len(bus)
    /\ instances' = Closed(chunks, checkPoints)
    /\ chunks' = <<>> /\ checkPoints' = <<>>
    /\ phase' = "witness"
    /\ UNCHANGED <<bus, counters, chunkId, pendingRows, operationsDone, rowsAvailable,
                   witnessVars>>

-----------------------------------------------------------------------------
(* Collecting and writing: instances and their chunks in any order *)

\* MemAlignCollector::process_data over the replay of a chunk.
CollectedBy(accesses, cp) ==
    LET run[n \in 0 .. Len(accesses)] ==
            IF n = 0 THEN [skip |-> cp.skip, pending |-> cp.count, inputs |-> <<>>]
            ELSE LET a == accesses[n]
                     before == run[n - 1]
                 IN  IF IsAligned(a) THEN before
                     ELSE IF before.skip > 0 THEN [before EXCEPT !.skip = @ - 1]
                     ELSE IF before.pending = 0 THEN before
                     ELSE [before EXCEPT !.pending = @ - 1,
                                         !.inputs = Append(@, AlignInput(a))]
    IN  run[Len(accesses)].inputs

\* build_inputs_collector: the checkpoint at the first position of the chunk.
CheckPointOf(s, c) ==
    instances[s].checkPoints[CHOOSE i \in DOMAIN instances[s].chunks :
                                /\ instances[s].chunks[i] = c
                                /\ \A j \in 1 .. i - 1 : instances[s].chunks[j] # c]

Collect(s, c) ==
    /\ phase = "witness"
    /\ c \in ToSet(instances[s].chunks)
    /\ <<s, c>> \notin DOMAIN collected
    /\ collected' = [k \in DOMAIN collected \cup {<<s, c>>} |->
                        IF k = <<s, c>> THEN CollectedBy(bus[c], CheckPointOf(s, c))
                        ELSE collected[k]]
    /\ UNCHANGED <<phase, bus, counters, plannerVars, traces, multiplicity, rangeChecks>>

BytesOf(rows) ==
    LET occurs(b) == Cardinality({x \in (DOMAIN rows) \X Positions : rows[x[1]].reg[x[2]] = b})
        all == {rows[i].reg[j] : i \in DOMAIN rows, j \in Positions}
    IN  [b \in all |-> occurs(b)]

\* A mutated form of RangeChecksOf: padding rows are not counted.
RangeChecksOfInputs(rows, padding) == BytesOf(rows)

\* update_std_range_check
RangeChecksOf(rows, padding) ==
    IF padding = 0 THEN BytesOf(rows)
    ELSE BytesOf(rows) (+) [b \in {0} |-> ChunkNum * padding]

\* The lines counted by calculate_next_pc and update_padding_row.
LinesOf(inputs, padding) ==
    FoldSeq(LAMBDA a, bag : bag (+) SetToBag(LinesUsed(a)),
            IF padding = 0 THEN EmptyBag ELSE [l \in {0} |-> padding], inputs)

\* MemAlignInstance::compute_witness, MemAlignSM::compute_witness; rows beyond the trace
\* are an index out of range.
ComputeWitness(s) ==
    /\ phase = "witness"
    /\ s \notin DOMAIN traces
    /\ \A c \in ToSet(instances[s].chunks) : <<s, c>> \in DOMAIN collected
    /\ LET inputs == FlattenSeq([i \in DOMAIN instances[s].chunks |->
                                    collected[<<s, instances[s].chunks[i]>>]])
           rows == FlattenSeq([i \in DOMAIN inputs |-> RowsOf(inputs[i])])
           padding == NumRows - Len(rows)
       IN  IF padding < 0
           THEN phase' = "panic" /\ UNCHANGED <<traces, multiplicity, rangeChecks>>
           ELSE /\ traces' = [t \in DOMAIN traces \cup {s} |->
                                IF t = s THEN rows \o [i \in 1 .. padding |-> PaddingRow]
                                ELSE traces[t]]
                /\ multiplicity' = multiplicity (+) LinesOf(inputs, padding)
                /\ rangeChecks' = rangeChecks (+) RangeChecksOf(rows, padding)
                /\ UNCHANGED phase
    /\ UNCHANGED <<bus, counters, plannerVars, collected>>

Done ==
    /\ phase = "witness"
    /\ DOMAIN traces = DOMAIN instances

Next ==
    \/ \E c \in Chunks : Measure(c)
    \/ NextChunk
    \/ AddRows
    \/ EndPlan
    \/ \E s \in DOMAIN instances :
          \/ \E c \in Chunks : Collect(s, c)
          \/ ComputeWitness(s)
    \/ Done /\ UNCHANGED vars

Spec == Init /\ [][Next]_vars

-----------------------------------------------------------------------------
(* Properties *)

AllAccesses == UNION {ToSet(bus[c]) : c \in Chunks}
AllRows == {<<s, i>> \in (DOMAIN traces) \X (1 .. NumRows) : i \in DOMAIN traces[s]}
RowAt(r) == traces[r[1]][r[2]]

\* What the main machine assumes on the memory bus: a read brings the bytes it
\* covers, a write the whole register.
TrueValue(a) ==
    IF a.wr THEN a.value
    ELSE [i \in Positions |->
            IF i >= a.bytes THEN 0
            ELSE IF Offset(a) + i < ChunkNum THEN a.mem[1][Offset(a) + i]
            ELSE a.mem[2][Offset(a) + i - ChunkNum]]
MainTuple(a) ==
    [wr |-> a.wr, addr |-> a.addr, step |-> a.step, width |-> a.bytes, value |-> TrueValue(a)]

\* The accesses over two words that the code gets wrong: a read with something in the
\* second word, a write of something other than zero to it.
TwoWordBar(a) ==
    /\ IsDouble(a)
    /\ IF a.wr THEN Shr(a.value, ChunkNum - Offset(a)) # Zero ELSE a.mem[2] # Zero
Barred(row) == \E a \in AllAccesses : TwoWordBar(a) /\ row.step \in {a.step, a.step + 1}

\* Every row satisfies the constraints of mem_align.pil: the bytes it shares with its
\* neighbours, the steps of the program and the value composed of its registers.
RowsHold == \A r \in AllRows : RowHolds(traces[r[1]], r[2])

\* RowsHold but for the rows of the accesses TwoWordBar describes.
RowsHoldBar == \A r \in AllRows : Barred(RowAt(r)) \/ RowHolds(traces[r[1]], r[2])

\* No instance gets more rows than it has, and when all are written every access that is not
\* aligned is proved by one row of one instance, with the value the main machine assumes,
\* whatever the cuts between the instances: planner, collectors and rows agree.
OpsProvedBar ==
    /\ phase # "panic"
    /\ Done =>
        LET proving == {r \in AllRows : RowAt(r).prove /\ ~ Barred(RowAt(r))}
            ops == {a \in AllAccesses : ~ IsAligned(a) /\ ~ TwoWordBar(a)}
        IN  /\ {MemoryTuple(RowAt(r)) : r \in proving} = {MainTuple(a) : a \in ops}
            /\ Cardinality(proving) = Cardinality(ops)

\* The aligned accesses that MemSM is given are those the main machine and the rows of
\* the alignment machine assume, each once, and their number per word of a chunk is the
\* one MemCounters announced to the planner of the memory.
MemoryBalance ==
    LET inputs(c) == FlattenSeq([i \in DOMAIN bus[c] |-> MemInputs(bus[c][i])])
        given == UNION {{[in EXCEPT !.addr = @ * ChunkNum] : in \in ToSet(inputs(c))} :
                            c \in Chunks}
        ofMain == {[addr |-> a.addr, wr |-> a.wr, step |-> a.step, value |-> TrueValue(a)] :
                        a \in {a \in AllAccesses : IsAligned(a)}}
        assuming == {r \in AllRows : Assumes(RowAt(r))}
        ofAlign == {[addr |-> MemoryTuple(RowAt(r)).addr, wr |-> RowAt(r).wr,
                     step |-> RowAt(r).step, value |-> RowAt(r).value] : r \in assuming}
    IN  /\ \A c \in DOMAIN counters :
            counters[c].addr = FoldSeq(LAMBDA in, bag : BagAdd(bag, in.addr), EmptyBag, inputs(c))
        /\ Done => /\ given = ofMain \cup ofAlign
                   /\ Cardinality(given) = Cardinality(ofMain) + Cardinality(assuming)

\* The lines of the program and the bytes are counted as often as the written rows look
\* them up, also for the padding of partly filled instances.
TablesBalance ==
    LET lookups == [l \in 0 .. Len(Rom) - 1 |->
            Cardinality({r \in AllRows : LookedUp(traces[r[1]], r[2]) = Rom[l + 1]})]
        bytes == [b \in UNION {{RowAt(r).reg[j] : j \in Positions} : r \in AllRows} |->
            Cardinality({x \in AllRows \X Positions : RowAt(x[1]).reg[x[2]] = b})]
    IN  /\ multiplicity = [l \in {m \in DOMAIN lookups : lookups[m] > 0} |-> lookups[l]]
        /\ rangeChecks = bytes
=============================================================================
