------------------------------ MODULE MemPlan ------------------------------
(***************************************************************************)
(* The RAM accesses of an execution on their way to the rows of the memory *)
(* state machine (state-machines/mem/src):                                 *)
(*   - MemModulePlanner cuts the list of (address, chunk, count) that      *)
(*     MemCursor yields in segments of Rows rows, from the counters alone: *)
(*     it does not know the steps of the accesses;                         *)
(*   - a MemModuleCollector per (segment, chunk) picks the accesses of the *)
(*     segment out of the replayed chunk;                                  *)
(*   - MemModuleInstance sorts them and works out what the previous        *)
(*     segment ended with; MemSM turns them into rows.                     *)
(*                                                                         *)
(* Two rows of the same address may be at most StepMaxDiff steps apart, so *)
(* internal reads are put between accesses that are too far apart.  The    *)
(* planner counts them from the distance in chunks, MemSM from the steps,  *)
(* and both must agree for the segments to meet.                           *)
(*                                                                         *)
(* The configuration is the one of RAM: intermediate_step_reads, addresses *)
(* not consecutive.  Values are abstract: a write writes its own step.     *)
(***************************************************************************)
EXTENDS Integers, Sequences, FiniteSets, SequencesExt

CONSTANTS
    NumChunks,      \* chunks of the execution
    ChunkSteps,     \* CHUNK_SIZE_STEPS: memory steps of a chunk
    DiffChunks,     \* MEMORY_MAX_DIFF in chunks (16 in the code)
    LimitToVerify,  \* STEP_MEMORY_LIMIT_TO_VERIFY
    MaxAddr,        \* accessed words are MinAddr .. MaxAddr
    Rows,           \* rows of a segment
    MaxAccesses     \* bound on the accesses of an execution

ASSUME MemPlanAssumption ==
    /\ NumChunks \in Nat /\ ChunkSteps \in Nat /\ ChunkSteps >= 2
    /\ DiffChunks \in Nat /\ DiffChunks >= 2
    /\ LimitToVerify \in 0 .. (DiffChunks - 1) * ChunkSteps
    /\ MaxAddr \in Nat /\ Rows \in Nat \ {0} /\ MaxAccesses \in Nat
    \* as in the code, by orders of magnitude: a segment has more rows than the
    \* longest gap has internal reads, a chunk more steps than they are
    /\ NumChunks \div DiffChunks <= Rows /\ NumChunks \div DiffChunks <= ChunkSteps

MinAddr == 0                                    \* RAM_W_ADDR_INIT
StepBase == 1                                   \* MEM_STEP_BASE
StepMaxDiff == DiffChunks * ChunkSteps - 1      \* STEP_MEMORY_MAX_DIFF
ChunkMaxDistance == StepMaxDiff \div ChunkSteps \* CHUNK_MAX_DISTANCE
None == -1                                      \* None of an Option

-----------------------------------------------------------------------------
(* MemHelpers: steps, chunks and internal reads *)

Chunks == 0 .. NumChunks - 1
FirstStep(chunk) == chunk * ChunkSteps + StepBase
LastStep(chunk) == chunk * ChunkSteps + StepBase + ChunkSteps - 1

\* Before the first step (an instance without a previous segment starts at step
\* 0) u64 wraps to the same distances as chunk -1 has: a release build.
ChunkOf(step) == (step - StepBase) \div ChunkSteps
DistanceBetween(from, to) == LastStep(to) - FirstStep(from)

\* A mutated form of IntermediateRows: only the internal reads that the steps
\* need, without the row that makes up for what the counters do not know.
NeededRows(last, step, force) ==
    IF DistanceBetween(ChunkOf(last), ChunkOf(step)) > StepMaxDiff
    THEN [full |-> (step - last - 1) \div StepMaxDiff, zero |-> 0]
    ELSE [full |-> 0, zero |-> IF force THEN 1 ELSE 0]

\* forced_get_intermediate_rows: internal reads between two accesses, full ones
\* of StepMaxDiff steps and a last one of zero steps; both 0 for None.
IntermediateRows(last, step, force) ==
    LET distance == DistanceBetween(ChunkOf(last), ChunkOf(step))
        planned == (distance - 1) \div StepMaxDiff
        needed == (step - last - 1) \div StepMaxDiff
    IN  IF distance > StepMaxDiff
        THEN IF needed < planned
             THEN [full |-> planned - 1, zero |-> 1]
             ELSE [full |-> planned, zero |-> 0]
        ELSE [full |-> 0, zero |-> IF force THEN 1 ELSE 0]

-----------------------------------------------------------------------------
(* The execution *)

Steps == FirstStep(0) .. LastStep(NumChunks - 1)

\* The slots of a main step: a source is read before the result is written.
IsWrite(step) == (step - StepBase) % 2 = 1

VARIABLES
    pc,         \* where the planner is, "witness", "done" or "panic"
    accesses,   \* the set of <<addr, step>> of the execution
    cursor,     \* the list of [addr, chunk, count] still to be planned
    entry,      \* the one add_to_current_instance is working on
    pending,    \* rows of the current loop not consumed yet
    total,      \* rows of the current loop
    rowsAvailable, lastAddr, segments, current,     \* fields of
    lastChunk, currentChunk,                        \* MemModulePlanner
    refChunk, refAddr, refSkip,
    witness     \* witness[s]: the rows and air values of segment s

plannerVars == <<rowsAvailable, lastAddr, segments, current, lastChunk, currentChunk,
                 refChunk, refAddr, refSkip>>
vars == <<pc, accesses, cursor, entry, pending, total, plannerVars, witness>>

InChunk(chunk) == {a \in accesses : ChunkOf(a[2]) = chunk}

\* The value of an access: the last write to its address up to its step.
ValueOf(a) ==
    LET writes == {b[2] : b \in {b \in accesses :
                        b[1] = a[1] /\ b[2] <= a[2] /\ IsWrite(b[2])}}
    IN  IF writes = {} THEN 0 ELSE Max(writes)

Before(a, b) == a[1] < b[1] \/ (a[1] = b[1] /\ a[2] < b[2])

\* The elements of a set of pairs in order.
Sorted(set) ==
    [i \in 1 .. Cardinality(set) |->
        CHOOSE a \in set : Cardinality({b \in set : Before(b, a)}) = i - 1]

\* What MemCursor yields for the execution.
CursorOf(acc) ==
    LET sorted == Sorted({<<a[1], ChunkOf(a[2])>> : a \in acc})
    IN  [i \in 1 .. Len(sorted) |->
            [addr |-> sorted[i][1], chunk |-> sorted[i][2],
             count |-> Cardinality({a \in acc :
                a[1] = sorted[i][1] /\ ChunkOf(a[2]) = sorted[i][2]})]]

NoEntry == [addr |-> MinAddr, chunk |-> None, count |-> 0]
NoChunks == [c \in {} |-> 0]

\* The executions considered.
Executions ==
    LET upTo[n \in 0 .. MaxAccesses] ==
            IF n = 0 THEN {{}}
            ELSE {s \cup e : s \in upTo[n - 1],
                             e \in {{}} \cup {{a} : a \in (MinAddr .. MaxAddr) \X Steps}}
    IN  upTo[MaxAccesses] \ {{}}

Init ==
    /\ pc = "next"
    /\ accesses \in Executions
    /\ cursor = CursorOf(accesses)
    /\ entry = NoEntry /\ pending = 0 /\ total = 0
    /\ rowsAvailable = Rows
    /\ lastAddr = MinAddr
    /\ segments = <<>>
    /\ current = NoChunks
    /\ lastChunk = None /\ currentChunk = None
    /\ refChunk = None /\ refAddr = MinAddr /\ refSkip = 0
    /\ witness = <<>>

-----------------------------------------------------------------------------
(* MemModuleCheckPoint *)

CheckPoint(addr, skip, count, interSkip) ==
    [fromAddr |-> addr, fromSkip |-> skip, toAddr |-> addr, toCount |-> count,
     count |-> count, interSkip |-> interSkip]

\* add_rows of a check point
ExtendCheckPoint(cp, addr, count) ==
    [cp EXCEPT !.count = @ + count,
               !.toAddr = addr,
               !.toCount = IF addr = cp.toAddr THEN @ + count ELSE count]

\* add_chunk_to_segment
AddChunk(chunks, chunk, addr, count, skip) ==
    [c \in DOMAIN chunks \cup {chunk} |->
        IF c # chunk THEN chunks[c]
        ELSE IF c \in DOMAIN chunks THEN ExtendCheckPoint(chunks[c], addr, count)
        ELSE CheckPoint(addr, skip, count, None)]

\* close_segment
Closed(chunks, isLast) == Append(segments, [chunks |-> chunks, isLast |-> isLast])

\* The chunks of a segment that open_segment has just opened.
Opened(interSkip) ==
    IF refChunk = None THEN NoChunks
    ELSE [c \in {refChunk} |-> CheckPoint(refAddr, refSkip, 0, interSkip)]

-----------------------------------------------------------------------------
(* MemModulePlanner *)

\* The rows that add_intermediate_steps adds for a gap of whole chunks.
IntermediateSteps(last, chunk) ==
    IF last = None \/ chunk - last <= ChunkMaxDistance THEN 0
    ELSE Max({1, (DistanceBetween(last, chunk) - 1) \div StepMaxDiff})

\* get_next, set_current_chunk_id and the start of add_intermediates.
NextEntry ==
    /\ pc = "next"
    /\ cursor # <<>>
    /\ LET e == Head(cursor)
           rows == IF lastAddr = e.addr THEN IntermediateSteps(currentChunk, e.chunk) ELSE 0
       IN  /\ entry' = e
           /\ lastChunk' = currentChunk
           /\ currentChunk' = e.chunk
           /\ lastAddr' = e.addr
           /\ total' = rows
           /\ pending' = rows
    /\ cursor' = Tail(cursor)
    /\ pc' = "intermediate"
    /\ UNCHANGED <<accesses, rowsAvailable, segments, current, refChunk, refAddr, refSkip,
                   witness>>

\* An iteration of add_intermediate_rows: consume_intermediate_rows.
ConsumeIntermediate ==
    /\ pc = "intermediate"
    /\ pending > 0
    /\ LET rows == Min({pending, rowsAvailable})
           opens == rowsAvailable = 0
       IN  /\ segments' = IF opens THEN Closed(current, FALSE) ELSE segments
           /\ current' = IF opens THEN Opened(total - pending) ELSE current
           /\ rowsAvailable' = (IF opens THEN Rows ELSE rowsAvailable) - rows
           /\ pending' = pending - rows
    /\ UNCHANGED <<pc, accesses, cursor, entry, total, lastAddr, lastChunk, currentChunk,
                   refChunk, refAddr, refSkip, witness>>

\* A mutated form of Preopen: the closing segment does not get the access that
\* follows its last internal reads.
PreopenWithoutNext ==
    /\ pc = "intermediate"
    /\ pending = 0
    /\ IF rowsAvailable = 0
       THEN /\ segments' = Closed(current, FALSE)
            /\ current' = Opened(total)
            /\ rowsAvailable' = Rows
       ELSE UNCHANGED <<segments, current, rowsAvailable>>
    /\ refChunk' = entry.chunk /\ refAddr' = entry.addr /\ refSkip' = 0
    /\ total' = entry.count /\ pending' = entry.count
    /\ pc' = "rows"
    /\ UNCHANGED <<accesses, cursor, entry, lastAddr, lastChunk, currentChunk, witness>>

\* preopen_segment and set_reference; add_rows starts.
Preopen ==
    /\ pc = "intermediate"
    /\ pending = 0
    /\ IF rowsAvailable = 0
       THEN /\ segments' =
                 Closed(IF total > 0
                        THEN AddChunk(current, currentChunk, entry.addr, 1, 0)
                        ELSE current, FALSE)
            /\ current' = Opened(total)
            /\ rowsAvailable' = Rows
       ELSE UNCHANGED <<segments, current, rowsAvailable>>
    /\ refChunk' = entry.chunk /\ refAddr' = entry.addr /\ refSkip' = 0
    /\ total' = entry.count /\ pending' = entry.count
    /\ pc' = "rows"
    /\ UNCHANGED <<accesses, cursor, entry, lastAddr, lastChunk, currentChunk, witness>>

\* A mutated form of ConsumeRows: all pending rows at once.
ConsumeAllRows ==
    /\ pc = "rows"
    /\ pending > 0
    /\ current' = AddChunk(current, currentChunk, entry.addr, pending, 0)
    /\ rowsAvailable' = rowsAvailable - pending
    /\ refSkip' = refSkip + pending
    /\ pending' = 0
    /\ UNCHANGED <<pc, accesses, cursor, entry, total, lastAddr, segments, lastChunk,
                   currentChunk, refChunk, refAddr, witness>>

\* An iteration of add_rows: consume_rows.
ConsumeRows ==
    /\ pc = "rows"
    /\ pending > 0
    /\ LET rows == Min({pending, rowsAvailable})
           opens == rowsAvailable = 0
           chunks == IF opens THEN Opened(0) ELSE current
       IN  /\ segments' = IF opens THEN Closed(current, FALSE) ELSE segments
           /\ current' = AddChunk(chunks, currentChunk, entry.addr, rows, total - pending)
           /\ rowsAvailable' = (IF opens THEN Rows ELSE rowsAvailable) - rows
           /\ refSkip' = refSkip + rows
           /\ pending' = pending - rows
    /\ UNCHANGED <<pc, accesses, cursor, entry, total, lastAddr, lastChunk, currentChunk,
                   refChunk, refAddr, witness>>

EndEntry ==
    /\ pc = "rows"
    /\ pending = 0
    /\ pc' = "next"
    /\ UNCHANGED <<accesses, cursor, entry, pending, total, plannerVars, witness>>

\* close_last_segment, once the cursor is at its end.
CloseLast ==
    /\ pc = "next"
    /\ cursor = <<>>
    /\ segments' =
         IF rowsAvailable < Rows THEN Closed(current, TRUE)
         ELSE [s \in 1 .. Len(segments) |->
                [segments[s] EXCEPT !.isLast = @ \/ s = Len(segments)]]
    /\ pc' = "witness"
    /\ UNCHANGED <<accesses, cursor, entry, pending, total, rowsAvailable, lastAddr, current,
                   lastChunk, currentChunk, refChunk, refAddr, refSkip, witness>>

-----------------------------------------------------------------------------
(* MemModuleCollector *)

NewCollector(cp) ==
    [cp |-> cp, count |-> cp.count, toCount |-> cp.toCount, skip |-> cp.fromSkip,
     prev |-> {}, inputs |-> {}]

\* A mutated form of Filter: from_skip is not looked at.
FilterWithoutSkip(k, a) ==
    IF \/ a[1] > k.cp.toAddr \/ a[1] < k.cp.fromAddr
       \/ k.count = 0 \/ (a[1] = k.cp.toAddr /\ k.toCount = 0)
    THEN k
    ELSE [k EXCEPT !.count = @ - 1,
                   !.toCount = IF a[1] = k.cp.toAddr THEN @ - 1 ELSE @,
                   !.inputs = @ \cup {a}]

\* filtered_inputs_push and discart_addr_step for one access.
Filter(k, a) ==
    IF a[1] > k.cp.toAddr \/ a[1] < k.cp.fromAddr THEN k
    ELSE IF a[1] = k.cp.fromAddr /\ k.skip > 0
    THEN [k EXCEPT !.skip = @ - 1,
                   !.prev = IF k.skip = 1 /\ k.cp.interSkip # None THEN {a} ELSE @]
    ELSE IF k.count = 0 \/ (a[1] = k.cp.toAddr /\ k.toCount = 0) THEN k
    ELSE [k EXCEPT !.count = @ - 1,
                   !.toCount = IF a[1] = k.cp.toAddr THEN @ - 1 ELSE @,
                   !.inputs = @ \cup {a}]

\* The accesses of a chunk as its replay delivers them: by step.
Replay(chunk) ==
    LET bySteps == Sorted({<<a[2], a[1]>> : a \in InChunk(chunk)})
    IN  [i \in 1 .. Len(bySteps) |-> <<bySteps[i][2], bySteps[i][1]>>]

\* The collector of a segment for a chunk, after the replay.
Collected(cp, chunk) ==
    LET bus == Replay(chunk)
        after[i \in 0 .. Len(bus)] ==
            IF i = 0 THEN NewCollector(cp)
            ELSE LET k == after[i - 1] IN Filter(k, bus[i])
    IN  after[Len(bus)]

-----------------------------------------------------------------------------
(* MemModuleInstance and MemSM *)

\* fit_inputs_and_get_prev_segment: the step at which the previous segment
\* ended when it already holds skip of the internal reads before inputs[1].
Fit(prev, inputs, skip) ==
    LET ir == IntermediateRows(prev.step, inputs[1][2], FALSE)
    IN  IF skip <= 0 THEN prev
        ELSE IF skip <= ir.full
        THEN [prev EXCEPT !.step = @ + skip * StepMaxDiff,
                          !.zero = skip = ir.full /\ ir.zero = 1]
        ELSE [prev EXCEPT !.step = @ + ir.full * StepMaxDiff,
                          !.panic = skip # ir.full + ir.zero]

Row(addr, changes, step, sel, wr, value, inc) ==
    [addr |-> addr, changes |-> changes, step |-> step, sel |-> sel, wr |-> wr,
     value |-> value, inc |-> inc]

\* A row that no access has caused: a read of the value of the row before.
SilentRow(w, step, inc) == Row(w.addr, FALSE, step, FALSE, FALSE, w.value, inc)

\* A mutated form of InternalReads: a read of zero steps has the increment of a
\* full one.
InternalReadsAllFull(w, full, n) ==
    [w EXCEPT
        !.rows = @ \o [j \in 1 .. n |->
            SilentRow(w, w.step + Min({j, full}) * StepMaxDiff, StepMaxDiff + 1)],
        !.step = @ + full * StepMaxDiff]

\* The rows of n internal reads after w, the first full ones of StepMaxDiff.
InternalReads(w, full, n) ==
    [w EXCEPT
        !.rows = @ \o [j \in 1 .. n |->
            SilentRow(w, w.step + Min({j, full}) * StepMaxDiff,
                      IF j <= full THEN StepMaxDiff + 1 ELSE 1)],
        !.step = @ + full * StepMaxDiff]

\* The row of a memory operation; an increment that has no range check panics.
RegularRow(w, a) ==
    LET wr == IsWrite(a[2])
        changes == a[1] # w.addr
        inc == IF changes THEN a[1] - w.addr
               ELSE a[2] - w.step + (IF wr THEN 0 ELSE 1)
    IN  [w EXCEPT !.rows = Append(@, Row(a[1], changes, a[2], TRUE, wr, ValueOf(a), inc)),
                  !.addr = a[1], !.step = a[2], !.value = ValueOf(a), !.zero = FALSE,
                  !.panic = inc \notin 1 .. StepMaxDiff + 1]

\* One iteration of the loop of MemSM::compute_witness over the inputs.
WitnessOp(w, a) ==
    LET same == a[1] = w.addr
        ir == IF same /\ (a[2] - w.step >= LimitToVerify \/ w.zero)
              THEN IntermediateRows(w.step, a[2], w.zero)
              ELSE [full |-> 0, zero |-> 0]
        n == ir.full + ir.zero
        left == Rows - Len(w.rows)
    IN  IF w.stop \/ w.panic THEN w
        ELSE IF left = 0 THEN [w EXCEPT !.stop = TRUE]
        ELSE IF same /\ a[2] < w.step THEN [w EXCEPT !.panic = TRUE]
        ELSE IF n = 0 THEN RegularRow(w, a)
        ELSE IF n < left THEN RegularRow(InternalReads(w, ir.full, n), a)
        ELSE IF n = left THEN [InternalReads(w, ir.full, n) EXCEPT !.stop = TRUE]
        ELSE [InternalReads(w, left, left) EXCEPT !.stop = TRUE]

\* The padding of a segment: by one step at the end of the memory, by the
\* largest distance when internal reads continue in the next segment.
Padded(w, isLast) ==
    LET by == IF isLast THEN 1 ELSE StepMaxDiff
        n == Rows - Len(w.rows)
    IN  [w EXCEPT
            !.rows = @ \o [j \in 1 .. n |->
                SilentRow(w, w.step + j * by, by + 1)],
            !.step = @ + n * by]

\* The witness of a segment from the collectors of its chunks.
Witness(seg) ==
    LET collected == [c \in DOMAIN seg.chunks |-> Collected(seg.chunks[c], c)]
        inputs == Sorted(UNION {collected[c].inputs : c \in DOMAIN collected})
        prevs == UNION {collected[c].prev : c \in DOMAIN collected}
        skips == {seg.chunks[c].interSkip : c \in DOMAIN collected} \ {None}
        found == CHOOSE a \in prevs : TRUE
        prev0 == IF prevs = {}
                 THEN [addr |-> MinAddr, step |-> 0, value |-> 0, zero |-> FALSE,
                       panic |-> FALSE]
                 ELSE [addr |-> found[1], step |-> found[2], value |-> ValueOf(found),
                       zero |-> FALSE, panic |-> Cardinality(prevs) > 1]
        prev == Fit(prev0, inputs, IF skips = {} THEN 0 ELSE CHOOSE n \in skips : TRUE)
        start == [rows |-> <<>>, addr |-> prev.addr, step |-> prev.step,
                  value |-> prev.value, zero |-> prev.zero, stop |-> FALSE,
                  panic |-> prev.panic]
        after[i \in 0 .. Len(inputs)] ==
            IF i = 0 THEN start ELSE LET w == after[i - 1] IN WitnessOp(w, inputs[i])
        end == Padded(after[Len(inputs)], seg.isLast)
    IN  IF inputs = <<>> THEN [rows |-> <<>>, panic |-> FALSE]
        ELSE [rows |-> end.rows, panic |-> end.panic,
              prev |-> [addr |-> prev.addr, step |-> prev.step, value |-> prev.value],
              last |-> [addr |-> end.addr, step |-> end.step, value |-> end.value]]

\* compute_witness of the next segment.  Segments share no state, so the order
\* in which the executor takes them does not matter.
ComputeWitness ==
    /\ pc = "witness"
    /\ \E w \in {Witness(segments[Len(witness) + 1])} :
        /\ witness' = Append(witness, w)
        /\ pc' = IF w.panic THEN "panic"
                 ELSE IF Len(witness) + 1 = Len(segments) THEN "done" ELSE "witness"
    /\ UNCHANGED <<accesses, cursor, entry, pending, total, plannerVars>>

Terminated == pc \in {"done", "panic"} /\ UNCHANGED vars

Next ==
    \/ NextEntry \/ ConsumeIntermediate \/ Preopen \/ ConsumeRows \/ EndEntry
    \/ CloseLast \/ ComputeWitness \/ Terminated

Spec == Init /\ [][Next]_vars

-----------------------------------------------------------------------------

\* Type invariant.
TypeOK ==
    /\ pc \in {"next", "intermediate", "rows", "witness", "done", "panic"}
    /\ accesses \subseteq (MinAddr .. MaxAddr) \X Steps
    /\ rowsAvailable \in 0 .. Rows
    /\ pending \in 0 .. total
    /\ lastChunk \in Chunks \cup {None} /\ currentChunk \in Chunks \cup {None}
    /\ refChunk \in Chunks \cup {None}
    /\ DOMAIN current \subseteq Chunks
    /\ \A s \in 1 .. Len(segments) : segments[s].isLast \in BOOLEAN

\* The assertion of add_rows of a check point holds: rows that are added to the
\* check point of a chunk are not of an address before the ones it has.
CheckPointsGrow ==
    pc \in {"intermediate", "rows"} /\ currentChunk \in DOMAIN current =>
        current[currentChunk].toAddr <= entry.addr

\* None of the assertions and panics on this path fires: check points grow in
\* address order, one collector at most has the previous segment, the skipped
\* internal reads exist, steps do not go back and increments have a range check.
NoPanic == pc # "panic" /\ CheckPointsGrow

\* The memory operations of all segments, in row order.
Operations ==
    SelectSeq(FlattenSeq([s \in 1 .. Len(witness) |-> witness[s].rows]),
              LAMBDA r : r.sel)

\* Every access of the execution is a row of exactly one segment, and all rows
\* are by address and step: what the planner gave to each segment from the
\* counters is what the collectors picked and what fitted in its rows.
RowedOnce ==
    pc = "done" =>
        [i \in 1 .. Len(Operations) |-> <<Operations[i].addr, Operations[i].step>>]
            = Sorted(accesses)

\* A segment starts from the address, step and value the one before ended with,
\* which the AIR's continuation constraint requires.
SegmentsMeet ==
    pc = "done" =>
        \A s \in 1 .. Len(witness) :
            /\ witness[s].rows # <<>>
            /\ s > 1 => witness[s].prev = witness[s - 1].last

\* A segment that another one follows ends with an internal read that the next
\* one miscounts from: a read of zero steps, or a full one at the last step of a
\* chunk, one chunk earlier than the planner's distance in chunks assumes.
MiscountedSplit ==
    \E s \in 1 .. Len(witness) - 1 :
        /\ witness[s].rows # <<>>
        /\ LET r == Last(witness[s].rows)
           IN  ~r.sel /\ (r.inc = 1 \/ r.step = LastStep(ChunkOf(r.step)))

\* The first access is of the first word of RAM, and so late that MemSM puts
\* internal reads between it and step 0, where it thinks that a previous segment
\* of that word ended.  The planner counts none before its first entry.
UnplannedReads ==
    witness # <<>> /\ witness[1].rows # <<>> /\ ~witness[1].rows[1].sel

Miscounted == MiscountedSplit \/ UnplannedReads

\* RowedOnce, unless a segment boundary falls right behind such a read or the
\* first word is read so late: a segment then makes more rows than the planner
\* has counted.
RowedOnceBarMiscount == Miscounted \/ RowedOnce

\* SegmentsMeet, with the same exceptions.
SegmentsMeetBarMiscount == Miscounted \/ SegmentsMeet

\* Row r may follow p, by the constraints of mem.pil between two rows: the
\* increment is of the address if it changes, else of the step, and one more for
\* a read; it is in range; the address changes only where the row says so; a
\* read keeps the value, and finds 0 at a new address; no write is silent.
MayFollow(p, r) ==
    /\ r.inc = IF r.changes THEN r.addr - p.addr
               ELSE r.step - p.step + (IF r.wr THEN 0 ELSE 1)
    /\ r.inc \in 1 .. StepMaxDiff + 1
    /\ ~r.changes => r.addr = p.addr
    /\ ~r.wr => r.value = IF r.changes THEN 0 ELSE p.value
    /\ r.wr => r.sel

\* The rows of every segment satisfy these constraints, from the values of the
\* previous segment on, internal reads and padding included; the values that the
\* segment passes on are those of its last row; and the first segment starts
\* from the start of the memory, which the global constraint provides.
RowsChain ==
    pc = "done" =>
        \A s \in 1 .. Len(witness) : witness[s].rows # <<>> =>
            /\ \A i \in 1 .. Len(witness[s].rows) :
                 MayFollow(IF i = 1 THEN witness[s].prev ELSE witness[s].rows[i - 1],
                           witness[s].rows[i])
            /\ LET r == witness[s].rows[Len(witness[s].rows)]
               IN  witness[s].last = [addr |-> r.addr, step |-> r.step, value |-> r.value]
            /\ s = 1 => witness[s].prev = [addr |-> MinAddr, step |-> 0, value |-> 0]

\* The first row of the first segment has addr_changes = 1, "because it's as a new
\* addr" (mem.pil, lines 309 and 318).
FirstRowChanges ==
    pc = "done" /\ witness[1].rows # <<>> => witness[1].rows[1].changes

\* The first row is of the first word of RAM, where MemSM takes it for a second
\* access of the address that a previous segment would have ended with.
StartsAtMinAddr ==
    pc = "done" /\ witness[1].rows # <<>> /\ witness[1].rows[1].addr = MinAddr

\* All the constraints on the rows: RowsChain and FirstRowChanges, the latter
\* unless the row is of the first word of RAM.
RowsChainBarFirst == RowsChain /\ (StartsAtMinAddr \/ FirstRowChanges)
=============================================================================
