------------------------------ MODULE MainRegs ------------------------------
(***************************************************************************)
(* Register accesses in a segment of the main state machine                *)
(* (state-machines/main/src/main_sm.rs, emulator/src/emu_reg_trace.rs).    *)
(*                                                                         *)
(* The row of an access to a register tells at which memory step the       *)
(* register was accessed before, and the difference of the two steps is    *)
(* range checked.  The minimal traces of a segment are replayed in         *)
(* parallel, each with an EmuRegTrace of its own, which cannot know the    *)
(* step of the last access in the traces before: compute_witness fills in  *)
(* the first access of every trace when all have ended.  The counters of   *)
(* the ranges are shared by all of them.                                   *)
(*                                                                         *)
(* Registers do not interact, so the model follows one of them.            *)
(***************************************************************************)
EXTENDS Integers, Sequences, FiniteSets, FiniteSetsExt

CONSTANTS
    TraceSize,      \* min_trace_size: steps of a minimal trace
    NumWithin,      \* minimal traces of a segment
    Slots,          \* slots of a step that may access the register, of 0 .. 2
    Segments        \* segment ids considered

ASSUME MainRegsAssumption ==
    /\ TraceSize \in Nat \ {0}
    /\ NumWithin \in Nat \ {0}
    /\ TraceSize * NumWithin > 1    \* step 0 is not the last row of a segment
    /\ Slots \subseteq 0 .. 2
    /\ Segments \subseteq Nat

StepsByMainStep == 4                        \* MEM_STEPS_BY_MAIN_STEP
NumRows == TraceSize * NumWithin
MaxRange == TraceSize * StepsByMainStep     \* length of step_range_check

MemStep(step, slot) == 1 + StepsByMainStep * step + slot
SpecialMemStep(step) == IF step = 0 THEN 0 ELSE MemStep(step, 3)

VARIABLES
    pc,         \* "fill", "complete", "air" or "done"
    segment,    \* segment_id
    filled,     \* filled_rows
    accessed,   \* the memory steps of the segment that access the register
    next,       \* next[k]: rows of trace k filled so far
    regTrace,   \* regTrace[k]: steps and firstUse of the EmuRegTrace of trace k
    prevStep,   \* memory step -> the previous step that its row tells
    checks,     \* step_range_check: range -> multiplicity
    large,      \* large_range_checks
    regStep,    \* reg_steps of compute_witness
    index,      \* loop variable of complete_trace_with_initial_reg_steps
    lastStep    \* air value last_reg_mem_step

vars == <<pc, segment, filled, accessed, next, regTrace, prevStep, checks, large, regStep,
          index, lastStep>>

None == -1

FirstRow == segment * NumRows

\* A mutated form of InitialStep: every segment starts as the first one.
InitialStepOfFirst == SpecialMemStep(0)

\* The memory step at which every register counts as accessed before the segment.
InitialStep == SpecialMemStep(IF segment = 0 THEN 0 ELSE FirstRow - 1)
FinalStep == SpecialMemStep(FirstRow + NumRows - 1)

\* The minimal traces of the segment; the last one of the last segment is short.
Traces == 0 .. (filled + TraceSize - 1) \div TraceSize - 1
RowsOf(k) == Min({TraceSize, filled - k * TraceSize})

StepOf(memStep) == (memStep - 1) \div StepsByMainStep

\* EmuRegTrace::from_init_step for trace k.
FromInitStep(k, init) ==
    [steps |-> IF k = 0 THEN init ELSE 0, firstUse |-> IF k = 0 THEN init ELSE None]

Init ==
    /\ pc = "fill"
    /\ segment \in Segments
    /\ filled \in 1 .. NumRows
    \* the last instruction of a program accesses no register
    /\ accessed \in SUBSET {MemStep(segment * NumRows + r, s) :
                        r \in 0 .. (IF filled < NumRows THEN filled - 2 ELSE filled - 1),
                        s \in Slots}
    /\ next = [k \in 0 .. NumWithin - 1 |-> 0]
    /\ regTrace = [k \in 0 .. NumWithin - 1 |-> FromInitStep(k, InitialStep)]
    /\ prevStep = [m \in {} |-> 0]
    /\ checks = [v \in 1 .. MaxRange |-> 0]
    /\ large = <<>>
    /\ regStep = InitialStep
    /\ index = 1
    /\ lastStep = None

-----------------------------------------------------------------------------

\* EmuRegTrace::trace_reg_access at memory step m.
TraceAccess(t, m) ==
    LET first == t.trace.firstUse = None
    IN  [trace  |-> [steps |-> m, firstUse |-> IF first THEN m ELSE t.trace.firstUse],
         ranges |-> IF first THEN t.ranges
                    ELSE t.ranges \cup {[slot |-> m, range |-> m - t.trace.steps]},
         prev   |-> [x \in DOMAIN t.prev \cup {m} |->
                        IF x = m THEN t.trace.steps ELSE t.prev[x]]]

Access(t, m) == IF m \in accessed THEN TraceAccess(t, m) ELSE t

\* The accesses of a step in the order of the slots.
RowTrace(t, step) ==
    Access(Access(Access(t, MemStep(step, 0)), MemStep(step, 1)), MemStep(step, 2))

\* A range check is counted, or kept apart when it is too large.
Counted(c, range) == IF range \in DOMAIN c THEN [c EXCEPT ![range] = @ + 1] ELSE c

\* step_slice_full_trace on the next row of trace k, then update_step_range_check.
FillRow(k) ==
    /\ pc = "fill"
    /\ k \in Traces
    /\ next[k] < RowsOf(k)
    /\ \E end \in {RowTrace([trace |-> regTrace[k], ranges |-> {}, prev |-> prevStep],
                            FirstRow + k * TraceSize + next[k])} :
        /\ regTrace' = [regTrace EXCEPT ![k] = end.trace]
        /\ prevStep' = end.prev
        /\ checks' = [v \in DOMAIN checks |->
                        checks[v] + Cardinality({r \in end.ranges : r.range = v})]
    /\ next' = [next EXCEPT ![k] = @ + 1]
    /\ UNCHANGED <<pc, segment, filled, accessed, large, regStep, index, lastStep>>

FillEnd ==
    /\ pc = "fill"
    /\ \A k \in Traces : next[k] = RowsOf(k)
    /\ pc' = "complete"
    /\ UNCHANGED <<segment, filled, accessed, next, regTrace, prevStep, checks, large, regStep,
                   index, lastStep>>

\* A mutated form of LastUse: a trace without an access hides the ones before.
LastUseOfTrace(k) == regTrace[k].steps

\* The last access up to trace k, regStep being the one up to the trace before.
LastUse(k) == IF regTrace[k].steps = 0 THEN regStep ELSE regTrace[k].steps

\* An iteration of complete_trace_with_initial_reg_steps_per_chunk.
CompleteTrace ==
    /\ pc = "complete"
    /\ index \in Traces
    /\ LET m == regTrace[index].firstUse
           range == m - LastUse(index - 1)
       IN  IF m = None
           THEN UNCHANGED <<prevStep, checks, large>>
           ELSE /\ prevStep' = [prevStep EXCEPT ![m] = LastUse(index - 1)]
                /\ checks' = Counted(checks, range)
                /\ large' = IF range > MaxRange THEN Append(large, range) ELSE large
    /\ regStep' = LastUse(index - 1)
    /\ index' = index + 1
    /\ UNCHANGED <<pc, segment, filled, accessed, next, regTrace, lastStep>>

\* A mutated form of LastChunk: the last trace is not looked at.
LastChunkSkipped ==
    /\ pc = "complete"
    /\ index \notin Traces
    /\ pc' = "air"
    /\ UNCHANGED <<segment, filled, accessed, next, regTrace, prevStep, checks, large, regStep,
                   index, lastStep>>

\* update_reg_steps_with_last_chunk
LastChunk ==
    /\ pc = "complete"
    /\ index \notin Traces
    /\ regStep' = LastUse(index - 1)
    /\ pc' = "air"
    /\ UNCHANGED <<segment, filled, accessed, next, regTrace, prevStep, checks, large, index,
                   lastStep>>

\* update_reg_airvalues
AirValues ==
    /\ pc = "air"
    /\ lastStep' = regStep
    /\ LET range == FinalStep - regStep
       IN  /\ checks' = Counted(checks, range)
           /\ large' = IF range > MaxRange THEN Append(large, range) ELSE large
    /\ pc' = "done"
    /\ UNCHANGED <<segment, filled, accessed, next, regTrace, prevStep, regStep, index>>

Terminated == pc = "done" /\ UNCHANGED vars

Next ==
    \/ \E k \in 0 .. NumWithin - 1 : FillRow(k)
    \/ FillEnd \/ CompleteTrace \/ LastChunk \/ AirValues \/ Terminated

Spec == Init /\ [][Next]_vars

-----------------------------------------------------------------------------

\* Type invariant.
TypeOK ==
    /\ pc \in {"fill", "complete", "air", "done"}
    /\ next \in [0 .. NumWithin - 1 -> 0 .. TraceSize]
    /\ \A k \in 0 .. NumWithin - 1 :
            regTrace[k].steps \in Nat /\ regTrace[k].firstUse \in Nat \cup {None}
    /\ DOMAIN prevStep \subseteq accessed
    /\ checks \in [1 .. MaxRange -> Nat]
    /\ regStep \in InitialStep .. FinalStep
    /\ index \in 1 .. NumWithin

\* The last access before memory step m, or the start of the segment.
Previous(m) == Max({InitialStep} \cup {n \in accessed : n < m})

\* Every access of the segment tells the step of the access right before it,
\* also when that one is in another trace or traces without an access are in
\* between; the segment ends with the step of its last access.
PreviousTrue ==
    pc = "done" =>
        /\ DOMAIN prevStep = accessed
        /\ \A m \in accessed : prevStep[m] = Previous(m)
        /\ lastStep = Previous(FinalStep)

\* Every difference that a constraint range checks is counted exactly once, by
\* whichever of the three places that count: the traces, the completion of the
\* first accesses and the end of the segment.
ChecksExact ==
    pc = "done" =>
        \A v \in 1 .. FinalStep :
            (IF v \in DOMAIN checks THEN checks[v] ELSE 0)
                + Cardinality({i \in 1 .. Len(large) : large[i] = v})
            = Cardinality({m \in accessed : m - Previous(m) = v})
                + (IF FinalStep - Previous(FinalStep) = v THEN 1 ELSE 0)

\* A range that a trace counts has a counter: step_range_check is long enough
\* although its traces start at the end of the segment before (the assertion of
\* update_step_range_check).
RangesFit ==
    pc = "fill" =>
        \A k \in Traces : next[k] < RowsOf(k) /\ regTrace[k].firstUse # None =>
            \A m \in accessed : StepOf(m) = FirstRow + k * TraceSize + next[k] =>
                m - regTrace[k].steps \in 1 .. MaxRange
=============================================================================
