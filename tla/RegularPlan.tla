---------------------------- MODULE RegularPlan ----------------------------
(***************************************************************************)
(* The planning and collecting of the operations of one secondary state    *)
(* machine (common/src/planner_helpers.rs, component_planner.rs and the    *)
(* collectors built from a plan).                                          *)
(*                                                                         *)
(* The counting pass says how many operations of the machine each chunk of *)
(* the execution has.  plan() deals them out, Size at a time, to AIR       *)
(* instances: for every instance the chunks to replay and, for each chunk, *)
(* how many operations to take and how many to skip first.  Later each     *)
(* instance replays its chunks, all chunks of all instances concurrently,  *)
(* with one collector per (instance, chunk).                               *)
(*                                                                         *)
(* An operation is its position among the chunk's operations of this       *)
(* machine: bus data of another type leaves a collector as it is, a        *)
(* stuttering step here.                                                   *)
(***************************************************************************)
EXTENDS Integers, Sequences, FiniteSets, PlanShares

CONSTANTS
    NumChunks,  \* chunks of the execution
    MaxCount,   \* bound on a chunk's operations
    Size        \* rows of an instance: `size` of plan()

ASSUME ConstantsAssumption ==
    /\ NumChunks \in Nat
    /\ MaxCount \in Nat
    /\ Size \in Nat

VARIABLES
    pc,           \* where plan() is: "chunk", "while", or "done"
    counts,       \* counts[c].inst_count, what the counting pass found
    chunk,        \* current_chunk
    instCount,    \* inst_count: operations of the chunk not planned yet
    offset,       \* cumulative_offset
    room,         \* remaining_size of the current scope
    scope,        \* current_scope: chunk -> [num, skip]
    checkpoints,  \* the scopes closed so far, one per instance
    collectors    \* <<instance, chunk>> -> its collector

vars == <<pc, counts, chunk, instCount, offset, room, scope, checkpoints, collectors>>

Chunks == 0 .. NumChunks - 1

\* A mutated form of Minimum: remaining_size is not looked at.
TakeAll(a, b) == b

Minimum(a, b) == IF a <= b THEN a ELSE b

EmptyScope == [c \in {} |-> [num |-> 0, skip |-> 0]]

\* HashMap::insert: the entry of c replaces the one c had.
Insert(s, c, entry) ==
    [d \in DOMAIN s \cup {c} |-> IF d = c THEN entry ELSE s[d]]

-----------------------------------------------------------------------------
(***************************************************************************)
(* CollectSkipper and the collector that owns it.  seen counts the bus     *)
(* data of this machine that the replay of the chunk has delivered.        *)
(***************************************************************************)

NewCollector(entry) ==
    [seen |-> 0, skip |-> entry.skip, skipped |-> 0,
     skipping |-> entry.skip > 0, num |-> entry.num, inputs |-> <<>>]

\* A mutated form of ShouldSkip: one operation too many is skipped.
ShouldSkipLate(k) == k.skipping /\ ~(k.skip = 0 \/ k.skipped > k.skip)

\* CollectSkipper::should_skip: is this operation skipped?
ShouldSkip(k) == k.skipping /\ ~(k.skip = 0 \/ k.skipped >= k.skip)

\* process_data: full, skip or push.
ProcessData(k) ==
    IF Len(k.inputs) >= k.num
    THEN [k EXCEPT !.seen = @ + 1]
    ELSE IF ShouldSkip(k)
         THEN [k EXCEPT !.seen = @ + 1, !.skipped = @ + 1]
         ELSE [k EXCEPT !.seen = @ + 1, !.skipping = FALSE,
                        !.inputs = Append(@, k.seen)]

CollectorKeys(cps) == {k \in (1 .. Len(cps)) \X Chunks : k[2] \in DOMAIN cps[k[1]]}

BuildCollectors(cps) ==
    [k \in CollectorKeys(cps) |-> NewCollector(cps[k[1]][k[2]])]

-----------------------------------------------------------------------------

Init ==
    /\ pc = "chunk"
    /\ counts \in [Chunks -> 0 .. MaxCount]
    /\ chunk = 0
    /\ instCount = 0
    /\ offset = 0
    /\ room = Size
    /\ scope = EmptyScope
    /\ checkpoints = <<>>
    /\ collectors = BuildCollectors(<<>>)

\* if counts.is_empty() || size == 0 { return vec![] }
NothingToPlan == NumChunks = 0 \/ Size = 0

\* A mutated form of NextChunk: cumulative_offset is not reset.
NextChunkKeepsOffset ==
    /\ pc = "chunk"
    /\ ~NothingToPlan
    /\ chunk < NumChunks
    /\ instCount' = counts[chunk]
    /\ pc' = "while"
    /\ UNCHANGED <<counts, chunk, offset, room, scope, checkpoints, collectors>>

\* for (current_chunk, count): enter the loop body for the next chunk.
NextChunk ==
    /\ pc = "chunk"
    /\ ~NothingToPlan
    /\ chunk < NumChunks
    /\ instCount' = counts[chunk]
    /\ offset' = 0
    /\ pc' = "while"
    /\ UNCHANGED <<counts, chunk, room, scope, checkpoints, collectors>>

\* One iteration of while inst_count > 0.
TakeCheckpoint ==
    /\ pc = "while"
    /\ instCount > 0
    /\ LET n == Minimum(room, instCount)
           filled == Insert(scope, chunk, [num |-> n, skip |-> offset])
       IN  /\ offset' = offset + n
           /\ instCount' = instCount - n
           /\ IF room - n = 0
              THEN /\ checkpoints' = Append(checkpoints, filled)
                   /\ scope' = EmptyScope
                   /\ room' = Size
              ELSE /\ scope' = filled
                   /\ room' = room - n
                   /\ UNCHANGED checkpoints
    /\ UNCHANGED <<pc, counts, chunk, collectors>>

\* while condition false: on to the next chunk.
EndChunk ==
    /\ pc = "while"
    /\ instCount = 0
    /\ chunk' = chunk + 1
    /\ pc' = "chunk"
    /\ UNCHANGED <<counts, instCount, offset, room, scope, checkpoints, collectors>>

\* if !current_scope.is_empty() { checkpoints.push(..) }
PushRemaining ==
    IF DOMAIN scope = {} THEN checkpoints ELSE Append(checkpoints, scope)

\* Push what remains and return; the instances build their collectors from it.
Finish ==
    /\ pc = "chunk"
    /\ NothingToPlan \/ chunk = NumChunks
    /\ pc' = "done"
    /\ checkpoints' = PushRemaining
    /\ collectors' = BuildCollectors(checkpoints')
    /\ UNCHANGED <<counts, chunk, instCount, offset, room, scope>>

\* The replay of chunk c for instance p delivers the next operation.
Collect(p, c) ==
    /\ pc = "done"
    /\ <<p, c>> \in DOMAIN collectors
    /\ collectors[<<p, c>>].seen < counts[c]
    /\ collectors' = [collectors EXCEPT ![<<p, c>>] = ProcessData(@)]
    /\ UNCHANGED <<pc, counts, chunk, instCount, offset, room, scope, checkpoints>>

AllCollected ==
    /\ pc = "done"
    /\ \A k \in DOMAIN collectors : collectors[k].seen = counts[k[2]]

Terminated == AllCollected /\ UNCHANGED vars

Next ==
    \/ NextChunk
    \/ TakeCheckpoint
    \/ EndChunk
    \/ Finish
    \/ \E p \in 1 .. Len(checkpoints), c \in Chunks : Collect(p, c)
    \/ Terminated

Spec == Init /\ [][Next]_vars
-----------------------------------------------------------------------------

Entry == [num : 1 .. Size, skip : 0 .. MaxCount]

Scopes == UNION {[D -> Entry] : D \in SUBSET Chunks}

Collector == [seen : Nat, skip : Nat, skipped : Nat, skipping : BOOLEAN,
              num : 1 .. Size, inputs : Seq(Nat)]

\* Type invariant: the local variables of plan(), its result and the collectors.
TypeOK ==
    /\ pc \in {"chunk", "while", "done"}
    /\ counts \in [Chunks -> 0 .. MaxCount]
    /\ chunk \in 0 .. NumChunks
    /\ instCount \in Nat
    /\ offset \in Nat
    /\ room \in 0 .. Size
    /\ scope \in Scopes
    /\ checkpoints \in Seq(Scopes)
    /\ collectors \in [CollectorKeys(IF pc = "done" THEN checkpoints ELSE <<>>) -> Collector]

\* Instance p's collector for chunk c holds operation o among its inputs.
Holds(p, c, o) ==
    /\ <<p, c>> \in DOMAIN collectors
    /\ \E i \in 1 .. Len(collectors[<<p, c>>].inputs) :
            collectors[<<p, c>>].inputs[i] = o

\* Once every replay has ended, every operation the counting pass saw is an
\* input of exactly one instance: the offsets that plan() writes and the
\* skipping and stopping of the collectors agree, whatever the replays' order.
CollectedOnce ==
    AllCollected /\ Size > 0 =>
        \A c \in Chunks : \A o \in 0 .. counts[c] - 1 :
            \E p \in 1 .. Len(checkpoints) :
                /\ Holds(p, c, o)
                /\ \A q \in 1 .. Len(checkpoints) : Holds(q, c, o) => q = p

\* The loop of plan() computes exactly the shares of PlanShares: instances are
\* filled in chunk order and without gaps, nothing is taken twice or lost, and
\* the skip of a chunk split over several instances continues where the
\* previous one stopped.
PlanIsShares == pc = "done" /\ NumChunks > 0 => checkpoints = Shares(counts, Size)

\* The inputs that instance p has collected.
RowsOf(p) ==
    SumTo([i \in 1 .. NumChunks |->
                IF i - 1 \in DOMAIN checkpoints[p] THEN Len(collectors[<<p, i - 1>>].inputs)
                ELSE 0], NumChunks)

\* When the replays have ended no instance holds more inputs than it has rows,
\* every instance but the last is full, and no instance is empty.
InstancesFull ==
    AllCollected =>
        \A p \in 1 .. Len(checkpoints) :
            IF p < Len(checkpoints) THEN RowsOf(p) = Size ELSE RowsOf(p) \in 1 .. Size
=============================================================================
