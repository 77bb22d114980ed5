----------------------------- MODULE MemCursor -----------------------------
(***************************************************************************)
(* MemCountersCursor (state-machines/mem/src/mem_counters_cursor.rs).      *)
(*                                                                         *)
(* Every chunk has a box: the addresses it touches, in order.  The memory  *)
(* planner wants one list of all (address, chunk) pairs, by address and,   *)
(* within an address, by chunk.  merge_sorted_boxes gets it by levels:     *)
(* it cuts the list of boxes in groups of about arity average boxes,       *)
(* merges every group into one box, all groups in parallel, and calls      *)
(* itself on the result.                                                   *)
(*                                                                         *)
(* The number of accesses that goes with a pair is carried along and left  *)
(* out.                                                                    *)
(***************************************************************************)
EXTENDS Integers, Sequences, FiniteSets, SequencesExt, Sums

CONSTANTS
    NumChunks,  \* chunks, one box each
    Addrs,      \* addresses of the module's range
    Arity,      \* arity: 16 in the code
    MinTotal    \* least number of pairs of the executions considered

ASSUME MemCursorAssumption ==
    /\ NumChunks \in Nat
    /\ Addrs \subseteq Nat /\ IsFiniteSet(Addrs)
    /\ Arity \in Nat \ {0}
    /\ MinTotal \in Nat

VARIABLES
    pc,         \* "group", "merge" or "read"
    addrSorted, \* addrSorted[c]: the addresses of chunk c (MemCounters::close)
    boxes,      \* the argument of the current merge_sorted_boxes
    depth,      \* recursive calls of merge_sorted_boxes on the stack
    looked,     \* boxes that the loop over the boxes has looked at
    start,      \* start_index
    weight,     \* group_weight
    groups,     \* groups closed so far: first and last box
    cursors,    \* cursors[b]: the next pair of box b (merge_k_sorted_boxes)
    merged,     \* merged[g]: the pairs of group g merged so far
    index,      \* cursor_index
    output      \* what get_next has returned

vars == <<pc, addrSorted, boxes, depth, looked, start, weight, groups, cursors, merged, index,
          output>>

Chunks == 0 .. NumChunks - 1

\* What close() makes of the addresses of a chunk: each once, in order.
AddrLists ==
    {s \in UNION {[1 .. n -> Addrs] : n \in 0 .. Cardinality(Addrs)} :
        \A i, j \in DOMAIN s : i < j => s[i] < s[j]}

\* The box of a chunk.
Prepare(c, addrs) == [i \in 1 .. Len(addrs) |-> [addr |-> addrs[i], chunk |-> c]]

TotalSize(bs) == SumTo([b \in 1 .. Len(bs) |-> Len(bs[b])], Len(bs))

Init ==
    /\ pc = "group"
    /\ addrSorted \in [Chunks -> AddrLists]
    /\ boxes = [i \in 1 .. NumChunks |-> Prepare(i - 1, addrSorted[i - 1])]
    /\ TotalSize(boxes) >= MinTotal
    /\ depth = 0
    /\ looked = 0 /\ start = 1 /\ weight = 0 /\ groups = <<>>
    /\ cursors = <<>> /\ merged = <<>>
    /\ index = 1
    /\ output = <<>>

-----------------------------------------------------------------------------
(* merge_sorted_boxes: one level. *)

\* A mutated form of TargetSize: an average box is enough.
AverageSize(bs) == TotalSize(bs) \div Len(bs)

TargetSize(bs) == Arity * (TotalSize(bs) \div Len(bs))

\* An iteration of the loop over the boxes.  The box that would exceed the
\* target closes its group and belongs to it.
GroupBox ==
    /\ pc = "group"
    /\ Len(boxes) > 1
    /\ looked < Len(boxes)
    /\ LET heavier == weight + Len(boxes[looked + 1])
       IN  IF heavier <= TargetSize(boxes)
           THEN weight' = heavier /\ UNCHANGED <<start, groups>>
           ELSE /\ groups' = Append(groups, [from |-> start, to |-> looked + 1])
                /\ weight' = 0
                /\ start' = looked + 2
    /\ looked' = looked + 1
    /\ UNCHANGED <<pc, addrSorted, boxes, depth, cursors, merged, index, output>>

\* A mutated form of LastGroup: the boxes of the last, open group are dropped.
LastGroupDropped == groups

\* The groups together with the one that is still open.
LastGroup ==
    IF start <= Len(boxes) THEN Append(groups, [from |-> start, to |-> Len(boxes)])
    ELSE groups

\* The loop is over; merge_k_sorted_boxes starts for every group.
GroupEnd ==
    /\ pc = "group"
    /\ Len(boxes) > 1
    /\ looked = Len(boxes)
    /\ pc' = "merge"
    /\ groups' = LastGroup
    /\ cursors' = [b \in 1 .. Len(boxes) |-> 1]
    /\ merged' = [g \in 1 .. Len(LastGroup) |-> <<>>]
    /\ UNCHANGED <<addrSorted, boxes, depth, looked, start, weight, index, output>>

\* The boxes of group g that have a pair left.
Open(g) == {b \in groups[g].from .. groups[g].to : cursors[b] <= Len(boxes[b])}

NextAddr(b) == boxes[b][cursors[b]].addr

\* A mutated form of IsMinIndex: the last of the boxes with the least address.
IsMinIndexLast(b, open) ==
    \A d \in open : NextAddr(b) < NextAddr(d) \/ (NextAddr(b) = NextAddr(d) /\ d <= b)

\* b is min_index: the first of the boxes whose next address is the least.
IsMinIndex(b, open) ==
    \A d \in open : NextAddr(b) < NextAddr(d) \/ (NextAddr(b) = NextAddr(d) /\ b <= d)

\* merge_k_sorted_boxes for group g: a group of one box is cloned, otherwise an
\* iteration takes the pair of min_index.  There are total_len iterations, until
\* no box is open.
MergeK(g) ==
    /\ pc = "merge"
    /\ g \in 1 .. Len(groups)
    /\ Open(g) # {}
    /\ IF groups[g].from = groups[g].to
       THEN LET b == groups[g].from
            IN  /\ merged' = [merged EXCEPT ![g] = boxes[b]]
                /\ cursors' = [cursors EXCEPT ![b] = Len(boxes[b]) + 1]
       ELSE \E b \in Open(g) :
                /\ IsMinIndex(b, Open(g))
                /\ merged' = [merged EXCEPT ![g] = Append(@, boxes[b][cursors[b]])]
                /\ cursors' = [cursors EXCEPT ![b] = @ + 1]
    /\ UNCHANGED <<pc, addrSorted, boxes, depth, looked, start, weight, groups, index, output>>

\* All groups are merged: merge_sorted_boxes calls itself on the new boxes.
NextLevel ==
    /\ pc = "merge"
    /\ \A g \in 1 .. Len(groups) : Open(g) = {}
    /\ pc' = "group"
    /\ boxes' = merged
    /\ depth' = depth + 1
    /\ looked' = 0 /\ start' = 1 /\ weight' = 0 /\ groups' = <<>>
    /\ cursors' = <<>> /\ merged' = <<>>
    /\ UNCHANGED <<addrSorted, index, output>>

\* At most one box is left; init() of the cursor.
MergeEnd ==
    /\ pc = "group"
    /\ Len(boxes) <= 1
    /\ pc' = "read"
    /\ depth' = 0
    /\ index' = 1
    /\ UNCHANGED <<addrSorted, boxes, looked, start, weight, groups, cursors, merged, output>>

-----------------------------------------------------------------------------
(* The cursor. *)

SortedBoxes == IF boxes = <<>> THEN <<>> ELSE boxes[1]

\* end()
AtEnd == index > Len(SortedBoxes)

\* get_next()
GetNext ==
    /\ pc = "read"
    /\ ~AtEnd
    /\ output' = Append(output, SortedBoxes[index])
    /\ index' = index + 1
    /\ UNCHANGED <<pc, addrSorted, boxes, depth, looked, start, weight, groups, cursors, merged>>

Finished == pc = "read" /\ AtEnd /\ UNCHANGED vars

Next ==
    \/ GroupBox \/ GroupEnd
    \/ \E g \in 1 .. NumChunks : MergeK(g)
    \/ NextLevel \/ MergeEnd \/ GetNext \/ Finished

Spec == Init /\ [][Next]_vars

-----------------------------------------------------------------------------

Pairs == [addr : Addrs, chunk : Chunks]

\* The pairs of the execution.
Touched == UNION {{[addr |-> addrSorted[c][i], chunk |-> c] : i \in 1 .. Len(addrSorted[c])} :
                        c \in Chunks}

\* Type invariant.
TypeOK ==
    /\ pc \in {"group", "merge", "read"}
    /\ boxes \in Seq(Seq(Pairs))
    /\ depth \in Nat /\ looked \in 0 .. Len(boxes) /\ start \in Nat \ {0} /\ weight \in Nat
    /\ groups \in Seq([from : Nat \ {0}, to : Nat \ {0}])
    /\ cursors \in Seq(Nat \ {0})
    /\ merged \in Seq(Seq(Pairs))
    /\ index \in Nat \ {0}
    /\ output \in Seq(Pairs)

Precedes(p, q) == p.addr < q.addr \/ (p.addr = q.addr /\ p.chunk < q.chunk)

Ordered(s) == \A i, j \in 1 .. Len(s) : i < j => Precedes(s[i], s[j])

\* At every level: every box is ordered by address and chunk, the chunks of a box
\* all come before those of the next (which is why a tie may be given to the
\* first box), and together the boxes hold every pair of the execution.  With
\* the order, none of them twice.
LevelInvariant ==
    /\ \A b \in 1 .. Len(boxes) : Ordered(boxes[b])
    /\ \A b, d \in 1 .. Len(boxes) : b < d =>
            \A i \in 1 .. Len(boxes[b]), j \in 1 .. Len(boxes[d]) :
                boxes[b][i].chunk < boxes[d][j].chunk
    /\ UNION {ToSet(boxes[b]) : b \in 1 .. Len(boxes)} = Touched

\* The planner gets every (address, chunk) pair exactly once, by address and
\* then by chunk.
ReadInOrder ==
    pc = "read" =>
        /\ Ordered(output)
        /\ AtEnd => ToSet(output) = Touched

\* Every recursive call of merge_sorted_boxes gets fewer boxes than its caller
\* had, so the recursion ends after at most NumChunks - 1 calls.
RecursionShrinks == depth > 0 => Len(boxes) + depth <= NumChunks
=============================================================================
