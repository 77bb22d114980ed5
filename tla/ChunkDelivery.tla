---------------------------- MODULE ChunkDelivery ----------------------------
(***************************************************************************)
(* What the callers of the assembly runner rely on, without processes,     *)
(* semaphores, shared memory or threads: chunks are made in order, each is *)
(* counted at most once and only after it was made, and the runner returns *)
(* only when the program is complete and, if they are asked for, all the   *)
(* counts are there.  It gives up only when the child is lost.             *)
(***************************************************************************)
EXTENDS Integers

VARIABLES
    chunks,     \* the chunks of the program
    counting,   \* whether they are counted: run_and_count() or run()
    made,       \* chunks that have been made
    counted,    \* the chunks whose counts have arrived
    child,      \* "working" or "lost"
    outcome     \* "pending", "returned", "failed" or "fault"

vars == <<chunks, counting, made, counted, child, outcome>>

Init ==
    /\ chunks \in Nat \ {0} /\ counting \in BOOLEAN
    /\ made = 0 /\ counted = {}
    /\ child = "working" /\ outcome = "pending"

Make ==
    /\ child = "working" /\ made < chunks
    /\ made' = made + 1
    /\ UNCHANGED <<chunks, counting, counted, child, outcome>>

\* The counts arrive in any order.
Count(c) ==
    /\ counting /\ outcome = "pending"
    /\ c < made /\ c \notin counted
    /\ counted' = counted \cup {c}
    /\ UNCHANGED <<chunks, counting, made, child, outcome>>

Lose ==
    /\ child = "working"
    /\ child' = "lost"
    /\ UNCHANGED <<chunks, counting, made, counted, outcome>>

Return ==
    /\ outcome = "pending" /\ made = chunks
    /\ counting => counted = 0 .. chunks - 1
    /\ outcome' = "returned"
    /\ UNCHANGED <<chunks, counting, made, counted, child>>

GiveUp ==
    /\ outcome = "pending" /\ child = "lost"
    /\ outcome' = "failed"
    /\ UNCHANGED <<chunks, counting, made, counted, child>>

\* A chunk may lie beyond the mapping that was made for the first one.
Fault ==
    /\ outcome = "pending" /\ counting /\ made > 0
    /\ outcome' = "fault"
    /\ UNCHANGED <<chunks, counting, made, counted, child>>

Next == Make \/ (\E c \in 0 .. made - 1 : Count(c)) \/ Lose \/ Return \/ GiveUp \/ Fault

Spec == Init /\ [][Next]_vars
=============================================================================
