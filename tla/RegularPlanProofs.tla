-------------------------- MODULE RegularPlanProofs --------------------------
(***************************************************************************)
(* Proof that plan() and the collectors built from it hand every operation *)
(* to exactly one instance, for every number of chunks, every count per    *)
(* chunk and every instance size.                                          *)
(***************************************************************************)
EXTENDS RegularPlan, TLAPS

-----------------------------------------------------------------------------
(* The inductive invariant. *)

\* Scope p of the plan: a closed one, or the one being filled.
ScopeAt(p) == IF p <= Len(checkpoints) THEN checkpoints[p] ELSE scope

\* While plan() runs the open scope counts as the last one.
NumScopes == IF pc = "done" THEN Len(checkpoints) ELSE Len(checkpoints) + 1

\* How many operations of chunk c have been dealt out.
Planned(c) ==
    IF NothingToPlan THEN 0
    ELSE IF c < chunk THEN counts[c]
    ELSE IF c = chunk /\ pc = "while" THEN offset ELSE 0

Covers(p, c, o) ==
    /\ c \in DOMAIN ScopeAt(p)
    /\ ScopeAt(p)[c].skip <= o
    /\ o < ScopeAt(p)[c].skip + ScopeAt(p)[c].num

Control ==
    /\ pc = "while" => ~NothingToPlan /\ chunk < NumChunks
                       /\ offset + instCount = counts[chunk]
    /\ pc # "done" /\ Size > 0 => room > 0
    /\ pc = "done" => NothingToPlan \/ chunk = NumChunks

\* No chunk is inserted twice in a scope: HashMap::insert never overwrites.
FreshInScope ==
    \A c \in DOMAIN scope :
        /\ c <= chunk
        /\ pc = "chunk" => c < chunk
        /\ pc = "while" /\ c = chunk => instCount = 0

EntriesPlanned ==
    \A p \in 1 .. NumScopes : \A c \in DOMAIN ScopeAt(p) :
        ScopeAt(p)[c].skip + ScopeAt(p)[c].num <= Planned(c)

EntriesOrdered ==
    \A p, q \in 1 .. NumScopes : p < q =>
        \A c \in DOMAIN ScopeAt(p) \cap DOMAIN ScopeAt(q) :
            ScopeAt(p)[c].skip + ScopeAt(p)[c].num <= ScopeAt(q)[c].skip

AllCovered ==
    \A c \in Chunks : \A o \in 0 .. Planned(c) - 1 :
        \E p \in 1 .. NumScopes : Covers(p, c, o)

\* A collector takes operations skip, skip+1, ... in order until it has num.
CollectorOK(k, cp, n) ==
    /\ k.skip = cp.skip
    /\ k.num = cp.num
    /\ k.seen <= n
    /\ k.skipped <= k.skip
    /\ ~k.skipping => k.skipped = k.skip
    /\ Len(k.inputs) <= k.num
    /\ Len(k.inputs) > 0 => k.skipped = k.skip
    /\ Len(k.inputs) < k.num => k.seen = k.skipped + Len(k.inputs)
    /\ \A i \in 1 .. Len(k.inputs) : k.inputs[i] = k.skip + (i - 1)

CollectorsOK ==
    \A k \in DOMAIN collectors :
        CollectorOK(collectors[k], checkpoints[k[1]][k[2]], counts[k[2]])

PlanInv ==
    /\ Control
    /\ FreshInScope
    /\ EntriesPlanned
    /\ EntriesOrdered
    /\ AllCovered

IInv == TypeOK /\ PlanInv /\ CollectorsOK

-----------------------------------------------------------------------------
(* Lemmas about the operators. *)

\* A scope is a function from some of the chunks to entries.
LEMMA ScopeElim ==
    ASSUME NEW s \in Scopes
    PROVE  /\ DOMAIN s \subseteq Chunks
           /\ s \in [DOMAIN s -> Entry]
           /\ \A c \in DOMAIN s : s[c].num \in 1 .. Size /\ s[c].skip \in 0 .. MaxCount
<1>1. PICK D \in SUBSET Chunks : s \in [D -> Entry]
  BY DEF Scopes
<1>2. DOMAIN s = D
  BY <1>1
<1> QED
  BY <1>1, <1>2 DEF Entry

\* HashMap::insert of an entry makes a scope of a scope.
LEMMA InsertScope ==
    ASSUME NEW s \in Scopes, NEW c \in Chunks, NEW e \in Entry
    PROVE  /\ Insert(s, c, e) \in Scopes
           /\ DOMAIN Insert(s, c, e) = DOMAIN s \cup {c}
           /\ Insert(s, c, e)[c] = e
           /\ \A d \in DOMAIN s : d # c => Insert(s, c, e)[d] = s[d]
<1> DEFINE t == Insert(s, c, e)
<1>1. DOMAIN s \subseteq Chunks /\ s \in [DOMAIN s -> Entry]
  BY ScopeElim
<1>2. t \in [DOMAIN s \cup {c} -> Entry]
  BY <1>1 DEF Insert
<1>3. t \in Scopes
  BY <1>1, <1>2 DEF Scopes
<1> QED
  BY <1>2, <1>3 DEF Insert

\* The empty HashMap is a scope.
LEMMA EmptyScopeIsScope == EmptyScope \in Scopes /\ DOMAIN EmptyScope = {}
<1>1. EmptyScope \in [{} -> Entry]
  BY DEF EmptyScope
<1> QED
  BY <1>1 DEF Scopes, EmptyScope

\* A new collector has seen nothing and satisfies its invariant.
LEMMA NewCollectorOK ==
    ASSUME NEW e \in Entry, NEW n \in Nat
    PROVE  NewCollector(e) \in Collector /\ CollectorOK(NewCollector(e), e, n)
<1> DEFINE b == e.skip > 0
           k == NewCollector(e)
<1>1. e.num \in 1 .. Size /\ e.skip \in Nat /\ b \in BOOLEAN
  BY ConstantsAssumption DEF Entry
<1>2. k = [seen |-> 0, skip |-> e.skip, skipped |-> 0, skipping |-> b,
           num |-> e.num, inputs |-> <<>>]
  BY DEF NewCollector
<1>3. ~b => e.skip = 0
  BY <1>1
<1>4. <<>> \in Seq(Nat) /\ Len(<<>>) = 0
  OBVIOUS
<1> HIDE DEF b, k
<1>5. k \in Collector
  BY <1>1, <1>2, <1>4 DEF Collector
<1>6. CollectorOK(k, e, n)
  BY <1>1, <1>2, <1>3, <1>4, ConstantsAssumption DEF CollectorOK
<1> QED
  BY <1>5, <1>6 DEF k

\* process_data keeps a collector's invariant while the chunk has operations.
LEMMA ProcessDataOK ==
    ASSUME NEW k \in Collector, NEW e \in Entry, NEW n \in Nat,
           CollectorOK(k, e, n), k.seen < n
    PROVE  ProcessData(k) \in Collector /\ CollectorOK(ProcessData(k), e, n)
<1> DEFINE r == ProcessData(k)
<1>a. /\ k.seen \in Nat /\ k.skip \in Nat /\ k.skipped \in Nat
      /\ k.skipping \in BOOLEAN /\ k.num \in 1 .. Size /\ k.inputs \in Seq(Nat)
      /\ Len(k.inputs) \in Nat /\ Size \in Nat
  BY ConstantsAssumption DEF Collector
<1>1. CASE Len(k.inputs) >= k.num
  <2>1. r = [k EXCEPT !.seen = k.seen + 1]
    BY <1>1 DEF ProcessData
  <2>2. r \in Collector
    BY <2>1, <1>a DEF Collector
  <2>3. CollectorOK(r, e, n)
    BY <1>1, <1>a, <2>1 DEF CollectorOK, Collector
  <2> QED
    BY <2>2, <2>3
<1>2. CASE Len(k.inputs) < k.num /\ ShouldSkip(k)
  <2>1. r = [k EXCEPT !.seen = k.seen + 1, !.skipped = k.skipped + 1]
    BY <1>2, <1>a DEF ProcessData
  <2>2. k.skipping /\ k.skipped < k.skip
    BY <1>2, <1>a DEF ShouldSkip
  <2>b. r = [seen |-> k.seen + 1, skip |-> k.skip, skipped |-> k.skipped + 1,
             skipping |-> k.skipping, num |-> k.num, inputs |-> k.inputs]
    BY <2>1, <1>a DEF Collector
  <2> HIDE DEF r
  <2>3. r \in Collector
    BY <2>b, <1>a DEF Collector
  <2>4. CollectorOK(r, e, n)
    BY <1>2, <1>a, <2>b, <2>2 DEF CollectorOK
  <2> QED
    BY <2>3, <2>4 DEF r
<1>3. CASE Len(k.inputs) < k.num /\ ~ShouldSkip(k)
  <2> DEFINE t == Append(k.inputs, k.seen)
  <2>1. r = [k EXCEPT !.seen = k.seen + 1, !.skipping = FALSE, !.inputs = t]
    BY <1>3, <1>a DEF ProcessData
  <2>2. k.skipped = k.skip
    BY <1>3, <1>a DEF ShouldSkip, CollectorOK
  <2>3. k.seen = k.skip + Len(k.inputs)
    BY <1>3, <2>2 DEF CollectorOK
  <2>4. t \in Seq(Nat) /\ Len(t) = Len(k.inputs) + 1
    BY <1>a
  <2>5. \A i \in 1 .. Len(t) : t[i] = k.skip + (i - 1)
    <3> TAKE i \in 1 .. Len(t)
    <3>1. CASE i = Len(t)
      BY <3>1, <1>a, <2>3, <2>4
    <3>2. CASE i # Len(t)
      <4>1. i \in 1 .. Len(k.inputs) /\ t[i] = k.inputs[i]
        BY <3>2, <1>a, <2>4
      <4> QED
        BY <4>1 DEF CollectorOK
    <3> QED
      BY <3>1, <3>2
  <2> HIDE DEF t
  <2>b. r = [seen |-> k.seen + 1, skip |-> k.skip, skipped |-> k.skipped,
             skipping |-> FALSE, num |-> k.num, inputs |-> t]
    BY <2>1, <1>a DEF Collector
  <2> HIDE DEF r
  <2>6. r \in Collector
    BY <2>b, <2>4, <1>a DEF Collector
  <2>7. CollectorOK(r, e, n)
    <3>1. /\ r.skip = k.skip /\ r.num = k.num /\ r.seen = k.seen + 1
          /\ r.skipped = k.skipped /\ r.inputs = t
      BY <2>b
    <3>2. Len(k.inputs) < k.num /\ k.skip = e.skip /\ k.num = e.num
      BY <1>3 DEF CollectorOK
    <3>3. Len(r.inputs) = Len(k.inputs) + 1
      BY <2>4, <3>1
    <3>4. \A i \in 1 .. Len(r.inputs) : r.inputs[i] = r.skip + (i - 1)
      BY <2>5, <3>1
    <3>5. /\ r.seen <= n /\ r.skipped = r.skip /\ Len(r.inputs) <= r.num
          /\ r.seen = r.skipped + Len(r.inputs)
      BY <1>a, <2>2, <2>3, <3>1, <3>2, <3>3
    <3> HIDE DEF CollectorOK
    <3>6. r.skip = e.skip /\ r.num = e.num /\ r.skip \in Nat
      BY <1>a, <3>1, <3>2
    <3> QED
      BY <3>4, <3>5, <3>6 DEF CollectorOK
  <2> QED
    BY <2>6, <2>7 DEF r
<1> QED
  BY <1>1, <1>2, <1>3, <1>a

-----------------------------------------------------------------------------
(* The invariant is inductive: one lemma per action. *)

\* Nothing is collected before there is a plan.
LEMMA NoKeys == CollectorKeys(<<>>) = {}
  BY DEF CollectorKeys

\* plan() starts in the invariant.
LEMMA InitIInv == Init => IInv
<1> SUFFICES ASSUME Init PROVE IInv
  OBVIOUS
<1> USE ConstantsAssumption
<1>1. DOMAIN scope = {} /\ scope \in Scopes
  BY EmptyScopeIsScope DEF Init
<1>2. checkpoints = <<>> /\ checkpoints \in Seq(Scopes) /\ Len(checkpoints) = 0
  BY DEF Init
<1>3. collectors \in [{} -> Collector] /\ DOMAIN collectors = {}
  BY NoKeys DEF Init, BuildCollectors
<1>4. TypeOK
  <2>1. collectors \in [CollectorKeys(IF pc = "done" THEN checkpoints ELSE <<>>) -> Collector]
    BY <1>3, NoKeys DEF Init
  <2> QED
    BY <1>1, <1>2, <2>1 DEF Init, TypeOK
<1>5. Control
  BY DEF Init, Control
<1>6. FreshInScope
  BY <1>1 DEF FreshInScope
<1>7. NumScopes = 1 /\ ScopeAt(1) = scope
  BY <1>2 DEF Init, NumScopes, ScopeAt
<1>8. EntriesPlanned
  BY <1>1, <1>7 DEF EntriesPlanned
<1>9. EntriesOrdered
  BY <1>1, <1>7 DEF EntriesOrdered
<1>10. AllCovered
  <2>1. \A c \in Chunks : Planned(c) = 0
    BY DEF Init, Planned, Chunks
  <2> QED
    BY <2>1 DEF AllCovered
<1>11. CollectorsOK
  BY <1>3 DEF CollectorsOK
<1> QED
  BY <1>4, <1>5, <1>6, <1>8, <1>9, <1>10, <1>11 DEF IInv, PlanInv

\* Before the plan is done the collectors do not exist, so any step that
\* leaves them alone keeps what the invariant says of them.
LEMMA NoCollectorsYet ==
    ASSUME IInv, pc # "done", pc' # "done", UNCHANGED collectors
    PROVE  /\ CollectorsOK'
           /\ collectors' \in [CollectorKeys(IF pc' = "done" THEN checkpoints' ELSE <<>>)
                                -> Collector]
<1>1. collectors \in [{} -> Collector]
  BY NoKeys DEF IInv, TypeOK
<1>2. CollectorsOK'
  BY <1>1 DEF CollectorsOK
<1> QED
  BY <1>1, <1>2, NoKeys

\* Steps that only move the program counter and the chunk's counters, and
\* leave what has been planned as it is, keep what is known of the scopes.
LEMMA SamePlan ==
    ASSUME IInv, pc # "done", pc' # "done",
           UNCHANGED <<scope, checkpoints>>,
           \A c \in Chunks : Planned(c)' = Planned(c)
    PROVE  EntriesPlanned' /\ EntriesOrdered' /\ AllCovered'
<1>1. NumScopes' = NumScopes /\ \A p \in 1 .. NumScopes : ScopeAt(p)' = ScopeAt(p)
  BY DEF NumScopes, ScopeAt
<1>2. \A p \in 1 .. NumScopes : ScopeAt(p) \in Scopes
  BY DEF NumScopes, ScopeAt, IInv, TypeOK
<1>3. EntriesPlanned'
  <2> SUFFICES ASSUME NEW p \in 1 .. NumScopes, NEW c \in DOMAIN ScopeAt(p)
               PROVE  ScopeAt(p)[c].skip + ScopeAt(p)[c].num <= Planned(c)'
    BY <1>1 DEF EntriesPlanned
  <2>1. c \in Chunks
    BY <1>2, ScopeElim
  <2> QED
    BY <2>1 DEF EntriesPlanned, IInv, PlanInv
<1>4. EntriesOrdered'
  BY <1>1 DEF EntriesOrdered, IInv, PlanInv
<1>5. AllCovered'
  <2> SUFFICES ASSUME NEW c \in Chunks, NEW o \in 0 .. Planned(c) - 1
               PROVE  \E p \in 1 .. NumScopes : Covers(p, c, o)'
    BY <1>1 DEF AllCovered
  <2>1. PICK p \in 1 .. NumScopes : Covers(p, c, o)
    BY DEF AllCovered, IInv, PlanInv
  <2>2. Covers(p, c, o)'
    BY <1>1, <2>1 DEF Covers
  <2> QED
    BY <2>2
<1> QED
  BY <1>3, <1>4, <1>5

\* Entering the loop body for a chunk keeps the invariant.
LEMMA NextChunkIInv == IInv /\ NextChunk => IInv'
<1> SUFFICES ASSUME IInv, NextChunk PROVE IInv'
  OBVIOUS
<1> USE ConstantsAssumption
<1>1. chunk \in Chunks /\ counts[chunk] \in Nat /\ chunk \in Nat /\ NumChunks \in Nat
  BY DEF IInv, TypeOK, NextChunk, Chunks
<1>2. pc # "done" /\ pc' # "done" /\ UNCHANGED <<scope, checkpoints, collectors, chunk, counts, room>>
  BY DEF NextChunk
<1>3. TypeOK'
  BY <1>1, <1>2, NoCollectorsYet DEF TypeOK, IInv, NextChunk
<1>4. Control'
  BY <1>1 DEF Control, IInv, PlanInv, NextChunk, NothingToPlan
<1>5. FreshInScope'
  BY <1>1, ScopeElim DEF FreshInScope, IInv, PlanInv, TypeOK, NextChunk, Chunks
<1>6. \A c \in Chunks : Planned(c)' = Planned(c)
  BY <1>1 DEF Planned, NextChunk, NothingToPlan, Chunks
<1> QED
  BY <1>2, <1>3, <1>4, <1>5, <1>6, NoCollectorsYet, SamePlan DEF IInv, PlanInv

\* Leaving the loop body of a chunk keeps the invariant.
LEMMA EndChunkIInv == IInv /\ EndChunk => IInv'
<1> SUFFICES ASSUME IInv, EndChunk PROVE IInv'
  OBVIOUS
<1> USE ConstantsAssumption
<1>1. /\ chunk \in Chunks /\ counts[chunk] \in Nat /\ chunk \in Nat /\ NumChunks \in Nat
      /\ chunk < NumChunks /\ offset = counts[chunk] /\ ~NothingToPlan
  BY DEF IInv, TypeOK, EndChunk, Chunks, PlanInv, Control
<1>2. pc # "done" /\ pc' # "done" /\ UNCHANGED <<scope, checkpoints, collectors, counts, room>>
  BY DEF EndChunk
<1>3. TypeOK'
  BY <1>1, <1>2, NoCollectorsYet DEF TypeOK, IInv, EndChunk
<1>4. Control'
  BY <1>1 DEF Control, IInv, PlanInv, EndChunk, NothingToPlan
<1>5. FreshInScope'
  BY <1>1, ScopeElim DEF FreshInScope, IInv, PlanInv, TypeOK, EndChunk, Chunks
<1>6. \A c \in Chunks : Planned(c)' = Planned(c)
  BY <1>1 DEF Planned, EndChunk, NothingToPlan, Chunks
<1> QED
  BY <1>2, <1>3, <1>4, <1>5, <1>6, NoCollectorsYet, SamePlan DEF IInv, PlanInv

\* One iteration of the while loop keeps the invariant.
LEMMA TakeCheckpointIInv == IInv /\ TakeCheckpoint => IInv'
<1> SUFFICES ASSUME IInv, TakeCheckpoint PROVE IInv'
  OBVIOUS
<1> USE ConstantsAssumption
<1> DEFINE n == Minimum(room, instCount)
           e == [num |-> n, skip |-> offset]
           filled == Insert(scope, chunk, e)
<1>0. PICK N \in Nat \ {0} : N = Len(checkpoints) + 1
  BY DEF IInv, TypeOK
<1>1. /\ chunk \in Chunks /\ chunk \in Nat /\ chunk < NumChunks /\ ~NothingToPlan
      /\ counts[chunk] \in 0 .. MaxCount /\ offset \in Nat /\ instCount \in Nat
      /\ instCount > 0 /\ offset + instCount = counts[chunk] /\ room \in 1 .. Size
  BY DEF IInv, TypeOK, TakeCheckpoint, Chunks, PlanInv, Control, NothingToPlan
<1>2. n \in 1 .. Size /\ n <= room /\ n <= instCount /\ e \in Entry
  BY <1>1 DEF Minimum, Entry
<1>3. /\ scope \in Scopes /\ checkpoints \in Seq(Scopes) /\ Len(checkpoints) \in Nat
      /\ chunk \notin DOMAIN scope
  BY <1>1 DEF IInv, TypeOK, PlanInv, FreshInScope, TakeCheckpoint
<1>4. /\ filled \in Scopes /\ DOMAIN filled = DOMAIN scope \cup {chunk} /\ filled[chunk] = e
      /\ \A d \in DOMAIN scope : filled[d] = scope[d]
  <2>1. e \in Entry
    BY <1>2
  <2> HIDE DEF e
  <2>2. /\ filled \in Scopes /\ DOMAIN filled = DOMAIN scope \cup {chunk}
        /\ filled[chunk] = e
        /\ \A d \in DOMAIN scope : d # chunk => filled[d] = scope[d]
    <3>1. chunk \in Chunks
      BY <1>1
    <3>2. scope \in Scopes
      BY <1>3
    <3> QED
      BY ONLY <2>1, <3>1, <3>2, InsertScope, Zenon
  <2> HIDE DEF filled
  <2>3. \A d \in DOMAIN scope : d # chunk
    BY <1>3, Zenon
  <2> QED
    BY <2>2, <2>3, Zenon
<1>5. /\ offset' = offset + n /\ instCount' = instCount - n
      /\ \/ /\ room = n /\ checkpoints' = Append(checkpoints, filled)
            /\ scope' = EmptyScope /\ room' = Size
         \/ /\ room # n /\ scope' = filled /\ room' = room - n /\ checkpoints' = checkpoints
      /\ pc = "while" /\ pc' = "while" /\ chunk' = chunk /\ counts' = counts
      /\ UNCHANGED collectors
  <2>1. /\ pc = "while" /\ pc' = "while" /\ chunk' = chunk /\ counts' = counts
        /\ UNCHANGED collectors
    BY DEF TakeCheckpoint
  <2>2. offset' = offset + n /\ instCount' = instCount - n
    BY DEF TakeCheckpoint
  <2>3. \/ /\ room = n /\ checkpoints' = Append(checkpoints, filled)
           /\ scope' = EmptyScope /\ room' = Size
        \/ /\ room # n /\ scope' = filled /\ room' = room - n /\ checkpoints' = checkpoints
    BY <1>1, <1>2 DEF TakeCheckpoint
  <2> HIDE DEF n, e, filled
  <2> QED
    BY <2>1, <2>2, <2>3
<1> HIDE DEF n, e, filled
<1>6. TypeOK'
  <2>1. scope' \in Scopes /\ checkpoints' \in Seq(Scopes)
    BY <1>3, <1>4, <1>5, EmptyScopeIsScope
  <2>2. room' \in 0 .. Size /\ offset' \in Nat /\ instCount' \in Nat
    BY <1>1, <1>2, <1>5
  <2> QED
    BY <2>1, <2>2, <1>5, NoCollectorsYet DEF TypeOK, IInv
<1>7. Control'
  BY <1>1, <1>2, <1>5 DEF Control, NothingToPlan
<1>8. FreshInScope'
  <2>1. CASE room = n
    BY <2>1, <1>5, EmptyScopeIsScope DEF FreshInScope
  <2>2. CASE room # n
    <3>1. n = instCount
      BY <2>2, <1>1 DEF n, Minimum
    <3>2. scope' = filled /\ instCount' = 0 /\ chunk' = chunk /\ pc' = "while"
      BY <2>2, <3>1, <1>1, <1>5
    <3>3. \A c \in DOMAIN scope : c <= chunk
      BY DEF IInv, PlanInv, FreshInScope
    <3> QED
      BY <3>2, <3>3, <1>1, <1>4 DEF FreshInScope
  <2> QED
    BY <2>1, <2>2
\* What the step does to the scopes, whether or not one is closed.
<1>9. /\ NumScopes = N /\ N \in Nat /\ NumScopes' \in {N, N + 1}
      /\ \A p \in 1 .. N - 1 : ScopeAt(p)' = ScopeAt(p)
      /\ ScopeAt(N) = scope
      /\ ScopeAt(N)' = filled
      /\ NumScopes' = N + 1 => ScopeAt(N + 1)' = EmptyScope
  BY <1>0, <1>3, <1>5 DEF NumScopes, ScopeAt
<1>10. \A c \in Chunks : Planned(c)' = IF c = chunk THEN offset + n ELSE Planned(c)
  BY <1>1, <1>5 DEF Planned, NothingToPlan, Chunks
<1>11. Planned(chunk) = offset
  BY <1>1, <1>5 DEF Planned
<1>12. \A p \in 1 .. N : ScopeAt(p) \in Scopes
  BY <1>0, <1>3 DEF ScopeAt
<1>13. EntriesPlanned'
  <2> SUFFICES ASSUME NEW p \in 1 .. NumScopes', NEW c \in DOMAIN ScopeAt(p)'
               PROVE  ScopeAt(p)'[c].skip + ScopeAt(p)'[c].num <= Planned(c)'
    BY DEF EntriesPlanned
  <2>0. \A q \in 1 .. N : \A d \in DOMAIN ScopeAt(q) :
            /\ d \in Chunks
            /\ ScopeAt(q)[d].skip \in Nat /\ ScopeAt(q)[d].num \in Nat
            /\ ScopeAt(q)[d].skip + ScopeAt(q)[d].num <= Planned(d)
    BY <1>9, <1>12, ScopeElim DEF IInv, PlanInv, EntriesPlanned
  <2>1. CASE p \in 1 .. N - 1
    <3>1. c \in Chunks /\ ScopeAt(p)' = ScopeAt(p)
      BY <2>1, <2>0, <1>9
    <3> QED
      BY <2>1, <3>1, <2>0, <1>1, <1>2, <1>9, <1>10, <1>11
  <2>2. CASE p = N
    <3>1. CASE c = chunk
      BY <2>2, <3>1, <1>1, <1>2, <1>4, <1>9, <1>10 DEF e
    <3>2. CASE c # chunk
      <4>1. c \in DOMAIN scope /\ ScopeAt(p)'[c] = scope[c]
        BY <2>2, <3>2, <1>4, <1>9
      <4> QED
        BY <2>2, <3>2, <4>1, <2>0, <1>9, <1>10
    <3> QED
      BY <3>1, <3>2
  <2>3. CASE p = N + 1
    BY <2>3, <1>9, EmptyScopeIsScope
  <2> QED
    BY <2>1, <2>2, <2>3, <1>9
<1>14. EntriesOrdered'
  <2> SUFFICES ASSUME NEW p \in 1 .. NumScopes', NEW q \in 1 .. NumScopes', p < q,
                      NEW c \in DOMAIN ScopeAt(p)' \cap DOMAIN ScopeAt(q)'
               PROVE  ScopeAt(p)'[c].skip + ScopeAt(p)'[c].num <= ScopeAt(q)'[c].skip
    BY DEF EntriesOrdered
  <2>1. q <= N /\ p \in 1 .. N - 1 /\ ScopeAt(p)' = ScopeAt(p)
    BY <1>9, EmptyScopeIsScope
  <2>2. CASE q < N
    BY <2>1, <2>2, <1>9 DEF IInv, PlanInv, EntriesOrdered
  <2>3. CASE q = N /\ c = chunk
    <3>1. ScopeAt(p)[c].skip + ScopeAt(p)[c].num <= offset
      BY <2>1, <2>3, <1>9, <1>11 DEF IInv, PlanInv, EntriesPlanned
    <3> QED
      BY <2>1, <2>3, <3>1, <1>4, <1>9 DEF e
  <2>4. CASE q = N /\ c # chunk
    <3>1. c \in DOMAIN ScopeAt(N) /\ ScopeAt(q)'[c] = ScopeAt(N)[c]
      BY <2>4, <1>4, <1>9
    <3> QED
      BY <2>1, <2>4, <3>1, <1>9 DEF IInv, PlanInv, EntriesOrdered
  <2> QED
    BY <2>1, <2>2, <2>3, <2>4, <1>9
<1>15. AllCovered'
  <2> SUFFICES ASSUME NEW c \in Chunks, NEW o \in 0 .. Planned(c)' - 1
               PROVE  \E p \in 1 .. NumScopes' : Covers(p, c, o)'
    BY DEF AllCovered
  <2>1. CASE o \in 0 .. Planned(c) - 1
    <3>1. PICK p \in 1 .. N : Covers(p, c, o)
      BY <2>1, <1>9 DEF AllCovered, IInv, PlanInv
    <3>2. Covers(p, c, o)'
      BY <3>1, <1>3, <1>4, <1>9 DEF Covers
    <3> QED
      BY <3>2, <1>9
  <2>2. CASE o \notin 0 .. Planned(c) - 1
    <3>1. c = chunk /\ offset <= o /\ o < offset + n
      BY <2>2, <1>1, <1>2, <1>10, <1>11
    <3>2. Covers(N, c, o)'
      BY <3>1, <1>4, <1>9 DEF Covers, e
    <3> QED
      BY <3>2, <1>9
  <2> QED
    BY <2>1, <2>2
<1> QED
  BY <1>5, <1>6, <1>7, <1>8, <1>13, <1>14, <1>15, NoCollectorsYet DEF IInv, PlanInv

\* The collectors built from a plan are as their entries say.
LEMMA BuildCollectorsOK ==
    ASSUME NEW cps \in Seq(Scopes), NEW cnt \in [Chunks -> 0 .. MaxCount]
    PROVE  /\ BuildCollectors(cps) \in [CollectorKeys(cps) -> Collector]
           /\ \A k \in CollectorKeys(cps) :
                 CollectorOK(BuildCollectors(cps)[k], cps[k[1]][k[2]], cnt[k[2]])
<1> SUFFICES ASSUME NEW k \in CollectorKeys(cps)
             PROVE  /\ NewCollector(cps[k[1]][k[2]]) \in Collector
                    /\ CollectorOK(NewCollector(cps[k[1]][k[2]]), cps[k[1]][k[2]], cnt[k[2]])
  BY DEF BuildCollectors
<1>1. k[1] \in 1 .. Len(cps) /\ k[2] \in Chunks /\ k[2] \in DOMAIN cps[k[1]]
  BY DEF CollectorKeys
<1>2. cps[k[1]] \in Scopes
  BY <1>1
<1>3. cps[k[1]][k[2]] \in Entry
  BY <1>1, <1>2, ScopeElim
<1>4. cnt[k[2]] \in Nat
  BY <1>1, ConstantsAssumption
<1> QED
  BY <1>3, <1>4, NewCollectorOK

\* Returning the plan keeps the invariant.
LEMMA FinishIInv == IInv /\ Finish => IInv'
<1> SUFFICES ASSUME IInv, Finish PROVE IInv'
  OBVIOUS
<1> USE ConstantsAssumption
<1>1. /\ pc = "chunk" /\ pc' = "done"
      /\ NothingToPlan \/ chunk = NumChunks
      /\ UNCHANGED <<counts, chunk, instCount, offset, room, scope>>
      /\ collectors' = BuildCollectors(checkpoints')
      /\ \/ DOMAIN scope = {} /\ checkpoints' = checkpoints
         \/ DOMAIN scope # {} /\ checkpoints' = Append(checkpoints, scope)
  BY DEF Finish, PushRemaining
<1>2. /\ scope \in Scopes /\ checkpoints \in Seq(Scopes) /\ Len(checkpoints) \in Nat
      /\ counts \in [Chunks -> 0 .. MaxCount] /\ checkpoints' \in Seq(Scopes)
  BY <1>1 DEF IInv, TypeOK
<1>3. /\ collectors' \in [CollectorKeys(checkpoints') -> Collector]
      /\ \A k \in CollectorKeys(checkpoints') :
             CollectorOK(collectors'[k], checkpoints'[k[1]][k[2]], counts[k[2]])
  BY <1>1, <1>2, BuildCollectorsOK, Zenon
<1>4. TypeOK'
  BY <1>1, <1>2, <1>3 DEF IInv, TypeOK
<1>5. CollectorsOK'
  BY <1>1, <1>3 DEF CollectorsOK
<1>6. Control'
  BY <1>1 DEF Control, NothingToPlan
<1>7. FreshInScope'
  BY <1>1 DEF FreshInScope, IInv, PlanInv
<1>8. PICK N \in Nat \ {0} : N = Len(checkpoints) + 1
  BY <1>2
<1>9. /\ NumScopes = N
      /\ NumScopes' \in {N - 1, N}
      /\ NumScopes' = N - 1 => DOMAIN ScopeAt(N) = {}
      /\ \A p \in 1 .. NumScopes' : ScopeAt(p)' = ScopeAt(p)
  BY <1>1, <1>2, <1>8 DEF NumScopes, ScopeAt
<1>10. \A c \in Chunks : Planned(c)' = Planned(c)
  BY <1>1 DEF Planned, NothingToPlan
<1>11. \A p \in 1 .. N : ScopeAt(p) \in Scopes
  BY <1>2, <1>8 DEF ScopeAt
<1>12. EntriesPlanned'
  <2> SUFFICES ASSUME NEW p \in 1 .. NumScopes', NEW c \in DOMAIN ScopeAt(p)'
               PROVE  ScopeAt(p)'[c].skip + ScopeAt(p)'[c].num <= Planned(c)'
    BY DEF EntriesPlanned
  <2>1. p \in 1 .. N /\ ScopeAt(p)' = ScopeAt(p)
    BY <1>9
  <2>2. c \in Chunks
    BY <2>1, <1>11, ScopeElim
  <2> QED
    BY <2>1, <2>2, <1>9, <1>10 DEF IInv, PlanInv, EntriesPlanned
<1>13. EntriesOrdered'
  BY <1>9 DEF IInv, PlanInv, EntriesOrdered
<1>14. AllCovered'
  <2> SUFFICES ASSUME NEW c \in Chunks, NEW o \in 0 .. Planned(c)' - 1
               PROVE  \E p \in 1 .. NumScopes' : Covers(p, c, o)'
    BY DEF AllCovered
  <2>1. PICK p \in 1 .. N : Covers(p, c, o)
    BY <1>9, <1>10 DEF AllCovered, IInv, PlanInv
  <2>2. p \in 1 .. NumScopes'
    BY <2>1, <1>9 DEF Covers
  <2>3. Covers(p, c, o)'
    BY <2>1, <2>2, <1>9 DEF Covers
  <2> QED
    BY <2>2, <2>3
<1> QED
  BY <1>4, <1>5, <1>6, <1>7, <1>12, <1>13, <1>14 DEF IInv, PlanInv

\* A collector's step keeps the invariant.
LEMMA CollectIInv ==
    ASSUME NEW p \in 1 .. Len(checkpoints), NEW c \in Chunks, IInv, Collect(p, c)
    PROVE  IInv'
<1> USE ConstantsAssumption
<1>1. /\ pc = "done"
      /\ UNCHANGED <<pc, counts, chunk, instCount, offset, room, scope, checkpoints>>
      /\ <<p, c>> \in DOMAIN collectors
      /\ collectors[<<p, c>>].seen < counts[c]
      /\ collectors' = [collectors EXCEPT ![<<p, c>>] = ProcessData(collectors[<<p, c>>])]
  BY DEF Collect
<1>2. /\ collectors \in [CollectorKeys(checkpoints) -> Collector]
      /\ checkpoints \in Seq(Scopes) /\ counts[c] \in Nat
  BY <1>1 DEF IInv, TypeOK
<1>3. checkpoints[p] \in Scopes /\ c \in DOMAIN checkpoints[p]
  BY <1>1, <1>2 DEF CollectorKeys
<1>4. checkpoints[p][c] \in Entry
  BY <1>3, ScopeElim
<1>5. CollectorOK(collectors[<<p, c>>], checkpoints[p][c], counts[c])
  BY <1>1 DEF IInv, CollectorsOK
<1>6. /\ ProcessData(collectors[<<p, c>>]) \in Collector
      /\ CollectorOK(ProcessData(collectors[<<p, c>>]), checkpoints[p][c], counts[c])
  BY <1>1, <1>2, <1>4, <1>5, ProcessDataOK
<1>7. TypeOK'
  BY <1>1, <1>2, <1>6 DEF IInv, TypeOK
<1>8. CollectorsOK'
  BY <1>1, <1>2, <1>6 DEF IInv, CollectorsOK
<1>9. PlanInv'
  BY <1>1 DEF IInv, PlanInv, Control, FreshInScope, EntriesPlanned, EntriesOrdered,
              AllCovered, Covers, NumScopes, ScopeAt, Planned, NothingToPlan
<1> QED
  BY <1>7, <1>8, <1>9 DEF IInv

\* Every step keeps the invariant.
LEMMA NextIInv == IInv /\ [Next]_vars => IInv'
<1> SUFFICES ASSUME IInv, [Next]_vars PROVE IInv'
  OBVIOUS
<1>1. CASE Next
  <2>1. ASSUME NEW p \in 1 .. Len(checkpoints), NEW c \in Chunks, Collect(p, c)
        PROVE  IInv'
    BY <2>1, CollectIInv
  <2>2. CASE Terminated
    BY <2>2 DEF Terminated, vars, IInv, TypeOK, CollectorsOK, PlanInv, Control,
                FreshInScope, EntriesPlanned, EntriesOrdered, AllCovered, Covers,
                NumScopes, ScopeAt, Planned, NothingToPlan
  <2> QED
    BY <1>1, <2>1, <2>2, NextChunkIInv, TakeCheckpointIInv, EndChunkIInv, FinishIInv
       DEF Next
<1>2. CASE UNCHANGED vars
  BY <1>2 DEF vars, IInv, TypeOK, CollectorsOK, PlanInv, Control,
              FreshInScope, EntriesPlanned, EntriesOrdered, AllCovered, Covers,
              NumScopes, ScopeAt, Planned, NothingToPlan
<1> QED
  BY <1>1, <1>2

-----------------------------------------------------------------------------
(* The theorems. *)

\* The inductive invariant holds in every reachable state.
THEOREM Invariance == Spec => []IInv
<1> QED
  BY InitIInv, NextIInv, PTL DEF Spec

\* plan() never runs a local variable out of its range, in particular
\* remaining_size never underflows, and the plan is well formed: every entry
\* takes at least one operation and at most as many as the instance has rows.
THEOREM TypeCorrect == Spec => []TypeOK
<1>1. IInv => TypeOK
  BY DEF IInv
<1> QED
  BY <1>1, Invariance, PTL

\* A collector that has seen its whole chunk has all that its entry asks for.
LEMMA FullLength ==
    ASSUME IInv, AllCollected, NEW k \in DOMAIN collectors
    PROVE  /\ CollectorOK(collectors[k], checkpoints[k[1]][k[2]], counts[k[2]])
           /\ checkpoints[k[1]][k[2]].skip \in Nat /\ checkpoints[k[1]][k[2]].num \in 1 .. Size
           /\ Len(collectors[k].inputs) = checkpoints[k[1]][k[2]].num
           /\ collectors[k].skip = checkpoints[k[1]][k[2]].skip
           /\ collectors[k].num = checkpoints[k[1]][k[2]].num
<1> DEFINE m == collectors[k]
           e == checkpoints[k[1]][k[2]]
<1> USE ConstantsAssumption
<1>1. /\ k[1] \in 1 .. Len(checkpoints) /\ k[2] \in Chunks
      /\ k[2] \in DOMAIN checkpoints[k[1]] /\ m \in Collector /\ pc = "done"
  BY DEF IInv, TypeOK, AllCollected, CollectorKeys
<1>2. CollectorOK(m, e, counts[k[2]]) /\ m.seen = counts[k[2]]
  BY DEF IInv, CollectorsOK, AllCollected
<1>3. checkpoints[k[1]] \in Scopes
  BY <1>1 DEF IInv, TypeOK
<1>4. e.skip \in Nat /\ e.num \in 1 .. Size
  BY <1>1, <1>3, ScopeElim
<1>5. e.skip + e.num <= counts[k[2]] /\ counts[k[2]] \in Nat
  <2>1. k[1] \in 1 .. NumScopes /\ ScopeAt(k[1]) = checkpoints[k[1]]
    BY <1>1 DEF NumScopes, ScopeAt
  <2>2. e.skip + e.num <= Planned(k[2])
    BY <1>1, <2>1 DEF IInv, PlanInv, EntriesPlanned
  <2>3. counts[k[2]] \in Nat /\ k[2] < NumChunks
    BY <1>1 DEF IInv, TypeOK, Chunks
  <2>4. NothingToPlan \/ chunk = NumChunks
    BY <1>1 DEF IInv, PlanInv, Control
  <2> QED
    BY <1>4, <2>2, <2>3, <2>4 DEF Planned, Chunks
<1>6. /\ m.seen \in Nat /\ m.skipped \in Nat /\ m.skip \in Nat
      /\ m.inputs \in Seq(Nat) /\ Len(m.inputs) \in Nat
  BY <1>1 DEF Collector
<1> HIDE DEF m, e
<1>7. m.skip = e.skip /\ m.num = e.num /\ Len(m.inputs) = e.num
  BY <1>2, <1>4, <1>5, <1>6 DEF CollectorOK
<1> QED
  BY <1>2, <1>4, <1>7 DEF m, e

\* A collector that has seen its whole chunk holds exactly the operations of
\* its entry.
LEMMA FullCollector ==
    ASSUME IInv, AllCollected, NEW k \in DOMAIN collectors, NEW o \in Nat
    PROVE  (\E i \in 1 .. Len(collectors[k].inputs) : collectors[k].inputs[i] = o)
           <=> /\ checkpoints[k[1]][k[2]].skip <= o
               /\ o < checkpoints[k[1]][k[2]].skip + checkpoints[k[1]][k[2]].num
<1> DEFINE m == collectors[k]
           e == checkpoints[k[1]][k[2]]
<1> USE ConstantsAssumption
<1>2. CollectorOK(m, e, counts[k[2]])
  BY FullLength
<1>4. e.skip \in Nat /\ e.num \in 1 .. Size
  BY FullLength
<1>7. m.skip = e.skip /\ m.num = e.num /\ Len(m.inputs) = e.num
  BY FullLength
<1> HIDE DEF m, e
<1>8. \A i \in 1 .. e.num : m.inputs[i] = e.skip + (i - 1)
  BY <1>2, <1>7 DEF CollectorOK
<1>9. (\E i \in 1 .. e.num : m.inputs[i] = o) <=> e.skip <= o /\ o < e.skip + e.num
  <2>1. ASSUME e.skip <= o, o < e.skip + e.num
        PROVE  \E i \in 1 .. e.num : m.inputs[i] = o
    <3>1. (o - e.skip + 1) \in 1 .. e.num /\ e.skip + ((o - e.skip + 1) - 1) = o
      BY <1>4, <2>1
    <3> QED
      BY <3>1, <1>8
  <2>2. ASSUME NEW i \in 1 .. e.num, m.inputs[i] = o
        PROVE  e.skip <= o /\ o < e.skip + e.num
    BY <2>2, <1>4, <1>8
  <2> QED
    BY <2>1, <2>2
<1> QED
  BY <1>7, <1>9 DEF m, e

\* Every operation ends in exactly one instance, for every chunk count, every
\* count of operations per chunk and every non-zero instance size.
THEOREM ExactlyOnce == Spec => []CollectedOnce
<1>1. IInv => CollectedOnce
  <2> SUFFICES ASSUME IInv, AllCollected, Size > 0,
                      NEW c \in Chunks, NEW o \in 0 .. counts[c] - 1
               PROVE  \E p \in 1 .. Len(checkpoints) :
                          /\ Holds(p, c, o)
                          /\ \A q \in 1 .. Len(checkpoints) : Holds(q, c, o) => q = p
    BY DEF CollectedOnce
  <2> USE ConstantsAssumption
  <2>1. pc = "done" /\ NumScopes = Len(checkpoints) /\ Len(checkpoints) \in Nat
    BY DEF AllCollected, NumScopes, IInv, TypeOK
  <2>2. DOMAIN collectors = CollectorKeys(checkpoints)
    BY <2>1 DEF IInv, TypeOK
  <2>3. o \in Nat /\ o \in 0 .. Planned(c) - 1
    <3>1. ~NothingToPlan
      BY DEF NothingToPlan, Chunks
    <3>2. chunk = NumChunks /\ counts[c] \in Nat /\ c < NumChunks
      BY <3>1, <2>1 DEF IInv, PlanInv, Control, TypeOK, Chunks
    <3> QED
      BY <3>1, <3>2 DEF Planned
  <2>4. \A p \in 1 .. Len(checkpoints) : ScopeAt(p) = checkpoints[p] /\ checkpoints[p] \in Scopes
    BY DEF ScopeAt, IInv, TypeOK
  <2>5. \A p \in 1 .. Len(checkpoints) : <<p, c>> \in DOMAIN collectors <=> c \in DOMAIN ScopeAt(p)
    BY <2>2, <2>4 DEF CollectorKeys
  <2>6. \A p \in 1 .. Len(checkpoints) : Holds(p, c, o) <=> Covers(p, c, o)
    <3> TAKE p \in 1 .. Len(checkpoints)
    <3>1. CASE <<p, c>> \notin DOMAIN collectors
      BY <3>1, <2>5 DEF Holds, Covers
    <3>2. CASE <<p, c>> \in DOMAIN collectors
      <4>1. (\E i \in 1 .. Len(collectors[<<p, c>>].inputs) : collectors[<<p, c>>].inputs[i] = o)
            <=> /\ checkpoints[p][c].skip <= o
                /\ o < checkpoints[p][c].skip + checkpoints[p][c].num
        <5> DEFINE k == <<p, c>>
        <5>1. k \in DOMAIN collectors /\ k[1] = p /\ k[2] = c
          BY <3>2
        <5> HIDE DEF k
        <5>2. (\E i \in 1 .. Len(collectors[k].inputs) : collectors[k].inputs[i] = o)
              <=> /\ checkpoints[k[1]][k[2]].skip <= o
                  /\ o < checkpoints[k[1]][k[2]].skip + checkpoints[k[1]][k[2]].num
          BY <5>1, <2>3, FullCollector
        <5> QED
          BY <5>1, <5>2 DEF k
      <4> QED
        BY <3>2, <4>1, <2>4, <2>5 DEF Holds, Covers
    <3> QED
      BY <3>1, <3>2
  <2>7. PICK p \in 1 .. Len(checkpoints) : Covers(p, c, o)
    BY <2>1, <2>3 DEF IInv, PlanInv, AllCovered
  <2>8. ASSUME NEW q \in 1 .. Len(checkpoints), Covers(q, c, o), q # p
        PROVE  FALSE
    <3>1. /\ c \in DOMAIN ScopeAt(p) /\ c \in DOMAIN ScopeAt(q)
          /\ ScopeAt(p)[c].skip \in Nat /\ ScopeAt(p)[c].num \in Nat
          /\ ScopeAt(q)[c].skip \in Nat /\ ScopeAt(q)[c].num \in Nat
      BY <2>4, <2>7, <2>8, ScopeElim DEF Covers
    <3>2. \/ ScopeAt(p)[c].skip + ScopeAt(p)[c].num <= ScopeAt(q)[c].skip
          \/ ScopeAt(q)[c].skip + ScopeAt(q)[c].num <= ScopeAt(p)[c].skip
      BY <2>1, <2>8, <3>1 DEF IInv, PlanInv, EntriesOrdered
    <3> QED
      BY <2>3, <2>7, <2>8, <3>1, <3>2 DEF Covers
  <2> QED
    BY <2>6, <2>7, <2>8
<1> QED
  BY <1>1, Invariance, PTL
=============================================================================
