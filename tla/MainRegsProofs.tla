---------------------------- MODULE MainRegsProofs ----------------------------
(***************************************************************************)
(* Proofs about the register accesses of a segment of the main machine,    *)
(* for every trace size, number of traces, segment and set of accesses.    *)
(***************************************************************************)
EXTENDS MainRegs, FiniteSetTheorems, TLAPS

-----------------------------------------------------------------------------
(* Where the traces of a segment lie. *)

TraceIds == 0 .. NumWithin - 1

\* The first memory step of trace k, and the next one that trace k gets to.
Start(k) == MemStep(FirstRow + k * TraceSize, 0)
Cursor(k) == Start(k) + StepsByMainStep * next[k]

\* The segment: the slots 0 .. 2 of its filled rows may access the register.
SegmentOK ==
    /\ segment \in Nat /\ filled \in 1 .. NumRows
    /\ accessed \subseteq {MemStep(FirstRow + r, s) : r \in 0 .. filled - 1, s \in 0 .. 2}

\* Products with a natural number keep the order.
LEMMA TimesMonotonic ==
    ASSUME NEW a \in Nat, NEW b \in Nat, NEW w \in Nat, a <= b
    PROVE  a * w \in Nat /\ a * w <= b * w
<1> DEFINE d == b - a
<1>1. d \in Nat /\ b = a + d
  OBVIOUS
<1> HIDE DEF d
<1>2. (a + d) * w = a * w + d * w /\ d * w \in Nat /\ a * w \in Nat
  BY <1>1
<1> QED
  BY <1>1, <1>2

\* The product with the next number is one factor larger.
LEMMA TimesStep ==
    ASSUME NEW a \in Nat, NEW w \in Nat
    PROVE  a * w \in Nat /\ (a + 1) * w = a * w + w /\ a * w = w * a
OBVIOUS

\* A segment has more than one row; its first and last special steps lie around it.
LEMMA Sizes ==
    ASSUME segment \in Nat
    PROVE  /\ TraceSize \in Nat /\ TraceSize >= 1 /\ NumWithin \in Nat /\ NumWithin >= 1
           /\ NumRows \in Nat /\ NumRows > 1 /\ NumRows = NumWithin * TraceSize
           /\ FirstRow \in Nat
           /\ InitialStep = 4 * FirstRow
           /\ FinalStep = 4 * (FirstRow + NumRows)
<1>1. TraceSize \in Nat /\ TraceSize >= 1 /\ NumWithin \in Nat /\ NumWithin >= 1
  BY MainRegsAssumption
<1>2. NumRows \in Nat /\ NumRows > 1 /\ NumRows = NumWithin * TraceSize
  BY <1>1, MainRegsAssumption DEF NumRows
<1>3. FirstRow \in Nat /\ (segment = 0 => FirstRow = 0)
  BY <1>2 DEF FirstRow
<1>4. segment # 0 => FirstRow >= NumRows
  <2>1. segment # 0 => 1 * NumRows <= segment * NumRows
    BY <1>2, TimesMonotonic
  <2> QED
    BY <1>2, <2>1 DEF FirstRow
<1>5. InitialStep = 4 * FirstRow
  BY <1>2, <1>3, <1>4 DEF InitialStep, SpecialMemStep, MemStep, StepsByMainStep
<1>6. FinalStep = 4 * (FirstRow + NumRows)
  BY <1>2, <1>3 DEF FinalStep, SpecialMemStep, MemStep, StepsByMainStep
<1> QED
  BY <1>1, <1>2, <1>3, <1>5, <1>6

\* Traces follow each other without a gap.
LEMMA Starts ==
    ASSUME segment \in Nat, NEW k \in Nat
    PROVE  /\ Start(k) \in Nat
           /\ Start(k) = 4 * FirstRow + 1 + 4 * (k * TraceSize)
           /\ Start(k + 1) = Start(k) + 4 * TraceSize
           /\ Start(0) = InitialStep + 1
           /\ InitialStep < Start(k)
           /\ \A j \in Nat : j < k => Start(j) + 4 * TraceSize <= Start(k)
<1>1. TraceSize \in Nat /\ FirstRow \in Nat /\ InitialStep = 4 * FirstRow
  BY Sizes
<1>2. k * TraceSize \in Nat /\ (k + 1) * TraceSize = k * TraceSize + TraceSize
  BY <1>1, TimesStep
<1>3. \A j \in Nat : Start(j) = 4 * FirstRow + 1 + 4 * (j * TraceSize)
  BY <1>1 DEF Start, MemStep, StepsByMainStep
<1>4. ASSUME NEW j \in Nat, j < k
      PROVE  Start(j) + 4 * TraceSize <= Start(k)
  <2>1. (j + 1) * TraceSize = j * TraceSize + TraceSize /\ j * TraceSize \in Nat
    BY <1>1, TimesStep
  <2>2. (j + 1) * TraceSize <= k * TraceSize
    BY <1>1, <1>4, TimesMonotonic
  <2> QED
    BY <1>1, <1>2, <1>3, <2>1, <2>2
<1>5. 0 * TraceSize = 0
  BY <1>1
<1> QED
  BY <1>1, <1>2, <1>3, <1>4, <1>5

\* The traces of a segment are those that start before its last filled row.
LEMMA TracesIff ==
    ASSUME SegmentOK, NEW k \in Nat
    PROVE  /\ k \in Traces <=> k * TraceSize < filled
           /\ k \in Traces => k \in TraceIds
<1>1. /\ TraceSize \in Nat /\ TraceSize >= 1 /\ filled \in Nat /\ filled <= NumRows /\ filled >= 1
      /\ NumWithin \in Nat /\ NumRows = NumWithin * TraceSize
  BY Sizes DEF SegmentOK
<1> DEFINE q == (filled + TraceSize - 1) \div TraceSize
<1>2. /\ q \in Nat /\ q * TraceSize \in Nat
      /\ q * TraceSize <= filled + TraceSize - 1 /\ filled + TraceSize - 1 < q * TraceSize + TraceSize
  BY <1>1
<1> HIDE DEF q
<1>3. k * TraceSize \in Nat /\ (k + 1) * TraceSize = k * TraceSize + TraceSize
      /\ (q + 1) * TraceSize = q * TraceSize + TraceSize
  BY <1>1, <1>2, TimesStep
<1>4. k + 1 <= q => k * TraceSize < filled
  <2>1. k + 1 <= q => (k + 1) * TraceSize <= q * TraceSize
    BY <1>1, <1>2, TimesMonotonic
  <2> QED
    BY <1>1, <1>2, <1>3, <2>1
<1>5. q <= k => ~(k * TraceSize < filled)
  <2>1. q <= k => q * TraceSize <= k * TraceSize
    BY <1>1, <1>2, TimesMonotonic
  <2> QED
    BY <1>1, <1>2, <1>3, <2>1
<1>6. k \in Traces <=> k + 1 <= q
  BY <1>2 DEF Traces, q
<1>7. NumWithin <= k => ~(k * TraceSize < filled)
  <2>1. NumWithin <= k => NumWithin * TraceSize <= k * TraceSize
    BY <1>1, TimesMonotonic
  <2> QED
    BY <1>1, <1>3, <2>1
<1> QED
  BY <1>1, <1>2, <1>4, <1>5, <1>6, <1>7 DEF TraceIds

\* A trace has at least one row and at most TraceSize.
LEMMA Rows ==
    ASSUME SegmentOK, NEW k \in Traces
    PROVE  /\ k \in Nat /\ k \in TraceIds
           /\ RowsOf(k) \in 1 .. TraceSize
           /\ RowsOf(k) = TraceSize \/ RowsOf(k) = filled - k * TraceSize
           /\ RowsOf(k) <= filled - k * TraceSize
<1>1. TraceSize \in Nat /\ TraceSize >= 1 /\ filled \in Nat /\ filled >= 1
  BY Sizes DEF SegmentOK
<1>2. k \in Nat
  BY <1>1 DEF Traces
<1>3. k * TraceSize \in Nat /\ k * TraceSize < filled /\ k \in TraceIds
  BY <1>1, <1>2, TracesIff, TimesStep
<1> DEFINE rest == filled - k * TraceSize
           S == {TraceSize, rest}
<1>4. rest \in Nat /\ rest >= 1
  BY <1>1, <1>3
<1> HIDE DEF rest
<1>5. \E x \in S : \A y \in S : x =< y
  BY <1>1, <1>4
<1>6. RowsOf(k) \in S /\ \A y \in S : RowsOf(k) =< y
  BY <1>5 DEF RowsOf, Min, rest
<1> QED
  BY <1>1, <1>2, <1>3, <1>4, <1>6 DEF rest

\* Every access lies in a row of a trace, between the special steps of the segment.
LEMMA AccessedIn ==
    ASSUME SegmentOK, NEW m \in accessed
    PROVE  /\ m \in Nat /\ m >= Start(0) /\ m < FinalStep
           /\ \E k \in Traces : Start(k) <= m /\ m < Start(k) + 4 * RowsOf(k)
<1>1. /\ TraceSize \in Nat /\ TraceSize >= 1 /\ filled \in Nat /\ filled <= NumRows /\ segment \in Nat
      /\ FirstRow \in Nat /\ NumRows \in Nat
      /\ FinalStep = 4 * (FirstRow + NumRows)
  BY Sizes DEF SegmentOK
<1>2. PICK r \in 0 .. filled - 1, s \in 0 .. 2 : m = 1 + 4 * (FirstRow + r) + s
  BY DEF SegmentOK, MemStep, StepsByMainStep
<1> DEFINE k == r \div TraceSize
           i == r % TraceSize
<1>3. k \in Nat /\ i \in 0 .. TraceSize - 1 /\ r = k * TraceSize + i /\ k * TraceSize \in Nat
  BY <1>1
<1> HIDE DEF k, i
<1>4. k \in Traces
  BY <1>1, <1>3, TracesIff
<1>5. Start(k) = 4 * FirstRow + 1 + 4 * (k * TraceSize) /\ Start(0) = 4 * FirstRow + 1
  BY <1>1, <1>3, Starts, Sizes
<1>6. i < RowsOf(k) /\ RowsOf(k) \in Nat
  BY <1>1, <1>3, <1>4, Rows
<1>7. Start(k) <= m /\ m < Start(k) + 4 * RowsOf(k)
  BY <1>1, <1>2, <1>3, <1>5, <1>6
<1> QED
  BY <1>1, <1>2, <1>4, <1>5, <1>7

\* The facts about steps that the proofs below need.
LEMMA StepFacts ==
    ASSUME SegmentOK
    PROVE  /\ segment \in Nat /\ InitialStep \in Nat /\ FinalStep \in Nat
           /\ Start(0) = InitialStep + 1
           /\ \A k \in Nat : Start(k) \in Nat /\ InitialStep < Start(k)
           /\ \A n \in accessed : n \in Nat /\ InitialStep < n /\ n < FinalStep
<1>1. segment \in Nat
  BY DEF SegmentOK
<1>2. InitialStep \in Nat /\ FinalStep \in Nat
  BY <1>1, Sizes
<1>3. \A k \in Nat : Start(k) \in Nat /\ InitialStep < Start(k) /\ Start(0) = InitialStep + 1
  BY <1>1, Starts
<1>4. Start(0) = InitialStep + 1
  BY <1>3
<1>5. \A n \in accessed : n \in Nat /\ n >= Start(0) /\ n < FinalStep
  BY AccessedIn
<1>6. \A n \in accessed : InitialStep < n
  BY <1>2, <1>4, <1>5
<1> QED
  BY <1>1, <1>2, <1>3, <1>4, <1>5, <1>6

\* The special slot of a step is never an access.
LEMMA NoSpecialAccess ==
    ASSUME SegmentOK, NEW step \in Nat
    PROVE  MemStep(step, 3) \notin accessed
<1> SUFFICES ASSUME MemStep(step, 3) \in accessed PROVE FALSE
  OBVIOUS
<1>1. FirstRow \in Nat
  BY Sizes DEF SegmentOK
<1>2. PICK r \in 0 .. filled - 1, s \in 0 .. 2 : 1 + 4 * step + 3 = 1 + 4 * (FirstRow + r) + s
  BY DEF SegmentOK, MemStep, StepsByMainStep
<1> QED
  BY <1>1, <1>2 DEF SegmentOK

-----------------------------------------------------------------------------
(* The inductive invariant. *)

\* The accesses of trace k before memory step b.
Seen(k, b) == {m \in accessed : Start(k) <= m /\ m < b}

\* p is the step of the last access before m, or the start of the segment.
IsPrevious(p, m) ==
    /\ p \in accessed \cup {InitialStep} /\ p < m
    /\ \A n \in accessed : n < m => n <= p

\* tr is what EmuRegTrace knows of trace k at memory step b: the last and the first access.
TraceTrue(tr, k, b) ==
    /\ Seen(k, b) = {} =>
        /\ tr.steps = IF k = 0 THEN InitialStep ELSE 0
        /\ tr.firstUse = IF k = 0 THEN InitialStep ELSE None
    /\ Seen(k, b) # {} =>
        /\ tr.steps \in Seen(k, b) /\ \A n \in Seen(k, b) : n <= tr.steps
        /\ k = 0 => tr.firstUse = InitialStep
        /\ k # 0 => tr.firstUse \in Seen(k, b) /\ \A n \in Seen(k, b) : tr.firstUse <= n

\* The rows of trace k up to memory step b tell the truth, but for its first access.
RowsTrue(prev, tr, k, b) ==
    \A m \in Seen(k, b) :
        m \in DOMAIN prev /\ (m # tr.firstUse => IsPrevious(prev[m], m))

\* How far the traces, the completion and the steps of the whole segment got.
Progress ==
    /\ pc \in {"fill", "complete", "air", "done"}
    /\ next \in [TraceIds -> 0 .. TraceSize]
    /\ \A k \in Traces : next[k] <= RowsOf(k)
    /\ pc # "fill" => \A k \in Traces : next[k] = RowsOf(k)
    /\ index \in Nat \ {0} /\ index - 1 \in Traces
    /\ pc = "fill" => index = 1
    /\ pc \in {"air", "done"} => index \notin Traces

\* Every EmuRegTrace knows its part of the trace.
TracesTrue ==
    /\ regTrace \in [TraceIds -> [steps : Nat, firstUse : Nat \cup {None}]]
    /\ \A k \in Traces : TraceTrue(regTrace[k], k, Cursor(k))

\* The rows filled so far tell the truth, but for the first accesses not completed yet.
PrevTrue ==
    /\ DOMAIN prevStep = UNION {Seen(k, Cursor(k)) : k \in Traces}
    /\ \A k \in Traces : RowsTrue(prevStep, regTrace[k], k, Cursor(k))
    /\ \A k \in Traces : k < index =>
            \A m \in Seen(k, Cursor(k)) : IsPrevious(prevStep[m], m)

\* The last access before the trace being completed, or before the end of the segment.
StepsTrue ==
    /\ pc \in {"fill", "complete"} => IsPrevious(regStep, Start(index - 1))
    /\ pc \in {"air", "done"} => IsPrevious(regStep, FinalStep)
    /\ pc = "done" => lastStep = regStep

\* The accesses whose range a trace or the completion has counted.
Checked ==
    {m \in DOMAIN prevStep :
        \A k \in Traces : m \in Seen(k, Cursor(k)) => k < index \/ m # regTrace[k].firstUse}

Differ(v) == {m \in Checked : m - prevStep[m] = v}
LargeAt(v) == {i \in 1 .. Len(large) : large[i] = v}

\* Every range counted so far is in its counter, or kept apart, as often as it was met.
ChecksTrue ==
    /\ checks \in [1 .. MaxRange -> Nat]
    /\ large \in Seq(Nat) /\ \A i \in 1 .. Len(large) : large[i] > MaxRange
    /\ \A v \in Nat \ {0} :
        (IF v \in 1 .. MaxRange THEN checks[v] ELSE Cardinality(LargeAt(v)))
        = Cardinality(Differ(v)) + (IF pc = "done" /\ FinalStep - regStep = v THEN 1 ELSE 0)

IInv == SegmentOK /\ Progress /\ TracesTrue /\ PrevTrue /\ StepsTrue

-----------------------------------------------------------------------------
(* trace_reg_access keeps TraceTrue and RowsTrue. *)

\* A trace has no first access exactly when it has none, unless it is the first trace.
LEMMA FirstUseNone ==
    ASSUME SegmentOK, NEW tr, NEW k \in Nat, NEW b \in Nat, TraceTrue(tr, k, b)
    PROVE  /\ tr.firstUse = None <=> k # 0 /\ Seen(k, b) = {}
           /\ tr.steps \in Nat
           /\ tr.firstUse \in Nat \cup {None}
<1>1. InitialStep \in Nat
  BY Sizes DEF SegmentOK
<1>2. \A n \in Seen(k, b) : n \in Nat
  BY AccessedIn DEF Seen
<1> QED
  BY <1>1, <1>2 DEF TraceTrue, None

\* The step that trace k holds is that of the last access before the next one.
LEMMA HeldIsPrevious ==
    ASSUME SegmentOK, NEW tr, NEW k \in Nat, NEW m \in Nat, Start(k) <= m,
           TraceTrue(tr, k, m), tr.firstUse # None
    PROVE  IsPrevious(tr.steps, m)
<1>1. Start(k) \in Nat /\ InitialStep < Start(k) /\ InitialStep \in Nat /\ Start(0) = InitialStep + 1
  BY StepFacts
<1>2. \A n \in accessed : n \in Nat /\ n >= Start(0)
  BY AccessedIn
<1>3. CASE Seen(k, m) = {}
  <2>1. k = 0 /\ tr.steps = InitialStep
    BY <1>3, FirstUseNone DEF TraceTrue
  <2>2. \A n \in accessed : ~(n < m)
    BY <1>1, <1>2, <1>3, <2>1 DEF Seen
  <2> QED
    BY <1>1, <2>1, <2>2 DEF IsPrevious
<1>4. CASE Seen(k, m) # {}
  <2>1. tr.steps \in Seen(k, m) /\ \A n \in Seen(k, m) : n <= tr.steps
    BY <1>4 DEF TraceTrue
  <2>2. ASSUME NEW n \in accessed, n < m
        PROVE  n <= tr.steps
    BY <1>1, <1>2, <2>1, <2>2 DEF Seen
  <2> QED
    BY <2>1, <2>2 DEF IsPrevious, Seen
<1> QED
  BY <1>3, <1>4

\* One slot of a row: the trace and the rows stay true.
LEMMA AccessTrue ==
    ASSUME SegmentOK, NEW t, NEW k \in Nat, NEW m \in Nat, Start(k) <= m,
           TraceTrue(t.trace, k, m), RowsTrue(t.prev, t.trace, k, m)
    PROVE  /\ TraceTrue(Access(t, m).trace, k, m + 1)
           /\ RowsTrue(Access(t, m).prev, Access(t, m).trace, k, m + 1)
           /\ DOMAIN Access(t, m).prev = DOMAIN t.prev \cup ({m} \cap accessed)
           /\ \A x \in DOMAIN t.prev : x # m => Access(t, m).prev[x] = t.prev[x]
<1>0. Start(k) \in Nat /\ InitialStep \in Nat /\ \A n \in accessed : n \in Nat
  BY StepFacts
<1>1. CASE m \notin accessed
  <2>1. Seen(k, m + 1) = Seen(k, m)
    BY <1>0, <1>1 DEF Seen
  <2>2. Access(t, m) = t
    BY <1>1 DEF Access
  <2> QED
    BY <1>1, <2>1, <2>2 DEF TraceTrue, RowsTrue
<1>2. CASE m \in accessed
  <2>1. Seen(k, m + 1) = Seen(k, m) \cup {m} /\ m \notin Seen(k, m)
    <3>1. \A n \in accessed : n < m + 1 <=> n < m \/ n = m
      BY <1>0
    <3>2. ASSUME NEW n
          PROVE  n \in Seen(k, m + 1) <=> n \in Seen(k, m) \/ n = m
      BY <1>2, <3>1 DEF Seen
    <3>3. m \notin Seen(k, m)
      BY <1>0 DEF Seen
    <3> QED
      BY <3>2, <3>3
  <2> DEFINE u == Access(t, m)
  <2>2. /\ u.trace.steps = m
        /\ u.trace.firstUse = IF t.trace.firstUse = None THEN m ELSE t.trace.firstUse
        /\ u.prev = [x \in DOMAIN t.prev \cup {m} |-> IF x = m THEN t.trace.steps ELSE t.prev[x]]
    BY <1>2 DEF Access, TraceAccess
  <2> HIDE DEF u
  <2>3. \A n \in Seen(k, m) : n < m /\ n \in Nat
    BY <1>0 DEF Seen
  <2>4. TraceTrue(u.trace, k, m + 1)
    <3>1. u.trace.steps \in Seen(k, m + 1) /\ \A n \in Seen(k, m + 1) : n <= u.trace.steps
      BY <2>1, <2>2, <2>3
    <3>2. CASE t.trace.firstUse = None
      <4>1. k # 0 /\ Seen(k, m) = {} /\ u.trace.firstUse = m
        BY <3>2, <2>2, FirstUseNone
      <4> QED
        BY <3>1, <4>1, <2>1 DEF TraceTrue
    <3>3. CASE t.trace.firstUse # None
      <4>1. k = 0 \/ Seen(k, m) # {}
        BY <3>3, FirstUseNone
      <4>2. u.trace.firstUse = t.trace.firstUse
        BY <3>3, <2>2
      <4> QED
        BY <3>1, <4>1, <4>2, <2>1, <2>3 DEF TraceTrue
    <3> QED
      BY <3>2, <3>3
  <2>5. RowsTrue(u.prev, u.trace, k, m + 1)
    <3>1. t.trace.firstUse # None => IsPrevious(u.prev[m], m)
      BY <2>2, HeldIsPrevious
    <3>2. t.trace.firstUse = None => u.trace.firstUse = m
      BY <2>2
    <3>3. ASSUME NEW n \in Seen(k, m)
          PROVE  n \in DOMAIN u.prev /\ (n # u.trace.firstUse => IsPrevious(u.prev[n], n))
      <4>1. n \in DOMAIN t.prev /\ u.prev[n] = t.prev[n] /\ n \in DOMAIN u.prev
        BY <2>1, <2>2 DEF RowsTrue
      <4>2. u.trace.firstUse = t.trace.firstUse
        BY <2>2, FirstUseNone
      <4> QED
        BY <4>1, <4>2 DEF RowsTrue
    <3>4. m \in DOMAIN u.prev
      BY <2>2
    <3> QED
      BY <2>1, <3>1, <3>2, <3>3, <3>4 DEF RowsTrue
  <2> QED
    BY <1>2, <2>2, <2>4, <2>5 DEF u
<1> QED
  BY <1>1, <1>2

\* The accesses from memory step a up to b.
Between(a, b) == {m \in accessed : a <= m /\ m < b}

\* t is what t0 becomes when trace k goes on from memory step a to b.
Went(t0, t, k, a, b) ==
    /\ TraceTrue(t.trace, k, b) /\ RowsTrue(t.prev, t.trace, k, b)
    /\ t.trace \in [steps : Nat, firstUse : Nat \cup {None}]
    /\ t0.trace.firstUse # None => t.trace.firstUse = t0.trace.firstUse
    /\ DOMAIN t.prev = DOMAIN t0.prev \cup Between(a, b)
    /\ \A x \in DOMAIN t0.prev : x \notin Between(a, b) => t.prev[x] = t0.prev[x]
    /\ t.ranges = {[slot |-> m, range |-> m - t.prev[m]] :
                        m \in {n \in Between(a, b) : n # t.trace.firstUse}}

\* A slot takes the trace one memory step on.
LEMMA AccessWent ==
    ASSUME SegmentOK, NEW t0, NEW t, NEW k \in Nat, NEW a \in Nat, NEW m \in Nat,
           Start(k) <= a, a <= m, Went(t0, t, k, a, m)
    PROVE  Went(t0, Access(t, m), k, a, m + 1)
<1>0. /\ Start(k) \in Nat /\ \A n \in accessed : n \in Nat
      /\ Start(k) <= m
  BY StepFacts
<1>1. /\ TraceTrue(Access(t, m).trace, k, m + 1)
      /\ RowsTrue(Access(t, m).prev, Access(t, m).trace, k, m + 1)
      /\ DOMAIN Access(t, m).prev = DOMAIN t.prev \cup ({m} \cap accessed)
      /\ \A x \in DOMAIN t.prev : x # m => Access(t, m).prev[x] = t.prev[x]
  BY <1>0, AccessTrue DEF Went
<1>2. CASE m \notin accessed
  <2>1. Access(t, m) = t
    BY <1>2 DEF Access
  <2>2. Between(a, m + 1) = Between(a, m)
    BY <1>0, <1>2 DEF Between
  <2> QED
    BY <1>1, <2>1, <2>2 DEF Went
<1>3. CASE m \in accessed
  <2> DEFINE u == Access(t, m)
  <2>1. Between(a, m + 1) = Between(a, m) \cup {m} /\ m \notin Between(a, m)
    <3>1. \A n \in accessed : n < m + 1 <=> n < m \/ n = m
      BY <1>0
    <3>2. ASSUME NEW n
          PROVE  n \in Between(a, m + 1) <=> n \in Between(a, m) \/ n = m
      BY <1>3, <3>1 DEF Between
    <3>3. m \notin Between(a, m)
      BY <1>0 DEF Between
    <3> QED
      BY <3>2, <3>3
  <2>2. /\ u.trace = [steps |-> m, firstUse |-> IF t.trace.firstUse = None THEN m ELSE t.trace.firstUse]
        /\ u.prev[m] = t.trace.steps
        /\ u.ranges = IF t.trace.firstUse = None THEN t.ranges
                      ELSE t.ranges \cup {[slot |-> m, range |-> m - t.trace.steps]}
    BY <1>3 DEF Access, TraceAccess
  <2>3. DOMAIN u.prev = DOMAIN t0.prev \cup Between(a, m + 1)
    BY <1>1, <1>3, <2>1 DEF Went
  <2> HIDE DEF u
  <2>4. \A x \in DOMAIN t0.prev : x \notin Between(a, m + 1) => u.prev[x] = t0.prev[x]
    BY <1>1, <2>1 DEF Went, u
  <2>5. \A x \in Between(a, m) : u.prev[x] = t.prev[x]
    BY <1>1, <2>1 DEF Went, u
  <2>6. u.trace \in [steps : Nat, firstUse : Nat \cup {None}]
    BY <2>2 DEF Went
  <2>7. t0.trace.firstUse # None => u.trace.firstUse = t0.trace.firstUse
    BY <2>2 DEF Went
  <2>8. u.ranges = {[slot |-> n, range |-> n - u.prev[n]] :
                        n \in {x \in Between(a, m + 1) : x # u.trace.firstUse}}
    <3>1. CASE t.trace.firstUse = None
      <4>1. k # 0 /\ Seen(k, m) = {}
        BY <3>1, FirstUseNone DEF Went
      <4>2. Between(a, m) = {}
        BY <4>1, <1>0 DEF Between, Seen
      <4>3. u.trace.firstUse = m /\ u.ranges = t.ranges
        BY <2>2, <3>1
      <4>4. {x \in Between(a, m + 1) : x # u.trace.firstUse} = {}
        BY <2>1, <4>2, <4>3
      <4>5. t.ranges = {}
        BY <4>2 DEF Went
      <4> QED
        BY <4>3, <4>4, <4>5
    <3>2. CASE t.trace.firstUse # None
      <4>1. /\ u.trace.firstUse = t.trace.firstUse
            /\ u.ranges = t.ranges \cup {[slot |-> m, range |-> m - u.prev[m]]}
        BY <2>2, <3>2
      <4>2. m # t.trace.firstUse
        <5>1. t.trace.firstUse = InitialStep \/ t.trace.firstUse \in Seen(k, m)
          BY <3>2 DEF TraceTrue, Went
        <5>2. InitialStep < m /\ InitialStep \in Nat
          BY <1>3, StepFacts
        <5>3. m \notin Seen(k, m)
          BY <1>0 DEF Seen
        <5> QED
          BY <5>1, <5>2, <5>3
      <4> DEFINE Old == {x \in Between(a, m) : x # t.trace.firstUse}
      <4>3. {x \in Between(a, m + 1) : x # u.trace.firstUse} = Old \cup {m}
        BY <2>1, <4>1, <4>2
      <4>4. t.ranges = {[slot |-> n, range |-> n - u.prev[n]] : n \in Old}
        BY <2>5 DEF Went
      <4> HIDE DEF Old
      <4> QED
        BY <4>1, <4>3, <4>4
    <3> QED
      BY <3>1, <3>2
  <2> QED
    BY <1>1, <2>3, <2>4, <2>6, <2>7, <2>8 DEF Went, u
<1> QED
  BY <1>2, <1>3

\* A row takes the trace one step on: its three slots, and the special one without an access.
LEMMA RowWent ==
    ASSUME SegmentOK, NEW t0, NEW k \in Nat, NEW i \in Nat, NEW b \in Nat,
           b = Start(k) + StepsByMainStep * i,
           Went(t0, t0, k, b, b)
    PROVE  Went(t0, RowTrace(t0, FirstRow + k * TraceSize + i), k, b, b + 4)
<1>0. FirstRow \in Nat /\ TraceSize \in Nat /\ segment \in Nat
  BY Sizes DEF SegmentOK
<1>1. k * TraceSize \in Nat /\ Start(k) \in Nat
  BY <1>0, Starts, TimesStep
<1> DEFINE step == FirstRow + k * TraceSize + i
<1>2. step \in Nat /\ Start(k) <= b
  BY <1>0, <1>1 DEF StepsByMainStep
<1>3. MemStep(step, 0) = b /\ MemStep(step, 1) = b + 1 /\ MemStep(step, 2) = b + 2 /\ MemStep(step, 3) = b + 3
  <2>1. Start(k) = 4 * FirstRow + 1 + 4 * (k * TraceSize)
    BY <1>0, Starts
  <2> QED
    BY <1>0, <1>1, <2>1 DEF MemStep, StepsByMainStep
<1> DEFINE t1 == Access(t0, b)
           t2 == Access(t1, b + 1)
           t3 == Access(t2, b + 2)
<1>4. RowTrace(t0, step) = t3
  BY <1>3 DEF RowTrace
<1> HIDE DEF t1, t2, t3, step
<1>5. Went(t0, t1, k, b, b + 1)
  BY <1>2, AccessWent DEF t1
<1>6. Went(t0, t2, k, b, (b + 1) + 1)
  <2>1. b + 1 \in Nat /\ b <= b + 1
    OBVIOUS
  <2> QED
    BY <1>2, <1>5, <2>1, AccessWent DEF t2
<1>7. Went(t0, t3, k, b, (b + 2) + 1)
  <2>1. b + 2 \in Nat /\ b <= b + 2 /\ (b + 1) + 1 = b + 2
    OBVIOUS
  <2> QED
    BY <1>2, <1>6, <2>1, AccessWent DEF t3
<1>8. Went(t0, Access(t3, b + 3), k, b, (b + 3) + 1)
  <2>1. b + 3 \in Nat /\ b <= b + 3 /\ (b + 2) + 1 = b + 3
    OBVIOUS
  <2> QED
    BY <1>2, <1>7, <2>1, AccessWent
<1>9. Access(t3, b + 3) = t3
  BY <1>2, <1>3, NoSpecialAccess DEF Access
<1>10. (b + 3) + 1 = b + 4
  OBVIOUS
<1> QED
  BY <1>4, <1>8, <1>9, <1>10 DEF step

-----------------------------------------------------------------------------
(* The inductive invariant holds initially. *)

\* A trace that has not started has seen nothing.
LEMMA NothingSeen ==
    ASSUME SegmentOK, NEW k \in Nat
    PROVE  Seen(k, Start(k)) = {}
BY StepFacts DEF Seen

\* No trace has a row at the start.
LEMMA InitIInv ==
    ASSUME Init
    PROVE  IInv
<1>1. segment \in Nat /\ filled \in 1 .. NumRows
  BY MainRegsAssumption DEF Init
<1>2. NumRows \in Nat /\ TraceSize \in Nat /\ TraceSize >= 1 /\ NumWithin \in Nat /\ InitialStep \in Nat
  BY <1>1, Sizes
<1>3. SegmentOK
  <2>1. ASSUME NEW m \in accessed
        PROVE  m \in {MemStep(FirstRow + r, s) : r \in 0 .. filled - 1, s \in 0 .. 2}
    <3>1. PICK r \in 0 .. (IF filled < NumRows THEN filled - 2 ELSE filled - 1), s \in Slots :
                  m = MemStep(segment * NumRows + r, s)
      BY <2>1 DEF Init
    <3>2. r \in 0 .. filled - 1 /\ s \in 0 .. 2
      BY <1>1, <1>2, MainRegsAssumption
    <3> QED
      BY <3>1, <3>2 DEF FirstRow
  <2> QED
    BY <1>1, <2>1 DEF SegmentOK
<1>4. 0 \in Traces
  <2>1. 0 * TraceSize = 0 /\ 0 < filled /\ 0 \in Nat
    BY <1>1, <1>2
  <2> QED
    BY <1>3, <2>1, TracesIff
<1>5. \A k \in Traces : k \in Nat /\ k \in TraceIds /\ RowsOf(k) \in 1 .. TraceSize
  BY <1>3, Rows
<1>6. \A k \in Traces : next[k] = 0 /\ Cursor(k) = Start(k) /\ Start(k) \in Nat
  BY <1>3, <1>5, StepFacts DEF Init, Cursor, TraceIds, StepsByMainStep
<1>7. \A k \in Traces : Seen(k, Cursor(k)) = {}
  BY <1>3, <1>5, <1>6, NothingSeen
<1>8. Progress
  <2>1. next \in [TraceIds -> 0 .. TraceSize]
    BY <1>2 DEF Init, TraceIds
  <2>2. \A k \in Traces : next[k] <= RowsOf(k)
    BY <1>2, <1>5, <1>6
  <2>3. pc = "fill" /\ index = 1 /\ index - 1 = 0 /\ index \in Nat \ {0}
    BY DEF Init
  <2> QED
    BY <1>4, <2>1, <2>2, <2>3 DEF Progress
<1>9. TracesTrue
  <2>1. \A k \in TraceIds : regTrace[k] = FromInitStep(k, InitialStep)
    BY DEF Init, TraceIds
  <2>2. regTrace \in [TraceIds -> [steps : Nat, firstUse : Nat \cup {None}]]
    BY <1>2 DEF Init, TraceIds, FromInitStep
  <2>3. ASSUME NEW k \in Traces
        PROVE  TraceTrue(regTrace[k], k, Cursor(k))
    <3>1. regTrace[k] = [steps |-> IF k = 0 THEN InitialStep ELSE 0,
                         firstUse |-> IF k = 0 THEN InitialStep ELSE None]
      BY <1>5, <2>1 DEF FromInitStep
    <3> QED
      BY <1>7, <3>1 DEF TraceTrue
  <2> QED
    BY <2>2, <2>3 DEF TracesTrue
<1>10. PrevTrue
  <2>1. DOMAIN prevStep = {}
    BY DEF Init
  <2> QED
    BY <1>7, <2>1 DEF PrevTrue, RowsTrue
<1>11. StepsTrue
  <2>1. Start(0) = InitialStep + 1 /\ \A n \in accessed : n \in Nat /\ InitialStep < n
    BY <1>3, StepFacts
  <2>2. IsPrevious(InitialStep, Start(0))
    BY <1>2, <2>1 DEF IsPrevious
  <2>3. regStep = InitialStep /\ index = 1 /\ index - 1 = 0 /\ pc = "fill"
    BY DEF Init
  <2> QED
    BY <2>2, <2>3 DEF StepsTrue
<1> QED
  BY <1>3, <1>8, <1>9, <1>10, <1>11 DEF IInv

-----------------------------------------------------------------------------
(* The inductive invariant is kept. *)

\* The segment and its accesses stay what they are.
LEMMA Frame ==
    ASSUME UNCHANGED <<segment, filled, accessed>>
    PROVE  /\ SegmentOK' <=> SegmentOK
           /\ Traces' = Traces /\ InitialStep' = InitialStep /\ FinalStep' = FinalStep
           /\ \A k : Start(k)' = Start(k) /\ RowsOf(k)' = RowsOf(k)
           /\ \A k, b : Seen(k, b)' = Seen(k, b)
           /\ \A p, m : IsPrevious(p, m)' <=> IsPrevious(p, m)
           /\ \A tr, k, b : TraceTrue(tr, k, b)' <=> TraceTrue(tr, k, b)
           /\ \A prev, tr, k, b : RowsTrue(prev, tr, k, b)' <=> RowsTrue(prev, tr, k, b)
<1>1. SegmentOK' <=> SegmentOK
  BY DEF SegmentOK, NumRows, FirstRow, MemStep
<1>2. Traces' = Traces /\ InitialStep' = InitialStep /\ FinalStep' = FinalStep
  BY DEF Traces, InitialStep, FinalStep, FirstRow, NumRows
<1>3. \A k : Start(k)' = Start(k) /\ RowsOf(k)' = RowsOf(k)
  BY DEF Start, FirstRow, NumRows, RowsOf
<1>4. \A k, b : Seen(k, b)' = Seen(k, b)
  BY <1>3 DEF Seen
<1>5. \A p, m : IsPrevious(p, m)' <=> IsPrevious(p, m)
  BY <1>2 DEF IsPrevious
<1>6. \A tr, k, b : TraceTrue(tr, k, b)' <=> TraceTrue(tr, k, b)
  BY <1>2, <1>4 DEF TraceTrue
<1>7. \A prev, tr, k, b : RowsTrue(prev, tr, k, b)' <=> RowsTrue(prev, tr, k, b)
  BY <1>4, <1>5 DEF RowsTrue
<1> QED
  BY <1>1, <1>2, <1>3, <1>4, <1>5, <1>6, <1>7

\* A step that changes nothing keeps the inductive invariant.
LEMMA StutterIInv ==
    ASSUME IInv, UNCHANGED vars
    PROVE  IInv'
<1>1. UNCHANGED <<segment, filled, accessed>>
  BY DEF vars
<1>2. \A k : Cursor(k)' = Cursor(k)
  BY <1>1, Frame DEF Cursor, vars
<1>3. SegmentOK' /\ Progress'
  BY <1>1, Frame DEF IInv, Progress, vars
<1>4. TracesTrue'
  BY <1>1, <1>2, Frame DEF IInv, TracesTrue, vars
<1>5. PrevTrue'
  BY <1>1, <1>2, Frame DEF IInv, PrevTrue, vars
<1>6. StepsTrue'
  BY <1>1, Frame DEF IInv, StepsTrue, vars
<1> QED
  BY <1>3, <1>4, <1>5, <1>6 DEF IInv

\* Traces have no access in common.
LEMMA SeenApart ==
    ASSUME SegmentOK, NEW j \in Traces, NEW k \in Traces, j # k,
           NEW b \in Nat, b <= Start(j) + 4 * TraceSize,
           NEW c \in Nat, c <= Start(k) + 4 * TraceSize
    PROVE  Seen(j, b) \cap Seen(k, c) = {}
<1>0. /\ segment \in Nat /\ j \in Nat /\ k \in Nat /\ TraceSize \in Nat
      /\ Start(j) \in Nat /\ Start(k) \in Nat /\ \A n \in accessed : n \in Nat
  BY StepFacts, Rows, Sizes
<1>1. j < k => Start(j) + 4 * TraceSize <= Start(k)
  BY <1>0, Starts
<1>2. k < j => Start(k) + 4 * TraceSize <= Start(j)
  BY <1>0, Starts
<1> QED
  BY <1>0, <1>1, <1>2 DEF Seen

\* Where trace k is.
LEMMA CursorIn ==
    ASSUME IInv, NEW k \in Traces
    PROVE  /\ k \in Nat /\ k \in TraceIds /\ Cursor(k) \in Nat
           /\ RowsOf(k) \in 1 .. TraceSize /\ next[k] \in 0 .. RowsOf(k)
           /\ Cursor(k) = Start(k) + 4 * next[k] /\ Start(k) \in Nat
           /\ Start(k) <= Cursor(k) /\ Cursor(k) <= Start(k) + 4 * RowsOf(k)
           /\ Cursor(k) <= Start(k) + 4 * TraceSize
<1>1. /\ k \in Nat /\ k \in TraceIds /\ RowsOf(k) \in 1 .. TraceSize /\ TraceSize \in Nat
      /\ Start(k) \in Nat
  BY Rows, StepFacts, Sizes DEF IInv
<1>2. next[k] \in 0 .. RowsOf(k)
  BY <1>1 DEF IInv, Progress
<1> QED
  BY <1>1, <1>2 DEF Cursor, StepsByMainStep

\* What step_slice_full_trace starts a row of trace k with.
RowStart(k) == [trace |-> regTrace[k], ranges |-> {}, prev |-> prevStep]

\* What a row does to its trace and to the rows told so far.
LEMMA FillRowWent ==
    ASSUME IInv, NEW k, FillRow(k)
    PROVE  /\ k \in Traces /\ pc = "fill" /\ next[k] < RowsOf(k)
           /\ UNCHANGED <<pc, segment, filled, accessed, large, regStep, index, lastStep>>
           /\ \A j \in Traces : Cursor(j)' = IF j = k THEN Cursor(k) + 4 ELSE Cursor(j)
           /\ next' = [next EXCEPT ![k] = @ + 1]
           /\ \E end : /\ Went(RowStart(k), end, k, Cursor(k), Cursor(k) + 4)
                       /\ regTrace' = [regTrace EXCEPT ![k] = end.trace]
                       /\ prevStep' = end.prev
                       /\ checks' = [v \in DOMAIN checks |->
                            checks[v] + Cardinality({r \in end.ranges : r.range = v})]
<1>1. /\ k \in Traces /\ pc = "fill" /\ next[k] < RowsOf(k)
      /\ UNCHANGED <<pc, segment, filled, accessed, large, regStep, index, lastStep>>
      /\ next' = [next EXCEPT ![k] = @ + 1]
  BY DEF FillRow
<1> DEFINE end == RowTrace(RowStart(k), FirstRow + k * TraceSize + next[k])
<1>2. /\ regTrace' = [regTrace EXCEPT ![k] = end.trace]
      /\ prevStep' = end.prev
      /\ checks' = [v \in DOMAIN checks |->
            checks[v] + Cardinality({r \in end.ranges : r.range = v})]
  BY DEF FillRow, RowStart
<1> HIDE DEF end
<1>3. /\ k \in Nat /\ k \in TraceIds /\ Cursor(k) \in Nat /\ next[k] \in Nat
      /\ Cursor(k) = Start(k) + StepsByMainStep * next[k]
  BY <1>1, CursorIn DEF StepsByMainStep
<1>4. Went(RowStart(k), RowStart(k), k, Cursor(k), Cursor(k))
  <2>1. Between(Cursor(k), Cursor(k)) = {}
    BY <1>3, StepFacts DEF Between, IInv
  <2>2. RowStart(k).trace = regTrace[k] /\ RowStart(k).ranges = {} /\ RowStart(k).prev = prevStep
    BY DEF RowStart
  <2>3. regTrace[k] \in [steps : Nat, firstUse : Nat \cup {None}]
    BY <1>3 DEF IInv, TracesTrue
  <2>4. TraceTrue(regTrace[k], k, Cursor(k)) /\ RowsTrue(prevStep, regTrace[k], k, Cursor(k))
    BY <1>1 DEF IInv, TracesTrue, PrevTrue
  <2> QED
    BY <2>1, <2>2, <2>3, <2>4 DEF Went
<1>5. Went(RowStart(k), end, k, Cursor(k), Cursor(k) + 4)
  BY <1>3, <1>4, RowWent DEF end, IInv
<1>6. ASSUME NEW j \in Traces
      PROVE  Cursor(j)' = IF j = k THEN Cursor(k) + 4 ELSE Cursor(j)
  <2>1. /\ j \in TraceIds /\ Start(j)' = Start(j) /\ Start(j) \in Nat /\ next[j] \in Nat
        /\ Cursor(j) = Start(j) + 4 * next[j]
    BY <1>1, CursorIn, Frame
  <2>2. next'[j] = IF j = k THEN next[j] + 1 ELSE next[j]
    BY <1>1, <2>1 DEF IInv, Progress
  <2>3. Cursor(j)' = Start(j) + 4 * next'[j]
    BY <2>1 DEF Cursor, StepsByMainStep
  <2> QED
    BY <2>1, <2>2, <2>3
<1> QED
  BY <1>1, <1>2, <1>5, <1>6

\* What a trace has seen after a row.
LEMMA SeenAfterRow ==
    ASSUME IInv, NEW k \in Traces, next[k] < RowsOf(k)
    PROVE  /\ Seen(k, Cursor(k) + 4) = Seen(k, Cursor(k)) \cup Between(Cursor(k), Cursor(k) + 4)
           /\ Seen(k, Cursor(k)) \cap Between(Cursor(k), Cursor(k) + 4) = {}
           /\ \A j \in Traces : j # k => Seen(j, Cursor(j)) \cap Between(Cursor(k), Cursor(k) + 4) = {}
<1>1. /\ Start(k) \in Nat /\ Cursor(k) \in Nat /\ Start(k) <= Cursor(k)
      /\ Cursor(k) + 4 \in Nat /\ Cursor(k) + 4 <= Start(k) + 4 * TraceSize
  BY CursorIn, Sizes DEF IInv, SegmentOK
<1>2. \A n \in accessed : n \in Nat
  BY StepFacts DEF IInv
<1>3. /\ Seen(k, Cursor(k) + 4) = Seen(k, Cursor(k)) \cup Between(Cursor(k), Cursor(k) + 4)
      /\ Seen(k, Cursor(k)) \cap Between(Cursor(k), Cursor(k) + 4) = {}
  BY <1>1, <1>2 DEF Seen, Between
<1>4. ASSUME NEW j \in Traces, j # k
      PROVE  Seen(j, Cursor(j)) \cap Between(Cursor(k), Cursor(k) + 4) = {}
  <2>1. Seen(j, Cursor(j)) \cap Seen(k, Cursor(k) + 4) = {}
    BY <1>1, <1>4, CursorIn, SeenApart DEF IInv
  <2> QED
    BY <1>3, <2>1
<1> QED
  BY <1>3, <1>4

\* A row of step_slice_full_trace keeps the inductive invariant.
LEMMA FillRowIInv ==
    ASSUME IInv, NEW k, FillRow(k)
    PROVE  IInv'
<1>0. /\ k \in Traces /\ pc = "fill" /\ next[k] < RowsOf(k) /\ index = 1
      /\ UNCHANGED <<pc, segment, filled, accessed, large, regStep, index, lastStep>>
      /\ next' = [next EXCEPT ![k] = @ + 1]
      /\ \A j \in Traces : Cursor(j)' = IF j = k THEN Cursor(k) + 4 ELSE Cursor(j)
  BY FillRowWent DEF IInv, Progress
<1>1. PICK end : /\ Went(RowStart(k), end, k, Cursor(k), Cursor(k) + 4)
                 /\ regTrace' = [regTrace EXCEPT ![k] = end.trace]
                 /\ prevStep' = end.prev
  BY FillRowWent
<1> DEFINE row == Between(Cursor(k), Cursor(k) + 4)
<1>2. /\ SegmentOK' /\ Traces' = Traces /\ \A j : RowsOf(j)' = RowsOf(j) /\ Start(j)' = Start(j)
      /\ InitialStep' = InitialStep /\ FinalStep' = FinalStep
  BY <1>0, Frame DEF IInv
<1>3. /\ k \in TraceIds /\ k \in Nat /\ RowsOf(k) \in 1 .. TraceSize /\ next[k] \in 0 .. RowsOf(k)
      /\ TraceSize \in Nat
  BY <1>0, CursorIn, Sizes DEF IInv, SegmentOK
<1>4. Progress'
  <2>1. next' \in [TraceIds -> 0 .. TraceSize]
    BY <1>0, <1>3 DEF IInv, Progress
  <2>2. ASSUME NEW j \in Traces
        PROVE  next'[j] <= RowsOf(j)
    <3>1. j \in TraceIds /\ next[j] <= RowsOf(j)
      BY CursorIn DEF IInv, Progress
    <3>2. next'[j] = IF j = k THEN next[k] + 1 ELSE next[j]
      BY <1>0, <3>1 DEF IInv, Progress
    <3> QED
      BY <1>0, <1>3, <3>1, <3>2
  <2> QED
    BY <1>0, <1>2, <2>1, <2>2 DEF IInv, Progress
<1>5. \A j \in Traces : j # k => j \in TraceIds /\ regTrace'[j] = regTrace[j]
  BY <1>1, CursorIn DEF IInv, TracesTrue
<1>6. regTrace'[k] = end.trace
  BY <1>1, <1>3 DEF IInv, TracesTrue
<1>7. TracesTrue'
  <2>1. regTrace' \in [TraceIds -> [steps : Nat, firstUse : Nat \cup {None}]]
    BY <1>1, <1>3 DEF IInv, TracesTrue, Went
  <2>2. ASSUME NEW j \in Traces
        PROVE  TraceTrue(regTrace'[j], j, Cursor(j)')
    <3>1. CASE j = k
      BY <1>0, <1>1, <1>6, <3>1 DEF Went
    <3>2. CASE j # k
      BY <1>0, <1>5, <3>2 DEF IInv, TracesTrue
    <3> QED
      BY <3>1, <3>2
  <2>3. \A j \in Traces : TraceTrue(regTrace[j], j, Cursor(j))'
    <3>1. \A tr, j, b : TraceTrue(tr, j, b)' <=> TraceTrue(tr, j, b)
      BY <1>0, Frame
    <3> QED
      BY <2>2, <3>1
  <2> QED
    BY <1>2, <2>1, <2>3 DEF TracesTrue
<1>8. PrevTrue'
  <2>1. RowStart(k).prev = prevStep
    BY DEF RowStart
  <2>2. /\ DOMAIN prevStep' = DOMAIN prevStep \cup row
        /\ \A x \in DOMAIN prevStep : x \notin row => prevStep'[x] = prevStep[x]
    BY <1>1, <2>1 DEF Went
  <2>3. Seen(k, Cursor(k) + 4) = Seen(k, Cursor(k)) \cup row
    BY <1>0, SeenAfterRow
  <2>4. \A j \in Traces : Seen(j, Cursor(j))' = IF j = k THEN Seen(k, Cursor(k)) \cup row
                                                ELSE Seen(j, Cursor(j))
    <3>1. \A j, b : Seen(j, b)' = Seen(j, b)
      BY <1>0, Frame
    <3> QED
      BY <1>0, <2>3, <3>1
  <2>5. DOMAIN prevStep' = UNION {Seen(j, Cursor(j))' : j \in Traces}
    <3>1. DOMAIN prevStep = UNION {Seen(j, Cursor(j)) : j \in Traces}
      BY DEF IInv, PrevTrue
    <3> HIDE DEF row
    <3> QED
      BY <1>0, <2>2, <2>4, <3>1
  <2>6. ASSUME NEW j \in Traces, j # k, NEW m \in Seen(j, Cursor(j))
        PROVE  m \in DOMAIN prevStep /\ prevStep'[m] = prevStep[m] /\ m \in DOMAIN prevStep'
    <3>1. m \notin row
      BY <1>0, <2>6, SeenAfterRow
    <3>2. m \in DOMAIN prevStep
      BY DEF IInv, PrevTrue, RowsTrue
    <3> QED
      BY <2>2, <3>1, <3>2
  <2>7. ASSUME NEW j \in Traces
        PROVE  RowsTrue(prevStep', regTrace'[j], j, Cursor(j)')
    <3>1. CASE j = k
      BY <1>0, <1>1, <1>6, <3>1 DEF Went
    <3>2. CASE j # k
      <4>1. RowsTrue(prevStep, regTrace[j], j, Cursor(j))
        BY DEF IInv, PrevTrue
      <4> QED
        BY <1>0, <1>5, <2>6, <3>2, <4>1 DEF RowsTrue
    <3> QED
      BY <3>1, <3>2
  <2>8. ASSUME NEW j \in Traces, j < 1, NEW m \in Seen(j, Cursor(j)')
        PROVE  IsPrevious(prevStep'[m], m)
    <3>1. j = 0 /\ j \in Nat
      BY <2>8, CursorIn
    <3>2. TraceTrue(regTrace'[0], 0, Cursor(0)')
      <4>1. \A tr, i, b : TraceTrue(tr, i, b)' <=> TraceTrue(tr, i, b)
        BY <1>0, Frame
      <4> QED
        BY <1>2, <1>7, <3>1, <4>1 DEF TracesTrue
    <3>3. regTrace'[0].firstUse = InitialStep
      BY <3>2 DEF TraceTrue
    <3>4. m # InitialStep
      BY StepFacts DEF IInv, Seen
    <3> QED
      BY <2>7, <2>8, <3>1, <3>3, <3>4 DEF RowsTrue
  <2>9. /\ \A j \in Traces : RowsTrue(prevStep, regTrace[j], j, Cursor(j))'
        /\ \A j \in Traces : j < 1 => \A m \in Seen(j, Cursor(j))' : IsPrevious(prevStep[m], m)'
    <3>1. /\ \A j, b : Seen(j, b)' = Seen(j, b)
          /\ \A p, m : IsPrevious(p, m)' <=> IsPrevious(p, m)
          /\ \A prev, tr, i, b : RowsTrue(prev, tr, i, b)' <=> RowsTrue(prev, tr, i, b)
      BY <1>0, Frame
    <3> QED
      BY <2>7, <2>8, <3>1
  <2> QED
    BY <1>0, <1>2, <2>5, <2>9 DEF PrevTrue
<1>9. StepsTrue'
  <2>1. IsPrevious(regStep, Start(index - 1))
    BY <1>0 DEF IInv, StepsTrue
  <2>2. IsPrevious(regStep, Start(index - 1))'
    <3>1. /\ \A j : Start(j)' = Start(j)
          /\ \A p, m : IsPrevious(p, m)' <=> IsPrevious(p, m)
      BY <1>0, Frame
    <3> QED
      BY <1>0, <2>1, <3>1
  <2> QED
    BY <1>0, <2>2 DEF StepsTrue
<1> QED
  BY <1>2, <1>4, <1>7, <1>8, <1>9 DEF IInv

\* When the traces have ended, those up to j hold every access before trace j + 1.
LEMMA UpToTrace ==
    ASSUME IInv, pc # "fill", NEW j \in Traces, NEW n \in accessed,
           n < Start(j + 1) \/ j + 1 \notin Traces
    PROVE  n < Cursor(j)
<1>1. PICK k \in Traces : Start(k) <= n /\ n < Start(k) + 4 * RowsOf(k)
  BY AccessedIn DEF IInv
<1>2. /\ j \in Nat /\ k \in Nat /\ j + 1 \in Nat /\ segment \in Nat /\ TraceSize \in Nat
      /\ n \in Nat /\ Start(k) \in Nat /\ Start(j) \in Nat /\ Start(j + 1) \in Nat
      /\ RowsOf(k) \in 1 .. TraceSize
      /\ Start(j) <= Cursor(j) /\ Cursor(j) \in Nat
  BY CursorIn, StepFacts, Sizes DEF IInv
<1>3. k <= j
  <2>1. CASE j + 1 \notin Traces
    <3>1. j + 1 <= k => (j + 1) * TraceSize <= k * TraceSize
      BY <1>2, TimesMonotonic
    <3>2. (j + 1) * TraceSize \in Nat /\ k * TraceSize \in Nat /\ filled \in Nat
      BY <1>2, TimesStep, Sizes DEF IInv, SegmentOK
    <3>3. k * TraceSize < filled /\ ~((j + 1) * TraceSize < filled)
      BY <1>2, <2>1, TracesIff DEF IInv
    <3> QED
      BY <1>2, <3>1, <3>2, <3>3
  <2>2. CASE n < Start(j + 1)
    <3>1. j + 1 < k => Start(j + 1) + 4 * TraceSize <= Start(k)
      BY <1>2, Starts
    <3> QED
      BY <1>1, <1>2, <2>2, <3>1
  <2> QED
    BY <2>1, <2>2
<1>4. CASE k = j
  BY <1>1, <1>2, <1>4, CursorIn DEF IInv, Progress
<1>5. CASE k < j
  <2>1. Start(k) + 4 * TraceSize <= Start(j)
    BY <1>2, <1>5, Starts
  <2> QED
    BY <1>1, <1>2, <2>1
<1> QED
  BY <1>2, <1>3, <1>4, <1>5

\* LastUse(j) is the last access before m when m comes after trace j.
LEMMA LastUsePrevious ==
    ASSUME IInv, NEW j \in Traces, IsPrevious(regStep, Start(j)),
           NEW m \in Nat, Start(j) <= m, \A n \in accessed : n < m <=> n < Cursor(j)
    PROVE  IsPrevious(LastUse(j), m)
<1>1. /\ j \in Nat /\ InitialStep \in Nat /\ Start(j) \in Nat /\ Cursor(j) \in Nat
      /\ Start(j) <= Cursor(j) /\ Start(0) = InitialStep + 1
      /\ \A n \in accessed : n \in Nat /\ InitialStep < n
  BY StepFacts, CursorIn DEF IInv
<1>2. TraceTrue(regTrace[j], j, Cursor(j))
  BY DEF IInv, TracesTrue
<1>3. regStep \in Nat
  BY <1>1 DEF IsPrevious
<1>4. CASE Seen(j, Cursor(j)) = {}
  <2>1. LastUse(j) = regStep
    <3>1. CASE j = 0
      <4>1. regStep = InitialStep
        <5>1. regStep \in accessed \cup {InitialStep} /\ regStep < InitialStep + 1
          BY <1>1, <3>1 DEF IsPrevious
        <5> QED
          BY <1>1, <5>1
      <4> QED
        BY <1>2, <1>4, <3>1, <4>1 DEF LastUse, TraceTrue
    <3>2. CASE j # 0
      BY <1>2, <1>4, <3>2 DEF LastUse, TraceTrue
    <3> QED
      BY <3>1, <3>2
  <2>2. \A n \in accessed : n < m => n < Start(j)
    BY <1>1, <1>4 DEF Seen
  <2>3. regStep < m
    BY <1>1, <1>3 DEF IsPrevious
  <2> QED
    BY <2>1, <2>2, <2>3 DEF IsPrevious
<1>5. CASE Seen(j, Cursor(j)) # {}
  <2>1. regTrace[j].steps \in Seen(j, Cursor(j)) /\ \A n \in Seen(j, Cursor(j)) : n <= regTrace[j].steps
    BY <1>2, <1>5 DEF TraceTrue
  <2>2. LastUse(j) = regTrace[j].steps
    BY <1>1, <2>1 DEF LastUse, Seen
  <2>3. ASSUME NEW n \in accessed, n < m
        PROVE  n <= regTrace[j].steps
    <3>1. n < Cursor(j)
      BY <2>3
    <3> QED
      BY <1>1, <2>1, <3>1 DEF Seen
  <2>4. regTrace[j].steps \in accessed /\ regTrace[j].steps < m
    BY <1>1, <2>1 DEF Seen
  <2> QED
    BY <2>2, <2>3, <2>4 DEF IsPrevious
<1> QED
  BY <1>4, <1>5

\* What the completion of a trace does to its first access.
LEMMA CompleteFacts ==
    ASSUME IInv, CompleteTrace
    PROVE  /\ pc = "complete" /\ index \in Traces /\ index # 0
           /\ UNCHANGED <<pc, segment, filled, accessed, next, regTrace, lastStep>>
           /\ index' = index + 1 /\ regStep' = LastUse(index - 1)
           /\ IsPrevious(LastUse(index - 1), Start(index))
           /\ regTrace[index].firstUse = None =>
                    Seen(index, Cursor(index)) = {} /\ UNCHANGED <<prevStep, checks, large>>
           /\ regTrace[index].firstUse # None =>
                /\ regTrace[index].firstUse \in Seen(index, Cursor(index))
                /\ IsPrevious(LastUse(index - 1), regTrace[index].firstUse)
                /\ prevStep' = [prevStep EXCEPT ![regTrace[index].firstUse] = LastUse(index - 1)]
                /\ checks' = Counted(checks, regTrace[index].firstUse - LastUse(index - 1))
                /\ large' = IF regTrace[index].firstUse - LastUse(index - 1) > MaxRange
                            THEN Append(large, regTrace[index].firstUse - LastUse(index - 1))
                            ELSE large
<1>1. /\ pc = "complete" /\ index \in Traces /\ index \in Nat /\ index # 0
      /\ index - 1 \in Traces /\ (index - 1) + 1 = index
      /\ UNCHANGED <<pc, segment, filled, accessed, next, regTrace, lastStep>>
      /\ index' = index + 1 /\ regStep' = LastUse(index - 1)
  BY DEF CompleteTrace, IInv, Progress
<1>2. /\ Start(index) \in Nat /\ Cursor(index - 1) \in Nat /\ Cursor(index - 1) <= Start(index)
      /\ \A n \in accessed : n \in Nat /\ InitialStep < n
      /\ InitialStep \in Nat
  <2>1. /\ index - 1 \in Nat /\ segment \in Nat /\ TraceSize \in Nat /\ Start(index) \in Nat
        /\ Cursor(index - 1) \in Nat /\ Start(index - 1) \in Nat
        /\ Cursor(index - 1) <= Start(index - 1) + 4 * TraceSize
        /\ InitialStep \in Nat
        /\ \A n \in accessed : n \in Nat /\ InitialStep < n
    BY <1>1, CursorIn, StepFacts, Sizes DEF IInv
  <2>2. Start(index) = Start(index - 1) + 4 * TraceSize
    BY <1>1, <2>1, Starts
  <2> QED
    BY <2>1, <2>2
<1>3. IsPrevious(LastUse(index - 1), Start(index))
  <2>1. \A n \in accessed : n < Start(index) => n < Cursor(index - 1)
    BY <1>1, UpToTrace
  <2>2. IsPrevious(regStep, Start(index - 1))
    BY <1>1 DEF IInv, StepsTrue
  <2>3. \A n \in accessed : n < Start(index) <=> n < Cursor(index - 1)
    BY <1>2, <2>1
  <2>4. Start(index - 1) <= Start(index)
    BY <1>1, <1>2, CursorIn
  <2> QED
    BY <1>1, <1>2, <2>2, <2>3, <2>4, LastUsePrevious
<1>4. TraceTrue(regTrace[index], index, Cursor(index))
  BY <1>1 DEF IInv, TracesTrue
<1>5. CASE regTrace[index].firstUse = None
  <2>1. Seen(index, Cursor(index)) = {}
    BY <1>1, <1>4, <1>5, CursorIn, FirstUseNone DEF IInv
  <2>2. UNCHANGED <<prevStep, checks, large>>
    BY <1>5 DEF CompleteTrace
  <2> QED
    BY <1>1, <1>3, <1>5, <2>1, <2>2
<1>6. CASE regTrace[index].firstUse # None
  <2> DEFINE m == regTrace[index].firstUse
  <2>1. m \in Seen(index, Cursor(index)) /\ \A n \in Seen(index, Cursor(index)) : m <= n
    BY <1>1, <1>4, <1>6 DEF TraceTrue
  <2>2. /\ prevStep' = [prevStep EXCEPT ![m] = LastUse(index - 1)]
        /\ checks' = Counted(checks, m - LastUse(index - 1))
        /\ large' = IF m - LastUse(index - 1) > MaxRange
                    THEN Append(large, m - LastUse(index - 1)) ELSE large
    BY <1>6 DEF CompleteTrace
  <2> HIDE DEF m
  <2>3. Cursor(index) \in Nat
    BY <1>1, CursorIn
  <2>4. m \in accessed /\ Start(index) <= m /\ m < Cursor(index) /\ m \in Nat
    BY <1>2, <2>1 DEF Seen
  <2>5. LastUse(index - 1) \in Nat /\ LastUse(index - 1) < Start(index)
    BY <1>2, <1>3 DEF IsPrevious
  <2>6. ASSUME NEW n \in accessed, n < m
        PROVE  n <= LastUse(index - 1)
    <3>1. n \notin Seen(index, Cursor(index))
      BY <1>2, <2>1, <2>4, <2>6
    <3>2. n < Start(index)
      BY <1>2, <2>3, <2>4, <2>6, <3>1 DEF Seen
    <3> QED
      BY <1>3, <3>2 DEF IsPrevious
  <2>7. IsPrevious(LastUse(index - 1), m)
    BY <1>2, <1>3, <2>4, <2>5, <2>6 DEF IsPrevious
  <2> QED
    BY <1>1, <1>3, <1>6, <2>1, <2>2, <2>7 DEF m
<1> QED
  BY <1>5, <1>6

\* The completion of a trace keeps the inductive invariant.
LEMMA CompleteTraceIInv ==
    ASSUME IInv, CompleteTrace
    PROVE  IInv'
<1>0. /\ pc = "complete" /\ index \in Traces /\ index # 0 /\ index \in Nat
      /\ UNCHANGED <<pc, segment, filled, accessed, next, regTrace, lastStep>>
      /\ index' = index + 1 /\ regStep' = LastUse(index - 1)
      /\ IsPrevious(LastUse(index - 1), Start(index))
      /\ index' - 1 = index
  BY CompleteFacts DEF IInv, Progress
<1>1. /\ SegmentOK' /\ Traces' = Traces /\ \A j : RowsOf(j)' = RowsOf(j) /\ Start(j)' = Start(j)
      /\ \A k, b : Seen(k, b)' = Seen(k, b)
      /\ \A p, m : IsPrevious(p, m)' <=> IsPrevious(p, m)
      /\ \A tr, k, b : TraceTrue(tr, k, b)' <=> TraceTrue(tr, k, b)
      /\ \A prev, tr, k, b : RowsTrue(prev, tr, k, b)' <=> RowsTrue(prev, tr, k, b)
  BY <1>0, Frame DEF IInv
<1>2. \A j : Cursor(j)' = Cursor(j)
  BY <1>0, <1>1 DEF Cursor
<1>3. Progress'
  BY <1>0, <1>1 DEF IInv, Progress
<1>4. TracesTrue'
  BY <1>0, <1>1, <1>2 DEF IInv, TracesTrue
<1>5. PrevTrue'
  <2>1. /\ DOMAIN prevStep = UNION {Seen(k, Cursor(k)) : k \in Traces}
        /\ \A k \in Traces : RowsTrue(prevStep, regTrace[k], k, Cursor(k))
        /\ \A k \in Traces : k < index => \A m \in Seen(k, Cursor(k)) : IsPrevious(prevStep[m], m)
    BY DEF IInv, PrevTrue
  <2>2. DOMAIN prevStep' = DOMAIN prevStep
    BY CompleteFacts
  <2>3. ASSUME NEW k \in Traces, NEW m \in Seen(k, Cursor(k)), k # index \/ m # regTrace[k].firstUse
        PROVE  prevStep'[m] = prevStep[m]
    <3>1. CASE regTrace[index].firstUse = None
      BY <3>1, CompleteFacts
    <3>2. CASE regTrace[index].firstUse # None
      <4>1. regTrace[index].firstUse \in Seen(index, Cursor(index))
        BY <3>2, CompleteFacts
      <4>2. k # index => Seen(k, Cursor(k)) \cap Seen(index, Cursor(index)) = {}
        BY <1>0, CursorIn, SeenApart DEF IInv
      <4>3. m # regTrace[index].firstUse
        BY <2>3, <4>1, <4>2
      <4>4. prevStep' = [prevStep EXCEPT ![regTrace[index].firstUse] = LastUse(index - 1)]
        BY <3>2, CompleteFacts
      <4>5. m \in DOMAIN prevStep
        BY <2>1 DEF RowsTrue
      <4> QED
        BY <4>3, <4>4, <4>5
    <3> QED
      BY <3>1, <3>2
  <2>4. ASSUME NEW k \in Traces
        PROVE  RowsTrue(prevStep', regTrace[k], k, Cursor(k))
    <3>1. RowsTrue(prevStep, regTrace[k], k, Cursor(k))
      BY <2>1
    <3> QED
      BY <2>2, <2>3, <3>1 DEF RowsTrue
  <2>5. ASSUME NEW k \in Traces, k < index + 1, NEW m \in Seen(k, Cursor(k))
        PROVE  IsPrevious(prevStep'[m], m)
    <3>1. CASE m # regTrace[k].firstUse
      BY <2>4, <3>1 DEF RowsTrue
    <3>2. CASE m = regTrace[k].firstUse /\ k # index
      <4>1. k < index
        BY <1>0, <2>5, <3>2, CursorIn
      <4> QED
        BY <2>1, <2>3, <3>2, <4>1
    <3>3. CASE m = regTrace[k].firstUse /\ k = index
      <4>1. regTrace[index].firstUse # None
        BY <2>5, <3>3, CompleteFacts
      <4>2. prevStep' = [prevStep EXCEPT ![m] = LastUse(index - 1)] /\ IsPrevious(LastUse(index - 1), m)
        BY <3>3, <4>1, CompleteFacts
      <4>3. m \in DOMAIN prevStep
        BY <2>1 DEF RowsTrue
      <4> QED
        BY <4>2, <4>3
    <3> QED
      BY <3>1, <3>2, <3>3
  <2>6. DOMAIN prevStep' = (UNION {Seen(k, Cursor(k)) : k \in Traces})'
    BY <1>1, <1>2, <2>1, <2>2
  <2>7. \A k \in Traces' : RowsTrue(prevStep, regTrace[k], k, Cursor(k))'
    BY <1>0, <1>1, <1>2, <2>4
  <2>8. \A k \in Traces' : k < index' => \A m \in Seen(k, Cursor(k))' : IsPrevious(prevStep[m], m)'
    BY <1>0, <1>1, <1>2, <2>5
  <2> QED
    BY <2>6, <2>7, <2>8 DEF PrevTrue
<1>6. StepsTrue'
  <2>1. IsPrevious(regStep, Start(index - 1))'
    BY <1>0, <1>1
  <2> QED
    BY <1>0, <2>1 DEF StepsTrue
<1> QED
  BY <1>1, <1>3, <1>4, <1>5, <1>6 DEF IInv

\* The end of the replay keeps the inductive invariant.
LEMMA FillEndIInv ==
    ASSUME IInv, FillEnd
    PROVE  IInv'
<1>0. /\ pc = "fill" /\ pc' = "complete" /\ \A k \in Traces : next[k] = RowsOf(k)
      /\ UNCHANGED <<segment, filled, accessed, next, regTrace, prevStep, regStep, index, lastStep>>
  BY DEF FillEnd
<1>1. /\ SegmentOK' /\ Traces' = Traces /\ \A j : RowsOf(j)' = RowsOf(j) /\ Start(j)' = Start(j)
      /\ \A k, b : Seen(k, b)' = Seen(k, b)
      /\ \A p, m : IsPrevious(p, m)' <=> IsPrevious(p, m)
      /\ \A tr, k, b : TraceTrue(tr, k, b)' <=> TraceTrue(tr, k, b)
      /\ \A prev, tr, k, b : RowsTrue(prev, tr, k, b)' <=> RowsTrue(prev, tr, k, b)
  BY <1>0, Frame DEF IInv
<1>2. \A j : Cursor(j)' = Cursor(j)
  BY <1>0, <1>1 DEF Cursor
<1>3. Progress'
  BY <1>0, <1>1 DEF IInv, Progress
<1>4. TracesTrue'
  BY <1>0, <1>1, <1>2 DEF IInv, TracesTrue
<1>5. PrevTrue'
  BY <1>0, <1>1, <1>2 DEF IInv, PrevTrue
<1>6. StepsTrue'
  BY <1>0, <1>1 DEF IInv, StepsTrue
<1> QED
  BY <1>1, <1>3, <1>4, <1>5, <1>6 DEF IInv

\* When the last trace is looked at, regStep becomes the last access of the segment.
LEMMA LastChunkPrevious ==
    ASSUME IInv, LastChunk
    PROVE  IsPrevious(LastUse(index - 1), FinalStep)
<1>1. pc = "complete" /\ index - 1 \in Traces /\ (index - 1) + 1 = index /\ index \notin Traces
  BY DEF LastChunk, IInv, Progress
<1>2. \A n \in accessed : n < Cursor(index - 1)
  BY <1>1, UpToTrace
<1>3. Start(index - 1) <= FinalStep /\ FinalStep \in Nat
  <2>1. PICK k \in Nat : k = index - 1
    BY <1>1, CursorIn
  <2>2. /\ segment \in Nat /\ filled \in Nat /\ filled <= NumRows /\ NumRows \in Nat /\ FirstRow \in Nat
        /\ FinalStep = 4 * (FirstRow + NumRows) /\ TraceSize \in Nat
    BY Sizes DEF IInv, SegmentOK
  <2>3. Start(k) = 4 * FirstRow + 1 + 4 * (k * TraceSize)
    BY <2>2, Starts
  <2>4. k * TraceSize < filled /\ k * TraceSize \in Nat
    BY <1>1, <2>1, <2>2, TracesIff, TimesStep DEF IInv
  <2> QED
    BY <2>1, <2>2, <2>3, <2>4
<1>4. \A n \in accessed : n < FinalStep
  BY StepFacts DEF IInv
<1>5. IsPrevious(regStep, Start(index - 1))
  BY <1>1 DEF IInv, StepsTrue
<1> QED
  BY <1>1, <1>2, <1>3, <1>4, <1>5, LastUsePrevious

\* update_reg_steps_with_last_chunk keeps the inductive invariant.
LEMMA LastChunkIInv ==
    ASSUME IInv, LastChunk
    PROVE  IInv'
<1>0. /\ pc = "complete" /\ pc' = "air" /\ index \notin Traces /\ regStep' = LastUse(index - 1)
      /\ UNCHANGED <<segment, filled, accessed, next, regTrace, prevStep, index, lastStep>>
  BY DEF LastChunk
<1>1. /\ SegmentOK' /\ Traces' = Traces /\ \A j : RowsOf(j)' = RowsOf(j) /\ Start(j)' = Start(j)
      /\ \A k, b : Seen(k, b)' = Seen(k, b) /\ FinalStep' = FinalStep
      /\ \A p, m : IsPrevious(p, m)' <=> IsPrevious(p, m)
      /\ \A tr, k, b : TraceTrue(tr, k, b)' <=> TraceTrue(tr, k, b)
      /\ \A prev, tr, k, b : RowsTrue(prev, tr, k, b)' <=> RowsTrue(prev, tr, k, b)
  BY <1>0, Frame DEF IInv
<1>2. \A j : Cursor(j)' = Cursor(j)
  BY <1>0, <1>1 DEF Cursor
<1>3. Progress'
  BY <1>0, <1>1 DEF IInv, Progress
<1>4. TracesTrue'
  BY <1>0, <1>1, <1>2 DEF IInv, TracesTrue
<1>5. PrevTrue'
  BY <1>0, <1>1, <1>2 DEF IInv, PrevTrue
<1>6. StepsTrue'
  <2>1. IsPrevious(regStep, FinalStep)'
    BY <1>0, <1>1, LastChunkPrevious
  <2> QED
    BY <1>0, <2>1 DEF StepsTrue
<1> QED
  BY <1>1, <1>3, <1>4, <1>5, <1>6 DEF IInv

\* update_reg_airvalues keeps the inductive invariant.
LEMMA AirValuesIInv ==
    ASSUME IInv, AirValues
    PROVE  IInv'
<1>0. /\ pc = "air" /\ pc' = "done" /\ lastStep' = regStep
      /\ UNCHANGED <<segment, filled, accessed, next, regTrace, prevStep, regStep, index>>
  BY DEF AirValues
<1>1. /\ SegmentOK' /\ Traces' = Traces /\ \A j : RowsOf(j)' = RowsOf(j) /\ Start(j)' = Start(j)
      /\ \A k, b : Seen(k, b)' = Seen(k, b) /\ FinalStep' = FinalStep
      /\ \A p, m : IsPrevious(p, m)' <=> IsPrevious(p, m)
      /\ \A tr, k, b : TraceTrue(tr, k, b)' <=> TraceTrue(tr, k, b)
      /\ \A prev, tr, k, b : RowsTrue(prev, tr, k, b)' <=> RowsTrue(prev, tr, k, b)
  BY <1>0, Frame DEF IInv
<1>2. \A j : Cursor(j)' = Cursor(j)
  BY <1>0, <1>1 DEF Cursor
<1>3. Progress'
  BY <1>0, <1>1 DEF IInv, Progress
<1>4. TracesTrue'
  BY <1>0, <1>1, <1>2 DEF IInv, TracesTrue
<1>5. PrevTrue'
  BY <1>0, <1>1, <1>2 DEF IInv, PrevTrue
<1>6. StepsTrue'
  BY <1>0, <1>1 DEF IInv, StepsTrue
<1> QED
  BY <1>1, <1>3, <1>4, <1>5, <1>6 DEF IInv

\* Every step keeps the inductive invariant.
LEMMA NextIInv ==
    ASSUME IInv, [Next]_vars
    PROVE  IInv'
<1>1. CASE \E k \in 0 .. NumWithin - 1 : FillRow(k)
  BY <1>1, FillRowIInv
<1>2. CASE FillEnd
  BY <1>2, FillEndIInv
<1>3. CASE CompleteTrace
  BY <1>3, CompleteTraceIInv
<1>4. CASE LastChunk
  BY <1>4, LastChunkIInv
<1>5. CASE AirValues
  BY <1>5, AirValuesIInv
<1>6. CASE UNCHANGED vars
  BY <1>6, StutterIInv
<1> QED
  BY <1>1, <1>2, <1>3, <1>4, <1>5, <1>6 DEF Next, Terminated

\* The inductive invariant: the traces of a segment know their own accesses, the rows
\* filled tell the truth but for the first accesses that the completion still owes, and
\* reg_steps holds the last access before the trace that it completes next.
THEOREM Invariance == Spec => []IInv
<1>1. Init => IInv
  BY InitIInv
<1>2. IInv /\ [Next]_vars => IInv'
  BY NextIInv
<1> QED
  BY <1>1, <1>2, PTL DEF Spec

-----------------------------------------------------------------------------
(* What it says of the rows and of the range checks. *)

\* IsPrevious describes what Previous computes.
LEMMA PreviousIs ==
    ASSUME SegmentOK, NEW p, NEW m \in Nat, IsPrevious(p, m), InitialStep < m
    PROVE  Previous(m) = p
<1>0. InitialStep \in Nat /\ \A n \in accessed : n \in Nat /\ InitialStep < n
  BY StepFacts
<1> DEFINE S == {InitialStep} \cup {n \in accessed : n < m}
<1>1. p \in S /\ \A y \in S : p >= y
  BY <1>0 DEF IsPrevious
<1>2. \A x \in S : (\A y \in S : x >= y) => x = p
  BY <1>0, <1>1
<1>3. Max(S) = p
  BY <1>1, <1>2 DEF Max
<1> QED
  BY <1>3 DEF Previous

\* When the traces have ended they have seen every access.
LEMMA AllSeen ==
    ASSUME IInv, pc # "fill"
    PROVE  DOMAIN prevStep = accessed
<1>1. DOMAIN prevStep = UNION {Seen(k, Cursor(k)) : k \in Traces}
  BY DEF IInv, PrevTrue
<1>2. ASSUME NEW m \in accessed
      PROVE  \E k \in Traces : m \in Seen(k, Cursor(k))
  <2>1. PICK k \in Traces : Start(k) <= m /\ m < Start(k) + 4 * RowsOf(k)
    BY AccessedIn DEF IInv
  <2>2. Cursor(k) = Start(k) + 4 * RowsOf(k)
    BY CursorIn DEF IInv, Progress
  <2> QED
    BY <2>1, <2>2 DEF Seen
<1> QED
  BY <1>1, <1>2 DEF Seen

\* When every trace is completed, an access tells the one before it and is counted.
LEMMA DoneTrue ==
    ASSUME IInv, pc = "done"
    PROVE  Checked = accessed /\ \A k \in Traces : k < index
<1>1. ASSUME NEW k \in Traces
      PROVE  k < index
  <2>1. SegmentOK /\ k \in Nat /\ index \in Nat /\ index \notin Traces
    BY CursorIn DEF IInv, Progress
  <2>2. k * TraceSize < filled /\ ~(index * TraceSize < filled)
    BY <2>1, TracesIff
  <2>3. TraceSize \in Nat /\ filled \in Nat
    BY <2>1, Sizes DEF SegmentOK
  <2>4. index <= k => index * TraceSize <= k * TraceSize
    BY <2>1, <2>3, TimesMonotonic
  <2>5. index * TraceSize \in Nat /\ k * TraceSize \in Nat
    BY <2>1, <2>3, TimesStep
  <2> QED
    BY <2>1, <2>2, <2>3, <2>4, <2>5
<1>2. DOMAIN prevStep = accessed
  BY AllSeen
<1> QED
  BY <1>1, <1>2 DEF Checked

\* With the segment done every row tells the access right before its own, whichever
\* trace that one is in (EmuRegTrace and complete_trace_with_initial_reg_steps_per_chunk).
THEOREM RowsTellPrevious == Spec => []PreviousTrue
<1>1. IInv => PreviousTrue
  <2> SUFFICES ASSUME IInv, pc = "done"
               PROVE  /\ DOMAIN prevStep = accessed
                      /\ \A m \in accessed : prevStep[m] = Previous(m)
                      /\ lastStep = Previous(FinalStep)
    BY DEF PreviousTrue
  <2>0. SegmentOK /\ InitialStep \in Nat /\ FinalStep \in Nat
        /\ \A n \in accessed : n \in Nat /\ InitialStep < n /\ n < FinalStep
    BY StepFacts DEF IInv
  <2>1. DOMAIN prevStep = accessed
    BY AllSeen
  <2>2. ASSUME NEW m \in accessed
        PROVE  prevStep[m] = Previous(m)
    <3>1. PICK k \in Traces : m \in Seen(k, Cursor(k))
      BY <2>1 DEF IInv, PrevTrue
    <3>2. k < index
      BY DoneTrue
    <3>3. IsPrevious(prevStep[m], m)
      BY <3>1, <3>2 DEF IInv, PrevTrue
    <3> QED
      BY <2>0, <3>3, PreviousIs
  <2>3. lastStep = Previous(FinalStep)
    <3>1. IsPrevious(lastStep, FinalStep)
      BY DEF IInv, StepsTrue
    <3>2. InitialStep < FinalStep
      BY <2>0, Sizes DEF SegmentOK
    <3> QED
      BY <2>0, <3>1, <3>2, PreviousIs
  <2> QED
    BY <2>1, <2>2, <2>3
<1> QED
  BY <1>1, Invariance, PTL

\* An access that is not the first one of its trace is close to the one before it.
LEMMA RangeInside ==
    ASSUME SegmentOK, NEW tr, NEW k \in Nat, NEW b \in Nat, b <= Start(k) + 4 * TraceSize,
           TraceTrue(tr, k, b), NEW m \in Seen(k, b), m # tr.firstUse,
           NEW p, IsPrevious(p, m)
    PROVE  m - p \in 1 .. MaxRange
<1>0. /\ TraceSize \in Nat /\ MaxRange = 4 * TraceSize
      /\ Start(k) \in Nat /\ InitialStep \in Nat /\ Start(0) = InitialStep + 1
      /\ \A n \in accessed : n \in Nat /\ InitialStep < n
  BY StepFacts, Sizes DEF MaxRange, StepsByMainStep
<1>1. m \in accessed /\ m \in Nat /\ Start(k) <= m /\ m < b
  BY <1>0 DEF Seen
<1>2. p \in Nat /\ p < m
  BY <1>0 DEF IsPrevious
<1>3. CASE k = 0
  BY <1>0, <1>1, <1>2, <1>3 DEF IsPrevious
<1>4. CASE k # 0
  <2>1. tr.firstUse \in Seen(k, b) /\ tr.firstUse <= m
    BY <1>4 DEF TraceTrue
  <2>2. tr.firstUse \in accessed /\ Start(k) <= tr.firstUse /\ tr.firstUse \in Nat
    BY <1>0, <2>1 DEF Seen
  <2>3. tr.firstUse < m
    BY <1>1, <2>1, <2>2
  <2>4. tr.firstUse <= p
    BY <2>2, <2>3 DEF IsPrevious
  <2> QED
    BY <1>0, <1>1, <1>2, <2>2, <2>4
<1> QED
  BY <1>3, <1>4

\* step_range_check is long enough for every range that a trace counts, also for the
\* first trace, which starts from the end of the segment before (the assertion of
\* update_step_range_check).
THEOREM RangesAlwaysFit == Spec => []RangesFit
<1>1. IInv => RangesFit
  <2> SUFFICES ASSUME IInv, NEW k \in Traces, next[k] < RowsOf(k), regTrace[k].firstUse # None,
                      NEW m \in accessed, StepOf(m) = FirstRow + k * TraceSize + next[k]
               PROVE  m - regTrace[k].steps \in 1 .. MaxRange
    BY DEF RangesFit
  <2>0. /\ SegmentOK /\ segment \in Nat /\ FirstRow \in Nat /\ TraceSize \in Nat /\ filled \in Nat
        /\ MaxRange = 4 * TraceSize
    BY Sizes DEF IInv, SegmentOK, MaxRange, StepsByMainStep
  <2>1. /\ k \in Nat /\ Cursor(k) \in Nat /\ Start(k) \in Nat /\ Start(k) <= Cursor(k)
        /\ RowsOf(k) \in 1 .. TraceSize /\ next[k] \in 0 .. RowsOf(k)
        /\ Cursor(k) = Start(k) + 4 * next[k]
    BY CursorIn
  <2>2. Cursor(k) <= m /\ m < Cursor(k) + 4 /\ m \in Nat
    <3>1. PICK r \in 0 .. filled - 1, s \in 0 .. 2 : m = 1 + 4 * (FirstRow + r) + s
      BY <2>0 DEF SegmentOK, MemStep, StepsByMainStep
    <3>2. r \in Nat
      BY <2>0
    <3>3. StepOf(m) = FirstRow + r
      BY <2>0, <3>1, <3>2 DEF StepOf, StepsByMainStep
    <3>4. Start(k) = 4 * FirstRow + 1 + 4 * (k * TraceSize) /\ k * TraceSize \in Nat
      BY <2>0, <2>1, Starts, TimesStep
    <3> QED
      BY <2>0, <2>1, <3>1, <3>2, <3>3, <3>4
  <2>3. TraceTrue(regTrace[k], k, Cursor(k))
    BY DEF IInv, TracesTrue
  <2>4. /\ regTrace[k].steps \in Nat /\ Start(k) <= regTrace[k].steps + 1
        /\ regTrace[k].steps < Cursor(k)
    <3>1. CASE Seen(k, Cursor(k)) = {}
      <4>1. k = 0 /\ regTrace[k].steps = InitialStep
        BY <2>0, <2>1, <2>3, <3>1, FirstUseNone DEF TraceTrue
      <4> QED
        BY <2>0, <2>1, <4>1, StepFacts
    <3>2. CASE Seen(k, Cursor(k)) # {}
      <4>1. regTrace[k].steps \in Seen(k, Cursor(k))
        BY <2>3, <3>2 DEF TraceTrue
      <4> QED
        BY <2>0, <2>1, <4>1, StepFacts DEF Seen
    <3> QED
      BY <3>1, <3>2
  <2> QED
    BY <2>0, <2>1, <2>2, <2>4
<1> QED
  BY <1>1, Invariance, PTL

-----------------------------------------------------------------------------
(* Every range is counted once. *)

Tally(v) == IF v \in 1 .. MaxRange THEN checks[v] ELSE Cardinality(LargeAt(v))

\* A segment has finitely many accesses.
LEMMA FiniteAccesses ==
    ASSUME IInv
    PROVE  IsFiniteSet(accessed) /\ \A S \in SUBSET accessed : IsFiniteSet(S) /\ Cardinality(S) \in Nat
<1>1. FinalStep \in Nat /\ accessed \subseteq Nat /\ \A n \in accessed : n <= FinalStep
  BY StepFacts DEF IInv
<1>2. IsFiniteSet(accessed)
  BY <1>1, FS_BoundedSetOfNaturals
<1>3. ASSUME NEW S \in SUBSET accessed
      PROVE  IsFiniteSet(S) /\ Cardinality(S) \in Nat
  BY <1>2, FS_Subset, FS_CardinalityType
<1> QED
  BY <1>2, <1>3

\* Disjoint sets: the numbers of elements add up.
LEMMA DisjointUnion ==
    ASSUME NEW S, NEW T, NEW U, IsFiniteSet(S), IsFiniteSet(T), S \cap T = {}, U = S \cup T
    PROVE  Cardinality(U) = Cardinality(S) + Cardinality(T)
<1>1. Cardinality(S) \in Nat /\ Cardinality(T) \in Nat
  BY FS_CardinalityType
<1>2. Cardinality(S \cup T) = Cardinality(S) + Cardinality(T) - Cardinality(S \cap T)
  BY FS_Union
<1>3. Cardinality(S \cap T) = 0
  BY FS_EmptySet, Zenon
<1>4. Cardinality(U) = Cardinality(S \cup T)
  BY Zenon
<1> QED
  BY <1>1, <1>2, <1>3, <1>4

\* large_range_checks holds a range finitely often.
LEMMA FiniteLarge ==
    ASSUME large \in Seq(Nat), NEW v
    PROVE  IsFiniteSet(LargeAt(v)) /\ Cardinality(LargeAt(v)) \in Nat
<1>1. Len(large) \in Nat
  OBVIOUS
<1>2. IsFiniteSet(1 .. Len(large))
  BY <1>1, FS_Interval
<1>3. LargeAt(v) \in SUBSET (1 .. Len(large))
  BY DEF LargeAt
<1> QED
  BY <1>2, <1>3, FS_Subset, FS_CardinalityType

\* A range that is counted, or kept apart, is counted once more and no other one is.
LEMMA CountedOnce ==
    ASSUME ChecksTrue, NEW range \in Nat \ {0}, MaxRange \in Nat,
           checks' = Counted(checks, range),
           large' = IF range > MaxRange THEN Append(large, range) ELSE large
    PROVE  /\ checks' \in [1 .. MaxRange -> Nat]
           /\ large' \in Seq(Nat) /\ \A i \in 1 .. Len(large') : large'[i] > MaxRange
           /\ \A v \in Nat \ {0} : Tally(v)' = Tally(v) + (IF v = range THEN 1 ELSE 0)
<1>0. /\ checks \in [1 .. MaxRange -> Nat] /\ large \in Seq(Nat)
      /\ \A i \in 1 .. Len(large) : large[i] > MaxRange
  BY DEF ChecksTrue
<1>1. CASE range <= MaxRange
  <2>1. range \in 1 .. MaxRange /\ ~(range > MaxRange)
    BY <1>1
  <2>2. checks' = [checks EXCEPT ![range] = @ + 1] /\ large' = large
    BY <1>0, <2>1 DEF Counted
  <2>3. \A v : LargeAt(v)' = LargeAt(v)
    BY <2>2 DEF LargeAt
  <2>4. checks' \in [1 .. MaxRange -> Nat]
    BY <1>0, <2>1, <2>2
  <2>5. \A v \in Nat \ {0} : Tally(v)' = Tally(v) + (IF v = range THEN 1 ELSE 0)
    <3> SUFFICES ASSUME NEW v \in Nat \ {0}
                 PROVE  Tally(v)' = Tally(v) + (IF v = range THEN 1 ELSE 0)
      OBVIOUS
    <3>1. Cardinality(LargeAt(v)) \in Nat
      BY <1>0, FiniteLarge
    <3> QED
      BY <1>0, <2>1, <2>2, <2>3, <3>1 DEF Tally, MaxRange, StepsByMainStep
  <2> QED
    BY <1>0, <2>2, <2>4, <2>5
<1>2. CASE range > MaxRange
  <2>1. range \notin 1 .. MaxRange
    BY <1>2
  <2>2. checks' = checks /\ large' = Append(large, range)
    BY <1>0, <1>2, <2>1 DEF Counted
  <2>3. /\ Len(large) \in Nat /\ Len(large') = Len(large) + 1 /\ large'[Len(large) + 1] = range
        /\ \A i \in 1 .. Len(large) : large'[i] = large[i]
        /\ large' \in Seq(Nat)
    BY <1>0, <2>2
  <2>4. \A i \in 1 .. Len(large') : large'[i] > MaxRange
    BY <1>0, <1>2, <2>3
  <2>5. ASSUME NEW v \in Nat \ {0}
        PROVE  Tally(v)' = Tally(v) + (IF v = range THEN 1 ELSE 0)
    <3>1. IsFiniteSet(LargeAt(v)) /\ Cardinality(LargeAt(v)) \in Nat
      BY <1>0, FiniteLarge
    <3>2. CASE v = range
      <4>1. LargeAt(v)' = LargeAt(v) \cup {Len(large) + 1}
        BY <2>3, <3>2 DEF LargeAt
      <4>2. Len(large) + 1 \notin LargeAt(v)
        BY <2>3 DEF LargeAt
      <4>3. Cardinality(LargeAt(v)') = Cardinality(LargeAt(v)) + 1
        BY <3>1, <4>1, <4>2, FS_AddElement
      <4> QED
        BY <2>1, <3>2, <4>3 DEF Tally, MaxRange
    <3>3. CASE v # range
      <4>1. LargeAt(v)' = LargeAt(v)
        BY <2>3, <3>3 DEF LargeAt
      <4>2. Tally(v)' = Tally(v)
        BY <2>2, <4>1 DEF Tally, MaxRange
      <4>3. Tally(v) \in Nat
        BY <1>0, <3>1 DEF Tally
      <4> QED
        BY <3>3, <4>2, <4>3
    <3> QED
      BY <3>2, <3>3
  <2> QED
    BY <1>0, <2>2, <2>3, <2>4, <2>5
<1> QED
  BY <1>1, <1>2

\* No range is counted at the start.
LEMMA InitChecks ==
    ASSUME Init, IInv
    PROVE  ChecksTrue
<1>1. checks = [v \in 1 .. MaxRange |-> 0] /\ large = <<>> /\ pc = "fill" /\ DOMAIN prevStep = {}
  BY DEF Init
<1>2. \A v : LargeAt(v) = {} /\ Differ(v) = {}
  BY <1>1 DEF LargeAt, Differ, Checked
<1>3. Cardinality({}) = 0
  BY FS_EmptySet
<1> QED
  BY <1>1, <1>2, <1>3 DEF ChecksTrue

\* The range checks of value v that a row makes, and the accesses they are for.
RowChecks(end, v) == {r \in end.ranges : r.range = v}
RowDiffer(k, end, v) ==
    {m \in Between(Cursor(k), Cursor(k) + 4) : m # end.trace.firstUse /\ m - end.prev[m] = v}

\* A row makes one check for each of its accesses but the first of the trace.
LEMMA RowRanges ==
    ASSUME IInv, NEW k, NEW end, Went(RowStart(k), end, k, Cursor(k), Cursor(k) + 4), NEW v
    PROVE  Cardinality(RowChecks(end, v)) = Cardinality(RowDiffer(k, end, v))
<1> DEFINE R == {r \in end.ranges : r.range = v}
           M == {m \in Between(Cursor(k), Cursor(k) + 4) : m # end.trace.firstUse /\ m - end.prev[m] = v}
           N == {m \in Between(Cursor(k), Cursor(k) + 4) : m # end.trace.firstUse}
           g == [m \in M |-> [slot |-> m, range |-> v]]
<1>1. end.ranges = {[slot |-> m, range |-> m - end.prev[m]] : m \in N}
  BY DEF Went
<1>2. M = {m \in N : m - end.prev[m] = v}
  OBVIOUS
<1> HIDE DEF N
<1>3. R = {[slot |-> m, range |-> v] : m \in M}
  <2>1. ASSUME NEW r \in R
        PROVE  \E m \in M : r = [slot |-> m, range |-> v]
    <3>1. PICK m \in N : r = [slot |-> m, range |-> m - end.prev[m]]
      BY <1>1
    <3>2. m - end.prev[m] = v
      BY <3>1
    <3> QED
      BY <1>2, <3>1, <3>2
  <2>2. ASSUME NEW m \in M
        PROVE  [slot |-> m, range |-> v] \in R
    <3>1. m \in N /\ m - end.prev[m] = v
      BY <1>2
    <3>2. [slot |-> m, range |-> m - end.prev[m]] \in end.ranges
      BY <1>1, <3>1
    <3> QED
      BY <3>1, <3>2
  <2> HIDE DEF R, M
  <2> QED
    BY <2>1, <2>2
<1>4. IsFiniteSet(M)
  <2>1. M \in SUBSET accessed
    BY DEF Between
  <2> QED
    BY <2>1, FiniteAccesses
<1> HIDE DEF M, R
<1>5. g \in [M -> R]
  BY <1>3
<1>6. ASSUME NEW x \in M, NEW y \in M, g[x] = g[y]
      PROVE  x = y
  BY <1>6
<1>7. ASSUME NEW r \in R
      PROVE  \E m \in M : g[m] = r
  BY <1>3
<1>8. g \in Bijection(M, R)
  BY <1>5, <1>6, <1>7 DEF Bijection, Injection, Surjection, IsInjective
<1>9. ExistsBijection(M, R)
  BY <1>8 DEF ExistsBijection
<1>10. Cardinality(R) = Cardinality(M)
  BY <1>4, <1>9, FS_Bijection
<1> QED
  BY <1>10 DEF M, R, RowChecks, RowDiffer

\* A row counts the ranges of its accesses, but that of the first access of its trace.
LEMMA FillRowChecks ==
    ASSUME IInv, ChecksTrue, NEW k, FillRow(k)
    PROVE  ChecksTrue'
<1>0. /\ k \in Traces /\ pc = "fill" /\ next[k] < RowsOf(k) /\ index = 1
      /\ UNCHANGED <<pc, segment, filled, accessed, large, regStep, index, lastStep>>
      /\ \A j \in Traces : Cursor(j)' = IF j = k THEN Cursor(k) + 4 ELSE Cursor(j)
  BY FillRowWent DEF IInv, Progress
<1>1. PICK end : /\ Went(RowStart(k), end, k, Cursor(k), Cursor(k) + 4)
                 /\ regTrace' = [regTrace EXCEPT ![k] = end.trace]
                 /\ prevStep' = end.prev
                 /\ checks' = [v \in DOMAIN checks |->
                        checks[v] + Cardinality({r \in end.ranges : r.range = v})]
  BY FillRowWent
<1>2. IInv'
  BY FillRowIInv
<1> DEFINE row == Between(Cursor(k), Cursor(k) + 4)
           N == {m \in row : m # end.trace.firstUse}
<1>3. /\ k \in Nat /\ k \in TraceIds /\ Cursor(k) \in Nat /\ Cursor(k) + 4 \in Nat
      /\ Cursor(k) + 4 <= Start(k) + 4 * TraceSize /\ TraceSize \in Nat /\ MaxRange \in Nat
  BY <1>0, CursorIn, Sizes DEF IInv, SegmentOK, MaxRange, StepsByMainStep
<1>4. /\ DOMAIN prevStep' = DOMAIN prevStep \cup row
      /\ \A x \in DOMAIN prevStep : x \notin row => prevStep'[x] = prevStep[x]
  BY <1>1 DEF Went, RowStart
<1>5. /\ Seen(k, Cursor(k) + 4) = Seen(k, Cursor(k)) \cup row
      /\ Seen(k, Cursor(k)) \cap row = {}
      /\ \A j \in Traces : j # k => Seen(j, Cursor(j)) \cap row = {}
  BY <1>0, SeenAfterRow
<1>6. /\ Traces' = Traces
      /\ \A j \in Traces : Seen(j, Cursor(j))' = IF j = k THEN Seen(k, Cursor(k)) \cup row
                                                 ELSE Seen(j, Cursor(j))
  <2>1. Traces' = Traces /\ \A j, b : Seen(j, b)' = Seen(j, b)
    BY <1>0, Frame
  <2> QED
    BY <1>0, <1>5, <2>1
<1>7. /\ \A j \in Traces : j # k => regTrace'[j] = regTrace[j]
      /\ regTrace'[k] = end.trace
  BY <1>1, <1>3, CursorIn DEF IInv, TracesTrue
<1>8. DOMAIN prevStep \cap row = {}
  BY <1>0, <1>5 DEF IInv, PrevTrue
<1>9. row \subseteq accessed
  BY DEF Between
<1>10. \A m \in Seen(k, Cursor(k)) : m # regTrace[k].firstUse <=> m # end.trace.firstUse
  <2>1. TraceTrue(regTrace[k], k, Cursor(k))
    BY <1>0 DEF IInv, TracesTrue
  <2>2. RowStart(k).trace = regTrace[k]
    BY DEF RowStart
  <2>3. Seen(k, Cursor(k)) # {} => regTrace[k].firstUse # None
    BY <1>3, <2>1, FirstUseNone DEF IInv
  <2> QED
    BY <1>1, <2>2, <2>3 DEF Went
<1>11. k = 0 => \A m \in row : m # end.trace.firstUse
  <2>1. k = 0 => end.trace.firstUse = InitialStep
    BY <1>1 DEF Went, TraceTrue
  <2>2. \A m \in row : InitialStep < m /\ m \in Nat /\ InitialStep \in Nat
    BY <1>9, StepFacts DEF IInv
  <2> QED
    BY <2>1, <2>2
<1>12. Checked' = Checked \cup N
  <2>1. Checked' = {m \in DOMAIN prevStep' :
              \A j \in Traces : m \in Seen(j, Cursor(j))' => j < 1 \/ m # regTrace'[j].firstUse}
    BY <1>0, <1>6 DEF Checked
  <2>2. Checked = {m \in DOMAIN prevStep :
              \A j \in Traces : m \in Seen(j, Cursor(j)) => j < 1 \/ m # regTrace[j].firstUse}
    BY <1>0 DEF Checked
  <2>3. ASSUME NEW m \in DOMAIN prevStep
        PROVE  m \in Checked' <=> m \in Checked
    <3>1. m \notin row /\ m \in DOMAIN prevStep'
      BY <1>4, <1>8
    <3>2. \A j \in Traces : m \in Seen(j, Cursor(j))' <=> m \in Seen(j, Cursor(j))
      BY <1>6, <3>1
    <3>3. \A j \in Traces : m \in Seen(j, Cursor(j)) =>
                (m # regTrace'[j].firstUse <=> m # regTrace[j].firstUse)
      BY <1>7, <1>10
    <3> HIDE DEF row
    <3> QED
      BY <2>1, <2>2, <3>1, <3>2, <3>3
  <2>4. ASSUME NEW m \in row
        PROVE  m \in Checked' <=> m \in N
    <3>1. m \in DOMAIN prevStep'
      BY <1>4
    <3>2. \A j \in Traces : m \in Seen(j, Cursor(j))' <=> j = k
      BY <1>5, <1>6
    <3>3. m \in Checked' <=> k < 1 \/ m # end.trace.firstUse
      BY <1>0, <1>7, <2>1, <3>1, <3>2
    <3>4. k < 1 => k = 0
      BY <1>3
    <3> QED
      BY <1>11, <3>3, <3>4
  <2>5. Checked' \subseteq DOMAIN prevStep \cup row /\ Checked \subseteq DOMAIN prevStep /\ N \subseteq row
    BY <1>4, <2>1, <2>2
  <2> HIDE DEF row, N
  <2> QED
    BY <1>8, <2>3, <2>4, <2>5
<1>13. DOMAIN prevStep \subseteq accessed /\ Checked \subseteq DOMAIN prevStep
  BY DEF IInv, PrevTrue, Seen, Checked
<1> DEFINE R(v) == Cardinality({r \in end.ranges : r.range = v})
<1>14. ASSUME NEW v \in Nat \ {0}
       PROVE  /\ Cardinality(Differ(v)') = Cardinality(Differ(v)) + R(v)
              /\ R(v) \in Nat /\ Cardinality(Differ(v)) \in Nat
              /\ v \notin 1 .. MaxRange => R(v) = 0
  <2> DEFINE M == {m \in row : m # end.trace.firstUse /\ m - end.prev[m] = v}
  <2>1. R(v) = Cardinality(M)
    <3>1. Went(RowStart(k), end, k, Cursor(k), Cursor(k) + 4)
      BY <1>1
    <3>2. Cardinality(RowChecks(end, v)) = Cardinality(RowDiffer(k, end, v))
      BY <3>1, RowRanges
    <3> QED
      BY <3>2, Zenon DEF RowChecks, RowDiffer
  <2>2. Differ(v)' = Differ(v) \cup M
    <3>1. Differ(v)' = {m \in Checked' : m - prevStep'[m] = v}
      BY DEF Differ
    <3>2. \A m \in Checked : prevStep'[m] = prevStep[m]
      BY <1>4, <1>8, <1>13
    <3>3. M = {m \in N : m - prevStep'[m] = v}
      BY <1>1
    <3> HIDE DEF M, N
    <3> QED
      BY <1>12, <3>1, <3>2, <3>3 DEF Differ
  <2>3. Differ(v) \cap M = {}
    BY <1>8, <1>13 DEF Differ
  <2>4. Differ(v) \in SUBSET accessed /\ M \in SUBSET accessed
    BY <1>9, <1>13 DEF Differ
  <2>5. v \notin 1 .. MaxRange => M = {}
    <3> SUFFICES ASSUME NEW m \in M
                 PROVE  v \in 1 .. MaxRange
      OBVIOUS
    <3>1. m \in Seen(k, Cursor(k) + 4)
      BY <1>5
    <3>2. TraceTrue(end.trace, k, Cursor(k) + 4) /\ RowsTrue(end.prev, end.trace, k, Cursor(k) + 4)
      BY <1>1 DEF Went
    <3>3. IsPrevious(end.prev[m], m)
      BY <3>1, <3>2 DEF RowsTrue
    <3>4. m - end.prev[m] \in 1 .. MaxRange
      BY <1>3, <3>1, <3>2, <3>3, RangeInside DEF IInv
    <3> QED
      BY <3>4
  <2> HIDE DEF M
  <2>6. /\ IsFiniteSet(Differ(v)) /\ IsFiniteSet(M)
        /\ Cardinality(Differ(v)) \in Nat /\ Cardinality(M) \in Nat
    BY <2>4, FiniteAccesses
  <2>8. Cardinality({}) = 0
    BY FS_EmptySet
  <2> HIDE DEF R
  <2>9. Cardinality(Differ(v)') = Cardinality(Differ(v)) + Cardinality(M)
    BY <2>2, <2>3, <2>6, DisjointUnion
  <2>10. M = {} => Cardinality(M) = 0
    BY <2>8
  <2> QED
    BY <2>1, <2>5, <2>6, <2>9, <2>10
<1>15. /\ checks \in [1 .. MaxRange -> Nat] /\ large \in Seq(Nat)
       /\ \A i \in 1 .. Len(large) : large[i] > MaxRange
       /\ \A v \in Nat \ {0} :
            (IF v \in 1 .. MaxRange THEN checks[v] ELSE Cardinality(LargeAt(v))) = Cardinality(Differ(v))
  <2>1. \A v \in Nat \ {0} : Cardinality(Differ(v)) \in Nat
    BY <1>14
  <2> QED
    BY <1>0, <2>1 DEF ChecksTrue
<1>16. checks' \in [1 .. MaxRange -> Nat] /\ \A v \in 1 .. MaxRange : checks'[v] = checks[v] + R(v)
  <2>1. \A v \in 1 .. MaxRange : R(v) \in Nat
    BY <1>3, <1>14
  <2>2. checks' = [v \in 1 .. MaxRange |-> checks[v] + R(v)]
    BY <1>1, <1>15
  <2> HIDE DEF R
  <2> QED
    BY <1>15, <2>1, <2>2
<1> HIDE DEF R
<1>17. ASSUME NEW v \in Nat \ {0}
       PROVE  /\ (IF v \in 1 .. MaxRange THEN checks'[v] ELSE Cardinality(LargeAt(v)')) = Cardinality(Differ(v)')
              /\ Cardinality(Differ(v)') \in Nat
  <2>1. LargeAt(v)' = LargeAt(v)
    BY <1>0 DEF LargeAt
  <2>2. Cardinality(Differ(v)') \in Nat
    BY <1>14
  <2>3. CASE v \in 1 .. MaxRange
    BY <1>14, <1>15, <1>16, <2>2, <2>3
  <2>4. CASE v \notin 1 .. MaxRange
    BY <1>14, <1>15, <2>1, <2>2, <2>4
  <2> QED
    BY <2>2, <2>3, <2>4
<1> QED
  BY <1>0, <1>15, <1>16, <1>17 DEF ChecksTrue, MaxRange

\* The completion counts the range of the first access of its trace.
LEMMA CompleteTraceChecks ==
    ASSUME IInv, ChecksTrue, CompleteTrace
    PROVE  ChecksTrue'
<1>0. /\ pc = "complete" /\ pc' = "complete" /\ index \in Traces /\ index \in Nat /\ index # 0
      /\ UNCHANGED <<segment, filled, accessed, next, regTrace>>
      /\ index' = index + 1
  BY CompleteFacts DEF IInv, Progress
<1>1. Traces' = Traces /\ \A k : Seen(k, Cursor(k))' = Seen(k, Cursor(k))
  <2>1. Traces' = Traces /\ \A k, b : Seen(k, b)' = Seen(k, b) /\ Start(k)' = Start(k)
    BY <1>0, Frame
  <2> QED
    BY <1>0, <2>1 DEF Cursor
<1>2. \A k \in Traces : k \in Nat /\ (k < index + 1 <=> k < index \/ k = index)
  BY <1>0, CursorIn
<1>3. Checked' = {m \in DOMAIN prevStep' :
          \A k \in Traces : m \in Seen(k, Cursor(k)) => k < index + 1 \/ m # regTrace[k].firstUse}
  BY <1>0, <1>1 DEF Checked
<1>4. DOMAIN prevStep' = DOMAIN prevStep
  BY CompleteFacts
<1>5. DOMAIN prevStep \subseteq accessed
  BY DEF IInv, PrevTrue, Seen
<1>6. MaxRange \in Nat
  BY Sizes DEF IInv, SegmentOK, MaxRange, StepsByMainStep
<1>7. CASE regTrace[index].firstUse = None
  <2>1. Seen(index, Cursor(index)) = {} /\ UNCHANGED <<prevStep, checks, large>>
    BY <1>7, CompleteFacts
  <2>2. Checked' = Checked
    BY <1>2, <1>3, <1>4, <2>1 DEF Checked
  <2>3. \A v : Differ(v)' = Differ(v) /\ LargeAt(v)' = LargeAt(v)
    BY <2>1, <2>2 DEF Differ, LargeAt
  <2> QED
    BY <1>0, <2>1, <2>3 DEF ChecksTrue, MaxRange
<1>8. CASE regTrace[index].firstUse # None
  <2> DEFINE first == regTrace[index].firstUse
             range == first - LastUse(index - 1)
  <2>1. /\ first \in Seen(index, Cursor(index)) /\ IsPrevious(LastUse(index - 1), first)
        /\ prevStep' = [prevStep EXCEPT ![first] = LastUse(index - 1)]
        /\ checks' = Counted(checks, range)
        /\ large' = IF range > MaxRange THEN Append(large, range) ELSE large
    BY <1>8, CompleteFacts
  <2>2. first \in DOMAIN prevStep /\ first \in accessed
    BY <1>0, <2>1 DEF IInv, PrevTrue, Seen
  <2>3. range \in Nat \ {0}
    <3>1. LastUse(index - 1) \in Nat /\ first \in Nat /\ LastUse(index - 1) < first
      BY <2>1, <2>2, StepFacts DEF IsPrevious, IInv
    <3> QED
      BY <3>1
  <2>4. /\ checks' \in [1 .. MaxRange -> Nat]
        /\ large' \in Seq(Nat) /\ \A i \in 1 .. Len(large') : large'[i] > MaxRange
        /\ \A v \in Nat \ {0} : Tally(v)' = Tally(v) + (IF v = range THEN 1 ELSE 0)
    BY <1>6, <2>1, <2>3, CountedOnce
  <2>5. ASSUME NEW k \in Traces, first \in Seen(k, Cursor(k))
        PROVE  k = index
    <3>1. k # index => Seen(k, Cursor(k)) \cap Seen(index, Cursor(index)) = {}
      BY <1>0, CursorIn, SeenApart DEF IInv
    <3> QED
      BY <2>1, <2>5, <3>1
  <2>6. Checked' = Checked \cup {first} /\ first \notin Checked
    <3>1. first \notin Checked
      BY <1>0, <2>1 DEF Checked
    <3>2. first \in Checked'
      BY <1>2, <1>3, <1>4, <2>2, <2>5
    <3>3. ASSUME NEW m \in DOMAIN prevStep, m # first
          PROVE  m \in Checked' <=> m \in Checked
      <4>1. \A k \in Traces : (k < index + 1 \/ m # regTrace[k].firstUse)
                                <=> (k < index \/ m # regTrace[k].firstUse)
        BY <1>2, <3>3
      <4> QED
        BY <1>3, <1>4, <4>1 DEF Checked
    <3>4. Checked' \subseteq DOMAIN prevStep /\ Checked \subseteq DOMAIN prevStep
      BY <1>3, <1>4 DEF Checked
    <3> HIDE DEF first
    <3> QED
      BY <3>1, <3>2, <3>3, <3>4
  <2> HIDE DEF first
  <2>7. \A m \in Checked : prevStep'[m] = prevStep[m]
    BY <2>1, <2>6 DEF Checked
  <2>8. first - prevStep'[first] = range
    BY <2>1, <2>2
  <2> HIDE DEF range
  <2>9. ASSUME NEW v \in Nat \ {0}
        PROVE  /\ Cardinality(Differ(v)') = Cardinality(Differ(v)) + (IF v = range THEN 1 ELSE 0)
               /\ Cardinality(Differ(v)) \in Nat
    <3>1. Differ(v) \in SUBSET accessed
      BY <1>5 DEF Differ, Checked
    <3>2. IsFiniteSet(Differ(v)) /\ Cardinality(Differ(v)) \in Nat
      BY <3>1, FiniteAccesses
    <3>3. Differ(v)' = {m \in Checked' : m - prevStep'[m] = v}
      BY DEF Differ
    <3>4. CASE v = range
      <4>1. Differ(v)' = Differ(v) \cup {first}
        BY <2>6, <2>7, <2>8, <3>3, <3>4 DEF Differ
      <4>2. first \notin Differ(v)
        BY <2>6 DEF Differ
      <4>3. Cardinality(Differ(v) \cup {first}) = Cardinality(Differ(v)) + 1
        BY <3>2, <4>2, FS_AddElement
      <4>4. Cardinality(Differ(v)') = Cardinality(Differ(v) \cup {first})
        BY <4>1, Zenon
      <4> QED
        BY <3>2, <3>4, <4>3, <4>4
    <3>5. CASE v # range
      <4>1. Differ(v)' = Differ(v)
        BY <2>6, <2>7, <2>8, <3>3, <3>5 DEF Differ
      <4> QED
        BY <3>2, <3>5, <4>1
    <3> QED
      BY <3>4, <3>5
  <2>10. \A v \in Nat \ {0} : Tally(v) = Cardinality(Differ(v))
    BY <1>0, <2>9 DEF ChecksTrue, Tally
  <2>11. ASSUME NEW v \in Nat \ {0}
         PROVE  Tally(v)' = Cardinality(Differ(v)') /\ Cardinality(Differ(v)') \in Nat
    BY <2>4, <2>9, <2>10
  <2> QED
    BY <1>0, <2>4, <2>11 DEF ChecksTrue, Tally, MaxRange
<1> QED
  BY <1>7, <1>8

\* Steps that touch no row leave the accesses to count as they are.
LEMMA SameDiffer ==
    ASSUME UNCHANGED <<segment, filled, accessed, next, regTrace, prevStep, index>>
    PROVE  Checked' = Checked /\ \A v : Differ(v)' = Differ(v)
<1>1. Traces' = Traces /\ \A k : Seen(k, Cursor(k))' = Seen(k, Cursor(k))
  <2>1. Traces' = Traces /\ \A k, b : Seen(k, b)' = Seen(k, b) /\ Start(k)' = Start(k)
    BY Frame
  <2> QED
    BY <2>1 DEF Cursor
<1>2. Checked' = Checked
  BY <1>1 DEF Checked
<1> QED
  BY <1>2 DEF Differ

\* Steps that count nothing.
LEMMA QuietChecks ==
    ASSUME ChecksTrue, UNCHANGED <<segment, filled, accessed, next, regTrace, prevStep, index>>,
           UNCHANGED <<checks, large>>,
           (pc' # "done" /\ pc # "done") \/ UNCHANGED <<pc, regStep>>
    PROVE  ChecksTrue'
<1>1. \A v : Differ(v)' = Differ(v) /\ LargeAt(v)' = LargeAt(v)
  BY SameDiffer DEF LargeAt
<1>2. FinalStep' = FinalStep
  BY Frame
<1> QED
  BY <1>1, <1>2 DEF ChecksTrue, MaxRange

\* The end of the segment counts the range up to its last step.
LEMMA AirValuesChecks ==
    ASSUME IInv, ChecksTrue, AirValues
    PROVE  ChecksTrue'
<1> DEFINE range == FinalStep - regStep
<1>0. /\ pc = "air" /\ pc' = "done"
      /\ UNCHANGED <<segment, filled, accessed, next, regTrace, prevStep, index>> /\ regStep' = regStep
      /\ checks' = Counted(checks, range)
      /\ large' = IF range > MaxRange THEN Append(large, range) ELSE large
  BY DEF AirValues
<1>1. range \in Nat \ {0}
  <2>1. IsPrevious(regStep, FinalStep)
    BY <1>0 DEF IInv, StepsTrue
  <2>2. regStep \in Nat /\ regStep < FinalStep /\ FinalStep \in Nat
    BY <2>1, StepFacts DEF IInv, IsPrevious
  <2> QED
    BY <2>2
<1>2. MaxRange \in Nat
  BY Sizes DEF IInv, SegmentOK, MaxRange, StepsByMainStep
<1>3. FinalStep' = FinalStep /\ \A v : Differ(v)' = Differ(v)
  BY <1>0, SameDiffer, Frame
<1>4. FinalStep' - regStep' = range
  BY <1>0, <1>3
<1> HIDE DEF range
<1>5. /\ checks' \in [1 .. MaxRange -> Nat]
      /\ large' \in Seq(Nat) /\ \A i \in 1 .. Len(large') : large'[i] > MaxRange
      /\ \A v \in Nat \ {0} : Tally(v)' = Tally(v) + (IF v = range THEN 1 ELSE 0)
  BY <1>0, <1>1, <1>2, CountedOnce
<1>6. ASSUME NEW v \in Nat \ {0}
      PROVE  Tally(v) = Cardinality(Differ(v)) /\ Cardinality(Differ(v)) \in Nat
  <2>1. Differ(v) \in SUBSET accessed
    BY DEF Differ, Checked, IInv, PrevTrue, Seen
  <2>2. Cardinality(Differ(v)) \in Nat
    BY <2>1, FiniteAccesses
  <2> QED
    BY <1>0, <2>2 DEF ChecksTrue, Tally
<1>7. ASSUME NEW v \in Nat \ {0}
      PROVE  Tally(v)' = Cardinality(Differ(v)') + (IF pc' = "done" /\ FinalStep' - regStep' = v THEN 1 ELSE 0)
  BY <1>0, <1>3, <1>4, <1>5, <1>6
<1> QED
  BY <1>5, <1>7 DEF ChecksTrue, Tally, MaxRange

\* Every step counts exactly the ranges it meets.
LEMMA NextChecks ==
    ASSUME IInv, ChecksTrue, [Next]_vars
    PROVE  ChecksTrue'
<1>1. CASE \E k \in 0 .. NumWithin - 1 : FillRow(k)
  BY <1>1, FillRowChecks
<1>2. CASE FillEnd
  BY <1>2, QuietChecks DEF FillEnd
<1>3. CASE CompleteTrace
  BY <1>3, CompleteTraceChecks
<1>4. CASE LastChunk
  BY <1>4, QuietChecks DEF LastChunk
<1>5. CASE AirValues
  BY <1>5, AirValuesChecks
<1>6. CASE UNCHANGED vars
  BY <1>6, QuietChecks DEF vars
<1> QED
  BY <1>1, <1>2, <1>3, <1>4, <1>5, <1>6 DEF Next, Terminated

\* The counters hold every range met so far, by the traces, the completion or the end of
\* the segment, as often as it was met.
THEOREM Counters == Spec => []ChecksTrue
<1>1. Init => IInv /\ ChecksTrue
  BY InitIInv, InitChecks
<1>2. (IInv /\ ChecksTrue) /\ [Next]_vars => (IInv /\ ChecksTrue)'
  BY NextIInv, NextChecks
<1> QED
  BY <1>1, <1>2, PTL DEF Spec

\* Every difference that a constraint range checks is counted exactly once, whichever of
\* the traces, the completion and update_reg_airvalues meets it, and whether it has a
\* counter of step_range_check or is one of large_range_checks.
THEOREM RangesCountedOnce == Spec => []ChecksExact
<1>1. IInv /\ ChecksTrue /\ PreviousTrue => ChecksExact
  <2> SUFFICES ASSUME IInv, ChecksTrue, PreviousTrue, pc = "done", NEW v \in 1 .. FinalStep
               PROVE  (IF v \in DOMAIN checks THEN checks[v] ELSE 0)
                        + Cardinality({i \in 1 .. Len(large) : large[i] = v})
                      = Cardinality({m \in accessed : m - Previous(m) = v})
                        + (IF FinalStep - Previous(FinalStep) = v THEN 1 ELSE 0)
    BY DEF ChecksExact
  <2>1. FinalStep \in Nat /\ v \in Nat \ {0} /\ MaxRange \in Nat
    BY StepFacts, Sizes DEF IInv, SegmentOK, MaxRange, StepsByMainStep
  <2>2. {i \in 1 .. Len(large) : large[i] = v} = LargeAt(v)
    BY DEF LargeAt
  <2>3. {m \in accessed : m - Previous(m) = v} = Differ(v)
    BY DoneTrue DEF PreviousTrue, Differ
  <2>4. Previous(FinalStep) = regStep
    BY DEF PreviousTrue, IInv, StepsTrue
  <2>5. (IF v \in 1 .. MaxRange THEN checks[v] ELSE Cardinality(LargeAt(v)))
        = Cardinality(Differ(v)) + (IF FinalStep - regStep = v THEN 1 ELSE 0)
    BY <2>1 DEF ChecksTrue
  <2>6. DOMAIN checks = 1 .. MaxRange /\ \A x \in 1 .. MaxRange : checks[x] \in Nat
    BY DEF ChecksTrue
  <2>7. Cardinality(LargeAt(v)) \in Nat
    BY FiniteLarge DEF ChecksTrue
  <2>8. v \in 1 .. MaxRange => Cardinality(LargeAt(v)) = 0
    <3>1. v \in 1 .. MaxRange => LargeAt(v) = {}
      BY <2>1 DEF ChecksTrue, LargeAt
    <3> QED
      BY <3>1, FS_EmptySet, Zenon
  <2>9. (IF v \in DOMAIN checks THEN checks[v] ELSE 0) + Cardinality(LargeAt(v))
        = Cardinality(Differ(v)) + (IF FinalStep - Previous(FinalStep) = v THEN 1 ELSE 0)
    BY <2>4, <2>5, <2>6, <2>7, <2>8
  <2> QED
    BY <2>2, <2>3, <2>9, Zenon
<1> QED
  BY <1>1, Invariance, Counters, RowsTellPrevious, PTL

\* Type correctness.
THEOREM TypeCorrect == Spec => []TypeOK
<1>1. IInv /\ ChecksTrue => TypeOK
  <2> SUFFICES ASSUME IInv, ChecksTrue PROVE TypeOK
    OBVIOUS
  <2>1. pc \in {"fill", "complete", "air", "done"} /\ next \in [0 .. NumWithin - 1 -> 0 .. TraceSize]
    BY DEF IInv, Progress, TraceIds
  <2>2. \A k \in 0 .. NumWithin - 1 :
            regTrace[k].steps \in Nat /\ regTrace[k].firstUse \in Nat \cup {None}
    BY DEF IInv, TracesTrue, TraceIds
  <2>3. DOMAIN prevStep \subseteq accessed
    BY DEF IInv, PrevTrue, Seen
  <2>4. regStep \in InitialStep .. FinalStep
    <3>1. /\ InitialStep \in Nat /\ FinalStep \in Nat /\ InitialStep < FinalStep
          /\ \A n \in accessed : n \in Nat /\ InitialStep < n /\ n < FinalStep
      BY StepFacts, Sizes DEF IInv, SegmentOK
    <3>2. regStep \in accessed \cup {InitialStep}
      BY <2>1 DEF IInv, StepsTrue, IsPrevious
    <3> QED
      BY <3>1, <3>2
  <2>5. index \in 1 .. NumWithin
    <3>1. index \in Nat \ {0} /\ index - 1 \in Traces /\ NumWithin \in Nat
      BY Sizes DEF IInv, Progress, SegmentOK
    <3>2. index - 1 \in 0 .. NumWithin - 1
      BY <3>1, CursorIn DEF TraceIds
    <3> QED
      BY <3>1, <3>2
  <2> QED
    BY <2>1, <2>2, <2>3, <2>4, <2>5 DEF TypeOK, ChecksTrue
<1> QED
  BY <1>1, Invariance, Counters, PTL
=============================================================================
