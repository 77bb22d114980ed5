---------------------------- MODULE MemPlanProofs ----------------------------
(***************************************************************************)
(* Proofs about the planner of the memory, its collectors and the rows of  *)
(* its segments, for every number and size of chunks, every distance limit *)
(* and every size of a segment.                                            *)
(***************************************************************************)
EXTENDS MemPlan, SumsProofs, FiniteSetTheorems, TLAPS

-----------------------------------------------------------------------------
(* Arithmetic. *)

\* Quotient and remainder.
LEMMA Quotient ==
    ASSUME NEW a \in Nat, NEW b \in Nat \ {0}
    PROVE  a \div b \in Nat /\ b * (a \div b) <= a /\ a < b * (a \div b) + b
OBVIOUS

\* The quotient is the number that has its bounds.
LEMMA QuotientIs ==
    ASSUME NEW a \in Nat, NEW b \in Nat \ {0}, NEW q \in Nat, b * q <= a, a < b * q + b
    PROVE  a \div b = q
<1> DEFINE p == a \div b
<1>1. p \in Nat /\ b * p <= a /\ a < b * p + b
  OBVIOUS
<1> HIDE DEF p
<1>2. ~(p < q)
  <2> SUFFICES ASSUME p < q PROVE FALSE
    OBVIOUS
  <2>1. q - p - 1 \in Nat /\ b * (q - p - 1) \in Nat
    BY <1>1
  <2>2. b * q = b * p + b + b * (q - p - 1) /\ b * p \in Nat /\ b * q \in Nat
    BY <1>1
  <2> QED
    BY <1>1, <2>1, <2>2
<1>3. ~(q < p)
  <2> SUFFICES ASSUME q < p PROVE FALSE
    OBVIOUS
  <2>1. p - q - 1 \in Nat /\ b * (p - q - 1) \in Nat
    BY <1>1
  <2>2. b * p = b * q + b + b * (p - q - 1) /\ b * p \in Nat /\ b * q \in Nat
    BY <1>1
  <2> QED
    BY <1>1, <2>1, <2>2
<1> QED
  BY <1>1, <1>2, <1>3 DEF p

\* Multiplication keeps the order.
LEMMA TimesGrows ==
    ASSUME NEW a \in Int, NEW b \in Int, NEW c \in Nat, a <= b
    PROVE  a * c <= b * c /\ a * c \in Int /\ b * c \in Int
<1>1. b - a \in Nat /\ (b - a) * c \in Nat /\ (b - a) * c = b * c - a * c
  OBVIOUS
<1> QED
  BY <1>1

\* A product is smaller only if a factor is.
LEMMA TimesLess ==
    ASSUME NEW a \in Int, NEW b \in Int, NEW c \in Nat, a * c < b * c
    PROVE  a < b
<1> SUFFICES ASSUME b <= a PROVE FALSE
  OBVIOUS
<1> QED
  BY TimesGrows

\* A step is in one chunk.
LEMMA StepInChunk ==
    ASSUME NEW step \in Steps
    PROVE  /\ ChunkOf(step) \in Chunks /\ ChunkOf(step) \in Nat /\ step \in Nat \ {0}
           /\ FirstStep(ChunkOf(step)) <= step /\ step <= LastStep(ChunkOf(step))
<1> DEFINE c == (step - 1) \div ChunkSteps
<1>0. NumChunks \in Nat /\ ChunkSteps \in Nat \ {0}
  BY MemPlanAssumption
<1>1. step \in 1 .. (NumChunks - 1) * ChunkSteps + 1 + ChunkSteps - 1
  <2>1. 0 * ChunkSteps + 1 = 1
    BY <1>0
  <2> QED
    BY <2>1 DEF Steps, FirstStep, LastStep, StepBase
<1>2. (NumChunks - 1) * ChunkSteps + 1 + ChunkSteps - 1 = NumChunks * ChunkSteps
  BY <1>0
<1>3. step - 1 \in Nat /\ step \in Nat \ {0} /\ step - 1 < NumChunks * ChunkSteps
  <2>1. NumChunks * ChunkSteps \in Nat
    BY <1>0
  <2> QED
    BY <1>1, <1>2, <2>1
<1>4. c \in Nat /\ ChunkSteps * c <= step - 1 /\ step - 1 < ChunkSteps * c + ChunkSteps
  BY <1>0, <1>3, Quotient
<1>5. ChunkOf(step) = c
  BY DEF ChunkOf, StepBase
<1> HIDE DEF c
<1>6. c * ChunkSteps = ChunkSteps * c /\ c * ChunkSteps \in Nat
  BY <1>0, <1>4
<1>7. c * ChunkSteps < NumChunks * ChunkSteps
  BY <1>0, <1>3, <1>4, <1>6
<1>8. c < NumChunks
  BY <1>0, <1>4, <1>7, TimesLess
<1>9. FirstStep(c) <= step /\ step <= LastStep(c)
  BY <1>0, <1>3, <1>4, <1>6 DEF FirstStep, LastStep, StepBase
<1> QED
  BY <1>0, <1>3, <1>4, <1>5, <1>8, <1>9 DEF Chunks

\* The sizes: the distance limit is at least two chunks less a step, and in
\* chunks it is one less than DiffChunks.
LEMMA Limits ==
    /\ ChunkSteps \in Nat /\ ChunkSteps >= 2 /\ DiffChunks \in Nat /\ DiffChunks >= 2
    /\ StepMaxDiff \in Nat /\ StepMaxDiff = (DiffChunks - 1) * ChunkSteps + ChunkSteps - 1
    /\ (DiffChunks - 1) * ChunkSteps \in Nat /\ (DiffChunks - 1) * ChunkSteps >= ChunkSteps
    /\ LimitToVerify \in Nat /\ LimitToVerify <= (DiffChunks - 1) * ChunkSteps
    /\ ChunkMaxDistance = DiffChunks - 1
<1>1. /\ ChunkSteps \in Nat /\ ChunkSteps >= 2 /\ DiffChunks \in Nat /\ DiffChunks >= 2
      /\ LimitToVerify \in 0 .. (DiffChunks - 1) * ChunkSteps
  BY MemPlanAssumption
<1> DEFINE z == (DiffChunks - 1) * ChunkSteps
<1>2. DiffChunks * ChunkSteps = z + ChunkSteps /\ z \in Nat
  BY <1>1
<1>3. z >= ChunkSteps
  <2>1. 1 * ChunkSteps <= z
    BY <1>1, TimesGrows
  <2> QED
    BY <1>1, <2>1
<1>4. ChunkSteps * (DiffChunks - 1) = z
  BY <1>1
<1> HIDE DEF z
<1>5. StepMaxDiff = z + ChunkSteps - 1
  BY <1>1, <1>2 DEF StepMaxDiff
<1>6. StepMaxDiff \in Nat /\ ChunkSteps * (DiffChunks - 1) <= StepMaxDiff
      /\ StepMaxDiff < ChunkSteps * (DiffChunks - 1) + ChunkSteps
  BY <1>1, <1>2, <1>3, <1>4, <1>5
<1>7. ChunkMaxDistance = DiffChunks - 1
  BY <1>1, <1>6, QuotientIs DEF ChunkMaxDistance
<1> QED
  BY <1>1, <1>2, <1>3, <1>5, <1>6, <1>7 DEF z

\* The internal reads that MemSM puts between two accesses of an address, when no
\* segment ends between them.
GapReads(last, step) ==
    IF step - last >= LimitToVerify THEN IntermediateRows(last, step, FALSE)
    ELSE [full |-> 0, zero |-> 0]

\* Step 0, from which an instance without a previous segment counts, is the last
\* one of chunk -1.
LEMMA StartOrStep ==
    ASSUME NEW last \in Steps \cup {0}
    PROVE  /\ ChunkOf(last) \in Int /\ last \in Nat
           /\ FirstStep(ChunkOf(last)) <= last /\ last <= LastStep(ChunkOf(last))
<1>1. CASE last \in Steps
  BY <1>1, StepInChunk
<1>2. CASE last = 0
  <2> DEFINE q == (0 - 1) \div ChunkSteps
  <2>0. ChunkSteps \in Nat \ {0}
    BY MemPlanAssumption
  <2>1. q \in Int /\ ChunkSteps * q <= 0 - 1 /\ 0 - 1 < ChunkSteps * q + ChunkSteps
    BY <2>0
  <2>2. ChunkOf(last) = q
    BY <1>2 DEF ChunkOf, StepBase
  <2> HIDE DEF q
  <2>3. q * ChunkSteps = ChunkSteps * q /\ q * ChunkSteps \in Int
    BY <2>0, <2>1
  <2>4. FirstStep(q) <= 0 /\ 0 <= LastStep(q)
    BY <2>0, <2>1, <2>3 DEF FirstStep, LastStep, StepBase
  <2> QED
    BY <1>2, <2>1, <2>2, <2>4
<1> QED
  BY <1>1, <1>2

\* The distance in chunks decides, exactly, whether there are internal reads.
LEMMA FarApart ==
    ASSUME NEW last \in Steps \cup {0}, NEW step \in Steps, last < step
    PROVE  LET from == ChunkOf(last)
               to == ChunkOf(step)
               dist == DistanceBetween(from, to)
           IN  /\ from \in Int /\ to \in Nat /\ from <= to /\ dist \in Nat
               /\ dist > StepMaxDiff <=> ~(to - from <= ChunkMaxDistance)
               /\ step - last <= dist /\ dist <= step - last + 2 * ChunkSteps - 2
               /\ dist > StepMaxDiff => step - last >= LimitToVerify
<1> DEFINE from == ChunkOf(last)
           to == ChunkOf(step)
           c == ChunkSteps
           k == to - from
           dist == DistanceBetween(from, to)
<1>1. /\ from \in Int /\ last \in Nat /\ FirstStep(from) <= last /\ last <= LastStep(from)
      /\ to \in Nat /\ step \in Nat /\ FirstStep(to) <= step /\ step <= LastStep(to)
  BY StepInChunk, StartOrStep
<1>2. c \in Nat /\ c >= 2
  BY Limits
<1> HIDE DEF from, to, c
<1>3. /\ from * c \in Int /\ to * c \in Nat /\ k * c \in Int /\ k * c = to * c - from * c
      /\ k \in Int
  BY <1>1, <1>2
<1>4. /\ from * c + 1 <= last /\ last <= from * c + c
      /\ to * c + 1 <= step /\ step <= to * c + c
      /\ dist = k * c + c - 1
  BY <1>1, <1>2, <1>3 DEF FirstStep, LastStep, StepBase, DistanceBetween, c
<1> HIDE DEF dist
<1>5. from <= to
  <2>1. from * c < (to + 1) * c
    <3>1. (to + 1) * c = to * c + c
      BY <1>1, <1>2
    <3> QED
      BY <1>1, <1>2, <1>3, <1>4, <3>1
  <2>2. from < to + 1
    BY <1>1, <1>2, <2>1, TimesLess
  <2> QED
    BY <1>1, <2>2
<1> HIDE DEF k
<1>6. k \in Nat /\ k * c \in Nat
  BY <1>1, <1>2, <1>5 DEF k
<1>7. dist \in Nat /\ step - last <= dist /\ dist <= step - last + 2 * c - 2
  BY <1>1, <1>2, <1>3, <1>4, <1>6
<1> DEFINE d == DiffChunks - 1
<1>8. /\ d \in Nat /\ d * c \in Nat /\ StepMaxDiff = d * c + c - 1 /\ ChunkMaxDistance = d
      /\ LimitToVerify \in Nat /\ LimitToVerify <= d * c
  BY Limits DEF c
<1> HIDE DEF d
<1>9. dist > StepMaxDiff <=> k * c > d * c
  BY <1>2, <1>4, <1>6, <1>8
<1>10. k * c > d * c <=> ~(k <= d)
  <2>1. ASSUME k * c > d * c PROVE d < k
    <3>1. d * c < k * c
      BY <1>6, <1>8, <2>1
    <3> QED
      BY <1>2, <1>6, <1>8, <3>1, TimesLess
  <2>2. ASSUME d < k PROVE k * c > d * c
    <3>1. (d + 1) * c <= k * c
      BY <1>2, <1>6, <1>8, <2>2, TimesGrows
    <3>2. (d + 1) * c = d * c + c
      BY <1>2, <1>8
    <3> QED
      BY <1>2, <1>6, <1>8, <3>1, <3>2
  <2> QED
    BY <1>6, <1>8, <2>1, <2>2
<1>11. ASSUME dist > StepMaxDiff
       PROVE  step - last >= LimitToVerify
  <2>1. d < k
    BY <1>6, <1>8, <1>9, <1>10, <1>11
  <2>2. d * c <= (k - 1) * c
    BY <1>2, <1>6, <1>8, <2>1, TimesGrows
  <2>3. (k - 1) * c = k * c - c
    BY <1>2, <1>6
  <2>4. step - last >= k * c - c + 1
    BY <1>1, <1>2, <1>3, <1>4, <1>6
  <2> QED
    BY <1>1, <1>2, <1>6, <1>8, <2>2, <2>3, <2>4
<1>12. /\ from \in Int /\ to \in Nat /\ from <= to /\ dist \in Nat
       /\ dist > StepMaxDiff <=> ~(k <= ChunkMaxDistance)
       /\ step - last <= dist /\ dist <= step - last + 2 * c - 2
       /\ dist > StepMaxDiff => step - last >= LimitToVerify
  BY <1>1, <1>5, <1>7, <1>8, <1>9, <1>10, <1>11
<1> QED
  BY <1>12 DEF from, to, dist, k, c

\* The greater of two numbers.
LEMMA MaxOfTwo ==
    ASSUME NEW a \in Int, NEW b \in Int
    PROVE  Max({a, b}) = IF a >= b THEN a ELSE b
<1> DEFINE m == IF a >= b THEN a ELSE b
<1>1. m \in {a, b} /\ \A y \in {a, b} : m >= y
  OBVIOUS
<1>2. \A x \in {a, b} : (\A y \in {a, b} : x >= y) => x = m
  OBVIOUS
<1> QED
  BY <1>1, <1>2 DEF Max

\* The smaller of two numbers.
LEMMA MinOfTwo ==
    ASSUME NEW a \in Int, NEW b \in Int
    PROVE  Min({a, b}) = IF a <= b THEN a ELSE b
<1> DEFINE m == IF a <= b THEN a ELSE b
<1>1. m \in {a, b} /\ \A y \in {a, b} : m <= y
  OBVIOUS
<1>2. \A x \in {a, b} : (\A y \in {a, b} : x <= y) => x = m
  OBVIOUS
<1> QED
  BY <1>1, <1>2 DEF Min

\* The internal reads of MemSM, from step 0 too: there are as many as the distance
\* in chunks tells, and the step that is left is positive and within the limit.
LEMMA GapLeft ==
    ASSUME NEW last \in Steps \cup {0}, NEW step \in Steps, last < step
    PROVE  LET ir == GapReads(last, step)
               dist == DistanceBetween(ChunkOf(last), ChunkOf(step))
           IN  /\ ir.full \in Nat /\ ir.zero \in 0 .. 1
               /\ step - (last + ir.full * StepMaxDiff) \in 1 .. StepMaxDiff
               /\ ir.full + ir.zero = IF dist > StepMaxDiff
                                       THEN Max({1, (dist - 1) \div StepMaxDiff}) ELSE 0
<1> DEFINE from == ChunkOf(last)
           to == ChunkOf(step)
           dist == DistanceBetween(from, to)
           m == StepMaxDiff
           planned == (dist - 1) \div m
           needed == (step - last - 1) \div m
           ir == GapReads(last, step)
<1>1. /\ dist \in Nat
      /\ step - last <= dist /\ dist <= step - last + 2 * ChunkSteps - 2
      /\ dist > m => step - last >= LimitToVerify
  BY FarApart
<1>2. last \in Nat /\ step \in Nat
  BY StepInChunk, StartOrStep
<1>3. m \in Nat \ {0} /\ m >= 2 * ChunkSteps - 1 /\ ChunkSteps \in Nat /\ ChunkSteps >= 2
  BY Limits
<1>5. CASE dist > m
  <2>1. ir = IF needed < planned THEN [full |-> planned - 1, zero |-> 1]
             ELSE [full |-> planned, zero |-> 0]
    BY <1>1, <1>5 DEF GapReads, IntermediateRows
  <2> HIDE DEF from, to, dist, m, ir
  <2>3. planned \in Nat /\ m * planned <= dist - 1 /\ dist - 1 < m * planned + m
    BY <1>1, <1>3, <1>5, Quotient
  <2>4. needed \in Nat /\ m * needed <= step - last - 1 /\ step - last - 1 < m * needed + m
    BY <1>2, <1>3, Quotient
  <2> HIDE DEF planned, needed
  <2>5. planned >= 1
    <3> SUFFICES ASSUME planned = 0 PROVE FALSE
      BY <2>3
    <3>1. m * planned = 0
      BY <1>3
    <3> QED
      BY <1>1, <1>3, <1>5, <2>3, <3>1
  <2>6. Max({1, planned}) = planned
    BY <2>3, <2>5, MaxOfTwo
  <2>7. m * planned \in Nat /\ m * needed \in Nat /\ planned * m = m * planned
    BY <1>3, <2>3, <2>4
  <2>8. CASE needed < planned
    <3>1. ir.full = planned - 1 /\ ir.zero = 1
      BY <2>1, <2>8
    <3>2. (planned - 1) * m = m * planned - m
      BY <1>3, <2>3
    <3>3. (needed + 1) * m <= planned * m /\ (needed + 1) * m = m * needed + m
      BY <1>3, <2>3, <2>4, <2>8, TimesGrows
    <3>4. step - last <= m * planned
      BY <1>2, <1>3, <2>4, <2>7, <3>3
    <3>5. step - last > m * planned - m
      BY <1>1, <1>2, <1>3, <2>3, <2>7
    <3>6. step - (last + ir.full * m) \in 1 .. m
      BY <1>2, <1>3, <2>7, <3>1, <3>2, <3>4, <3>5
    <3>7. ir.full \in Nat /\ ir.zero \in 0 .. 1 /\ ir.full + ir.zero = Max({1, planned})
      BY <2>3, <2>5, <2>6, <3>1
    <3> QED
      BY <1>5, <3>6, <3>7 DEF from, to, dist, m, ir, planned
  <2>9. CASE ~(needed < planned)
    <3>1. ir.full = planned /\ ir.zero = 0
      BY <2>1, <2>9
    <3>2. planned * m <= needed * m /\ needed * m = m * needed
      BY <1>3, <2>3, <2>4, <2>9, TimesGrows
    <3>3. step - last > planned * m
      BY <1>2, <2>4, <2>7, <3>2
    <3>4. step - last <= m * planned + m
      BY <1>1, <1>2, <1>3, <2>3, <2>7
    <3>5. step - (last + ir.full * m) \in 1 .. m
      BY <1>2, <1>3, <2>7, <3>1, <3>3, <3>4
    <3>6. ir.full \in Nat /\ ir.zero \in 0 .. 1 /\ ir.full + ir.zero = Max({1, planned})
      BY <2>3, <2>6, <3>1
    <3> QED
      BY <1>5, <3>5, <3>6 DEF from, to, dist, m, ir, planned
  <2> QED
    BY <2>8, <2>9
<1>6. CASE ~(dist > m)
  <2>1. ir.full = 0 /\ ir.zero = 0
    BY <1>6 DEF GapReads, IntermediateRows
  <2>3. last + 0 * m = last
    BY <1>2, <1>3
  <2>4. step - last \in 1 .. m
    BY <1>1, <1>2, <1>3, <1>6
  <2> HIDE DEF ir, dist, m
  <2>5. /\ ir.full \in Nat /\ ir.zero \in 0 .. 1 /\ ir.full + ir.zero = 0
        /\ step - (last + ir.full * m) \in 1 .. m
    BY <2>1, <2>3, <2>4
  <2> QED
    BY <1>6, <2>5 DEF ir, dist, m
<1> QED
  BY <1>5, <1>6

\* The planner, which knows the chunks of two accesses of an address, and MemSM,
\* which knows their steps, agree on the number of internal reads between them;
\* and after the reads the step that is left is positive and within the limit, so
\* that the increment of the row has a range check.
THEOREM GapsAgree ==
    ASSUME NEW last \in Steps, NEW step \in Steps, last < step
    PROVE  LET ir == GapReads(last, step)
               left == step - (last + ir.full * StepMaxDiff)
           IN  /\ ir.full \in Nat /\ ir.zero \in 0 .. 1
               /\ IntermediateSteps(ChunkOf(last), ChunkOf(step)) = ir.full + ir.zero
               /\ left \in 1 .. StepMaxDiff
<1> DEFINE dist == DistanceBetween(ChunkOf(last), ChunkOf(step))
           ir == GapReads(last, step)
<1>1. dist > StepMaxDiff <=> ~(ChunkOf(step) - ChunkOf(last) <= ChunkMaxDistance)
  BY FarApart
<1>2. ChunkOf(last) # None
  BY StepInChunk DEF None
<1>3. IntermediateSteps(ChunkOf(last), ChunkOf(step))
        = IF dist > StepMaxDiff THEN Max({1, (dist - 1) \div StepMaxDiff}) ELSE 0
  BY <1>1, <1>2 DEF IntermediateSteps
<1>4. /\ ir.full \in Nat /\ ir.zero \in 0 .. 1
      /\ step - (last + ir.full * StepMaxDiff) \in 1 .. StepMaxDiff
      /\ ir.full + ir.zero = IF dist > StepMaxDiff
                              THEN Max({1, (dist - 1) \div StepMaxDiff}) ELSE 0
  BY GapLeft
<1> HIDE DEF dist, ir
<1> QED
  BY <1>3, <1>4 DEF ir

-----------------------------------------------------------------------------
(* Sorted. *)

\* Pairs of numbers are totally ordered by Before.
LEMMA BeforeOrder ==
    ASSUME NEW a \in Nat \X Nat, NEW b \in Nat \X Nat, NEW c \in Nat \X Nat
    PROVE  /\ ~Before(a, a)
           /\ a # b => Before(a, b) \/ Before(b, a)
           /\ Before(a, b) /\ Before(b, c) => Before(a, c)
<1>1. /\ a[1] \in Nat /\ a[2] \in Nat /\ b[1] \in Nat /\ b[2] \in Nat /\ c[1] \in Nat /\ c[2] \in Nat
      /\ (a[1] = b[1] /\ a[2] = b[2] => a = b)
  OBVIOUS
<1> QED
  BY <1>1 DEF Before

\* Sorted lists the elements of a finite set of pairs, in order.
LEMMA SortedLists ==
    ASSUME NEW S, S \subseteq Nat \X Nat, IsFiniteSet(S)
    PROVE  /\ Cardinality(S) \in Nat
           /\ Sorted(S) \in [1 .. Cardinality(S) -> S]
           /\ \A i, j \in 1 .. Cardinality(S) : i < j => Before(Sorted(S)[i], Sorted(S)[j])
<1> DEFINE n == Cardinality(S)
           Less(a) == {b \in S : Before(b, a)}
           rank == [a \in S |-> Cardinality(Less(a))]
<1>1. n \in Nat
  BY FS_CardinalityType
<1>2. ASSUME NEW a \in S
      PROVE  /\ IsFiniteSet(Less(a)) /\ rank[a] = Cardinality(Less(a))
             /\ rank[a] \in Nat /\ rank[a] \in 0 .. n - 1
  <2>1. Less(a) \in SUBSET S
    OBVIOUS
  <2>2. IsFiniteSet(Less(a))
    BY <2>1, FS_Subset
  <2>3. a \in Nat \X Nat
    OBVIOUS
  <2>4. a \notin Less(a)
    BY <2>3, BeforeOrder
  <2>5. IsFiniteSet(S \ {a}) /\ Cardinality(S \ {a}) = n - 1
    BY FS_RemoveElement
  <2>6. Less(a) \in SUBSET (S \ {a})
    BY <2>4
  <2>7. Cardinality(Less(a)) <= n - 1
    BY <2>5, <2>6, FS_Subset
  <2>8. Cardinality(Less(a)) \in Nat
    BY <2>2, FS_CardinalityType
  <2> QED
    BY <1>1, <2>2, <2>7, <2>8
<1>3. ASSUME NEW a \in S, NEW b \in S, Before(a, b)
      PROVE  rank[a] < rank[b]
  <2>0. a \in Nat \X Nat /\ b \in Nat \X Nat
    OBVIOUS
  <2>1. a \in Less(b) /\ a \notin Less(a)
    BY <1>3, <2>0, BeforeOrder
  <2>2. Less(a) \in SUBSET Less(b)
    <3>1. ASSUME NEW c \in Less(a) PROVE c \in Less(b)
      <4>1. c \in S /\ c \in Nat \X Nat /\ Before(c, a)
        OBVIOUS
      <4> QED
        BY <1>3, <2>0, <4>1, BeforeOrder
    <3> QED
      BY <3>1
  <2>3. Cardinality(Less(a)) <= Cardinality(Less(b))
        /\ (Cardinality(Less(b)) = Cardinality(Less(a)) => Less(b) = Less(a))
    BY <1>2, <2>2, FS_Subset
  <2>4. rank[a] \in Nat /\ rank[b] \in Nat
    BY <1>1, <1>2
  <2> QED
    BY <1>2, <2>1, <2>3, <2>4
<1>4. rank \in Injection(S, 0 .. n - 1)
  <2>1. rank \in [S -> 0 .. n - 1]
    BY <1>2
  <2>2. ASSUME NEW a \in S, NEW b \in S, rank[a] = rank[b]
        PROVE  a = b
    <3> SUFFICES ASSUME a # b PROVE FALSE
      OBVIOUS
    <3>1. a \in Nat \X Nat /\ b \in Nat \X Nat
      OBVIOUS
    <3>2. Before(a, b) \/ Before(b, a)
      BY <3>1, BeforeOrder
    <3>3. rank[a] \in Nat /\ rank[b] \in Nat
      BY <1>1, <1>2
    <3> QED
      BY <1>3, <2>2, <3>2, <3>3
  <2> HIDE DEF rank
  <2> QED
    BY <2>1, <2>2 DEF Injection, IsInjective
<1>5. IsFiniteSet(0 .. n - 1) /\ Cardinality(0 .. n - 1) = n
  <2> HIDE DEF n
  <2>1. n - 1 \in Int /\ 0 \in Int
    BY <1>1
  <2>2. IsFiniteSet(0 .. n - 1) /\ Cardinality(0 .. n - 1) = IF 0 > n - 1 THEN 0 ELSE (n - 1) - 0 + 1
    BY <2>1, FS_Interval
  <2> QED
    BY <1>1, <2>2
<1>6. rank \in Surjection(S, 0 .. n - 1)
  <2> HIDE DEF rank
  <2> QED
    BY <1>4, <1>5, FS_Injection
<1>7. ASSUME NEW i \in 1 .. n
      PROVE  Sorted(S)[i] \in S /\ rank[Sorted(S)[i]] = i - 1
  <2>1. i - 1 \in 0 .. n - 1
    BY <1>1
  <2>2. \E a \in S : rank[a] = i - 1
    <3> HIDE DEF rank
    <3> QED
      BY <1>6, <2>1 DEF Surjection
  <2>3. \E a \in S : Cardinality(Less(a)) = i - 1
    BY <2>2
  <2>4. Sorted(S)[i] = CHOOSE a \in S : Cardinality(Less(a)) = i - 1
    BY DEF Sorted
  <2>5. Sorted(S)[i] \in S /\ Cardinality(Less(Sorted(S)[i])) = i - 1
    BY <2>3, <2>4
  <2> QED
    BY <2>5
<1>8. Sorted(S) \in [1 .. n -> S]
  BY <1>7 DEF Sorted
<1>9. ASSUME NEW i \in 1 .. n, NEW j \in 1 .. n, i < j
      PROVE  Before(Sorted(S)[i], Sorted(S)[j])
  <2> DEFINE a == Sorted(S)[i]
             b == Sorted(S)[j]
  <2>1. a \in S /\ b \in S /\ rank[a] = i - 1 /\ rank[b] = j - 1
    BY <1>7
  <2>2. a \in Nat \X Nat /\ b \in Nat \X Nat
    BY <2>1
  <2> HIDE DEF a, b, rank
  <2>3. a # b /\ ~Before(b, a)
    BY <1>1, <1>3, <1>9, <2>1
  <2>4. Before(a, b)
    BY <2>2, <2>3, BeforeOrder
  <2> QED
    BY <2>4 DEF a, b
<1> QED
  BY <1>1, <1>8, <1>9

-----------------------------------------------------------------------------
(* The execution and what the cursor yields for it. *)

Accesses == (MinAddr .. MaxAddr) \X Steps

\* The sets of T with at most one access more.
Longer(T) == {s \cup e : s \in T, e \in {{}} \cup {{a} : a \in Accesses}}

\* g is the function that Executions is defined with.
IsUpTo(g, n) == g = [k \in 0 .. n |-> IF k = 0 THEN {{}} ELSE Longer(g[k - 1])]

\* The sets of accesses of Executions exist, and hold only accesses.
LEMMA UpToExists ==
    ASSUME NEW n \in Nat
    PROVE  \E g \in [0 .. n -> SUBSET SUBSET Accesses] : IsUpTo(g, n)
<1> DEFINE A == SUBSET SUBSET Accesses
           S == {k \in Nat : \E g \in [0 .. k -> A] : IsUpTo(g, k)}
<1>1. 0 \in S
  <2> DEFINE g == [k \in 0 .. 0 |-> {{}}]
  <2>1. g \in [0 .. 0 -> A] /\ IsUpTo(g, 0)
    BY DEF IsUpTo
  <2> QED
    BY <2>1
<1>2. ASSUME NEW T \in A PROVE Longer(T) \in A
  BY DEF Longer
<1> HIDE DEF A
<1>3. ASSUME NEW k \in Nat, k \in S
      PROVE  \E g \in [0 .. k + 1 -> A] : IsUpTo(g, k + 1)
  <2>1. PICK g \in [0 .. k -> A] : IsUpTo(g, k)
    BY <1>3
  <2>2. g[k] \in A
    OBVIOUS
  <2>3. Longer(g[k]) \in A
    BY <1>2, <2>2
  <2> DEFINE h == [i \in 0 .. k + 1 |-> IF i = k + 1 THEN Longer(g[k]) ELSE g[i]]
  <2>4. h \in [0 .. k + 1 -> A]
    BY <2>3
  <2>5. ASSUME NEW i \in 0 .. k + 1
        PROVE  h[i] = IF i = 0 THEN {{}} ELSE Longer(h[i - 1])
    <3>1. CASE i = k + 1
      <4>1. i - 1 \in 0 .. k + 1 /\ i - 1 = k /\ i # 0 /\ h[i - 1] = g[k]
        BY <3>1
      <4> QED
        BY <3>1, <4>1
    <3>2. CASE i \in 1 .. k
      <4>1. i - 1 \in 0 .. k /\ i \in 0 .. k /\ i # 0 /\ i # k + 1 /\ i - 1 # k + 1
        BY <3>2
      <4>2. h[i] = g[i] /\ h[i - 1] = g[i - 1]
        BY <4>1
      <4>3. g[i] = Longer(g[i - 1])
        BY <2>1, <4>1 DEF IsUpTo
      <4> QED
        BY <4>1, <4>2, <4>3
    <3>3. CASE i = 0
      <4>1. h[i] = g[0] /\ g[0] = {{}}
        BY <2>1, <3>3 DEF IsUpTo
      <4> QED
        BY <3>3, <4>1
    <3> QED
      BY <3>1, <3>2, <3>3
  <2> HIDE DEF h
  <2>6. IsUpTo(h, k + 1)
    BY <2>4, <2>5 DEF IsUpTo
  <2> QED
    BY <2>4, <2>6
<1>4. \A k \in Nat : k \in S => k + 1 \in S
  BY <1>3
<1> HIDE DEF S
<1>5. n \in S
  BY <1>1, <1>4, SetInduction
<1> QED
  BY <1>5 DEF S, A

\* Two such functions are the same.
LEMMA UpToAgree ==
    ASSUME NEW n \in Nat, NEW g, NEW h, IsUpTo(g, n), IsUpTo(h, n)
    PROVE  g[n] = h[n]
<1> DEFINE S == {k \in Nat : k <= n => g[k] = h[k]}
<1>1. 0 \in S
  BY DEF IsUpTo
<1>2. ASSUME NEW k \in Nat, k \in S, k + 1 <= n
      PROVE  g[k + 1] = h[k + 1]
  <2>1. k + 1 \in 0 .. n /\ k + 1 # 0 /\ (k + 1) - 1 = k
    BY <1>2
  <2>2. g[k + 1] = Longer(g[k])
    BY <2>1 DEF IsUpTo
  <2>3. h[k + 1] = Longer(h[k])
    BY <2>1 DEF IsUpTo
  <2> QED
    BY <1>2, <2>2, <2>3
<1>3. \A k \in Nat : k \in S => k + 1 \in S
  BY <1>2
<1> HIDE DEF S
<1>4. n \in S
  BY <1>1, <1>3, SetInduction
<1> QED
  BY <1>4 DEF S

\* An execution is a set of accesses.
LEMMA ExecutionsAre ==
    ASSUME NEW acc \in Executions
    PROVE  acc \subseteq Accesses
<1> DEFINE n == MaxAccesses
           f == CHOOSE g : IsUpTo(g, n)
<1>1. n \in Nat
  BY MemPlanAssumption
<1>2. Executions = f[n] \ {{}}
  BY DEF Executions, IsUpTo, Longer, Accesses
<1> HIDE DEF n
<1>3. PICK g \in [0 .. n -> SUBSET SUBSET Accesses] : IsUpTo(g, n)
  BY <1>1, UpToExists
<1>4. IsUpTo(f, n)
  BY <1>3
<1> HIDE DEF f
<1>5. f[n] = g[n] /\ g[n] \in SUBSET SUBSET Accesses
  BY <1>1, <1>3, <1>4, UpToAgree
<1> QED
  BY <1>2, <1>5

\* What the cursor yields.
Entries == [addr : 0 .. MaxAddr, chunk : Chunks, count : Nat]

Cursors == {s \in Seq(Entries) :
    \A i, j \in 1 .. Len(s) : i < j =>
        s[i].addr < s[j].addr \/ (s[i].addr = s[j].addr /\ s[i].chunk < s[j].chunk)}

\* The cursor yields entries by address and chunk.
LEMMA CursorType ==
    ASSUME NEW acc, acc \subseteq Accesses
    PROVE  CursorOf(acc) \in Cursors
<1> DEFINE P == {<<a[1], ChunkOf(a[2])>> : a \in acc}
           sorted == Sorted(P)
           n == Cardinality(P)
           Counted(i) == {a \in acc : a[1] = sorted[i][1] /\ ChunkOf(a[2]) = sorted[i][2]}
<1>0. NumChunks \in Nat /\ MaxAddr \in Nat
  BY MemPlanAssumption
<1>1. P \subseteq (0 .. MaxAddr) \X Chunks
  <2>1. ASSUME NEW a \in acc PROVE <<a[1], ChunkOf(a[2])>> \in (0 .. MaxAddr) \X Chunks
    <3>1. a[1] \in 0 .. MaxAddr /\ a[2] \in Steps
      BY DEF Accesses, MinAddr
    <3> QED
      BY <3>1, StepInChunk
  <2> QED
    BY <2>1
<1>2. IsFiniteSet(0 .. MaxAddr) /\ IsFiniteSet(Chunks) /\ IsFiniteSet(Steps)
  <2>1. LastStep(NumChunks - 1) \in Int /\ FirstStep(0) \in Int
    BY <1>0, MemPlanAssumption DEF LastStep, FirstStep, StepBase
  <2>2. NumChunks - 1 \in Int
    BY <1>0
  <2>3. IsFiniteSet(0 .. MaxAddr)
    BY <1>0, FS_Interval
  <2>4. IsFiniteSet(0 .. NumChunks - 1)
    BY <2>2, FS_Interval
  <2>5. IsFiniteSet(FirstStep(0) .. LastStep(NumChunks - 1))
    BY <2>1, FS_Interval
  <2> QED
    BY <2>3, <2>4, <2>5 DEF Chunks, Steps
<1>3. IsFiniteSet(P)
  <2>1. IsFiniteSet((0 .. MaxAddr) \X Chunks)
    BY <1>2, FS_Product
  <2> QED
    BY <1>1, <2>1, FS_Subset
<1>4. IsFiniteSet(acc)
  <2>1. IsFiniteSet(Accesses)
    BY <1>2, FS_Product DEF Accesses, MinAddr
  <2> QED
    BY <2>1, FS_Subset
<1>5. P \subseteq Nat \X Nat
  BY <1>0, <1>1 DEF Chunks
<1>6. CursorOf(acc) = [i \in 1 .. Len(sorted) |->
            [addr |-> sorted[i][1], chunk |-> sorted[i][2], count |-> Cardinality(Counted(i))]]
  BY DEF CursorOf
<1>7. ASSUME NEW i PROVE Cardinality(Counted(i)) \in Nat
  <2>1. Counted(i) \in SUBSET acc
    OBVIOUS
  <2>2. IsFiniteSet(Counted(i))
    BY <1>4, <2>1, FS_Subset
  <2> QED
    BY <2>2, FS_CardinalityType
<1> HIDE DEF P, Counted
<1>8. /\ n \in Nat /\ sorted \in [1 .. n -> P]
      /\ \A i, j \in 1 .. n : i < j => Before(sorted[i], sorted[j])
  BY <1>3, <1>5, SortedLists
<1> HIDE DEF sorted, n
<1>9. Len(sorted) = n
  BY <1>8
<1> DEFINE s == CursorOf(acc)
<1>10. ASSUME NEW i \in 1 .. n
       PROVE  /\ s[i] \in Entries /\ s[i].addr = sorted[i][1] /\ s[i].chunk = sorted[i][2]
  <2>1. s[i] = [addr |-> sorted[i][1], chunk |-> sorted[i][2], count |-> Cardinality(Counted(i))]
    BY <1>6, <1>9
  <2>2. sorted[i] \in (0 .. MaxAddr) \X Chunks
    BY <1>1, <1>8
  <2>3. sorted[i][1] \in 0 .. MaxAddr /\ sorted[i][2] \in Chunks
    BY <2>2
  <2> HIDE DEF s
  <2> QED
    BY <1>7, <2>1, <2>3 DEF Entries
<1>11. s \in [1 .. n -> Entries]
  <2>1. DOMAIN s = 1 .. n /\ s = [i \in 1 .. n |-> s[i]]
    BY <1>6, <1>9
  <2> HIDE DEF s
  <2> QED
    BY <1>10, <2>1
<1> HIDE DEF s
<1>12. s \in Seq(Entries) /\ Len(s) = n
  BY <1>8, <1>11
<1>13. ASSUME NEW i \in 1 .. n, NEW j \in 1 .. n, i < j
       PROVE  s[i].addr < s[j].addr \/ (s[i].addr = s[j].addr /\ s[i].chunk < s[j].chunk)
  BY <1>8, <1>10, <1>13 DEF Before
<1>14. s \in Cursors
  BY <1>12, <1>13 DEF Cursors
<1> QED
  BY <1>14 DEF s

-----------------------------------------------------------------------------
(* The inductive invariant of the planner. *)

CheckPoints == [fromAddr : Nat, fromSkip : Nat, toAddr : Nat, toCount : Nat, count : Nat,
                interSkip : Nat \cup {None}]

ChunkMaps == UNION {[D -> CheckPoints] : D \in SUBSET Chunks}

Segment == [chunks : ChunkMaps, isLast : BOOLEAN]
Segments == Seq(Segment)

\* No check point of m has got to an address behind addr.
UpToAddr(m, addr) == \A c \in DOMAIN m : m[c].toAddr <= addr

Types ==
    /\ TypeOK
    /\ cursor \in Cursors /\ entry \in Entries \cup {NoEntry} /\ total \in Nat
    /\ lastAddr \in Nat /\ refAddr \in Nat /\ refSkip \in Nat
    /\ current \in ChunkMaps /\ segments \in Segments

\* Where the planner is: what the cursor still yields comes behind lastAddr and
\* currentChunk, the entry is the one they were taken from, and the reference is
\* the entry before it until its own rows are added.
Position ==
    /\ \A i \in 1 .. Len(cursor) :
            \/ lastAddr < cursor[i].addr
            \/ lastAddr = cursor[i].addr /\ currentChunk < cursor[i].chunk
    /\ pc \in {"intermediate", "rows"} =>
            entry \in Entries /\ entry.addr = lastAddr /\ entry.chunk = currentChunk
    /\ pc \in {"next", "rows"} => refAddr = lastAddr /\ refChunk = currentChunk
    /\ pc = "intermediate" =>
            /\ refChunk = lastChunk
            /\ \/ refAddr < lastAddr
               \/ refAddr = lastAddr /\ lastChunk < currentChunk
    /\ UpToAddr(current, lastAddr)

\* The internal reads planned before the entry are those of its distance from the
\* entry before it, if that is of the same address.
Planned ==
    pc = "intermediate" =>
        total = IF refAddr = lastAddr THEN IntermediateSteps(lastChunk, currentChunk) ELSE 0

IInv == Types /\ Position /\ Planned

\* Every step of a chunk is a step of the execution; here the first one.
LEMMA FirstOfChunk ==
    ASSUME NEW c \in Chunks
    PROVE  /\ c \in Nat /\ FirstStep(c) \in Steps /\ ChunkOf(FirstStep(c)) = c
<1>0. NumChunks \in Nat /\ ChunkSteps \in Nat /\ ChunkSteps >= 2 /\ c \in Nat /\ c <= NumChunks - 1
  BY MemPlanAssumption DEF Chunks
<1>1. c * ChunkSteps <= (NumChunks - 1) * ChunkSteps /\ c * ChunkSteps \in Nat
      /\ (NumChunks - 1) * ChunkSteps \in Int
  BY <1>0, TimesGrows
<1>2. FirstStep(c) = c * ChunkSteps + 1 /\ FirstStep(0) = 1
      /\ LastStep(NumChunks - 1) = (NumChunks - 1) * ChunkSteps + ChunkSteps
  BY <1>0 DEF FirstStep, LastStep, StepBase
<1>3. FirstStep(c) \in Steps
  BY <1>0, <1>1, <1>2 DEF Steps
<1>4. ChunkSteps * c = c * ChunkSteps
  BY <1>0
<1>5. ChunkOf(FirstStep(c)) = (c * ChunkSteps) \div ChunkSteps
  BY <1>0, <1>1, <1>2 DEF ChunkOf, StepBase
<1>6. (c * ChunkSteps) \div ChunkSteps = c
  BY <1>0, <1>1, <1>4, QuotientIs
<1> QED
  BY <1>0, <1>3, <1>5, <1>6

\* A step of an earlier chunk is an earlier step.
LEMMA EarlierChunk ==
    ASSUME NEW s \in Steps, NEW t \in Steps, ChunkOf(s) < ChunkOf(t)
    PROVE  s < t
<1> DEFINE c == ChunkOf(s)
           d == ChunkOf(t)
<1>1. /\ c \in Nat /\ d \in Nat /\ s \in Nat /\ t \in Nat /\ s <= LastStep(c) /\ FirstStep(d) <= t
  BY StepInChunk
<1>2. ChunkSteps \in Nat
  BY MemPlanAssumption
<1>3. c < d
  OBVIOUS
<1> HIDE DEF c, d
<1>4. (c + 1) * ChunkSteps <= d * ChunkSteps
  BY <1>1, <1>2, <1>3, TimesGrows
<1>5. (c + 1) * ChunkSteps = c * ChunkSteps + ChunkSteps /\ c * ChunkSteps \in Nat
      /\ d * ChunkSteps \in Nat
  BY <1>1, <1>2
<1> QED
  BY <1>1, <1>2, <1>4, <1>5 DEF FirstStep, LastStep, StepBase

\* The planner's number of internal reads is a number.
LEMMA IntermediateStepsType ==
    ASSUME NEW c \in Chunks \cup {None}, NEW d \in Chunks, c < d
    PROVE  IntermediateSteps(c, d) \in Nat
<1>0. CASE c = None
  BY <1>0 DEF IntermediateSteps
<1> SUFFICES ASSUME c \in Chunks PROVE IntermediateSteps(c, d) \in Nat
  BY <1>0
<1> DEFINE s == FirstStep(c)
           t == FirstStep(d)
           ir == GapReads(s, t)
<1>1. s \in Steps /\ t \in Steps /\ ChunkOf(s) = c /\ ChunkOf(t) = d
  BY FirstOfChunk
<1> HIDE DEF s, t
<1>2. s < t
  BY <1>1, EarlierChunk
<1>3. ir.full \in Nat /\ ir.zero \in 0 .. 1 /\ IntermediateSteps(c, d) = ir.full + ir.zero
  BY <1>1, <1>2, GapsAgree
<1> QED
  BY <1>3

\* What a map of check points holds.
LEMMA ChunkMapType ==
    ASSUME NEW m \in ChunkMaps
    PROVE  DOMAIN m \in SUBSET Chunks /\ \A c \in DOMAIN m : m[c] \in CheckPoints
BY DEF ChunkMaps

\* A function of check points is such a map.
LEMMA ChunkMapIs ==
    ASSUME NEW D \in SUBSET Chunks, NEW m \in [D -> CheckPoints]
    PROVE  m \in ChunkMaps
BY DEF ChunkMaps

\* add_rows of a check point
LEMMA ExtendType ==
    ASSUME NEW cp \in CheckPoints, NEW addr \in Nat, NEW count \in Nat
    PROVE  /\ ExtendCheckPoint(cp, addr, count) \in CheckPoints
           /\ ExtendCheckPoint(cp, addr, count).toAddr = addr
<1> DEFINE to == IF addr = cp.toAddr THEN cp.toCount + count ELSE count
           x == ExtendCheckPoint(cp, addr, count)
<1>1. /\ cp.fromAddr \in Nat /\ cp.fromSkip \in Nat /\ cp.interSkip \in Nat \cup {None}
      /\ cp.count + count \in Nat /\ to \in Nat
      /\ DOMAIN cp = {"fromAddr", "fromSkip", "toAddr", "toCount", "count", "interSkip"}
  BY DEF CheckPoints
<1>2. /\ DOMAIN x = DOMAIN cp /\ x = [f \in DOMAIN x |-> x[f]]
      /\ x.fromAddr = cp.fromAddr /\ x.fromSkip = cp.fromSkip /\ x.interSkip = cp.interSkip
  BY <1>1 DEF ExtendCheckPoint
<1>3. x.toAddr = addr /\ x.count = cp.count + count /\ x.toCount = to
  BY <1>1 DEF ExtendCheckPoint
<1> HIDE DEF x, to
<1>4. x \in CheckPoints
  BY <1>1, <1>2, <1>3 DEF CheckPoints
<1> QED
  BY <1>3, <1>4 DEF x

\* add_chunk_to_segment
LEMMA AddChunkType ==
    ASSUME NEW m \in ChunkMaps, NEW chunk \in Chunks, NEW addr \in Nat, NEW count \in Nat,
           NEW skip \in Nat, NEW bound \in Nat, UpToAddr(m, bound), addr <= bound
    PROVE  /\ AddChunk(m, chunk, addr, count, skip) \in ChunkMaps
           /\ UpToAddr(AddChunk(m, chunk, addr, count, skip), bound)
<1> DEFINE n == AddChunk(m, chunk, addr, count, skip)
           D == DOMAIN m \cup {chunk}
<1>1. DOMAIN m \in SUBSET Chunks /\ \A c \in DOMAIN m : m[c] \in CheckPoints
  BY ChunkMapType
<1>2. DOMAIN n = D /\ n = [c \in D |-> n[c]]
  BY DEF AddChunk
<1>3. ASSUME NEW c \in D
      PROVE  n[c] \in CheckPoints /\ n[c].toAddr <= bound
  <2>0. n[c] = IF c # chunk THEN m[c]
               ELSE IF c \in DOMAIN m THEN ExtendCheckPoint(m[c], addr, count)
               ELSE CheckPoint(addr, skip, count, None)
    BY DEF AddChunk
  <2>1. CASE c # chunk
    <3>1. c \in DOMAIN m /\ n[c] = m[c]
      BY <2>0, <2>1
    <3> QED
      BY <1>1, <3>1 DEF UpToAddr
  <2>2. CASE c = chunk /\ c \in DOMAIN m
    <3>1. n[c] = ExtendCheckPoint(m[c], addr, count) /\ m[c] \in CheckPoints
      BY <1>1, <2>0, <2>2
    <3>2. ExtendCheckPoint(m[c], addr, count) \in CheckPoints
          /\ ExtendCheckPoint(m[c], addr, count).toAddr = addr
      BY <3>1, ExtendType
    <3> QED
      BY <3>1, <3>2
  <2>3. CASE c = chunk /\ c \notin DOMAIN m
    <3>1. n[c] = CheckPoint(addr, skip, count, None)
      BY <2>0, <2>3
    <3>2. /\ CheckPoint(addr, skip, count, None) \in CheckPoints
          /\ CheckPoint(addr, skip, count, None).toAddr = addr
      BY DEF CheckPoint, CheckPoints
    <3> QED
      BY <3>1, <3>2
  <2> QED
    BY <2>1, <2>2, <2>3
<1> HIDE DEF n
<1>4. n \in [D -> CheckPoints] /\ D \in SUBSET Chunks
  BY <1>1, <1>2, <1>3
<1>5. n \in ChunkMaps /\ UpToAddr(n, bound)
  BY <1>2, <1>3, <1>4, ChunkMapIs DEF UpToAddr
<1> QED
  BY <1>5 DEF n

\* open_segment
LEMMA OpenedType ==
    ASSUME refChunk \in Chunks \cup {None}, refAddr \in Nat, refSkip \in Nat, NEW skip \in Nat,
           NEW bound \in Nat, refAddr <= bound
    PROVE  Opened(skip) \in ChunkMaps /\ UpToAddr(Opened(skip), bound)
<1>1. CASE refChunk = None
  <2>1. Opened(skip) = [c \in {} |-> 0]
    BY <1>1 DEF Opened, NoChunks
  <2>2. Opened(skip) \in [{} -> CheckPoints] /\ DOMAIN Opened(skip) = {}
    BY <2>1
  <2> QED
    BY <2>2, ChunkMapIs DEF UpToAddr
<1>2. CASE refChunk # None
  <2> DEFINE p == CheckPoint(refAddr, refSkip, 0, skip)
  <2>1. Opened(skip) = [c \in {refChunk} |-> p] /\ refChunk \in Chunks
    BY <1>2 DEF Opened
  <2>2. p \in CheckPoints /\ p.toAddr = refAddr
    BY DEF CheckPoint, CheckPoints
  <2> HIDE DEF p
  <2>3. Opened(skip) \in [{refChunk} -> CheckPoints] /\ {refChunk} \in SUBSET Chunks
    BY <2>1, <2>2
  <2>4. UpToAddr(Opened(skip), bound)
    BY <2>1, <2>2 DEF UpToAddr
  <2> QED
    BY <2>3, <2>4, ChunkMapIs
<1> QED
  BY <1>1, <1>2

\* close_segment
LEMMA ClosedType ==
    ASSUME segments \in Segments, NEW m \in ChunkMaps, NEW isLast \in BOOLEAN
    PROVE  Closed(m, isLast) \in Segments
<1>1. [chunks |-> m, isLast |-> isLast] \in Segment
  BY DEF Segment
<1> QED
  BY <1>1 DEF Closed, Segments

\* What a list of segments holds.
LEMMA SegmentsLast ==
    ASSUME NEW s \in Segments
    PROVE  \A k \in 1 .. Len(s) : s[k] \in Segment /\ s[k].isLast \in BOOLEAN
<1>1. ASSUME NEW k \in 1 .. Len(s) PROVE s[k] \in Segment
  BY DEF Segments
<1>2. ASSUME NEW e \in Segment PROVE e.isLast \in BOOLEAN
  BY DEF Segment
<1> QED
  BY <1>1, <1>2

\* What remains of the cursor.
LEMMA CursorTail ==
    ASSUME NEW s \in Cursors, s # <<>>
    PROVE  /\ Head(s) \in Entries /\ Tail(s) \in Cursors
           /\ \A i \in 1 .. Len(Tail(s)) :
                \/ Head(s).addr < Tail(s)[i].addr
                \/ Head(s).addr = Tail(s)[i].addr /\ Head(s).chunk < Tail(s)[i].chunk
<1>1. /\ s \in Seq(Entries) /\ Len(s) \in Nat /\ Len(s) > 0
      /\ \A i, j \in 1 .. Len(s) : i < j =>
            s[i].addr < s[j].addr \/ (s[i].addr = s[j].addr /\ s[i].chunk < s[j].chunk)
  BY DEF Cursors
<1>2. /\ Head(s) = s[1] /\ Head(s) \in Entries /\ Tail(s) \in Seq(Entries)
      /\ Len(Tail(s)) = Len(s) - 1
  BY <1>1
<1>3. ASSUME NEW i \in 1 .. Len(Tail(s))
      PROVE  Tail(s)[i] = s[i + 1] /\ i + 1 \in 1 .. Len(s)
  BY <1>1, <1>2
<1>4. Tail(s) \in Cursors
  <2>1. ASSUME NEW i \in 1 .. Len(Tail(s)), NEW j \in 1 .. Len(Tail(s)), i < j
        PROVE  \/ Tail(s)[i].addr < Tail(s)[j].addr
               \/ Tail(s)[i].addr = Tail(s)[j].addr /\ Tail(s)[i].chunk < Tail(s)[j].chunk
    <3>1. i + 1 < j + 1
      BY <1>1, <1>2, <2>1
    <3> QED
      BY <1>1, <1>3, <3>1
  <2> QED
    BY <1>2, <2>1 DEF Cursors
<1>5. ASSUME NEW i \in 1 .. Len(Tail(s))
      PROVE  \/ Head(s).addr < Tail(s)[i].addr
             \/ Head(s).addr = Tail(s)[i].addr /\ Head(s).chunk < Tail(s)[i].chunk
  <2>1. 1 \in 1 .. Len(s) /\ 1 < i + 1
    BY <1>1, <1>2
  <2> QED
    BY <1>1, <1>2, <1>3, <2>1
<1> QED
  BY <1>2, <1>4, <1>5

\* The planner starts before all entries.
LEMMA InitIInv ==
    ASSUME Init
    PROVE  IInv
<1>1. /\ pc = "next" /\ accesses \subseteq Accesses /\ cursor \in Cursors /\ entry = NoEntry
      /\ pending = 0 /\ total = 0 /\ rowsAvailable = Rows /\ lastAddr = 0 /\ segments = <<>>
      /\ current = [c \in {} |-> 0] /\ lastChunk = None /\ currentChunk = None
      /\ refChunk = None /\ refAddr = 0 /\ refSkip = 0
  BY ExecutionsAre, CursorType DEF Init, MinAddr, NoChunks
<1>2. Rows \in Nat /\ MaxAddr \in Nat /\ NumChunks \in Nat
  BY MemPlanAssumption
<1>3. current \in ChunkMaps /\ DOMAIN current = {}
  <2>1. current \in [{} -> CheckPoints] /\ DOMAIN current = {}
    BY <1>1
  <2> QED
    BY <2>1, ChunkMapIs
<1>4. TypeOK
  BY <1>1, <1>2, <1>3 DEF TypeOK, Accesses
<1>5. Types
  BY <1>1, <1>3, <1>4 DEF Types, Segments
<1>6. Position
  <2>1. ASSUME NEW i \in 1 .. Len(cursor)
        PROVE  0 < cursor[i].addr \/ (0 = cursor[i].addr /\ -1 < cursor[i].chunk)
    <3>1. cursor[i] \in Entries
      BY <1>1 DEF Cursors
    <3> QED
      BY <1>2, <3>1 DEF Entries, Chunks
  <2> QED
    BY <1>1, <1>3, <2>1 DEF Position, None, UpToAddr
<1> QED
  BY <1>1, <1>5, <1>6 DEF IInv, Planned

\* The next entry of the cursor.
LEMMA NextEntryIInv ==
    ASSUME IInv, NextEntry
    PROVE  IInv'
<1> DEFINE e == Head(cursor)
           rows == IF lastAddr = e.addr THEN IntermediateSteps(currentChunk, e.chunk) ELSE 0
<1>0. /\ pc = "next" /\ cursor # <<>> /\ pc' = "intermediate"
      /\ entry' = e /\ lastChunk' = currentChunk /\ currentChunk' = e.chunk /\ lastAddr' = e.addr
      /\ total' = rows /\ pending' = rows /\ cursor' = Tail(cursor)
      /\ UNCHANGED <<accesses, rowsAvailable, segments, current, refChunk, refAddr, refSkip>>
  BY DEF NextEntry
<1>1. Types /\ Position
  BY DEF IInv
<1>2. /\ e \in Entries /\ Tail(cursor) \in Cursors
      /\ \A i \in 1 .. Len(Tail(cursor)) :
            \/ e.addr < Tail(cursor)[i].addr
            \/ e.addr = Tail(cursor)[i].addr /\ e.chunk < Tail(cursor)[i].chunk
  BY <1>0, <1>1, CursorTail DEF Types
<1>3. 1 \in 1 .. Len(cursor) /\ cursor[1] = e
  <2>1. cursor \in Seq(Entries)
    BY <1>1 DEF Types, Cursors
  <2> QED
    BY <1>0, <2>1
<1>4. \/ lastAddr < e.addr
      \/ lastAddr = e.addr /\ currentChunk < e.chunk
  BY <1>1, <1>3 DEF Position
<1> HIDE DEF e
<1>5. /\ MaxAddr \in Nat /\ NumChunks \in Nat /\ e.addr \in Nat /\ e.chunk \in Chunks
      /\ lastAddr \in Nat /\ currentChunk \in Chunks \cup {None}
  BY <1>1, <1>2, MemPlanAssumption DEF Entries, Types, TypeOK
<1>6. lastAddr = e.addr => currentChunk < e.chunk
  BY <1>4, <1>5
<1>7. rows \in Nat
  BY <1>5, <1>6, IntermediateStepsType
<1> HIDE DEF rows
<1>8. TypeOK'
  BY <1>0, <1>1, <1>5, <1>7 DEF Types, TypeOK
<1>9. Types'
  BY <1>0, <1>1, <1>2, <1>5, <1>7, <1>8 DEF Types
<1>10. UpToAddr(current, e.addr)
  <2>1. ASSUME NEW c \in DOMAIN current PROVE current[c].toAddr <= e.addr
    <3>1. current[c].toAddr \in Nat
      BY <1>1, ChunkMapType DEF Types, CheckPoints
    <3>2. current[c].toAddr <= lastAddr
      BY <1>1 DEF Position, UpToAddr
    <3> QED
      BY <1>4, <1>5, <3>1, <3>2
  <2> QED
    BY <2>1 DEF UpToAddr
<1>11. Position'
  <2>1. refAddr = lastAddr /\ refChunk = currentChunk
    BY <1>0, <1>1 DEF Position
  <2>2. UpToAddr(current, lastAddr)'
    BY <1>0, <1>10
  <2> QED
    BY <1>0, <1>2, <1>4, <1>5, <1>6, <2>1, <2>2 DEF Position
<1>12. Planned'
  <2>1. refAddr = lastAddr
    BY <1>0, <1>1 DEF Position
  <2> QED
    BY <1>0, <2>1 DEF Planned, rows
<1> QED
  BY <1>9, <1>11, <1>12 DEF IInv

\* Internal reads are put in a segment, which may end between them.
LEMMA ConsumeIntermediateIInv ==
    ASSUME IInv, ConsumeIntermediate
    PROVE  IInv'
<1> DEFINE rows == Min({pending, rowsAvailable})
<1>0. /\ pc = "intermediate" /\ pending > 0
      /\ segments' = IF rowsAvailable = 0 THEN Closed(current, FALSE) ELSE segments
      /\ current' = IF rowsAvailable = 0 THEN Opened(total - pending) ELSE current
      /\ rowsAvailable' = (IF rowsAvailable = 0 THEN Rows ELSE rowsAvailable) - rows
      /\ pending' = pending - rows
      /\ UNCHANGED <<pc, accesses, cursor, entry, total, lastAddr, lastChunk, currentChunk,
                     refChunk, refAddr, refSkip>>
  BY DEF ConsumeIntermediate
<1>1. Types /\ Position /\ Planned
  BY DEF IInv
<1>2. /\ pending \in 0 .. total /\ total \in Nat /\ rowsAvailable \in 0 .. Rows
      /\ Rows \in Nat \ {0} /\ lastAddr \in Nat /\ refAddr \in Nat /\ refSkip \in Nat
      /\ refChunk \in Chunks \cup {None} /\ current \in ChunkMaps /\ segments \in Segments
  BY <1>1, MemPlanAssumption DEF Types, TypeOK
<1>3. rows = IF pending <= rowsAvailable THEN pending ELSE rowsAvailable
  BY <1>2, MinOfTwo
<1> HIDE DEF rows
<1>4. rowsAvailable' \in 0 .. Rows /\ pending' \in 0 .. total
  BY <1>0, <1>2, <1>3
<1>5. segments' \in Segments
  BY <1>0, <1>2, ClosedType
<1>6. current' \in ChunkMaps /\ UpToAddr(current', lastAddr)
  <2>1. total - pending \in Nat /\ refAddr <= lastAddr
    BY <1>0, <1>1, <1>2 DEF Position
  <2>2. Opened(total - pending) \in ChunkMaps /\ UpToAddr(Opened(total - pending), lastAddr)
    BY <1>2, <2>1, OpenedType
  <2> QED
    BY <1>0, <1>1, <1>2, <2>2 DEF Position
<1>7. DOMAIN current' \subseteq Chunks
  BY <1>6, ChunkMapType
<1>8. \A s \in 1 .. Len(segments') : segments'[s].isLast \in BOOLEAN
  BY <1>5, SegmentsLast
<1>9. TypeOK'
  BY <1>0, <1>1, <1>4, <1>7, <1>8 DEF Types, TypeOK
<1>10. Types'
  BY <1>0, <1>1, <1>5, <1>6, <1>9 DEF Types
<1>11. Position' /\ Planned'
  BY <1>0, <1>1, <1>6 DEF Position, Planned
<1> QED
  BY <1>10, <1>11 DEF IInv

\* The entry's own rows start; a full segment is closed before them.
LEMMA PreopenIInv ==
    ASSUME IInv, Preopen
    PROVE  IInv'
<1> DEFINE last == IF total > 0 THEN AddChunk(current, currentChunk, entry.addr, 1, 0) ELSE current
<1>0. /\ pc = "intermediate" /\ pc' = "rows" /\ pending = 0
      /\ segments' = IF rowsAvailable = 0 THEN Closed(last, FALSE) ELSE segments
      /\ current' = IF rowsAvailable = 0 THEN Opened(total) ELSE current
      /\ rowsAvailable' = IF rowsAvailable = 0 THEN Rows ELSE rowsAvailable
      /\ refChunk' = entry.chunk /\ refAddr' = entry.addr /\ refSkip' = 0
      /\ total' = entry.count /\ pending' = entry.count
      /\ UNCHANGED <<accesses, cursor, entry, lastAddr, lastChunk, currentChunk>>
  BY DEF Preopen
<1>1. Types /\ Position
  BY DEF IInv
<1>2. /\ total \in Nat /\ rowsAvailable \in 0 .. Rows /\ Rows \in Nat \ {0} /\ MaxAddr \in Nat
      /\ lastAddr \in Nat /\ refAddr \in Nat /\ refSkip \in Nat
      /\ refChunk \in Chunks \cup {None} /\ current \in ChunkMaps /\ segments \in Segments
      /\ entry \in Entries /\ entry.addr = lastAddr /\ entry.chunk = currentChunk
      /\ refAddr <= lastAddr /\ UpToAddr(current, lastAddr)
  BY <1>0, <1>1, MemPlanAssumption DEF Types, TypeOK, Position
<1>3. entry.addr \in Nat /\ entry.chunk \in Chunks /\ entry.count \in Nat
  BY <1>2 DEF Entries
<1>4. last \in ChunkMaps
  BY <1>2, <1>3, AddChunkType
<1> HIDE DEF last
<1>5. segments' \in Segments
  BY <1>0, <1>2, <1>4, ClosedType
<1>6. current' \in ChunkMaps /\ UpToAddr(current', lastAddr)
  <2>1. Opened(total) \in ChunkMaps /\ UpToAddr(Opened(total), lastAddr)
    BY <1>2, OpenedType
  <2> QED
    BY <1>0, <1>2, <2>1
<1>7. rowsAvailable' \in 0 .. Rows /\ pending' \in 0 .. total' /\ total' \in Nat
  BY <1>0, <1>2, <1>3
<1>8. DOMAIN current' \subseteq Chunks
  BY <1>6, ChunkMapType
<1>9. \A s \in 1 .. Len(segments') : segments'[s].isLast \in BOOLEAN
  BY <1>5, SegmentsLast
<1>10. TypeOK'
  BY <1>0, <1>1, <1>3, <1>7, <1>8, <1>9 DEF Types, TypeOK
<1>11. Types'
  BY <1>0, <1>1, <1>3, <1>5, <1>6, <1>7, <1>10 DEF Types
<1>12. Position' /\ Planned'
  BY <1>0, <1>1, <1>2, <1>6 DEF Position, Planned
<1> QED
  BY <1>11, <1>12 DEF IInv

\* Rows of the entry are put in a segment, which may end between them.
LEMMA ConsumeRowsIInv ==
    ASSUME IInv, ConsumeRows
    PROVE  IInv'
<1> DEFINE rows == Min({pending, rowsAvailable})
           chunks == IF rowsAvailable = 0 THEN Opened(0) ELSE current
<1>0. /\ pc = "rows" /\ pending > 0
      /\ segments' = IF rowsAvailable = 0 THEN Closed(current, FALSE) ELSE segments
      /\ current' = AddChunk(chunks, currentChunk, entry.addr, rows, total - pending)
      /\ rowsAvailable' = (IF rowsAvailable = 0 THEN Rows ELSE rowsAvailable) - rows
      /\ refSkip' = refSkip + rows
      /\ pending' = pending - rows
      /\ UNCHANGED <<pc, accesses, cursor, entry, total, lastAddr, lastChunk, currentChunk,
                     refChunk, refAddr>>
  BY DEF ConsumeRows
<1>1. Types /\ Position
  BY DEF IInv
<1>2. /\ pending \in 0 .. total /\ total \in Nat /\ rowsAvailable \in 0 .. Rows
      /\ Rows \in Nat \ {0} /\ MaxAddr \in Nat
      /\ lastAddr \in Nat /\ refAddr \in Nat /\ refSkip \in Nat
      /\ refChunk \in Chunks \cup {None} /\ current \in ChunkMaps /\ segments \in Segments
      /\ entry \in Entries /\ entry.addr = lastAddr /\ entry.chunk = currentChunk
      /\ refAddr = lastAddr /\ UpToAddr(current, lastAddr)
  BY <1>0, <1>1, MemPlanAssumption DEF Types, TypeOK, Position
<1>3. entry.addr \in Nat /\ currentChunk \in Chunks
  BY <1>2 DEF Entries
<1>4. rows = IF pending <= rowsAvailable THEN pending ELSE rowsAvailable
  BY <1>2, MinOfTwo
<1> HIDE DEF rows
<1>5. /\ rows \in Nat /\ total - pending \in Nat /\ rowsAvailable' \in 0 .. Rows
      /\ pending' \in 0 .. total /\ refSkip' \in Nat
  BY <1>0, <1>2, <1>4
<1>6. chunks \in ChunkMaps /\ UpToAddr(chunks, lastAddr)
  <2>1. Opened(0) \in ChunkMaps /\ UpToAddr(Opened(0), lastAddr)
    BY <1>2, OpenedType
  <2> QED
    BY <1>2, <2>1
<1> HIDE DEF chunks
<1>7. current' \in ChunkMaps /\ UpToAddr(current', lastAddr)
  BY <1>0, <1>2, <1>3, <1>5, <1>6, AddChunkType
<1>8. segments' \in Segments
  BY <1>0, <1>2, ClosedType
<1>9. DOMAIN current' \subseteq Chunks
  BY <1>7, ChunkMapType
<1>10. \A s \in 1 .. Len(segments') : segments'[s].isLast \in BOOLEAN
  BY <1>8, SegmentsLast
<1>11. TypeOK'
  BY <1>0, <1>1, <1>5, <1>9, <1>10 DEF Types, TypeOK
<1>12. Types'
  BY <1>0, <1>1, <1>5, <1>7, <1>8, <1>11 DEF Types
<1>13. Position' /\ Planned'
  BY <1>0, <1>1, <1>7 DEF Position, Planned
<1> QED
  BY <1>12, <1>13 DEF IInv

\* The end of an entry changes pc only.
LEMMA EndEntryIInv ==
    ASSUME IInv, EndEntry
    PROVE  IInv'
<1>0. /\ pc = "rows" /\ pc' = "next"
      /\ UNCHANGED <<accesses, cursor, entry, pending, total, rowsAvailable, lastAddr, segments,
                     current, lastChunk, currentChunk, refChunk, refAddr, refSkip>>
  BY DEF EndEntry, plannerVars
<1> QED
  BY <1>0 DEF IInv, Types, TypeOK, Position, Planned

\* The last segment is closed, or the one before it marked.
LEMMA CloseLastIInv ==
    ASSUME IInv, CloseLast
    PROVE  IInv'
<1> DEFINE marked == [s \in 1 .. Len(segments) |->
                        [segments[s] EXCEPT !.isLast = @ \/ s = Len(segments)]]
<1>0. /\ pc = "next" /\ pc' = "witness"
      /\ segments' = IF rowsAvailable < Rows THEN Closed(current, TRUE) ELSE marked
      /\ UNCHANGED <<accesses, cursor, entry, pending, total, rowsAvailable, lastAddr, current,
                     lastChunk, currentChunk, refChunk, refAddr, refSkip>>
  BY DEF CloseLast
<1>1. Types /\ Position
  BY DEF IInv
<1>2. current \in ChunkMaps /\ segments \in Segments
  BY <1>1 DEF Types
<1>3. Closed(current, TRUE) \in Segments
  BY <1>2, ClosedType
<1>4. marked \in Segments
  <2>1. ASSUME NEW e \in Segment, NEW b \in BOOLEAN
        PROVE  [e EXCEPT !.isLast = b] \in Segment
    BY DEF Segment
  <2>2. ASSUME NEW s \in 1 .. Len(segments)
        PROVE  [segments[s] EXCEPT !.isLast = @ \/ s = Len(segments)] \in Segment
    <3> DEFINE b == segments[s].isLast \/ s = Len(segments)
    <3>1. segments[s] \in Segment /\ b \in BOOLEAN
      BY <1>2, SegmentsLast
    <3>2. [segments[s] EXCEPT !.isLast = b] \in Segment
      BY <2>1, <3>1
    <3> QED
      BY <3>2
  <2>3. Len(segments) \in Nat
    BY <1>2 DEF Segments
  <2>4. marked \in [1 .. Len(segments) -> Segment]
    BY <2>2
  <2> HIDE DEF marked
  <2> QED
    BY <2>3, <2>4 DEF Segments
<1> HIDE DEF marked
<1>5. segments' \in Segments
  BY <1>0, <1>3, <1>4
<1>6. \A s \in 1 .. Len(segments') : segments'[s].isLast \in BOOLEAN
  BY <1>5, SegmentsLast
<1>7. TypeOK'
  BY <1>0, <1>1, <1>6 DEF Types, TypeOK
<1>8. Types'
  BY <1>0, <1>1, <1>5, <1>7 DEF Types
<1>9. Position' /\ Planned'
  BY <1>0, <1>1 DEF Position, Planned
<1> QED
  BY <1>8, <1>9 DEF IInv

\* Computing a witness leaves the plan alone.
LEMMA ComputeWitnessIInv ==
    ASSUME IInv, ComputeWitness
    PROVE  IInv'
<1>0. /\ pc = "witness" /\ pc' \in {"witness", "done", "panic"}
      /\ UNCHANGED <<accesses, cursor, entry, pending, total, rowsAvailable, lastAddr, segments,
                     current, lastChunk, currentChunk, refChunk, refAddr, refSkip>>
  BY DEF ComputeWitness, plannerVars
<1> QED
  BY <1>0 DEF IInv, Types, TypeOK, Position, Planned

\* Every step keeps the invariant.
LEMMA NextIInv ==
    ASSUME IInv, [Next]_vars
    PROVE  IInv'
<1>1. CASE UNCHANGED vars
  <2>1. UNCHANGED <<pc, accesses, cursor, entry, pending, total, rowsAvailable, lastAddr,
                    segments, current, lastChunk, currentChunk, refChunk, refAddr, refSkip>>
    BY <1>1 DEF vars, plannerVars
  <2> QED
    BY <2>1 DEF IInv, Types, TypeOK, Position, Planned
<1>2. CASE Terminated
  BY <1>1, <1>2 DEF Terminated
<1> QED
  BY <1>1, <1>2, NextEntryIInv, ConsumeIntermediateIInv, PreopenIInv, ConsumeRowsIInv,
     EndEntryIInv, CloseLastIInv, ComputeWitnessIInv DEF Next

\* The invariant of the planner, for every number of chunks, addresses, rows and
\* accesses, and every execution.
THEOREM Invariance == Spec => []IInv
<1>1. Init => IInv
  BY InitIInv
<1>2. IInv /\ [Next]_vars => IInv'
  BY NextIInv
<1> QED
  BY <1>1, <1>2, PTL DEF Spec

\* Type correctness of the planner's fields.
THEOREM TypeCorrect == Spec => []TypeOK
<1>1. IInv => TypeOK
  BY DEF IInv, Types
<1> QED
  BY <1>1, Invariance, PTL

\* add_rows of a check point never fails its assertion on the address: all rows
\* a chunk already has in the open segment are of addresses up to the entry's.
THEOREM CheckPointsOrdered == Spec => []CheckPointsGrow
<1>1. IInv => CheckPointsGrow
  BY DEF IInv, Position, CheckPointsGrow, UpToAddr
<1> QED
  BY <1>1, Invariance, PTL

\* Whatever the steps of the two accesses around a gap are: the internal reads
\* the planner has made room for, when it comes to an entry of the address of the
\* entry before, are those that MemSM puts between an access of the one chunk and
\* an access of the other, and they leave it a distance with a range check.
GapsPlanned ==
    pc = "intermediate" /\ refAddr = entry.addr =>
        \A last, step \in Steps :
            ChunkOf(last) = lastChunk /\ ChunkOf(step) = currentChunk =>
                LET ir == GapReads(last, step)
                IN  /\ total = ir.full + ir.zero
                    /\ step - (last + ir.full * StepMaxDiff) \in 1 .. StepMaxDiff

\* The planner's internal reads are MemSM's, in every state of the planner.
THEOREM PlannedGaps == Spec => []GapsPlanned
<1>1. ASSUME IInv, pc = "intermediate", refAddr = entry.addr,
             NEW last \in Steps, NEW step \in Steps,
             ChunkOf(last) = lastChunk, ChunkOf(step) = currentChunk
      PROVE  LET ir == GapReads(last, step)
             IN  /\ total = ir.full + ir.zero
                 /\ step - (last + ir.full * StepMaxDiff) \in 1 .. StepMaxDiff
  <2>1. /\ refAddr = lastAddr /\ lastChunk < currentChunk
        /\ total = IntermediateSteps(lastChunk, currentChunk)
    <3>1. refAddr \in Nat /\ lastAddr \in Nat /\ entry.addr = lastAddr
      BY <1>1 DEF IInv, Types, Position
    <3> QED
      BY <1>1, <3>1 DEF IInv, Position, Planned
  <2>2. last < step
    BY <1>1, <2>1, EarlierChunk
  <2> QED
    BY <1>1, <2>1, <2>2, GapsAgree
<1>2. IInv => GapsPlanned
  BY <1>1 DEF GapsPlanned
<1> QED
  BY <1>2, Invariance, PTL

-----------------------------------------------------------------------------
(* Sets of accesses. *)

\* An access is a pair of numbers; sets of accesses are finite.
LEMMA AccessType ==
    /\ Accesses \subseteq Nat \X Nat
    /\ \A x \in Accesses : /\ x = <<x[1], x[2]>> /\ x[1] \in Nat /\ x[1] <= MaxAddr
                           /\ x[2] \in Steps /\ x[2] \in Nat /\ ChunkOf(x[2]) \in Chunks
                           /\ ChunkOf(x[2]) \in Nat
    /\ IsFiniteSet(Accesses) /\ IsFiniteSet(Steps) /\ IsFiniteSet(0 .. MaxAddr)
<1>0. NumChunks \in Nat /\ MaxAddr \in Nat /\ ChunkSteps \in Nat
  BY MemPlanAssumption
<1>1. ASSUME NEW x \in Accesses
      PROVE  /\ x = <<x[1], x[2]>> /\ x[1] \in Nat /\ x[1] <= MaxAddr
             /\ x[2] \in Steps /\ x[2] \in Nat
             /\ ChunkOf(x[2]) \in Chunks /\ ChunkOf(x[2]) \in Nat
  <2>1. x = <<x[1], x[2]>> /\ x[1] \in 0 .. MaxAddr /\ x[2] \in Steps
    BY DEF Accesses, MinAddr
  <2> QED
    BY <1>0, <2>1, StepInChunk
<1>2. Accesses \subseteq Nat \X Nat
  BY <1>1
<1>3. LastStep(NumChunks - 1) \in Int /\ FirstStep(0) \in Int
  BY <1>0 DEF LastStep, FirstStep, StepBase
<1>4. IsFiniteSet(0 .. MaxAddr)
  BY <1>0, FS_Interval
<1>5. IsFiniteSet(Steps)
  <2>1. IsFiniteSet(FirstStep(0) .. LastStep(NumChunks - 1))
    BY <1>3, FS_Interval
  <2> QED
    BY <2>1 DEF Steps
<1>6. IsFiniteSet(Accesses)
  BY <1>4, <1>5, FS_Product DEF Accesses, MinAddr
<1> QED
  BY <1>1, <1>2, <1>4, <1>5, <1>6

\* Sorted lists every element once.
LEMMA SortedOnto ==
    ASSUME NEW S, S \subseteq Nat \X Nat, IsFiniteSet(S)
    PROVE  /\ Cardinality(S) \in Nat /\ Sorted(S) \in Seq(S) /\ Len(Sorted(S)) = Cardinality(S)
           /\ \A x \in S : \E i \in 1 .. Cardinality(S) : Sorted(S)[i] = x
           /\ \A i, j \in 1 .. Cardinality(S) : i < j => Before(Sorted(S)[i], Sorted(S)[j])
<1> DEFINE n == Cardinality(S)
           f == Sorted(S)
<1>1. n \in Nat /\ f \in [1 .. n -> S] /\ \A i, j \in 1 .. n : i < j => Before(f[i], f[j])
  BY SortedLists
<1> HIDE DEF f, n
<1>2. f \in Seq(S) /\ Len(f) = n
  BY <1>1
<1>3. ASSUME NEW i \in 1 .. n, NEW j \in 1 .. n, f[i] = f[j]
      PROVE  i = j
  <2>1. f[i] \in Nat \X Nat /\ f[j] \in Nat \X Nat
    BY <1>1
  <2>2. ~Before(f[i], f[j]) /\ ~Before(f[j], f[i])
    BY <1>3, <2>1, BeforeOrder
  <2> QED
    BY <1>1, <2>2
<1>4. f \in Injection(1 .. n, S)
  BY <1>1, <1>3 DEF Injection, IsInjective
<1>5. IsFiniteSet(1 .. n) /\ Cardinality(1 .. n) = n
  <2>1. IsFiniteSet(1 .. n) /\ Cardinality(1 .. n) = IF 1 > n THEN 0 ELSE n - 1 + 1
    BY <1>1, FS_Interval
  <2> QED
    BY <1>1, <2>1
<1>6. f \in Surjection(1 .. n, S)
  BY <1>4, <1>5, FS_Injection DEF n
<1>7. \A x \in S : \E i \in 1 .. n : f[i] = x
  BY <1>6 DEF Surjection
<1> QED
  BY <1>1, <1>2, <1>7 DEF f, n

\* A finite set of pairs has, for every number up to its size, a set of that
\* many first elements.
LEMMA FirstOf ==
    ASSUME NEW S, S \subseteq Nat \X Nat, IsFiniteSet(S), NEW k \in 0 .. Cardinality(S)
    PROVE  \E F \in SUBSET S : /\ Cardinality(F) = k
                               /\ \A x \in F, y \in S : Before(y, x) => y \in F
<1> DEFINE n == Cardinality(S)
           f == Sorted(S)
           F == {x \in S : \E i \in 1 .. k : f[i] = x}
<1>1. /\ n \in Nat /\ \A x \in S : \E i \in 1 .. n : f[i] = x
      /\ f \in [1 .. n -> S] /\ \A i, j \in 1 .. n : i < j => Before(f[i], f[j])
  BY SortedOnto, SortedLists
<1> HIDE DEF f
<1>2. k \in Nat /\ k <= n /\ 1 .. k \subseteq 1 .. n
  BY <1>1
<1> HIDE DEF n
<1>3. ASSUME NEW i \in 1 .. n, NEW j \in 1 .. n
      PROVE  (Before(f[i], f[j]) => i < j) /\ (f[i] = f[j] => i = j)
  <2>1. f[i] \in Nat \X Nat /\ f[j] \in Nat \X Nat
    BY <1>1
  <2>2. ~Before(f[i], f[i]) /\ (Before(f[i], f[j]) => ~Before(f[j], f[i]))
    BY <2>1, BeforeOrder
  <2>3. (i < j => Before(f[i], f[j])) /\ (j < i => Before(f[j], f[i])) /\ i \in Int /\ j \in Int
    BY <1>1
  <2>4. ASSUME Before(f[i], f[j]) PROVE i < j
    <3>1. ~(j < i)
      BY <2>2, <2>3, <2>4
    <3>2. i # j
      BY <2>2, <2>4
    <3> QED
      BY <2>3, <3>1, <3>2
  <2>5. ASSUME f[i] = f[j] PROVE i = j
    <3>1. ~Before(f[i], f[j]) /\ ~Before(f[j], f[i])
      BY <2>2, <2>5
    <3> QED
      BY <2>3, <3>1
  <2> QED
    BY <2>4, <2>5
<1>4. ASSUME NEW x \in F, NEW y \in S, Before(y, x)
      PROVE  y \in F
  <2>1. PICK i \in 1 .. k : f[i] = x
    OBVIOUS
  <2>2. PICK j \in 1 .. n : f[j] = y
    BY <1>1
  <2>3. j < i
    BY <1>2, <1>3, <1>4, <2>1, <2>2
  <2>4. j \in 1 .. k
    BY <1>2, <2>3
  <2> QED
    BY <2>2, <2>4
<1>5. Cardinality(F) = k
  <2> DEFINE g == [i \in 1 .. k |-> f[i]]
  <2>1. g \in [1 .. k -> F]
    BY <1>1, <1>2
  <2>2. \A i, j \in 1 .. k : g[i] = g[j] => i = j
    BY <1>2, <1>3
  <2>3. \A x \in F : \E i \in 1 .. k : g[i] = x
    OBVIOUS
  <2> HIDE DEF g, F
  <2>4. g \in Bijection(1 .. k, F)
    BY <2>1, <2>2, <2>3 DEF Bijection, Injection, IsInjective, Surjection
  <2>5. IsFiniteSet(1 .. k) /\ Cardinality(1 .. k) = k
    <3>1. IsFiniteSet(1 .. k) /\ Cardinality(1 .. k) = IF 1 > k THEN 0 ELSE k - 1 + 1
      BY <1>2, FS_Interval
    <3> QED
      BY <1>2, <3>1
  <2> QED
    BY <2>4, <2>5, FS_Bijection DEF ExistsBijection
<1>6. F \in SUBSET S
  OBVIOUS
<1> HIDE DEF F
<1> QED
  BY <1>4, <1>5, <1>6

\* Sizes of sets without a common element.
LEMMA SizeOfUnion ==
    ASSUME NEW S, NEW T, IsFiniteSet(S), IsFiniteSet(T), S \cap T = {}
    PROVE  /\ IsFiniteSet(S \cup T) /\ Cardinality(S \cup T) = Cardinality(S) + Cardinality(T)
           /\ Cardinality(S) \in Nat /\ Cardinality(T) \in Nat
<1>1. Cardinality(S) \in Nat /\ Cardinality(T) \in Nat
  BY FS_CardinalityType
<1>2. /\ IsFiniteSet(S \cup T)
      /\ Cardinality(S \cup T) = Cardinality(S) + Cardinality(T) - Cardinality(S \cap T)
  BY FS_Union
<1>3. Cardinality(S \cap T) = 0
  BY FS_EmptySet
<1> QED
  BY <1>1, <1>2, <1>3

-----------------------------------------------------------------------------
(* The plan of a segment: the accesses between two cuts. *)

\* The accesses of a chunk, and those of an entry (addr, c) of the cursor.
Chunked(acc, c) == {x \in acc : ChunkOf(x[2]) = c}
OfEntry(acc, addr, c) == {x \in acc : x[1] = addr /\ ChunkOf(x[2]) = c}

\* A cut: with an access, all that come before it by address and step.
Cut(acc, H) == H \subseteq acc /\ \A x \in H, y \in acc : Before(y, x) => y \in H

\* The check point of a chunk gives its collector what the chunk has between the
\* cuts L and H.
Fits(acc, cp, c, L, H) ==
    /\ cp.fromAddr <= cp.toAddr
    /\ \A x \in Chunked(acc, c) :
        /\ x \in H \ L => cp.fromAddr <= x[1] /\ x[1] <= cp.toAddr
        /\ cp.fromAddr < x[1] => x \notin L
        /\ cp.fromAddr <= x[1] /\ x[1] < cp.toAddr => x \in H
    /\ cp.fromSkip = Cardinality(OfEntry(acc, cp.fromAddr, c) \cap L)
    /\ cp.count = Cardinality(Chunked(acc, c) \cap (H \ L))
    /\ cp.toCount = Cardinality(OfEntry(acc, cp.toAddr, c) \cap (H \ L))

\* The check point that open_segment makes: what it skips ends with the last
\* access before the segment; internal reads to be skipped are before the first
\* access of the segment, which is of the same address, and are as many at most
\* as there are between the two.
RefFits(acc, cp, c, L) ==
    /\ \A x \in L : x[1] < cp.fromAddr \/ (x[1] = cp.fromAddr /\ ChunkOf(x[2]) <= c)
    /\ cp.fromSkip > 0
    /\ cp.interSkip > 0 =>
        \E q \in acc \ L :
            /\ q[1] = cp.fromAddr /\ c < ChunkOf(q[2])
            /\ cp.interSkip <= IntermediateSteps(c, ChunkOf(q[2]))
            /\ \A x \in acc \ L : ~Before(x, q)

\* The check points of a segment give what is between L and H.
SegFits(acc, m, L, H) ==
    /\ Cut(acc, L) /\ Cut(acc, H) /\ L \subseteq H
    /\ \A c \in DOMAIN m : Fits(acc, m[c], c, L, H)
    /\ \A x \in H \ L : ChunkOf(x[2]) \in DOMAIN m
    /\ \A c \in DOMAIN m : m[c].interSkip # None =>
        /\ RefFits(acc, m[c], c, L)
        /\ \A d \in DOMAIN m : m[d].interSkip # None => d = c
    /\ L # {} => \E c \in DOMAIN m : m[c].interSkip # None

-----------------------------------------------------------------------------
(* The collector of a chunk. *)

\* A list of the accesses of T by step.
ListsBySteps(bus, T) ==
    /\ bus \in Seq(T)
    /\ \A x \in T : \E i \in 1 .. Len(bus) : bus[i] = x
    /\ \A i, j \in 1 .. Len(bus) : i < j => bus[i] # bus[j] /\ bus[i][2] <= bus[j][2]

\* The replay of a chunk delivers its accesses by step, each of them once.
LEMMA ReplayLists ==
    ASSUME accesses \subseteq Accesses, NEW c
    PROVE  ListsBySteps(Replay(c), Chunked(accesses, c))
<1> DEFINE T == Chunked(accesses, c)
           S == {<<a[2], a[1]>> : a \in T}
           f == Sorted(S)
           n == Cardinality(S)
           bus == Replay(c)
<1>1. ASSUME NEW x \in T
      PROVE  x = <<x[1], x[2]>> /\ x[1] \in Nat /\ x[2] \in Nat /\ x[1] \in 0 .. MaxAddr /\ x[2] \in Steps
  BY AccessType, MemPlanAssumption DEF Chunked
<1>2. S \subseteq Nat \X Nat /\ S \subseteq Steps \X (0 .. MaxAddr)
  BY <1>1
<1>3. IsFiniteSet(S)
  <2>1. IsFiniteSet(Steps \X (0 .. MaxAddr))
    BY AccessType, FS_Product
  <2> QED
    BY <1>2, <2>1, FS_Subset
<1>4. bus = [i \in 1 .. Len(f) |-> <<f[i][2], f[i][1]>>]
  BY DEF Replay, InChunk, Chunked
<1>5. ASSUME NEW p \in S PROVE <<p[2], p[1]>> \in T /\ p = <<p[1], p[2]>>
  <2>1. PICK a \in T : p = <<a[2], a[1]>>
    OBVIOUS
  <2> QED
    BY <1>1, <2>1
<1>6. ASSUME NEW x \in T PROVE <<x[2], x[1]>> \in S
  OBVIOUS
<1> HIDE DEF S, bus
<1>7. /\ n \in Nat /\ f \in Seq(S) /\ Len(f) = n /\ \A x \in S : \E i \in 1 .. n : f[i] = x
      /\ \A i, j \in 1 .. n : i < j => Before(f[i], f[j])
  BY <1>2, <1>3, SortedOnto
<1> HIDE DEF f, n, T
<1>8. ASSUME NEW i \in 1 .. n
      PROVE  bus[i] = <<f[i][2], f[i][1]>> /\ bus[i] \in T /\ f[i] \in S
  <2>1. f[i] \in S /\ bus[i] = <<f[i][2], f[i][1]>>
    BY <1>4, <1>7
  <2> QED
    BY <1>5, <2>1
<1>9. bus \in Seq(T) /\ Len(bus) = n
  <2>1. DOMAIN bus = 1 .. n /\ bus = [i \in 1 .. n |-> bus[i]]
    BY <1>4, <1>7
  <2>2. bus \in [1 .. n -> T]
    BY <1>8, <2>1
  <2> QED
    BY <1>7, <2>2
<1>10. ASSUME NEW x \in T PROVE \E i \in 1 .. Len(bus) : bus[i] = x
  <2>1. <<x[2], x[1]>> \in S
    BY <1>6 DEF T
  <2>2. PICK i \in 1 .. n : f[i] = <<x[2], x[1]>>
    BY <1>7, <2>1
  <2>3. bus[i] = <<x[1], x[2]>>
    BY <1>8, <2>2
  <2> QED
    BY <1>1, <1>9, <2>3 DEF T
<1>11. ASSUME NEW i \in 1 .. Len(bus), NEW j \in 1 .. Len(bus), i < j
       PROVE  bus[i] # bus[j] /\ bus[i][2] <= bus[j][2]
  <2>1. i \in 1 .. n /\ j \in 1 .. n /\ Before(f[i], f[j])
    BY <1>7, <1>9, <1>11
  <2>2. bus[i] = <<f[i][2], f[i][1]>> /\ bus[j] = <<f[j][2], f[j][1]>> /\ f[i] \in S /\ f[j] \in S
    BY <1>8, <2>1
  <2>3. f[i][1] \in Nat /\ f[i][2] \in Nat /\ f[j][1] \in Nat /\ f[j][2] \in Nat
    BY <1>2, <2>2
  <2> QED
    BY <2>1, <2>2, <2>3 DEF Before
<1>12. ListsBySteps(bus, T)
  BY <1>9, <1>10, <1>11 DEF ListsBySteps
<1> QED
  BY <1>12 DEF bus, T

\* g is the function that Collected is defined with.
IsCollecting(g, cp, bus, n) ==
    g = [i \in 0 .. n |-> IF i = 0 THEN NewCollector(cp) ELSE Filter(g[i - 1], bus[i])]

\* It exists.
LEMMA CollectingExists ==
    ASSUME NEW cp, NEW bus, NEW n \in Nat
    PROVE  \E g : IsCollecting(g, cp, bus, n)
<1> DEFINE S == {k \in Nat : \E g : IsCollecting(g, cp, bus, k)}
<1>1. 0 \in S
  <2> DEFINE g == [i \in 0 .. 0 |-> NewCollector(cp)]
  <2>1. IsCollecting(g, cp, bus, 0)
    BY DEF IsCollecting
  <2> HIDE DEF g
  <2> QED
    BY <2>1
<1>2. ASSUME NEW k \in Nat, k \in S
      PROVE  \E g : IsCollecting(g, cp, bus, k + 1)
  <2>1. PICK g : IsCollecting(g, cp, bus, k)
    BY <1>2
  <2> DEFINE h == [i \in 0 .. k + 1 |-> IF i = k + 1 THEN Filter(g[k], bus[k + 1]) ELSE g[i]]
  <2>2. ASSUME NEW i \in 0 .. k + 1
        PROVE  h[i] = IF i = 0 THEN NewCollector(cp) ELSE Filter(h[i - 1], bus[i])
    <3>1. CASE i = k + 1
      <4>1. i - 1 \in 0 .. k + 1 /\ i - 1 = k /\ i # 0 /\ h[i - 1] = g[k]
        BY <3>1
      <4> QED
        BY <3>1, <4>1
    <3>2. CASE i \in 1 .. k
      <4>1. i - 1 \in 0 .. k /\ i \in 0 .. k /\ i # 0 /\ i # k + 1 /\ i - 1 # k + 1
        BY <3>2
      <4>2. h[i] = g[i] /\ h[i - 1] = g[i - 1]
        BY <4>1
      <4>3. g[i] = Filter(g[i - 1], bus[i])
        BY <2>1, <4>1 DEF IsCollecting
      <4> QED
        BY <4>1, <4>2, <4>3
    <3>3. CASE i = 0
      <4>1. h[i] = g[0] /\ g[0] = NewCollector(cp)
        BY <2>1, <3>3 DEF IsCollecting
      <4> QED
        BY <3>3, <4>1
    <3> QED
      BY <3>1, <3>2, <3>3
  <2>3. h = [i \in 0 .. k + 1 |-> h[i]]
    OBVIOUS
  <2> HIDE DEF h
  <2>4. IsCollecting(h, cp, bus, k + 1)
    BY <2>2, <2>3 DEF IsCollecting
  <2> QED
    BY <2>4
<1>3. \A k \in Nat : k \in S => k + 1 \in S
  BY <1>2
<1> HIDE DEF S
<1>4. n \in S
  BY <1>1, <1>3, SetInduction
<1> QED
  BY <1>4 DEF S

\* What is still to come of T after the first i of the list.
Ahead(bus, T, i) == {x \in T : \A j \in 1 .. i : bus[j] # x}

\* The next of the list is the first of what is to come.
LEMMA AheadStep ==
    ASSUME NEW T, NEW bus, ListsBySteps(bus, T), NEW i \in Nat, i + 1 <= Len(bus), T \subseteq Accesses
    PROVE  /\ bus[i + 1] \in Ahead(bus, T, i)
           /\ Ahead(bus, T, i + 1) = Ahead(bus, T, i) \ {bus[i + 1]}
           /\ \A y \in Ahead(bus, T, i) : bus[i + 1][2] <= y[2]
           /\ \A y \in T : y \notin Ahead(bus, T, i) => y[2] <= bus[i + 1][2]
<1>1. bus \in Seq(T) /\ Len(bus) \in Nat /\ i + 1 \in 1 .. Len(bus) /\ bus[i + 1] \in T
  BY DEF ListsBySteps
<1>2. bus[i + 1] \in Ahead(bus, T, i)
  <2>1. ASSUME NEW j \in 1 .. i PROVE bus[j] # bus[i + 1]
    <3>1. j \in 1 .. Len(bus) /\ j < i + 1
      BY <1>1
    <3> QED
      BY <1>1, <3>1 DEF ListsBySteps
  <2> QED
    BY <1>1, <2>1 DEF Ahead
<1>3. Ahead(bus, T, i + 1) = Ahead(bus, T, i) \ {bus[i + 1]}
  <2>1. 1 .. i + 1 = (1 .. i) \cup {i + 1}
    OBVIOUS
  <2> QED
    BY <2>1 DEF Ahead
<1>4. ASSUME NEW y \in Ahead(bus, T, i) PROVE bus[i + 1][2] <= y[2]
  <2>1. y \in T /\ \A j \in 1 .. i : bus[j] # y
    BY DEF Ahead
  <2>2. PICK j \in 1 .. Len(bus) : bus[j] = y
    BY <2>1 DEF ListsBySteps
  <2>3. j = i + 1 \/ i + 1 < j
    BY <1>1, <2>1, <2>2
  <2>4. bus[i + 1][2] \in Nat
    BY <1>1, AccessType
  <2>5. CASE j = i + 1
    BY <2>2, <2>4, <2>5
  <2>6. CASE i + 1 < j
    <3>1. bus[i + 1][2] <= bus[j][2]
      BY <1>1, <2>6 DEF ListsBySteps
    <3> QED
      BY <2>2, <3>1
  <2> QED
    BY <2>3, <2>5, <2>6
<1>5. ASSUME NEW y \in T, y \notin Ahead(bus, T, i) PROVE y[2] <= bus[i + 1][2]
  <2>1. PICK j \in 1 .. i : bus[j] = y
    BY <1>5 DEF Ahead
  <2>2. j \in 1 .. Len(bus) /\ j < i + 1
    BY <1>1
  <2> QED
    BY <1>1, <2>1, <2>2 DEF ListsBySteps
<1> QED
  BY <1>2, <1>3, <1>4, <1>5

\* The state of a collector whose chunk has the accesses A still to come: T are
\* all of the chunk, D those to collect, DT those of D at the last address, LF
\* those to skip.
Tracks(k, cp, T, D, DT, LF, A) ==
    /\ k \in [cp : {cp}, count : Nat, toCount : Nat, skip : Nat, prev : SUBSET T, inputs : SUBSET T]
    /\ k.count = Cardinality(D \cap A) /\ k.toCount = Cardinality(DT \cap A)
    /\ k.skip = Cardinality(LF \cap A) /\ k.inputs = D \ A
    /\ k.skip > 0 \/ cp.interSkip = None \/ LF = {} => k.prev = {}
    /\ k.skip = 0 /\ cp.interSkip # None /\ LF # {} =>
        \E p \in LF : k.prev = {p} /\ \A y \in LF : y[2] <= p[2]

\* The size of a set less an element.
LEMMA SizeLess ==
    ASSUME NEW S, NEW A, NEW x \in A, IsFiniteSet(S)
    PROVE  /\ Cardinality(S \cap A) \in Nat
           /\ x \in S => Cardinality(S \cap A) > 0
                         /\ Cardinality(S \cap (A \ {x})) = Cardinality(S \cap A) - 1
           /\ x \notin S => S \cap (A \ {x}) = S \cap A
           /\ Cardinality(S \cap A) > 0 => \E y \in S : y \in A
           /\ Cardinality(S \cap A) = 1 /\ x \in S => S \cap A = {x}
<1>1. S \cap A \in SUBSET S
  OBVIOUS
<1>2. IsFiniteSet(S \cap A)
  BY <1>1, FS_Subset
<1>3. Cardinality(S \cap A) \in Nat
  BY <1>2, FS_CardinalityType
<1>4. ASSUME x \in S
      PROVE  Cardinality(S \cap A) > 0 /\ Cardinality(S \cap (A \ {x})) = Cardinality(S \cap A) - 1
  <2>1. S \cap (A \ {x}) = (S \cap A) \ {x} /\ x \in S \cap A
    BY <1>4
  <2>2. Cardinality((S \cap A) \ {x}) = Cardinality(S \cap A) - 1
    BY <1>2, <2>1, FS_RemoveElement
  <2>3. Cardinality(S \cap A) # 0
    BY <1>2, <2>1, FS_EmptySet
  <2> QED
    BY <1>3, <2>1, <2>2, <2>3
<1>5. x \notin S => S \cap (A \ {x}) = S \cap A
  OBVIOUS
<1>6. Cardinality(S \cap A) > 0 => \E y \in S : y \in A
  <2>1. S \cap A = {} => Cardinality(S \cap A) = 0
    BY FS_EmptySet
  <2> QED
    BY <2>1
<1>7. Cardinality(S \cap A) = 1 /\ x \in S => S \cap A = {x}
  <2>1. ASSUME Cardinality(S \cap A) = 1, x \in S
        PROVE  S \cap A = {x}
    <3>1. PICK z : S \cap A = {z}
      BY <1>2, <2>1, FS_Singleton
    <3>2. x \in S \cap A
      BY <2>1
    <3> QED
      BY <3>1, <3>2
  <2> QED
    BY <2>1
<1> QED
  BY <1>3, <1>4, <1>5, <1>6, <1>7

\* One access of the replay: filtered_inputs_push keeps the collector on track.
LEMMA FilterTracks ==
    ASSUME NEW acc, acc \subseteq Accesses, NEW c, NEW L, NEW H, Cut(acc, L), Cut(acc, H),
           NEW cp \in CheckPoints, Fits(acc, cp, c, L, H),
           NEW A, A \subseteq Chunked(acc, c), NEW x \in A, \A y \in A : x[2] <= y[2],
           \A y \in Chunked(acc, c) : y \notin A => y[2] <= x[2], NEW k,
           Tracks(k, cp, Chunked(acc, c), Chunked(acc, c) \cap (H \ L),
                  OfEntry(acc, cp.toAddr, c) \cap (H \ L), OfEntry(acc, cp.fromAddr, c) \cap L, A)
    PROVE  Tracks(Filter(k, x), cp, Chunked(acc, c), Chunked(acc, c) \cap (H \ L),
                  OfEntry(acc, cp.toAddr, c) \cap (H \ L), OfEntry(acc, cp.fromAddr, c) \cap L,
                  A \ {x})
<1> DEFINE T == Chunked(acc, c)
           D == T \cap (H \ L)
           DT == OfEntry(acc, cp.toAddr, c) \cap (H \ L)
           LF == OfEntry(acc, cp.fromAddr, c) \cap L
           B == A \ {x}
           to == cp.toAddr
           from == cp.fromAddr
<1>1. /\ x \in T /\ x \in acc /\ ChunkOf(x[2]) = c /\ x[1] \in Nat /\ x[2] \in Nat
      /\ to \in Nat /\ from \in Nat
  BY AccessType DEF Chunked, CheckPoints
<1>2. IsFiniteSet(acc)
  BY AccessType, FS_Subset
<1>3. IsFiniteSet(D) /\ IsFiniteSet(DT) /\ IsFiniteSet(LF)
  <2>1. D \in SUBSET acc /\ DT \in SUBSET acc /\ LF \in SUBSET acc
    BY DEF Chunked, OfEntry
  <2> HIDE DEF D, DT, LF
  <2> QED
    BY <1>2, <2>1, FS_Subset
<1>4. /\ x \in DT <=> x \in D /\ x[1] = to
      /\ x \in LF <=> x \in L /\ x[1] = from
      /\ x \in D <=> x \in H /\ x \notin L
  BY <1>1 DEF Chunked, OfEntry
<1>5. ASSUME NEW y \in A, y[1] = x[1], y # x
      PROVE  Before(x, y) /\ y \in acc
  <2>1. y \in acc /\ x[2] <= y[2] /\ y[2] \in Nat /\ y = <<y[1], y[2]>> /\ x = <<x[1], x[2]>>
    BY <1>1, AccessType DEF Chunked
  <2>2. x[2] # y[2]
    BY <1>5, <2>1
  <2> QED
    BY <1>1, <1>5, <2>1, <2>2 DEF Before
<1>6. \A y \in LF : y[1] = from /\ y \in L
  BY DEF OfEntry
<1>7. \A y \in DT : y[1] = to /\ y \in H
  BY DEF OfEntry
<1>8. /\ from <= to
      /\ x \in D => from <= x[1] /\ x[1] <= to
      /\ from < x[1] => x \notin L
      /\ from <= x[1] /\ x[1] < to => x \in H
  BY <1>1 DEF Fits, D
<1>9. DOMAIN k = {"cp", "count", "toCount", "skip", "prev", "inputs"} /\ k.cp = cp
      /\ k.count \in Nat /\ k.toCount \in Nat /\ k.skip \in Nat /\ k.prev \in SUBSET T
      /\ k.inputs \in SUBSET T /\ k = [f \in DOMAIN k |-> k[f]]
  BY DEF Tracks
<1>10. /\ k.count = Cardinality(D \cap A) /\ k.toCount = Cardinality(DT \cap A)
       /\ k.skip = Cardinality(LF \cap A) /\ k.inputs = D \ A
       /\ k.skip > 0 \/ cp.interSkip = None \/ LF = {} => k.prev = {}
       /\ k.skip = 0 /\ cp.interSkip # None /\ LF # {} =>
            \E p \in LF : k.prev = {p} /\ \A y \in LF : y[2] <= p[2]
  BY DEF Tracks
<1>11. A \subseteq T /\ LF \subseteq T /\ D \subseteq T
  BY DEF Chunked, OfEntry
<1>l. Cut(acc, L) /\ Cut(acc, H)
  OBVIOUS
<1>12a. \A y \in T : y \notin A => y[2] <= x[2]
  OBVIOUS
<1> HIDE DEF T, D, DT, LF, to, from
<1>12. ASSUME x \notin D, x \notin LF
       PROVE  /\ Cardinality(D \cap B) = k.count /\ Cardinality(DT \cap B) = k.toCount
              /\ Cardinality(LF \cap B) = k.skip /\ D \ B = k.inputs
  <2>1. x \notin DT
    BY <1>4, <1>12
  <2>2. D \cap B = D \cap A /\ DT \cap B = DT \cap A /\ LF \cap B = LF \cap A /\ D \ B = D \ A
    BY <1>12, <2>1
  <2> QED
    BY <1>10, <2>2
<1>13. CASE x[1] > to \/ x[1] < from
  <2>1. Filter(k, x) = k
    BY <1>9, <1>13 DEF Filter, to, from
  <2>2. x \notin D /\ x \notin LF
    BY <1>1, <1>4, <1>8, <1>13
  <2>3. Tracks(k, cp, T, D, DT, LF, B)
    BY <1>9, <1>10, <1>12, <2>2 DEF Tracks
  <2> QED
    BY <2>1, <2>3 DEF T, D, DT, LF, to, from
<1>14. CASE ~(x[1] > to \/ x[1] < from) /\ x[1] = from /\ k.skip > 0
  <2> DEFINE pr == IF k.skip = 1 /\ cp.interSkip # None THEN {x} ELSE k.prev
             kk == [k EXCEPT !.skip = k.skip - 1, !.prev = pr]
  <2>1. Filter(k, x) = kk
    BY <1>9, <1>14 DEF Filter, to, from
  <2>2. x \in LF
    <3>1. PICK y \in LF : y \in A
      BY <1>3, <1>10, <1>14, SizeLess
    <3>2. CASE y = x
      BY <3>1, <3>2
    <3>3. CASE y # x
      <4>1. Before(x, y) /\ y \in L
        BY <1>5, <1>6, <1>14, <3>1, <3>3
      <4>2. x \in L
        BY <1>1, <4>1 DEF Cut
      <4> QED
        BY <1>4, <1>14, <4>2
    <3> QED
      BY <3>2, <3>3
  <2>3. x \notin D /\ x \notin DT
    BY <1>4, <2>2
  <2>4. /\ Cardinality(LF \cap B) = k.skip - 1 /\ k.skip - 1 \in Nat
        /\ k.skip = 1 => LF \cap A = {x}
    <3>1. Cardinality(LF \cap (A \ {x})) = Cardinality(LF \cap A) - 1
          /\ (Cardinality(LF \cap A) = 1 => LF \cap A = {x})
      BY <1>3, <2>2, SizeLess
    <3> QED
      BY <1>9, <1>10, <1>14, <3>1
  <2>5. D \cap B = D \cap A /\ DT \cap B = DT \cap A /\ D \ B = D \ A
    BY <2>3
  <2>6. pr \in SUBSET T
    BY <1>1, <1>9
  <2>7. /\ DOMAIN kk = {"cp", "count", "toCount", "skip", "prev", "inputs"} /\ kk.cp = cp
        /\ kk.count = k.count /\ kk.toCount = k.toCount /\ kk.skip = k.skip - 1 /\ kk.prev = pr
        /\ kk.inputs = k.inputs /\ kk = [f \in DOMAIN kk |-> kk[f]]
    BY <1>9
  <2>8. k.skip - 1 > 0 \/ cp.interSkip = None \/ LF = {} => pr = {}
    BY <1>9, <1>10, <1>14, <2>2
  <2>9. k.skip - 1 = 0 /\ cp.interSkip # None /\ LF # {} =>
            \E p \in LF : pr = {p} /\ \A y \in LF : y[2] <= p[2]
    <3>1. ASSUME k.skip - 1 = 0, cp.interSkip # None
          PROVE  pr = {x} /\ \A y \in LF : y[2] <= x[2]
      <4>1. k.skip = 1
        BY <1>9, <3>1
      <4>2. LF \cap A = {x} /\ pr = {x}
        BY <2>4, <3>1, <4>1
      <4>3. ASSUME NEW y \in LF PROVE y[2] <= x[2]
        <5>1. CASE y \in A
          <6>1. y = x
            BY <4>2, <5>1
          <6> QED
            BY <1>1, <6>1
        <5>2. CASE y \notin A
          BY <1>11, <1>12a, <5>2
        <5> QED
          BY <5>1, <5>2
      <4> QED
        BY <4>2, <4>3
    <3> QED
      BY <2>2, <3>1
  <2> HIDE DEF pr, kk
  <2>10. kk \in [cp : {cp}, count : Nat, toCount : Nat, skip : Nat, prev : SUBSET T, inputs : SUBSET T]
    BY <1>9, <2>4, <2>6, <2>7
  <2>11. Tracks(kk, cp, T, D, DT, LF, B)
    BY <1>10, <2>4, <2>5, <2>7, <2>8, <2>9, <2>10 DEF Tracks
  <2> QED
    BY <2>1, <2>11 DEF T, D, DT, LF, to, from
<1>15. CASE ~(x[1] > to \/ x[1] < from) /\ ~(x[1] = from /\ k.skip > 0)
  <2>1. x \notin L
    <3>1. CASE x[1] = from
      <4>1. ~(Cardinality(LF \cap A) > 0)
        BY <1>10, <1>15, <3>1
      <4>2. x \notin LF
        BY <1>3, <4>1, SizeLess
      <4> QED
        BY <1>4, <3>1, <4>2
    <3>2. CASE x[1] # from
      BY <1>1, <1>8, <1>15, <3>2
    <3> QED
      BY <3>1, <3>2
  <2>2. x \notin LF
    BY <1>4, <2>1
  <2>3. CASE x \in H
    <3>1. x \in D /\ (x \in DT <=> x[1] = to)
      BY <1>4, <2>1, <2>3
    <3>2. k.count > 0 /\ Cardinality(D \cap B) = k.count - 1 /\ k.count - 1 \in Nat
      <4>1. Cardinality(D \cap (A \ {x})) = Cardinality(D \cap A) - 1 /\ Cardinality(D \cap A) > 0
        BY <1>3, <3>1, SizeLess
      <4> QED
        BY <1>9, <1>10, <4>1
    <3> DEFINE tc == IF x[1] = to THEN k.toCount - 1 ELSE k.toCount
               kk == [k EXCEPT !.count = k.count - 1, !.toCount = tc, !.inputs = k.inputs \cup {x}]
    <3>3. /\ ~(x[1] = to /\ k.toCount = 0)
          /\ Cardinality(DT \cap B) = tc /\ tc \in Nat
      <4>1. CASE x[1] = to
        <5>1. k.toCount > 0 /\ Cardinality(DT \cap B) = k.toCount - 1
          <6>1. x \in DT
            BY <3>1, <4>1
          <6>2. /\ Cardinality(DT \cap (A \ {x})) = Cardinality(DT \cap A) - 1
                /\ Cardinality(DT \cap A) > 0
            BY <1>3, <6>1, SizeLess
          <6> QED
            BY <1>10, <6>2
        <5> QED
          BY <1>9, <4>1, <5>1
      <4>2. CASE x[1] # to
        <5>1. DT \cap B = DT \cap A
          BY <3>1, <4>2
        <5> QED
          BY <1>9, <1>10, <4>2, <5>1
      <4> QED
        BY <4>1, <4>2
    <3>4. Filter(k, x) = kk
      <4>1. k.count # 0
        BY <1>9, <3>2
      <4> QED
        BY <1>9, <1>15, <3>3, <4>1 DEF Filter, to, from
    <3>5. LF \cap B = LF \cap A /\ D \ B = (D \ A) \cup {x}
      BY <2>2, <3>1
    <3>6. /\ DOMAIN kk = {"cp", "count", "toCount", "skip", "prev", "inputs"} /\ kk.cp = cp
          /\ kk.count = k.count - 1 /\ kk.toCount = tc /\ kk.skip = k.skip /\ kk.prev = k.prev
          /\ kk.inputs = k.inputs \cup {x} /\ kk = [f \in DOMAIN kk |-> kk[f]]
      BY <1>9
    <3> HIDE DEF kk, tc
    <3>7. kk \in [cp : {cp}, count : Nat, toCount : Nat, skip : Nat, prev : SUBSET T, inputs : SUBSET T]
      BY <1>1, <1>9, <3>2, <3>3, <3>6
    <3>8. Tracks(kk, cp, T, D, DT, LF, B)
      BY <1>10, <3>2, <3>3, <3>5, <3>6, <3>7 DEF Tracks
    <3> QED
      BY <3>4, <3>8 DEF T, D, DT, LF, to, from
  <2>4. CASE x \notin H
    <3>1. x[1] = to
      BY <1>1, <1>8, <1>15, <2>4
    <3>2. k.toCount = 0
      <4> SUFFICES ASSUME k.toCount # 0 PROVE FALSE
        OBVIOUS
      <4>1. PICK y \in DT : y \in A
        <5>1. Cardinality(DT \cap A) > 0
          BY <1>9, <1>10
        <5> QED
          BY <1>3, <5>1, SizeLess
      <4>2. y # x /\ y[1] = x[1] /\ y \in H
        BY <1>7, <2>4, <3>1, <4>1
      <4>3. Before(x, y)
        BY <1>5, <4>1, <4>2
      <4> QED
        BY <1>1, <1>l, <2>4, <4>2, <4>3 DEF Cut
    <3>3. Filter(k, x) = k
      BY <1>9, <1>15, <3>1, <3>2 DEF Filter, to, from
    <3>4. x \notin D
      BY <1>4, <2>4
    <3>5. Tracks(k, cp, T, D, DT, LF, B)
      BY <1>9, <1>10, <1>12, <2>2, <3>4 DEF Tracks
    <3> QED
      BY <3>3, <3>5 DEF T, D, DT, LF, to, from
  <2> QED
    BY <2>3, <2>4
<1> QED
  BY <1>13, <1>14, <1>15

\* What the collector of a chunk has after the replay: the accesses of its chunk
\* between the cuts, and the last one it skips if it has the reference.
Collects(cp, c, L, H) ==
    /\ Collected(cp, c).inputs = Chunked(accesses, c) \cap (H \ L)
    /\ cp.interSkip = None \/ cp.fromSkip = 0 => Collected(cp, c).prev = {}
    /\ cp.interSkip # None /\ cp.fromSkip > 0 =>
         \E p \in OfEntry(accesses, cp.fromAddr, c) \cap L :
             /\ Collected(cp, c).prev = {p}
             /\ \A y \in OfEntry(accesses, cp.fromAddr, c) \cap L : y[2] <= p[2]

\* A collector whose check point fits collects exactly that.
LEMMA CollectedIs ==
    ASSUME accesses \subseteq Accesses, NEW c, NEW L, NEW H, Cut(accesses, L), Cut(accesses, H),
           NEW cp \in CheckPoints, Fits(accesses, cp, c, L, H)
    PROVE  Collects(cp, c, L, H)
<1> DEFINE T == Chunked(accesses, c)
           D == T \cap (H \ L)
           DT == OfEntry(accesses, cp.toAddr, c) \cap (H \ L)
           LF == OfEntry(accesses, cp.fromAddr, c) \cap L
           bus == Replay(c)
           n == Len(bus)
           f == CHOOSE g : IsCollecting(g, cp, bus, n)
           Good == {i \in Nat : i <= n => Tracks(f[i], cp, T, D, DT, LF, Ahead(bus, T, i))}
<1>1. ListsBySteps(bus, T)
  BY ReplayLists
<1>2. n \in Nat
  BY <1>1 DEF ListsBySteps
<1>3. Collected(cp, c) = f[n]
  BY DEF Collected, IsCollecting
<1>4. T \subseteq accesses /\ T \subseteq Accesses
  BY DEF Chunked
<1>5. D \subseteq T /\ DT \subseteq T /\ LF \subseteq T
  BY DEF Chunked, OfEntry
<1>6. IsFiniteSet(accesses)
  BY AccessType, FS_Subset
<1>7. IsFiniteSet(LF) /\ Cardinality(LF) = cp.fromSkip /\ Cardinality(D) = cp.count
      /\ Cardinality(DT) = cp.toCount
  <2>1. LF \in SUBSET accesses
    BY DEF OfEntry
  <2> QED
    BY <1>6, <2>1, FS_Subset DEF Fits
<1>8. /\ cp.count \in Nat /\ cp.toCount \in Nat /\ cp.fromSkip \in Nat
  BY DEF CheckPoints
<1> HIDE DEF bus, n, f
<1>9. IsCollecting(f, cp, bus, n)
  BY <1>2, CollectingExists DEF f
<1>10. 0 \in Good
  <2>1. f[0] = NewCollector(cp)
    BY <1>2, <1>9 DEF IsCollecting
  <2>2. Ahead(bus, T, 0) = T
    BY DEF Ahead
  <2> HIDE DEF T, D, DT, LF
  <2>3. D \cap T = D /\ DT \cap T = DT /\ LF \cap T = LF /\ D \ T = {}
    BY <1>5
  <2>4. Cardinality(LF) = 0 => LF = {}
    BY <1>7, FS_EmptySet
  <2> DEFINE k == NewCollector(cp)
  <2>5. /\ k \in [cp : {cp}, count : Nat, toCount : Nat, skip : Nat, prev : SUBSET T, inputs : SUBSET T]
        /\ k.count = cp.count /\ k.toCount = cp.toCount /\ k.skip = cp.fromSkip /\ k.prev = {}
        /\ k.inputs = {}
    BY <1>8 DEF NewCollector
  <2> HIDE DEF k
  <2>6. Tracks(k, cp, T, D, DT, LF, T)
    BY <1>7, <2>3, <2>4, <2>5 DEF Tracks
  <2>7. Tracks(f[0], cp, T, D, DT, LF, Ahead(bus, T, 0))
    BY <2>1, <2>2, <2>6 DEF k
  <2> QED
    BY <2>7
<1>11. ASSUME NEW i \in Nat, i \in Good, i + 1 <= n
       PROVE  Tracks(f[i + 1], cp, T, D, DT, LF, Ahead(bus, T, i + 1))
  <2> DEFINE A == Ahead(bus, T, i)
             x == bus[i + 1]
  <2>1. Tracks(f[i], cp, T, D, DT, LF, A)
    BY <1>2, <1>11
  <2>2. f[i + 1] = Filter(f[i], x)
    <3>1. i + 1 \in 0 .. n /\ i + 1 # 0 /\ (i + 1) - 1 = i
      BY <1>2, <1>11
    <3> QED
      BY <1>9, <3>1 DEF IsCollecting
  <2>3. /\ x \in A /\ Ahead(bus, T, i + 1) = A \ {x} /\ \A y \in A : x[2] <= y[2]
        /\ \A y \in T : y \notin A => y[2] <= x[2]
    BY <1>1, <1>4, <1>11, AheadStep DEF n
  <2>4. A \subseteq T
    BY DEF Ahead
  <2> HIDE DEF A, x
  <2>5. Tracks(Filter(f[i], x), cp, T, D, DT, LF, A \ {x})
    BY <2>1, <2>3, <2>4, FilterTracks
  <2> QED
    BY <2>2, <2>3, <2>5
<1>12. \A i \in Nat : i \in Good => i + 1 \in Good
  BY <1>11
<1> HIDE DEF Good
<1>13. n \in Good
  BY <1>2, <1>10, <1>12, SetInduction
<1>14. Ahead(bus, T, n) = {}
  BY <1>1 DEF Ahead, ListsBySteps, n
<1>15. Tracks(f[n], cp, T, D, DT, LF, {})
  BY <1>2, <1>13, <1>14 DEF Good
<1> HIDE DEF T, D, DT, LF
<1>16. /\ f[n].inputs = D /\ f[n].skip = 0
       /\ cp.interSkip = None \/ LF = {} => f[n].prev = {}
       /\ cp.interSkip # None /\ LF # {} =>
            \E p \in LF : f[n].prev = {p} /\ \A y \in LF : y[2] <= p[2]
  <2>1. LF \cap {} = {} /\ Cardinality({}) = 0 /\ D \ {} = D
    BY FS_EmptySet
  <2> QED
    BY <1>15, <2>1 DEF Tracks
<1>17. cp.fromSkip = 0 <=> LF = {}
  BY <1>7, FS_EmptySet
<1> QED
  BY <1>3, <1>8, <1>16, <1>17 DEF Collects, D, LF, T

-----------------------------------------------------------------------------
(* What the planner gives to a segment. *)

\* add_chunk_to_segment with the next k accesses F of an entry.
LEMMA AddChunkFits ==
    ASSUME NEW acc, acc \subseteq Accesses, NEW m \in ChunkMaps, NEW L, NEW H, SegFits(acc, m, L, H),
           NEW c \in Chunks, NEW a \in Nat, NEW F, F \subseteq OfEntry(acc, a, c), F \cap H = {},
           Cut(acc, H \cup F), UpToAddr(m, a),
           \A x \in Chunked(acc, c) : (x[1] < a => x \in H) /\ (x \in H => x[1] <= a),
           NEW skip, skip = Cardinality(OfEntry(acc, a, c) \cap H), NEW k, k = Cardinality(F)
    PROVE  SegFits(acc, AddChunk(m, c, a, k, skip), L, H \cup F)
<1> DEFINE n == AddChunk(m, c, a, k, skip)
           G == H \cup F
<1>1. /\ Cut(acc, L) /\ Cut(acc, H) /\ L \subseteq H
      /\ \A d \in DOMAIN m : Fits(acc, m[d], d, L, H)
      /\ \A x \in H \ L : ChunkOf(x[2]) \in DOMAIN m
      /\ \A d \in DOMAIN m : m[d].interSkip # None =>
            /\ RefFits(acc, m[d], d, L)
            /\ \A e \in DOMAIN m : m[e].interSkip # None => e = d
      /\ L # {} => \E d \in DOMAIN m : m[d].interSkip # None
  BY DEF SegFits
<1>2. DOMAIN m \in SUBSET Chunks /\ \A d \in DOMAIN m : m[d] \in CheckPoints /\ m[d].toAddr <= a
  BY ChunkMapType DEF UpToAddr
<1>3. DOMAIN n = DOMAIN m \cup {c}
      /\ \A d \in DOMAIN n : n[d] = IF d # c THEN m[d]
                                    ELSE IF d \in DOMAIN m THEN ExtendCheckPoint(m[d], a, k)
                                    ELSE CheckPoint(a, skip, k, None)
  BY DEF AddChunk
<1>4. /\ \A x \in F : x \in acc /\ x[1] = a /\ ChunkOf(x[2]) = c
      /\ H \subseteq acc /\ L \subseteq acc
  BY <1>1 DEF OfEntry, Cut
<1>5. IsFiniteSet(acc) /\ \A S \in SUBSET acc : IsFiniteSet(S) /\ Cardinality(S) \in Nat
  <2>1. IsFiniteSet(acc)
    BY AccessType, FS_Subset
  <2>2. ASSUME NEW S \in SUBSET acc PROVE IsFiniteSet(S) /\ Cardinality(S) \in Nat
    <3>1. IsFiniteSet(S)
      BY <2>1, FS_Subset
    <3> QED
      BY <3>1, FS_CardinalityType
  <2> QED
    BY <2>1, <2>2
<1>6. k \in Nat /\ IsFiniteSet(F)
  BY <1>4, <1>5
<1>7. \A x \in acc : x[1] \in Nat
  BY AccessType
<1> HIDE DEF n
<1>8. ASSUME NEW d \in DOMAIN n, d # c
      PROVE  Fits(acc, n[d], d, L, G)
  <2>1. n[d] = m[d] /\ Fits(acc, m[d], d, L, H)
    BY <1>1, <1>3, <1>8
  <2>2. \A x \in Chunked(acc, d) : x \in G <=> x \in H
    BY <1>4, <1>8 DEF Chunked
  <2>3. /\ Chunked(acc, d) \cap (G \ L) = Chunked(acc, d) \cap (H \ L)
        /\ OfEntry(acc, m[d].toAddr, d) \cap (G \ L) = OfEntry(acc, m[d].toAddr, d) \cap (H \ L)
    BY <2>2 DEF OfEntry, Chunked
  <2> HIDE DEF G
  <2> QED
    BY <2>1, <2>2, <2>3 DEF Fits
<1>9. ASSUME c \in DOMAIN m
      PROVE  Fits(acc, n[c], c, L, G)
  <2> DEFINE cp == m[c]
             q == ExtendCheckPoint(m[c], a, k)
             D == Chunked(acc, c) \cap (H \ L)
             DT == OfEntry(acc, cp.toAddr, c) \cap (H \ L)
             to == IF a = cp.toAddr THEN cp.toCount + k ELSE k
  <2>1. n[c] = q /\ Fits(acc, cp, c, L, H) /\ cp \in CheckPoints /\ cp.toAddr <= a
    BY <1>1, <1>2, <1>3, <1>9
  <2>2. cp.fromAddr \in Nat /\ cp.toAddr \in Nat /\ cp.count \in Nat /\ cp.toCount \in Nat
        /\ DOMAIN cp = {"fromAddr", "fromSkip", "toAddr", "toCount", "count", "interSkip"}
    BY <2>1 DEF CheckPoints
  <2>3. /\ q.fromAddr = cp.fromAddr /\ q.fromSkip = cp.fromSkip /\ q.toAddr = a
        /\ q.count = cp.count + k /\ q.toCount = to
    BY <2>2 DEF ExtendCheckPoint
  <2> HIDE DEF q
  <2>4. cp.fromAddr <= cp.toAddr /\ cp.fromAddr <= a
    BY <2>1, <2>2 DEF Fits
  <2>5. ASSUME NEW x \in Chunked(acc, c)
        PROVE  /\ x \in G \ L => cp.fromAddr <= x[1] /\ x[1] <= a
               /\ cp.fromAddr < x[1] => x \notin L
               /\ cp.fromAddr <= x[1] /\ x[1] < a => x \in G
    <3>1. /\ x \in H \ L => cp.fromAddr <= x[1] /\ x[1] <= cp.toAddr
          /\ cp.fromAddr < x[1] => x \notin L
          /\ x[1] < a => x \in H
      BY <2>1 DEF Fits
    <3>2. x \in F => x[1] = a
      BY <1>4
    <3>3. x[1] \in Nat
      BY <1>7 DEF Chunked
    <3> QED
      BY <2>1, <2>2, <2>4, <3>1, <3>2, <3>3
  <2>6. Cardinality(Chunked(acc, c) \cap (G \ L)) = cp.count + k
    <3>1. Chunked(acc, c) \cap (G \ L) = D \cup F /\ D \cap F = {}
      BY <1>1, <1>4 DEF Chunked
    <3>2. D \in SUBSET acc /\ Cardinality(D) = cp.count
      BY <1>4, <2>1 DEF Fits
    <3> HIDE DEF D
    <3>3. Cardinality(D \cup F) = Cardinality(D) + Cardinality(F)
      BY <1>5, <1>6, <3>1, <3>2, SizeOfUnion
    <3> QED
      BY <3>1, <3>2, <3>3
  <2>7. Cardinality(OfEntry(acc, a, c) \cap (G \ L)) = to
    <3>1. CASE a = cp.toAddr
      <4>1. OfEntry(acc, a, c) \cap (G \ L) = DT \cup F /\ DT \cap F = {}
        BY <1>1, <1>4, <3>1 DEF OfEntry
      <4>2. DT \in SUBSET acc /\ Cardinality(DT) = cp.toCount
        BY <1>4, <2>1 DEF Fits
      <4> HIDE DEF DT
      <4>3. Cardinality(DT \cup F) = Cardinality(DT) + Cardinality(F)
        BY <1>5, <1>6, <4>1, <4>2, SizeOfUnion
      <4> QED
        BY <3>1, <4>1, <4>2, <4>3
    <3>2. CASE a # cp.toAddr
      <4>1. ASSUME NEW x \in OfEntry(acc, a, c), x \in H \ L PROVE FALSE
        <5>1. x \in Chunked(acc, c) /\ x[1] = a
          BY DEF OfEntry, Chunked
        <5>2. x[1] <= cp.toAddr
          BY <2>1, <4>1, <5>1 DEF Fits
        <5> QED
          BY <2>1, <2>2, <3>2, <5>1, <5>2
      <4>2. OfEntry(acc, a, c) \cap (G \ L) = F
        BY <1>1, <1>4, <4>1 DEF OfEntry
      <4> QED
        BY <3>2, <4>2
    <3> QED
      BY <3>1, <3>2
  <2>8. cp.fromSkip = Cardinality(OfEntry(acc, cp.fromAddr, c) \cap L)
    BY <2>1 DEF Fits
  <2> HIDE DEF cp, G, to
  <2> QED
    BY <2>1, <2>3, <2>4, <2>5, <2>6, <2>7, <2>8 DEF Fits
<1>10. ASSUME c \notin DOMAIN m
       PROVE  Fits(acc, n[c], c, L, G)
  <2> DEFINE q == CheckPoint(a, skip, k, None)
  <2>1. n[c] = q
    BY <1>3, <1>10
  <2>2. /\ q.fromAddr = a /\ q.fromSkip = skip /\ q.toAddr = a /\ q.toCount = k /\ q.count = k
    BY DEF CheckPoint
  <2> HIDE DEF q
  <2>3. ASSUME NEW x \in Chunked(acc, c)
        PROVE  /\ x \in H => x \in L
               /\ x \in G \ L => x \in F /\ x[1] = a
               /\ a < x[1] => x \notin L
               /\ x[1] \in Nat
    <3>1. x \notin H \ L /\ x[1] \in Nat
      BY <1>1, <1>7, <1>10 DEF Chunked
    <3>2. x \in H => x[1] <= a
      OBVIOUS
    <3> QED
      BY <1>1, <1>4, <3>1, <3>2
  <2>4. Chunked(acc, c) \cap (G \ L) = F /\ OfEntry(acc, a, c) \cap (G \ L) = F
        /\ OfEntry(acc, a, c) \cap L = OfEntry(acc, a, c) \cap H
    BY <1>1, <1>4, <2>3 DEF Chunked, OfEntry
  <2>5. \A x \in Chunked(acc, c) :
            /\ x \in G \ L => a <= x[1] /\ x[1] <= a
            /\ a < x[1] => x \notin L
            /\ a <= x[1] /\ x[1] < a => x \in G
    BY <2>3
  <2>6. /\ q.fromSkip = Cardinality(OfEntry(acc, q.fromAddr, c) \cap L)
        /\ q.count = Cardinality(Chunked(acc, c) \cap (G \ L))
        /\ q.toCount = Cardinality(OfEntry(acc, q.toAddr, c) \cap (G \ L))
        /\ q.fromAddr <= q.toAddr
    <3>1. skip = Cardinality(OfEntry(acc, a, c) \cap L) /\ k = Cardinality(F)
      BY <2>4
    <3>2. /\ k = Cardinality(Chunked(acc, c) \cap (G \ L))
          /\ k = Cardinality(OfEntry(acc, a, c) \cap (G \ L))
      BY <2>4, <3>1
    <3> HIDE DEF G
    <3> QED
      BY <2>2, <3>1, <3>2
  <2>7. \A x \in Chunked(acc, c) :
            /\ x \in G \ L => q.fromAddr <= x[1] /\ x[1] <= q.toAddr
            /\ q.fromAddr < x[1] => x \notin L
            /\ q.fromAddr <= x[1] /\ x[1] < q.toAddr => x \in G
    BY <2>2, <2>5
  <2> HIDE DEF G
  <2> QED
    BY <2>1, <2>6, <2>7 DEF Fits
<1>11. \A d \in DOMAIN n : Fits(acc, n[d], d, L, G)
  <2>1. ASSUME NEW d \in DOMAIN n PROVE Fits(acc, n[d], d, L, G)
    <3>1. CASE d = c
      BY <1>9, <1>10, <3>1
    <3> QED
      BY <1>8, <3>1
  <2> QED
    BY <2>1
<1>12. \A x \in G \ L : ChunkOf(x[2]) \in DOMAIN n
  BY <1>1, <1>3, <1>4
<1>13. ASSUME NEW d \in DOMAIN n, n[d].interSkip # None
       PROVE  /\ d \in DOMAIN m /\ m[d].interSkip # None
              /\ n[d].interSkip = m[d].interSkip /\ n[d].fromAddr = m[d].fromAddr
              /\ n[d].fromSkip = m[d].fromSkip
  <2>1. CASE d # c
    BY <1>3, <1>13, <2>1
  <2>2. CASE d = c /\ d \in DOMAIN m
    <3>1. n[d] = ExtendCheckPoint(m[d], a, k) /\ m[d] \in CheckPoints
      BY <1>2, <1>3, <2>2
    <3>2. /\ n[d].interSkip = m[d].interSkip /\ n[d].fromAddr = m[d].fromAddr
          /\ n[d].fromSkip = m[d].fromSkip
      BY <3>1 DEF ExtendCheckPoint, CheckPoints
    <3> QED
      BY <1>13, <2>2, <3>2
  <2>3. CASE d = c /\ d \notin DOMAIN m
    BY <1>3, <1>13, <2>3 DEF CheckPoint
  <2> QED
    BY <2>1, <2>2, <2>3
<1>14. ASSUME NEW d \in DOMAIN n, n[d].interSkip # None
       PROVE  /\ RefFits(acc, n[d], d, L)
              /\ \A e \in DOMAIN n : n[e].interSkip # None => e = d
  <2>1. d \in DOMAIN m /\ m[d].interSkip # None /\ RefFits(acc, m[d], d, L)
    BY <1>1, <1>13, <1>14
  <2>2. RefFits(acc, n[d], d, L)
    BY <1>13, <1>14, <2>1 DEF RefFits
  <2>3. ASSUME NEW e \in DOMAIN n, n[e].interSkip # None PROVE e = d
    <3>1. e \in DOMAIN m /\ m[e].interSkip # None
      BY <1>13, <2>3
    <3> QED
      BY <1>1, <2>1, <3>1
  <2> QED
    BY <2>2, <2>3
<1>15. L \subseteq G /\ Cut(acc, G)
  BY <1>1
<1>17. ASSUME L # {} PROVE \E d \in DOMAIN n : n[d].interSkip # None
  <2>1. PICK d \in DOMAIN m : m[d].interSkip # None
    BY <1>1, <1>17
  <2>2. d \in DOMAIN n
    BY <1>3
  <2>3. CASE d # c
    BY <1>3, <2>1, <2>2, <2>3
  <2>4. CASE d = c
    <3>1. n[d] = ExtendCheckPoint(m[d], a, k) /\ m[d] \in CheckPoints
      BY <1>2, <1>3, <2>2, <2>4
    <3>2. n[d].interSkip = m[d].interSkip
      BY <3>1 DEF ExtendCheckPoint, CheckPoints
    <3> QED
      BY <2>1, <2>2, <3>2
  <2> QED
    BY <2>3, <2>4
<1> HIDE DEF G
<1>16. SegFits(acc, n, L, G)
  BY <1>1, <1>11, <1>12, <1>14, <1>15, <1>17 DEF SegFits
<1> QED
  BY <1>16 DEF n, G

\* H is what is planned when skip accesses of the entry (addr, c) are: all of the
\* entries before it and its first ones.
PlannedTo(acc, H, addr, c, skip) ==
    /\ Cut(acc, H)
    /\ \A x \in H : x[1] < addr \/ (x[1] = addr /\ ChunkOf(x[2]) <= c)
    /\ \A x \in acc : x[1] < addr \/ (x[1] = addr /\ ChunkOf(x[2]) < c) => x \in H
    /\ skip = Cardinality(OfEntry(acc, addr, c) \cap H)

\* open_segment: nothing is given to the new segment yet.
LEMMA OpenedFits ==
    ASSUME NEW H, PlannedTo(accesses, H, refAddr, refChunk, refSkip), NEW skip \in Nat,
           refChunk \in Chunks \cup {None}, refAddr \in Nat, accesses \subseteq Accesses,
           refChunk # None => RefFits(accesses, CheckPoint(refAddr, refSkip, 0, skip), refChunk, H),
           refChunk = None => H = {}
    PROVE  SegFits(accesses, Opened(skip), H, H)
<1>1. /\ Cut(accesses, H)
      /\ \A x \in H : x[1] < refAddr \/ (x[1] = refAddr /\ ChunkOf(x[2]) <= refChunk)
      /\ refSkip = Cardinality(OfEntry(accesses, refAddr, refChunk) \cap H)
  BY DEF PlannedTo
<1>2. CASE refChunk = None
  <2>1. DOMAIN Opened(skip) = {}
    BY <1>2 DEF Opened, NoChunks
  <2> QED
    BY <1>1, <1>2, <2>1 DEF SegFits
<1>3. CASE refChunk # None
  <2> DEFINE q == CheckPoint(refAddr, refSkip, 0, skip)
             m == Opened(skip)
  <2>1. DOMAIN m = {refChunk} /\ m[refChunk] = q
    BY <1>3 DEF Opened
  <2>2. /\ q.fromAddr = refAddr /\ q.fromSkip = refSkip /\ q.toAddr = refAddr /\ q.toCount = 0
        /\ q.count = 0 /\ q.interSkip = skip
    BY DEF CheckPoint
  <2>3. RefFits(accesses, q, refChunk, H)
    BY <1>3
  <2> HIDE DEF q, m
  <2>4. \A S : S \cap (H \ H) = {}
    OBVIOUS
  <2>5. Cardinality({}) = 0
    BY FS_EmptySet
  <2>6. ASSUME NEW x \in Chunked(accesses, refChunk)
        PROVE  /\ refAddr < x[1] => x \notin H
               /\ ~(refAddr <= x[1] /\ x[1] < refAddr)
    <3>1. x[1] \in Nat
      BY AccessType DEF Chunked
    <3> QED
      BY <1>1, <3>1
  <2>7. Fits(accesses, q, refChunk, H, H)
    <3>1. /\ q.fromSkip = Cardinality(OfEntry(accesses, q.fromAddr, refChunk) \cap H)
          /\ q.fromAddr <= q.toAddr
      BY <1>1, <2>2
    <3>2. /\ q.count = Cardinality(Chunked(accesses, refChunk) \cap (H \ H))
          /\ q.toCount = Cardinality(OfEntry(accesses, q.toAddr, refChunk) \cap (H \ H))
      BY <2>2, <2>4, <2>5
    <3>3. \A x \in Chunked(accesses, refChunk) :
            /\ x \in H \ H => q.fromAddr <= x[1] /\ x[1] <= q.toAddr
            /\ q.fromAddr < x[1] => x \notin H
            /\ q.fromAddr <= x[1] /\ x[1] < q.toAddr => x \in H
      BY <2>2, <2>6
    <3> QED
      BY <3>1, <3>2, <3>3 DEF Fits
  <2>8. SegFits(accesses, m, H, H)
    <3>1. m[refChunk].interSkip # None
      BY <2>1, <2>2 DEF None
    <3> QED
      BY <1>1, <2>1, <2>3, <2>7, <3>1 DEF SegFits
  <2> QED
    BY <2>8 DEF m
<1> QED
  BY <1>2, <1>3

-----------------------------------------------------------------------------
(* The plan covers the execution. *)

\* An entry of the cursor has the number of its accesses, one at least.
EntryFits(acc, e) ==
    e.count = Cardinality(OfEntry(acc, e.addr, e.chunk)) /\ OfEntry(acc, e.addr, e.chunk) # {}

\* Every access that is not in H is of an entry of the list.
Listed(acc, H, list) ==
    \A x \in acc : x \notin H =>
        \E i \in 1 .. Len(list) : x \in OfEntry(acc, list[i].addr, list[i].chunk)

\* H is all that is planned so far, and what is behind L is in the open segment.
Covers(L, H) ==
    /\ PlannedTo(accesses, H, refAddr, refChunk, refSkip)
    /\ SegFits(accesses, current, L, H)
    /\ Listed(accesses, IF pc = "next" THEN H ELSE H \cup OfEntry(accesses, entry.addr, entry.chunk),
              cursor)
    /\ refChunk # None => OfEntry(accesses, refAddr, refChunk) # {}
    /\ refChunk = None => H = {}
    /\ pc # "rows" => OfEntry(accesses, refAddr, refChunk) \subseteq H
    /\ pc = "rows" => /\ total = Cardinality(OfEntry(accesses, refAddr, refChunk))
                      /\ refSkip = total - pending
                      /\ rowsAvailable = 0 => refSkip > 0
    /\ segments = <<>> => L = {} /\ (rowsAvailable = Rows => H = {})

\* The entries the cursor still yields have their accesses, and while the planner
\* is at work everything is covered.
Coverage ==
    /\ accesses # {}
    /\ \A i \in 1 .. Len(cursor) : EntryFits(accesses, cursor[i])
    /\ pc \in {"intermediate", "rows"} => EntryFits(accesses, entry)
    /\ pc \in {"next", "intermediate", "rows"} => \E L, H : Covers(L, H)

\* Every closed segment has what is between two cuts, the first one from the start.
AllFit(acc, segs) ==
    \A s \in 1 .. Len(segs) :
        \E L, H : SegFits(acc, segs[s].chunks, L, H) /\ (s = 1 => L = {})

\* The entries of the cursor are those of the accesses.
LEMMA CursorCovers ==
    ASSUME NEW acc, acc \subseteq Accesses
    PROVE  /\ \A i \in 1 .. Len(CursorOf(acc)) : EntryFits(acc, CursorOf(acc)[i])
           /\ Listed(acc, {}, CursorOf(acc))
<1> DEFINE P == {<<a[1], ChunkOf(a[2])>> : a \in acc}
           sorted == Sorted(P)
           n == Cardinality(P)
           s == CursorOf(acc)
<1>1. ASSUME NEW a \in acc
      PROVE  <<a[1], ChunkOf(a[2])>> \in Nat \X Nat /\ <<a[1], ChunkOf(a[2])>> \in (0 .. MaxAddr) \X Chunks
  BY AccessType, MemPlanAssumption
<1>2. P \subseteq Nat \X Nat /\ P \subseteq (0 .. MaxAddr) \X Chunks
  BY <1>1
<1>3. IsFiniteSet(P)
  <2>1. IsFiniteSet(0 .. MaxAddr) /\ NumChunks \in Nat
    BY AccessType, MemPlanAssumption
  <2>2. IsFiniteSet(0 .. NumChunks - 1)
    BY <2>1, FS_Interval
  <2>3. IsFiniteSet((0 .. MaxAddr) \X Chunks)
    BY <2>1, <2>2, FS_Product DEF Chunks
  <2> QED
    BY <1>2, <2>3, FS_Subset
<1>4. s = [i \in 1 .. Len(sorted) |->
            [addr |-> sorted[i][1], chunk |-> sorted[i][2],
             count |-> Cardinality(OfEntry(acc, sorted[i][1], sorted[i][2]))]]
  BY DEF CursorOf, OfEntry
<1>5. ASSUME NEW p \in P PROVE OfEntry(acc, p[1], p[2]) # {}
  BY DEF OfEntry
<1>6. ASSUME NEW a \in acc PROVE <<a[1], ChunkOf(a[2])>> \in P
  OBVIOUS
<1> HIDE DEF P, s
<1>7. /\ n \in Nat /\ sorted \in Seq(P) /\ Len(sorted) = n
      /\ \A x \in P : \E i \in 1 .. n : sorted[i] = x
  BY <1>2, <1>3, SortedOnto
<1> HIDE DEF sorted, n
<1>8. Len(s) = n
  BY <1>4, <1>7
<1>9. ASSUME NEW i \in 1 .. n
      PROVE  /\ s[i].addr = sorted[i][1] /\ s[i].chunk = sorted[i][2]
             /\ s[i].count = Cardinality(OfEntry(acc, sorted[i][1], sorted[i][2]))
             /\ sorted[i] \in P
  BY <1>4, <1>7
<1>10. \A i \in 1 .. Len(s) : EntryFits(acc, s[i])
  <2>1. ASSUME NEW i \in 1 .. n PROVE EntryFits(acc, s[i])
    <3>1. OfEntry(acc, sorted[i][1], sorted[i][2]) # {}
      BY <1>5, <1>9
    <3> QED
      BY <1>9, <3>1 DEF EntryFits
  <2> QED
    BY <1>8, <2>1
<1>11. Listed(acc, {}, s)
  <2>1. ASSUME NEW x \in acc
        PROVE  \E i \in 1 .. Len(s) : x \in OfEntry(acc, s[i].addr, s[i].chunk)
    <3>1. PICK i \in 1 .. n : sorted[i] = <<x[1], ChunkOf(x[2])>>
      BY <1>6, <1>7
    <3>2. s[i].addr = x[1] /\ s[i].chunk = ChunkOf(x[2])
      BY <1>9, <3>1
    <3> QED
      BY <1>8, <3>2 DEF OfEntry
  <2> QED
    BY <2>1 DEF Listed
<1> QED
  BY <1>10, <1>11 DEF s

\* close_segment of a segment that fits.
LEMMA ClosedFits ==
    ASSUME segments \in Segments, AllFit(accesses, segments), NEW m, NEW isLast, m \in ChunkMaps,
           isLast \in BOOLEAN, NEW L, NEW H, SegFits(accesses, m, L, H), segments = <<>> => L = {}
    PROVE  AllFit(accesses, Closed(m, isLast)) /\ Closed(m, isLast) # <<>>
<1> DEFINE g == [chunks |-> m, isLast |-> isLast]
           t == Closed(m, isLast)
<1>1. g \in Segment /\ g.chunks = m
  BY DEF Segment
<1>2. t = Append(segments, g)
  BY DEF Closed
<1> HIDE DEF g, t
<1>3. segments \in Seq(Segment)
  BY DEF Segments
<1>4. /\ Len(t) = Len(segments) + 1 /\ Len(segments) \in Nat /\ t[Len(segments) + 1] = g
      /\ \A s \in 1 .. Len(segments) : t[s] = segments[s]
  BY <1>1, <1>2, <1>3
<1>5. ASSUME NEW s \in 1 .. Len(t)
      PROVE  \E L1, H1 : SegFits(accesses, t[s].chunks, L1, H1) /\ (s = 1 => L1 = {})
  <2>1. CASE s = Len(segments) + 1
    <3>1. s = 1 => segments = <<>>
      BY <1>3, <1>4, <2>1
    <3> QED
      BY <1>1, <1>4, <2>1, <3>1
  <2>2. CASE s \in 1 .. Len(segments)
    BY <1>4, <2>2 DEF AllFit
  <2> QED
    BY <1>4, <2>1, <2>2
<1>6. AllFit(accesses, t) /\ t # <<>>
  <2>1. AllFit(accesses, t)
    BY ONLY <1>5, Zenon DEF AllFit
  <2>2. Len(t) # 0
    BY <1>4
  <2> QED
    BY <2>1, <2>2
<1> QED
  BY <1>6 DEF t

\* At the start nothing is planned.
LEMMA InitCoverage ==
    ASSUME Init
    PROVE  Coverage /\ AllFit(accesses, segments)
<1>1. /\ pc = "next" /\ accesses \subseteq Accesses /\ accesses # {} /\ cursor = CursorOf(accesses)
      /\ segments = <<>> /\ current = NoChunks /\ refChunk = None /\ refAddr = 0 /\ refSkip = 0
  <2>1. accesses \in Executions
    BY DEF Init
  <2>2. accesses # {}
    BY <2>1 DEF Executions
  <2>3. accesses \subseteq Accesses
    BY <2>1, ExecutionsAre
  <2> QED
    BY <2>2, <2>3 DEF Init, MinAddr
<1>2. /\ \A i \in 1 .. Len(cursor) : EntryFits(accesses, cursor[i])
      /\ Listed(accesses, {}, cursor)
  BY <1>1, CursorCovers
<1>3. \A x \in accesses : x[1] \in Nat /\ ChunkOf(x[2]) \in Nat
  BY <1>1, AccessType
<1>4. OfEntry(accesses, 0, None) = {}
  BY <1>3 DEF OfEntry, None
<1>5. Cut(accesses, {})
  BY DEF Cut
<1>6. SegFits(accesses, NoChunks, {}, {})
  <2>1. DOMAIN NoChunks = {}
    BY DEF NoChunks
  <2> QED
    BY <1>5, <2>1 DEF SegFits
<1>7. PlannedTo(accesses, {}, 0, None, 0)
  <2>1. OfEntry(accesses, 0, None) \cap {} = {} /\ Cardinality({}) = 0
    BY FS_EmptySet
  <2> QED
    BY <1>3, <1>5, <2>1 DEF PlannedTo, None
<1>8. Covers({}, {})
  BY <1>1, <1>2, <1>4, <1>6, <1>7 DEF Covers
<1>9. Len(segments) = 0
  BY <1>1
<1> QED
  BY <1>1, <1>2, <1>8, <1>9 DEF Coverage, AllFit

\* The next entry of the cursor.
LEMMA NextEntryCoverage ==
    ASSUME IInv, Coverage, AllFit(accesses, segments), NextEntry
    PROVE  Coverage' /\ AllFit(accesses, segments)'
<1> DEFINE e == Head(cursor)
<1>0. /\ pc = "next" /\ cursor # <<>> /\ pc' = "intermediate" /\ entry' = e /\ cursor' = Tail(cursor)
      /\ UNCHANGED <<accesses, rowsAvailable, segments, current, refChunk, refAddr, refSkip>>
  BY DEF NextEntry
<1>1. cursor \in Seq(Entries) /\ Len(cursor) \in Nat /\ Len(cursor) > 0
  BY <1>0 DEF IInv, Types, Cursors
<1>2. /\ e = cursor[1] /\ 1 \in 1 .. Len(cursor) /\ Len(Tail(cursor)) = Len(cursor) - 1
      /\ \A i \in 1 .. Len(Tail(cursor)) : Tail(cursor)[i] = cursor[i + 1] /\ i + 1 \in 1 .. Len(cursor)
  BY <1>1
<1> HIDE DEF e
<1>3. PICK L, H : Covers(L, H)
  BY <1>0 DEF Coverage
<1>4. \A i \in 1 .. Len(cursor) : EntryFits(accesses, cursor[i])
  BY DEF Coverage
<1>5. EntryFits(accesses, e) /\ \A i \in 1 .. Len(Tail(cursor)) : EntryFits(accesses, Tail(cursor)[i])
  BY <1>2, <1>4
<1>6. Listed(accesses, H \cup OfEntry(accesses, e.addr, e.chunk), Tail(cursor))
  <2>1. Listed(accesses, H, cursor)
    BY <1>0, <1>3 DEF Covers
  <2>2. ASSUME NEW x \in accesses, x \notin H, x \notin OfEntry(accesses, e.addr, e.chunk)
        PROVE  \E i \in 1 .. Len(Tail(cursor)) :
                    x \in OfEntry(accesses, Tail(cursor)[i].addr, Tail(cursor)[i].chunk)
    <3>1. PICK i \in 1 .. Len(cursor) : x \in OfEntry(accesses, cursor[i].addr, cursor[i].chunk)
      BY <2>1, <2>2 DEF Listed
    <3>2. i # 1
      BY <1>2, <2>2, <3>1
    <3>3. i - 1 \in 1 .. Len(Tail(cursor)) /\ (i - 1) + 1 = i
      BY <1>1, <1>2, <3>2
    <3>4. Tail(cursor)[i - 1] = cursor[i]
      BY <1>2, <3>3
    <3> QED
      BY <3>1, <3>3, <3>4
  <2> QED
    BY <2>2 DEF Listed
<1>7. Covers(L, H)'
  BY <1>0, <1>3, <1>6 DEF Covers
<1>8. accesses # {}
  BY DEF Coverage
<1>9. Coverage'
  BY <1>0, <1>5, <1>7, <1>8 DEF Coverage
<1> QED
  BY <1>0, <1>9

\* The check point of the reference, when internal reads are before the entry.
LEMMA OpenedRef ==
    ASSUME IInv, Coverage, pc = "intermediate", NEW L, NEW H, Covers(L, H),
           NEW n \in Nat, n <= total, refChunk # None
    PROVE  RefFits(accesses, CheckPoint(refAddr, refSkip, 0, n), refChunk, H)
<1> DEFINE cp == CheckPoint(refAddr, refSkip, 0, n)
           E == OfEntry(accesses, entry.addr, entry.chunk)
<1>1. cp.fromAddr = refAddr /\ cp.fromSkip = refSkip /\ cp.interSkip = n
  BY DEF CheckPoint
<1>2. Types /\ Position /\ Planned
  BY DEF IInv
<1>3. /\ accesses \subseteq Accesses /\ refAddr \in Nat /\ lastAddr \in Nat /\ entry \in Entries
      /\ entry.addr = lastAddr /\ entry.chunk = currentChunk /\ refChunk = lastChunk
      /\ \/ refAddr < lastAddr
         \/ refAddr = lastAddr /\ lastChunk < currentChunk
      /\ refChunk \in Chunks
      /\ total = IF refAddr = lastAddr THEN IntermediateSteps(lastChunk, currentChunk) ELSE 0
      /\ refSkip \in Nat /\ total \in Nat
  BY <1>2 DEF Types, TypeOK, Position, Planned, Accesses
<1>4. /\ \A x \in H : x[1] < refAddr \/ (x[1] = refAddr /\ ChunkOf(x[2]) <= refChunk)
      /\ refSkip = Cardinality(OfEntry(accesses, refAddr, refChunk) \cap H)
      /\ OfEntry(accesses, refAddr, refChunk) \subseteq H
      /\ OfEntry(accesses, refAddr, refChunk) # {}
      /\ Listed(accesses, H \cup E, cursor)
  BY DEF Covers, PlannedTo
<1>5. E # {}
  BY DEF Coverage, EntryFits
<1> HIDE DEF cp
<1>8. refSkip > 0
  <2>1. OfEntry(accesses, refAddr, refChunk) \cap H = OfEntry(accesses, refAddr, refChunk)
    BY <1>4
  <2>2. OfEntry(accesses, refAddr, refChunk) \in SUBSET Accesses
    BY <1>3 DEF OfEntry
  <2>3. IsFiniteSet(OfEntry(accesses, refAddr, refChunk))
    BY <2>2, AccessType, FS_Subset
  <2>4. refSkip # 0
    BY <1>4, <2>1, <2>3, FS_EmptySet
  <2> QED
    BY <1>3, <2>4
<1>6. ASSUME n > 0
      PROVE  \E q \in accesses \ H :
                    /\ q[1] = refAddr /\ refChunk < ChunkOf(q[2])
                    /\ n <= IntermediateSteps(refChunk, ChunkOf(q[2]))
                    /\ \A x \in accesses \ H : ~Before(x, q)
  <2>1. refAddr = lastAddr /\ lastChunk < currentChunk
        /\ n <= IntermediateSteps(lastChunk, currentChunk)
    BY <1>3, <1>6
  <2>3. E \subseteq Nat \X Nat /\ IsFiniteSet(E)
    <3>1. E \in SUBSET Accesses
      BY <1>3 DEF OfEntry
    <3> HIDE DEF E
    <3> QED
      BY <3>1, AccessType, FS_Subset
  <2>4. \E q \in E : \A y \in E : ~Before(y, q)
    <3> DEFINE f == Sorted(E)
               N == Cardinality(E)
    <3> HIDE DEF E
    <3>1. /\ N \in Nat /\ f \in Seq(E) /\ Len(f) = N /\ \A x \in E : \E i \in 1 .. N : f[i] = x
          /\ \A i, j \in 1 .. N : i < j => Before(f[i], f[j])
      BY <2>3, SortedOnto
    <3> HIDE DEF f, N
    <3>2. N # 0
      BY <1>5, <3>1
    <3>3. 1 \in 1 .. N /\ f[1] \in E
      BY <3>1, <3>2
    <3>4. ASSUME NEW y \in E, Before(y, f[1]) PROVE FALSE
      <4>1. PICK i \in 1 .. N : f[i] = y
        BY <3>1
      <4>2. y \in Nat \X Nat /\ f[1] \in Nat \X Nat
        BY <2>3, <3>3
      <4>3. ~Before(f[1], f[1]) /\ ~(Before(f[1], y) /\ Before(y, f[1]))
        BY <4>2, BeforeOrder
      <4>4. i # 1 => Before(f[1], f[i])
        BY <3>1, <3>3
      <4> QED
        BY <3>4, <4>1, <4>3, <4>4
    <3> QED
      BY <3>3, <3>4
  <2>5. PICK q \in E : \A y \in E : ~Before(y, q)
    BY <2>4
  <2>6. q \in accesses /\ q[1] = lastAddr /\ ChunkOf(q[2]) = currentChunk /\ q[2] \in Steps /\ q[2] \in Nat
    BY <1>3, AccessType DEF OfEntry
  <2>7. currentChunk \in Nat /\ refChunk \in Nat
    BY <1>3, <2>1, FirstOfChunk DEF Entries
  <2>8. q \notin H
    BY <1>3, <1>4, <2>1, <2>6, <2>7
  <2>9. ASSUME NEW x \in accesses \ H, Before(x, q) PROVE FALSE
    <3>1. x \notin E
      BY <2>5, <2>9
    <3>2. PICK i \in 1 .. Len(cursor) : x \in OfEntry(accesses, cursor[i].addr, cursor[i].chunk)
      BY <1>4, <3>1 DEF Listed
    <3>3. /\ x[1] = cursor[i].addr /\ ChunkOf(x[2]) = cursor[i].chunk /\ x[1] \in Nat /\ x[2] \in Nat
          /\ x[2] \in Steps /\ ChunkOf(x[2]) \in Nat
      BY <1>3, <3>2, AccessType DEF OfEntry
    <3>4. \/ lastAddr < cursor[i].addr
          \/ lastAddr = cursor[i].addr /\ currentChunk < cursor[i].chunk
      BY <1>2 DEF Position
    <3>5. x[1] = q[1] /\ currentChunk < ChunkOf(x[2]) /\ x[2] < q[2]
      BY <1>3, <2>6, <2>9, <3>3, <3>4 DEF Before
    <3>6. q[2] < x[2]
      BY <2>6, <3>3, <3>5, EarlierChunk
    <3> QED
      BY <2>6, <3>3, <3>5, <3>6
  <2>10. q \in accesses \ H /\ q[1] = refAddr /\ refChunk < ChunkOf(q[2])
         /\ n <= IntermediateSteps(refChunk, ChunkOf(q[2]))
    BY <1>3, <2>1, <2>6, <2>8
  <2> QED
    BY <2>9, <2>10
<1>7. RefFits(accesses, cp, refChunk, H)
  BY <1>1, <1>4, <1>6, <1>8 DEF RefFits
<1> QED
  BY <1>7 DEF cp

\* Internal reads are put in a segment, which may end between them.
LEMMA ConsumeIntermediateCoverage ==
    ASSUME IInv, Coverage, AllFit(accesses, segments), ConsumeIntermediate
    PROVE  Coverage' /\ AllFit(accesses, segments)'
<1> DEFINE rows == Min({pending, rowsAvailable})
<1>0. /\ pc = "intermediate" /\ pending > 0
      /\ segments' = IF rowsAvailable = 0 THEN Closed(current, FALSE) ELSE segments
      /\ current' = IF rowsAvailable = 0 THEN Opened(total - pending) ELSE current
      /\ rowsAvailable' = (IF rowsAvailable = 0 THEN Rows ELSE rowsAvailable) - rows
      /\ UNCHANGED <<pc, accesses, cursor, entry, total, refChunk, refAddr, refSkip>>
  BY DEF ConsumeIntermediate
<1>1. /\ pending \in 0 .. total /\ total \in Nat /\ rowsAvailable \in 0 .. Rows
      /\ Rows \in Nat \ {0} /\ refAddr \in Nat /\ refChunk \in Chunks \cup {None}
      /\ current \in ChunkMaps /\ segments \in Segments /\ accesses \subseteq Accesses
  BY MemPlanAssumption DEF IInv, Types, TypeOK, Accesses
<1>2. rows = IF pending <= rowsAvailable THEN pending ELSE rowsAvailable
  BY <1>1, MinOfTwo
<1> HIDE DEF rows
<1>3. PICK L, H : Covers(L, H)
  BY <1>0 DEF Coverage
<1>4. CASE rowsAvailable = 0
  <2>1. AllFit(accesses, segments)' /\ segments' # <<>>
    <3>1. SegFits(accesses, current, L, H) /\ (segments = <<>> => L = {})
      BY <1>3 DEF Covers
    <3> QED
      BY <1>0, <1>1, <1>4, <3>1, ClosedFits
  <2>2. SegFits(accesses, Opened(total - pending), H, H)
    <3>1. total - pending \in Nat /\ total - pending <= total
      BY <1>1
    <3>2. PlannedTo(accesses, H, refAddr, refChunk, refSkip)
      BY <1>3 DEF Covers
    <3>3. refChunk # None => RefFits(accesses, CheckPoint(refAddr, refSkip, 0, total - pending), refChunk, H)
      BY <1>0, <1>3, <3>1, OpenedRef
    <3>4. refChunk = None => H = {}
      BY <1>3 DEF Covers
    <3> QED
      BY <1>1, <3>1, <3>2, <3>3, <3>4, OpenedFits
  <2>3. Covers(H, H)'
    BY <1>0, <1>3, <1>4, <2>1, <2>2 DEF Covers
  <2> QED
    BY <1>0, <2>1, <2>3 DEF Coverage
<1>5. CASE rowsAvailable # 0
  <2>1. rowsAvailable' # Rows
    BY <1>0, <1>1, <1>2, <1>5
  <2>2. Covers(L, H)'
    BY <1>0, <1>3, <1>5, <2>1 DEF Covers
  <2> QED
    BY <1>0, <1>5, <2>2 DEF Coverage
<1> QED
  BY <1>4, <1>5

\* All that is planned when an entry begins are the entries before it.
LEMMA EntryBegins ==
    ASSUME IInv, Coverage, pc = "intermediate", NEW L, NEW H, Covers(L, H)
    PROVE  /\ PlannedTo(accesses, H, entry.addr, entry.chunk, 0)
           /\ OfEntry(accesses, entry.addr, entry.chunk) \cap H = {}
<1> DEFINE E == OfEntry(accesses, entry.addr, entry.chunk)
<1>1. Types /\ Position
  BY DEF IInv
<1>2. /\ accesses \subseteq Accesses /\ refAddr \in Nat /\ lastAddr \in Nat /\ entry \in Entries
      /\ entry.addr = lastAddr /\ entry.chunk = currentChunk /\ refChunk = lastChunk
      /\ \/ refAddr < lastAddr
         \/ refAddr = lastAddr /\ lastChunk < currentChunk
      /\ refChunk \in Chunks \cup {None}
  BY <1>1 DEF Types, TypeOK, Position, Accesses
<1>3. currentChunk \in Nat /\ refChunk \in Int
  BY <1>2, FirstOfChunk DEF Entries, None
<1>4. /\ Cut(accesses, H) /\ H \subseteq accesses
      /\ \A x \in H : x[1] < refAddr \/ (x[1] = refAddr /\ ChunkOf(x[2]) <= refChunk)
      /\ Listed(accesses, H \cup E, cursor)
  BY DEF Covers, PlannedTo, Cut
<1>5. \A x \in accesses : x[1] \in Nat /\ ChunkOf(x[2]) \in Nat
  BY <1>2, AccessType
<1>6. ASSUME NEW x \in H
      PROVE  x[1] < lastAddr \/ (x[1] = lastAddr /\ ChunkOf(x[2]) < currentChunk)
  <2>1. x[1] \in Nat /\ ChunkOf(x[2]) \in Nat
    BY <1>4, <1>5
  <2>2. x[1] < refAddr \/ (x[1] = refAddr /\ ChunkOf(x[2]) <= refChunk)
    BY <1>4
  <2> QED
    BY <1>2, <1>3, <2>1, <2>2
<1>7. E \cap H = {}
  <2>1. ASSUME NEW x \in E, x \in H PROVE FALSE
    <3>1. x[1] = lastAddr /\ ChunkOf(x[2]) = currentChunk
      BY <1>2 DEF OfEntry
    <3> QED
      BY <1>2, <1>3, <1>6, <2>1, <3>1
  <2> QED
    BY <2>1
<1>8. ASSUME NEW x \in accesses, x[1] < lastAddr \/ (x[1] = lastAddr /\ ChunkOf(x[2]) < currentChunk)
      PROVE  x \in H
  <2> SUFFICES ASSUME x \notin H PROVE FALSE
    OBVIOUS
  <2>0. x[1] \in Nat /\ ChunkOf(x[2]) \in Nat
    BY <1>5
  <2>1. x \notin E
    BY <1>2, <1>3, <1>8, <2>0 DEF OfEntry
  <2>2. PICK i \in 1 .. Len(cursor) : x \in OfEntry(accesses, cursor[i].addr, cursor[i].chunk)
    BY <1>4, <2>1 DEF Listed
  <2>3. x[1] = cursor[i].addr /\ ChunkOf(x[2]) = cursor[i].chunk
    BY <2>2 DEF OfEntry
  <2>4. \/ lastAddr < cursor[i].addr
        \/ lastAddr = cursor[i].addr /\ currentChunk < cursor[i].chunk
    BY <1>1 DEF Position
  <2> QED
    BY <1>2, <1>3, <1>8, <2>0, <2>3, <2>4
<1>9. \A x \in H : x[1] < lastAddr \/ (x[1] = lastAddr /\ ChunkOf(x[2]) <= currentChunk)
  BY <1>3, <1>4, <1>5, <1>6
<1>10. 0 = Cardinality(E \cap H)
  BY <1>7, FS_EmptySet
<1> HIDE DEF E
<1>11. PlannedTo(accesses, H, entry.addr, entry.chunk, 0)
  BY <1>2, <1>4, <1>8, <1>9, <1>10 DEF PlannedTo, E
<1> QED
  BY <1>7, <1>11 DEF E

\* F are the next k accesses of an entry that H has begun.
NextPart(F, acc, H, addr, c, skip, k) ==
    /\ F \subseteq OfEntry(acc, addr, c) /\ F \cap H = {} /\ Cardinality(F) = k
    /\ PlannedTo(acc, H \cup F, addr, c, skip + k)

\* They exist.
LEMMA NextOfEntry ==
    ASSUME NEW acc, acc \subseteq Accesses, NEW H, NEW addr \in Nat, NEW c \in Chunks, NEW skip,
           PlannedTo(acc, H, addr, c, skip), NEW k \in Nat,
           skip + k <= Cardinality(OfEntry(acc, addr, c))
    PROVE  \E F : NextPart(F, acc, H, addr, c, skip, k)
<1> DEFINE E == OfEntry(acc, addr, c)
           S == E \ H
<1>1. /\ Cut(acc, H) /\ H \subseteq acc
      /\ \A x \in H : x[1] < addr \/ (x[1] = addr /\ ChunkOf(x[2]) <= c)
      /\ \A x \in acc : x[1] < addr \/ (x[1] = addr /\ ChunkOf(x[2]) < c) => x \in H
      /\ skip = Cardinality(E \cap H)
  BY DEF PlannedTo, Cut
<1>2. E \subseteq acc /\ E \in SUBSET Accesses /\ S \in SUBSET Accesses
      /\ \A x \in E : x[1] = addr /\ ChunkOf(x[2]) = c
  BY DEF OfEntry
<1>e. \A x \in acc : x[1] = addr /\ ChunkOf(x[2]) = c => x \in E
  BY DEF OfEntry
<1> HIDE DEF E
<1>3. IsFiniteSet(E) /\ IsFiniteSet(S) /\ S \subseteq Nat \X Nat
  BY <1>2, AccessType, FS_Subset
<1>4. IsFiniteSet(E \cap H)
  BY <1>3, FS_Subset
<1>5. Cardinality(E) = skip + Cardinality(S) /\ skip \in Nat /\ Cardinality(S) \in Nat
  <2>1. E = (E \cap H) \cup S /\ (E \cap H) \cap S = {}
    OBVIOUS
  <2>2. /\ Cardinality((E \cap H) \cup S) = Cardinality(E \cap H) + Cardinality(S)
        /\ Cardinality(E \cap H) \in Nat /\ Cardinality(S) \in Nat
    BY <1>3, <1>4, <2>1, SizeOfUnion
  <2> QED
    BY <1>1, <2>1, <2>2
<1>6. k \in 0 .. Cardinality(S)
  BY <1>5 DEF E
<1>7. PICK F \in SUBSET S : /\ Cardinality(F) = k
                            /\ \A x \in F, y \in S : Before(y, x) => y \in F
  BY <1>3, <1>6, FirstOf
<1> DEFINE G == H \cup F
<1>8. F \subseteq E /\ F \cap H = {}
  BY <1>7
<1>9. ASSUME NEW x \in G, NEW y \in acc, Before(y, x)
      PROVE  y \in G
  <2>1. CASE x \in H
    BY <1>1, <1>9, <2>1 DEF Cut
  <2>2. CASE x \in F
    <3> SUFFICES ASSUME y \notin H PROVE y \in F
      OBVIOUS
    <3>1. x \in E /\ x[1] = addr /\ ChunkOf(x[2]) = c /\ x \in acc
      BY <1>2, <1>8, <2>2
    <3>2. /\ x[1] \in Nat /\ x[2] \in Nat /\ y[1] \in Nat /\ y[2] \in Nat
          /\ x[2] \in Steps /\ y[2] \in Steps /\ ChunkOf(y[2]) \in Nat /\ ChunkOf(x[2]) \in Nat
      BY <3>1, AccessType
    <3>3. ~(y[1] < addr) /\ ~(y[1] = addr /\ ChunkOf(y[2]) < c)
      BY <1>1
    <3>4. y[1] = addr /\ y[2] < x[2]
      BY <1>9, <3>1, <3>2, <3>3 DEF Before
    <3>5. ~(c < ChunkOf(y[2]))
      BY <3>1, <3>2, <3>4, EarlierChunk
    <3>6. ChunkOf(y[2]) = c
      BY <3>1, <3>2, <3>3, <3>4, <3>5
    <3>7. y \in S
      BY <1>e, <3>4, <3>6
    <3> QED
      BY <1>7, <1>9, <2>2, <3>7
  <2> QED
    BY <2>1, <2>2
<1>10. Cut(acc, G)
  <2>1. G \subseteq acc
    BY <1>1, <1>2, <1>8
  <2> QED
    BY <1>9, <2>1 DEF Cut
<1>11. \A x \in G : x[1] < addr \/ (x[1] = addr /\ ChunkOf(x[2]) <= c)
  <2>1. c \in Nat
    BY FirstOfChunk
  <2> QED
    BY <1>1, <1>2, <1>8, <2>1
<1>12. Cardinality(E \cap G) = skip + k
  <2>1. E \cap G = (E \cap H) \cup F /\ (E \cap H) \cap F = {}
    BY <1>8
  <2>2. IsFiniteSet(F)
    BY <1>3, <1>7, FS_Subset
  <2>3. Cardinality((E \cap H) \cup F) = Cardinality(E \cap H) + Cardinality(F)
    BY <1>4, <2>1, <2>2, SizeOfUnion
  <2> QED
    BY <1>1, <1>7, <2>1, <2>3
<1> HIDE DEF G
<1>13. PlannedTo(acc, G, addr, c, skip + k)
  <2>1. \A x \in acc : x[1] < addr \/ (x[1] = addr /\ ChunkOf(x[2]) < c) => x \in G
    BY <1>1 DEF G
  <2> QED
    BY <1>10, <1>11, <1>12, <2>1 DEF PlannedTo, E
<1>14. NextPart(F, acc, H, addr, c, skip, k)
  BY <1>7, <1>8, <1>13 DEF E, G, NextPart
<1> QED
  BY <1>14

\* What add_chunk_to_segment needs to know of the planned accesses of a chunk.
LEMMA PlannedInChunk ==
    ASSUME NEW acc, acc \subseteq Accesses, NEW H, NEW addr \in Nat, NEW c \in Chunks, NEW skip,
           PlannedTo(acc, H, addr, c, skip)
    PROVE  \A x \in Chunked(acc, c) : (x[1] < addr => x \in H) /\ (x \in H => x[1] <= addr)
<1>1. ASSUME NEW x \in Chunked(acc, c)
      PROVE  (x[1] < addr => x \in H) /\ (x \in H => x[1] <= addr)
  <2>1. x \in acc /\ x[1] \in Nat
    BY AccessType DEF Chunked
  <2> QED
    BY <2>1 DEF PlannedTo
<1> QED
  BY <1>1

\* The entry's own rows start; a full segment is closed before them.
LEMMA PreopenCoverage ==
    ASSUME IInv, Coverage, AllFit(accesses, segments), Preopen
    PROVE  Coverage' /\ AllFit(accesses, segments)'
<1> DEFINE last == IF total > 0 THEN AddChunk(current, currentChunk, entry.addr, 1, 0) ELSE current
           E == OfEntry(accesses, entry.addr, entry.chunk)
<1>0. /\ pc = "intermediate" /\ pc' = "rows" /\ pending = 0
      /\ segments' = IF rowsAvailable = 0 THEN Closed(last, FALSE) ELSE segments
      /\ current' = IF rowsAvailable = 0 THEN Opened(total) ELSE current
      /\ rowsAvailable' = IF rowsAvailable = 0 THEN Rows ELSE rowsAvailable
      /\ refChunk' = entry.chunk /\ refAddr' = entry.addr /\ refSkip' = 0
      /\ total' = entry.count /\ pending' = entry.count
      /\ UNCHANGED <<accesses, cursor, entry>>
  BY DEF Preopen
<1>1. /\ total \in Nat /\ refAddr \in Nat /\ refChunk \in Chunks \cup {None}
      /\ current \in ChunkMaps /\ segments \in Segments /\ accesses \subseteq Accesses
      /\ entry \in Entries /\ entry.addr = lastAddr /\ entry.chunk = currentChunk /\ lastAddr \in Nat
      /\ UpToAddr(current, lastAddr) /\ MaxAddr \in Nat
  BY <1>0, MemPlanAssumption DEF IInv, Types, TypeOK, Position, Accesses
<1>2. entry.addr \in Nat /\ entry.chunk \in Chunks /\ entry.count \in Nat
  BY <1>1 DEF Entries
<1>3. PICK L, H : Covers(L, H)
  BY <1>0 DEF Coverage
<1>4. PlannedTo(accesses, H, entry.addr, entry.chunk, 0) /\ E \cap H = {}
  BY <1>0, <1>3, EntryBegins
<1>5. E # {} /\ entry.count = Cardinality(E)
  BY <1>0 DEF Coverage, EntryFits
<1>6. SegFits(accesses, current, L, H) /\ (segments = <<>> => L = {})
  BY <1>3 DEF Covers
<1>7. last \in ChunkMaps
  BY <1>1, <1>2, AddChunkType
<1>8. \E G : SegFits(accesses, last, L, G)
  <2>1. CASE total > 0
    <3>1. 0 + 1 <= Cardinality(E)
      <4>1. E \in SUBSET Accesses
        BY <1>1 DEF OfEntry
      <4>2. IsFiniteSet(E)
        BY <4>1, AccessType, FS_Subset
      <4>3. Cardinality(E) # 0
        BY <1>5, <4>2, FS_EmptySet
      <4> QED
        BY <1>2, <1>5, <4>3
    <3>2. PICK F : /\ F \subseteq E /\ F \cap H = {} /\ Cardinality(F) = 1
                   /\ PlannedTo(accesses, H \cup F, entry.addr, entry.chunk, 0 + 1)
      <4>1. accesses \subseteq Accesses /\ 1 \in Nat
        BY <1>1
      <4>2. \E F : NextPart(F, accesses, H, entry.addr, entry.chunk, 0, 1)
        BY <1>2, <1>4, <3>1, <4>1, NextOfEntry
      <4> QED
        BY <4>2 DEF NextPart
    <3>3. Cut(accesses, H \cup F)
      BY <3>2 DEF PlannedTo
    <3>4. 0 = Cardinality(E \cap H)
      BY <1>4 DEF PlannedTo
    <3>5. \A x \in Chunked(accesses, entry.chunk) : (x[1] < entry.addr => x \in H) /\ (x \in H => x[1] <= entry.addr)
      BY <1>1, <1>2, <1>4, PlannedInChunk
    <3>6. SegFits(accesses, AddChunk(current, entry.chunk, entry.addr, 1, 0), L, H \cup F)
      BY <1>1, <1>2, <1>6, <3>2, <3>3, <3>4, <3>5, AddChunkFits
    <3> QED
      BY <1>1, <2>1, <3>6
  <2>2. CASE ~(total > 0)
    BY <1>6, <2>2
  <2> QED
    BY <2>1, <2>2
<1> HIDE DEF last, E
<1>9. AllFit(accesses, segments)' /\ (rowsAvailable = 0 => segments' # <<>>)
  <2>1. PICK G : SegFits(accesses, last, L, G)
    BY <1>8
  <2>2. AllFit(accesses, Closed(last, FALSE)) /\ Closed(last, FALSE) # <<>>
    BY <1>1, <1>6, <1>7, <2>1, ClosedFits
  <2> QED
    BY <1>0, <2>2
<1>10. Listed(accesses, H \cup E, cursor)
  BY <1>0, <1>3 DEF Covers, E
<1>13. refChunk' # None /\ rowsAvailable' # 0
  <2>1. entry.chunk # None
    BY <1>2, FirstOfChunk DEF None
  <2> QED
    BY <1>0, <2>1, MemPlanAssumption
<1>11. CASE rowsAvailable = 0
  <2>1. PlannedTo(accesses, H, refAddr, refChunk, refSkip)
    BY <1>3 DEF Covers
  <2>2. refChunk # None => RefFits(accesses, CheckPoint(refAddr, refSkip, 0, total), refChunk, H)
    BY <1>0, <1>1, <1>3, OpenedRef
  <2>0. refChunk = None => H = {}
    BY <1>3 DEF Covers
  <2>3. SegFits(accesses, Opened(total), H, H)
    BY <1>1, <2>0, <2>1, <2>2, OpenedFits
  <2>4. /\ PlannedTo(accesses, H, refAddr, refChunk, refSkip)'
        /\ SegFits(accesses, current, H, H)'
    BY <1>0, <1>4, <1>11, <2>3
  <2>5. /\ Listed(accesses, H \cup OfEntry(accesses, entry.addr, entry.chunk), cursor)'
        /\ (OfEntry(accesses, refAddr, refChunk) # {})'
        /\ (total = Cardinality(OfEntry(accesses, refAddr, refChunk)))'
        /\ (refSkip = total - pending)'
    BY <1>0, <1>2, <1>5, <1>10 DEF E
  <2>6. Covers(H, H)'
    BY <1>0, <1>9, <1>11, <1>13, <2>4, <2>5 DEF Covers
  <2> QED
    BY <1>0, <1>9, <2>6 DEF Coverage
<1>12. CASE rowsAvailable # 0
  <2>1. Covers(L, H)'
    BY <1>0, <1>2, <1>3, <1>4, <1>5, <1>6, <1>10, <1>12, <1>13 DEF Covers, E
  <2> QED
    BY <1>0, <1>9, <2>1 DEF Coverage
<1> QED
  BY <1>11, <1>12

\* Rows of the entry are put in a segment, which may end between them.
LEMMA ConsumeRowsCoverage ==
    ASSUME IInv, Coverage, AllFit(accesses, segments), ConsumeRows
    PROVE  Coverage' /\ AllFit(accesses, segments)'
<1> DEFINE rows == Min({pending, rowsAvailable})
           chunks == IF rowsAvailable = 0 THEN Opened(0) ELSE current
           E == OfEntry(accesses, refAddr, refChunk)
<1>0. /\ pc = "rows" /\ pending > 0
      /\ segments' = IF rowsAvailable = 0 THEN Closed(current, FALSE) ELSE segments
      /\ current' = AddChunk(chunks, currentChunk, entry.addr, rows, total - pending)
      /\ rowsAvailable' = (IF rowsAvailable = 0 THEN Rows ELSE rowsAvailable) - rows
      /\ refSkip' = refSkip + rows /\ pending' = pending - rows
      /\ UNCHANGED <<pc, accesses, cursor, entry, total, refChunk, refAddr>>
  BY DEF ConsumeRows
<1>1. /\ pending \in 0 .. total /\ total \in Nat /\ rowsAvailable \in 0 .. Rows
      /\ Rows \in Nat \ {0} /\ refAddr \in Nat /\ refChunk \in Chunks \cup {None}
      /\ current \in ChunkMaps /\ segments \in Segments /\ accesses \subseteq Accesses
      /\ entry \in Entries /\ entry.addr = refAddr /\ entry.chunk = refChunk /\ refSkip \in Nat
      /\ currentChunk = refChunk /\ UpToAddr(current, refAddr)
  BY <1>0, MemPlanAssumption DEF IInv, Types, TypeOK, Position, Accesses
<1>2. refChunk \in Chunks
  BY <1>1 DEF Entries
<1>3. rows = IF pending <= rowsAvailable THEN pending ELSE rowsAvailable
  BY <1>1, MinOfTwo
<1> HIDE DEF rows
<1>4. rows \in Nat /\ rows <= pending /\ (rowsAvailable # 0 => rows > 0)
  BY <1>0, <1>1, <1>3
<1>5. PICK L, H : Covers(L, H)
  BY <1>0 DEF Coverage
<1>6. /\ PlannedTo(accesses, H, refAddr, refChunk, refSkip) /\ SegFits(accesses, current, L, H)
      /\ total = Cardinality(E) /\ refSkip = total - pending /\ E # {}
      /\ Listed(accesses, H \cup E, cursor) /\ (rowsAvailable = 0 => refSkip > 0) /\ refChunk # None
      /\ (segments = <<>> => L = {})
  <2>1. refChunk # None
    BY <1>2, FirstOfChunk DEF None
  <2> QED
    BY <1>0, <1>1, <1>5, <2>1 DEF Covers
<1>7. \E M : SegFits(accesses, chunks, M, H) /\ (rowsAvailable # 0 => M = L)
  <2>0. CASE rowsAvailable # 0
    BY <1>6, <2>0
  <2> SUFFICES ASSUME rowsAvailable = 0 PROVE \E M : SegFits(accesses, chunks, M, H)
    BY <2>0
  <2>1. RefFits(accesses, CheckPoint(refAddr, refSkip, 0, 0), refChunk, H)
    <3> DEFINE q == CheckPoint(refAddr, refSkip, 0, 0)
    <3>1. q.fromAddr = refAddr /\ ~(q.interSkip > 0) /\ q.fromSkip = refSkip
      BY DEF CheckPoint
    <3> HIDE DEF q
    <3>2. RefFits(accesses, q, refChunk, H)
      BY <1>6, <3>1 DEF RefFits, PlannedTo
    <3> QED
      BY <3>2 DEF q
  <2>2. SegFits(accesses, Opened(0), H, H)
    BY <1>1, <1>6, <2>1, OpenedFits
  <2> QED
    BY <1>6, <2>2
<1>8. chunks \in ChunkMaps /\ UpToAddr(chunks, refAddr)
  <2>1. Opened(0) \in ChunkMaps /\ UpToAddr(Opened(0), refAddr)
    BY <1>1, OpenedType
  <2> QED
    BY <1>1, <2>1
<1> HIDE DEF chunks
<1>9. PICK M : SegFits(accesses, chunks, M, H) /\ (rowsAvailable # 0 => M = L)
  BY <1>7
<1>10. refSkip + rows <= Cardinality(E)
  BY <1>1, <1>4, <1>6
<1>11. PICK F : /\ F \subseteq E /\ F \cap H = {} /\ Cardinality(F) = rows
                /\ PlannedTo(accesses, H \cup F, refAddr, refChunk, refSkip + rows)
  <2>1. accesses \subseteq Accesses /\ refAddr \in Nat /\ rows \in Nat
        /\ PlannedTo(accesses, H, refAddr, refChunk, refSkip)
    BY <1>1, <1>4, <1>6
  <2>2. \E F : NextPart(F, accesses, H, refAddr, refChunk, refSkip, rows)
    BY <1>2, <1>10, <2>1, NextOfEntry
  <2> QED
    BY <2>2 DEF NextPart
<1>12. SegFits(accesses, AddChunk(chunks, refChunk, refAddr, rows, refSkip), M, H \cup F)
  <2>1. Cut(accesses, H \cup F) /\ refSkip = Cardinality(E \cap H)
    BY <1>6, <1>11 DEF PlannedTo
  <2>2. \A x \in Chunked(accesses, refChunk) : (x[1] < refAddr => x \in H) /\ (x \in H => x[1] <= refAddr)
    BY <1>1, <1>2, <1>6, PlannedInChunk
  <2> QED
    BY <1>1, <1>2, <1>8, <1>9, <1>11, <2>1, <2>2, AddChunkFits
<1>13. current' = AddChunk(chunks, refChunk, refAddr, rows, refSkip)
  BY <1>0, <1>1, <1>6
<1>14. AllFit(accesses, segments)' /\ (rowsAvailable = 0 => segments' # <<>>)
  <2>1. AllFit(accesses, Closed(current, FALSE)) /\ Closed(current, FALSE) # <<>>
    BY <1>1, <1>6, ClosedFits
  <2> QED
    BY <1>0, <2>1
<1>15. segments' = <<>> => rowsAvailable' # Rows /\ M = {}
  <2>1. CASE rowsAvailable = 0
    BY <1>14, <2>1
  <2>2. CASE rowsAvailable # 0
    BY <1>0, <1>1, <1>3, <1>4, <1>6, <1>9, <2>2
  <2> QED
    BY <2>1, <2>2
<1>16. Listed(accesses, (H \cup F) \cup E, cursor)
  BY <1>6 DEF Listed
<1>17. refSkip + rows = total - (pending - rows) /\ refSkip + rows > 0
  <2>1. refSkip > 0 \/ rows > 0
    BY <1>1, <1>4, <1>6
  <2> QED
    BY <1>1, <1>4, <1>6, <2>1
<1>18. Covers(M, H \cup F)'
  BY <1>0, <1>1, <1>6, <1>11, <1>12, <1>13, <1>15, <1>16, <1>17 DEF Covers
<1> QED
  BY <1>0, <1>14, <1>18 DEF Coverage

\* At its end all accesses of an entry are planned.
LEMMA EndEntryCoverage ==
    ASSUME IInv, Coverage, AllFit(accesses, segments), EndEntry
    PROVE  Coverage' /\ AllFit(accesses, segments)'
<1> DEFINE E == OfEntry(accesses, refAddr, refChunk)
<1>0. /\ pc = "rows" /\ pc' = "next" /\ pending = 0
      /\ UNCHANGED <<accesses, cursor, entry, pending, total, rowsAvailable, segments,
                     current, refChunk, refAddr, refSkip>>
  BY DEF EndEntry, plannerVars
<1>1. accesses \subseteq Accesses /\ entry.addr = refAddr /\ entry.chunk = refChunk /\ total \in Nat
  BY <1>0 DEF IInv, Types, TypeOK, Position, Accesses
<1>2. PICK L, H : Covers(L, H)
  BY <1>0 DEF Coverage
<1>3. /\ total = Cardinality(E) /\ total = Cardinality(E \cap H) /\ Listed(accesses, H \cup E, cursor)
  BY <1>0, <1>1, <1>2 DEF Covers, PlannedTo
<1>4. E \subseteq H
  <2>1. E \in SUBSET Accesses
    BY <1>1 DEF OfEntry
  <2> HIDE DEF E
  <2>2. IsFiniteSet(E)
    BY <2>1, AccessType, FS_Subset
  <2>3. E \cap H \in SUBSET E
    OBVIOUS
  <2>4. E = E \cap H
    BY <1>3, <2>2, <2>3, FS_Subset
  <2> QED
    BY <2>4
<1>5. H \cup E = H
  BY <1>4
<1>6. Covers(L, H)'
  BY <1>0, <1>2, <1>3, <1>4, <1>5 DEF Covers
<1> QED
  BY <1>0, <1>6 DEF Coverage

\* The last segment is closed, or the one before it marked; there is one.
LEMMA CloseLastCoverage ==
    ASSUME IInv, Coverage, AllFit(accesses, segments), CloseLast
    PROVE  Coverage' /\ AllFit(accesses, segments)' /\ segments' # <<>>
<1> DEFINE marked == [s \in 1 .. Len(segments) |->
                        [segments[s] EXCEPT !.isLast = @ \/ s = Len(segments)]]
<1>0. /\ pc = "next" /\ cursor = <<>> /\ pc' = "witness"
      /\ segments' = IF rowsAvailable < Rows THEN Closed(current, TRUE) ELSE marked
      /\ UNCHANGED <<accesses, cursor, entry>>
  BY DEF CloseLast
<1>1. /\ current \in ChunkMaps /\ segments \in Segments /\ rowsAvailable \in 0 .. Rows /\ Rows \in Nat
  BY MemPlanAssumption DEF IInv, Types, TypeOK
<1>2. PICK L, H : Covers(L, H)
  BY <1>0 DEF Coverage
<1>3. AllFit(accesses, Closed(current, TRUE)) /\ Closed(current, TRUE) # <<>>
  BY <1>1, <1>2, ClosedFits DEF Covers
<1>4. ASSUME ~(rowsAvailable < Rows)
      PROVE  AllFit(accesses, marked) /\ marked # <<>>
  <2>1. rowsAvailable = Rows
    BY <1>1, <1>4
  <2>2. H # {}
    <3>1. accesses # {} /\ Listed(accesses, H, <<>>)
      BY <1>0, <1>2 DEF Coverage, Covers
    <3>2. Len(<<>>) = 0
      OBVIOUS
    <3> QED
      BY <3>1, <3>2 DEF Listed
  <2>3. segments # <<>>
    BY <1>2, <2>1, <2>2 DEF Covers
  <2>4. Len(segments) \in Nat /\ Len(segments) # 0
    BY <1>1, <2>3 DEF Segments
  <2>5. ASSUME NEW s \in 1 .. Len(segments) PROVE marked[s].chunks = segments[s].chunks
    <3>1. segments[s] \in Segment
      BY <1>1, SegmentsLast
    <3>2. marked[s] = [segments[s] EXCEPT !.isLast = @ \/ s = Len(segments)]
      OBVIOUS
    <3> HIDE DEF marked
    <3> QED
      BY <3>1, <3>2 DEF Segment
  <2>6. DOMAIN marked = 1 .. Len(segments)
    OBVIOUS
  <2>7. Len(marked) = Len(segments)
    BY <2>4
  <2> HIDE DEF marked
  <2>8. marked # <<>>
    BY <2>4, <2>7
  <2>9. ASSUME NEW s \in 1 .. Len(marked)
        PROVE  \E L1, H1 : SegFits(accesses, marked[s].chunks, L1, H1) /\ (s = 1 => L1 = {})
    BY <2>5, <2>7 DEF AllFit
  <2> QED
    BY <2>8, <2>9 DEF AllFit
<1> HIDE DEF marked
<1>5. AllFit(accesses, segments)' /\ segments' # <<>>
  BY <1>0, <1>3, <1>4
<1>6. Coverage'
  BY <1>0 DEF Coverage
<1> QED
  BY <1>5, <1>6

-----------------------------------------------------------------------------
(* The collectors of a segment. *)

\* What the collectors of the check points m have found together: the accesses of
\* the segment, the ends of the previous segment, the internal reads to be skipped.
SegInputs(m) == UNION {Collected(m[c], c).inputs : c \in DOMAIN m}
SegPrevs(m) == UNION {Collected(m[c], c).prev : c \in DOMAIN m}
SegSkips(m) == {m[c].interSkip : c \in DOMAIN m} \ {None}

\* Together the collectors of a segment collect what is between its cuts.
LEMMA SegInputsAre ==
    ASSUME accesses \subseteq Accesses, NEW m \in ChunkMaps, NEW L, NEW H, SegFits(accesses, m, L, H)
    PROVE  SegInputs(m) = H \ L
<1>1. /\ Cut(accesses, L) /\ Cut(accesses, H) /\ H \subseteq accesses
      /\ \A c \in DOMAIN m : Fits(accesses, m[c], c, L, H)
      /\ \A x \in H \ L : ChunkOf(x[2]) \in DOMAIN m
  BY DEF SegFits, Cut
<1>2. \A c \in DOMAIN m : m[c] \in CheckPoints
  BY ChunkMapType
<1>3. ASSUME NEW c \in DOMAIN m
      PROVE  Collected(m[c], c).inputs = Chunked(accesses, c) \cap (H \ L)
  <2>1. Collects(m[c], c, L, H)
    BY <1>1, <1>2, CollectedIs
  <2> QED
    BY <2>1 DEF Collects
<1>4. ASSUME NEW x \in SegInputs(m) PROVE x \in H \ L
  <2>1. PICK c \in DOMAIN m : x \in Collected(m[c], c).inputs
    BY DEF SegInputs
  <2> QED
    BY <1>3, <2>1
<1>5. ASSUME NEW x \in H \ L PROVE x \in SegInputs(m)
  <2>1. ChunkOf(x[2]) \in DOMAIN m /\ x \in Chunked(accesses, ChunkOf(x[2]))
    BY <1>1 DEF Chunked
  <2>2. x \in Collected(m[ChunkOf(x[2])], ChunkOf(x[2])).inputs
    BY <1>3, <2>1
  <2> QED
    BY <2>1, <2>2 DEF SegInputs
<1> QED
  BY <1>4, <1>5

\* p is the last of L.
LastOf(p, L) == p \in L /\ \A x \in L : ~Before(p, x)

\* One of them at most has the last access before the segment, and only then are
\* there internal reads to be skipped, as many at most as there are before the
\* first access of the segment.
LEMMA SegPrevsAre ==
    ASSUME accesses \subseteq Accesses, NEW m \in ChunkMaps, NEW L, NEW H, SegFits(accesses, m, L, H)
    PROVE  /\ (SegPrevs(m) = {} /\ L = {}) \/ \E p : SegPrevs(m) = {p} /\ LastOf(p, L)
           /\ SegSkips(m) = {} \/ \E n \in Nat : SegSkips(m) = {n}
           /\ \A n \in SegSkips(m) : n > 0 =>
                \E p, q : /\ SegPrevs(m) = {p} /\ LastOf(p, L) /\ q \in accesses \ L
                          /\ q[1] = p[1] /\ ChunkOf(p[2]) < ChunkOf(q[2])
                          /\ n <= IntermediateSteps(ChunkOf(p[2]), ChunkOf(q[2]))
                          /\ \A x \in accesses \ L : ~Before(x, q)
<1>1. /\ Cut(accesses, L) /\ Cut(accesses, H) /\ L \subseteq accesses
      /\ \A c \in DOMAIN m : Fits(accesses, m[c], c, L, H)
      /\ \A c \in DOMAIN m : m[c].interSkip # None =>
            /\ RefFits(accesses, m[c], c, L)
            /\ \A d \in DOMAIN m : m[d].interSkip # None => d = c
      /\ L # {} => \E c \in DOMAIN m : m[c].interSkip # None
  BY DEF SegFits, Cut
<1>2. \A c \in DOMAIN m : c \in Chunks /\ m[c] \in CheckPoints
  BY ChunkMapType
<1>3. ASSUME NEW c \in DOMAIN m
      PROVE  /\ m[c].interSkip = None \/ m[c].fromSkip = 0 => Collected(m[c], c).prev = {}
             /\ m[c].interSkip # None /\ m[c].fromSkip > 0 =>
                    \E p \in OfEntry(accesses, m[c].fromAddr, c) \cap L :
                        /\ Collected(m[c], c).prev = {p}
                        /\ \A y \in OfEntry(accesses, m[c].fromAddr, c) \cap L : y[2] <= p[2]
  <2>1. Collects(m[c], c, L, H)
    BY <1>1, <1>2, CollectedIs
  <2> QED
    BY <2>1 DEF Collects
<1>4. CASE \A c \in DOMAIN m : m[c].interSkip = None
  <2>1. SegPrevs(m) = {}
    BY <1>3, <1>4 DEF SegPrevs
  <2>2. SegSkips(m) = {}
    BY <1>4 DEF SegSkips
  <2>3. L = {}
    BY <1>1, <1>4
  <2> QED
    BY <2>1, <2>2, <2>3
<1>5. ASSUME NEW c \in DOMAIN m, m[c].interSkip # None
      PROVE  /\ \E p : SegPrevs(m) = {p} /\ LastOf(p, L)
             /\ SegSkips(m) = {} \/ \E n \in Nat : SegSkips(m) = {n}
             /\ \A n \in SegSkips(m) : n > 0 =>
                \E p, q : /\ SegPrevs(m) = {p} /\ LastOf(p, L) /\ q \in accesses \ L
                          /\ q[1] = p[1] /\ ChunkOf(p[2]) < ChunkOf(q[2])
                          /\ n <= IntermediateSteps(ChunkOf(p[2]), ChunkOf(q[2]))
                          /\ \A x \in accesses \ L : ~Before(x, q)
  <2> DEFINE cp == m[c]
  <2>1. RefFits(accesses, cp, c, L) /\ cp \in CheckPoints /\ c \in Chunks
        /\ \A d \in DOMAIN m : d # c => m[d].interSkip = None
    BY <1>1, <1>2, <1>5
  <2>2. cp.interSkip \in Nat /\ cp.fromSkip \in Nat /\ cp.fromAddr \in Nat /\ c \in Nat
    BY <1>5, <2>1, FirstOfChunk DEF CheckPoints
  <2>3. SegPrevs(m) = Collected(cp, c).prev
    <3>1. \A d \in DOMAIN m : d # c => Collected(m[d], d).prev = {}
      BY <1>3, <2>1
    <3> QED
      BY <3>1 DEF SegPrevs
  <2>4. SegSkips(m) = {cp.interSkip}
    <3>1. \A d \in DOMAIN m : m[d].interSkip \in {None, cp.interSkip}
      BY <2>1
    <3> QED
      BY <1>5, <3>1 DEF SegSkips
  <2>5. ASSUME cp.fromSkip > 0
        PROVE  \E p : SegPrevs(m) = {p} /\ LastOf(p, L) /\ p[1] = cp.fromAddr /\ ChunkOf(p[2]) = c
    <3>1. PICK p \in OfEntry(accesses, cp.fromAddr, c) \cap L :
                /\ Collected(cp, c).prev = {p}
                /\ \A y \in OfEntry(accesses, cp.fromAddr, c) \cap L : y[2] <= p[2]
      BY <1>3, <1>5, <2>5
    <3>2. p \in accesses /\ p \in L /\ p[1] = cp.fromAddr /\ ChunkOf(p[2]) = c
      BY DEF OfEntry
    <3>3. p[1] \in Nat /\ p[2] \in Nat /\ p[2] \in Steps
      BY <3>2, AccessType
    <3>4. ASSUME NEW x \in L, Before(p, x) PROVE FALSE
      <4>1. x \in accesses /\ x[1] \in Nat /\ x[2] \in Nat /\ x[2] \in Steps /\ ChunkOf(x[2]) \in Nat
        BY <1>1, AccessType
      <4>2. x[1] < cp.fromAddr \/ (x[1] = cp.fromAddr /\ ChunkOf(x[2]) <= c)
        BY <2>1 DEF RefFits
      <4>3. x[1] = cp.fromAddr /\ ChunkOf(x[2]) <= c /\ p[2] < x[2]
        BY <2>2, <3>2, <3>3, <3>4, <4>1, <4>2 DEF Before
      <4>4. ~(ChunkOf(x[2]) < c)
        BY <3>2, <3>3, <4>1, <4>3, EarlierChunk
      <4>5. ChunkOf(x[2]) = c
        BY <2>2, <4>1, <4>3, <4>4
      <4>6. x[2] <= p[2]
        BY <3>1, <4>1, <4>3, <4>5 DEF OfEntry
      <4> QED
        BY <3>3, <4>1, <4>3, <4>6
    <3>5. LastOf(p, L)
      BY <3>2, <3>4 DEF LastOf
    <3> QED
      BY <2>3, <3>1, <3>2, <3>5
  <2>6. \E p : SegPrevs(m) = {p} /\ LastOf(p, L)
    BY <2>1, <2>5 DEF RefFits
  <2>7. ASSUME NEW n \in SegSkips(m), n > 0
        PROVE  \E p, q : /\ SegPrevs(m) = {p} /\ LastOf(p, L) /\ q \in accesses \ L
                         /\ q[1] = p[1] /\ ChunkOf(p[2]) < ChunkOf(q[2])
                         /\ n <= IntermediateSteps(ChunkOf(p[2]), ChunkOf(q[2]))
                         /\ \A x \in accesses \ L : ~Before(x, q)
    <3>1. n = cp.interSkip
      BY <2>4
    <3>2. /\ cp.fromSkip > 0
          /\ \E q \in accesses \ L :
                /\ q[1] = cp.fromAddr /\ c < ChunkOf(q[2])
                /\ cp.interSkip <= IntermediateSteps(c, ChunkOf(q[2]))
                /\ \A x \in accesses \ L : ~Before(x, q)
      BY <2>1, <2>7, <3>1 DEF RefFits
    <3>3. PICK p : SegPrevs(m) = {p} /\ LastOf(p, L) /\ p[1] = cp.fromAddr /\ ChunkOf(p[2]) = c
      BY <2>5, <3>2
    <3> QED
      BY <3>1, <3>2, <3>3
  <2> QED
    BY <2>2, <2>4, <2>6, <2>7
<1> QED
  BY <1>4, <1>5

-----------------------------------------------------------------------------
(* Values. *)

\* The value of a read is the one of the access before it.
LEMMA ReadKeepsValue ==
    ASSUME accesses \subseteq Accesses, NEW a \in accesses, NEW b \in accesses, b[1] = a[1],
           b[2] < a[2], ~IsWrite(a[2]),
           \A y \in accesses : ~(Before(b, y) /\ Before(y, a))
    PROVE  ValueOf(a) = ValueOf(b)
<1> DEFINE W(x) == {y[2] : y \in {y \in accesses : y[1] = x[1] /\ y[2] <= x[2] /\ IsWrite(y[2])}}
<1>1. a[2] \in Nat /\ b[2] \in Nat /\ a[1] \in Nat
  BY AccessType
<1>2. ASSUME NEW y \in accesses, IsWrite(y[2]), y[1] = a[1]
      PROVE  y[2] <= a[2] <=> y[2] <= b[2]
  <2>1. y[2] \in Nat /\ y[2] # a[2]
    BY <1>2, AccessType
  <2>2. ~(b[2] < y[2] /\ y[2] < a[2])
    BY <1>2 DEF Before
  <2> QED
    BY <1>1, <2>1, <2>2
<1>3. W(a) = W(b)
  BY <1>2
<1>4. ValueOf(a) = (IF W(a) = {} THEN 0 ELSE Max(W(a))) /\ ValueOf(b) = (IF W(b) = {} THEN 0 ELSE Max(W(b)))
  BY DEF ValueOf
<1> HIDE DEF W
<1> QED
  BY <1>3, <1>4

\* The value of a read that no access of its address precedes is 0.
LEMMA FirstReadIsZero ==
    ASSUME accesses \subseteq Accesses, NEW a \in accesses, ~IsWrite(a[2]),
           \A y \in accesses : ~(y[1] = a[1] /\ y[2] < a[2])
    PROVE  ValueOf(a) = 0
<1> DEFINE W == {y[2] : y \in {y \in accesses : y[1] = a[1] /\ y[2] <= a[2] /\ IsWrite(y[2])}}
<1>1. ASSUME NEW y \in accesses, y[1] = a[1], y[2] <= a[2], IsWrite(y[2]) PROVE FALSE
  <2>1. y[2] \in Nat /\ a[2] \in Nat /\ y[2] # a[2]
    BY <1>1, AccessType
  <2> QED
    BY <1>1, <2>1
<1>2. W = {}
  BY <1>1
<1>3. ValueOf(a) = IF W = {} THEN 0 ELSE Max(W)
  BY DEF ValueOf
<1> HIDE DEF W
<1> QED
  BY <1>2, <1>3

-----------------------------------------------------------------------------
(* The rows of a segment. *)

\* The values of the memory of an execution.
Values == {0} \cup {ValueOf(x) : x \in accesses}

\* A row, and the state of the loop of MemSM::compute_witness.
RowType == [addr : Nat, changes : BOOLEAN, step : Nat, sel : BOOLEAN, wr : BOOLEAN,
            value : Values, inc : Int]
LoopType == [rows : Seq(RowType), addr : Nat, step : Nat, value : Values, zero : BOOLEAN,
             stop : BOOLEAN, panic : BOOLEAN]

\* Every row may follow the one before it, the first one p.
Chained(p, rows) ==
    \A j \in 1 .. Len(rows) : MayFollow(IF j = 1 THEN p ELSE rows[j - 1], rows[j])

\* The address, step and value at which rows end that start after p.
EndsAt(p, rows, addr, step, value) ==
    LET r == IF rows = <<>> THEN p ELSE rows[Len(rows)]
    IN  r.addr = addr /\ r.step = step /\ r.value = value

\* The loop of compute_witness is in a good state: its rows may follow each other
\* and it remembers the end of them.
GoodLoop(p, w) == Chained(p, w.rows) /\ EndsAt(p, w.rows, w.addr, w.step, w.value)

\* Rows that may follow each other after rows that do.
LEMMA ChainedConcat ==
    ASSUME NEW p, NEW s \in Seq(RowType), NEW t \in Seq(RowType), Chained(p, s),
           NEW addr, NEW step, NEW value, EndsAt(p, s, addr, step, value),
           \A j \in 1 .. Len(t) :
                MayFollow(IF j = 1 THEN [addr |-> addr, step |-> step, value |-> value] ELSE t[j - 1], t[j])
    PROVE  /\ s \o t \in Seq(RowType) /\ Len(s \o t) = Len(s) + Len(t) /\ Chained(p, s \o t)
           /\ t # <<>> => EndsAt(p, s \o t, t[Len(t)].addr, t[Len(t)].step, t[Len(t)].value)
           /\ t = <<>> => s \o t = s
<1> DEFINE u == s \o t
           m == Len(s)
           n == Len(t)
<1>1. /\ u \in Seq(RowType) /\ Len(u) = m + n /\ m \in Nat /\ n \in Nat
      /\ \A i \in 1 .. m : u[i] = s[i]
      /\ \A i \in 1 .. n : u[m + i] = t[i]
  OBVIOUS
<1>2. t = <<>> => u = s
  OBVIOUS
<1>e. (s = <<>> <=> m = 0) /\ (t = <<>> <=> n = 0) /\ (u = <<>> <=> m + n = 0)
  BY <1>1
<1> HIDE DEF u, m, n
<1>3. ASSUME NEW i \in 1 .. m + n
      PROVE  MayFollow(IF i = 1 THEN p ELSE u[i - 1], u[i])
  <2>1. CASE i <= m
    <3>1. i \in 1 .. m /\ (i # 1 => i - 1 \in 1 .. m)
      BY <1>1, <2>1
    <3>2. MayFollow(IF i = 1 THEN p ELSE s[i - 1], s[i])
      BY <3>1 DEF Chained, m
    <3> QED
      BY <1>1, <3>1, <3>2
  <2>2. CASE i = m + 1
    <3>0. n >= 1 /\ 1 \in 1 .. n
      BY <1>1, <2>2
    <3>1. u[i] = t[1]
      BY <1>1, <2>2, <3>0
    <3>2. MayFollow([addr |-> addr, step |-> step, value |-> value], t[1])
      BY <3>0 DEF n
    <3> DEFINE q == IF i = 1 THEN p ELSE u[i - 1]
    <3>3. q.addr = addr /\ q.step = step /\ q.value = value
      <4>1. CASE m = 0
        BY <1>e, <2>2, <4>1 DEF EndsAt
      <4>2. CASE m # 0
        <5>1. i # 1 /\ i - 1 = m /\ m \in 1 .. m
          BY <1>1, <2>2, <4>2
        <5>2. q = s[m]
          BY <1>1, <5>1
        <5> QED
          BY <1>e, <4>2, <5>2 DEF EndsAt, m
      <4> QED
        BY <4>1, <4>2
    <3> HIDE DEF q
    <3>4. MayFollow(q, t[1])
      BY <3>2, <3>3 DEF MayFollow
    <3> QED
      BY <3>1, <3>4 DEF q
  <2>3. CASE i > m + 1
    <3> DEFINE j == i - m
    <3>1. j \in 1 .. n /\ j # 1 /\ j - 1 \in 1 .. n /\ m + j = i /\ m + (j - 1) = i - 1 /\ i # 1
      BY <1>1, <2>3
    <3> HIDE DEF j
    <3>2. u[i] = t[j] /\ u[i - 1] = t[j - 1]
      BY <1>1, <3>1
    <3>3. MayFollow(t[j - 1], t[j])
      BY <3>1 DEF n
    <3> QED
      BY <3>1, <3>2, <3>3
  <2> QED
    BY <1>1, <2>1, <2>2, <2>3
<1>4. Chained(p, u)
  BY <1>1, <1>3 DEF Chained
<1>5. ASSUME t # <<>> PROVE u # <<>> /\ u[Len(u)] = t[n]
  BY <1>1, <1>e, <1>5
<1> QED
  BY <1>1, <1>2, <1>4, <1>5 DEF EndsAt, u, m, n

\* The next multiple.
LEMMA NextMultiple ==
    ASSUME NEW j \in Nat, NEW d \in Nat
    PROVE  /\ j * d \in Nat /\ (j + 1) * d = j * d + d /\ 0 * d = 0 /\ 1 * d = d
           /\ j >= 1 => (j - 1) * d \in Nat /\ j * d = (j - 1) * d + d
OBVIOUS

\* Rows of reads that are no operations, n of them: they stay at the address and
\* the value, and the increments are the distances of the steps at.
LEMMA ReadsGood ==
    ASSUME NEW p, NEW w \in LoopType, GoodLoop(p, w), NEW n \in Nat,
           NEW at \in [0 .. n -> Nat], NEW inc \in [1 .. n -> 1 .. StepMaxDiff + 1], at[0] = w.step,
           \A j \in 1 .. n : at[j] = at[j - 1] + inc[j] - 1
    PROVE  LET t == [j \in 1 .. n |-> SilentRow(w, at[j], inc[j])]
           IN  /\ w.rows \o t \in Seq(RowType) /\ Len(w.rows \o t) = Len(w.rows) + n
               /\ Chained(p, w.rows \o t) /\ EndsAt(p, w.rows \o t, w.addr, at[n], w.value)
<1> DEFINE d == StepMaxDiff
           row(j) == SilentRow(w, at[j], inc[j])
           t == [j \in 1 .. n |-> row(j)]
           q == [addr |-> w.addr, step |-> w.step, value |-> w.value]
<1>1. w.rows \in Seq(RowType) /\ w.addr \in Nat /\ w.step \in Nat /\ w.value \in Values
  BY DEF LoopType
<1>2. d \in Nat
  BY Limits
<1>5. ASSUME NEW j \in 1 .. n
      PROVE  /\ row(j) \in RowType /\ row(j).addr = w.addr /\ row(j).value = w.value
             /\ row(j).wr = FALSE /\ row(j).step = at[j] /\ row(j).inc = inc[j]
             /\ row(j).changes = FALSE
  <2>1. at[j] \in Nat /\ inc[j] \in Int
    BY <1>2
  <2> QED
    BY <1>1, <2>1 DEF SilentRow, Row, RowType
<1>6. /\ t \in Seq(RowType) /\ Len(t) = n /\ \A j \in 1 .. n : t[j] = row(j)
      /\ t = <<>> <=> n = 0
  <2> HIDE DEF row
  <2>1. \A j \in 1 .. n : row(j) \in RowType
    BY <1>5
  <2>2. t \in [1 .. n -> RowType]
    BY <2>1
  <2>3. t \in Seq(RowType) /\ Len(t) = n /\ \A j \in 1 .. n : t[j] = row(j)
    BY <2>2
  <2> QED
    BY <2>3
<1> HIDE DEF row, t, d
<1>7. ASSUME NEW j \in 1 .. n
      PROVE  MayFollow(IF j = 1 THEN q ELSE t[j - 1], t[j])
  <2> DEFINE r == IF j = 1 THEN q ELSE t[j - 1]
  <2>1. r.addr = w.addr /\ r.value = w.value /\ r.step = at[j - 1]
    <3>1. CASE j = 1
      BY <3>1
    <3>2. CASE j # 1
      <4>1. j - 1 \in 1 .. n /\ r = t[j - 1]
        BY <3>2
      <4> HIDE DEF r
      <4> QED
        BY <1>5, <1>6, <4>1
    <3> QED
      BY <3>1, <3>2
  <2>2. /\ t[j].addr = w.addr /\ t[j].value = w.value /\ t[j].wr = FALSE /\ t[j].inc = inc[j]
        /\ t[j].step = at[j] /\ t[j].changes = FALSE
    BY <1>5, <1>6
  <2>3. inc[j] \in 1 .. StepMaxDiff + 1 /\ at[j] = at[j - 1] + inc[j] - 1
    OBVIOUS
  <2>5. at[j] \in Nat /\ at[j - 1] \in Nat /\ inc[j] \in Int
    BY <1>2 DEF d
  <2> HIDE DEF r
  <2>4. MayFollow(r, t[j])
    <3>1. inc[j] = at[j] - at[j - 1] + 1
      BY <2>3, <2>5
    <3>2. t[j].inc = t[j].step - r.step + 1
      BY <2>1, <2>2, <3>1
    <3> QED
      BY <2>1, <2>2, <2>3, <3>2 DEF MayFollow
  <2> QED
    BY <2>4 DEF r
<1>8. /\ w.rows \o t \in Seq(RowType) /\ Len(w.rows \o t) = Len(w.rows) + n
      /\ Chained(p, w.rows \o t)
      /\ t # <<>> => EndsAt(p, w.rows \o t, t[n].addr, t[n].step, t[n].value)
      /\ t = <<>> => w.rows \o t = w.rows
  <2>1. Chained(p, w.rows) /\ EndsAt(p, w.rows, w.addr, w.step, w.value)
    BY DEF GoodLoop
  <2>2. \A j \in 1 .. Len(t) :
            MayFollow(IF j = 1 THEN [addr |-> w.addr, step |-> w.step, value |-> w.value] ELSE t[j - 1], t[j])
    BY <1>6, <1>7
  <2> HIDE DEF q
  <2> QED
    BY <1>1, <1>6, <2>1, <2>2, ChainedConcat
<1>9. EndsAt(p, w.rows \o t, w.addr, at[n], w.value)
  <2>1. CASE n = 0
    BY <1>6, <1>8, <2>1 DEF GoodLoop
  <2>2. CASE n # 0
    <3>1. n \in 1 .. n /\ t # <<>>
      BY <1>6, <2>2
    <3>2. t[n].addr = w.addr /\ t[n].value = w.value /\ t[n].step = at[n]
      BY <1>5, <1>6, <3>1
    <3> QED
      BY <1>8, <3>1, <3>2
  <2> QED
    BY <2>1, <2>2
<1> QED
  BY <1>8, <1>9 DEF t, row

\* Internal reads keep the loop in a good state.
LEMMA InternalReadsGood ==
    ASSUME NEW p, NEW w \in LoopType, GoodLoop(p, w), NEW full \in Nat, NEW n \in Nat, full <= n
    PROVE  LET x == InternalReads(w, full, n)
           IN  /\ x \in LoopType /\ GoodLoop(p, x) /\ Len(x.rows) = Len(w.rows) + n
               /\ x.addr = w.addr /\ x.step = w.step + full * StepMaxDiff /\ x.value = w.value
               /\ x.zero = w.zero /\ x.stop = w.stop /\ x.panic = w.panic
<1> DEFINE d == StepMaxDiff
           at == [j \in 0 .. n |-> w.step + Min({j, full}) * d]
           inc == [j \in 1 .. n |-> IF j <= full THEN d + 1 ELSE 1]
           t == [j \in 1 .. n |-> SilentRow(w, at[j], inc[j])]
           x == InternalReads(w, full, n)
<1>1. /\ w.rows \in Seq(RowType) /\ w.addr \in Nat /\ w.step \in Nat /\ w.value \in Values
      /\ w.zero \in BOOLEAN /\ w.stop \in BOOLEAN /\ w.panic \in BOOLEAN
      /\ w = [rows |-> w.rows, addr |-> w.addr, step |-> w.step, value |-> w.value,
               zero |-> w.zero, stop |-> w.stop, panic |-> w.panic]
  BY DEF LoopType
<1>2. d \in Nat /\ d >= 1
  BY Limits
<1>3. x = [w EXCEPT !.rows = w.rows \o t, !.step = w.step + full * d]
  <2>1. t = [j \in 1 .. n |-> SilentRow(w, w.step + Min({j, full}) * d,
                                       IF j <= full THEN d + 1 ELSE 1)]
    <3>1. \A j \in 1 .. n : /\ at[j] = w.step + Min({j, full}) * d
                            /\ inc[j] = IF j <= full THEN d + 1 ELSE 1
      OBVIOUS
    <3> HIDE DEF at, inc
    <3> QED
      BY <3>1
  <2> HIDE DEF t, at, inc
  <2> QED
    BY <2>1 DEF InternalReads
<1> HIDE DEF x, d
<1>4. full * d \in Nat /\ \A j \in Nat : j * d \in Nat
  BY <1>2, NextMultiple
<1>5. ASSUME NEW j \in 0 .. n
      PROVE  /\ at[j] \in Nat
             /\ j <= full => at[j] = w.step + j * d
             /\ j >= full => at[j] = w.step + full * d
  <2>1. Min({j, full}) = IF j <= full THEN j ELSE full
    BY MinOfTwo
  <2>2. at[j] = w.step + (IF j <= full THEN j ELSE full) * d
    BY <2>1
  <2>3. CASE j <= full
    BY <1>1, <1>4, <2>2, <2>3
  <2>4. CASE j > full
    BY <1>1, <1>4, <2>2, <2>4
  <2> QED
    BY <2>3, <2>4
<1>6. at \in [0 .. n -> Nat] /\ inc \in [1 .. n -> 1 .. d + 1]
  <2>1. at = [j \in 0 .. n |-> at[j]]
    OBVIOUS
  <2>2. inc \in [1 .. n -> 1 .. d + 1]
    BY <1>2
  <2> HIDE DEF at, inc
  <2> QED
    BY <1>5, <2>1, <2>2
<1>7. at[0] = w.step
  <2>1. 0 * d = 0
    BY <1>2, NextMultiple
  <2> HIDE DEF at
  <2> QED
    BY <1>1, <1>5, <2>1
<1>8. ASSUME NEW j \in 1 .. n
      PROVE  at[j] = at[j - 1] + inc[j] - 1
  <2>1. j \in 0 .. n /\ j - 1 \in 0 .. n
    OBVIOUS
  <2>2. inc[j] = IF j <= full THEN d + 1 ELSE 1
    OBVIOUS
  <2> HIDE DEF at, inc
  <2>3. CASE j <= full
    <3>1. j * d = (j - 1) * d + d /\ (j - 1) * d \in Nat
      BY <1>2, NextMultiple
    <3>2. at[j] = w.step + j * d /\ at[j - 1] = w.step + (j - 1) * d
      BY <1>5, <2>1, <2>3
    <3> DEFINE k == (j - 1) * d
    <3>3. at[j] = w.step + (k + d) /\ at[j - 1] = w.step + k /\ k \in Nat
      BY <3>1, <3>2
    <3> HIDE DEF k
    <3> QED
      BY <1>1, <1>2, <2>2, <2>3, <3>3
  <2>4. CASE j > full
    <3>1. at[j] = w.step + full * d /\ at[j - 1] = w.step + full * d
      BY <1>5, <2>1, <2>4
    <3> QED
      BY <1>1, <1>4, <2>2, <2>4, <3>1
  <2> QED
    BY <2>3, <2>4
<1> HIDE DEF at, inc
<1>9. /\ w.rows \o t \in Seq(RowType) /\ Len(w.rows \o t) = Len(w.rows) + n
      /\ Chained(p, w.rows \o t) /\ EndsAt(p, w.rows \o t, w.addr, at[n], w.value)
  BY <1>6, <1>7, <1>8, ReadsGood DEF d
<1>10. at[n] = w.step + full * d /\ w.step + full * d \in Nat
  BY <1>1, <1>4, <1>5
<1> DEFINE u == w.rows \o t
           s == w.step + full * d
<1>11. x = [w EXCEPT !.rows = u, !.step = s] /\ u \in Seq(RowType) /\ s \in Nat
  BY <1>3, <1>9, <1>10
<1>12. Len(u) = Len(w.rows) + n /\ Chained(p, u) /\ EndsAt(p, u, w.addr, s, w.value)
  BY <1>9, <1>10
<1> HIDE DEF u, s
<1>13. /\ x \in LoopType /\ x.rows = u /\ x.addr = w.addr /\ x.step = s
       /\ x.value = w.value /\ x.zero = w.zero /\ x.stop = w.stop /\ x.panic = w.panic
  BY <1>1, <1>11 DEF LoopType
<1> QED
  BY <1>12, <1>13 DEF GoodLoop, x, d, s

\* So does the padding of a segment.
LEMMA PaddedGood ==
    ASSUME NEW p, NEW w \in LoopType, GoodLoop(p, w), Len(w.rows) <= Rows, NEW isLast \in BOOLEAN
    PROVE  LET x == Padded(w, isLast)
           IN  x.rows \in Seq(RowType) /\ GoodLoop(p, x) /\ x.panic = w.panic
<1> DEFINE by == IF isLast THEN 1 ELSE StepMaxDiff
           n == Rows - Len(w.rows)
           at == [j \in 0 .. n |-> w.step + j * by]
           inc == [j \in 1 .. n |-> by + 1]
           t == [j \in 1 .. n |-> SilentRow(w, at[j], inc[j])]
           x == Padded(w, isLast)
<1>1. /\ w.rows \in Seq(RowType) /\ w.step \in Nat
      /\ w = [rows |-> w.rows, addr |-> w.addr, step |-> w.step, value |-> w.value,
               zero |-> w.zero, stop |-> w.stop, panic |-> w.panic]
  BY DEF LoopType
<1>2. StepMaxDiff \in Nat /\ StepMaxDiff >= 1 /\ n \in Nat
  BY <1>1, Limits, MemPlanAssumption
<1>3. by \in Nat /\ by <= StepMaxDiff
  BY <1>2
<1>4. x = [w EXCEPT !.rows = w.rows \o t, !.step = w.step + n * by]
  <2>1. t = [j \in 1 .. n |-> SilentRow(w, w.step + j * by, by + 1)]
    <3>1. \A j \in 1 .. n : at[j] = w.step + j * by /\ inc[j] = by + 1
      <4> HIDE DEF by, n
      <4> QED
        BY <1>2
    <3> HIDE DEF at, inc, by, n
    <3> QED
      BY <3>1
  <2> HIDE DEF t, at, inc
  <2> QED
    BY <2>1 DEF Padded
<1> HIDE DEF x, by, n
<1>5. \A j \in Nat : j * by \in Nat /\ (j >= 1 => (j - 1) * by \in Nat /\ j * by = (j - 1) * by + by)
  BY <1>3, NextMultiple
<1>6. /\ at \in [0 .. n -> Nat] /\ inc \in [1 .. n -> 1 .. StepMaxDiff + 1]
  BY <1>1, <1>2, <1>3, <1>5
<1>7. at[0] = w.step
  <2>1. 0 * by = 0
    BY <1>3, NextMultiple
  <2> QED
    BY <1>1, <1>2, <2>1
<1>8. ASSUME NEW j \in 1 .. n
      PROVE  at[j] = at[j - 1] + inc[j] - 1
  <2>1. j \in 0 .. n /\ j - 1 \in 0 .. n /\ j \in Nat /\ j >= 1
    BY <1>2
  <2>2. at[j] = w.step + j * by /\ at[j - 1] = w.step + (j - 1) * by /\ inc[j] = by + 1
    BY <2>1
  <2>3. (j - 1) * by \in Nat /\ j * by = (j - 1) * by + by
    BY <1>5, <2>1
  <2> HIDE DEF at, inc
  <2> DEFINE k == (j - 1) * by
  <2>4. at[j] = w.step + (k + by) /\ at[j - 1] = w.step + k /\ k \in Nat
    BY <2>2, <2>3
  <2> HIDE DEF k
  <2> QED
    BY <1>1, <1>3, <2>2, <2>4
<1> HIDE DEF at, inc
<1>9. /\ w.rows \o t \in Seq(RowType) /\ Len(w.rows \o t) = Len(w.rows) + n
      /\ Chained(p, w.rows \o t) /\ EndsAt(p, w.rows \o t, w.addr, at[n], w.value)
  BY <1>2, <1>6, <1>7, <1>8, ReadsGood
<1>a. at[n] = w.step + n * by
  BY <1>2 DEF at
<1> DEFINE u == w.rows \o t
           k == w.step + n * by
<1>b. x = [w EXCEPT !.rows = u, !.step = k]
  BY <1>4
<1>c. u \in Seq(RowType) /\ Chained(p, u) /\ EndsAt(p, u, w.addr, k, w.value)
  BY <1>9, <1>a
<1> HIDE DEF t, u, k
<1>10. /\ x.rows = u /\ x.panic = w.panic /\ x.addr = w.addr /\ x.step = k
       /\ x.value = w.value
  BY <1>1, <1>b
<1> QED
  BY <1>c, <1>10 DEF GoodLoop, x

\* The internal reads of compute_witness before an operation of the same address:
\* forced has no influence on the full ones, nor has the limit from which on the
\* code looks for them at all.
OpReads(last, step, force) ==
    IF step - last >= LimitToVerify \/ force THEN IntermediateRows(last, step, force)
    ELSE [full |-> 0, zero |-> 0]

\* They leave a distance that has a range check.
LEMMA OpGap ==
    ASSUME NEW last \in Steps \cup {0}, NEW step \in Steps, last < step, NEW force \in BOOLEAN
    PROVE  LET ir == OpReads(last, step, force)
           IN  /\ ir.full \in Nat /\ ir.zero \in 0 .. 1
               /\ step - (last + ir.full * StepMaxDiff) \in 1 .. StepMaxDiff
<1> DEFINE dist == DistanceBetween(ChunkOf(last), ChunkOf(step))
           d == StepMaxDiff
           ir == OpReads(last, step, force)
<1>1. dist \in Nat /\ step - last <= dist /\ (dist > d => step - last >= LimitToVerify)
  BY FarApart
<1>2. last \in Nat /\ step \in Nat
  BY StepInChunk, StartOrStep
<1>3. d \in Nat /\ d >= 1 /\ LimitToVerify \in Nat
  BY Limits
<1>4. CASE dist > d
  <2>1. ir = GapReads(last, step)
    BY <1>1, <1>4 DEF OpReads, GapReads, IntermediateRows
  <2> HIDE DEF ir
  <2>2. LET g == GapReads(last, step)
        IN  g.full \in Nat /\ g.zero \in 0 .. 1 /\ step - (last + g.full * StepMaxDiff) \in 1 .. StepMaxDiff
    BY GapLeft
  <2> QED
    BY <2>1, <2>2 DEF ir
<1>5. CASE ~(dist > d)
  <2>1. ir.full = 0 /\ ir.zero \in 0 .. 1
    BY <1>5 DEF OpReads, IntermediateRows
  <2>2. last + 0 * d = last
    BY <1>2, <1>3
  <2>3. step - last \in 1 .. d
    BY <1>1, <1>2, <1>3, <1>5
  <2> HIDE DEF ir
  <2> QED
    BY <2>1, <2>2, <2>3 DEF ir
<1> QED
  BY <1>4, <1>5

\* Those that fit_inputs_and_get_prev_segment counts are the ones of the planner.
LEMMA FitGap ==
    ASSUME NEW last \in Steps, NEW step \in Steps, last < step
    PROVE  LET ir == IntermediateRows(last, step, FALSE)
           IN  /\ ir.full \in Nat /\ ir.zero \in 0 .. 1
               /\ step - (last + ir.full * StepMaxDiff) \in 1 .. StepMaxDiff
               /\ IntermediateSteps(ChunkOf(last), ChunkOf(step)) = ir.full + ir.zero
<1> DEFINE dist == DistanceBetween(ChunkOf(last), ChunkOf(step))
<1>1. dist > StepMaxDiff => step - last >= LimitToVerify
  BY FarApart
<1>2. GapReads(last, step) = IntermediateRows(last, step, FALSE)
  BY <1>1 DEF GapReads, IntermediateRows
<1>3. LET g == GapReads(last, step)
      IN  /\ g.full \in Nat /\ g.zero \in 0 .. 1
          /\ step - (last + g.full * StepMaxDiff) \in 1 .. StepMaxDiff
          /\ IntermediateSteps(ChunkOf(last), ChunkOf(step)) = g.full + g.zero
  BY GapsAgree
<1> QED
  BY <1>2, <1>3

\* No address of the execution is farther from the one accessed before it, or from
\* the start of the memory, than the increment of an address has a range check.
AddressesClose ==
    \A a \in accesses :
        \/ a[1] - MinAddr <= StepMaxDiff + 1
        \/ \E b \in accesses : b[1] < a[1] /\ a[1] - b[1] <= StepMaxDiff + 1

\* The loop may take the operation a next: a is of a later address and reads 0
\* unless it writes, or is of a later step of the same address and reads the value
\* of the loop unless it writes.
Ready(w, a) ==
    \/ /\ w.addr < a[1] /\ (AddressesClose => a[1] - w.addr <= StepMaxDiff + 1)
       /\ IsWrite(a[2]) \/ ValueOf(a) = 0
    \/ /\ w.addr = a[1] /\ w.step \in Steps \cup {0} /\ w.step < a[2]
       /\ IsWrite(a[2]) \/ w.value = ValueOf(a)

\* The row of an operation keeps the loop in a good state, or panics; it does not
\* panic when the distance has a range check.
LEMMA RegularRowGood ==
    ASSUME accesses \subseteq Accesses, NEW p, NEW w \in LoopType, GoodLoop(p, w),
           NEW a \in accesses,
           ~IsWrite(a[2]) => ValueOf(a) = IF w.addr = a[1] THEN w.value ELSE 0
    PROVE  LET x == RegularRow(w, a)
           IN  /\ x \in LoopType /\ Len(x.rows) = Len(w.rows) + 1 /\ (x.panic \/ GoodLoop(p, x))
               /\ x.addr = a[1] /\ x.step = a[2] /\ x.value = ValueOf(a) /\ x.stop = w.stop
               /\ w.addr = a[1] /\ a[2] - w.step \in 1 .. StepMaxDiff => ~x.panic
               /\ w.addr < a[1] /\ a[1] - w.addr <= StepMaxDiff + 1 => ~x.panic
<1> DEFINE d == StepMaxDiff
           wr == IsWrite(a[2])
           changes == a[1] # w.addr
           inc == IF changes THEN a[1] - w.addr ELSE a[2] - w.step + (IF wr THEN 0 ELSE 1)
           v == ValueOf(a)
           r == Row(a[1], changes, a[2], TRUE, wr, v, inc)
           x == RegularRow(w, a)
           bad == inc \notin 1 .. d + 1
<1>1. /\ w.rows \in Seq(RowType) /\ w.addr \in Nat /\ w.step \in Nat /\ w.value \in Values
      /\ w.zero \in BOOLEAN /\ w.stop \in BOOLEAN /\ w.panic \in BOOLEAN
      /\ w = [rows |-> w.rows, addr |-> w.addr, step |-> w.step, value |-> w.value,
               zero |-> w.zero, stop |-> w.stop, panic |-> w.panic]
  BY DEF LoopType
<1>2. a[1] \in Nat /\ a[2] \in Nat /\ a[1] <= MaxAddr /\ MaxAddr \in Nat
  BY AccessType, MemPlanAssumption
<1>3. d \in Nat
  BY Limits
<1>4. v \in Values
  BY DEF Values
<1>5. wr \in BOOLEAN
  BY DEF IsWrite
<1>6. x = [w EXCEPT !.rows = Append(w.rows, r), !.addr = a[1], !.step = a[2], !.value = v,
                    !.zero = FALSE, !.panic = bad]
  BY DEF RegularRow
<1>7. inc \in Int
  BY <1>1, <1>2
<1>i. /\ a[1] # w.addr => inc = a[1] - w.addr
      /\ a[1] = w.addr /\ wr => inc = a[2] - w.step
      /\ a[1] = w.addr /\ ~wr => inc = a[2] - w.step + 1
  BY <1>1, <1>2
<1>g. changes \in BOOLEAN /\ (changes <=> a[1] # w.addr)
  OBVIOUS
<1> HIDE DEF x, v, wr, inc, changes
<1>8. /\ r \in RowType /\ r.addr = a[1] /\ r.step = a[2] /\ r.wr = wr /\ r.value = v /\ r.inc = inc
      /\ r.changes = changes /\ r.sel = TRUE
  BY <1>g, <1>2, <1>4, <1>5, <1>7 DEF Row, RowType
<1> HIDE DEF r
<1> DEFINE t == <<r>>
           q == [addr |-> w.addr, step |-> w.step, value |-> w.value]
<1>9. t \in Seq(RowType) /\ Len(t) = 1 /\ t[1] = r /\ w.rows \o t = Append(w.rows, r) /\ t # <<>>
  BY <1>1, <1>8
<1>10. bad \in BOOLEAN /\ Append(w.rows, r) \in Seq(RowType) /\ Len(Append(w.rows, r)) = Len(w.rows) + 1
  BY <1>1, <1>8
<1>11. ASSUME ~bad PROVE Chained(p, w.rows \o t) /\ EndsAt(p, w.rows \o t, a[1], a[2], v)
  <2>1. MayFollow(q, r)
    <3>1. q.addr = w.addr /\ q.step = w.step /\ q.value = w.value
      OBVIOUS
    <3>2. inc \in 1 .. StepMaxDiff + 1
      BY <1>11
    <3> HIDE DEF q
    <3>3. CASE a[1] # w.addr
      <4>1. r.changes = TRUE /\ r.inc = r.addr - q.addr
        BY <1>g, <1>i, <1>8, <3>1, <3>3
      <4>2. ~wr => v = 0
        BY <3>3 DEF v, wr
      <4> QED
        BY <1>5, <1>8, <3>2, <4>1, <4>2 DEF MayFollow
    <3>4. CASE a[1] = w.addr /\ wr
      <4>1. r.changes = FALSE /\ r.wr = TRUE
        BY <1>g, <1>5, <1>8, <3>4
      <4>2. r.inc = r.step - q.step + 0
        BY <1>1, <1>2, <1>i, <1>8, <3>1, <3>4
      <4> QED
        BY <1>8, <3>1, <3>2, <3>4, <4>1, <4>2 DEF MayFollow
    <3>5. CASE a[1] = w.addr /\ ~wr
      <4>1. w.value = v
        BY <3>5 DEF v, wr
      <4>2. r.changes = FALSE /\ r.wr = FALSE
        BY <1>g, <1>5, <1>8, <3>5
      <4>3. r.inc = r.step - q.step + 1
        BY <1>i, <1>8, <3>1, <3>5
      <4> QED
        BY <1>8, <3>1, <3>2, <3>5, <4>1, <4>2, <4>3 DEF MayFollow
    <3> QED
      BY <1>5, <3>3, <3>4, <3>5
  <2>2. \A j \in 1 .. Len(t) :
            MayFollow(IF j = 1 THEN [addr |-> w.addr, step |-> w.step, value |-> w.value] ELSE t[j - 1], t[j])
    BY <1>9, <2>1
  <2>3. Chained(p, w.rows) /\ EndsAt(p, w.rows, w.addr, w.step, w.value)
    BY DEF GoodLoop
  <2> HIDE DEF t, q
  <2>4. Chained(p, w.rows \o t) /\ EndsAt(p, w.rows \o t, t[Len(t)].addr, t[Len(t)].step, t[Len(t)].value)
    BY <1>1, <1>9, <2>2, <2>3, ChainedConcat
  <2> QED
    BY <1>8, <1>9, <2>4
<1> HIDE DEF t
<1>12. ASSUME w.addr = a[1], a[2] - w.step \in 1 .. d PROVE ~bad
  BY <1>1, <1>2, <1>3, <1>5, <1>i, <1>12
<1>13. ASSUME w.addr < a[1], a[1] - w.addr <= d + 1 PROVE ~bad
  <2>1. a[1] # w.addr /\ inc = a[1] - w.addr
    BY <1>1, <1>2, <1>i, <1>13
  <2> QED
    BY <1>1, <1>2, <1>3, <1>13, <2>1
<1> HIDE DEF bad
<1>14. /\ x \in LoopType /\ x.rows = Append(w.rows, r) /\ x.addr = a[1] /\ x.step = a[2]
       /\ x.value = v /\ x.stop = w.stop /\ x.panic = bad
  <2> DEFINE rr == Append(w.rows, r)
  <2>1. x = [rows |-> rr, addr |-> a[1], step |-> a[2], value |-> v, zero |-> FALSE,
             stop |-> w.stop, panic |-> bad]
    <3> HIDE DEF rr
    <3> QED
      BY <1>1, <1>6 DEF rr
  <2>2. rr \in Seq(RowType)
    BY <1>10
  <2> HIDE DEF rr
  <2> QED
    BY <1>1, <1>2, <1>4, <1>10, <2>1, <2>2 DEF LoopType, rr
<1>15. bad \/ GoodLoop(p, x)
  BY <1>9, <1>10, <1>11, <1>14 DEF GoodLoop
<1> QED
  BY <1>10, <1>12, <1>13, <1>14, <1>15 DEF x, v, d

\* What holds of the loop of compute_witness after some operations, a the last.
LoopStep(p, x, a) ==
    /\ x \in LoopType /\ Len(x.rows) <= Rows
    /\ x.panic \/ GoodLoop(p, x)
    /\ x.panic \/ x.stop \/ (x.addr = a[1] /\ x.step = a[2] /\ x.value = ValueOf(a))
    /\ AddressesClose => ~x.panic

\* One iteration of the loop.
LEMMA WitnessOpGood ==
    ASSUME accesses \subseteq Accesses, NEW p, NEW w \in LoopType, GoodLoop(p, w), ~w.stop, ~w.panic,
           Len(w.rows) <= Rows, NEW a \in accesses, Ready(w, a)
    PROVE  LoopStep(p, WitnessOp(w, a), a)
<1> DEFINE same == a[1] = w.addr
           ir == IF same /\ (a[2] - w.step >= LimitToVerify \/ w.zero)
                 THEN IntermediateRows(w.step, a[2], w.zero)
                 ELSE [full |-> 0, zero |-> 0]
           n == ir.full + ir.zero
           left == Rows - Len(w.rows)
           x == WitnessOp(w, a)
           d == StepMaxDiff
<1> SUFFICES LoopStep(p, x, a)
  OBVIOUS
<1>1. /\ w.rows \in Seq(RowType) /\ w.addr \in Nat /\ w.step \in Nat /\ w.value \in Values
      /\ w.zero \in BOOLEAN /\ w.stop \in BOOLEAN /\ w.panic \in BOOLEAN /\ Len(w.rows) \in Nat
      /\ w = [rows |-> w.rows, addr |-> w.addr, step |-> w.step, value |-> w.value,
               zero |-> w.zero, stop |-> w.stop, panic |-> w.panic]
  BY DEF LoopType
<1>2. a[1] \in Nat /\ a[2] \in Nat /\ a[2] \in Steps
  BY AccessType
<1>3. d \in Nat /\ Rows \in Nat /\ left \in Nat /\ Len(w.rows) + left = Rows
  BY <1>1, Limits, MemPlanAssumption
<1>4. x = IF left = 0 THEN [w EXCEPT !.stop = TRUE]
          ELSE IF same /\ a[2] < w.step THEN [w EXCEPT !.panic = TRUE]
          ELSE IF n = 0 THEN RegularRow(w, a)
          ELSE IF n < left THEN RegularRow(InternalReads(w, ir.full, n), a)
          ELSE IF n = left THEN [InternalReads(w, ir.full, n) EXCEPT !.stop = TRUE]
          ELSE [InternalReads(w, left, left) EXCEPT !.stop = TRUE]
  BY DEF WitnessOp
<1>5. /\ ir.full \in Nat /\ ir.zero \in 0 .. 1
      /\ same => w.step < a[2] /\ a[2] - (w.step + ir.full * d) \in 1 .. d
      /\ ~same => /\ ir.full = 0 /\ ir.zero = 0 /\ w.addr < a[1]
                  /\ AddressesClose => a[1] - w.addr <= StepMaxDiff + 1
      /\ ~IsWrite(a[2]) => ValueOf(a) = IF same THEN w.value ELSE 0
  <2>1. CASE same
    <3>1. w.step \in Steps \cup {0} /\ w.step < a[2] /\ (IsWrite(a[2]) \/ w.value = ValueOf(a))
      BY <1>1, <1>2, <2>1 DEF Ready
    <3>2. ir = OpReads(w.step, a[2], w.zero)
      BY <2>1 DEF OpReads
    <3>3. LET g == OpReads(w.step, a[2], w.zero)
          IN  g.full \in Nat /\ g.zero \in 0 .. 1 /\ a[2] - (w.step + g.full * StepMaxDiff) \in 1 .. StepMaxDiff
      BY <1>1, <1>2, <3>1, OpGap
    <3> HIDE DEF ir
    <3> QED
      BY <2>1, <3>1, <3>2, <3>3
  <2>2. CASE ~same
    BY <2>2 DEF Ready
  <2> QED
    BY <2>1, <2>2
<1> HIDE DEF ir, x
<1>6. n \in Nat /\ ir.full <= n
  BY <1>5
<1>7. ~(same /\ a[2] < w.step)
  BY <1>1, <1>2, <1>5
\* The reads that end a segment.
<1>8. ASSUME NEW y \in LoopType, GoodLoop(p, y), Len(y.rows) <= Rows, ~y.panic,
             x = [y EXCEPT !.stop = TRUE]
      PROVE  LoopStep(p, x, a)
  <2>1. /\ x \in LoopType /\ x.rows = y.rows /\ x.addr = y.addr /\ x.step = y.step /\ x.value = y.value
        /\ x.stop = TRUE /\ x.panic = y.panic
    BY <1>8 DEF LoopType
  <2> QED
    BY <1>8, <2>1 DEF LoopStep, GoodLoop
\* The row of the operation.
<1>9. ASSUME NEW y \in LoopType, GoodLoop(p, y), Len(y.rows) < Rows, y.addr = w.addr,
             y.value = w.value, y.step = w.step + ir.full * d, x = RegularRow(y, a)
      PROVE  LoopStep(p, x, a)
  <2>1. ~IsWrite(a[2]) => ValueOf(a) = IF y.addr = a[1] THEN y.value ELSE 0
    BY <1>5, <1>9
  <2>2. /\ x \in LoopType /\ Len(x.rows) = Len(y.rows) + 1 /\ (x.panic \/ GoodLoop(p, x))
        /\ x.addr = a[1] /\ x.step = a[2] /\ x.value = ValueOf(a)
        /\ y.addr = a[1] /\ a[2] - y.step \in 1 .. StepMaxDiff => ~x.panic
        /\ y.addr < a[1] /\ a[1] - y.addr <= StepMaxDiff + 1 => ~x.panic
    BY <1>9, <2>1, RegularRowGood
  <2>3. AddressesClose => ~x.panic
    BY <1>5, <1>9, <2>2
  <2>4. Len(x.rows) <= Rows
    <3>1. Len(y.rows) \in Nat
      BY DEF LoopType
    <3> QED
      BY <1>3, <1>9, <2>2, <3>1
  <2> QED
    BY <2>2, <2>3, <2>4 DEF LoopStep
<1>10. CASE left = 0
  BY <1>4, <1>8, <1>10
<1>11. CASE left # 0 /\ n = 0
  <2>1. x = RegularRow(w, a)
    BY <1>4, <1>7, <1>11
  <2>2. w.step = w.step + ir.full * d
    <3>1. ir.full = 0 /\ 0 * d = 0
      BY <1>3, <1>5, <1>11, NextMultiple
    <3> QED
      BY <1>1, <3>1
  <2>3. Len(w.rows) < Rows
    BY <1>1, <1>3, <1>11
  <2> QED
    BY <1>9, <2>1, <2>2, <2>3
<1>12. CASE n # 0 /\ n < left
  <2> DEFINE y == InternalReads(w, ir.full, n)
  <2>1. /\ y \in LoopType /\ GoodLoop(p, y) /\ Len(y.rows) = Len(w.rows) + n
        /\ y.addr = w.addr /\ y.step = w.step + ir.full * d /\ y.value = w.value
    BY <1>5, <1>6, InternalReadsGood
  <2>2. x = RegularRow(y, a)
    BY <1>3, <1>4, <1>6, <1>7, <1>12
  <2> HIDE DEF y
  <2>3. Len(y.rows) < Rows
    BY <1>1, <1>3, <1>6, <1>12, <2>1
  <2> QED
    BY <1>9, <2>1, <2>2, <2>3
<1>13. CASE n # 0 /\ n = left
  <2> DEFINE y == InternalReads(w, ir.full, n)
  <2>1. /\ y \in LoopType /\ GoodLoop(p, y) /\ Len(y.rows) = Len(w.rows) + n /\ y.panic = w.panic
    BY <1>5, <1>6, InternalReadsGood
  <2>2. x = [y EXCEPT !.stop = TRUE]
    BY <1>3, <1>4, <1>6, <1>7, <1>13
  <2> HIDE DEF y
  <2>3. Len(y.rows) <= Rows
    BY <1>1, <1>3, <1>6, <1>13, <2>1
  <2> QED
    BY <1>8, <2>1, <2>2, <2>3
<1>14. CASE left # 0 /\ left < n
  <2> DEFINE y == InternalReads(w, left, left)
  <2>1. /\ y \in LoopType /\ GoodLoop(p, y) /\ Len(y.rows) = Len(w.rows) + left /\ y.panic = w.panic
    BY <1>3, InternalReadsGood
  <2>2. x = [y EXCEPT !.stop = TRUE]
    BY <1>3, <1>4, <1>6, <1>7, <1>14
  <2> HIDE DEF y
  <2>3. Len(y.rows) <= Rows
    BY <1>1, <1>3, <2>1
  <2> QED
    BY <1>8, <2>1, <2>2, <2>3
<1> HIDE DEF n, left
<1>15. left = 0 \/ (left # 0 /\ n = 0) \/ (n # 0 /\ n < left) \/ (n # 0 /\ n = left) \/ (left # 0 /\ left < n)
  BY <1>3, <1>6
<1> QED
  BY <1>10, <1>11, <1>12, <1>13, <1>14, <1>15

\* g is the function that the loop of Witness is defined with.
IsWitnessing(g, start, inputs, n) ==
    g = [i \in 0 .. n |-> IF i = 0 THEN start ELSE WitnessOp(g[i - 1], inputs[i])]

\* It exists.
LEMMA WitnessingExists ==
    ASSUME NEW start, NEW inputs, NEW n \in Nat
    PROVE  \E g : IsWitnessing(g, start, inputs, n)
<1> DEFINE S == {k \in Nat : \E g : IsWitnessing(g, start, inputs, k)}
<1>1. 0 \in S
  <2> DEFINE g == [i \in 0 .. 0 |-> start]
  <2>1. IsWitnessing(g, start, inputs, 0)
    BY DEF IsWitnessing
  <2> HIDE DEF g
  <2> QED
    BY <2>1
<1>2. ASSUME NEW k \in Nat, k \in S
      PROVE  \E g : IsWitnessing(g, start, inputs, k + 1)
  <2>1. PICK g : IsWitnessing(g, start, inputs, k)
    BY <1>2
  <2> DEFINE h == [i \in 0 .. k + 1 |-> IF i = k + 1 THEN WitnessOp(g[k], inputs[k + 1]) ELSE g[i]]
  <2>2. ASSUME NEW i \in 0 .. k + 1
        PROVE  h[i] = IF i = 0 THEN start ELSE WitnessOp(h[i - 1], inputs[i])
    <3>1. CASE i = k + 1
      <4>1. i - 1 \in 0 .. k + 1 /\ i - 1 = k /\ i # 0 /\ h[i - 1] = g[k]
        BY <3>1
      <4> QED
        BY <3>1, <4>1
    <3>2. CASE i \in 1 .. k
      <4>1. i - 1 \in 0 .. k /\ i \in 0 .. k /\ i # 0 /\ i # k + 1 /\ i - 1 # k + 1
        BY <3>2
      <4>2. h[i] = g[i] /\ h[i - 1] = g[i - 1]
        BY <4>1
      <4>3. g[i] = WitnessOp(g[i - 1], inputs[i])
        BY <2>1, <4>1 DEF IsWitnessing
      <4> QED
        BY <4>1, <4>2, <4>3
    <3>3. CASE i = 0
      <4>1. h[i] = g[0] /\ g[0] = start
        BY <2>1, <3>3 DEF IsWitnessing
      <4> QED
        BY <3>3, <4>1
    <3> QED
      BY <3>1, <3>2, <3>3
  <2>3. h = [i \in 0 .. k + 1 |-> h[i]]
    OBVIOUS
  <2> HIDE DEF h
  <2>4. IsWitnessing(h, start, inputs, k + 1)
    BY <2>2, <2>3 DEF IsWitnessing
  <2> QED
    BY <2>4
<1>3. \A k \in Nat : k \in S => k + 1 \in S
  BY <1>2
<1> HIDE DEF S
<1>4. n \in S
  BY <1>1, <1>3, SetInduction
<1> QED
  BY <1>4 DEF S

-----------------------------------------------------------------------------
(* The parts of Witness. *)

\* The end of the previous segment as the collectors have found it.
FoundEnd(prevs) ==
    LET found == CHOOSE a \in prevs : TRUE
    IN  IF prevs = {}
        THEN [addr |-> MinAddr, step |-> 0, value |-> 0, zero |-> FALSE, panic |-> FALSE]
        ELSE [addr |-> found[1], step |-> found[2], value |-> ValueOf(found),
              zero |-> FALSE, panic |-> Cardinality(prevs) > 1]

\* The number of internal reads to be skipped.
SkipOf(skips) == IF skips = {} THEN 0 ELSE CHOOSE n \in skips : TRUE

\* The list that compute_witness takes its operations from.
InputsOf(m) == Sorted(SegInputs(m))

\* The end of the previous segment, its internal reads included.
EndBefore(m) == Fit(FoundEnd(SegPrevs(m)), InputsOf(m), SkipOf(SegSkips(m)))

\* The state the loop starts in.
LoopStart(prev) ==
    [rows |-> <<>>, addr |-> prev.addr, step |-> prev.step, value |-> prev.value,
     zero |-> prev.zero, stop |-> FALSE, panic |-> prev.panic]

\* The loop of a segment.
LoopOf(m) ==
    CHOOSE g : IsWitnessing(g, LoopStart(EndBefore(m)), InputsOf(m), Len(InputsOf(m)))

\* Witness, put together from its parts.
LEMMA WitnessIs ==
    ASSUME NEW seg
    PROVE  LET m == seg.chunks
               end == Padded(LoopOf(m)[Len(InputsOf(m))], seg.isLast)
               prev == EndBefore(m)
           IN  Witness(seg) =
                 IF InputsOf(m) = <<>> THEN [rows |-> <<>>, panic |-> FALSE]
                 ELSE [rows |-> end.rows, panic |-> end.panic,
                       prev |-> [addr |-> prev.addr, step |-> prev.step, value |-> prev.value],
                       last |-> [addr |-> end.addr, step |-> end.step, value |-> end.value]]
<1> DEFINE collected == [c \in DOMAIN seg.chunks |-> Collected(seg.chunks[c], c)]
           m == seg.chunks
<1>1. UNION {collected[c].inputs : c \in DOMAIN collected} = SegInputs(m)
  BY DEF SegInputs
<1>2. UNION {collected[c].prev : c \in DOMAIN collected} = SegPrevs(m)
  BY DEF SegPrevs
<1>3. {seg.chunks[c].interSkip : c \in DOMAIN collected} \ {None} = SegSkips(m)
  BY DEF SegSkips
<1> DEFINE I == UNION {collected[c].inputs : c \in DOMAIN collected}
           P == UNION {collected[c].prev : c \in DOMAIN collected}
           K == {seg.chunks[c].interSkip : c \in DOMAIN collected} \ {None}
           inputs == Sorted(I)
           found == CHOOSE a \in P : TRUE
           prev0 == IF P = {}
                    THEN [addr |-> MinAddr, step |-> 0, value |-> 0, zero |-> FALSE, panic |-> FALSE]
                    ELSE [addr |-> found[1], step |-> found[2], value |-> ValueOf(found),
                          zero |-> FALSE, panic |-> Cardinality(P) > 1]
           prev == Fit(prev0, inputs, IF K = {} THEN 0 ELSE CHOOSE n \in K : TRUE)
           start == [rows |-> <<>>, addr |-> prev.addr, step |-> prev.step,
                     value |-> prev.value, zero |-> prev.zero, stop |-> FALSE,
                     panic |-> prev.panic]
           after == CHOOSE g : g = [i \in 0 .. Len(inputs) |->
                        IF i = 0 THEN start ELSE WitnessOp(g[i - 1], inputs[i])]
           end == Padded(after[Len(inputs)], seg.isLast)
<1>4. Witness(seg) =
        IF inputs = <<>> THEN [rows |-> <<>>, panic |-> FALSE]
        ELSE [rows |-> end.rows, panic |-> end.panic,
              prev |-> [addr |-> prev.addr, step |-> prev.step, value |-> prev.value],
              last |-> [addr |-> end.addr, step |-> end.step, value |-> end.value]]
  BY DEF Witness
<1>5. inputs = InputsOf(m)
  BY <1>1 DEF InputsOf
<1>6. prev0 = FoundEnd(SegPrevs(m))
  BY <1>2 DEF FoundEnd
<1>7. (IF K = {} THEN 0 ELSE CHOOSE n \in K : TRUE) = SkipOf(SegSkips(m))
  BY <1>3 DEF SkipOf
<1> HIDE DEF I, P, K, inputs, prev0
<1>8. prev = EndBefore(m)
  BY <1>5, <1>6, <1>7 DEF EndBefore
<1> HIDE DEF prev
<1>9. start = LoopStart(EndBefore(m))
  BY <1>8 DEF LoopStart
<1> HIDE DEF start
<1>10. after = LoopOf(m)
  BY <1>5, <1>9 DEF LoopOf, IsWitnessing
<1> HIDE DEF after
<1> QED
  BY <1>4, <1>5, <1>8, <1>10

\* b comes next after a in the execution, by address and step.
Adjacent(a, b) == Before(a, b) /\ \A y \in accesses : ~(Before(a, y) /\ Before(y, b))

\* After a the loop may take the next access.
LEMMA AdjacentReady ==
    ASSUME accesses \subseteq Accesses, NEW a \in accesses, NEW b \in accesses, Adjacent(a, b),
           NEW w, w.addr = a[1], w.step = a[2], w.value = ValueOf(a)
    PROVE  Ready(w, b)
<1>1. a[1] \in Nat /\ b[1] \in Nat /\ a[2] \in Nat /\ b[2] \in Nat /\ a[2] \in Steps
  BY AccessType
<1>2. CASE a[1] < b[1]
  <2>1. ASSUME AddressesClose PROVE b[1] - a[1] <= StepMaxDiff + 1
    <3>0. StepMaxDiff \in Nat
      BY Limits
    <3>1. CASE b[1] - MinAddr <= StepMaxDiff + 1
      BY <1>1, <3>0, <3>1 DEF MinAddr
    <3>2. ASSUME NEW y \in accesses, y[1] < b[1], b[1] - y[1] <= StepMaxDiff + 1
          PROVE  b[1] - a[1] <= StepMaxDiff + 1
      <4>1. y[1] \in Nat
        BY AccessType
      <4>2. ~(a[1] < y[1])
        BY <3>2 DEF Adjacent, Before
      <4> QED
        BY <1>1, <3>0, <3>2, <4>1, <4>2
    <3> QED
      BY <2>1, <3>1, <3>2 DEF AddressesClose
  <2>2. ASSUME ~IsWrite(b[2]) PROVE ValueOf(b) = 0
    <3>1. ASSUME NEW y \in accesses, y[1] = b[1], y[2] < b[2] PROVE FALSE
      BY <1>2, <3>1 DEF Adjacent, Before
    <3> QED
      BY <2>2, <3>1, FirstReadIsZero
  <2> QED
    BY <1>2, <2>1, <2>2 DEF Ready
<1>3. CASE ~(a[1] < b[1])
  <2>1. a[1] = b[1] /\ a[2] < b[2]
    BY <1>1, <1>3 DEF Adjacent, Before
  <2>2. ~IsWrite(b[2]) => ValueOf(b) = ValueOf(a)
    BY <2>1, ReadKeepsValue DEF Adjacent
  <2> QED
    BY <1>1, <2>1, <2>2 DEF Ready
<1> QED
  BY <1>2, <1>3

\* The list of the accesses between two cuts: all of them, none skipped between
\* two, nor before the first if L ends with p.
LEMMA BetweenCuts ==
    ASSUME accesses \subseteq Accesses, NEW L, NEW H, Cut(accesses, L), Cut(accesses, H), L \subseteq H
    PROVE  LET s == Sorted(H \ L)
           IN  /\ s \in Seq(H \ L) /\ Len(s) \in Nat
               /\ \A i \in 1 .. Len(s) : s[i] \in accesses /\ s[i] \in H /\ s[i] \notin L
               /\ \A i \in 1 .. Len(s) : i + 1 <= Len(s) => Adjacent(s[i], s[i + 1])
               /\ Len(s) > 0 => \A p : LastOf(p, L) => p \in accesses /\ Adjacent(p, s[1])
               /\ Len(s) > 0 => \A x \in H \ L : ~Before(x, s[1])
<1> DEFINE S == H \ L
           s == Sorted(S)
           n == Len(s)
<1>1. /\ L \subseteq accesses /\ H \subseteq accesses
      /\ \A x \in L, y \in accesses : Before(y, x) => y \in L
      /\ \A x \in H, y \in accesses : Before(y, x) => y \in H
  BY DEF Cut
<1>2. S \subseteq Nat \X Nat /\ IsFiniteSet(S) /\ accesses \subseteq Nat \X Nat
  BY <1>1, AccessType, FS_Subset
<1>3. /\ s \in Seq(S) /\ n \in Nat
      /\ \A x \in S : \E i \in 1 .. n : s[i] = x
      /\ \A i, j \in 1 .. n : i < j => Before(s[i], s[j])
  BY <1>2, SortedOnto
<1> HIDE DEF s, n
<1>4. \A i \in 1 .. n : s[i] \in S
  BY <1>3 DEF n
<1>o. \A x, y, z \in accesses : /\ ~Before(x, x)
                                /\ x # y => Before(x, y) \/ Before(y, x)
                                /\ Before(x, y) /\ Before(y, z) => Before(x, z)
  BY <1>2, BeforeOrder
<1>5. ASSUME NEW i \in 1 .. n, NEW j \in 1 .. n, Before(s[i], s[j]) PROVE i < j
  <2>1. s[i] \in accesses /\ s[j] \in accesses
    BY <1>1, <1>4
  <2>2. CASE i = j
    BY <1>5, <1>o, <2>1, <2>2
  <2>3. CASE j < i
    BY <1>3, <1>5, <1>o, <2>1, <2>3
  <2> QED
    BY <1>3, <2>2, <2>3
<1>6. ASSUME NEW i \in 1 .. n, i + 1 <= n PROVE Adjacent(s[i], s[i + 1])
  <2>1. i + 1 \in 1 .. n /\ Before(s[i], s[i + 1])
    BY <1>3, <1>6
  <2>2. ASSUME NEW y \in accesses, Before(s[i], y), Before(y, s[i + 1]) PROVE FALSE
    <3>1. y \in H
      BY <1>1, <1>4, <2>1, <2>2
    <3>2. y \notin L
      BY <1>1, <1>4, <2>2
    <3>3. PICK k \in 1 .. n : s[k] = y
      BY <1>3, <3>1, <3>2
    <3>4. i < k /\ k < i + 1
      BY <1>5, <2>1, <2>2, <3>3
    <3> QED
      BY <1>3, <3>4
  <2> QED
    BY <2>1, <2>2 DEF Adjacent
<1>7. ASSUME n > 0, NEW x \in S, Before(x, s[1]) PROVE FALSE
  <2>1. 1 \in 1 .. n
    BY <1>3, <1>7
  <2>2. PICK k \in 1 .. n : s[k] = x
    BY <1>3
  <2>3. k < 1
    BY <1>5, <1>7, <2>1, <2>2
  <2> QED
    BY <1>3, <2>3
<1>8. ASSUME n > 0, NEW p, LastOf(p, L) PROVE p \in accesses /\ Adjacent(p, s[1])
  <2>1. p \in L /\ p \in accesses /\ \A x \in L : ~Before(p, x)
    BY <1>1, <1>8 DEF LastOf
  <2>2. s[1] \in H /\ s[1] \notin L /\ s[1] \in accesses
    <3>1. 1 \in 1 .. n
      BY <1>3, <1>8
    <3> QED
      BY <1>1, <1>4, <3>1
  <2>3. ~Before(s[1], p)
    BY <1>1, <2>1, <2>2
  <2>4. Before(p, s[1])
    BY <1>o, <2>1, <2>2, <2>3
  <2>5. ASSUME NEW y \in accesses, Before(p, y), Before(y, s[1]) PROVE FALSE
    <3>1. y \in H /\ y \notin L
      BY <1>1, <2>1, <2>2, <2>5
    <3> QED
      BY <1>7, <1>8, <2>5, <3>1
  <2> QED
    BY <2>1, <2>4, <2>5 DEF Adjacent
<1> QED
  BY <1>1, <1>3, <1>4, <1>6, <1>7, <1>8 DEF s, n

\* What the loop of a segment that fits starts with: it may take the first
\* operation, and fit_inputs_and_get_prev_segment has not panicked.
LEMMA StartReady ==
    ASSUME accesses \subseteq Accesses, NEW m \in ChunkMaps, NEW L, NEW H, SegFits(accesses, m, L, H),
           InputsOf(m) # <<>>
    PROVE  LET prev == EndBefore(m)
           IN  /\ LoopStart(prev) \in LoopType /\ ~prev.panic
               /\ Ready(LoopStart(prev), InputsOf(m)[1])
               /\ L = {} => prev.addr = MinAddr /\ prev.step = 0 /\ prev.value = 0
<1> DEFINE prev == EndBefore(m)
           s == InputsOf(m)
           q == s[1]
           P == SegPrevs(m)
           n == SkipOf(SegSkips(m))
           f == FoundEnd(P)
<1> SUFFICES /\ LoopStart(prev) \in LoopType /\ ~prev.panic /\ Ready(LoopStart(prev), q)
             /\ L = {} => prev.addr = MinAddr /\ prev.step = 0 /\ prev.value = 0
  OBVIOUS
<1>1. /\ Cut(accesses, L) /\ Cut(accesses, H) /\ L \subseteq H /\ H \subseteq accesses
  BY DEF SegFits, Cut
<1>2. s = Sorted(H \ L)
  BY SegInputsAre DEF InputsOf
<1>3. /\ s \in Seq(H \ L) /\ Len(s) \in Nat
      /\ \A i \in 1 .. Len(s) : s[i] \in accesses /\ s[i] \in H /\ s[i] \notin L
      /\ Len(s) > 0 => \A p : LastOf(p, L) => p \in accesses /\ Adjacent(p, s[1])
      /\ Len(s) > 0 => \A x \in H \ L : ~Before(x, s[1])
  BY <1>1, <1>2, BetweenCuts
<1>4. Len(s) > 0
  BY <1>3
<1>5. q \in accesses /\ q \in H /\ q \notin L
  BY <1>3, <1>4
<1>6. q[1] \in Nat /\ q[2] \in Nat /\ q[2] \in Steps
  BY <1>5, AccessType
<1>7. /\ (P = {} /\ L = {}) \/ \E p : P = {p} /\ LastOf(p, L)
      /\ SegSkips(m) = {} \/ \E k \in Nat : SegSkips(m) = {k}
      /\ \A k \in SegSkips(m) : k > 0 =>
            \E p, r : /\ P = {p} /\ LastOf(p, L) /\ r \in accesses \ L
                      /\ r[1] = p[1] /\ ChunkOf(p[2]) < ChunkOf(r[2])
                      /\ k <= IntermediateSteps(ChunkOf(p[2]), ChunkOf(r[2]))
                      /\ \A x \in accesses \ L : ~Before(x, r)
  BY SegPrevsAre
<1>8. n \in Nat /\ (n > 0 => n \in SegSkips(m))
  BY <1>7 DEF SkipOf
<1>9. prev = Fit(f, s, n)
  BY DEF EndBefore
<1> HIDE DEF prev, s, P, n, f
<1>10. ASSUME prev.addr \in Nat, prev.step \in Nat, prev.value \in Values, prev.zero \in BOOLEAN,
              prev.panic = FALSE,
              \/ /\ prev.addr < q[1] /\ (AddressesClose => q[1] - prev.addr <= StepMaxDiff + 1)
                 /\ IsWrite(q[2]) \/ ValueOf(q) = 0
              \/ /\ prev.addr = q[1] /\ prev.step \in Steps \cup {0} /\ prev.step < q[2]
                 /\ IsWrite(q[2]) \/ prev.value = ValueOf(q)
       PROVE  LoopStart(prev) \in LoopType /\ ~prev.panic /\ Ready(LoopStart(prev), q)
  <2> DEFINE w == LoopStart(prev)
  <2>1. w.addr = prev.addr /\ w.step = prev.step /\ w.value = prev.value
    BY DEF LoopStart
  <2>2. w \in LoopType
    <3>1. <<>> \in Seq(RowType)
      OBVIOUS
    <3> DEFINE e == <<>>
    <3>2. w = [rows |-> e, addr |-> prev.addr, step |-> prev.step, value |-> prev.value,
               zero |-> prev.zero, stop |-> FALSE, panic |-> FALSE]
      BY <1>10 DEF LoopStart
    <3>3. e \in Seq(RowType)
      BY <3>1
    <3> HIDE DEF e, w
    <3> QED
      BY <1>10, <3>2, <3>3 DEF LoopType
  <2> HIDE DEF w
  <2>3. Ready(w, q)
    BY <1>10, <2>1 DEF Ready
  <2> QED
    BY <1>10, <2>2, <2>3 DEF w
<1>z. ASSUME P = {}
      PROVE  /\ prev.addr = 0 /\ prev.step = 0 /\ prev.value = 0 /\ prev.zero = FALSE
             /\ prev.panic = FALSE
  <2>1. n = 0
    BY <1>7, <1>8, <1>z
  <2>2. prev = f
    BY <1>9, <2>1 DEF Fit
  <2> QED
    BY <1>z, <2>2 DEF f, FoundEnd, MinAddr
<1>11. ASSUME P = {}, L = {}
       PROVE  LoopStart(prev) \in LoopType /\ ~prev.panic /\ Ready(LoopStart(prev), q)
  <2>3. prev.addr = 0 /\ prev.step = 0 /\ prev.value = 0 /\ prev.zero = FALSE /\ prev.panic = FALSE
    BY <1>z, <1>11
  <2>4. prev.value \in Values
    BY <2>3 DEF Values
  <2>5. prev.addr \in Nat /\ prev.step \in Nat
    BY <2>3
  <2>7. prev.zero \in BOOLEAN /\ prev.panic = FALSE
    BY <2>3
  <2>9. ASSUME NEW y \in accesses, Before(y, q) PROVE FALSE
    <3>1. y \in H
      BY <1>1, <1>5, <2>9 DEF Cut
    <3> QED
      BY <1>3, <1>4, <1>11, <2>9, <3>1
  <2>10. ASSUME ~IsWrite(q[2]) PROVE ValueOf(q) = 0
    <3>1. ASSUME NEW y \in accesses, y[1] = q[1], y[2] < q[2] PROVE FALSE
      BY <2>9, <3>1 DEF Before
    <3> QED
      BY <1>5, <2>10, <3>1, FirstReadIsZero
  <2>8. ASSUME AddressesClose PROVE q[1] - prev.addr <= StepMaxDiff + 1
    <3>1. ASSUME NEW y \in accesses, y[1] < q[1] PROVE FALSE
      BY <2>9, <3>1 DEF Before
    <3>2. q[1] - MinAddr <= StepMaxDiff + 1
      BY <1>5, <2>8, <3>1 DEF AddressesClose
    <3> QED
      BY <2>3, <3>2 DEF MinAddr
  <2> DEFINE u == q[1]
             v == q[2]
  <2>11. u \in Nat /\ v \in Nat \ {0}
    BY <1>6, StepInChunk
  <2>12. CASE u = 0
    <3> HIDE DEF u, v, q
    <3>1. 0 < v
      BY <2>11
    <3>2. prev.addr = q[1] /\ prev.step \in Steps \cup {0} /\ prev.step < q[2]
      BY <2>3, <2>12, <3>1 DEF u, v
    <3>3. IsWrite(q[2]) \/ prev.value = ValueOf(q)
      BY <2>3, <2>10
    <3> QED
      BY <1>10, <2>4, <2>5, <2>7, <3>2, <3>3
  <2>13. CASE u # 0
    <3> HIDE DEF u, v, q
    <3>1. 0 < u
      BY <2>11, <2>13
    <3>2. prev.addr < q[1]
      BY <2>3, <3>1 DEF u
    <3> QED
      BY <1>10, <2>4, <2>5, <2>7, <2>8, <2>10, <3>2
  <2> QED
    BY <2>12, <2>13
<1>12. ASSUME NEW p, P = {p}, LastOf(p, L)
       PROVE  LoopStart(prev) \in LoopType /\ ~prev.panic /\ Ready(LoopStart(prev), q)
  <2>1. p \in accesses /\ Adjacent(p, q)
    BY <1>3, <1>4, <1>12
  <2>2. p[1] \in Nat /\ p[2] \in Nat /\ p[2] \in Steps
    BY <2>1, AccessType
  <2>3. Cardinality({p}) = 1
    BY FS_Singleton
  <2>4. f = [addr |-> p[1], step |-> p[2], value |-> ValueOf(p), zero |-> FALSE, panic |-> FALSE]
    <3>1. (CHOOSE a \in P : TRUE) = p /\ P # {} /\ (Cardinality(P) > 1) = FALSE
      BY <1>12, <2>3
    <3> QED
      BY <3>1 DEF f, FoundEnd
  <2>5. ValueOf(p) \in Values
    BY <2>1 DEF Values
  <2>6. Ready(f, q)
    BY <1>5, <2>1, <2>4, AdjacentReady
  <2>7. CASE n = 0
    <3>1. prev = f
      BY <1>9, <2>7 DEF Fit
    <3> QED
      BY <1>10, <2>2, <2>4, <2>5, <2>6, <3>1 DEF Ready
  <2>8. CASE n > 0
    <3> DEFINE ir == IntermediateRows(p[2], q[2], FALSE)
               d == StepMaxDiff
    <3>1. PICK r : /\ r \in accesses \ L /\ r[1] = p[1] /\ ChunkOf(p[2]) < ChunkOf(r[2])
                   /\ n <= IntermediateSteps(ChunkOf(p[2]), ChunkOf(r[2]))
                   /\ \A x \in accesses \ L : ~Before(x, r)
      BY <1>7, <1>8, <1>12, <2>8
    <3>2. r = q
      <4>1. ~Before(q, r)
        BY <1>5, <3>1
      <4>2. ~Before(r, q)
        <5>1. Before(r, q) => r \in H
          BY <1>1, <1>5, <3>1 DEF Cut
        <5> QED
          BY <1>3, <1>4, <3>1, <5>1
      <4>3. r \in Nat \X Nat /\ q \in Nat \X Nat
        BY <1>5, <3>1, AccessType
      <4> QED
        BY <4>1, <4>2, <4>3, BeforeOrder
    <3>3. q[1] = p[1] /\ p[2] < q[2] /\ n <= IntermediateSteps(ChunkOf(p[2]), ChunkOf(q[2]))
      BY <1>6, <2>2, <3>1, <3>2, EarlierChunk
    <3>4. /\ ir.full \in Nat /\ ir.zero \in 0 .. 1 /\ q[2] - (p[2] + ir.full * d) \in 1 .. d
          /\ n <= ir.full + ir.zero
      BY <1>6, <2>2, <3>3, FitGap
    <3>5. IsWrite(q[2]) \/ ValueOf(p) = ValueOf(q)
      BY <2>2, <2>4, <2>6, <3>3 DEF Ready
    <3>6. d \in Nat
      BY Limits
    <3>7. prev = IF n <= ir.full
                 THEN [f EXCEPT !.step = p[2] + n * d, !.zero = n = ir.full /\ ir.zero = 1]
                 ELSE [f EXCEPT !.step = p[2] + ir.full * d, !.panic = n # ir.full + ir.zero]
      <4>1. f.step = p[2] /\ ~(n <= 0)
        BY <2>4, <2>8, <1>8
      <4> QED
        BY <1>9, <4>1 DEF Fit
    <3> HIDE DEF ir, d
    <3>8. ASSUME NEW k \in Nat, k <= ir.full
          PROVE  p[2] + k * d \in Steps /\ p[2] + k * d < q[2] /\ p[2] + k * d \in Nat
      <4>1. k * d <= ir.full * d /\ k * d \in Nat /\ ir.full * d \in Nat
        BY <3>4, <3>6, <3>8, TimesGrows, NextMultiple
      <4>2. p[2] + k * d >= p[2] /\ p[2] + k * d < q[2] /\ p[2] + k * d \in Nat
        <5> DEFINE u == k * d
                   v == ir.full * d
        <5>1. u <= v /\ u \in Nat /\ v \in Nat /\ q[2] - (p[2] + v) \in 1 .. d
          BY <3>4, <4>1
        <5> HIDE DEF u, v
        <5>2. p[2] + u >= p[2] /\ p[2] + u < q[2] /\ p[2] + u \in Nat
          BY <1>6, <2>2, <3>6, <5>1
        <5> QED
          BY <5>2 DEF u
      <4>3. FirstStep(0) \in Int /\ LastStep(NumChunks - 1) \in Int
        BY MemPlanAssumption DEF FirstStep, LastStep, StepBase
      <4>4. p[2] + k * d \in Steps
        BY <1>6, <2>2, <4>2, <4>3 DEF Steps
      <4> QED
        BY <4>2, <4>4
    <3>9. CASE n <= ir.full
      <4> DEFINE st == p[2] + n * d
      <4>1. st \in Steps /\ st < q[2] /\ st \in Nat
        BY <1>8, <3>8, <3>9
      <4>2. prev = [f EXCEPT !.step = st, !.zero = n = ir.full /\ ir.zero = 1]
        BY <3>7, <3>9
      <4> HIDE DEF st
      <4>3. /\ prev.addr = p[1] /\ prev.step = st /\ prev.value = ValueOf(p)
            /\ prev.zero \in BOOLEAN /\ prev.panic = FALSE
        BY <2>4, <4>2
      <4> QED
        BY <1>10, <2>2, <2>5, <3>3, <3>5, <4>1, <4>3
    <3>10. CASE ~(n <= ir.full)
      <4> DEFINE st == p[2] + ir.full * d
      <4>1. st \in Steps /\ st < q[2] /\ st \in Nat
        BY <3>4, <3>8
      <4>0. n = ir.full + ir.zero
        BY <1>8, <3>4, <3>10
      <4>2. prev = [f EXCEPT !.step = st, !.panic = n # ir.full + ir.zero]
        BY <3>7, <3>10
      <4> HIDE DEF st
      <4>3. /\ prev.addr = p[1] /\ prev.step = st /\ prev.value = ValueOf(p)
            /\ prev.zero = FALSE /\ prev.panic = FALSE
        BY <2>4, <4>0, <4>2
      <4> QED
        BY <1>10, <2>2, <2>5, <3>3, <3>5, <4>1, <4>3
    <3> QED
      BY <3>9, <3>10
  <2> QED
    BY <1>8, <2>7, <2>8
<1>13. ASSUME L = {} PROVE prev.addr = MinAddr /\ prev.step = 0 /\ prev.value = 0
  <2>1. P = {}
    BY <1>7, <1>13 DEF LastOf
  <2> QED
    BY <1>z, <2>1 DEF MinAddr
<1> QED
  BY <1>7, <1>11, <1>12, <1>13

\* What a segment passes on is what its last row has.
PassesLast(x) ==
    x.rows # <<>> =>
        /\ Len(x.rows) \in Nat \ {0}
        /\ x.last = [addr |-> x.rows[Len(x.rows)].addr, step |-> x.rows[Len(x.rows)].step,
                     value |-> x.rows[Len(x.rows)].value]

\* A segment starts from the start of the memory.
FromStart(x) == x.rows # <<>> => x.prev = [addr |-> MinAddr, step |-> 0, value |-> 0]

\* The witness of a segment that fits: its rows may follow each other after the
\* end of the previous segment, it passes its last row on, and it panics at most
\* for a distance between two addresses that has no range check.
WitnessGood(x) ==
    /\ ~x.panic => Chained(x.prev, x.rows) /\ PassesLast(x)
    /\ x.panic \in BOOLEAN
    /\ AddressesClose => ~x.panic

\* compute_witness of a segment that fits.
LEMMA WitnessOfFit ==
    ASSUME accesses \subseteq Accesses, NEW seg \in Segment, NEW L, NEW H,
           SegFits(accesses, seg.chunks, L, H)
    PROVE  WitnessGood(Witness(seg)) /\ (L = {} => FromStart(Witness(seg)))
<1> DEFINE m == seg.chunks
           s == InputsOf(m)
           n == Len(s)
           prev == EndBefore(m)
           p == [addr |-> prev.addr, step |-> prev.step, value |-> prev.value]
           f == LoopOf(m)
           end == Padded(f[n], seg.isLast)
           x == Witness(seg)
<1>0. m \in ChunkMaps /\ seg.isLast \in BOOLEAN
  BY DEF Segment
<1>1. x = IF s = <<>> THEN [rows |-> <<>>, panic |-> FALSE]
          ELSE [rows |-> end.rows, panic |-> end.panic, prev |-> p,
                last |-> [addr |-> end.addr, step |-> end.step, value |-> end.value]]
  BY WitnessIs
<1>2. CASE s = <<>>
  <2>1. x.rows = <<>> /\ x.panic = FALSE
    <3> HIDE DEF s, x
    <3> QED
      BY <1>1, <1>2
  <2> HIDE DEF x
  <2>2. Chained(x.prev, x.rows)
    BY <2>1 DEF Chained
  <2> QED
    BY <2>1, <2>2 DEF WitnessGood, PassesLast, FromStart, x
<1>3. CASE s # <<>>
  <2>1. Cut(accesses, L) /\ Cut(accesses, H) /\ L \subseteq H
    BY DEF SegFits
  <2>2. s = Sorted(H \ L)
    BY <1>0, SegInputsAre DEF InputsOf
  <2>3. /\ s \in Seq(H \ L) /\ n \in Nat
        /\ \A i \in 1 .. n : s[i] \in accesses
        /\ \A i \in 1 .. n : i + 1 <= n => Adjacent(s[i], s[i + 1])
    BY <2>1, <2>2, BetweenCuts
  <2>4. /\ LoopStart(prev) \in LoopType /\ ~prev.panic /\ Ready(LoopStart(prev), s[1])
        /\ L = {} => prev.addr = MinAddr /\ prev.step = 0 /\ prev.value = 0
    BY <1>0, <1>3, StartReady
  <2>0. L = {} => p = [addr |-> MinAddr, step |-> 0, value |-> 0]
    BY <2>4
  <2>5. IsWitnessing(f, LoopStart(prev), s, n)
    BY <2>3, WitnessingExists DEF LoopOf
  <2> DEFINE Inv(w, i) ==
                /\ w \in LoopType /\ Len(w.rows) <= Rows
                /\ w.panic \/ GoodLoop(p, w)
                /\ w.panic \/ w.stop \/ i = n \/ Ready(w, s[i + 1])
                /\ AddressesClose => ~w.panic
             Good == {i \in Nat : i <= n => Inv(f[i], i)}
  <2>6. Inv(f[0], 0)
    <3> DEFINE w == LoopStart(prev)
    <3>1. f[0] = w
      BY <2>3, <2>5 DEF IsWitnessing
    <3>2. /\ w.rows = <<>> /\ w.panic = prev.panic /\ w.addr = prev.addr /\ w.step = prev.step
          /\ w.value = prev.value
      BY DEF LoopStart
    <3> HIDE DEF w
    <3>3. GoodLoop(p, w)
      BY <3>2 DEF GoodLoop, Chained, EndsAt
    <3>4. Len(w.rows) <= Rows
      BY <3>2, MemPlanAssumption
    <3>5. Inv(w, 0)
      BY <2>4, <3>2, <3>3, <3>4 DEF w
    <3> QED
      BY <3>1, <3>5
  <2>7. ASSUME NEW i \in Nat, i + 1 <= n, Inv(f[i], i)
        PROVE  Inv(f[i + 1], i + 1)
    <3> DEFINE w == f[i]
               a == s[i + 1]
               y == WitnessOp(w, a)
    <3>1. f[i + 1] = y
      <4>1. i + 1 \in 0 .. n /\ i + 1 # 0 /\ (i + 1) - 1 = i
        BY <2>3, <2>7
      <4> QED
        BY <2>5, <4>1 DEF IsWitnessing
    <3>2. a \in accesses /\ i # n
      BY <2>3, <2>7
    <3>3. CASE w.stop \/ w.panic
      <4>1. y = w
        BY <3>3 DEF WitnessOp
      <4> HIDE DEF y, w
      <4>2. Inv(w, i)
        BY <2>7 DEF w
      <4>3. Inv(w, i + 1)
        BY <3>3, <4>2
      <4> QED
        BY <3>1, <4>1, <4>3
    <3>4. CASE ~w.stop /\ ~w.panic
      <4> HIDE DEF w, a
      <4>1. w \in LoopType /\ Len(w.rows) <= Rows /\ GoodLoop(p, w) /\ Ready(w, a)
        BY <2>7, <3>2, <3>4 DEF w, a
      <4> HIDE DEF p
      <4>2. LoopStep(p, y, a)
        BY <3>2, <3>4, <4>1, WitnessOpGood
      <4> HIDE DEF y
      <4>3. /\ y \in LoopType /\ Len(y.rows) <= Rows /\ (y.panic \/ GoodLoop(p, y))
            /\ (AddressesClose => ~y.panic)
            /\ (y.panic \/ y.stop \/ (y.addr = a[1] /\ y.step = a[2] /\ y.value = ValueOf(a)))
        BY <4>2 DEF LoopStep
      <4>4. ASSUME ~y.panic, ~y.stop, i + 1 # n PROVE Ready(y, s[(i + 1) + 1])
        <5>1. i + 1 \in 1 .. n /\ (i + 1) + 1 \in 1 .. n /\ (i + 1) + 1 <= n
          BY <2>3, <2>7, <4>4
        <5>2. Adjacent(a, s[(i + 1) + 1]) /\ s[(i + 1) + 1] \in accesses
          BY <2>3, <5>1 DEF a
        <5> QED
          BY <3>2, <4>3, <4>4, <5>2, AdjacentReady
      <4>5. Inv(y, i + 1)
        BY <4>3, <4>4
      <4> QED
        BY <3>1, <4>5
    <3> QED
      BY <3>3, <3>4
  <2> HIDE DEF Inv
  <2>8. n \in Good
    <3>1. 0 \in Good
      BY <2>6
    <3>2. \A i \in Nat : i \in Good => i + 1 \in Good
      BY <2>3, <2>7
    <3> HIDE DEF Good
    <3> QED
      BY <2>3, <3>1, <3>2, SetInduction
  <2> DEFINE w == f[n]
  <2>9. Inv(w, n)
    BY <2>3, <2>8
  <2> HIDE DEF w, p
  <2>10. /\ w \in LoopType /\ Len(w.rows) <= Rows /\ (w.panic \/ GoodLoop(p, w))
         /\ AddressesClose => ~w.panic
    BY <2>9 DEF Inv
  <2>11. end.panic = w.panic
    <3>1. w = [rows |-> w.rows, addr |-> w.addr, step |-> w.step, value |-> w.value,
               zero |-> w.zero, stop |-> w.stop, panic |-> w.panic]
      BY <2>10 DEF LoopType
    <3> QED
      BY <3>1 DEF Padded, w
  <2>12. ~w.panic => end.rows \in Seq(RowType) /\ GoodLoop(p, end)
    BY <1>0, <2>10, PaddedGood DEF w
  <2> HIDE DEF end
  <2>13. /\ x.panic = end.panic /\ x.rows = end.rows /\ x.prev = p
         /\ x.last = [addr |-> end.addr, step |-> end.step, value |-> end.value]
    <3> HIDE DEF x, s
    <3> QED
      BY <1>1, <1>3
  <2>14. w.panic \in BOOLEAN
    BY <2>10 DEF LoopType
  <2> HIDE DEF x
  <2>15. ASSUME ~w.panic PROVE Chained(x.prev, x.rows) /\ PassesLast(x)
    <3>1. end.rows \in Seq(RowType) /\ Chained(p, end.rows)
          /\ EndsAt(p, end.rows, end.addr, end.step, end.value)
      BY <2>12, <2>15 DEF GoodLoop
    <3>2. ASSUME end.rows # <<>>
          PROVE  /\ Len(end.rows) \in Nat \ {0}
                 /\ end.rows[Len(end.rows)].addr = end.addr /\ end.rows[Len(end.rows)].step = end.step
                 /\ end.rows[Len(end.rows)].value = end.value
      BY <3>1, <3>2 DEF EndsAt
    <3> QED
      BY <2>13, <3>1, <3>2 DEF PassesLast
  <2>16. L = {} => FromStart(x)
    BY <2>0, <2>13 DEF FromStart, p
  <2> QED
    BY <2>10, <2>11, <2>13, <2>14, <2>15, <2>16 DEF WitnessGood, x
<1> QED
  BY <1>2, <1>3

-----------------------------------------------------------------------------
(* The rows of all segments. *)

\* What the witnesses computed so far have.
Witnessed ==
    /\ \E S : witness \in Seq(S)
    /\ pc \in {"next", "intermediate", "rows"} => witness = <<>>
    /\ pc = "witness" => Len(witness) < Len(segments)
    /\ pc = "done" => Len(witness) > 0
    /\ pc # "panic" =>
        \A s \in 1 .. Len(witness) :
            /\ Chained(witness[s].prev, witness[s].rows) /\ PassesLast(witness[s])
            /\ s = 1 => FromStart(witness[s])
    /\ AddressesClose => pc # "panic"

\* The inductive invariant for the rows.
RowsInv == IInv /\ Coverage /\ AllFit(accesses, segments) /\ Witnessed

\* It holds at the start.
LEMMA InitRowsInv ==
    ASSUME Init
    PROVE  RowsInv
<1>1. IInv
  BY InitIInv
<1>2. Coverage /\ AllFit(accesses, segments)
  BY InitCoverage
<1>3. pc = "next" /\ witness = <<>>
  BY DEF Init
<1>4. witness \in Seq({})
  BY <1>3
<1>5. Witnessed
  BY <1>3, <1>4 DEF Witnessed
<1> QED
  BY <1>1, <1>2, <1>5 DEF RowsInv

\* The planner leaves the witnesses alone.
LEMMA PlannerWitnessed ==
    ASSUME Witnessed, UNCHANGED witness, pc \in {"next", "intermediate", "rows"},
           \/ pc' \in {"next", "intermediate", "rows"}
           \/ pc' = "witness" /\ segments' # <<>> /\ segments' \in Segments
    PROVE  Witnessed'
<1>1. witness = <<>> /\ witness' = <<>>
  BY DEF Witnessed
<1>2. \E S : witness' \in Seq(S)
  BY DEF Witnessed
<1>3. pc' # "panic" /\ Len(witness') = 0
  BY <1>1
<1>4. pc' = "witness" => 0 < Len(segments')
  BY DEF Segments
<1> QED
  BY <1>1, <1>2, <1>3, <1>4 DEF Witnessed

\* compute_witness keeps it.
LEMMA ComputeWitnessRows ==
    ASSUME RowsInv, ComputeWitness
    PROVE  RowsInv'
<1> DEFINE seg == segments[Len(witness) + 1]
           w == Witness(seg)
<1>1. /\ pc = "witness" /\ witness' = Append(witness, w)
      /\ pc' = IF w.panic THEN "panic"
               ELSE IF Len(witness) + 1 = Len(segments) THEN "done" ELSE "witness"
      /\ UNCHANGED <<accesses, cursor, entry, pending, total, rowsAvailable, segments, current,
                     refChunk, refAddr, refSkip>>
  BY DEF ComputeWitness, plannerVars
<1>2. IInv'
  BY ComputeWitnessIInv DEF RowsInv
<1>3. PICK S : witness \in Seq(S)
  BY DEF RowsInv, Witnessed
<1>4. /\ Len(witness) \in Nat /\ Len(witness) < Len(segments)
      /\ \A s \in 1 .. Len(witness) :
            /\ Chained(witness[s].prev, witness[s].rows) /\ PassesLast(witness[s])
            /\ s = 1 => FromStart(witness[s])
  BY <1>1, <1>3 DEF RowsInv, Witnessed
<1>5. accesses \subseteq Accesses /\ segments \in Segments /\ Len(segments) \in Nat
  <2>1. accesses \subseteq Accesses /\ segments \in Segments
    BY DEF RowsInv, IInv, Types, TypeOK, Accesses
  <2> QED
    BY <2>1 DEF Segments
<1>6. Len(witness) + 1 \in 1 .. Len(segments)
  BY <1>4, <1>5
<1>7. seg \in Segment
  BY <1>5, <1>6 DEF Segments
<1>8. PICK L, H : SegFits(accesses, seg.chunks, L, H) /\ (Len(witness) + 1 = 1 => L = {})
  BY <1>6 DEF RowsInv, AllFit
<1>9. WitnessGood(w) /\ (Len(witness) + 1 = 1 => FromStart(w))
  BY <1>5, <1>7, <1>8, WitnessOfFit
<1> HIDE DEF seg, w
<1>10. (~w.panic => Chained(w.prev, w.rows) /\ PassesLast(w)) /\ w.panic \in BOOLEAN /\ (AddressesClose => ~w.panic)
  BY <1>9 DEF WitnessGood
<1>11. pc' \in {"panic", "done", "witness"} /\ (pc' = "panic" <=> w.panic)
       /\ (pc' = "witness" => Len(witness) + 1 # Len(segments))
  BY <1>1, <1>10
<1>12. /\ witness' \in Seq(S \cup {w}) /\ Len(witness') = Len(witness) + 1
       /\ \A s \in 1 .. Len(witness') : witness'[s] = IF s <= Len(witness) THEN witness[s] ELSE w
  BY <1>1, <1>3
<1>13. ASSUME pc' # "panic", NEW s \in 1 .. Len(witness')
       PROVE  /\ Chained(witness'[s].prev, witness'[s].rows) /\ PassesLast(witness'[s])
              /\ s = 1 => FromStart(witness'[s])
  <2>1. CASE s <= Len(witness)
    <3>1. s \in 1 .. Len(witness) /\ witness'[s] = witness[s]
      BY <1>4, <1>12, <2>1
    <3> QED
      BY <1>4, <3>1
  <2>2. CASE ~(s <= Len(witness))
    <3>1. witness'[s] = w /\ s = Len(witness) + 1
      BY <1>4, <1>12, <2>2
    <3> QED
      BY <1>9, <1>10, <1>11, <1>13, <3>1
  <2> QED
    BY <2>1, <2>2
<1>14. pc' = "witness" => Len(witness') < Len(segments')
  BY <1>1, <1>4, <1>5, <1>11, <1>12
<1>15. \A s \in 1 .. Len(witness') : pc' # "panic" =>
            /\ Chained(witness[s].prev, witness[s].rows)' /\ PassesLast(witness[s])'
            /\ s = 1 => FromStart(witness[s])'
  BY <1>13 DEF Chained, MayFollow, PassesLast, FromStart
<1>16. Witnessed'
  <2>1. AddressesClose' => AddressesClose
    BY <1>1 DEF AddressesClose
  <2> QED
    BY <1>4, <1>10, <1>11, <1>12, <1>14, <1>15, <2>1 DEF Witnessed
<1>17. Coverage' /\ AllFit(accesses, segments)'
  BY <1>1, <1>11 DEF RowsInv, Coverage, AllFit
<1> QED
  BY <1>2, <1>16, <1>17 DEF RowsInv

\* Every step keeps it.
LEMMA NextRowsInv ==
    ASSUME RowsInv, [Next]_vars
    PROVE  RowsInv'
<1>0. IInv /\ Coverage /\ AllFit(accesses, segments) /\ Witnessed
  BY DEF RowsInv
<1>1. IInv'
  BY <1>0, NextIInv
<1>2. CASE NextEntry
  <2>1. pc = "next" /\ pc' = "intermediate" /\ UNCHANGED witness
    BY <1>2 DEF NextEntry
  <2> QED
    BY <1>0, <1>1, <1>2, <2>1, NextEntryCoverage, PlannerWitnessed DEF RowsInv
<1>3. CASE ConsumeIntermediate
  <2>1. pc = "intermediate" /\ pc' = "intermediate" /\ UNCHANGED witness
    BY <1>3 DEF ConsumeIntermediate
  <2> QED
    BY <1>0, <1>1, <1>3, <2>1, ConsumeIntermediateCoverage, PlannerWitnessed DEF RowsInv
<1>4. CASE Preopen
  <2>1. pc = "intermediate" /\ pc' = "rows" /\ UNCHANGED witness
    BY <1>4 DEF Preopen
  <2> QED
    BY <1>0, <1>1, <1>4, <2>1, PreopenCoverage, PlannerWitnessed DEF RowsInv
<1>5. CASE ConsumeRows
  <2>1. pc = "rows" /\ pc' = "rows" /\ UNCHANGED witness
    BY <1>5 DEF ConsumeRows
  <2> QED
    BY <1>0, <1>1, <1>5, <2>1, ConsumeRowsCoverage, PlannerWitnessed DEF RowsInv
<1>6. CASE EndEntry
  <2>1. pc = "rows" /\ pc' = "next" /\ UNCHANGED witness
    BY <1>6 DEF EndEntry
  <2> QED
    BY <1>0, <1>1, <1>6, <2>1, EndEntryCoverage, PlannerWitnessed DEF RowsInv
<1>7. CASE CloseLast
  <2>1. pc = "next" /\ pc' = "witness" /\ UNCHANGED witness
    BY <1>7 DEF CloseLast
  <2>2. Coverage' /\ AllFit(accesses, segments)' /\ segments' # <<>>
    BY <1>0, <1>7, CloseLastCoverage
  <2>3. segments' \in Segments
    BY <1>1 DEF IInv, Types
  <2> QED
    BY <1>0, <1>1, <2>1, <2>2, <2>3, PlannerWitnessed DEF RowsInv
<1>8. CASE ComputeWitness
  BY <1>8, ComputeWitnessRows
<1>9. CASE Terminated \/ UNCHANGED vars
  <2>1. /\ UNCHANGED <<pc, accesses, cursor, entry, pending, total, rowsAvailable, segments, current,
                       refChunk, refAddr, refSkip, witness>>
    BY <1>9 DEF Terminated, vars, plannerVars
  <2>2. Witnessed'
    BY <1>0, <2>1 DEF Witnessed, Chained, MayFollow, PassesLast, FromStart, AddressesClose
  <2>3. Coverage' /\ AllFit(accesses, segments)'
    BY <1>0, <2>1 DEF Coverage, Covers, AllFit
  <2> QED
    BY <1>1, <2>2, <2>3 DEF RowsInv
<1> QED
  BY <1>2, <1>3, <1>4, <1>5, <1>6, <1>7, <1>8, <1>9 DEF Next

\* The inductive invariant of the rows: the check points of every segment give
\* what is between two cuts of the execution by address and step, and the rows
\* computed so far may follow each other.
THEOREM RowsInvariance == Spec => []RowsInv
<1>1. Init => RowsInv
  BY InitRowsInv
<1>2. RowsInv /\ [Next]_vars => RowsInv'
  BY NextRowsInv
<1> QED
  BY <1>1, <1>2, PTL DEF Spec

\* The rows MemSM makes of every segment satisfy the constraints of the AIR between
\* rows, from the values of the previous segment on, internal reads and padding
\* included: whatever the planner has cut from the counters alone, the collectors
\* pick accesses without a hole, so steps grow by their increments, a read has the
\* value of the row before it, and the first read of an address is of 0.  What a
\* segment passes on is its last row, the first one starts from the start of the
\* memory, and its first row changes the address unless it is of the first word.
THEOREM RowsAlwaysChain == Spec => []RowsChainBarFirst
<1>1. ASSUME RowsInv, pc = "done", NEW s \in 1 .. Len(witness), witness[s].rows # <<>>
      PROVE  /\ \A i \in 1 .. Len(witness[s].rows) :
                  MayFollow(IF i = 1 THEN witness[s].prev ELSE witness[s].rows[i - 1],
                            witness[s].rows[i])
             /\ Len(witness[s].rows) \in Nat \ {0}
             /\ witness[s].last = [addr |-> witness[s].rows[Len(witness[s].rows)].addr,
                                   step |-> witness[s].rows[Len(witness[s].rows)].step,
                                   value |-> witness[s].rows[Len(witness[s].rows)].value]
             /\ s = 1 => witness[s].prev = [addr |-> MinAddr, step |-> 0, value |-> 0]
  BY <1>1 DEF RowsInv, Witnessed, Chained, PassesLast, FromStart
<1>2. RowsInv => RowsChain
  BY <1>1 DEF RowsChain
<1>3. ASSUME RowsInv, pc = "done", witness[1].rows # <<>>, witness[1].rows[1].addr # MinAddr
      PROVE  witness[1].rows[1].changes
  <2>1. 1 \in 1 .. Len(witness)
    BY <1>3 DEF RowsInv, Witnessed
  <2>0. /\ Len(witness[1].rows) \in Nat \ {0}
        /\ witness[1].prev = [addr |-> MinAddr, step |-> 0, value |-> 0]
    BY <1>1, <1>3, <2>1
  <2>2. 1 \in 1 .. Len(witness[1].rows) /\ witness[1].prev.addr = MinAddr
    BY <2>0
  <2>3. MayFollow(witness[1].prev, witness[1].rows[1])
    BY <1>1, <1>3, <2>1, <2>2
  <2> QED
    BY <1>3, <2>2, <2>3 DEF MayFollow
<1>4. RowsInv => StartsAtMinAddr \/ FirstRowChanges
  BY <1>3 DEF StartsAtMinAddr, FirstRowChanges
<1>5. RowsInv => RowsChainBarFirst
  BY <1>2, <1>4 DEF RowsChainBarFirst
<1> QED
  BY <1>5, RowsInvariance, PTL

\* None of the assertions and panics from the planner to the rows fires (a check
\* point that goes back, two collectors with the previous segment, internal reads
\* to be skipped that do not exist, a step that goes back, an increment without a
\* range check), unless the execution itself leaves more words between two
\* addresses than an increment can be.
THEOREM PanicFree == Spec /\ AddressesClose => []NoPanic
<1>1. AddressesClose /\ RowsInv => pc # "panic"
  BY DEF RowsInv, Witnessed
<1>2. pc # "panic" /\ CheckPointsGrow => NoPanic
  BY DEF NoPanic
<1>3. AddressesClose /\ [Next]_vars => AddressesClose'
  <2> SUFFICES ASSUME AddressesClose, [Next]_vars PROVE AddressesClose'
    OBVIOUS
  <2>1. UNCHANGED accesses
    BY DEF Next, vars, NextEntry, ConsumeIntermediate, Preopen, ConsumeRows, EndEntry, CloseLast,
           ComputeWitness, Terminated
  <2> QED
    BY <2>1 DEF AddressesClose
<1> QED
  BY <1>1, <1>2, <1>3, RowsInvariance, CheckPointsOrdered, PTL DEF Spec
=============================================================================
