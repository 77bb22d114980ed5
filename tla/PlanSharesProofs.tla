--------------------------- MODULE PlanSharesProofs ---------------------------
(***************************************************************************)
(* Proof that the loop of plan() computes the shares of PlanShares, and    *)
(* that the instances are full but the last, for every number of chunks,   *)
(* every count per chunk and every instance size.                          *)
(***************************************************************************)
EXTENDS RegularPlanProofs, SumsProofs, FiniteSetTheorems

-----------------------------------------------------------------------------
(* The inductive invariant. *)

\* The line position up to which operations have been dealt.
Position == Before(counts, chunk) + (IF pc = "while" THEN offset ELSE 0)

\* What instance p takes of chunk c when only the positions below to are dealt.
PartFrom(cnt, p, c) ==
    IF (p - 1) * Size >= Before(cnt, c) THEN (p - 1) * Size ELSE Before(cnt, c)
PartTo(cnt, c, to) == IF to <= Before(cnt, c) + cnt[c] THEN to ELSE Before(cnt, c) + cnt[c]
Part(cnt, p, to) ==
    [c \in {d \in Chunks : PartFrom(cnt, p, d) < PartTo(cnt, d, to)} |->
        [num |-> PartTo(cnt, c, to) - PartFrom(cnt, p, c),
         skip |-> PartFrom(cnt, p, c) - Before(cnt, c)]]

\* While plan() runs, what has been dealt is the closed instances and the used
\* part of the open one, each with its share of the line.
LineInv ==
    pc # "done" /\ ~NothingToPlan =>
        /\ Position = Len(checkpoints) * Size + (Size - room)
        /\ \A p \in 1 .. Len(checkpoints) : checkpoints[p] = Part(counts, p, p * Size)
        /\ scope = Part(counts, Len(checkpoints) + 1, Position)
        /\ room < Size => DOMAIN scope # {}

\* Without chunks or rows plan() returns at once, with no instance.
IdleInv == NothingToPlan => scope = EmptyScope /\ checkpoints = <<>>

\* The plan that is returned.
SharesInv == IdleInv /\ LineInv /\ PlanIsShares

-----------------------------------------------------------------------------
(* Arithmetic of the line. *)

\* The positions of the chunks.
LEMMA StartStep ==
    ASSUME NEW cnt \in [Chunks -> Nat]
    PROVE  /\ Before(cnt, 0) = 0
           /\ \A c \in 0 .. NumChunks : Before(cnt, c) \in Nat
           /\ \A c \in Chunks : cnt[c] \in Nat /\ Before(cnt, c + 1) = Before(cnt, c) + cnt[c]
           /\ \A c, d \in 0 .. NumChunks : c < d => Before(cnt, c) + cnt[c] <= Before(cnt, d)
<1> DEFINE all == [i \in 1 .. NumChunks |-> cnt[i - 1]]
<1> USE ConstantsAssumption
<1>1. ASSUME NEW i \in 1 .. NumChunks
      PROVE  all[i] = cnt[i - 1] /\ cnt[i - 1] \in Nat
  <2>1. i - 1 \in Chunks
    BY DEF Chunks
  <2> QED
    BY <2>1
<1>2. Terms(all, NumChunks)
  BY <1>1 DEF Terms
<1> HIDE DEF all
<1>3. ASSUME NEW c \in 0 .. NumChunks
      PROVE  Before(cnt, c) = SumTo(all, c)
  <2> DEFINE some == [i \in 1 .. c |-> cnt[i - 1]]
  <2>1. \A i \in 1 .. c : some[i] = all[i]
    BY <1>1
  <2>2. Terms(some, c) /\ c \in Nat
    BY <1>1 DEF Terms
  <2>3. Before(cnt, c) = SumTo(some, c)
    BY DEF Before
  <2> HIDE DEF some
  <2> QED
    BY <2>1, <2>2, <2>3, SumSame
<1>4. Before(cnt, 0) = 0
  <2>1. 0 \in 0 .. NumChunks
    OBVIOUS
  <2> QED
    BY <1>2, <1>3, <2>1, SumToStep
<1>5. ASSUME NEW c \in 0 .. NumChunks
      PROVE  Before(cnt, c) \in Nat
  BY <1>2, <1>3, SumGrows
<1>6. ASSUME NEW c \in 0 .. NumChunks, NEW d \in 0 .. NumChunks, c < d
      PROVE  Before(cnt, c) + cnt[c] <= Before(cnt, d)
  <2>1. c + 1 \in 1 .. NumChunks /\ (c + 1) - 1 = c /\ d \in c .. NumChunks
    BY <1>6
  <2>2. SumTo(all, c) + all[c + 1] <= SumTo(all, d)
    BY <1>2, <1>6, <2>1, SumGrows
  <2> QED
    BY <1>1, <1>3, <2>1, <2>2
<1>7. ASSUME NEW c \in Chunks
      PROVE  cnt[c] \in Nat /\ Before(cnt, c + 1) = Before(cnt, c) + cnt[c]
  <2>1. /\ c + 1 \in 0 .. NumChunks /\ c \in 0 .. NumChunks /\ c + 1 \in 1 .. NumChunks
        /\ (c + 1) - 1 = c /\ c + 1 > 0 /\ c + 1 \in Nat
    BY DEF Chunks
  <2>2. Terms(all, c + 1)
    BY <1>2, <2>1 DEF Terms
  <2>3. SumTo(all, c + 1) = SumTo(all, c) + all[c + 1]
    BY <2>1, <2>2, SumToStep
  <2> QED
    BY <1>1, <1>3, <2>1, <2>3
<1> QED
  BY <1>4, <1>5, <1>6, <1>7

\* The larger and the smaller of two numbers.
LEMMA PairBounds ==
    ASSUME NEW a \in Int, NEW b \in Int
    PROVE  /\ Max({a, b}) = IF a >= b THEN a ELSE b
           /\ Min({a, b}) = IF a <= b THEN a ELSE b
<1>1. Max({a, b}) = IF a >= b THEN a ELSE b
  <2> DEFINE m == IF a >= b THEN a ELSE b
  <2>1. m \in {a, b} /\ \A y \in {a, b} : m >= y
    OBVIOUS
  <2>2. \A x \in {a, b} : (\A y \in {a, b} : x >= y) => x = m
    OBVIOUS
  <2> HIDE DEF m
  <2>3. Max({a, b}) = m
    BY <2>1, <2>2 DEF Max
  <2> QED
    BY <2>3 DEF m
<1>2. Min({a, b}) = IF a <= b THEN a ELSE b
  <2> DEFINE m == IF a <= b THEN a ELSE b
  <2>1. m \in {a, b} /\ \A y \in {a, b} : m <= y
    OBVIOUS
  <2>2. \A x \in {a, b} : (\A y \in {a, b} : x <= y) => x = m
    OBVIOUS
  <2> HIDE DEF m
  <2>3. Min({a, b}) = m
    BY <2>1, <2>2 DEF Min
  <2> QED
    BY <2>3 DEF m
<1> QED
  BY <1>1, <1>2

\* Products with the size of an instance.
LEMMA TimesSize ==
    ASSUME NEW k \in Nat
    PROVE  k * Size \in Nat /\ (k + 1) * Size = k * Size + Size
BY ConstantsAssumption

\* ceil((k * Size + r) / Size).
LEMMA CeilSize ==
    ASSUME Size > 0, NEW k \in Nat, NEW r \in 0 .. Size - 1
    PROVE  (k * Size + r + Size - 1) \div Size = IF r = 0 THEN k ELSE k + 1
<1> USE ConstantsAssumption
<1>1. CASE r = 0
  <2>1. k * Size + r + Size - 1 = k * Size + (Size - 1)
    BY <1>1, TimesSize
  <2> QED
    BY <1>1, <2>1
<1>2. CASE r > 0
  <2>1. k * Size + r + Size - 1 = (k + 1) * Size + (r - 1)
    BY <1>2, TimesSize
  <2> QED
    BY <1>2, <2>1
<1> QED
  BY <1>1, <1>2

\* The counts of the chunks.
LEMMA CountsType ==
    ASSUME TypeOK
    PROVE  counts \in [Chunks -> Nat] /\ DOMAIN counts = Chunks
BY ConstantsAssumption DEF TypeOK

\* The part of instance p up to its last row is its share.
LEMMA PartIsShare ==
    ASSUME NEW cnt \in [Chunks -> Nat], NEW p \in Nat \ {0}
    PROVE  Part(cnt, p, p * Size) = Share(cnt, Size, p)
<1>0. p - 1 \in Nat /\ (p - 1) * Size \in Int /\ p * Size \in Int
  BY ConstantsAssumption
<1>1. ASSUME NEW c \in Chunks
      PROVE  /\ PartFrom(cnt, p, c) = From(cnt, Size, p, c)
             /\ PartTo(cnt, c, p * Size) = To(cnt, Size, p, c)
  <2>1. c \in 0 .. NumChunks
    BY ConstantsAssumption DEF Chunks
  <2>2. Before(cnt, c) \in Int /\ Before(cnt, c) + cnt[c] \in Int
    BY <2>1, StartStep
  <2> QED
    BY <1>0, <2>2, PairBounds DEF PartFrom, PartTo, From, To
<1>2. DOMAIN cnt = Chunks
  OBVIOUS
<1> QED
  BY <1>1, <1>2 DEF Part, Share

\* Dealing n more operations of the chunk at hand inserts one entry.
LEMMA PartInsert ==
    ASSUME NEW cnt \in [Chunks -> Nat], NEW p \in Nat \ {0}, NEW c \in Chunks,
           NEW to \in Nat, NEW n \in Nat \ {0},
           Before(cnt, c) <= to, to + n <= Before(cnt, c) + cnt[c], PartFrom(cnt, p, c) = to
    PROVE  Part(cnt, p, to + n)
            = Insert(Part(cnt, p, to), c, [num |-> n, skip |-> to - Before(cnt, c)])
<1> DEFINE old == Part(cnt, p, to)
           new == Part(cnt, p, to + n)
           entry == [num |-> n, skip |-> to - Before(cnt, c)]
<1> USE ConstantsAssumption
<1>0. (p - 1) * Size \in Int
  OBVIOUS
<1>1. ASSUME NEW d \in Chunks
      PROVE  d \in 0 .. NumChunks /\ Before(cnt, d) \in Nat /\ cnt[d] \in Nat
  <2>1. d \in 0 .. NumChunks
    BY DEF Chunks
  <2> QED
    BY <2>1, StartStep
<1>2. ASSUME NEW d \in Chunks
      PROVE  PartFrom(cnt, p, d) \in Int /\ PartFrom(cnt, p, d) >= Before(cnt, d)
  BY <1>0, <1>1 DEF PartFrom
<1>3. ASSUME NEW d \in Chunks, d < c
      PROVE  PartTo(cnt, d, to + n) = PartTo(cnt, d, to)
  <2>1. Before(cnt, d) + cnt[d] <= Before(cnt, c)
    BY <1>1, <1>3, StartStep
  <2> QED
    BY <1>1, <2>1 DEF PartTo
<1>4. ASSUME NEW d \in Chunks, c < d
      PROVE  /\ ~(PartFrom(cnt, p, d) < PartTo(cnt, d, to + n))
             /\ ~(PartFrom(cnt, p, d) < PartTo(cnt, d, to))
  <2>1. Before(cnt, c) + cnt[c] <= Before(cnt, d)
    BY <1>1, <1>4, StartStep
  <2>2. to + n <= Before(cnt, d) /\ to <= Before(cnt, d)
    BY <1>1, <2>1
  <2>3. PartTo(cnt, d, to + n) = to + n /\ PartTo(cnt, d, to) = to
    BY <1>1, <2>2 DEF PartTo
  <2> QED
    BY <1>1, <1>2, <2>2, <2>3
<1>5. PartTo(cnt, c, to + n) = to + n /\ PartFrom(cnt, p, c) < PartTo(cnt, c, to + n)
  BY <1>1 DEF PartTo
<1>6. ASSUME NEW d \in Chunks, d # c
      PROVE  PartFrom(cnt, p, d) < PartTo(cnt, d, to + n) <=> PartFrom(cnt, p, d) < PartTo(cnt, d, to)
  <2>1. d < c \/ c < d
    BY <1>1, <1>6
  <2> QED
    BY <1>3, <1>4, <2>1
<1>7. DOMAIN new = DOMAIN old \cup {c}
  <2>1. DOMAIN new = {d \in Chunks : PartFrom(cnt, p, d) < PartTo(cnt, d, to + n)}
    BY DEF Part
  <2>2. DOMAIN old = {d \in Chunks : PartFrom(cnt, p, d) < PartTo(cnt, d, to)}
    BY DEF Part
  <2> HIDE DEF new, old
  <2> QED
    BY <1>5, <1>6, <2>1, <2>2
<1>8. ASSUME NEW d \in DOMAIN old, d # c
      PROVE  new[d] = old[d]
  <2>1. d \in Chunks /\ PartFrom(cnt, p, d) < PartTo(cnt, d, to) /\ d \in DOMAIN new
    BY <1>7 DEF Part
  <2>2. d < c
    BY <1>1, <1>4, <1>8, <2>1
  <2>3. PartTo(cnt, d, to + n) = PartTo(cnt, d, to)
    BY <1>3, <2>1, <2>2
  <2> QED
    BY <2>1, <2>3 DEF Part
<1>9. new[c] = entry
  <2>1. new[c] = [num |-> PartTo(cnt, c, to + n) - PartFrom(cnt, p, c),
                  skip |-> PartFrom(cnt, p, c) - Before(cnt, c)]
    BY <1>5 DEF Part
  <2>2. (to + n) - to = n
    OBVIOUS
  <2> QED
    BY <1>5, <2>1, <2>2
<1>10. new = [d \in DOMAIN new |-> new[d]]
  BY DEF Part
<1> HIDE DEF new, old, entry
<1>11. new = Insert(old, c, entry)
  <2>1. Insert(old, c, entry) = [d \in DOMAIN old \cup {c} |-> IF d = c THEN entry ELSE old[d]]
    BY DEF Insert
  <2> QED
    BY <1>7, <1>8, <1>9, <1>10, <2>1
<1> QED
  BY <1>11 DEF new, old, entry

\* Nothing has been dealt to an instance that starts at the position reached.
LEMMA PartEmpty ==
    ASSUME NEW cnt \in [Chunks -> Nat], NEW p \in Nat \ {0}
    PROVE  Part(cnt, p, (p - 1) * Size) = EmptyScope
<1> USE ConstantsAssumption
<1>0. (p - 1) * Size \in Int
  OBVIOUS
<1>1. ASSUME NEW d \in Chunks
      PROVE  ~(PartFrom(cnt, p, d) < PartTo(cnt, d, (p - 1) * Size))
  <2>1. d \in 0 .. NumChunks
    BY DEF Chunks
  <2>2. Before(cnt, d) \in Nat /\ cnt[d] \in Nat
    BY <2>1, StartStep
  <2> QED
    BY <1>0, <2>2 DEF PartFrom, PartTo
<1>2. {d \in Chunks : PartFrom(cnt, p, d) < PartTo(cnt, d, (p - 1) * Size)} = {}
  BY <1>1
<1> QED
  BY <1>2 DEF Part, EmptyScope

-----------------------------------------------------------------------------
(* The steps of plan(). *)

\* Nothing dealt, nothing planned.
LEMMA InitShares ==
    ASSUME Init
    PROVE  SharesInv
<1>0. /\ pc = "chunk" /\ chunk = 0 /\ room = Size /\ scope = EmptyScope /\ checkpoints = <<>>
      /\ Len(checkpoints) = 0
  BY DEF Init
<1>1. TypeOK
  BY InitIInv DEF IInv
<1>2. counts \in [Chunks -> Nat]
  BY <1>1, CountsType
<1>3. Position = 0
  BY <1>0, <1>2, StartStep DEF Position
<1>4. 1 \in Nat \ {0} /\ (1 - 1) * Size = 0 /\ 0 * Size + (Size - Size) = 0
  BY ConstantsAssumption
<1>5. Part(counts, 1, 0) = EmptyScope
  BY <1>2, <1>4, PartEmpty
<1>6. LineInv
  <2>1. Position = Len(checkpoints) * Size + (Size - room)
    BY <1>0, <1>3, <1>4
  <2>2. scope = Part(counts, Len(checkpoints) + 1, Position)
    BY <1>0, <1>3, <1>5
  <2>3. ~(room < Size)
    BY <1>0, ConstantsAssumption
  <2> QED
    BY <1>0, <2>1, <2>2, <2>3 DEF LineInv
<1> QED
  BY <1>0, <1>6 DEF SharesInv, IdleInv, PlanIsShares

\* Going on to a chunk or leaving it keeps the position.
LEMMA SamePosition ==
    ASSUME LineInv, pc # "done", ~NothingToPlan, Position' = Position,
           UNCHANGED <<counts, room, scope, checkpoints>>
    PROVE  LineInv'
<1>1. /\ Position = Len(checkpoints) * Size + (Size - room)
      /\ \A p \in 1 .. Len(checkpoints) : checkpoints[p] = Part(counts, p, p * Size)
      /\ scope = Part(counts, Len(checkpoints) + 1, Position)
      /\ room < Size => DOMAIN scope # {}
  BY DEF LineInv
<1> QED
  BY <1>1 DEF LineInv

\* The next chunk starts where the dealing is.
LEMMA NextChunkShares ==
    ASSUME IInv, SharesInv, NextChunk
    PROVE  SharesInv'
<1>0. /\ pc = "chunk" /\ ~NothingToPlan /\ pc' = "while" /\ offset' = 0 /\ chunk < NumChunks
      /\ UNCHANGED <<counts, chunk, room, scope, checkpoints>>
  BY DEF NextChunk
<1>1. Before(counts, chunk) \in Nat
  BY CountsType, StartStep DEF IInv, TypeOK
<1>2. Position' = Position
  BY <1>0, <1>1 DEF Position
<1>3. LineInv'
  BY <1>0, <1>2, SamePosition DEF SharesInv
<1> QED
  BY <1>0, <1>3 DEF SharesInv, IdleInv, PlanIsShares, NothingToPlan

\* A chunk ends where the next one starts.
LEMMA EndChunkShares ==
    ASSUME IInv, SharesInv, EndChunk
    PROVE  SharesInv'
<1>0. /\ pc = "while" /\ instCount = 0 /\ pc' = "chunk" /\ chunk' = chunk + 1
      /\ UNCHANGED <<counts, room, scope, checkpoints>>
  BY DEF EndChunk
<1>1. ~NothingToPlan /\ chunk < NumChunks /\ offset + instCount = counts[chunk]
  BY <1>0 DEF IInv, PlanInv, Control
<1>2. chunk \in Chunks /\ offset \in Nat /\ counts \in [Chunks -> Nat]
  BY <1>1, CountsType, ConstantsAssumption DEF IInv, TypeOK, Chunks
<1>3. Before(counts, chunk + 1) = Before(counts, chunk) + counts[chunk] /\ counts[chunk] \in Nat
  BY <1>2, StartStep
<1>4. Before(counts, chunk + 1) \in Nat
  <2>1. chunk + 1 \in 0 .. NumChunks
    BY <1>2, ConstantsAssumption DEF Chunks
  <2> QED
    BY <1>2, <2>1, StartStep
<1>5. offset = counts[chunk]
  BY <1>0, <1>1, <1>2, <1>3
<1>6. Position' = Position
  BY <1>0, <1>3, <1>4, <1>5 DEF Position
<1>7. LineInv'
  BY <1>0, <1>1, <1>6, SamePosition DEF SharesInv
<1> QED
  BY <1>0, <1>1, <1>7 DEF SharesInv, IdleInv, PlanIsShares, NothingToPlan

\* One iteration deals the next operations of the line.
LEMMA TakeCheckpointShares ==
    ASSUME IInv, SharesInv, TakeCheckpoint
    PROVE  SharesInv'
<1> DEFINE n == Minimum(room, instCount)
           filled == Insert(scope, chunk, [num |-> n, skip |-> offset])
           p == Len(checkpoints) + 1
<1>0. /\ pc = "while" /\ instCount > 0 /\ offset' = offset + n /\ instCount' = instCount - n
      /\ \/ /\ room - n = 0 /\ checkpoints' = Append(checkpoints, filled)
            /\ scope' = EmptyScope /\ room' = Size
         \/ /\ room - n # 0 /\ scope' = filled /\ room' = room - n /\ checkpoints' = checkpoints
      /\ UNCHANGED <<pc, counts, chunk, collectors>>
  BY DEF TakeCheckpoint
<1>1. /\ ~NothingToPlan /\ chunk < NumChunks /\ offset + instCount = counts[chunk] /\ Size > 0
      /\ room > 0
  BY <1>0, ConstantsAssumption DEF IInv, PlanInv, Control, NothingToPlan
<1>2. /\ chunk \in Chunks /\ offset \in Nat /\ instCount \in Nat /\ room \in 0 .. Size
      /\ counts \in [Chunks -> Nat] /\ scope \in Scopes /\ checkpoints \in Seq(Scopes)
      /\ Len(checkpoints) \in Nat
  BY <1>1, CountsType, ConstantsAssumption DEF IInv, TypeOK, Chunks
<1>3. /\ Position = Len(checkpoints) * Size + (Size - room)
      /\ \A q \in 1 .. Len(checkpoints) : checkpoints[q] = Part(counts, q, q * Size)
      /\ scope = Part(counts, p, Position)
  BY <1>0, <1>1 DEF SharesInv, LineInv
<1>4. n \in Nat \ {0} /\ n <= room /\ n <= instCount
  BY <1>0, <1>1, <1>2, ConstantsAssumption DEF Minimum
<1>5. /\ p \in Nat \ {0} /\ p - 1 = Len(checkpoints) /\ Size \in Nat
      /\ Len(checkpoints) * Size \in Nat /\ p * Size = Len(checkpoints) * Size + Size
  BY <1>2, TimesSize, ConstantsAssumption
<1>6. Before(counts, chunk) \in Nat /\ counts[chunk] \in Nat
  <2>1. chunk \in 0 .. NumChunks
    BY <1>2, ConstantsAssumption DEF Chunks
  <2> QED
    BY <1>2, <2>1, StartStep
<1> HIDE DEF n, filled
<1>7. /\ Position = Before(counts, chunk) + offset /\ Position \in Nat
      /\ Before(counts, chunk) <= Position
      /\ Position + n <= Before(counts, chunk) + counts[chunk]
      /\ Position - Before(counts, chunk) = offset
  <2>1. Position = Before(counts, chunk) + offset
    BY <1>0 DEF Position
  <2> QED
    BY <1>1, <1>2, <1>4, <1>6, <2>1
<1>8. PartFrom(counts, p, chunk) = Position
  <2>1. chunk \notin DOMAIN scope
    BY <1>0, <1>2 DEF IInv, PlanInv, FreshInScope
  <2>2. ~(PartFrom(counts, p, chunk) < PartTo(counts, chunk, Position))
    BY <1>2, <1>3, <2>1 DEF Part
  <2>3. PartTo(counts, chunk, Position) = Position
    BY <1>4, <1>6, <1>7 DEF PartTo
  <2>4. (p - 1) * Size = Len(checkpoints) * Size /\ Len(checkpoints) * Size <= Position
    BY <1>2, <1>3, <1>5
  <2>5. PartFrom(counts, p, chunk) \in {Len(checkpoints) * Size, Before(counts, chunk)}
    BY <2>4 DEF PartFrom
  <2> QED
    BY <1>5, <1>6, <1>7, <2>2, <2>3, <2>4, <2>5
<1>9. filled = Part(counts, p, Position + n)
  <2>1. Part(counts, p, Position + n)
          = Insert(Part(counts, p, Position), chunk,
                   [num |-> n, skip |-> Position - Before(counts, chunk)])
    BY <1>2, <1>4, <1>5, <1>7, <1>8, PartInsert
  <2> QED
    BY <1>3, <1>7, <2>1 DEF filled
<1>10. Position' = Position + n
  <2>1. Position' = Before(counts, chunk) + (offset + n)
    BY <1>0 DEF Position
  <2> QED
    BY <1>2, <1>4, <1>6, <1>7, <2>1
<1>11. CASE room - n = 0
  <2>1. checkpoints' = Append(checkpoints, filled) /\ scope' = EmptyScope /\ room' = Size
    BY <1>0, <1>11
  <2>2. filled \in Scopes
    <3>1. IInv'
      BY TakeCheckpointIInv
    <3>2. checkpoints' \in Seq(Scopes)
      BY <3>1 DEF IInv, TypeOK
    <3>3. Len(checkpoints') = Len(checkpoints) + 1 /\ checkpoints'[Len(checkpoints) + 1] = filled
      BY <1>2, <2>1
    <3> QED
      BY <1>2, <3>2, <3>3
  <2>3. /\ Len(checkpoints') = p /\ checkpoints'[p] = filled
        /\ \A q \in 1 .. Len(checkpoints) : checkpoints'[q] = checkpoints[q]
    BY <1>2, <2>1, <2>2
  <2>4. Position + n = p * Size
    BY <1>2, <1>3, <1>4, <1>5, <1>11
  <2>5. Position' = Len(checkpoints') * Size + (Size - room')
    BY <1>5, <1>10, <2>1, <2>3, <2>4
  <2>6. ASSUME NEW q \in 1 .. Len(checkpoints')
        PROVE  checkpoints'[q] = Part(counts, q, q * Size)
    <3>1. CASE q = p
      BY <1>9, <2>3, <2>4, <3>1
    <3>2. CASE q \in 1 .. Len(checkpoints)
      BY <1>3, <2>3, <3>2
    <3> QED
      BY <1>2, <2>3, <3>1, <3>2
  <2>7. scope' = Part(counts, Len(checkpoints') + 1, Position')
    <3>1. p + 1 \in Nat \ {0} /\ (p + 1) - 1 = p
      BY <1>5
    <3>2. Part(counts, p + 1, p * Size) = EmptyScope
      BY <1>2, <3>1, PartEmpty
    <3> QED
      BY <1>10, <2>1, <2>3, <2>4, <3>2
  <2>8. ~(room' < Size)
    BY <1>5, <2>1
  <2> QED
    BY <1>0, <1>1, <2>5, <2>6, <2>7, <2>8 DEF SharesInv, LineInv, IdleInv, PlanIsShares, NothingToPlan
<1>12. CASE room - n # 0
  <2>1. checkpoints' = checkpoints /\ scope' = filled /\ room' = room - n
    BY <1>0, <1>12
  <2>2. Position' = Len(checkpoints') * Size + (Size - room')
    BY <1>2, <1>3, <1>4, <1>5, <1>10, <2>1
  <2>3. scope' = Part(counts, Len(checkpoints') + 1, Position')
    BY <1>9, <1>10, <2>1
  <2>4. DOMAIN scope' # {}
    BY <2>1 DEF filled, Insert
  <2>5. \A q \in 1 .. Len(checkpoints') : checkpoints'[q] = Part(counts, q, q * Size)
    BY <1>3, <2>1
  <2> QED
    BY <1>0, <1>1, <2>2, <2>3, <2>4, <2>5 DEF SharesInv, LineInv, IdleInv, PlanIsShares, NothingToPlan
<1> QED
  BY <1>11, <1>12

\* At the end the line is dealt: the closed instances and the open one, if it
\* holds anything, are the shares of the whole line.
LEMMA FinishShares ==
    ASSUME IInv, SharesInv, Finish
    PROVE  SharesInv'
<1>0. /\ pc = "chunk" /\ (NothingToPlan \/ chunk = NumChunks) /\ pc' = "done"
      /\ checkpoints' = PushRemaining /\ counts' = counts
  BY DEF Finish
<1>5. IdleInv'
  <2>1. CASE NothingToPlan
    <3>1. scope = EmptyScope /\ checkpoints = <<>> /\ scope' = scope
      BY <2>1 DEF SharesInv, IdleInv, Finish
    <3>2. checkpoints' = <<>>
      BY <1>0, <3>1, EmptyScopeIsScope DEF PushRemaining
    <3> QED
      BY <3>1, <3>2 DEF IdleInv
  <2>2. CASE ~NothingToPlan
    BY <2>2 DEF IdleInv, NothingToPlan
  <2> QED
    BY <2>1, <2>2
<1>1. SUFFICES ASSUME NumChunks > 0
               PROVE  checkpoints' = Shares(counts, Size)
  BY <1>0, <1>5 DEF SharesInv, LineInv, PlanIsShares
<1>2. counts \in [Chunks -> Nat] /\ DOMAIN counts = Chunks
  BY CountsType DEF IInv
<1>3. CASE NothingToPlan
  <2>1. Size = 0
    BY <1>1, <1>3, ConstantsAssumption DEF NothingToPlan
  <2>2. scope = EmptyScope /\ checkpoints = <<>>
    BY <1>0, <1>3 DEF SharesInv, IdleInv
  <2>3. checkpoints' = <<>>
    BY <1>0, <2>2, EmptyScopeIsScope DEF PushRemaining
  <2> QED
    BY <2>1, <2>3 DEF Shares
<1>4. CASE ~NothingToPlan
  <2>1. /\ Size \in Nat /\ Size > 0 /\ chunk = NumChunks /\ room \in 1 .. Size
        /\ checkpoints \in Seq(Scopes) /\ Len(checkpoints) \in Nat /\ scope \in Scopes
    BY <1>0, <1>4, ConstantsAssumption DEF IInv, TypeOK, PlanInv, Control, NothingToPlan
  <2>2. /\ Position = Len(checkpoints) * Size + (Size - room)
        /\ \A p \in 1 .. Len(checkpoints) : checkpoints[p] = Part(counts, p, p * Size)
        /\ scope = Part(counts, Len(checkpoints) + 1, Position)
        /\ room < Size => DOMAIN scope # {}
    BY <1>0, <1>4 DEF SharesInv, LineInv
  <2>3. Total(counts) = Position /\ Position \in Nat
    <3>1. Cardinality(Chunks) = NumChunks
      <4>1. Cardinality(0 .. NumChunks - 1) = NumChunks
        BY <1>1, FS_Interval, ConstantsAssumption
      <4> QED
        BY <4>1 DEF Chunks
    <3>2. Before(counts, NumChunks) \in Nat
      <4>1. NumChunks \in 0 .. NumChunks
        BY ConstantsAssumption
      <4> QED
        BY <1>2, <4>1, StartStep
    <3>3. Position = Before(counts, NumChunks)
      BY <1>0, <2>1, <3>2 DEF Position
    <3> QED
      BY <1>2, <3>1, <3>2, <3>3 DEF Total
  <2> DEFINE k == Len(checkpoints)
             last == IF room = Size THEN k ELSE k + 1
  <2>4. (Total(counts) + Size - 1) \div Size = last
    <3>1. Size - room \in 0 .. Size - 1 /\ (Size - room = 0 <=> room = Size)
      BY <2>1
    <3>2. (k * Size + (Size - room) + Size - 1) \div Size = IF Size - room = 0 THEN k ELSE k + 1
      BY <2>1, <3>1, CeilSize
    <3> QED
      BY <2>2, <2>3, <3>1, <3>2
  <2>5. Shares(counts, Size) = [p \in 1 .. last |-> Share(counts, Size, p)]
    BY <2>1, <2>4 DEF Shares
  <2>6. ASSUME NEW p \in 1 .. k
        PROVE  checkpoints[p] = Share(counts, Size, p)
    <3>1. p \in Nat \ {0}
      BY <2>1
    <3> QED
      BY <1>2, <2>2, <3>1, PartIsShare
  <2>7. k * Size \in Nat /\ (k + 1) * Size = k * Size + Size
    BY <2>1, TimesSize
  <2>8. CASE room = Size
    <3>1. Position = k * Size /\ last = k
      BY <2>1, <2>2, <2>7, <2>8
    <3>2. k + 1 \in Nat \ {0} /\ (k + 1) - 1 = k
      BY <2>1
    <3>3. scope = EmptyScope
      BY <1>2, <2>2, <3>1, <3>2, PartEmpty
    <3>4. checkpoints' = checkpoints
      BY <1>0, <3>3, EmptyScopeIsScope DEF PushRemaining
    <3>5. checkpoints = [p \in 1 .. k |-> checkpoints[p]]
      BY <2>1
    <3> QED
      BY <2>5, <2>6, <3>1, <3>4, <3>5
  <2>9. CASE room # Size
    <3>1. room < Size /\ last = k + 1
      BY <2>1, <2>9
    <3>2. checkpoints' = Append(checkpoints, scope)
      BY <1>0, <2>2, <3>1 DEF PushRemaining
    <3>3. /\ checkpoints' \in Seq(Scopes) /\ Len(checkpoints') = k + 1
          /\ checkpoints'[k + 1] = scope /\ \A p \in 1 .. k : checkpoints'[p] = checkpoints[p]
      BY <2>1, <3>2
    <3>4. scope = Share(counts, Size, k + 1)
      <4>1. k + 1 \in Nat \ {0}
        BY <2>1
      <4>2. Part(counts, k + 1, Position) = Part(counts, k + 1, (k + 1) * Size)
        <5>1. ASSUME NEW c \in Chunks
              PROVE  PartTo(counts, c, Position) = PartTo(counts, c, (k + 1) * Size)
          <6>1. Before(counts, c) + counts[c] <= Position
            <7>1. c \in 0 .. NumChunks /\ NumChunks \in 0 .. NumChunks /\ c < NumChunks
              BY ConstantsAssumption DEF Chunks
            <7>2. Before(counts, c) + counts[c] <= Before(counts, NumChunks)
              BY <1>2, <7>1, StartStep
            <7>3. Before(counts, NumChunks) \in Nat
              BY <1>2, <7>1, StartStep
            <7>4. Position = Before(counts, NumChunks)
              BY <1>0, <2>1, <7>3 DEF Position
            <7> QED
              BY <7>2, <7>4
          <6>2. Before(counts, c) + counts[c] \in Nat
            <7>1. c \in 0 .. NumChunks
              BY ConstantsAssumption DEF Chunks
            <7> QED
              BY <1>2, <7>1, StartStep
          <6>3. Position <= (k + 1) * Size
            BY <2>1, <2>2, <2>7
          <6>4. /\ Position <= Before(counts, c) + counts[c] => Position = Before(counts, c) + counts[c]
                /\ (k + 1) * Size <= Before(counts, c) + counts[c]
                        => (k + 1) * Size = Before(counts, c) + counts[c]
            <7>1. \A x, y, z \in Nat : x <= y /\ y <= z => (y <= x => y = x) /\ (z <= x => z = x)
              OBVIOUS
            <7>2. (k + 1) * Size \in Nat
              BY <2>1, <2>7
            <7> HIDE DEF k
            <7> QED
              BY <2>3, <6>1, <6>2, <6>3, <7>1, <7>2
          <6> QED
            BY <6>4 DEF PartTo
        <5> QED
          BY <5>1 DEF Part
      <4> QED
        BY <1>2, <2>2, <4>1, <4>2, PartIsShare
    <3>5. checkpoints' = [p \in 1 .. k + 1 |-> checkpoints'[p]]
      BY <3>3
    <3>6. ASSUME NEW p \in 1 .. k + 1
          PROVE  checkpoints'[p] = Share(counts, Size, p)
      <4>1. CASE p = k + 1
        BY <3>3, <3>4, <4>1
      <4>2. CASE p \in 1 .. k
        BY <2>6, <3>3, <4>2
      <4> QED
        BY <2>1, <4>1, <4>2
    <3> QED
      BY <2>5, <3>1, <3>5, <3>6
  <2> QED
    BY <2>8, <2>9
<1> QED
  BY <1>3, <1>4

\* Every step keeps the invariant.
LEMMA NextShares ==
    ASSUME IInv, SharesInv, [Next]_vars
    PROVE  SharesInv'
<1>1. ASSUME UNCHANGED <<pc, counts, chunk, offset, room, scope, checkpoints>>
      PROVE  SharesInv'
  <2>1. Position' = Position
    BY <1>1 DEF Position
  <2>2. LineInv'
    BY <1>1, <2>1 DEF SharesInv, LineInv, NothingToPlan
  <2> QED
    BY <1>1, <2>2 DEF SharesInv, IdleInv, PlanIsShares, NothingToPlan
<1>2. CASE Next
  <2>1. ASSUME NEW p, NEW c, Collect(p, c)
        PROVE  SharesInv'
    BY <1>1, <2>1 DEF Collect
  <2>2. CASE Terminated
    BY <1>1, <2>2 DEF Terminated, vars
  <2> QED
    BY <1>2, <2>1, <2>2, NextChunkShares, TakeCheckpointShares, EndChunkShares, FinishShares DEF Next
<1>3. CASE UNCHANGED vars
  BY <1>1, <1>3 DEF vars
<1> QED
  BY <1>2, <1>3

\* The loop of plan() deals the operations as PlanShares says, for every number
\* of chunks, every count per chunk and every instance size.
THEOREM LoopIsShares == Spec => []PlanIsShares
<1>1. Init => SharesInv
  BY InitShares
<1>2. IInv /\ SharesInv /\ [Next]_vars => SharesInv'
  BY NextShares
<1>3. SharesInv => PlanIsShares
  BY DEF SharesInv
<1> QED
  BY <1>1, <1>2, <1>3, Invariance, PTL DEF Spec

-----------------------------------------------------------------------------
(* The rows of an instance. *)

\* The part of the line below x that lies in the size positions from low on.
Inside(x, low, size) == IF x <= low THEN 0 ELSE IF x <= low + size THEN x - low ELSE size

\* ceil(total / Size) instances are enough, and one less are not.
LEMMA CeilBounds ==
    ASSUME Size > 0, NEW total \in Nat, NEW m, m = (total + Size - 1) \div Size
    PROVE  m \in Nat /\ total <= m * Size /\ (m - 1) * Size < total
<1> USE ConstantsAssumption
<1>0. total + Size - 1 \in Nat /\ Size \in Nat \ {0}
  OBVIOUS
<1>1. m \in Nat /\ m * Size <= total + Size - 1 /\ total + Size - 1 < m * Size + Size
  BY <1>0
<1>2. (m - 1) * Size = m * Size - Size
  BY <1>0, <1>1
<1> QED
  BY <1>0, <1>1, <1>2

\* A smaller number of instances has fewer rows.
LEMMA TimesMonotone ==
    ASSUME NEW k \in Nat, NEW m \in Nat, k < m
    PROVE  k * Size <= (m - 1) * Size
<1>1. m - 1 - k \in Nat /\ (m - 1) * Size = k * Size + (m - 1 - k) * Size
  BY ConstantsAssumption
<1>2. (m - 1 - k) * Size \in Nat /\ k * Size \in Nat /\ (m - 1) * Size \in Nat
  BY <1>1, ConstantsAssumption
<1> QED
  BY <1>1, <1>2

\* The collectors of instance p hold the operations of the line that lie in its
\* rows.
LEMMA RowsInside ==
    ASSUME IInv, AllCollected, NumChunks > 0, Size > 0, checkpoints = Shares(counts, Size),
           NEW p \in 1 .. Len(checkpoints)
    PROVE  RowsOf(p) = Inside(Before(counts, NumChunks), (p - 1) * Size, Size)
<1> DEFINE low == (p - 1) * Size
           g == [i \in 1 .. NumChunks |->
                    IF i - 1 \in DOMAIN checkpoints[p] THEN Len(collectors[<<p, i - 1>>].inputs)
                    ELSE 0]
<1> USE ConstantsAssumption
<1>1. /\ counts \in [Chunks -> Nat] /\ checkpoints \in Seq(Scopes) /\ Len(checkpoints) \in Nat
      /\ pc = "done" /\ DOMAIN collectors = CollectorKeys(checkpoints)
  BY CountsType DEF IInv, TypeOK, AllCollected
<1>2. p \in Nat \ {0} /\ p - 1 \in Nat /\ low \in Nat /\ p * Size = low + Size
  <2>1. p \in Nat \ {0} /\ p - 1 \in Nat /\ (p - 1) + 1 = p
    BY <1>1
  <2> QED
    BY <2>1, TimesSize
<1>3. checkpoints[p] = Part(counts, p, p * Size)
  <2>1. checkpoints[p] = Share(counts, Size, p)
    <3> DEFINE last == (Total(counts) + Size - 1) \div Size
    <3>1. checkpoints = [q \in 1 .. last |-> Share(counts, Size, q)]
      BY DEF Shares
    <3>2. DOMAIN checkpoints = 1 .. Len(checkpoints)
      BY <1>1
    <3> HIDE DEF last
    <3> QED
      BY <3>1, <3>2
  <2> QED
    BY <1>1, <1>2, <2>1, PartIsShare
<1>4. ASSUME NEW c \in Chunks
      PROVE  /\ c \in 0 .. NumChunks /\ c + 1 \in 1 .. NumChunks /\ c \in Nat
             /\ Before(counts, c) \in Nat /\ counts[c] \in Nat
             /\ Before(counts, c + 1) = Before(counts, c) + counts[c]
  <2>1. c \in 0 .. NumChunks /\ c + 1 \in 1 .. NumChunks /\ c \in Nat
    BY DEF Chunks
  <2> QED
    BY <1>1, <2>1, StartStep
<1>5. ASSUME NEW c \in Chunks
      PROVE  g[c + 1] \in Nat /\ Inside(Before(counts, c + 1), low, Size)
                                    = Inside(Before(counts, c), low, Size) + g[c + 1]
  <2> DEFINE from == PartFrom(counts, p, c)
             to == PartTo(counts, c, p * Size)
  <2>1. g[c + 1] = IF c \in DOMAIN checkpoints[p] THEN Len(collectors[<<p, c>>].inputs) ELSE 0
    BY <1>4
  <2>2. /\ from = IF low >= Before(counts, c) THEN low ELSE Before(counts, c)
        /\ to = IF low + Size <= Before(counts, c) + counts[c] THEN low + Size
                ELSE Before(counts, c) + counts[c]
    BY <1>2 DEF PartFrom, PartTo
  <2>3. c \in DOMAIN checkpoints[p] <=> from < to
    BY <1>3 DEF Part
  <2>4. ASSUME c \in DOMAIN checkpoints[p]
        PROVE  Len(collectors[<<p, c>>].inputs) = to - from
    <3> DEFINE k == <<p, c>>
    <3>1. k \in DOMAIN collectors /\ k[1] = p /\ k[2] = c
      BY <1>1, <2>4 DEF CollectorKeys
    <3> HIDE DEF k
    <3>2. Len(collectors[k].inputs) = checkpoints[k[1]][k[2]].num
      BY <3>1, FullLength
    <3>3. checkpoints[p][c].num = to - from
      BY <1>3, <2>4 DEF Part
    <3> QED
      BY <3>1, <3>2, <3>3 DEF k
  <2> HIDE DEF from, to, low, g
  <2>5. from \in Nat /\ to \in Nat
    BY <1>2, <1>4, <2>2
  <2>6. g[c + 1] = IF from < to THEN to - from ELSE 0
    BY <2>1, <2>3, <2>4
  <2>7. Inside(Before(counts, c) + counts[c], low, Size)
            = Inside(Before(counts, c), low, Size) + (IF from < to THEN to - from ELSE 0)
    <3> DEFINE b == Before(counts, c)
               n == counts[c]
    <3>1. b \in Nat /\ n \in Nat /\ low \in Nat /\ Size \in Nat
      BY <1>2, <1>4
    <3>2. from = IF low >= b THEN low ELSE b
      BY <2>2
    <3>3. to = IF low + Size <= b + n THEN low + Size ELSE b + n
      BY <2>2
    <3> HIDE DEF b, n
    <3>4. Inside(b + n, low, Size)
            = Inside(b, low, Size) + (IF from < to THEN to - from ELSE 0)
      BY <3>1, <3>2, <3>3 DEF Inside
    <3> QED
      BY <3>4 DEF b, n
  <2>8. g[c + 1] \in Nat
    BY <2>5, <2>6
  <2> QED
    BY <1>4, <2>6, <2>7, <2>8
<1>6. Terms(g, NumChunks)
  <2>1. ASSUME NEW i \in 1 .. NumChunks
        PROVE  g[i] \in Nat
    <3>1. i - 1 \in Chunks /\ (i - 1) + 1 = i
      BY DEF Chunks
    <3> HIDE DEF g
    <3> QED
      BY <1>5, <3>1
  <2> QED
    BY <2>1 DEF Terms
<1>7. RowsOf(p) = SumTo(g, NumChunks)
  BY DEF RowsOf
<1> HIDE DEF g, low
<1> DEFINE S == {c \in Nat : c <= NumChunks =>
                        SumTo(g, c) = Inside(Before(counts, c), low, Size)}
<1>8. 0 \in S
  <2>1. Before(counts, 0) = 0 /\ SumTo(g, 0) = 0
    BY <1>1, <1>6, StartStep, SumToStep
  <2>2. Inside(0, low, Size) = 0
    BY <1>2 DEF Inside
  <2> QED
    BY <2>1, <2>2
<1>9. ASSUME NEW c \in Nat, c \in S, c + 1 <= NumChunks
      PROVE  SumTo(g, c + 1) = Inside(Before(counts, c + 1), low, Size)
  <2>1. /\ c \in Chunks /\ c + 1 \in Nat /\ c + 1 > 0 /\ (c + 1) - 1 = c
    BY <1>9 DEF Chunks
  <2>2. Terms(g, c + 1)
    BY <1>6, <1>9 DEF Terms
  <2>3. SumTo(g, c + 1) = SumTo(g, c) + g[c + 1]
    BY <2>1, <2>2, SumToStep
  <2>4. SumTo(g, c) = Inside(Before(counts, c), low, Size)
    BY <1>9
  <2>5. Inside(Before(counts, c + 1), low, Size) = Inside(Before(counts, c), low, Size) + g[c + 1]
    BY <1>5, <2>1
  <2> QED
    BY <2>3, <2>4, <2>5
<1>10. ASSUME NEW c \in Nat, c \in S
       PROVE  c + 1 \in S
  BY <1>9, <1>10
<1> HIDE DEF S
<1>11. NumChunks \in S
  BY <1>8, <1>10, SetInduction
<1>12. SumTo(g, NumChunks) = Inside(Before(counts, NumChunks), low, Size)
  BY <1>11 DEF S
<1> QED
  BY <1>7, <1>12 DEF low

\* No instance has more inputs than rows, every instance but the last is full
\* and no instance is empty: no rows are wasted on padding but those of the
\* last instance.
THEOREM RowsFilled == Spec => []InstancesFull
<1>1. IInv /\ SharesInv => InstancesFull
  <2> SUFFICES ASSUME IInv, SharesInv, AllCollected, NEW p \in 1 .. Len(checkpoints)
               PROVE  IF p < Len(checkpoints) THEN RowsOf(p) = Size ELSE RowsOf(p) \in 1 .. Size
    BY DEF InstancesFull
  <2> USE ConstantsAssumption
  <2>1. /\ pc = "done" /\ Len(checkpoints) \in Nat /\ counts \in [Chunks -> Nat]
        /\ DOMAIN counts = Chunks
    BY CountsType DEF IInv, TypeOK, AllCollected
  <2>2. ~NothingToPlan /\ NumChunks > 0 /\ Size > 0
    BY DEF SharesInv, IdleInv, NothingToPlan
  <2>3. checkpoints = Shares(counts, Size)
    BY <2>1, <2>2 DEF SharesInv, PlanIsShares
  <2> DEFINE total == Before(counts, NumChunks)
             m == Len(checkpoints)
             low == (p - 1) * Size
  <2>4. total \in Nat /\ total = Total(counts)
    <3>1. Cardinality(0 .. NumChunks - 1) = NumChunks
      BY <2>2, FS_Interval
    <3>2. Cardinality(DOMAIN counts) = NumChunks
      BY <2>1, <3>1 DEF Chunks
    <3>3. NumChunks \in 0 .. NumChunks
      OBVIOUS
    <3>4. total \in Nat
      BY <2>1, <3>3, StartStep
    <3> QED
      BY <3>2, <3>4 DEF Total
  <2>5. m = (total + Size - 1) \div Size
    <3> DEFINE last == (Total(counts) + Size - 1) \div Size
    <3>1. checkpoints = [q \in 1 .. last |-> Share(counts, Size, q)]
      BY <2>2, <2>3 DEF Shares
    <3>2. last \in Nat
      <4>1. total + Size - 1 \in Nat
        BY <2>2, <2>4
      <4> QED
        BY <2>2, <2>4, <4>1, CeilBounds
    <3> HIDE DEF last
    <3>3. Len(checkpoints) = last
      BY <3>1, <3>2
    <3> QED
      BY <2>4, <3>3 DEF last
  <2>6. RowsOf(p) = Inside(total, low, Size)
    BY <2>2, <2>3, RowsInside
  <2> HIDE DEF total, m
  <2>7. m \in Nat /\ total <= m * Size /\ (m - 1) * Size < total
    BY <2>2, <2>4, <2>5, CeilBounds
  <2>8. p \in 1 .. m /\ p \in Nat /\ p - 1 \in Nat /\ p * Size = low + Size /\ low \in Nat
    <3>1. p \in 1 .. m /\ p \in Nat /\ p - 1 \in Nat /\ (p - 1) + 1 = p
      BY <2>1 DEF m
    <3> QED
      BY <3>1, TimesSize
  <2>9. CASE p < m
    <3>1. p * Size <= (m - 1) * Size
      BY <2>7, <2>8, <2>9, TimesMonotone
    <3>2. (m - 1) * Size \in Int
      BY <2>7
    <3> HIDE DEF low
    <3>3. low + Size < total
      BY <2>4, <2>7, <2>8, <3>1, <3>2
    <3>4. RowsOf(p) = Size
      BY <2>2, <2>4, <2>6, <2>8, <3>3 DEF Inside
    <3> QED
      BY <2>9, <3>4 DEF m
  <2>10. CASE p = m
    <3>1. low < total /\ total <= low + Size
      BY <2>7, <2>8, <2>10
    <3> HIDE DEF low
    <3>2. RowsOf(p) \in 1 .. Size
      BY <2>2, <2>4, <2>6, <2>8, <3>1 DEF Inside
    <3> QED
      BY <2>8, <2>10, <3>2 DEF m
  <2> QED
    BY <2>7, <2>8, <2>9, <2>10
<1>2. Init => SharesInv
  BY InitShares
<1>3. IInv /\ SharesInv /\ [Next]_vars => SharesInv'
  BY NextShares
<1> QED
  BY <1>1, <1>2, <1>3, Invariance, PTL DEF Spec
=============================================================================
