--------------------------- MODULE MinTraceProofs ---------------------------
(***************************************************************************)
(* Proofs about MinTrace, for every program, memory, block length, number  *)
(* of threads and length of a word: the traces that compute_minimal_traces *)
(* records on its threads are the blocks of the plain run, and a replay of *)
(* any of them is, step by step, in the state of the plain run, uses up    *)
(* exactly the recorded words and writes the true payloads to the buses.   *)
(*                                                                         *)
(* The argument has four parts.                                            *)
(*   - Cells, words and operations: what Bits reads, that every operation  *)
(*     returns words, and that a step leads from a context to a context.   *)
(*   - One step: with the words StepReads recorded before it, ConsumeStep  *)
(*     leads where ParStep leads (StepHeld).                               *)
(*   - Recording: what a thread has recorded when it has made k steps      *)
(*     (ThreadRec) and how Join deals the blocks (IsJoined).               *)
(*   - Replaying: how far a replay has got (ReplayAt).                     *)
(* IInv puts the last two together.                                        *)
(***************************************************************************)
EXTENDS MinTrace, SumsProofs, TLAPS

-----------------------------------------------------------------------------
(* Arithmetic. *)

\* Quotient and remainder are what they are made of.
LEMMA DivMod ==
    ASSUME NEW d \in Nat \ {0}, NEW q \in Nat, NEW r \in 0 .. d - 1
    PROVE  (r + d * q) \div d = q /\ (r + d * q) % d = r
<1> DEFINE a == r + d * q
           p == a \div d
<1>0. a \in Nat /\ d * q \in Nat
  OBVIOUS
<1>1. p \in Nat /\ d * p <= a /\ a < d * p + d /\ a % d = a - d * p /\ d * p \in Nat
  BY <1>0
<1> HIDE DEF p
<1>2. ~(p < q)
  <2> SUFFICES ASSUME p < q PROVE FALSE
    OBVIOUS
  <2>1. q - p - 1 \in Nat /\ d * (q - p - 1) \in Nat
    BY <1>1
  <2>2. d * q = d * p + d + d * (q - p - 1)
    BY <1>1
  <2> QED
    BY <1>0, <1>1, <2>1, <2>2
<1>3. ~(q < p)
  <2> SUFFICES ASSUME q < p PROVE FALSE
    OBVIOUS
  <2>1. p - q - 1 \in Nat /\ d * (p - q - 1) \in Nat
    BY <1>1
  <2>2. d * p = d * q + d + d * (p - q - 1)
    BY <1>1
  <2> QED
    BY <1>0, <1>1, <2>1, <2>2
<1>4. p = q
  BY <1>1, <1>2, <1>3
<1> QED
  BY <1>0, <1>1, <1>4 DEF p

\* What division with remainder is.
LEMMA DivIs ==
    ASSUME NEW a \in Nat, NEW d \in Nat \ {0}
    PROVE  \E q \in Nat, r \in 0 .. d - 1 :
                a \div d = q /\ a % d = r /\ d * q \in Nat /\ a = d * q + r
<1> DEFINE q == a \div d
           r == a % d
<1>1. q \in Nat /\ r \in 0 .. d - 1
  OBVIOUS
<1>2. r = a - d * q
  OBVIOUS
<1>3. a \div d = q /\ a % d = r
  OBVIOUS
<1> HIDE DEF q, r
<1>4. d * q \in Nat
  BY <1>1
<1>5. a = d * q + r
  BY <1>1, <1>2, <1>4
<1> QED
  BY <1>1, <1>3, <1>4, <1>5

\* Products keep the order.
LEMMA TimesUp ==
    ASSUME NEW a \in Nat, NEW b \in Nat, NEW c \in Nat, a <= b
    PROVE  a * c \in Nat /\ b * c \in Nat /\ a * c <= b * c /\ c * a <= c * b
<1>1. b - a \in Nat /\ (b - a) * c \in Nat /\ (b - a) * c = b * c - a * c
  OBVIOUS
<1>2. a * c \in Nat /\ b * c \in Nat /\ a * c = c * a /\ b * c = c * b
  OBVIOUS
<1> QED
  BY <1>1, <1>2

\* A product is smaller only if a factor is.
LEMMA TimesSmaller ==
    ASSUME NEW a \in Nat, NEW b \in Nat, NEW c \in Nat, a * c < b * c
    PROVE  a < b
<1> SUFFICES ASSUME b <= a PROVE FALSE
  OBVIOUS
<1> QED
  BY TimesUp

-----------------------------------------------------------------------------
(* Powers of two. *)

\* Powers up to two words are numbers, and grow.
LEMMA PowType ==
    ASSUME NEW n \in 0 .. 2 * WordBits
    PROVE  2 ^ n \in Nat \ {0} /\ 1 <= 2 ^ n
<1> DEFINE T == {k \in Nat : k <= 2 * WordBits => 2 ^ k \in Nat \ {0}}
<1>0. WordBits \in Nat
  BY WordAssumption
<1>1. 0 \in T
  BY WordAssumption
<1>2. ASSUME NEW k \in Nat, k \in T PROVE k + 1 \in T
  <2> SUFFICES ASSUME k + 1 <= 2 * WordBits PROVE 2 ^ (k + 1) \in Nat \ {0}
    OBVIOUS
  <2>1. 2 ^ k \in Nat \ {0}
    BY <1>0, <1>2
  <2>2. k \in 0 .. 2 * WordBits - 1
    BY <1>0, <1>2
  <2>3. 2 ^ (k + 1) = 2 * 2 ^ k
    BY <2>2, WordAssumption
  <2> QED
    BY <2>1, <2>3
<1> HIDE DEF T
<1>3. \A k \in Nat : k \in T
  BY <1>1, <1>2, SetInduction
<1> QED
  BY <1>0, <1>3 DEF T

\* The power of a sum.
LEMMA PowAdd ==
    ASSUME NEW m \in Nat, NEW n \in Nat, m + n <= 2 * WordBits
    PROVE  2 ^ (m + n) = 2 ^ m * 2 ^ n
<1> DEFINE T == {k \in Nat : k <= n => 2 ^ (m + k) = 2 ^ m * 2 ^ k}
<1>0. WordBits \in Nat /\ 2 ^ m \in Nat
  BY WordAssumption, PowType
<1>1. 0 \in T
  BY <1>0, WordAssumption
<1>2. ASSUME NEW k \in Nat, k \in T PROVE k + 1 \in T
  <2> SUFFICES ASSUME k + 1 <= n PROVE 2 ^ (m + (k + 1)) = 2 ^ m * 2 ^ (k + 1)
    OBVIOUS
  <2>1. 2 ^ (m + k) = 2 ^ m * 2 ^ k
    BY <1>2
  <2>2. m + k \in 0 .. 2 * WordBits - 1 /\ k \in 0 .. 2 * WordBits - 1
        /\ k \in 0 .. 2 * WordBits /\ m + (k + 1) = (m + k) + 1
    BY <1>0, <1>2
  <2>3. 2 ^ ((m + k) + 1) = 2 * 2 ^ (m + k) /\ 2 ^ (k + 1) = 2 * 2 ^ k
    BY <2>2, WordAssumption
  <2>4. 2 ^ k \in Nat
    BY <2>2, PowType
  <2> QED
    BY <1>0, <2>1, <2>2, <2>3, <2>4
<1> HIDE DEF T
<1>3. \A k \in Nat : k \in T
  BY <1>1, <1>2, SetInduction
<1> QED
  BY <1>3 DEF T

-----------------------------------------------------------------------------
(* The value of cells. *)

\* The cells of mem from addr on, n of them, hold bits.
Cells(mem, addr, n) == \A c \in addr .. addr + n - 1 : mem[c] \in 0 .. 1

\* The value of n cells from that of n - 1.
LEMMA BitsStep ==
    ASSUME NEW mem, NEW addr \in Nat, NEW n \in 0 .. 2 * WordBits, Cells(mem, addr, n)
    PROVE  /\ Bits(mem, addr, n) \in Nat /\ Bits(mem, addr, 0) = 0
           /\ n > 0 => /\ mem[addr + n - 1] \in 0 .. 1
                       /\ Bits(mem, addr, n) = Bits(mem, addr, n - 1) + mem[addr + n - 1] * 2 ^ (n - 1)
<1> DEFINE f(k) == [j \in 1 .. k |-> mem[addr + j - 1] * 2 ^ (j - 1)]
<1>0. WordBits \in Nat /\ n \in Nat
  BY WordAssumption
<1>1. ASSUME NEW j \in 1 .. n PROVE mem[addr + j - 1] \in 0 .. 1 /\ mem[addr + j - 1] * 2 ^ (j - 1) \in Nat
  <2>1. addr + j - 1 \in addr .. addr + n - 1 /\ j - 1 \in 0 .. 2 * WordBits
    BY <1>0
  <2>2. mem[addr + j - 1] \in 0 .. 1 /\ 2 ^ (j - 1) \in Nat
    BY <2>1, PowType DEF Cells
  <2> QED
    BY <2>2
<1>2. ASSUME NEW k \in 0 .. n PROVE k \in Nat /\ Terms(f(k), k) /\ Bits(mem, addr, k) = SumTo(f(k), k)
  <2>1. Terms(f(k), k)
    BY <1>0, <1>1 DEF Terms
  <2> QED
    BY <1>0, <2>1 DEF Bits
<1>3. Bits(mem, addr, n) \in Nat /\ Bits(mem, addr, 0) = 0
  <2>1. 0 \in 0 .. n /\ n \in 0 .. n
    BY <1>0
  <2>2. Terms(f(0), 0) /\ Bits(mem, addr, 0) = SumTo(f(0), 0) /\ Terms(f(n), n)
        /\ Bits(mem, addr, n) = SumTo(f(n), n)
    BY <1>2, <2>1
  <2> HIDE DEF f
  <2> QED
    BY <1>0, <2>2, SumToStep
<1>4. ASSUME n > 0
      PROVE  Bits(mem, addr, n) = Bits(mem, addr, n - 1) + mem[addr + n - 1] * 2 ^ (n - 1)
  <2>1. n \in 0 .. n /\ n - 1 \in 0 .. n /\ n - 1 \in Nat
    BY <1>0, <1>4
  <2>2. Bits(mem, addr, n) = SumTo(f(n), n) /\ Bits(mem, addr, n - 1) = SumTo(f(n - 1), n - 1)
        /\ Terms(f(n), n) /\ Terms(f(n - 1), n - 1)
    BY <1>2, <2>1
  <2>3. f(n)[n] = mem[addr + n - 1] * 2 ^ (n - 1) /\ \A i \in 1 .. n - 1 : f(n - 1)[i] = f(n)[i]
    BY <1>0, <1>4
  <2> HIDE DEF f
  <2>4. SumTo(f(n), n) = SumTo(f(n), n - 1) + f(n)[n]
    BY <1>0, <1>4, <2>2, SumToStep
  <2>5. SumTo(f(n - 1), n - 1) = SumTo(f(n), n - 1)
    BY <2>1, <2>2, <2>3, SumSame
  <2> QED
    BY <2>2, <2>3, <2>4, <2>5
<1>5. n > 0 => mem[addr + n - 1] \in 0 .. 1
  BY <1>0, <1>1
<1> QED
  BY <1>3, <1>4, <1>5

\* n cells hold a number of n bits.
LEMMA BitsRange ==
    ASSUME NEW mem, NEW addr \in Nat, NEW n \in 0 .. 2 * WordBits, Cells(mem, addr, n)
    PROVE  Bits(mem, addr, n) \in 0 .. 2 ^ n - 1
<1> DEFINE T == {k \in Nat : k <= n => Bits(mem, addr, k) \in 0 .. 2 ^ k - 1}
<1>0. WordBits \in Nat /\ n \in Nat
  BY WordAssumption
<1>1. 0 \in T
  <2>1. Bits(mem, addr, 0) = 0
    BY BitsStep
  <2> QED
    BY <2>1, WordAssumption
<1>2. ASSUME NEW k \in Nat, k \in T PROVE k + 1 \in T
  <2> SUFFICES ASSUME k + 1 <= n PROVE Bits(mem, addr, k + 1) \in 0 .. 2 ^ (k + 1) - 1
    OBVIOUS
  <2>1. k + 1 \in 0 .. 2 * WordBits /\ k \in 0 .. 2 * WordBits - 1 /\ k \in 0 .. 2 * WordBits
        /\ (k + 1) - 1 = k /\ addr + (k + 1) - 1 = addr + k /\ k + 1 > 0
    BY <1>0, <1>2
  <2>2. Cells(mem, addr, k + 1)
    BY <1>0 DEF Cells
  <2>3. Bits(mem, addr, k + 1) = Bits(mem, addr, k) + mem[addr + k] * 2 ^ k /\ mem[addr + k] \in 0 .. 1
    BY <2>1, <2>2, BitsStep
  <2>4. 2 ^ (k + 1) = 2 * 2 ^ k /\ 2 ^ k \in Nat
    BY <2>1, PowType, WordAssumption
  <2>5. Bits(mem, addr, k) \in 0 .. 2 ^ k - 1
    BY <1>2
  <2> QED
    BY <2>3, <2>4, <2>5
<1> HIDE DEF T
<1>3. \A k \in Nat : k \in T
  BY <1>1, <1>2, SetInduction
<1> QED
  BY <1>0, <1>3 DEF T

\* The value of all cells from that of the first m and that of the n above them.
IsSplit(mem, addr, m, n, all, up) ==
    Bits(mem, addr, all) = Bits(mem, addr, m) + 2 ^ m * Bits(mem, up, n)

\* Cells are the first m of them, and the others above.
LEMMA BitsSplit ==
    ASSUME NEW mem, NEW addr \in Nat, NEW m \in Nat, NEW n \in Nat, NEW all \in 0 .. 2 * WordBits,
           NEW up \in Nat, all = m + n, up = addr + m, Cells(mem, addr, all)
    PROVE  IsSplit(mem, addr, m, n, all, up)
<1> DEFINE T == {k \in Nat : k <= n =>
                    Bits(mem, addr, m + k) = Bits(mem, addr, m) + 2 ^ m * Bits(mem, addr + m, k)}
<1>0. WordBits \in Nat /\ m \in 0 .. 2 * WordBits /\ Cells(mem, addr, m) /\ 2 ^ m \in Nat
  <2>1. WordBits \in Nat
    BY WordAssumption
  <2> QED
    BY <2>1, PowType DEF Cells
<1>1. 0 \in T
  <2>1. Cells(mem, addr + m, 0) /\ 0 \in 0 .. 2 * WordBits /\ addr + m \in Nat
    BY <1>0 DEF Cells
  <2>2. Bits(mem, addr + m, 0) = 0 /\ Bits(mem, addr, m) \in Nat
    BY <1>0, <2>1, BitsStep
  <2> QED
    BY <1>0, <2>2
<1>2. ASSUME NEW k \in Nat, k \in T PROVE k + 1 \in T
  <2> SUFFICES ASSUME k + 1 <= n
               PROVE  Bits(mem, addr, m + (k + 1)) = Bits(mem, addr, m) + 2 ^ m * Bits(mem, addr + m, k + 1)
    OBVIOUS
  <2>1. /\ m + (k + 1) \in 0 .. 2 * WordBits /\ k + 1 \in 0 .. 2 * WordBits /\ k \in 0 .. 2 * WordBits
        /\ (m + (k + 1)) - 1 = m + k /\ addr + (m + (k + 1)) - 1 = addr + m + k
        /\ (k + 1) - 1 = k /\ (addr + m) + (k + 1) - 1 = addr + m + k
        /\ m + (k + 1) > 0 /\ k + 1 > 0 /\ addr + m \in Nat
    BY <1>0, <1>2
  <2>2. Cells(mem, addr, m + (k + 1)) /\ Cells(mem, addr + m, k + 1) /\ Cells(mem, addr + m, k)
    BY <1>0 DEF Cells
  <2>3. Bits(mem, addr, m + (k + 1)) = Bits(mem, addr, m + k) + mem[addr + m + k] * 2 ^ (m + k)
    <3> DEFINE l == m + (k + 1)
    <3>1. l \in 0 .. 2 * WordBits /\ l > 0 /\ Cells(mem, addr, l)
      BY <2>1, <2>2
    <3>2. l - 1 = m + k /\ addr + l - 1 = addr + m + k
      BY <2>1
    <3> HIDE DEF l
    <3>3. Bits(mem, addr, l) = Bits(mem, addr, l - 1) + mem[addr + l - 1] * 2 ^ (l - 1)
      BY <3>1, BitsStep
    <3>4. Bits(mem, addr, l) = Bits(mem, addr, m + k) + mem[addr + m + k] * 2 ^ (m + k)
      BY <3>2, <3>3
    <3> QED
      BY <3>4 DEF l
  <2>4. Bits(mem, addr + m, k + 1) = Bits(mem, addr + m, k) + mem[addr + m + k] * 2 ^ k
        /\ mem[addr + m + k] \in 0 .. 1
    <3> DEFINE l == k + 1
               a == addr + m
    <3>1. l \in 0 .. 2 * WordBits /\ l > 0 /\ a \in Nat /\ Cells(mem, a, l)
      BY <2>1, <2>2
    <3>2. l - 1 = k /\ a + l - 1 = addr + m + k
      BY <2>1
    <3> HIDE DEF l, a
    <3>3. /\ Bits(mem, a, l) = Bits(mem, a, l - 1) + mem[a + l - 1] * 2 ^ (l - 1)
          /\ mem[a + l - 1] \in 0 .. 1
      BY <3>1, BitsStep
    <3>4. /\ Bits(mem, a, l) = Bits(mem, a, k) + mem[addr + m + k] * 2 ^ k
          /\ mem[addr + m + k] \in 0 .. 1
      BY <3>2, <3>3
    <3> QED
      BY <3>4 DEF l, a
  <2>5. Bits(mem, addr + m, k) \in Nat /\ Bits(mem, addr, m) \in Nat
    BY <1>0, <2>1, <2>2, BitsStep
  <2>6. 2 ^ (m + k) = 2 ^ m * 2 ^ k /\ 2 ^ k \in Nat
    <3>1. m + k <= 2 * WordBits
      BY <1>0, <1>2
    <3> QED
      BY <2>1, <3>1, PowAdd, PowType
  <2>7. Bits(mem, addr, m + k) = Bits(mem, addr, m) + 2 ^ m * Bits(mem, addr + m, k)
    BY <1>2
  <2> DEFINE v == mem[addr + m + k]
             p == 2 ^ m
             q == 2 ^ k
             w == Bits(mem, addr + m, k)
  <2>8. v \in Nat /\ p \in Nat /\ q \in Nat /\ w \in Nat
    BY <1>0, <2>4, <2>5, <2>6
  <2>9. Bits(mem, addr, m + (k + 1)) = Bits(mem, addr, m) + p * w + v * (p * q)
        /\ Bits(mem, addr + m, k + 1) = w + v * q
    BY <2>3, <2>4, <2>6, <2>7
  <2> HIDE DEF v, p, q, w
  <2>10. p * (w + v * q) = p * w + v * (p * q) /\ p * w \in Nat /\ v * (p * q) \in Nat
    BY <2>8
  <2>11. Bits(mem, addr, m + (k + 1)) = Bits(mem, addr, m) + p * (w + v * q)
    BY <2>5, <2>9, <2>10
  <2> QED
    BY <2>9, <2>11 DEF p
<1> HIDE DEF T
<1>3. \A k \in Nat : k \in T
  BY <1>1, <1>2, SetInduction
<1> QED
  BY <1>3 DEF T, IsSplit

\* Shift and mask of the value of cells.
IsCut(mem, addr, m, n, all, up) ==
    /\ Bits(mem, addr, all) \div 2 ^ m = Bits(mem, up, n)
    /\ Bits(mem, addr, all) % 2 ^ m = Bits(mem, addr, m)

\* The upper and the lower cells of a number, by division.
LEMMA BitsDrop ==
    ASSUME NEW mem, NEW addr \in Nat, NEW m \in Nat, NEW n \in Nat, NEW all \in 0 .. 2 * WordBits,
           NEW up \in Nat, all = m + n, up = addr + m, Cells(mem, addr, all)
    PROVE  IsCut(mem, addr, m, n, all, up)
<1>0. /\ WordBits \in Nat /\ m \in 0 .. 2 * WordBits /\ n \in 0 .. 2 * WordBits
  BY WordAssumption
<1>1. Cells(mem, addr, m) /\ Cells(mem, up, n)
  BY <1>0 DEF Cells
<1> DEFINE v == Bits(mem, addr, all)
           low == Bits(mem, addr, m)
           high == Bits(mem, up, n)
           d == 2 ^ m
<1>2. v = low + d * high
  <2>1. IsSplit(mem, addr, m, n, all, up)
    BY BitsSplit
  <2> QED
    BY <2>1 DEF IsSplit
<1>3. d \in Nat \ {0}
  BY <1>0, PowType
<1>4. low \in 0 .. d - 1
  BY <1>0, <1>1, BitsRange
<1>5. high \in Nat
  BY <1>0, <1>1, BitsStep
<1> HIDE DEF v, low, high, d
<1>6. v \div d = high /\ v % d = low
  BY <1>2, <1>3, <1>4, <1>5, DivMod
<1> QED
  BY <1>6 DEF v, low, high, d, IsCut

\* A part of the cells of a number.
LEMMA BitsSlice ==
    ASSUME NEW mem, NEW addr \in Nat, NEW n \in 0 .. 2 * WordBits, NEW o \in Nat, NEW w \in Nat,
           NEW at \in Nat, o + w <= n, at = addr + o, Cells(mem, addr, n)
    PROVE  (Bits(mem, addr, n) \div 2 ^ o) % 2 ^ w = Bits(mem, at, w)
<1> DEFINE rest == n - o
           more == n - o - w
           up == at + w
<1>0. /\ WordBits \in Nat /\ n \in Nat /\ rest \in Nat /\ more \in Nat /\ n = o + rest /\ rest = w + more
      /\ rest \in 0 .. 2 * WordBits /\ up \in Nat /\ up = at + w
  BY WordAssumption
<1> HIDE DEF rest, more, up
<1>1. Cells(mem, at, rest)
  BY <1>0 DEF Cells
<1>2. IsCut(mem, addr, o, rest, n, at)
  BY <1>0, BitsDrop
<1>3. IsCut(mem, at, w, more, rest, up)
  BY <1>0, <1>1, BitsDrop
<1> QED
  BY <1>2, <1>3 DEF IsCut

-----------------------------------------------------------------------------
(* The operations of ZiskOps return words. *)

\* What an operation returns: c and flag.
WordAndFlag == Words \X BOOLEAN

\* The lengths of the integers are lengths of words, and words are numbers.
LEMMA Lengths ==
    /\ WordBits \in Nat \ {0} /\ WordBits \in 0 .. 2 * WordBits
    /\ W32 \in 1 .. WordBits /\ W16 \in 1 .. WordBits /\ W8 \in 1 .. WordBits
    /\ 2 ^ WordBits \in Nat \ {0} /\ M64 \in Words /\ Words \subseteq Nat
    /\ 0 \in Words
    /\ \A n \in 0 .. 2 * WordBits : 2 ^ n \in Nat \ {0}
<1>1. WordBits \in Nat \ {0} /\ WordBits \in 0 .. 2 * WordBits
  BY WordAssumption
<1>2. W32 \in 1 .. WordBits /\ W16 \in 1 .. WordBits /\ W8 \in 1 .. WordBits
  BY WordAssumption DEF W32, W16, W8
<1>3. \A n \in 0 .. 2 * WordBits : 2 ^ n \in Nat \ {0}
  BY PowType
<1>4. 2 ^ WordBits \in Nat \ {0}
  BY <1>1, <1>3
<1> QED
  BY <1>1, <1>2, <1>3, <1>4 DEF Words, M64

\* Cut to w bits, a number is natural; signed, it is an integer.
LEMMA Conversions ==
    ASSUME NEW x \in Int, NEW w \in 1 .. WordBits
    PROVE  U(x, w) \in 0 .. 2 ^ w - 1 /\ U(x, w) \in Nat /\ S(x, w) \in Int
<1>1. w \in 0 .. 2 * WordBits /\ w - 1 \in 0 .. 2 * WordBits
  BY Lengths
<1>2. 2 ^ w \in Nat \ {0} /\ 2 ^ (w - 1) \in Nat
  BY <1>1, Lengths
<1>3. U(x, w) \in 0 .. 2 ^ w - 1
  BY <1>2 DEF U
<1>4. U(x, w) \in Nat
  BY <1>2, <1>3
<1> QED
  BY <1>2, <1>3, <1>4 DEF S

\* A value is a word.
LEMMA ValueWord ==
    ASSUME NEW x \in Int
    PROVE  Value(x) \in WordAndFlag
<1>1. U(x, WordBits) \in Words
  BY Lengths, Conversions DEF Words, M64
<1> QED
  BY <1>1 DEF Value, WordAndFlag

\* A truth value is a word.
LEMMA TruthWord ==
    ASSUME NEW p
    PROVE  Truth(p) \in WordAndFlag
<1>1. 1 \in Words
  <2>1. 2 ^ 1 = 2
    <3>1. 0 \in 0 .. 2 * WordBits - 1 /\ 0 + 1 = 1
      BY Lengths
    <3> QED
      BY <3>1, WordAssumption
  <2>2. WordBits - 1 \in Nat /\ 1 + (WordBits - 1) = WordBits /\ 1 + (WordBits - 1) <= 2 * WordBits
        /\ WordBits - 1 \in 0 .. 2 * WordBits
    BY Lengths
  <2>3. 2 ^ (1 + (WordBits - 1)) = 2 ^ 1 * 2 ^ (WordBits - 1)
    BY <2>2, PowAdd
  <2>4. 2 ^ WordBits = 2 * 2 ^ (WordBits - 1) /\ 2 ^ (WordBits - 1) \in Nat \ {0}
    BY <2>1, <2>2, <2>3, Lengths
  <2> QED
    BY <2>4 DEF Words, M64
<1> QED
  BY <1>1, Lengths DEF Truth, WordAndFlag

\* The quotient and the remainder of Rust are integers.
LEMMA QuotientInt ==
    ASSUME NEW a \in Int, NEW b \in Int, b # 0
    PROVE  Quotient(a, b) \in Int /\ Remainder(a, b) \in Int
<1>1. Quotient(a, b) \in Int
  <2> DEFINE abs(x) == IF x < 0 THEN - x ELSE x
  <2>1. abs(a) \in Nat /\ abs(b) \in Nat \ {0}
    OBVIOUS
  <2>2. abs(a) \div abs(b) \in Int /\ - (abs(a) \div abs(b)) \in Int
    <3> HIDE DEF abs
    <3> QED
      BY <2>1
  <2>3. \/ Quotient(a, b) = abs(a) \div abs(b)
        \/ Quotient(a, b) = - (abs(a) \div abs(b))
    BY DEF Quotient
  <2> QED
    BY <2>2, <2>3
<1> QED
  BY <1>1 DEF Remainder

\* A number that is not zero as unsigned is not zero as signed.
LEMMA SignedZero ==
    ASSUME NEW x \in Int, NEW w \in 1 .. WordBits, U(x, w) # 0
    PROVE  S(x, w) # 0
<1>1. U(x, w) \in 0 .. 2 ^ w - 1
  BY Conversions
<1>2. 2 ^ w \in Nat
  <2>1. w \in 0 .. 2 * WordBits
    BY Lengths
  <2> QED
    BY <2>1, Lengths
<1>3. 2 ^ (w - 1) \in Nat
  <2>1. w - 1 \in 0 .. 2 * WordBits
    BY Lengths
  <2> QED
    BY <2>1, Lengths
<1> QED
  BY <1>1, <1>2, <1>3 DEF S

\* A word as it is, as unsigned and as signed integer.
LEMMA Operand ==
    ASSUME NEW a \in Words
    PROVE  /\ a \in Nat /\ a \in Int /\ U(a, W32) \in Nat
           /\ S(a, WordBits) \in Int /\ S(a, W32) \in Int /\ S(a, W16) \in Int /\ S(a, W8) \in Int
           /\ a # 0 => S(a, WordBits) # 0
           /\ U(a, W32) # 0 => S(a, W32) # 0
<1>1. a \in Nat /\ a \in Int /\ WordBits \in 1 .. WordBits /\ W32 \in 1 .. WordBits
      /\ W16 \in 1 .. WordBits /\ W8 \in 1 .. WordBits
  BY Lengths
<1>2. U(a, WordBits) = a
  BY Lengths DEF Words, M64, U
<1> QED
  BY <1>1, <1>2, Conversions, SignedZero

\* The internal operations.
LEMMA InternalWord ==
    ASSUME NEW op \in InternalOps, NEW a \in Words, NEW b \in Words
    PROVE  InternalOp(op, a, b) \in WordAndFlag
<1>1. Value(b) \in WordAndFlag /\ Value(S(b, W8)) \in WordAndFlag /\ Value(S(b, W16)) \in WordAndFlag
      /\ Value(S(b, W32)) \in WordAndFlag
  BY Operand, ValueWord
<1>2. <<0, TRUE>> \in WordAndFlag
  BY Lengths DEF WordAndFlag
<1> QED
  BY <1>1, <1>2 DEF InternalOp, InternalOps

\* Sums and differences.
LEMMA AddWord ==
    ASSUME NEW op \in AddOps, NEW a \in Words, NEW b \in Words
    PROVE  AddOp(op, a, b) \in WordAndFlag
<1>1. W32 \in 1 .. WordBits
  BY Lengths
<1>2. a \in Int /\ b \in Int /\ U(a, W32) \in Int /\ U(b, W32) \in Int
  BY Operand
<1>3. a + b \in Int /\ a - b \in Int /\ U(a, W32) + U(b, W32) \in Int /\ U(a, W32) - U(b, W32) \in Int
  BY <1>2
<1>4. S(U(a, W32) + U(b, W32), W32) \in Int /\ S(U(a, W32) - U(b, W32), W32) \in Int
  BY <1>1, <1>3, Conversions
<1>5. Value(a + b) \in WordAndFlag /\ Value(a - b) \in WordAndFlag
      /\ Value(S(U(a, W32) + U(b, W32), W32)) \in WordAndFlag
      /\ Value(S(U(a, W32) - U(b, W32), W32)) \in WordAndFlag
  BY <1>3, <1>4, ValueWord
<1> QED
  BY <1>5 DEF AddOp, AddOps

\* Shifts.
LEMMA ShiftWord ==
    ASSUME NEW op \in ShiftOps, NEW a \in Words, NEW b \in Words
    PROVE  ShiftOp(op, a, b) \in WordAndFlag
<1> DEFINE s == 2 ^ (b % WordBits)
           sw == 2 ^ (b % W32)
           u == U(a, W32)
<1>1. W32 \in 1 .. WordBits
  BY Lengths
<1>2. a \in Int /\ b \in Nat /\ u \in Int /\ S(a, WordBits) \in Int /\ S(a, W32) \in Int
  BY Operand
<1>3. s \in Nat \ {0} /\ sw \in Nat \ {0}
  <2>1. b % WordBits \in 0 .. 2 * WordBits /\ b % W32 \in 0 .. 2 * WordBits
    BY <1>1, <1>2, Lengths
  <2> QED
    BY <2>1, Lengths
<1>4. ShiftOp(op, a, b) \in
        {Value(a * s), Value(a \div s), Value(S(a, WordBits) \div s), Value(S(u * sw, W32)),
         Value(S(u \div sw, W32)), Value(S(a, W32) \div sw)}
  BY DEF ShiftOp, ShiftOps
<1> HIDE DEF s, sw, u
<1>5. a * s \in Int /\ a \div s \in Int /\ S(a, WordBits) \div s \in Int /\ u * sw \in Int
      /\ u \div sw \in Int /\ S(a, W32) \div sw \in Int
  BY <1>2, <1>3
<1>6. S(u * sw, W32) \in Int /\ S(u \div sw, W32) \in Int
  BY <1>1, <1>5, Conversions
<1> QED
  BY <1>4, <1>5, <1>6, ValueWord

\* Comparisons.
LEMMA CompareWord ==
    ASSUME NEW op \in CompareOps, NEW a \in Words, NEW b \in Words
    PROVE  CompareOp(op, a, b) \in WordAndFlag
BY TruthWord DEF CompareOp

\* A bit is 0 or 1.
LEMMA BitType ==
    ASSUME NEW a \in Int, NEW k \in 0 .. WordBits
    PROVE  Bit(a, k) \in 0 .. 1
<1>1. k \in 0 .. 2 * WordBits
  BY Lengths
<1>2. 2 ^ k \in Nat \ {0}
  BY <1>1, Lengths
<1>3. a \div 2 ^ k \in Int
  BY <1>2
<1> QED
  BY <1>3 DEF Bit

\* Logic operations.
LEMMA LogicWord ==
    ASSUME NEW op \in LogicOps, NEW a \in Words, NEW b \in Words
    PROVE  LogicOp(op, a, b) \in WordAndFlag
<1> DEFINE f == [k \in 1 .. WordBits |-> LogicBit(op, Bit(a, k - 1), Bit(b, k - 1)) * 2 ^ (k - 1)]
<1>1. ASSUME NEW k \in 1 .. WordBits
      PROVE  LogicBit(op, Bit(a, k - 1), Bit(b, k - 1)) * 2 ^ (k - 1) \in Nat
  <2>1. k - 1 \in 0 .. WordBits /\ k - 1 \in 0 .. 2 * WordBits
    BY Lengths
  <2>2. Bit(a, k - 1) \in 0 .. 1 /\ Bit(b, k - 1) \in 0 .. 1
    BY <2>1, Operand, BitType
  <2>3. ASSUME NEW x \in 0 .. 1, NEW y \in 0 .. 1 PROVE LogicBit(op, x, y) \in Nat
    <3>1. x * y \in 0 .. 1 /\ x + y - x * y \in 0 .. 1 /\ (x + y) % 2 \in 0 .. 1
      <4>1. (x = 0 \/ x = 1) /\ (y = 0 \/ y = 1)
        OBVIOUS
      <4> QED
        BY <4>1
    <3> QED
      BY <3>1 DEF LogicBit, LogicOps
  <2>4. 2 ^ (k - 1) \in Nat
    BY <2>1, Lengths
  <2> QED
    BY <2>2, <2>3, <2>4
<1>2. Terms(f, WordBits)
  BY <1>1 DEF Terms
<1>3. LogicOp(op, a, b) = Value(SumTo(f, WordBits))
  BY DEF LogicOp
<1> HIDE DEF f
<1>4. SumTo(f, WordBits) \in Int
  BY <1>2, Lengths, SumToStep
<1> QED
  BY <1>3, <1>4, ValueWord

\* Products.
LEMMA MulWord ==
    ASSUME NEW op \in MulOps, NEW a \in Words, NEW b \in Words
    PROVE  MulOp(op, a, b) \in WordAndFlag
<1> DEFINE sa == S(a, WordBits)
           sb == S(b, WordBits)
           na == S(a, W32)
           nb == S(b, W32)
           d == 2 ^ WordBits
<1>1. W32 \in 1 .. WordBits /\ d \in Nat \ {0}
  BY Lengths
<1>2. a \in Int /\ b \in Int /\ sa \in Int /\ sb \in Int /\ na \in Int /\ nb \in Int
  BY Operand
<1>4. MulOp(op, a, b) \in
        {Value(a * b), Value(sa * sb), Value((a * b) \div d), Value((sa * sb) \div d),
         Value((sa * b) \div d), Value(S(na * nb, W32))}
  BY DEF MulOp, MulOps
<1> HIDE DEF sa, sb, na, nb, d
<1>5. a * b \in Int /\ sa * sb \in Int /\ sa * b \in Int /\ na * nb \in Int
  BY <1>2
<1>6. (a * b) \div d \in Int /\ (sa * sb) \div d \in Int /\ (sa * b) \div d \in Int
  BY <1>1, <1>5
<1>7. S(na * nb, W32) \in Int
  BY <1>1, <1>5, Conversions
<1> QED
  BY <1>4, <1>5, <1>6, <1>7, ValueWord

\* Quotients.
LEMMA DivWord ==
    ASSUME NEW op \in DivOps, NEW a \in Words, NEW b \in Words
    PROVE  DivOp(op, a, b) \in WordAndFlag
<1> DEFINE sa == S(a, WordBits)
           sb == S(b, WordBits)
           na == S(a, W32)
           nb == S(b, W32)
           ua == U(a, W32)
           ub == U(b, W32)
<1>1. W32 \in 1 .. WordBits
  BY Lengths
<1>2. a \in Nat /\ b \in Nat /\ sa \in Int /\ sb \in Int /\ na \in Int /\ nb \in Int /\ ua \in Nat
      /\ ub \in Nat /\ (b # 0 => sb # 0) /\ (ub # 0 => nb # 0)
  BY Operand
<1>3. <<M64, TRUE>> \in WordAndFlag
  BY Lengths DEF WordAndFlag
<1>4. \/ DivOp(op, a, b) = <<M64, TRUE>>
      \/ b # 0 /\ DivOp(op, a, b) \in {Value(a \div b), Value(Quotient(sa, sb))}
      \/ ub # 0 /\ DivOp(op, a, b) \in {Value(S(ua \div ub, W32)), Value(Quotient(na, nb))}
  BY DEF DivOp, DivOps
<1> HIDE DEF sa, sb, na, nb, ua, ub
<1>5. CASE b # 0 /\ DivOp(op, a, b) \in {Value(a \div b), Value(Quotient(sa, sb))}
  <2>1. a \div b \in Int /\ Quotient(sa, sb) \in Int
    BY <1>2, <1>5, QuotientInt
  <2> QED
    BY <1>5, <2>1, ValueWord
<1>6. CASE ub # 0 /\ DivOp(op, a, b) \in {Value(S(ua \div ub, W32)), Value(Quotient(na, nb))}
  <2>1. ua \div ub \in Int /\ Quotient(na, nb) \in Int
    BY <1>2, <1>6, QuotientInt
  <2>2. S(ua \div ub, W32) \in Int
    BY <1>1, <2>1, Conversions
  <2> QED
    BY <1>6, <2>1, <2>2, ValueWord
<1> QED
  BY <1>3, <1>4, <1>5, <1>6

\* Remainders.
LEMMA RemWord ==
    ASSUME NEW op \in RemOps, NEW a \in Words, NEW b \in Words
    PROVE  RemOp(op, a, b) \in WordAndFlag
<1> DEFINE sa == S(a, WordBits)
           sb == S(b, WordBits)
           na == S(a, W32)
           nb == S(b, W32)
           ua == U(a, W32)
           ub == U(b, W32)
<1>1. W32 \in 1 .. WordBits
  BY Lengths
<1>2. a \in Nat /\ b \in Nat /\ sa \in Int /\ sb \in Int /\ na \in Int /\ nb \in Int /\ ua \in Nat
      /\ ub \in Nat /\ (b # 0 => sb # 0) /\ (ub # 0 => nb # 0)
  BY Operand
<1>3. <<a, TRUE>> \in WordAndFlag /\ <<SignExtended(a, W32), TRUE>> \in WordAndFlag
  <2>1. Value(na) \in WordAndFlag
    BY <1>2, ValueWord
  <2>2. SignExtended(a, W32) \in Words
    BY <2>1 DEF WordAndFlag, Value, SignExtended
  <2> QED
    BY <2>2 DEF WordAndFlag
<1>4. \/ RemOp(op, a, b) \in {<<a, TRUE>>, <<SignExtended(a, W32), TRUE>>}
      \/ b # 0 /\ RemOp(op, a, b) \in {Value(a % b), Value(Remainder(sa, sb))}
      \/ ub # 0 /\ RemOp(op, a, b) \in {Value(S(ua % ub, W32)), Value(Remainder(na, nb))}
  BY DEF RemOp, RemOps
<1> HIDE DEF sa, sb, na, nb, ua, ub
<1>5. CASE b # 0 /\ RemOp(op, a, b) \in {Value(a % b), Value(Remainder(sa, sb))}
  <2>1. a % b \in Int /\ Remainder(sa, sb) \in Int
    BY <1>2, <1>5, QuotientInt
  <2> QED
    BY <1>5, <2>1, ValueWord
<1>6. CASE ub # 0 /\ RemOp(op, a, b) \in {Value(S(ua % ub, W32)), Value(Remainder(na, nb))}
  <2>1. ua % ub \in Int /\ Remainder(na, nb) \in Int
    BY <1>2, <1>6, QuotientInt
  <2>2. S(ua % ub, W32) \in Int
    BY <1>1, <2>1, Conversions
  <2> QED
    BY <1>6, <2>1, <2>2, ValueWord
<1> QED
  BY <1>3, <1>4, <1>5, <1>6

\* Minima and maxima.
LEMMA MinMaxWord ==
    ASSUME NEW op \in MinMaxOps, NEW a \in Words, NEW b \in Words
    PROVE  MinMaxOp(op, a, b) \in WordAndFlag
<1>1. MinMaxOp(op, a, b) \in {Value(a), Value(b), Value(S(a, W32)), Value(S(b, W32))}
  BY DEF MinMaxOp
<1>2. a \in Int /\ b \in Int /\ S(a, W32) \in Int /\ S(b, W32) \in Int
  BY Operand
<1> QED
  BY <1>1, <1>2, ValueWord

\* Every operation that needs nothing but its operands makes a word of two
\* words, whatever the length of a word: neither a division by zero nor the
\* least negative number, a shift or a wide product leaves the range of u64.
THEOREM OperationsReturnWords ==
    ASSUME NEW op \in PlainOps, NEW a \in Words, NEW b \in Words
    PROVE  Execute(op, a, b) \in Words \X BOOLEAN
<1>1. /\ op \in InternalOps => InternalOp(op, a, b) \in WordAndFlag
      /\ op \in AddOps => AddOp(op, a, b) \in WordAndFlag
      /\ op \in ShiftOps => ShiftOp(op, a, b) \in WordAndFlag
      /\ op \in CompareOps => CompareOp(op, a, b) \in WordAndFlag
      /\ op \in LogicOps => LogicOp(op, a, b) \in WordAndFlag
      /\ op \in MulOps => MulOp(op, a, b) \in WordAndFlag
      /\ op \in DivOps => DivOp(op, a, b) \in WordAndFlag
      /\ op \in RemOps => RemOp(op, a, b) \in WordAndFlag
      /\ op \in MinMaxOps => MinMaxOp(op, a, b) \in WordAndFlag
  BY InternalWord, AddWord, ShiftWord, CompareWord, LogicWord, MulWord, DivWord, RemWord, MinMaxWord
<1>2. \/ op \in InternalOps \/ op \in AddOps \/ op \in ShiftOps \/ op \in CompareOps
      \/ op \in LogicOps \/ op \in MulOps \/ op \in DivOps \/ op \in RemOps \/ op \in MinMaxOps
  BY DEF PlainOps
<1> QED
  BY <1>1, <1>2 DEF Execute, WordAndFlag

-----------------------------------------------------------------------------
(* The contexts of a run. *)

\* The cells of the RAM and of the word behind it.
Room == 0 .. MemSize + WordBits - 1

\* The contexts an emulator can have.
Contexts ==
    [pc : Words, a : Words, b : Words, c : Words, flag : BOOLEAN, regs : [Regs -> Words],
     mem : [Room -> 0 .. 1], free : Words, params : Seq(Words), result : Seq(Words),
     got : Nat, step : Nat, end : BOOLEAN]

\* An integer cut to a word is one.
LEMMA WordWord ==
    ASSUME NEW n \in Int
    PROVE  Word(n) \in Words
BY Lengths DEF Word, Words, M64

\* The memory has whole words, and there are words for its addresses.
LEMMA MemFacts ==
    /\ MemSize \in Nat /\ MemSize % WordBits = 0 /\ WordBits \in Nat \ {0}
    /\ MemSize + WordBits <= 2 ^ WordBits
BY Lengths, MinTraceAssumption

\* Narrow numbers are words.
LEMMA NarrowWord ==
    ASSUME NEW w \in 0 .. WordBits, NEW n \in 0 .. 2 ^ w - 1
    PROVE  n \in Words
<1>1. w \in Nat /\ WordBits - w \in Nat /\ w + (WordBits - w) = WordBits /\ WordBits <= 2 * WordBits
      /\ w \in 0 .. 2 * WordBits /\ WordBits - w \in 0 .. 2 * WordBits
  BY Lengths
<1> DEFINE v == WordBits - w
           p == 2 ^ w
           q == 2 ^ v
<1>2. v \in Nat /\ w + v = WordBits /\ w + v <= 2 * WordBits
  BY <1>1
<1>3. 2 ^ (w + v) = p * q
  <2> HIDE DEF v
  <2> QED
    BY <1>1, <1>2, PowAdd
<1>4. p \in Nat \ {0} /\ q \in Nat \ {0}
  BY <1>1, Lengths
<1>5. 2 ^ WordBits = p * q
  BY <1>2, <1>3
<1> HIDE DEF v, p, q
<1>6. 1 * p <= q * p /\ q * p \in Nat
  BY <1>4, TimesUp
<1>7. p <= 2 ^ WordBits
  BY <1>4, <1>5, <1>6
<1> QED
  BY <1>4, <1>7, Lengths DEF Words, M64, p

\* A context can read what fits in its memory.
Fits(addr, width) == addr \in Nat /\ width \in 0 .. WordBits /\ addr + width <= MemSize + WordBits

\* What is mapped fits.
LEMMA MappedFits ==
    ASSUME NEW addr \in Nat, NEW width \in 0 .. WordBits, Mapped(addr, width)
    PROVE  Fits(addr, width)
BY MemFacts DEF Mapped, Fits, FreeAddr

\* The cells of a context hold bits.
LEMMA CellsFit ==
    ASSUME NEW mem \in [Room -> 0 .. 1], NEW addr \in Nat, NEW n \in Nat,
           addr + n <= MemSize + WordBits
    PROVE  Cells(mem, addr, n)
BY MemFacts DEF Cells, Room

\* What a context reads is a word.
LEMMA BitsWord ==
    ASSUME NEW mem \in [Room -> 0 .. 1], NEW addr, NEW width, Fits(addr, width)
    PROVE  Bits(mem, addr, width) \in Words
<1>1. addr \in Nat /\ width \in Nat /\ width \in 0 .. WordBits /\ width \in 0 .. 2 * WordBits
      /\ addr + width <= MemSize + WordBits
  BY Lengths DEF Fits
<1>2. Cells(mem, addr, width)
  BY <1>1, CellsFit
<1>3. Bits(mem, addr, width) \in 0 .. 2 ^ width - 1
  BY <1>1, <1>2, BitsRange
<1> QED
  BY <1>1, <1>3, NarrowWord

\* So is what Mem::read returns, from the RAM or the free input.
LEMMA ReadWord ==
    ASSUME NEW x \in Contexts, NEW addr, NEW width, Fits(addr, width)
    PROVE  Read(x, addr, width) \in Words
<1>1. x.free \in Words /\ x.mem \in [Room -> 0 .. 1]
  BY DEF Contexts
<1> QED
  BY <1>1, BitsWord DEF Read

\* The bits of a number.
LEMMA BitOf ==
    ASSUME NEW val \in Int, NEW k \in 0 .. WordBits
    PROVE  (val \div 2 ^ k) % 2 \in 0 .. 1
BY BitType DEF Bit

\* Writing keeps the memory a memory.
LEMMA WriteType ==
    ASSUME NEW mem \in [Room -> 0 .. 1], NEW addr \in Nat, NEW val \in Int, NEW width \in 0 .. WordBits
    PROVE  Write(mem, addr, val, width) \in [Room -> 0 .. 1]
<1>1. ASSUME NEW c \in Room
      PROVE  (IF c \in addr .. addr + width - 1 THEN (val \div 2 ^ (c - addr)) % 2 ELSE mem[c]) \in 0 .. 1
  <2>1. CASE c \in addr .. addr + width - 1
    <3>1. c - addr \in 0 .. WordBits
      BY <2>1, MemFacts DEF Room
    <3> QED
      BY <2>1, <3>1, BitOf
  <2>2. CASE c \notin addr .. addr + width - 1
    BY <2>2
  <2> QED
    BY <2>1, <2>2
<1> QED
  BY <1>1 DEF Write

\* A bounded set of numbers has a greatest one.
LEMMA Greatest ==
    ASSUME NEW T \in SUBSET Nat, T # {}, NEW m \in Nat, \A n \in T : n <= m
    PROVE  \E x \in T : \A y \in T : y <= x
<1> DEFINE R == {n \in Nat : \E y \in T : n = m - y}
<1>1. R \in SUBSET Nat /\ R # {}
  <2>1. PICK t \in T : t <= m
    OBVIOUS
  <2>2. m - t \in R
    BY <2>1
  <2> QED
    BY <2>2
<1>2. PICK z \in R : \A y \in R : z <= y
  BY <1>1, Least
<1>3. PICK x \in T : z = m - x
  OBVIOUS
<1>4. ASSUME NEW y \in T PROVE y <= x
  <2>1. m - y \in R
    OBVIOUS
  <2>2. z <= m - y
    BY <1>2, <2>1
  <2> QED
    BY <1>3, <2>2
<1> QED
  BY <1>4

\* So does writing several words.
LEMMA WriteAllType ==
    ASSUME NEW mem \in [Room -> 0 .. 1], NEW l \in Nat, NEW out, DOMAIN out = 1 .. l,
           \A n \in 1 .. l : out[n][1] \in Nat /\ out[n][2] \in Int
    PROVE  WriteAll(mem, out) \in [Room -> 0 .. 1]
<1> DEFINE over(c) == {n \in DOMAIN out : c \in out[n][1] .. out[n][1] + WordBits - 1}
           last(c) == CHOOSE n \in over(c) : \A m \in over(c) : m <= n
           cell(c) == IF over(c) = {} THEN mem[c] ELSE (out[last(c)][2] \div 2 ^ (c - out[last(c)][1])) % 2
<1>1. ASSUME NEW c \in Room PROVE cell(c) \in 0 .. 1
  <2>1. CASE over(c) = {}
    BY <2>1
  <2>2. CASE over(c) # {}
    <3>1. over(c) \in SUBSET Nat /\ \A n \in over(c) : n <= l
      OBVIOUS
    <3>2. \E n \in over(c) : \A m \in over(c) : m <= n
      <4> HIDE DEF over
      <4> QED
        BY <2>2, <3>1, Greatest
    <3>3. last(c) \in over(c)
      <4> HIDE DEF over
      <4> QED
        BY <3>2
    <3> DEFINE z == last(c)
    <3>4. z \in over(c)
      BY <3>3
    <3> HIDE DEF last
    <3>5. z \in 1 .. l /\ c \in out[z][1] .. out[z][1] + WordBits - 1
      BY <3>4
    <3>6. out[z][1] \in Nat /\ out[z][2] \in Int
      BY <3>5
    <3>7. c - out[z][1] \in 0 .. WordBits
      BY <3>5, <3>6, MemFacts DEF Room
    <3>8. (out[z][2] \div 2 ^ (c - out[z][1])) % 2 \in 0 .. 1
      BY <3>6, <3>7, BitOf
    <3> QED
      BY <2>2, <3>8
  <2> QED
    BY <2>1, <2>2
<1>2. WriteAll(mem, out) = [c \in Room |-> cell(c)]
  BY DEF WriteAll
<1> HIDE DEF cell
<1> QED
  BY <1>1, <1>2

\* The part of IsInst that contexts need.
LEMMA InstFacts ==
    ASSUME NEW i, IsInst(i)
    PROVE  /\ i.a \in Nat /\ i.b \in Int /\ i.to \in Int /\ i.jmp1 \in Int /\ i.jmp2 \in Int
           /\ i.end \in BOOLEAN /\ i.width \in 1 .. WordBits
           /\ i.aSrc \in {"c", "reg", "imm", "step", "mem"}
           /\ i.bSrc \in {"c", "reg", "imm", "mem", "ind"}
           /\ i.store \in {"none", "reg", "mem", "ind"}
           /\ i.op \in PlainOps \/ i.op \in Precompiles \/ i.op \in {"fcall_param", "fcall", "fcall_get"}
           /\ WidthB(i) \in 1 .. WordBits /\ WidthStore(i) \in 1 .. WordBits
           /\ WidthB(i) \in 0 .. WordBits /\ WidthStore(i) \in 0 .. WordBits
           /\ i.aSrc = "imm" => i.a \in Words
           /\ i.bSrc = "imm" => i.b \in Words
           /\ i.aSrc = "reg" => i.a \in Regs
           /\ i.bSrc = "reg" => i.b \in Regs
           /\ i.store = "reg" => i.to \in Regs
           /\ i.bSrc = "mem" => i.b \in Nat
           /\ i.store = "mem" => i.to \in Nat
<1>1. /\ i.a \in Nat /\ i.b \in Int /\ i.to \in Int /\ i.jmp1 \in Int /\ i.jmp2 \in Int
      /\ i.end \in BOOLEAN /\ i.width \in 1 .. WordBits
  BY DEF IsInst
<1>2. /\ i.aSrc \in {"c", "reg", "imm", "step", "mem"}
      /\ i.bSrc \in {"c", "reg", "imm", "mem", "ind"}
      /\ i.store \in {"none", "reg", "mem", "ind"}
  BY DEF IsInst
<1>3. i.op \in PlainOps \/ i.op \in Precompiles \/ i.op \in {"fcall_param", "fcall", "fcall_get"}
  BY DEF IsInst
<1>4. /\ WidthB(i) \in 1 .. WordBits /\ WidthStore(i) \in 1 .. WordBits
      /\ WidthB(i) \in 0 .. WordBits /\ WidthStore(i) \in 0 .. WordBits
  BY <1>1, Lengths DEF WidthB, WidthStore
<1>5. /\ i.aSrc = "imm" => i.a \in Words
      /\ i.bSrc = "imm" => i.b \in Words
      /\ i.aSrc = "reg" => i.a \in Regs
      /\ i.bSrc = "reg" => i.b \in Regs
      /\ i.store = "reg" => i.to \in Regs
      /\ i.bSrc = "mem" => i.b \in Nat
      /\ i.store = "mem" => i.to \in Nat
  BY DEF IsInst
<1> QED
  BY <1>1, <1>2, <1>3, <1>4, <1>5

\* Source a, when it does not panic.
LEMMA TypeA ==
    ASSUME NEW x \in Contexts, NEW i, IsInst(i), FromMem(i.aSrc) => Mapped(i.a, WordBits)
    PROVE  /\ WithA(x, i) \in Contexts
           /\ FromMem(i.aSrc) => Fits(i.a, WordBits)
<1>1. FromMem(i.aSrc) => Fits(i.a, WordBits)
  BY InstFacts, MappedFits, Lengths
<1>2. FromMem(i.aSrc) => Read(x, i.a, WordBits) \in Words
  BY <1>1, ReadWord
<1>3. ~FromMem(i.aSrc) => PlainA(x, i) \in Words
  <2>1. x.c \in Words /\ x.regs \in [Regs -> Words] /\ x.step \in Int
    BY DEF Contexts
  <2>2. Word(x.step) \in Words
    BY <2>1, WordWord
  <2> QED
    BY <2>1, <2>2, InstFacts DEF PlainA, FromMem
<1> DEFINE v == IF FromMem(i.aSrc) THEN Read(x, i.a, WordBits) ELSE PlainA(x, i)
<1>4. v \in Words /\ WithA(x, i) = [x EXCEPT !.a = v]
  BY <1>2, <1>3 DEF WithA
<1> HIDE DEF v
<1>5. WithA(x, i) \in Contexts
  BY <1>4 DEF Contexts
<1> QED
  BY <1>1, <1>5

\* The address of source b.
LEMMA TypeAddr ==
    ASSUME NEW x, x.a \in Words, NEW i, IsInst(i)
    PROVE  /\ FromMem(i.bSrc) => AddrB(x, i) \in Nat
           /\ FromMem(i.store) => AddrStore(x, i) \in Nat
<1>1. x.a + i.b \in Int /\ x.a + i.to \in Int
  <2>1. x.a \in Nat
    BY Lengths
  <2>2. i.b \in Int /\ i.to \in Int
    BY InstFacts
  <2> QED
    BY <2>1, <2>2
<1>2. Word(x.a + i.b) \in Nat /\ Word(x.a + i.to) \in Nat
  BY <1>1, WordWord, Lengths
<1> QED
  BY <1>2, InstFacts DEF AddrB, AddrStore, FromMem

\* Source b, when it does not panic.
LEMMA TypeB ==
    ASSUME NEW x \in Contexts, NEW i, IsInst(i),
           FromMem(i.bSrc) => Mapped(AddrB(x, i), WidthB(i))
    PROVE  /\ WithB(x, i) \in Contexts
           /\ FromMem(i.bSrc) => Fits(AddrB(x, i), WidthB(i))
<1>0. x.a \in Words
  BY DEF Contexts
<1>1. FromMem(i.bSrc) => Fits(AddrB(x, i), WidthB(i))
  BY <1>0, InstFacts, MappedFits, TypeAddr
<1>2. FromMem(i.bSrc) => Read(x, AddrB(x, i), WidthB(i)) \in Words
  BY <1>1, ReadWord
<1>3. ~FromMem(i.bSrc) => PlainB(x, i) \in Words
  <2>1. x.c \in Words /\ x.regs \in [Regs -> Words]
    BY DEF Contexts
  <2> QED
    BY <2>1, InstFacts DEF PlainB, FromMem
<1> DEFINE v == IF FromMem(i.bSrc) THEN Read(x, AddrB(x, i), WidthB(i)) ELSE PlainB(x, i)
<1>4. v \in Words /\ WithB(x, i) = [x EXCEPT !.b = v]
  BY <1>2, <1>3 DEF WithB
<1> HIDE DEF v
<1>5. WithB(x, i) \in Contexts
  BY <1>4 DEF Contexts
<1> QED
  BY <1>1, <1>5

\* The operations with an input in memory are not plain.
LEMMA OpsApart ==
    /\ \A op \in Precompiles : op \notin PlainOps /\ op \notin {"fcall_param", "fcall", "fcall_get"}
    /\ \A op \in {"fcall_param", "fcall", "fcall_get"} : op \notin PlainOps
BY DEF Precompiles, PlainOps, InternalOps, AddOps, ShiftOps, CompareOps, LogicOps, MulOps, DivOps,
       RemOps, MinMaxOps

\* The result of the operation.
LEMMA TypeResult ==
    ASSUME NEW x, x.a \in Words, x.b \in Words, NEW i, IsInst(i)
    PROVE  Result(x, i).c \in Words /\ Result(x, i).flag \in BOOLEAN
<1>1. CASE i.op \in Precompiles
  <2>1. Result(x, i) = [c |-> 0, flag |-> FALSE]
    BY <1>1, OpsApart DEF Result
  <2> QED
    BY <2>1, Lengths
<1>2. CASE i.op \notin Precompiles /\ i.op \in PlainOps
  <2>1. Execute(i.op, x.a, x.b) \in Words \X BOOLEAN
    BY <1>2, OperationsReturnWords
  <2> DEFINE e == Execute(i.op, x.a, x.b)
  <2>2. Result(x, i) = [c |-> e[1], flag |-> e[2]]
    BY <1>2 DEF Result
  <2> HIDE DEF e
  <2>3. e[1] \in Words /\ e[2] \in BOOLEAN
    BY <2>1 DEF e
  <2> QED
    BY <2>2, <2>3
<1>3. CASE i.op \notin Precompiles /\ i.op \notin PlainOps
  BY <1>3 DEF Result
<1> QED
  BY <1>1, <1>2, <1>3

\* How many words of what a precompile reads.
LEMMA Shapes ==
    ASSUME NEW i
    PROVE  /\ Indirections(i.op) \in Nat /\ Chunks(i.op) \in Nat \ {0} /\ InputWords(i) \in Nat
           /\ i.op \notin Precompiles => InputWords(i) = 0 /\ Indirections(i.op) = 0
           /\ \A k \in Indirections(i.op) + 1 .. InputWords(i) :
                /\ (k - Indirections(i.op) - 1) \div Chunks(i.op) \in Nat
                /\ (k - Indirections(i.op) - 1) % Chunks(i.op) \in Nat
                /\ Indirections(i.op) # 0 =>
                        (k - Indirections(i.op) - 1) \div Chunks(i.op) < Indirections(i.op)
<1>1. CASE i.op \in {"keccak", "secp256k1_dbl"}
  <2>1. Indirections(i.op) = 0 /\ Loads(i.op) = 1 /\ Chunks(i.op) = 2
    BY <1>1 DEF Indirections, Loads, Chunks
  <2> QED
    BY <1>1, <2>1 DEF InputWords, Precompiles
<1>2. CASE i.op = "sha256"
  <2>1. Indirections(i.op) = 0 /\ Loads(i.op) = 1 /\ Chunks(i.op) = 3
    BY <1>2 DEF Indirections, Loads, Chunks
  <2> QED
    BY <1>2, <2>1 DEF InputWords, Precompiles
<1>3. CASE i.op = "arith256"
  <2>1. Indirections(i.op) = 5 /\ Loads(i.op) = 3 /\ Chunks(i.op) = 1
    BY <1>3 DEF Indirections, Loads, Chunks
  <2> QED
    BY <1>3, <2>1 DEF InputWords, Precompiles
<1>4. CASE i.op = "arith256_mod"
  <2>1. Indirections(i.op) = 5 /\ Loads(i.op) = 4 /\ Chunks(i.op) = 1
    BY <1>4 DEF Indirections, Loads, Chunks
  <2> QED
    BY <1>4, <2>1 DEF InputWords, Precompiles
<1>5. CASE i.op = "secp256k1_add"
  <2>1. Indirections(i.op) = 2 /\ Loads(i.op) = 2 /\ Chunks(i.op) = 2
    BY <1>5 DEF Indirections, Loads, Chunks
  <2> QED
    BY <1>5, <2>1 DEF InputWords, Precompiles
<1>6. CASE i.op \notin Precompiles
  <2>1. Indirections(i.op) = 0 /\ Loads(i.op) = 0 /\ Chunks(i.op) = 2
    BY <1>6 DEF Indirections, Loads, Chunks, Precompiles
  <2> QED
    BY <1>6, <2>1 DEF InputWords
<1> QED
  BY <1>1, <1>2, <1>3, <1>4, <1>5, <1>6 DEF Precompiles

\* The words of an input that begins at an address.
LEMMA WordsOf ==
    ASSUME NEW addr \in Nat, NEW n \in Nat, NEW k \in Nat, k < n, Mapped(addr, n * WordBits)
    PROVE  Fits(addr + k * WordBits, WordBits)
<1>1. WordBits \in Nat /\ WordBits \in 0 .. WordBits /\ k + 1 \in Nat /\ k + 1 <= n
  BY Lengths
<1>2. (k + 1) * WordBits <= n * WordBits /\ n * WordBits \in Nat
  BY <1>1, TimesUp
<1>3. (k + 1) * WordBits = k * WordBits + WordBits /\ k * WordBits \in Nat
  BY <1>1
<1>4. addr + n * WordBits <= MemSize + WordBits
  BY <1>1, <1>2, MemFacts DEF Mapped, FreeAddr
<1>5. addr + k * WordBits \in Nat
  BY <1>3
<1>6. (addr + k * WordBits) + WordBits <= MemSize + WordBits
  BY <1>1, <1>2, <1>3, <1>4, MemFacts
<1> QED
  BY <1>1, <1>5, <1>6 DEF Fits

\* The addresses of the input of a precompile that does not panic.
LEMMA InputFits ==
    ASSUME NEW x \in Contexts, NEW i, IsInst(i), ~OpPanics(x, i), NEW k \in 1 .. InputWords(i)
    PROVE  Fits(InputAddrs(x, i)[k], WordBits)
<1> DEFINE ind == Indirections(i.op)
           chunks == Chunks(i.op)
           words == InputWords(i)
           m == k - ind - 1
           q == m \div chunks
           r == m % chunks
           param(n) == IF ind = 0 THEN x.b + n * chunks ELSE Read(x, x.b + n * WordBits, WordBits)
<1>0. WordBits \in Nat /\ WordBits \in 0 .. WordBits /\ x.b \in Nat /\ k \in Nat
  <2>1. x.b \in Words
    BY DEF Contexts
  <2>2. x.b \in Nat
    BY <2>1, Lengths
  <2>3. k \in Nat
    BY Shapes
  <2> QED
    BY <2>2, <2>3, Lengths
<1>1. i.op \in Precompiles
  BY Shapes
<1>2. Mapped(x.b, ind * WordBits) /\ Mapped(InputAddrs(x, i)[k], WordBits)
  BY <1>1 DEF OpPanics
<1>3. InputAddrs(x, i)[k] = IF k <= ind THEN x.b + (k - 1) * WordBits ELSE param(q) + r * WordBits
  BY DEF InputAddrs
<1>4. ind \in Nat /\ chunks \in Nat \ {0} /\ words \in Nat
  BY Shapes
<1>5. k > ind => q \in Nat /\ r \in Nat /\ (ind # 0 => q < ind)
  <2>1. k > ind => k \in ind + 1 .. words
    BY <1>0, <1>4
  <2> QED
    BY <2>1, Shapes
<1>6. CASE k <= ind
  <2>1. x.b + (k - 1) * WordBits \in Nat
    BY <1>0
  <2> QED
    BY <1>0, <1>2, <1>3, <1>6, <2>1, MappedFits
<1>7. CASE k > ind
  <2>0. q \in Nat /\ r \in Nat /\ (ind # 0 => q < ind)
    BY <1>5, <1>7
  <2>1. param(q) \in Nat
    <3>1. CASE ind = 0
      <4> HIDE DEF q, chunks
      <4> QED
        BY <1>0, <1>4, <2>0, <3>1
    <3>2. CASE ind # 0
      <4> HIDE DEF q, ind
      <4>1. Fits(x.b + q * WordBits, WordBits)
        BY <1>0, <1>2, <1>4, <2>0, <3>2, WordsOf
      <4>2. Read(x, x.b + q * WordBits, WordBits) \in Nat
        BY <4>1, ReadWord, Lengths
      <4> QED
        BY <3>2, <4>2
    <3> QED
      BY <3>1, <3>2
  <2> HIDE DEF param, q, r
  <2>2. param(q) + r * WordBits \in Nat
    BY <1>0, <2>0, <2>1
  <2>3. InputAddrs(x, i)[k] = param(q) + r * WordBits
    BY <1>0, <1>3, <1>4, <1>7
  <2> QED
    BY <1>0, <1>2, <2>2, <2>3, MappedFits
<1> QED
  BY <1>0, <1>4, <1>6, <1>7

\* The input of a precompile that does not panic.
LEMMA InputType ==
    ASSUME NEW x \in Contexts, NEW i, IsInst(i), ~OpPanics(x, i)
    PROVE  /\ Input(x, i) \in Seq(Words) /\ Len(Input(x, i)) = InputWords(i)
           /\ Input(x, i) \in [1 .. InputWords(i) -> Words]
           /\ \A k \in 1 .. InputWords(i) : Input(x, i)[k] = Read(x, InputAddrs(x, i)[k], WordBits)
<1> DEFINE l == InputWords(i)
<1>1. l \in Nat
  BY Shapes
<1>2. ASSUME NEW k \in 1 .. l PROVE Read(x, InputAddrs(x, i)[k], WordBits) \in Words
  BY InputFits, ReadWord
<1>3. Input(x, i) = [k \in 1 .. l |-> Read(x, InputAddrs(x, i)[k], WordBits)]
  BY DEF Input
<1> HIDE DEF l
<1> QED
  BY <1>1, <1>2, <1>3 DEF l

\* The words of the result of a precompile.
LEMMA ComputeType ==
    ASSUME NEW op \in Precompiles, NEW params \in Seq(Words), op = "sha256" => Len(params) = 3
    PROVE  \E l \in 1 .. 3 :
              /\ Compute(op, params) \in [1 .. l -> Words] /\ Len(Compute(op, params)) = l
              /\ op = "arith256_mod" => l = 1
              /\ op \notin {"arith256_mod", "sha256"} => l = 2
<1> DEFINE f == [k \in DOMAIN params |-> params[k] * k]
           mix(n) == Word(SumTo(f, Len(params)) + n)
           l == CASE op = "arith256_mod" -> 1 [] op = "sha256" -> 3 [] OTHER -> 2
<1>1. Len(params) \in Nat /\ DOMAIN params = 1 .. Len(params) /\ \A k \in 1 .. Len(params) : params[k] \in Words
  OBVIOUS
<1>2. Terms(f, Len(params))
  <2> SUFFICES ASSUME NEW k \in 1 .. Len(params) PROVE params[k] * k \in Nat
    BY <1>1 DEF Terms
  <2>1. params[k] \in Nat /\ k \in Nat
    <3>1. params[k] \in Words
      BY <1>1
    <3>2. params[k] \in Nat
      BY <3>1, Lengths
    <3>3. k \in Nat
      BY <1>1
    <3> QED
      BY <3>2, <3>3
  <2> QED
    BY <2>1
<1>3. SumTo(f, Len(params)) \in Nat
  <2> HIDE DEF f
  <2> QED
    BY <1>1, <1>2, SumToStep
<1>4. ASSUME NEW n \in Nat PROVE mix(n) \in Words
  <2> HIDE DEF f
  <2>1. SumTo(f, Len(params)) + n \in Int
    BY <1>3
  <2> QED
    BY <2>1, WordWord
<1>5. /\ l \in 1 .. 3 /\ (op = "arith256_mod" => l = 1) /\ (op = "sha256" => l = 3)
      /\ (op \notin {"arith256_mod", "sha256"} => l = 2)
  OBVIOUS
<1>6. Compute(op, params) = [n \in 1 .. l |-> IF op = "sha256" /\ n > 1 THEN params[n] ELSE mix(n)]
  BY DEF Compute
<1> HIDE DEF l, mix
<1>7. ASSUME NEW n \in 1 .. l PROVE (IF op = "sha256" /\ n > 1 THEN params[n] ELSE mix(n)) \in Words
  <2>1. n \in Nat /\ (op = "sha256" => n \in 1 .. Len(params))
    <3>1. n \in Nat /\ n <= l
      BY <1>5
    <3>2. op = "sha256" => l = 3 /\ Len(params) = 3
      BY <1>5
    <3> QED
      BY <1>1, <3>1, <3>2
  <2> QED
    BY <1>1, <1>4, <2>1
<1>8. Compute(op, params) \in [1 .. l -> Words] /\ Len(Compute(op, params)) = l
  <2>1. Compute(op, params) \in [1 .. l -> Words]
    BY <1>6, <1>7
  <2> QED
    BY <1>5, <2>1
<1> QED
  BY <1>5, <1>8

\* What a precompile that does not panic writes.
LEMMA OutputsType ==
    ASSUME NEW x \in Contexts, NEW i, IsInst(i), ~OpPanics(x, i), i.op \in Precompiles
    PROVE  \E l \in Nat : /\ DOMAIN Outputs(x, i) = 1 .. l
                          /\ \A n \in 1 .. l : Outputs(x, i)[n][1] \in Nat /\ Outputs(x, i)[n][2] \in Int
<1> DEFINE data == Input(x, i)
           ind == Indirections(i.op)
           params == SubSeq(data, ind + 1, Len(data))
           out == Compute(i.op, params)
<1>1. data \in Seq(Words) /\ Len(data) = InputWords(i) /\ data \in [1 .. InputWords(i) -> Words]
  BY InputType
<1>2. ind \in Nat /\ InputWords(i) \in Nat
  BY Shapes
<1>3. /\ i.op = "sha256" => ind = 0 /\ InputWords(i) = 3
      /\ i.op = "arith256" => InputWords(i) = 8
      /\ i.op = "arith256_mod" => InputWords(i) = 9
      /\ i.op = "secp256k1_add" => InputWords(i) = 6
  <2>1. i.op = "sha256" => ind = 0 /\ Loads(i.op) = 1 /\ Chunks(i.op) = 3
    BY DEF Indirections, Loads, Chunks
  <2>2. i.op = "arith256" => ind = 5 /\ Loads(i.op) = 3 /\ Chunks(i.op) = 1
    BY DEF Indirections, Loads, Chunks
  <2>3. i.op = "arith256_mod" => ind = 5 /\ Loads(i.op) = 4 /\ Chunks(i.op) = 1
    BY DEF Indirections, Loads, Chunks
  <2>4. i.op = "secp256k1_add" => ind = 2 /\ Loads(i.op) = 2 /\ Chunks(i.op) = 2
    BY DEF Indirections, Loads, Chunks
  <2> QED
    BY <2>1, <2>2, <2>3, <2>4 DEF InputWords
<1>4. params \in Seq(Words) /\ (i.op = "sha256" => Len(params) = 3)
  <2> HIDE DEF data, ind
  <2> QED
    BY <1>1, <1>2, <1>3
<1>5. PICK l \in 1 .. 3 :
              /\ out \in [1 .. l -> Words] /\ Len(out) = l
              /\ i.op = "arith256_mod" => l = 1
              /\ i.op \notin {"arith256_mod", "sha256"} => l = 2
  <2> HIDE DEF params
  <2> QED
    BY <1>4, ComputeType
<1>6. Outputs(x, i) = [n \in 1 .. Len(out) |-> <<OutputAddr(i.op, x.b, data, n), out[n]>>]
  BY DEF Outputs
<1> HIDE DEF out, data
<1>7. ASSUME NEW n \in 1 .. l
      PROVE  OutputAddr(i.op, x.b, data, n) \in Nat /\ out[n] \in Int
  <2>1. out[n] \in Int
    <3>1. out[n] \in Words
      BY <1>5
    <3>2. out[n] \in Nat
      BY <3>1, Lengths
    <3> QED
      BY <3>2
  <2>2. \A k \in 1 .. InputWords(i) : data[k] \in Nat
    BY <1>1, Lengths
  <2>3. x.b \in Nat
    <3>1. x.b \in Words
      BY DEF Contexts
    <3> QED
      BY <3>1, Lengths
  <2>4. (n - 1) * WordBits \in Nat
    BY Lengths
  <2>5. CASE i.op = "arith256"
    <3>1. 3 + n \in 1 .. InputWords(i)
      BY <1>3, <1>5, <2>5
    <3> QED
      BY <2>1, <2>2, <2>5, <3>1 DEF OutputAddr
  <2>6. CASE i.op = "arith256_mod"
    <3>1. 5 \in 1 .. InputWords(i)
      BY <1>3, <2>6
    <3> QED
      BY <2>1, <2>2, <2>6, <3>1 DEF OutputAddr
  <2>7. CASE i.op = "secp256k1_add"
    <3>1. 1 \in 1 .. InputWords(i)
      BY <1>3, <2>7
    <3> QED
      BY <2>1, <2>2, <2>4, <2>7, <3>1 DEF OutputAddr
  <2>8. CASE i.op \notin {"arith256", "arith256_mod", "secp256k1_add"}
    BY <2>1, <2>3, <2>4, <2>8 DEF OutputAddr
  <2> QED
    BY <2>5, <2>6, <2>7, <2>8
<1>8. /\ DOMAIN Outputs(x, i) = 1 .. l
      /\ \A n \in 1 .. l : Outputs(x, i)[n] = <<OutputAddr(i.op, x.b, data, n), out[n]>>
  BY <1>5, <1>6
<1>9. \A n \in 1 .. l : Outputs(x, i)[n][1] \in Nat /\ Outputs(x, i)[n][2] \in Int
  BY <1>7, <1>8
<1> QED
  BY <1>5, <1>8, <1>9

\* The words that fcall_param appends.
LEMMA FcallWordsType ==
    ASSUME NEW x \in Contexts, x.a > 1 => Mapped(x.b, x.a * WordBits)
    PROVE  FcallWords(x) \in Seq(Words)
<1>1. x.a \in Words /\ x.b \in Words
  BY DEF Contexts
<1>2. x.a \in Nat /\ x.b \in Nat
  BY <1>1, Lengths
<1>3. CASE x.a = 1
  BY <1>1, <1>3 DEF FcallWords
<1>4. CASE x.a # 1
  <2> DEFINE l == x.a
             f(k) == Read(x, x.b + (k - 1) * WordBits, WordBits)
  <2>1. ASSUME NEW k \in 1 .. l PROVE f(k) \in Words
    <3>1. k - 1 \in Nat /\ k - 1 < l /\ l \in Nat /\ l > 1
      BY <1>2, <1>4
    <3>2. Fits(x.b + (k - 1) * WordBits, WordBits)
      <4> DEFINE j == k - 1
      <4>1. j \in Nat /\ j < l /\ Mapped(x.b, l * WordBits)
        BY <3>1
      <4> HIDE DEF j, l
      <4>2. Fits(x.b + j * WordBits, WordBits)
        BY <1>2, <3>1, <4>1, WordsOf
      <4> QED
        BY <4>2 DEF j
    <3> QED
      BY <3>2, ReadWord
  <2>2. FcallWords(x) = [k \in 1 .. l |-> f(k)] /\ l \in Nat
    BY <1>2, <1>4 DEF FcallWords
  <2> HIDE DEF f, l
  <2> QED
    BY <2>1, <2>2
<1> QED
  BY <1>3, <1>4

\* What fcall_proxy returns.
LEMMA FcallProxyType ==
    ASSUME NEW params \in Seq(Words)
    PROVE  FcallProxy(params) \in Seq(Words) /\ FcallProxy(params)[1] \in Words
<1>1. Len(params) \in Nat /\ \A k \in 1 .. Len(params) : params[k] \in Words
  OBVIOUS
<1>2. Terms(params, Len(params))
  BY <1>1, Lengths DEF Terms
<1>3. SumTo(params, Len(params)) \in Nat
  BY <1>1, <1>2, SumToStep
<1>4. Word(SumTo(params, Len(params)) + 1) \in Words /\ Word(Len(params)) \in Words
  BY <1>1, <1>3, WordWord
<1> QED
  BY <1>4 DEF FcallProxy

\* What an operation does besides its result.
LEMMA TypeEffect ==
    ASSUME NEW x \in Contexts, NEW i, IsInst(i), ~OpPanics(x, i)
    PROVE  Effect(x, i) \in Contexts
<1>0. /\ x.a \in Words /\ x.params \in Seq(Words) /\ x.result \in Seq(Words) /\ x.got \in Nat
      /\ x.mem \in [Room -> 0 .. 1]
  BY DEF Contexts
<1>1. CASE i.op \in Precompiles
  <2>1. PICK l \in Nat : /\ DOMAIN Outputs(x, i) = 1 .. l
                         /\ \A n \in 1 .. l : Outputs(x, i)[n][1] \in Nat /\ Outputs(x, i)[n][2] \in Int
    BY <1>1, OutputsType
  <2> DEFINE m == WriteAll(x.mem, Outputs(x, i))
  <2>2. m \in [Room -> 0 .. 1]
    BY <1>0, <2>1, WriteAllType
  <2>3. Effect(x, i) = [x EXCEPT !.mem = m]
    BY <1>1, OpsApart DEF Effect
  <2> HIDE DEF m
  <2> QED
    BY <2>2, <2>3 DEF Contexts
<1>2. CASE i.op = "fcall_param"
  <2>1. x.a > 1 => Mapped(x.b, x.a * WordBits)
    BY <1>2 DEF OpPanics
  <2> DEFINE p == x.params \o FcallWords(x)
  <2>2. p \in Seq(Words)
    BY <1>0, <2>1, FcallWordsType
  <2>3. Effect(x, i) = [x EXCEPT !.params = p]
    BY <1>2 DEF Effect, Precompiles
  <2> HIDE DEF p
  <2> QED
    BY <2>2, <2>3 DEF Contexts
<1>3. CASE i.op = "fcall"
  <2> DEFINE p == FcallProxy(x.params)
  <2>1. p \in Seq(Words) /\ p[1] \in Words
    BY <1>0, FcallProxyType
  <2>2. Effect(x, i) = [x EXCEPT !.free = p[1], !.result = p, !.got = 1, !.params = <<>>]
    BY <1>3 DEF Effect, Precompiles
  <2> HIDE DEF p
  <2>3. <<>> \in Seq(Words) /\ 1 \in Nat
    OBVIOUS
  <2> QED
    BY <2>1, <2>2, <2>3 DEF Contexts
<1>4. CASE i.op = "fcall_get"
  <2> DEFINE v == IF x.got >= Len(x.result) THEN 0 ELSE x.result[x.got + 1]
             g == x.got + 1
  <2>1. v \in Words /\ g \in Nat
    <3>1. CASE x.got >= Len(x.result)
      BY <1>0, <3>1, Lengths
    <3>2. CASE ~(x.got >= Len(x.result))
      BY <1>0, <3>2
    <3> QED
      BY <3>1, <3>2
  <2>2. Effect(x, i) = [x EXCEPT !.free = v, !.got = g]
    BY <1>4 DEF Effect, Precompiles
  <2> HIDE DEF v, g
  <2> QED
    BY <2>1, <2>2 DEF Contexts
<1>5. CASE i.op \notin Precompiles /\ i.op \notin {"fcall_param", "fcall", "fcall_get"}
  BY <1>5 DEF Effect
<1> QED
  BY <1>1, <1>2, <1>3, <1>4, <1>5

\* The operation, when it does not panic.
LEMMA TypeC ==
    ASSUME NEW x \in Contexts, NEW i, IsInst(i), ~OpPanics(x, i)
    PROVE  WithC(x, i) \in Contexts
<1>1. x.a \in Words /\ x.b \in Words
  BY DEF Contexts
<1> DEFINE r == Result(x, i)
           e == Effect(x, i)
<1>2. r.c \in Words /\ r.flag \in BOOLEAN
  BY <1>1, TypeResult
<1>3. e \in Contexts
  BY TypeEffect
<1>4. WithC(x, i) = [e EXCEPT !.c = r.c, !.flag = r.flag]
  BY DEF WithC
<1> HIDE DEF r, e
<1> QED
  BY <1>2, <1>3, <1>4 DEF Contexts

\* The value that is stored.
LEMMA TypeStoreValue ==
    ASSUME NEW x, x.pc \in Words, x.c \in Words, NEW i, IsInst(i)
    PROVE  ValueToStore(x, i) \in Words
<1>1. x.pc \in Nat
  BY Lengths
<1>2. i.jmp2 \in Int
  BY InstFacts
<1>3. x.pc + i.jmp2 \in Int
  BY <1>1, <1>2
<1> QED
  BY <1>3, WordWord DEF ValueToStore

\* The store.
LEMMA TypeStored ==
    ASSUME NEW x \in Contexts, NEW i, IsInst(i)
    PROVE  Stored(x, i) \in Contexts
<1>0. x.a \in Words /\ x.pc \in Words /\ x.c \in Words /\ x.mem \in [Room -> 0 .. 1]
      /\ x.regs \in [Regs -> Words]
  BY DEF Contexts
<1> DEFINE v == ValueToStore(x, i)
<1>1. v \in Words
  BY <1>0, TypeStoreValue
<1>2. v \in Int
  <2>1. v \in Nat
    BY <1>1, Lengths
  <2> QED
    BY <2>1
<1> HIDE DEF v
<1>3. CASE i.store = "none"
  BY <1>3 DEF Stored
<1>4. CASE i.store = "reg"
  <2>1. i.to \in Regs
    BY <1>4, InstFacts
  <2> DEFINE g == [x.regs EXCEPT ![i.to] = v]
  <2>2. g \in [Regs -> Words]
    BY <1>0, <1>1, <2>1
  <2>3. Stored(x, i) = [x EXCEPT !.regs = g]
    BY <1>4 DEF Stored, v
  <2> HIDE DEF g
  <2> QED
    BY <2>2, <2>3 DEF Contexts
<1>5. CASE i.store \in {"mem", "ind"}
  <2>1. AddrStore(x, i) \in Nat /\ WidthStore(i) \in 0 .. WordBits
    BY <1>0, <1>5, TypeAddr, InstFacts DEF FromMem
  <2> DEFINE m == Write(x.mem, AddrStore(x, i), v, WidthStore(i))
  <2>2. m \in [Room -> 0 .. 1]
    BY <1>0, <1>2, <2>1, WriteType
  <2>3. Stored(x, i) = [x EXCEPT !.mem = m]
    BY <1>5 DEF Stored, v
  <2> HIDE DEF m
  <2> QED
    BY <2>2, <2>3 DEF Contexts
<1> QED
  BY <1>3, <1>4, <1>5, InstFacts

\* The rest of the step.
LEMMA TypeAdvanced ==
    ASSUME NEW x \in Contexts, NEW i, IsInst(i)
    PROVE  Advanced(x, i) \in Contexts
<1>1. x.c \in Words /\ x.pc \in Words /\ x.step \in Nat
  BY DEF Contexts
<1>2. x.c \in Nat /\ x.pc \in Nat
  BY <1>1, Lengths
<1>3. i.jmp1 \in Int /\ i.jmp2 \in Int /\ i.end \in BOOLEAN
  BY InstFacts
<1> DEFINE p == SetPc(x, i)
           s == x.step + 1
<1>4. p \in Words /\ s \in Nat
  <2>1. x.c + i.jmp1 \in Int /\ x.pc + i.jmp1 \in Int /\ x.pc + i.jmp2 \in Int
    BY <1>2, <1>3
  <2>2. Word(x.c + i.jmp1) \in Words /\ Word(x.pc + i.jmp1) \in Words /\ Word(x.pc + i.jmp2) \in Words
    BY <2>1, WordWord
  <2> QED
    BY <1>1, <2>2 DEF SetPc
<1>5. Advanced(x, i) = [x EXCEPT !.pc = p, !.end = i.end, !.step = s]
  BY DEF Advanced
<1> HIDE DEF p, s
<1> QED
  BY <1>3, <1>4, <1>5 DEF Contexts

\* The contexts within a step that does not panic.
LEMMA TypeStep ==
    ASSUME NEW x \in Contexts, NEW i, IsInst(i), ~Panics(x, i), NEW xa, NEW xb, NEW xc,
           xa = WithA(x, i), xb = WithB(xa, i), xc = WithC(xb, i)
    PROVE  /\ xa \in Contexts /\ xb \in Contexts /\ xc \in Contexts
           /\ ParStep(x, i) \in Contexts /\ ~OpPanics(xb, i)
           /\ FromMem(i.aSrc) => Mapped(i.a, WordBits)
           /\ FromMem(i.bSrc) => Mapped(AddrB(xa, i), WidthB(i))
           /\ FromMem(i.store) => Mapped(AddrStore(xb, i), WidthStore(i))
<1>1. /\ FromMem(i.aSrc) => Mapped(i.a, WordBits)
      /\ FromMem(i.bSrc) => Mapped(AddrB(xa, i), WidthB(i))
      /\ ~OpPanics(xb, i)
      /\ FromMem(i.store) => Mapped(AddrStore(xb, i), WidthStore(i))
  BY DEF Panics
<1>2. xa \in Contexts
  BY <1>1, TypeA
<1>3. xb \in Contexts
  BY <1>1, <1>2, TypeB
<1>4. xc \in Contexts
  BY <1>1, <1>3, TypeC
<1>5. Stored(xc, i) \in Contexts
  BY <1>4, TypeStored
<1>6. Advanced(Stored(xc, i), i) \in Contexts
  BY <1>5, TypeAdvanced
<1>7. ParStep(x, i) = Advanced(Stored(xc, i), i)
  BY DEF ParStep
<1> QED
  BY <1>1, <1>2, <1>3, <1>4, <1>6, <1>7

\* A step that does not panic leads from a context to one.
LEMMA StepType ==
    ASSUME NEW x \in Contexts, NEW i, IsInst(i), ~Panics(x, i)
    PROVE  ParStep(x, i) \in Contexts /\ ParStep(x, i).step = x.step + 1
<1>1. ParStep(x, i) \in Contexts
  BY TypeStep
<1> DEFINE xa == WithA(x, i)
           xb == WithB(xa, i)
           e == Effect(xb, i)
           xc == WithC(xb, i)
           xs == Stored(xc, i)
<1>2. xa \in Contexts /\ xb \in Contexts /\ xc \in Contexts
  BY TypeStep
<1>3. xa.step = x.step /\ xb.step = xa.step
  <2>1. xa.step = x.step
    BY DEF WithA, Contexts
  <2> HIDE DEF xa
  <2>2. xb.step = xa.step
    BY <1>2 DEF WithB, Contexts
  <2> QED
    BY <2>1, <2>2
<1>4. ParStep(x, i) = Advanced(xs, i)
  BY DEF ParStep
<1> HIDE DEF xa, xb
<1>5. e.step = xb.step /\ DOMAIN e = DOMAIN xb
  BY <1>2 DEF Effect, Contexts
<1>6. xc.step = xb.step
  <2> DEFINE r == Result(xb, i)
  <2>1. xc = [e EXCEPT !.c = r.c, !.flag = r.flag]
    BY DEF WithC
  <2> HIDE DEF r, e, xc
  <2> QED
    BY <1>5, <2>1
<1> HIDE DEF xc
<1>7. xs.step = xc.step
  BY <1>2 DEF Stored, Contexts
<1>8. xs \in Contexts
  BY <1>2, TypeStored
<1> HIDE DEF xs
<1>9. Advanced(xs, i).step = xs.step + 1
  BY <1>8 DEF Advanced, Contexts
<1> QED
  BY <1>1, <1>3, <1>4, <1>5, <1>6, <1>7, <1>9

\* The context at the start.
LEMMA TypeStart ==
    ASSUME NEW mem \in Memories
    PROVE  Start(mem) \in Contexts /\ Start(mem).step = 0 /\ Start(mem).end = FALSE
<1>1. mem \in [0 .. MemSize - 1 -> 0 .. 1]
  BY MinTraceAssumption
<1> DEFINE m == [k \in 0 .. MemSize + WordBits - 1 |-> IF k < MemSize THEN mem[k] ELSE 0]
           g == [r \in Regs |-> 0]
<1>2. m \in [Room -> 0 .. 1]
  BY <1>1, MemFacts DEF Room
<1>3. 0 \in Words /\ g \in [Regs -> Words]
  BY Lengths
<1>4. Start(mem) = [pc |-> 0, a |-> 0, b |-> 0, c |-> 0, flag |-> FALSE, regs |-> g, mem |-> m,
                    free |-> 0, params |-> <<>>, result |-> <<>>, got |-> 0, step |-> 0, end |-> FALSE]
  BY DEF Start
<1> HIDE DEF m, g
<1>5. <<>> \in Seq(Words) /\ 0 \in Nat
  OBVIOUS
<1> QED
  BY <1>2, <1>3, <1>4, <1>5 DEF Contexts

-----------------------------------------------------------------------------
(* The words that an access touches hold its value. *)

\* The word that holds a cell.
LEMMA WordAround ==
    ASSUME NEW c \in Nat, c < MemSize + WordBits
    PROVE  /\ c % WordBits \in 0 .. WordBits - 1
           /\ c - (c % WordBits) \in Nat
           /\ Fits(c - (c % WordBits), WordBits)
<1> DEFINE w == WordBits
<1>0. w \in Nat \ {0} /\ MemSize \in Nat /\ MemSize % w = 0 /\ w \in 0 .. w
  BY MemFacts
<1>1. PICK q \in Nat, r \in 0 .. w - 1 : c \div w = q /\ c % w = r /\ w * q \in Nat /\ c = w * q + r
  BY <1>0, DivIs
<1>2. PICK m \in Nat, z \in 0 .. w - 1 : MemSize \div w = m /\ MemSize % w = z /\ w * m \in Nat /\ MemSize = w * m + z
  BY <1>0, DivIs
<1>3. z = 0 /\ MemSize = w * m
  BY <1>0, <1>2
<1>4. (m + 1) * w = w * m + w /\ q * w = w * q /\ (m + 1) * w \in Nat /\ m + 1 \in Nat
  BY <1>0
<1>5. q * w < (m + 1) * w
  BY <1>0, <1>1, <1>3, <1>4
<1>6. q <= m
  <2>1. q < m + 1
    BY <1>0, <1>4, <1>5, TimesSmaller
  <2> QED
    BY <2>1
<1>7. w * q <= w * m
  BY <1>0, <1>6, TimesUp
<1>8. c - r = w * q /\ c - r \in Nat
  BY <1>1
<1>9. (c - r) + w <= MemSize + w
  BY <1>0, <1>1, <1>2, <1>3, <1>7, <1>8
<1> QED
  BY <1>0, <1>1, <1>8, <1>9 DEF Fits

\* The words of an access: one, or two that follow each other.
LEMMA Touched ==
    ASSUME NEW addr, NEW width \in 1 .. WordBits, Fits(addr, width), NEW one, NEW two,
           one = Required(addr, width)[1], two = Required(addr, width)[2]
    PROVE  /\ Fits(one, WordBits) /\ Fits(two, WordBits) /\ addr = one + (addr % WordBits)
           /\ addr % WordBits \in 0 .. WordBits - 1
           /\ one = two => (addr % WordBits) + width <= WordBits
           /\ one # two => two = one + WordBits
<1> DEFINE w == WordBits
           o == addr % w
           e == addr + width - 1
           p == e % w
<1>0. w \in Nat \ {0} /\ addr \in Nat /\ width \in 1 .. w /\ MemSize \in Nat
      /\ addr + width <= MemSize + w
  BY MemFacts DEF Fits
<1>1. addr < MemSize + w /\ e \in Nat /\ e < MemSize + w
  BY <1>0
<1>2. one = addr - o /\ two = e - p
  BY DEF Required
<1>3. o \in 0 .. w - 1 /\ addr - o \in Nat /\ Fits(addr - o, w)
  BY <1>0, <1>1, WordAround
<1>4. p \in 0 .. w - 1 /\ e - p \in Nat /\ Fits(e - p, w)
  <2> HIDE DEF e
  <2> QED
    BY <1>0, <1>1, WordAround
<1>5. PICK q \in Nat, r \in 0 .. w - 1 : addr \div w = q /\ addr % w = r /\ w * q \in Nat /\ addr = w * q + r
  BY <1>0, DivIs
<1>6. o = r /\ one = w * q
  BY <1>2, <1>5
<1>7. CASE o + width <= w
  <2> DEFINE s == o + width - 1
  <2>1. s \in 0 .. w - 1 /\ e = s + w * q
    BY <1>0, <1>3, <1>5, <1>6, <1>7
  <2>2. e % w = s
    <3> HIDE DEF s, e
    <3> QED
      BY <1>0, <2>1, DivMod
  <2>3. two = one
    BY <1>2, <1>5, <1>6, <2>1, <2>2
  <2> QED
    BY <1>0, <1>2, <1>3, <1>4, <1>7, <2>3
<1>8. CASE o + width > w
  <2> DEFINE s == o + width - 1 - w
             j == q + 1
  <2>0. j \in Nat /\ w * j = w * q + w /\ w * q \in Nat
    BY <1>0, <1>5
  <2>1. s \in 0 .. w - 1
    BY <1>0, <1>3, <1>8
  <2>2. e = s + w * j
    BY <1>0, <1>3, <1>5, <1>6, <2>0
  <2>3. e % w = s
    <3> HIDE DEF s, e, j
    <3> QED
      BY <1>0, <2>0, <2>1, <2>2, DivMod
  <2>4. two = one + w
    <3>1. two = e - s
      BY <1>2, <2>3
    <3> HIDE DEF s, e, j
    <3>2. s \in Int
      BY <1>0, <2>1
    <3> QED
      BY <1>0, <1>6, <2>0, <2>2, <3>1, <3>2
  <2>5. one # two
    BY <1>0, <1>5, <1>6, <2>4
  <2> QED
    BY <1>0, <1>2, <1>3, <1>4, <1>8, <2>4, <2>5
<1> QED
  BY <1>0, <1>3, <1>7, <1>8

\* What is read for an access that is not aligned: its words.
LEMMA RequiredType ==
    ASSUME NEW x \in Contexts, NEW addr, NEW width \in 1 .. WordBits, Fits(addr, width)
    PROVE  /\ ReadRequired(x, addr, width) \in Seq(Words)
           /\ Len(ReadRequired(x, addr, width)) = StoreCount(addr, width)
           /\ LoadReads(x, addr, width) \in Seq(Words)
           /\ Len(LoadReads(x, addr, width)) = LoadCount(addr, width)
           /\ StoreCount(addr, width) \in 0 .. 2 /\ LoadCount(addr, width) \in 1 .. 2
<1> DEFINE one == Required(addr, width)[1]
           two == Required(addr, width)[2]
           b1 == Bits(x.mem, one, WordBits)
           b2 == Bits(x.mem, two, WordBits)
<1>1. Fits(one, WordBits) /\ Fits(two, WordBits)
  <2> HIDE DEF one, two
  <2> QED
    BY Touched DEF one, two
<1>2. b1 \in Words /\ b2 \in Words
  <2>1. x.mem \in [Room -> 0 .. 1]
    BY DEF Contexts
  <2> QED
    BY <1>1, <2>1, BitsWord
<1>3. Read(x, addr, width) \in Words
  BY ReadWord
<1>4. ReadRequired(x, addr, width) = IF IsFullAligned(addr, width) THEN <<>>
                                     ELSE IF one = two THEN <<b1>> ELSE <<b1, b2>>
  BY DEF ReadRequired
<1>5. Crosses(addr, width) <=> one # two
  BY DEF Crosses
<1> HIDE DEF one, two, b1, b2
<1> QED
  BY <1>2, <1>3, <1>4, <1>5 DEF LoadReads, StoreCount, LoadCount

\* The value of an access that is not aligned, from the words it touches.
LEMMA NotAlignedTrue ==
    ASSUME NEW x \in Contexts, NEW addr, NEW width \in 1 .. WordBits, Fits(addr, width),
           ~IsFullAligned(addr, width)
    PROVE  NotAlignedData(addr, width, ReadRequired(x, addr, width)) = Read(x, addr, width)
<1> DEFINE one == Required(addr, width)[1]
           two == Required(addr, width)[2]
           w == WordBits
           o == addr % w
           b1 == Bits(x.mem, one, w)
           b2 == Bits(x.mem, two, w)
           raw == ReadRequired(x, addr, width)
<1>1. /\ Fits(one, w) /\ Fits(two, w) /\ addr = one + o /\ o \in 0 .. w - 1
      /\ one = two => o + width <= w
      /\ one # two => two = one + w
  <2> HIDE DEF one, two
  <2> QED
    BY Touched DEF one, two
<1>2. raw = IF one = two THEN <<b1>> ELSE <<b1, b2>>
  BY DEF ReadRequired
<1>3. NotAlignedData(addr, width, raw)
        = ((raw[1] + (IF Len(raw) = 2 THEN raw[2] * 2 ^ w ELSE 0)) \div 2 ^ o) % 2 ^ width
  BY DEF NotAlignedData
<1>4. Read(x, addr, width) = Bits(x.mem, addr, width)
  <2>1. ~(addr = FreeAddr /\ width = w)
    <3> SUFFICES ASSUME addr = FreeAddr, width = w PROVE FALSE
      OBVIOUS
    <3>0. PICK h \in Nat : w = 2 * h /\ h # 0
      <4>1. w \in Nat /\ w % 8 = 0 /\ w # 0
        BY WordAssumption
      <4>2. w = 2 * (w \div 2) /\ w \div 2 \in Nat
        BY <4>1
      <4> QED
        BY <4>1, <4>2
    <3>1. w \div 2 = h
      BY <3>0
    <3>2. MemSize \in Nat /\ MemSize % w = 0 /\ w \in Nat \ {0}
      BY MemFacts
    <3>3. PICK m \in Nat, z \in 0 .. w - 1 : MemSize \div w = m /\ MemSize % w = z /\ w * m \in Nat /\ MemSize = w * m + z
      BY <3>2, DivIs
    <3>4. w * m = h * (2 * m) /\ MemSize = w * m
      BY <3>0, <3>2, <3>3
    <3> DEFINE mm == 2 * m
    <3>5. MemSize = 0 + h * mm /\ mm \in Nat /\ h \in Nat \ {0} /\ 0 \in 0 .. h - 1
      BY <3>0, <3>2, <3>4
    <3> HIDE DEF mm
    <3>6. (0 + h * mm) % h = 0
      BY <3>5, DivMod
    <3>7. MemSize % h = 0
      BY <3>5, <3>6
    <3> QED
      BY <3>1, <3>7 DEF IsFullAligned, FreeAddr
  <2> QED
    BY <2>1 DEF Read
<1> HIDE DEF one, two, raw
<1>5. x.mem \in [Room -> 0 .. 1] /\ w \in Nat /\ w \in 0 .. 2 * WordBits /\ width \in Nat /\ width <= w
      /\ addr \in Nat /\ one \in Nat /\ two \in Nat /\ o \in Nat
      /\ one + w <= MemSize + w /\ two + w <= MemSize + w /\ MemSize \in Nat
  <2>1. x.mem \in [Room -> 0 .. 1]
    BY DEF Contexts
  <2> QED
    BY <1>1, <2>1, MemFacts DEF Fits
<1>6. CASE one = two
  <2>1. (Bits(x.mem, one, w) \div 2 ^ o) % 2 ^ width = Bits(x.mem, addr, width)
    <3>1. Cells(x.mem, one, w)
      BY <1>5, CellsFit
    <3>2. o + width <= w /\ addr = one + o
      BY <1>1, <1>6
    <3> HIDE DEF o
    <3> QED
      BY <1>5, <3>1, <3>2, BitsSlice
  <2>2. raw[1] + (IF Len(raw) = 2 THEN raw[2] * 2 ^ w ELSE 0) = b1
    <3>1. raw = <<b1>> /\ Len(raw) = 1
      BY <1>2, <1>6
    <3>2. b1 \in Nat
      <4>1. b1 \in Words
        BY <1>1, <1>5, BitsWord
      <4> QED
        BY <4>1, Lengths
    <3> HIDE DEF b1
    <3> QED
      BY <3>1, <3>2
  <2> QED
    <3> DEFINE num == raw[1] + (IF Len(raw) = 2 THEN raw[2] * 2 ^ w ELSE 0)
    <3>1. num = b1 /\ NotAlignedData(addr, width, raw) = (num \div 2 ^ o) % 2 ^ width
      BY <1>3, <2>2
    <3> HIDE DEF num
    <3> QED
      BY <1>4, <2>1, <3>1 DEF raw
<1>7. CASE one # two
  <2> DEFINE all == 2 * WordBits
  <2>0. two = one + w /\ all \in Nat /\ all = w + w /\ all \in 0 .. 2 * WordBits /\ one + all <= MemSize + w
    BY <1>1, <1>5, <1>7
  <2> HIDE DEF all
  <2>1. Cells(x.mem, one, all)
    BY <1>5, <2>0, CellsFit
  <2>2. IsSplit(x.mem, one, w, w, all, two)
    BY <1>5, <2>0, <2>1, BitsSplit
  <2>3. (Bits(x.mem, one, all) \div 2 ^ o) % 2 ^ width = Bits(x.mem, addr, width)
    <3>2. o + width <= all /\ addr = one + o
      BY <1>1, <1>5, <2>0
    <3> HIDE DEF o
    <3> QED
      BY <1>5, <2>0, <2>1, <3>2, BitsSlice
  <2>4. raw[1] + (IF Len(raw) = 2 THEN raw[2] * 2 ^ w ELSE 0) = Bits(x.mem, one, all)
    <3>1. raw = <<b1, b2>> /\ Len(raw) = 2
      BY <1>2, <1>7
    <3>2. b1 \in Nat /\ b2 \in Nat /\ 2 ^ w \in Nat
      <4>1. b1 \in Words /\ b2 \in Words
        BY <1>1, <1>5, BitsWord
      <4> QED
        BY <4>1, Lengths
    <3>3. Bits(x.mem, one, all) = b1 + 2 ^ w * b2
      BY <2>2 DEF IsSplit
    <3> HIDE DEF b1, b2
    <3>4. raw[1] + (IF Len(raw) = 2 THEN raw[2] * 2 ^ w ELSE 0) = b1 + b2 * 2 ^ w
      BY <3>1
    <3>5. b2 * 2 ^ w = 2 ^ w * b2
      BY <3>2
    <3> QED
      BY <3>3, <3>4, <3>5
  <2> QED
    <3> DEFINE num == raw[1] + (IF Len(raw) = 2 THEN raw[2] * 2 ^ w ELSE 0)
    <3>1. num = Bits(x.mem, one, all) /\ NotAlignedData(addr, width, raw) = (num \div 2 ^ o) % 2 ^ width
      BY <1>3, <2>4
    <3> HIDE DEF num
    <3> QED
      BY <1>4, <2>3, <3>1 DEF raw
<1> QED
  BY <1>6, <1>7

-----------------------------------------------------------------------------
(* A step does not depend on what b was before it. *)

\* y is x but for b.
SameBarB(x, y) == x \in Contexts /\ y \in Contexts /\ y = [x EXCEPT !.b = y.b]

\* source_b sets b.
LEMMA SameWithB ==
    ASSUME NEW x, NEW y, SameBarB(x, y), NEW i
    PROVE  /\ WithB(WithA(y, i), i) = WithB(WithA(x, i), i)
           /\ x.pc = y.pc /\ x.c = y.c /\ x.regs = y.regs /\ x.step = y.step /\ x.end = y.end
           /\ x.mem = y.mem /\ x.free = y.free
           /\ WithA(x, i).a = WithA(y, i).a /\ WithA(x, i).mem = x.mem /\ WithA(y, i).mem = x.mem
           /\ WithA(x, i).free = x.free /\ WithA(y, i).free = x.free
<1>0. x \in Contexts /\ y \in Contexts /\ y = [x EXCEPT !.b = y.b]
  BY DEF SameBarB
<1>1. /\ x.pc = y.pc /\ x.c = y.c /\ x.regs = y.regs /\ x.step = y.step /\ x.end = y.end
      /\ x.mem = y.mem /\ x.free = y.free /\ x.params = y.params /\ x.result = y.result
      /\ x.got = y.got /\ x.flag = y.flag
  BY <1>0 DEF Contexts
<1> DEFINE v == IF FromMem(i.aSrc) THEN Read(x, i.a, WordBits) ELSE PlainA(x, i)
           xa == [x EXCEPT !.a = v]
           ya == [y EXCEPT !.a = v]
<1>2. WithA(x, i) = xa
  BY DEF WithA
<1>3. WithA(y, i) = ya
  <2>1. Read(y, i.a, WordBits) = Read(x, i.a, WordBits)
    BY <1>1 DEF Read
  <2>2. PlainA(y, i) = PlainA(x, i)
    BY <1>1 DEF PlainA
  <2> QED
    BY <2>1, <2>2 DEF WithA
<1> HIDE DEF v
<1>4. /\ xa.a = ya.a /\ xa.mem = ya.mem /\ xa.free = ya.free /\ xa.c = ya.c /\ xa.regs = ya.regs
      /\ xa.mem = x.mem /\ xa.free = x.free
  BY <1>0, <1>1 DEF Contexts
<1>5. \A z : [xa EXCEPT !.b = z] = [ya EXCEPT !.b = z]
  BY <1>0 DEF Contexts
<1> HIDE DEF xa, ya
<1>6. Read(xa, AddrB(xa, i), WidthB(i)) = Read(ya, AddrB(ya, i), WidthB(i)) /\ PlainB(xa, i) = PlainB(ya, i)
  BY <1>4 DEF Read, AddrB, PlainB
<1>7. WithB(ya, i) = WithB(xa, i)
  BY <1>5, <1>6 DEF WithB
<1> QED
  BY <1>1, <1>2, <1>3, <1>4, <1>7

\* The step and what it records.
LEMMA SameStep ==
    ASSUME NEW x, NEW y, SameBarB(x, y), NEW i
    PROVE  ParStep(y, i) = ParStep(x, i) /\ StepReads(y, i) = StepReads(x, i)
<1>1. ParStep(y, i) = ParStep(x, i)
  BY SameWithB DEF ParStep
<1> DEFINE xa == WithA(x, i)
           ya == WithA(y, i)
<1>2. /\ WithB(ya, i) = WithB(xa, i) /\ x.mem = y.mem /\ x.free = y.free
      /\ xa.a = ya.a /\ xa.mem = ya.mem /\ xa.free = ya.free
  BY SameWithB
<1>3. LoadReads(y, i.a, WordBits) = LoadReads(x, i.a, WordBits)
  BY <1>2 DEF LoadReads, Read, ReadRequired
<1>4. LoadReads(ya, AddrB(ya, i), WidthB(i)) = LoadReads(xa, AddrB(xa, i), WidthB(i))
  <2> HIDE DEF xa, ya
  <2>1. AddrB(xa, i) = AddrB(ya, i)
    BY <1>2 DEF AddrB
  <2> DEFINE d == AddrB(xa, i)
  <2> HIDE DEF d
  <2>2. LoadReads(ya, d, WidthB(i)) = LoadReads(xa, d, WidthB(i))
    BY <1>2 DEF LoadReads, Read, ReadRequired
  <2> QED
    BY <2>1, <2>2 DEF d
<1>5. StepReads(y, i) = StepReads(x, i)
  BY <1>2, <1>3, <1>4 DEF StepReads
<1> QED
  BY <1>1, <1>5

\* par_step_my_block does what par_step does, but for b.
LEMMA SameMyBlock ==
    ASSUME NEW x, NEW y, SameBarB(x, y), NEW i, IsInst(i), ~Panics(x, i)
    PROVE  /\ SameBarB(ParStep(x, i), ParStepMyBlock(y, i))
           /\ SameBarB(ParStep(x, i), ParStep(y, i))
<1> DEFINE xa == WithA(x, i)
           xb == WithB(xa, i)
           xc == WithC(xb, i)
           z == ParStep(x, i)
           addr == AddrStore(xc, i)
           width == WidthStore(i)
<1>0. x \in Contexts
  BY DEF SameBarB
<1>1. xb \in Contexts /\ xc \in Contexts /\ z \in Contexts /\ ~OpPanics(xb, i)
      /\ (FromMem(i.store) => Mapped(AddrStore(xb, i), width))
  BY <1>0, TypeStep
<1>2. ParStep(y, i) = z /\ WithB(WithA(y, i), i) = xb
  BY SameWithB, SameStep
<1>3. ParStepMyBlock(y, i) = IF FromMem(i.store) /\ ~IsFullAligned(addr, width)
                             THEN [z EXCEPT !.b = Read(xc, addr, width)] ELSE z
  BY <1>2 DEF ParStepMyBlock
<1> HIDE DEF xa, xb, z
<1>4. xc.a = xb.a
  <2> DEFINE r == Result(xb, i)
             e == Effect(xb, i)
  <2>1. xc = [e EXCEPT !.c = r.c, !.flag = r.flag]
    BY DEF WithC
  <2>2. e.a = xb.a /\ DOMAIN e = DOMAIN xb
    BY <1>1 DEF Effect, Contexts
  <2> HIDE DEF r, e, xc
  <2> QED
    BY <2>1, <2>2
<1>5. addr = AddrStore(xb, i)
  BY <1>4 DEF AddrStore
<1>6. FromMem(i.store) => Read(xc, addr, width) \in Words
  <2>1. FromMem(i.store) => addr \in Nat
    <3>1. xc.a \in Words
      BY <1>1 DEF Contexts
    <3> HIDE DEF xc
    <3> QED
      BY <3>1, TypeAddr
  <2>2. FromMem(i.store) => Fits(addr, width)
    <3>1. width \in 0 .. WordBits
      BY InstFacts
    <3>2. FromMem(i.store) => Mapped(addr, width)
      BY <1>1, <1>5
    <3> HIDE DEF addr, width
    <3> QED
      BY <2>1, <3>1, <3>2, MappedFits
  <2> HIDE DEF addr, width, xc
  <2> QED
    BY <1>1, <2>2, ReadWord
<1> HIDE DEF addr, width, xc
<1>7. SameBarB(z, z)
  BY <1>1 DEF SameBarB, Contexts
<1>8. ASSUME NEW v \in Words PROVE SameBarB(z, [z EXCEPT !.b = v])
  BY <1>1 DEF SameBarB, Contexts
<1> QED
  BY <1>2, <1>3, <1>6, <1>7, <1>8 DEF z

-----------------------------------------------------------------------------
(* A step without a memory does what the step with one does. *)

\* The fields of a replay.
ReplayFields ==
    {"kind", "pc", "a", "b", "c", "flag", "regs", "step", "end", "reads", "index", "left", "bus",
     "op", "romBus", "panic"}

\* r is a context of a replay.
IsReplay(r) == r = [f \in ReplayFields |-> r[f]]

\* The recorded words from at on begin with seq.
Holds(reads, at, seq) ==
    /\ at \in Nat /\ reads \in Seq(Words) /\ seq \in Seq(Words)
    /\ at + Len(seq) <= Len(reads)
    /\ \A k \in 1 .. Len(seq) : reads[at + k] = seq[k]

\* The replay r is where the context x is, and its next word is the one after at.
Follows(r, x, at) ==
    /\ IsReplay(r) /\ x \in Contexts
    /\ r.pc = x.pc /\ r.c = x.c /\ r.regs = x.regs /\ r.step = x.step
    /\ r.panic = FALSE /\ r.index = at /\ at \in Nat

\* What no part of a step changes in a replay.
Keeps(r, s) == s.reads = r.reads /\ s.left = r.left /\ s.kind = r.kind

\* The parts of what is recorded.
LEMMA HoldsParts ==
    ASSUME NEW reads, NEW at, NEW s \in Seq(Words), NEW t \in Seq(Words), Holds(reads, at, s \o t)
    PROVE  /\ Holds(reads, at, s) /\ Holds(reads, at + Len(s), t)
           /\ Len(s \o t) = Len(s) + Len(t) /\ s \o t \in Seq(Words)
<1>1. /\ Len(s \o t) = Len(s) + Len(t) /\ s \o t \in Seq(Words) /\ Len(s) \in Nat /\ Len(t) \in Nat
      /\ \A k \in 1 .. Len(s) : (s \o t)[k] = s[k]
      /\ \A k \in 1 .. Len(t) : (s \o t)[Len(s) + k] = t[k]
  OBVIOUS
<1> DEFINE u == s \o t
<1>2. at \in Nat /\ reads \in Seq(Words) /\ at + Len(u) <= Len(reads)
      /\ \A k \in 1 .. Len(u) : reads[at + k] = u[k]
  BY DEF Holds
<1> HIDE DEF u
<1>3. Holds(reads, at, s)
  <2>1. ASSUME NEW k \in 1 .. Len(s) PROVE reads[at + k] = s[k]
    <3>1. k \in 1 .. Len(u)
      BY <1>1 DEF u
    <3> QED
      BY <1>1, <1>2, <3>1 DEF u
  <2> QED
    BY <1>1, <1>2, <2>1 DEF Holds, u
<1>4. Holds(reads, at + Len(s), t)
  <2>1. ASSUME NEW k \in 1 .. Len(t) PROVE reads[(at + Len(s)) + k] = t[k]
    <3>1. Len(s) + k \in 1 .. Len(u) /\ (at + Len(s)) + k = at + (Len(s) + k)
      BY <1>1, <1>2 DEF u
    <3>2. reads[at + (Len(s) + k)] = u[Len(s) + k]
      BY <1>2, <3>1
    <3> QED
      BY <1>1, <3>1, <3>2 DEF u
  <2> QED
    BY <1>1, <1>2, <2>1 DEF Holds, u
<1> QED
  BY <1>1, <1>3, <1>4

\* Words that are there are taken.
LEMMA TakeHeld ==
    ASSUME NEW r, NEW seq, Holds(r.reads, r.index, seq), NEW n, n = Len(seq)
    PROVE  Take(r, n).words = seq /\ Take(r, n).short = FALSE
<1>1. /\ r.index \in Nat /\ r.reads \in Seq(Words) /\ seq \in Seq(Words) /\ n \in Nat
      /\ r.index + n <= Len(r.reads) /\ \A k \in 1 .. n : r.reads[r.index + k] = seq[k]
  BY DEF Holds
<1> DEFINE v(k) == IF r.index + k <= Len(r.reads) THEN r.reads[r.index + k] ELSE 0
<1>2. ASSUME NEW k \in 1 .. n PROVE v(k) = seq[k]
  <2>1. r.index + k <= Len(r.reads)
    BY <1>1
  <2> QED
    BY <1>1, <2>1
<1>3. Take(r, n) = [words |-> [k \in 1 .. n |-> v(k)], short |-> r.index + n > Len(r.reads)]
  BY DEF Take
<1> HIDE DEF v
<1>4. [k \in 1 .. n |-> v(k)] = seq
  BY <1>1, <1>2
<1>5. (r.index + n > Len(r.reads)) = FALSE
  BY <1>1
<1> DEFINE b == r.index + n > Len(r.reads)
<1>6. Take(r, n) = [words |-> seq, short |-> b] /\ b = FALSE
  BY <1>3, <1>4, <1>5
<1> HIDE DEF b
<1>7. Take(r, n) = [words |-> seq, short |-> FALSE]
  BY <1>6
<1> QED
  BY <1>7

\* The payload of a load in a replay.
LoadPayload(x, addr, step, slot, width) ==
    Payload("load", addr, step, slot, IF LoadCount(addr, width) = 2 THEN WordBits ELSE width,
            Raw(LoadReads(x, addr, width)), 0)

\* A load of the replay has the value it has in x, and takes the words that were recorded.
LoadTrue(r, x, slot, addr, width) ==
    /\ Load(r, slot, addr, width).val = Read(x, addr, width)
    /\ Load(r, slot, addr, width).r =
            [r EXCEPT !.index = r.index + Len(LoadReads(x, addr, width)), !.panic = FALSE,
                      !.bus = Append(r.bus, LoadPayload(x, addr, r.step, slot, width))]

\* A load from the recorded words.
LEMMA LoadHeld ==
    ASSUME NEW r, IsReplay(r), r.panic = FALSE, NEW x \in Contexts, NEW addr, NEW width \in 1 .. WordBits,
           Fits(addr, width), NEW slot, Holds(r.reads, r.index, LoadReads(x, addr, width))
    PROVE  LoadTrue(r, x, slot, addr, width)
<1> DEFINE seq == LoadReads(x, addr, width)
           n == LoadCount(addr, width)
           t == Take(r, n)
           val == IF IsFullAligned(addr, width) THEN t.words[1] ELSE NotAlignedData(addr, width, t.words)
           p == Payload("load", addr, r.step, slot, IF n = 2 THEN WordBits ELSE width, Raw(t.words), 0)
<1>1. n = Len(seq)
  BY RequiredType
<1>2. t.words = seq /\ t.short = FALSE
  BY <1>1, TakeHeld
<1>3. val = Read(x, addr, width)
  <2>1. CASE IsFullAligned(addr, width)
    <3>1. seq = <<Read(x, addr, width)>>
      BY <2>1 DEF LoadReads
    <3> HIDE DEF seq, t
    <3> QED
      BY <1>2, <2>1, <3>1
  <2>2. CASE ~IsFullAligned(addr, width)
    <3>1. seq = ReadRequired(x, addr, width)
      BY <2>2 DEF LoadReads
    <3>2. NotAlignedData(addr, width, ReadRequired(x, addr, width)) = Read(x, addr, width)
      BY <2>2, NotAlignedTrue
    <3> HIDE DEF seq, t
    <3> QED
      BY <1>2, <2>2, <3>1, <3>2
  <2> QED
    BY <2>1, <2>2
<1>4. Load(r, slot, addr, width) =
        [val |-> val,
         r |-> [r EXCEPT !.index = r.index + n, !.panic = r.panic \/ t.short, !.bus = Append(r.bus, p)]]
  BY DEF Load
<1>5. p = LoadPayload(x, addr, r.step, slot, width)
  BY <1>2 DEF LoadPayload
<1> HIDE DEF val, t, p, n
<1>6. (r.panic \/ t.short) = FALSE
  BY <1>2
<1> DEFINE b == r.panic \/ t.short
<1>7. b = FALSE /\ Load(r, slot, addr, width) =
        [val |-> val, r |-> [r EXCEPT !.index = r.index + n, !.panic = b, !.bus = Append(r.bus, p)]]
  BY <1>4, <1>6
<1> HIDE DEF b
<1>8. Load(r, slot, addr, width) =
        [val |-> val, r |-> [r EXCEPT !.index = r.index + n, !.panic = FALSE, !.bus = Append(r.bus, p)]]
  BY <1>7
<1>9. /\ Load(r, slot, addr, width).val = val
      /\ Load(r, slot, addr, width).r =
            [r EXCEPT !.index = r.index + n, !.panic = FALSE, !.bus = Append(r.bus, p)]
  BY <1>8
<1> QED
  BY <1>1, <1>3, <1>5, <1>9 DEF LoadTrue

\* What source a records.
ReadsA(x, i) == IF FromMem(i.aSrc) THEN LoadReads(x, i.a, WordBits) ELSE <<>>

\* What source b records.
ReadsB(x, i) == IF FromMem(i.bSrc) THEN LoadReads(x, AddrB(x, i), WidthB(i)) ELSE <<>>

\* The bus after source a.
BusA(bus, x, i) ==
    IF FromMem(i.aSrc) THEN Append(bus, LoadPayload(x, i.a, x.step, 0, WordBits)) ELSE bus

\* The bus after source b.
BusB(bus, x, i) ==
    IF FromMem(i.bSrc) THEN Append(bus, LoadPayload(x, AddrB(x, i), x.step, 1, WidthB(i))) ELSE bus

\* Source a of the replay.
LEMMA HeldA ==
    ASSUME NEW r, NEW x, NEW at, Follows(r, x, at), NEW i, IsInst(i), WithA(x, i) \in Contexts,
           FromMem(i.aSrc) => Fits(i.a, WordBits), Holds(r.reads, at, ReadsA(x, i))
    PROVE  LET s == ConsumeA(r, i)
           IN  /\ Follows(s, WithA(x, i), at + Len(ReadsA(x, i))) /\ Keeps(r, s)
               /\ s.a = WithA(x, i).a /\ s.bus = BusA(r.bus, x, i)
<1> DEFINE s == ConsumeA(r, i)
           xa == WithA(x, i)
<1>0. /\ IsReplay(r) /\ x \in Contexts /\ r.pc = x.pc /\ r.c = x.c /\ r.regs = x.regs
      /\ r.step = x.step /\ r.panic = FALSE /\ r.index = at /\ at \in Nat
  BY DEF Follows
<1>1. xa.pc = x.pc /\ xa.c = x.c /\ xa.regs = x.regs /\ xa.step = x.step
      /\ xa.a = IF FromMem(i.aSrc) THEN Read(x, i.a, WordBits) ELSE PlainA(x, i)
  BY <1>0 DEF WithA, Contexts
<1> HIDE DEF xa
<1>2. CASE ~FromMem(i.aSrc)
  <2>1. s = [r EXCEPT !.a = PlainA(r, i)] /\ PlainA(r, i) = PlainA(x, i)
    BY <1>0, <1>2 DEF ConsumeA, PlainA
  <2>2. ReadsA(x, i) = <<>> /\ Len(ReadsA(x, i)) = 0 /\ BusA(r.bus, x, i) = r.bus
    BY <1>2 DEF ReadsA, BusA
  <2>3. at + Len(ReadsA(x, i)) = at
    BY <1>0, <2>2
  <2> HIDE DEF s
  <2>4. /\ IsReplay(s) /\ s.pc = r.pc /\ s.c = r.c /\ s.regs = r.regs /\ s.step = r.step
        /\ s.panic = r.panic /\ s.index = r.index /\ s.reads = r.reads /\ s.left = r.left
        /\ s.kind = r.kind /\ s.a = PlainA(x, i) /\ s.bus = r.bus
    BY <1>0, <2>1 DEF IsReplay, ReplayFields
  <2>5. Follows(s, xa, at + Len(ReadsA(x, i)))
    BY <1>0, <1>1, <2>3, <2>4 DEF Follows, xa
  <2>6. Keeps(r, s) /\ s.a = xa.a /\ s.bus = BusA(r.bus, x, i)
    BY <1>1, <1>2, <2>2, <2>4 DEF Keeps
  <2> QED
    BY <2>5, <2>6 DEF s, xa
<1>3. CASE FromMem(i.aSrc)
  <2>1. ReadsA(x, i) = LoadReads(x, i.a, WordBits)
        /\ BusA(r.bus, x, i) = Append(r.bus, LoadPayload(x, i.a, x.step, 0, WordBits))
    BY <1>3 DEF ReadsA, BusA
  <2> DEFINE l == Load(r, 0, i.a, WordBits)
             n == Len(ReadsA(x, i))
             bus == Append(r.bus, LoadPayload(x, i.a, x.step, 0, WordBits))
             d == i.a
             w == WordBits
  <2>2. l.val = Read(x, i.a, WordBits)
        /\ l.r = [r EXCEPT !.index = r.index + n, !.panic = FALSE, !.bus = bus]
    <3>1. Fits(d, w) /\ w \in 1 .. WordBits /\ Holds(r.reads, r.index, LoadReads(x, d, w))
      BY <1>0, <1>3, <2>1, Lengths
    <3> HIDE DEF d, w
    <3>2. LoadTrue(r, x, 0, d, w)
      BY <1>0, <3>1, LoadHeld
    <3> QED
      BY <1>0, <2>1, <3>2 DEF d, w, LoadTrue
  <2>3. s = [l.r EXCEPT !.a = l.val]
    BY <1>3 DEF ConsumeA
  <2>4. n \in Nat
    BY <2>1 DEF Holds
  <2> HIDE DEF s, l, bus, n
  <2>5. /\ IsReplay(s) /\ s.pc = r.pc /\ s.c = r.c /\ s.regs = r.regs /\ s.step = r.step
        /\ s.panic = FALSE /\ s.index = r.index + n /\ s.reads = r.reads /\ s.left = r.left
        /\ s.kind = r.kind /\ s.a = Read(x, i.a, WordBits) /\ s.bus = bus
    BY <1>0, <2>2, <2>3 DEF IsReplay, ReplayFields
  <2>6. Follows(s, xa, at + n)
    BY <1>0, <1>1, <2>4, <2>5 DEF Follows, xa
  <2>7. Keeps(r, s) /\ s.a = xa.a /\ s.bus = BusA(r.bus, x, i)
    BY <1>1, <1>3, <2>1, <2>5 DEF Keeps, bus
  <2> QED
    BY <2>6, <2>7 DEF s, xa, n
<1> QED
  BY <1>2, <1>3

\* Source b of the replay.
LEMMA HeldB ==
    ASSUME NEW r, NEW x, NEW at, Follows(r, x, at), r.a = x.a, NEW i, IsInst(i), WithB(x, i) \in Contexts,
           FromMem(i.bSrc) => Fits(AddrB(x, i), WidthB(i)), Holds(r.reads, at, ReadsB(x, i))
    PROVE  LET s == ConsumeB(r, i)
           IN  /\ Follows(s, WithB(x, i), at + Len(ReadsB(x, i))) /\ Keeps(r, s)
               /\ s.a = WithB(x, i).a /\ s.b = WithB(x, i).b /\ s.bus = BusB(r.bus, x, i)
<1> DEFINE s == ConsumeB(r, i)
           xb == WithB(x, i)
<1>0. /\ IsReplay(r) /\ x \in Contexts /\ r.pc = x.pc /\ r.c = x.c /\ r.regs = x.regs
      /\ r.step = x.step /\ r.panic = FALSE /\ r.index = at /\ at \in Nat
  BY DEF Follows
<1>1. xb.pc = x.pc /\ xb.c = x.c /\ xb.regs = x.regs /\ xb.step = x.step /\ xb.a = x.a
      /\ xb.b = IF FromMem(i.bSrc) THEN Read(x, AddrB(x, i), WidthB(i)) ELSE PlainB(x, i)
  BY <1>0 DEF WithB, Contexts
<1> HIDE DEF xb
<1>2. CASE ~FromMem(i.bSrc)
  <2>1. s = [r EXCEPT !.b = PlainB(r, i)] /\ PlainB(r, i) = PlainB(x, i)
    BY <1>0, <1>2 DEF ConsumeB, PlainB
  <2>2. ReadsB(x, i) = <<>> /\ Len(ReadsB(x, i)) = 0 /\ BusB(r.bus, x, i) = r.bus
    BY <1>2 DEF ReadsB, BusB
  <2>3. at + Len(ReadsB(x, i)) = at
    BY <1>0, <2>2
  <2> HIDE DEF s
  <2>4. /\ IsReplay(s) /\ s.pc = r.pc /\ s.c = r.c /\ s.regs = r.regs /\ s.step = r.step
        /\ s.panic = r.panic /\ s.index = r.index /\ s.reads = r.reads /\ s.left = r.left
        /\ s.kind = r.kind /\ s.b = PlainB(x, i) /\ s.a = r.a /\ s.bus = r.bus
    BY <1>0, <2>1 DEF IsReplay, ReplayFields
  <2>5. Follows(s, xb, at + Len(ReadsB(x, i)))
    BY <1>0, <1>1, <2>3, <2>4 DEF Follows, xb
  <2>6. Keeps(r, s) /\ s.a = xb.a /\ s.b = xb.b /\ s.bus = BusB(r.bus, x, i)
    BY <1>1, <1>2, <2>2, <2>4 DEF Keeps
  <2> QED
    BY <2>5, <2>6 DEF s, xb
<1>3. CASE FromMem(i.bSrc)
  <2> DEFINE d == AddrB(x, i)
             w == WidthB(i)
  <2>1. ReadsB(x, i) = LoadReads(x, d, w) /\ AddrB(r, i) = d
        /\ BusB(r.bus, x, i) = Append(r.bus, LoadPayload(x, d, x.step, 1, w))
    BY <1>3 DEF ReadsB, BusB, AddrB
  <2> DEFINE l == Load(r, 1, d, w)
             n == Len(ReadsB(x, i))
             bus == Append(r.bus, LoadPayload(x, d, x.step, 1, w))
  <2>2. l.val = Read(x, d, w)
        /\ l.r = [r EXCEPT !.index = r.index + n, !.panic = FALSE, !.bus = bus]
    <3>1. Fits(d, w) /\ w \in 1 .. WordBits /\ Holds(r.reads, r.index, LoadReads(x, d, w))
      BY <1>0, <1>3, <2>1, InstFacts
    <3> HIDE DEF d, w
    <3>2. LoadTrue(r, x, 1, d, w)
      BY <1>0, <3>1, LoadHeld
    <3> QED
      BY <1>0, <2>1, <3>2 DEF LoadTrue
  <2>3. s = [l.r EXCEPT !.b = l.val]
    BY <1>3, <2>1 DEF ConsumeB
  <2>4. n \in Nat
    BY <2>1 DEF Holds
  <2> HIDE DEF s, l, bus, n, d, w
  <2>5. /\ IsReplay(s) /\ s.pc = r.pc /\ s.c = r.c /\ s.regs = r.regs /\ s.step = r.step
        /\ s.panic = FALSE /\ s.index = r.index + n /\ s.reads = r.reads /\ s.left = r.left
        /\ s.kind = r.kind /\ s.b = Read(x, d, w) /\ s.a = r.a /\ s.bus = bus
    BY <1>0, <2>2, <2>3 DEF IsReplay, ReplayFields
  <2>6. Follows(s, xb, at + n)
    BY <1>0, <1>1, <2>4, <2>5 DEF Follows, xb
  <2>7. Keeps(r, s) /\ s.a = xb.a /\ s.b = xb.b /\ s.bus = BusB(r.bus, x, i)
    BY <1>1, <1>3, <2>1, <2>5 DEF Keeps, bus, d, w
  <2> QED
    BY <2>6, <2>7 DEF s, xb, n
<1> QED
  BY <1>2, <1>3

\* What an operation leaves alone.
LEMMA KeptByC ==
    ASSUME NEW x \in Contexts, NEW i
    PROVE  LET y == WithC(x, i)
           IN  /\ y.pc = x.pc /\ y.regs = x.regs /\ y.step = x.step /\ y.a = x.a /\ y.b = x.b
               /\ y.c = Result(x, i).c /\ y.flag = Result(x, i).flag
<1> DEFINE res == Result(x, i)
           e == Effect(x, i)
           y == WithC(x, i)
<1>1. y = [e EXCEPT !.c = res.c, !.flag = res.flag]
  BY DEF WithC
<1>2. e.pc = x.pc /\ e.regs = x.regs /\ e.step = x.step /\ e.a = x.a /\ e.b = x.b /\ DOMAIN e = DOMAIN x
  BY DEF Effect, Contexts
<1>3. "c" \in DOMAIN x /\ "flag" \in DOMAIN x
  BY DEF Contexts
<1> HIDE DEF res, e, y
<1>4. /\ y.pc = x.pc /\ y.regs = x.regs /\ y.step = x.step /\ y.a = x.a /\ y.b = x.b
      /\ y.c = res.c /\ y.flag = res.flag
  BY <1>1, <1>2, <1>3
<1> QED
  BY <1>4 DEF res, y

\* The operation of the replay.
LEMMA HeldC ==
    ASSUME NEW r, NEW x, NEW at, Follows(r, x, at), r.a = x.a, r.b = x.b, NEW i, IsInst(i),
           ~OpPanics(x, i), WithC(x, i) \in Contexts, Holds(r.reads, at, Input(x, i))
    PROVE  LET s == ConsumeOp(r, i)
           IN  /\ Follows(s, WithC(x, i), at + Len(Input(x, i))) /\ Keeps(r, s)
               /\ s.a = WithC(x, i).a /\ s.flag = WithC(x, i).flag /\ s.bus = r.bus
               /\ s.op = <<i.op, x.a, x.b>> \o Input(x, i)
<1> DEFINE s == ConsumeOp(r, i)
           xc == WithC(x, i)
           n == InputWords(i)
           t == Take(r, n)
           res == Result(x, i)
           op == <<i.op, r.a, r.b>> \o t.words
           inp == Input(x, i)
<1>0. /\ IsReplay(r) /\ x \in Contexts /\ r.pc = x.pc /\ r.c = x.c /\ r.regs = x.regs
      /\ r.step = x.step /\ r.panic = FALSE /\ r.index = at /\ at \in Nat
  BY DEF Follows
<1>1. /\ xc.pc = x.pc /\ xc.regs = x.regs /\ xc.step = x.step /\ xc.a = x.a
      /\ xc.c = res.c /\ xc.flag = res.flag
  BY <1>0, KeptByC
<1>2. Result(r, i) = res
  BY DEF Result
<1>3. n = Len(inp) /\ n \in Nat
  BY <1>0, InputType, Shapes
<1>4. t.words = inp /\ t.short = FALSE
  BY <1>0, <1>3, TakeHeld
<1> DEFINE b == r.panic \/ t.short
<1>5. b = FALSE
  BY <1>0, <1>4
<1>6. s = [r EXCEPT !.index = r.index + n, !.panic = b, !.c = res.c, !.flag = res.flag, !.op = op]
  BY <1>2 DEF ConsumeOp
<1>7. op = <<i.op, x.a, x.b>> \o inp
  BY <1>4
<1> HIDE DEF s, xc, n, t, res, op, inp, b
<1>8. s = [r EXCEPT !.index = r.index + n, !.panic = FALSE, !.c = res.c, !.flag = res.flag, !.op = op]
  BY <1>5, <1>6
<1>9. /\ IsReplay(s) /\ s.pc = r.pc /\ s.c = res.c /\ s.regs = r.regs /\ s.step = r.step
      /\ s.panic = FALSE /\ s.index = r.index + n /\ s.reads = r.reads /\ s.left = r.left
      /\ s.kind = r.kind /\ s.a = r.a /\ s.bus = r.bus /\ s.flag = res.flag /\ s.op = op
  BY <1>0, <1>8 DEF IsReplay, ReplayFields
<1>10. Follows(s, xc, at + n)
  BY <1>0, <1>1, <1>3, <1>9 DEF Follows, xc
<1>11. Keeps(r, s) /\ s.a = xc.a /\ s.flag = xc.flag /\ s.bus = r.bus /\ s.op = <<i.op, x.a, x.b>> \o inp
  BY <1>1, <1>7, <1>9 DEF Keeps
<1> QED
  BY <1>3, <1>10, <1>11 DEF s, xc, inp

\* The payload of a store in a replay.
StorePayload(x, i) ==
    LET addr == AddrStore(x, i)
        width == WidthStore(i)
        val == ValueToStore(x, i)
    IN  Payload("store", addr, x.step, 2, width,
                IF StoreCount(addr, width) = 0 THEN <<val, 0>> ELSE Raw(ReadRequired(x, addr, width)), val)

\* The bus after the store.
BusStore(bus, x, i) == IF FromMem(i.store) THEN Append(bus, StorePayload(x, i)) ELSE bus

\* The store of the replay.
LEMMA HeldStore ==
    ASSUME NEW r, NEW x, NEW at, Follows(r, x, at), r.a = x.a, r.flag = x.flag, NEW i, IsInst(i),
           FromMem(i.store) => Fits(AddrStore(x, i), WidthStore(i)),
           Holds(r.reads, at, StoreReads(x, i))
    PROVE  LET s == ConsumeStore(r, i)
           IN  /\ Follows(s, Stored(x, i), at + Len(StoreReads(x, i))) /\ Keeps(r, s)
               /\ s.flag = Stored(x, i).flag /\ s.bus = BusStore(r.bus, x, i) /\ s.op = r.op
<1> DEFINE s == ConsumeStore(r, i)
           y == Stored(x, i)
           val == ValueToStore(x, i)
<1>0. /\ IsReplay(r) /\ x \in Contexts /\ r.pc = x.pc /\ r.c = x.c /\ r.regs = x.regs
      /\ r.step = x.step /\ r.panic = FALSE /\ r.index = at /\ at \in Nat
  BY DEF Follows
<1>1. y \in Contexts
  BY <1>0, TypeStored
<1>2. ValueToStore(r, i) = val
  BY <1>0 DEF ValueToStore
<1>3. CASE i.store \in {"none", "reg"}
  <2> DEFINE g == IF i.store = "none" THEN x.regs ELSE [x.regs EXCEPT ![i.to] = val]
  <2>0. StoreReads(x, i) = <<>> /\ Len(StoreReads(x, i)) = 0 /\ BusStore(r.bus, x, i) = r.bus
    BY <1>3 DEF StoreReads, BusStore, FromMem
  <2>1. at + Len(StoreReads(x, i)) = at
    BY <1>0, <2>0
  <2>2. s = IF i.store = "none" THEN r ELSE [r EXCEPT !.regs = g]
    BY <1>0, <1>2, <1>3 DEF ConsumeStore
  <2>3. y = IF i.store = "none" THEN x ELSE [x EXCEPT !.regs = g]
    BY <1>3 DEF Stored
  <2>4. i.store = "none" => g = x.regs
    OBVIOUS
  <2> HIDE DEF s, y, g, val
  <2>5. /\ IsReplay(s) /\ s.pc = r.pc /\ s.c = r.c /\ s.regs = g /\ s.step = r.step
        /\ s.panic = r.panic /\ s.index = r.index /\ s.reads = r.reads /\ s.left = r.left
        /\ s.kind = r.kind /\ s.bus = r.bus /\ s.flag = r.flag /\ s.op = r.op
    BY <1>0, <2>2, <2>4 DEF IsReplay, ReplayFields
  <2>6. y.pc = x.pc /\ y.c = x.c /\ y.regs = g /\ y.step = x.step /\ y.flag = x.flag
    BY <1>0, <2>3, <2>4 DEF Contexts
  <2>7. Follows(s, y, at + Len(StoreReads(x, i)))
    BY <1>0, <1>1, <2>1, <2>5, <2>6 DEF Follows
  <2> QED
    BY <2>0, <2>5, <2>6, <2>7 DEF Keeps, s, y
<1>4. CASE i.store \in {"mem", "ind"}
  <2> DEFINE addr == AddrStore(x, i)
             width == WidthStore(i)
             n == StoreCount(addr, width)
             t == Take(r, n)
             seq == ReadRequired(x, addr, width)
             b == r.panic \/ t.short
             m == Write(x.mem, addr, val, width)
             p == Payload("store", addr, r.step, 2, width, IF n = 0 THEN <<val, 0>> ELSE Raw(t.words), val)
             bus == Append(r.bus, p)
  <2>1. StoreReads(x, i) = seq /\ AddrStore(r, i) = addr /\ Fits(addr, width)
    BY <1>4 DEF StoreReads, FromMem, AddrStore
  <2>2. width \in 1 .. WordBits
    BY InstFacts
  <2>3. n = Len(seq) /\ n \in Nat
    <3> HIDE DEF addr, width
    <3> QED
      BY <1>0, <2>1, <2>2, RequiredType
  <2>4. t.words = seq /\ t.short = FALSE
    BY <1>0, <2>1, <2>3, TakeHeld
  <2>5. b = FALSE
    BY <1>0, <2>4
  <2>6. s = [r EXCEPT !.index = r.index + n, !.panic = b, !.bus = bus]
    BY <1>2, <1>4, <2>1 DEF ConsumeStore
  <2>7. y = [x EXCEPT !.mem = m]
    BY <1>4 DEF Stored
  <2>8. bus = BusStore(r.bus, x, i)
    BY <1>0, <1>4, <2>4 DEF BusStore, StorePayload, FromMem
  <2> HIDE DEF s, y, n, t, seq, b, m, p, bus, addr, width, val
  <2>9. s = [r EXCEPT !.index = r.index + n, !.panic = FALSE, !.bus = bus]
    BY <2>5, <2>6
  <2>10. /\ IsReplay(s) /\ s.pc = r.pc /\ s.c = r.c /\ s.regs = r.regs /\ s.step = r.step
         /\ s.panic = FALSE /\ s.index = r.index + n /\ s.reads = r.reads /\ s.left = r.left
         /\ s.kind = r.kind /\ s.bus = bus /\ s.flag = r.flag /\ s.op = r.op
    BY <1>0, <2>9 DEF IsReplay, ReplayFields
  <2>11. y.pc = x.pc /\ y.c = x.c /\ y.regs = x.regs /\ y.step = x.step /\ y.flag = x.flag
    BY <1>0, <2>7 DEF Contexts
  <2>12. Follows(s, y, at + n)
    BY <1>0, <1>1, <2>3, <2>10, <2>11 DEF Follows
  <2>13. Keeps(r, s) /\ s.flag = y.flag /\ s.bus = BusStore(r.bus, x, i) /\ s.op = r.op
    BY <2>8, <2>10, <2>11 DEF Keeps
  <2>14. Follows(s, y, at + Len(StoreReads(x, i)))
    BY <2>1, <2>3, <2>12
  <2> QED
    BY <2>13, <2>14 DEF s, y
<1> QED
  BY <1>3, <1>4, InstFacts

\* The words of a step are those of its parts.
LEMMA ReadsParts ==
    ASSUME NEW x \in Contexts, NEW i, IsInst(i), ~Panics(x, i), NEW xa, NEW xb, NEW xc,
           xa = WithA(x, i), xb = WithB(xa, i), xc = WithC(xb, i)
    PROVE  /\ StepReads(x, i) = ((ReadsA(x, i) \o ReadsB(xa, i)) \o Input(xb, i)) \o StoreReads(xc, i)
           /\ ReadsA(x, i) \in Seq(Words) /\ ReadsB(xa, i) \in Seq(Words)
           /\ Input(xb, i) \in Seq(Words) /\ StoreReads(xc, i) \in Seq(Words)
           /\ FromMem(i.aSrc) => Fits(i.a, WordBits)
           /\ FromMem(i.bSrc) => Fits(AddrB(xa, i), WidthB(i))
           /\ FromMem(i.store) => Fits(AddrStore(xc, i), WidthStore(i))
<1>1. /\ xa \in Contexts /\ xb \in Contexts /\ xc \in Contexts /\ ~OpPanics(xb, i)
      /\ FromMem(i.aSrc) => Mapped(i.a, WordBits)
      /\ FromMem(i.bSrc) => Mapped(AddrB(xa, i), WidthB(i))
      /\ FromMem(i.store) => Mapped(AddrStore(xb, i), WidthStore(i))
  BY TypeStep
<1>2. xa.a \in Words /\ xb.a \in Words
  BY <1>1 DEF Contexts
<1>3. FromMem(i.aSrc) => Fits(i.a, WordBits)
  BY <1>1, InstFacts, MappedFits, Lengths
<1>4. FromMem(i.bSrc) => Fits(AddrB(xa, i), WidthB(i))
  BY <1>1, <1>2, InstFacts, TypeAddr, MappedFits
<1>5. AddrStore(xc, i) = AddrStore(xb, i)
  <2>1. xc.a = xb.a
    BY <1>1, KeptByC
  <2> QED
    BY <2>1 DEF AddrStore
<1>6. FromMem(i.store) => Fits(AddrStore(xc, i), WidthStore(i))
  BY <1>1, <1>2, <1>5, InstFacts, TypeAddr, MappedFits
<1>7. ReadsA(x, i) \in Seq(Words)
  <2>1. WordBits \in 1 .. WordBits
    BY Lengths
  <2>2. FromMem(i.aSrc) => LoadReads(x, i.a, WordBits) \in Seq(Words)
    BY <1>3, <2>1, RequiredType
  <2> QED
    BY <2>2 DEF ReadsA
<1>8. ReadsB(xa, i) \in Seq(Words)
  <2>1. FromMem(i.bSrc) => LoadReads(xa, AddrB(xa, i), WidthB(i)) \in Seq(Words)
    BY <1>1, <1>4, InstFacts, RequiredType
  <2> QED
    BY <2>1 DEF ReadsB
<1>9. Input(xb, i) \in Seq(Words)
  BY <1>1, InputType
<1>10. StoreReads(xc, i) \in Seq(Words)
  <2>1. FromMem(i.store) => ReadRequired(xc, AddrStore(xc, i), WidthStore(i)) \in Seq(Words)
    BY <1>1, <1>6, InstFacts, RequiredType
  <2> QED
    BY <2>1 DEF StoreReads
<1>11. StepReads(x, i) = ((ReadsA(x, i) \o ReadsB(xa, i)) \o Input(xb, i)) \o StoreReads(xc, i)
  BY DEF StepReads, ReadsA, ReadsB
<1> QED
  BY <1>3, <1>4, <1>6, <1>7, <1>8, <1>9, <1>10, <1>11

\* What a step records is a sequence of words.
LEMMA ReadsType ==
    ASSUME NEW x \in Contexts, NEW i, IsInst(i), ~Panics(x, i)
    PROVE  StepReads(x, i) \in Seq(Words)
<1> DEFINE xa == WithA(x, i)
           xb == WithB(xa, i)
           xc == WithC(xb, i)
           s == ReadsA(x, i)
           t == ReadsB(xa, i)
           u == Input(xb, i)
           v == StoreReads(xc, i)
<1>1. /\ StepReads(x, i) = ((s \o t) \o u) \o v
      /\ s \in Seq(Words) /\ t \in Seq(Words) /\ u \in Seq(Words) /\ v \in Seq(Words)
  BY ReadsParts
<1> HIDE DEF s, t, u, v
<1> QED
  BY <1>1

\* What the bus shows of a replayed step.
StepBus(x, i) ==
    LET xa == WithA(x, i)
        xc == WithC(WithB(xa, i), i)
    IN  BusStore(BusB(BusA(<<>>, x, i), xa, i), xc, i)

\* A replayed step leads where the step with a memory leads.
StepTrue(r, x, i, at, s) ==
    /\ Follows(s, ParStep(x, i), at + Len(StepReads(x, i)))
    /\ s.flag = ParStep(x, i).flag /\ s.end = ParStep(x, i).end
    /\ s.reads = r.reads /\ s.left = r.left - 1 /\ s.kind = r.kind

\* What it shows.
StepShown(x, i, s) ==
    LET xb == WithB(WithA(x, i), i)
    IN  s.bus = StepBus(x, i) /\ s.op = <<i.op, xb.a, xb.b>> \o Input(xb, i)

\* A step without a memory, with the words that the step with one has recorded.
LEMMA StepHeld ==
    ASSUME NEW r, NEW x, NEW at, Follows(r, x, at), NEW i, IsInst(i), ~Panics(x, i),
           Holds(r.reads, at, StepReads(x, i))
    PROVE  StepTrue(r, x, i, at, ConsumeStep(r, i)) /\ StepShown(x, i, ConsumeStep(r, i))
<1> DEFINE xa == WithA(x, i)
           xb == WithB(xa, i)
           xc == WithC(xb, i)
           y == Stored(xc, i)
           z == Advanced(y, i)
           r0 == [r EXCEPT !.bus = <<>>]
           ra == ConsumeA(r0, i)
           rb == ConsumeB(ra, i)
           rc == ConsumeOp(rb, i)
           rs == ConsumeStore(rc, i)
           sA == ReadsA(x, i)
           sB == ReadsB(xa, i)
           sI == Input(xb, i)
           sS == StoreReads(xc, i)
           a1 == at + Len(sA)
           a2 == a1 + Len(sB)
           a3 == a2 + Len(sI)
           a4 == a3 + Len(sS)
           inst == i
           s == ConsumeStep(r, i)
<1>0. x \in Contexts /\ IsReplay(r)
  BY DEF Follows
<1>1. xa \in Contexts /\ xb \in Contexts /\ xc \in Contexts /\ ~OpPanics(xb, i)
  BY <1>0, TypeStep
<1>2. /\ StepReads(x, i) = ((sA \o sB) \o sI) \o sS
      /\ sA \in Seq(Words) /\ sB \in Seq(Words) /\ sI \in Seq(Words) /\ sS \in Seq(Words)
      /\ FromMem(i.aSrc) => Fits(i.a, WordBits)
      /\ FromMem(i.bSrc) => Fits(AddrB(xa, i), WidthB(i))
      /\ FromMem(i.store) => Fits(AddrStore(xc, i), WidthStore(i))
  BY <1>0, ReadsParts
<1>3. ParStep(x, i) = z
  BY DEF ParStep
<1>4. r0.reads = r.reads /\ Follows(r0, x, at) /\ r0.bus = <<>> /\ r0.left = r.left /\ r0.kind = r.kind
  <2>1. /\ IsReplay(r0) /\ r0.pc = r.pc /\ r0.c = r.c /\ r0.regs = r.regs /\ r0.step = r.step
        /\ r0.panic = r.panic /\ r0.index = r.index /\ r0.bus = <<>> /\ r0.reads = r.reads
        /\ r0.left = r.left /\ r0.kind = r.kind
    BY <1>0 DEF IsReplay, ReplayFields
  <2> HIDE DEF r0
  <2> QED
    BY <2>1 DEF Follows
<1>5. /\ Holds(r.reads, at, sA) /\ Holds(r.reads, a1, sB) /\ Holds(r.reads, a2, sI) /\ Holds(r.reads, a3, sS)
      /\ a4 = at + Len(StepReads(x, i))
  <2> HIDE DEF sA, sB, sI, sS
  <2> DEFINE u == sA \o sB
             v == u \o sI
  <2>0. u \in Seq(Words) /\ v \in Seq(Words) /\ StepReads(x, i) = v \o sS
    BY <1>2
  <2>1. Holds(r.reads, at, v) /\ Holds(r.reads, at + Len(v), sS) /\ Len(v \o sS) = Len(v) + Len(sS)
    <3> HIDE DEF v
    <3> QED
      BY <1>2, <2>0, HoldsParts
  <2>2. Holds(r.reads, at, u) /\ Holds(r.reads, at + Len(u), sI) /\ Len(v) = Len(u) + Len(sI)
    <3> HIDE DEF u
    <3> QED
      BY <1>2, <2>0, <2>1, HoldsParts
  <2>3. Holds(r.reads, at, sA) /\ Holds(r.reads, at + Len(sA), sB) /\ Len(u) = Len(sA) + Len(sB)
    BY <1>2, <2>2, HoldsParts
  <2>4. at \in Nat /\ Len(sA) \in Nat /\ Len(sB) \in Nat /\ Len(sI) \in Nat /\ Len(sS) \in Nat
    BY <1>2 DEF Follows
  <2> HIDE DEF u, v
  <2>5. at + Len(u) = a2 /\ at + Len(v) = a3 /\ at + Len(StepReads(x, i)) = a4
    BY <2>0, <2>1, <2>2, <2>3, <2>4
  <2> QED
    BY <2>1, <2>2, <2>3, <2>5
<1>6. Follows(ra, xa, a1) /\ Keeps(r0, ra) /\ ra.a = xa.a /\ ra.bus = BusA(<<>>, x, i)
  <2> HIDE DEF r0
  <2> QED
    BY <1>1, <1>2, <1>4, <1>5, HeldA
<1>7. Follows(rb, xb, a2) /\ Keeps(ra, rb) /\ rb.a = xb.a /\ rb.b = xb.b /\ rb.bus = BusB(ra.bus, xa, i)
  <2>1. ra.reads = r.reads
    BY <1>4, <1>6 DEF Keeps
  <2> HIDE DEF ra, xa, a1
  <2> QED
    BY <1>1, <1>2, <1>5, <1>6, <2>1, HeldB
<1>8. /\ Follows(rc, xc, a3) /\ Keeps(rb, rc) /\ rc.a = xc.a /\ rc.flag = xc.flag /\ rc.bus = rb.bus
      /\ rc.op = <<i.op, xb.a, xb.b>> \o sI
  <2>1. rb.reads = r.reads
    BY <1>4, <1>6, <1>7 DEF Keeps
  <2> HIDE DEF ra, rb, xa, xb, a2
  <2> QED
    BY <1>1, <1>2, <1>5, <1>7, <2>1, HeldC
<1>9. Follows(rs, y, a4) /\ Keeps(rc, rs) /\ rs.flag = y.flag /\ rs.bus = BusStore(rc.bus, xc, i) /\ rs.op = rc.op
  <2>1. rc.reads = r.reads
    BY <1>4, <1>6, <1>7, <1>8 DEF Keeps
  <2> HIDE DEF rb, rc, xb, xc, a3
  <2> QED
    BY <1>1, <1>2, <1>5, <1>8, <2>1, HeldStore
<1>10. s = [Advanced(rs, i) EXCEPT !.left = Advanced(rs, i).left - 1,
                !.romBus = IF r.kind = "collect" THEN <<r.step, r.pc, i.end>> ELSE <<>>]
  BY DEF ConsumeStep
<1>11. z \in Contexts
  BY <1>0, <1>3, TypeStep
<1>12. StepBus(x, i) = BusStore(BusB(BusA(<<>>, x, i), xa, i), xc, i)
  BY DEF StepBus
<1>13. rs.reads = r.reads /\ rs.left = r.left /\ rs.kind = r.kind
  BY <1>4, <1>6, <1>7, <1>8, <1>9 DEF Keeps
<1>14. s.bus = StepBus(x, i) /\ s.op = <<i.op, xb.a, xb.b>> \o sI
  <2>1. rs.bus = StepBus(x, i) /\ rs.op = <<i.op, xb.a, xb.b>> \o sI
    <3> HIDE DEF ra, rb, rc, rs, xa, xb, xc, sI
    <3> QED
      BY <1>6, <1>7, <1>8, <1>9, <1>12
  <2>2. IsReplay(rs)
    BY <1>9 DEF Follows
  <2> HIDE DEF rs, s, xa, xb, xc, sI
  <2>3. s.bus = rs.bus /\ s.op = rs.op
    BY <1>10, <2>2 DEF Advanced, IsReplay, ReplayFields
  <2> QED
    BY <2>1, <2>3
<1> DEFINE pc == SetPc(y, i)
<1>15. z = [y EXCEPT !.pc = pc, !.end = i.end, !.step = y.step + 1]
  BY DEF Advanced
<1>16. y \in Contexts
  BY <1>1, TypeStored
<1>17. /\ IsReplay(rs) /\ rs.pc = y.pc /\ rs.c = y.c /\ rs.regs = y.regs /\ rs.step = y.step
       /\ rs.panic = FALSE /\ rs.index = a4 /\ a4 \in Nat /\ rs.flag = y.flag
  BY <1>9 DEF Follows
<1> HIDE DEF ra, rb, rc, rs, xa, xb, xc, y, z, s, a4
<1>18. SetPc(rs, i) = pc
  BY <1>17 DEF SetPc
<1> HIDE DEF pc
<1>19. /\ IsReplay(s) /\ s.pc = pc /\ s.c = rs.c /\ s.regs = rs.regs /\ s.step = rs.step + 1
       /\ s.panic = rs.panic /\ s.index = rs.index /\ s.flag = rs.flag /\ s.end = i.end
       /\ s.reads = rs.reads /\ s.left = rs.left - 1 /\ s.kind = rs.kind
  BY <1>10, <1>17, <1>18 DEF Advanced, IsReplay, ReplayFields
<1>20. z.pc = pc /\ z.c = y.c /\ z.regs = y.regs /\ z.step = y.step + 1 /\ z.flag = y.flag /\ z.end = i.end
  BY <1>15, <1>16 DEF Contexts
<1>21. Follows(s, z, a4)
  BY <1>11, <1>17, <1>19, <1>20 DEF Follows
<1>22. StepTrue(r, x, i, at, s)
  BY <1>3, <1>5, <1>13, <1>17, <1>19, <1>20, <1>21 DEF StepTrue
<1>23. StepShown(x, i, s)
  BY <1>14 DEF StepShown, xb, xa, sI
<1> QED
  BY <1>22, <1>23 DEF s

-----------------------------------------------------------------------------
(* The plain run. *)

\* The context after x.
After(x) == IF Stuck(x) THEN x ELSE ParStep(x, rom[x.pc])

\* g holds the contexts of the run up to k.
IsRun(g, mem, k) ==
    g = [n \in 0 .. k |-> IF n = 0 THEN Start(mem) ELSE After(g[n - 1])]

\* What Run chooses.
LEMMA RunDef ==
    ASSUME NEW mem
    PROVE  Run(mem) = CHOOSE g : IsRun(g, mem, MaxSteps)
BY DEF Run, IsRun, After

\* There is such a function.
LEMMA RunExists ==
    ASSUME NEW mem
    PROVE  \E g : IsRun(g, mem, MaxSteps)
<1> DEFINE T == {k \in Nat : \E g : IsRun(g, mem, k)}
<1>1. 0 \in T
  <2> DEFINE g == [n \in 0 .. 0 |-> Start(mem)]
  <2>1. IsRun(g, mem, 0)
    BY DEF IsRun
  <2> QED
    BY <2>1
<1>2. ASSUME NEW k \in Nat, k \in T PROVE k + 1 \in T
  <2>1. PICK g : IsRun(g, mem, k)
    BY <1>2
  <2> DEFINE h == [n \in 0 .. k + 1 |-> IF n = k + 1 THEN After(g[k]) ELSE g[n]]
  <2>2. ASSUME NEW n \in 0 .. k + 1
        PROVE  h[n] = IF n = 0 THEN Start(mem) ELSE After(h[n - 1])
    <3>1. CASE n = k + 1
      <4>1. n # 0 /\ n - 1 = k /\ k \in 0 .. k + 1 /\ k # k + 1
        BY <3>1
      <4>2. h[k] = g[k] /\ h[n] = After(g[k])
        BY <3>1, <4>1
      <4> QED
        BY <4>1, <4>2
    <3>2. CASE n # k + 1 /\ n # 0
      <4>1. n \in 0 .. k /\ n - 1 \in 0 .. k + 1 /\ n - 1 # k + 1
        BY <3>2
      <4>2. h[n] = g[n] /\ h[n - 1] = g[n - 1]
        BY <3>2, <4>1
      <4>3. g[n] = After(g[n - 1])
        BY <2>1, <3>2, <4>1 DEF IsRun
      <4> QED
        BY <3>2, <4>2, <4>3
    <3>3. CASE n = 0
      <4>1. 0 \in 0 .. k /\ 0 # k + 1 /\ 0 \in 0 .. k + 1
        OBVIOUS
      <4>2. h[0] = g[0] /\ g[0] = Start(mem)
        BY <2>1, <4>1 DEF IsRun
      <4> QED
        BY <3>3, <4>2
    <3> QED
      BY <3>1, <3>2, <3>3
  <2>3. h = [n \in 0 .. k + 1 |-> h[n]]
    OBVIOUS
  <2> HIDE DEF h
  <2>4. IsRun(h, mem, k + 1)
    BY <2>2, <2>3 DEF IsRun
  <2> QED
    BY <2>4
<1> HIDE DEF T
<1>3. \A k \in Nat : k \in T
  BY <1>1, <1>2, SetInduction
<1> QED
  BY <1>3, MinTraceAssumption DEF T

\* How the contexts of the run follow each other.
LEMMA RunStep ==
    ASSUME NEW mem
    PROVE  /\ Run(mem)[0] = Start(mem)
           /\ \A n \in 0 .. MaxSteps - 1 : Run(mem)[n + 1] = After(Run(mem)[n])
<1> DEFINE g == Run(mem)
<1>1. IsRun(g, mem, MaxSteps)
  BY RunDef, RunExists
<1> HIDE DEF g
<1>2. MaxSteps \in Nat
  BY MinTraceAssumption
<1>3. g[0] = Start(mem)
  BY <1>1, <1>2 DEF IsRun
<1>4. ASSUME NEW n \in 0 .. MaxSteps - 1 PROVE g[n + 1] = After(g[n])
  <2>1. n + 1 \in 0 .. MaxSteps /\ n + 1 # 0 /\ (n + 1) - 1 = n
    BY <1>2
  <2>2. g[n + 1] = After(g[(n + 1) - 1])
    BY <1>1, <2>1 DEF IsRun
  <2> QED
    BY <2>1, <2>2
<1> QED
  BY <1>3, <1>4 DEF g

\* A context that is not stuck has an instruction, which does not panic.
LEMMA NotStuck ==
    ASSUME rom \in Programs, NEW x \in Contexts, ~Stuck(x)
    PROVE  /\ ~x.end /\ IsInst(rom[x.pc]) /\ ~Panics(x, rom[x.pc])
           /\ ParStep(x, rom[x.pc]) \in Contexts /\ ParStep(x, rom[x.pc]).step = x.step + 1
<1>1. ~x.end /\ x.pc \in DOMAIN rom /\ ~Panics(x, rom[x.pc])
  BY DEF Stuck
<1>2. IsInst(rom[x.pc])
  BY <1>1, MinTraceAssumption
<1> QED
  BY <1>1, <1>2, StepType

\* Until it is stuck, the run makes a step at a time.
RunTo(g, n) ==
    /\ g[n] \in Contexts /\ g[n].step \in 0 .. n
    /\ g[n] = g[g[n].step]
    /\ g[n].step < n => Stuck(g[n])
    /\ \A m \in 0 .. g[n].step - 1 : g[m].step = m /\ ~Stuck(g[m])

\* This holds for the run of a program from any memory.
LEMMA RunFacts ==
    ASSUME rom \in Programs, NEW mem \in Memories, NEW g, g = Run(mem)
    PROVE  \A n \in 0 .. MaxSteps : RunTo(g, n)
<1> DEFINE T == {k \in Nat : k <= MaxSteps => RunTo(g, k)}
<1>0. MaxSteps \in Nat
  BY MinTraceAssumption
<1>1. 0 \in T
  <2>1. g[0] \in Contexts /\ g[0].step = 0
    BY RunStep, TypeStart
  <2>2. RunTo(g, 0)
    BY <2>1 DEF RunTo
  <2> QED
    BY <2>2
<1>2. ASSUME NEW k \in Nat, k \in T PROVE k + 1 \in T
  <2> SUFFICES ASSUME k + 1 <= MaxSteps PROVE RunTo(g, k + 1)
    OBVIOUS
  <2>1. k \in 0 .. MaxSteps - 1 /\ k <= MaxSteps
    BY <1>0, <1>2
  <2>2. g[k + 1] = After(g[k])
    BY <2>1, RunStep
  <2>3. RunTo(g, k)
    BY <1>2, <2>1
  <2> DEFINE s == g[k].step
  <2>4. /\ g[k] \in Contexts /\ s \in 0 .. k /\ g[k] = g[s] /\ (s < k => Stuck(g[k]))
        /\ \A m \in 0 .. s - 1 : g[m].step = m /\ ~Stuck(g[m])
    BY <2>3 DEF RunTo
  <2>5. CASE Stuck(g[k])
    <3>1. g[k + 1] = g[k]
      BY <2>2, <2>5 DEF After
    <3>2. s \in 0 .. k + 1
      BY <2>4
    <3> QED
      BY <2>4, <2>5, <3>1, <3>2 DEF RunTo
  <2>6. CASE ~Stuck(g[k])
    <3>1. g[k + 1] = ParStep(g[k], rom[g[k].pc])
      BY <2>2, <2>6 DEF After
    <3>2. g[k + 1] \in Contexts /\ g[k + 1].step = s + 1
      BY <2>4, <2>6, <3>1, NotStuck
    <3>3. s = k
      BY <2>4, <2>6
    <3> HIDE DEF s
    <3>4. ASSUME NEW m \in 0 .. (k + 1) - 1 PROVE g[m].step = m /\ ~Stuck(g[m])
      <4>1. CASE m = k
        BY <2>6, <3>3, <4>1 DEF s
      <4>2. CASE m # k
        <5>1. m \in 0 .. s - 1
          BY <3>3, <4>2
        <5> QED
          BY <2>4, <5>1
      <4> QED
        BY <4>1, <4>2
    <3>5. g[k + 1].step = k + 1 /\ k + 1 \in 0 .. k + 1 /\ ~(k + 1 < k + 1)
      BY <3>2, <3>3
    <3> QED
      BY <3>2, <3>4, <3>5 DEF RunTo
  <2> QED
    BY <2>5, <2>6
<1> HIDE DEF T
<1>3. \A k \in Nat : k \in T
  BY <1>1, <1>2, SetInduction
<1> QED
  BY <1>0, <1>3 DEF T

\* exec is a run of the program from its start to its end.
ExecOK ==
    /\ exec \in Seq(Contexts) /\ TotalSteps \in Nat
    /\ \A n \in 0 .. TotalSteps : exec[n + 1] \in Contexts /\ exec[n + 1].step = n
    /\ \A n \in 0 .. TotalSteps - 1 :
            LET x == exec[n + 1]
                i == rom[x.pc]
            IN  ~x.end /\ IsInst(i) /\ ~Panics(x, i) /\ exec[n + 2] = ParStep(x, i)
    /\ exec[TotalSteps + 1].end

\* Init chooses such a run, and every thread of the emulator starts where it starts.
LEMMA ExecInit ==
    ASSUME Init
    PROVE  /\ ExecOK
           /\ by = "emulator" => \A t \in Threads : emu[t] = exec[1]
<1>0. rom \in Programs
  BY DEF Init
<1>1. PICK mem \in Memories : \E run \in {Run(mem)} :
        /\ run[MaxSteps].end
        /\ exec = [n \in 1 .. run[MaxSteps].step + 1 |-> run[n - 1]]
        /\ emu = [t \in Threads |->
                    IF by = "emulator" THEN run[0]
                    ELSE ChunkStart(AsmInit(mem, NumSteps, t), NumThreads)]
  BY DEF Init
<1> DEFINE g == Run(mem)
           s == g[MaxSteps].step
<1>2. /\ g[MaxSteps].end /\ exec = [n \in 1 .. s + 1 |-> g[n - 1]]
      /\ emu = [t \in Threads |->
                    IF by = "emulator" THEN g[0]
                    ELSE ChunkStart(AsmInit(mem, NumSteps, t), NumThreads)]
  BY <1>1
<1>3. MaxSteps \in Nat /\ MaxSteps \in 0 .. MaxSteps
  BY MinTraceAssumption
<1>4. \A n \in 0 .. MaxSteps : RunTo(g, n)
  BY <1>0, RunFacts
<1>5. \A n \in 0 .. MaxSteps - 1 : g[n + 1] = After(g[n])
  BY RunStep
<1> HIDE DEF g
<1>6. /\ s \in 0 .. MaxSteps /\ g[MaxSteps] = g[s]
      /\ \A m \in 0 .. s - 1 : g[m].step = m /\ ~Stuck(g[m])
  BY <1>3, <1>4 DEF RunTo
<1>7. g[s].step = s /\ g[s].end
  BY <1>2, <1>6
<1> HIDE DEF s
<1>8. \A n \in 0 .. s : exec[n + 1] = g[n] /\ n + 1 \in 1 .. s + 1
  <2> TAKE n \in 0 .. s
  <2>1. n + 1 \in 1 .. s + 1 /\ (n + 1) - 1 = n
    BY <1>6
  <2> QED
    BY <1>2, <2>1
<1>9. exec \in Seq(Contexts) /\ Len(exec) = s + 1 /\ TotalSteps = s /\ TotalSteps \in Nat
  <2>1. ASSUME NEW n \in 1 .. s + 1 PROVE g[n - 1] \in Contexts
    <3>1. n - 1 \in 0 .. MaxSteps
      BY <1>3, <1>6
    <3> QED
      BY <1>4, <3>1 DEF RunTo
  <2>2. exec \in Seq(Contexts) /\ Len(exec) = s + 1
    <3>1. s + 1 \in Nat
      BY <1>6
    <3> QED
      BY <1>2, <2>1, <3>1
  <2> QED
    BY <1>6, <2>2 DEF TotalSteps
<1>10. ASSUME NEW n \in 0 .. TotalSteps PROVE exec[n + 1] \in Contexts /\ exec[n + 1].step = n
  <2>1. n \in 0 .. s /\ n \in 0 .. MaxSteps /\ (n = s \/ n \in 0 .. s - 1)
    BY <1>3, <1>6, <1>9
  <2>2. exec[n + 1] = g[n]
    BY <1>8, <2>1
  <2>3. g[n] \in Contexts
    BY <1>4, <2>1 DEF RunTo
  <2>4. g[n].step = n
    BY <1>6, <1>7, <2>1
  <2> QED
    BY <2>2, <2>3, <2>4
<1>11. ASSUME NEW n \in 0 .. TotalSteps - 1
       PROVE  LET x == exec[n + 1]
                  i == rom[x.pc]
              IN  ~x.end /\ IsInst(i) /\ ~Panics(x, i) /\ exec[n + 2] = ParStep(x, i)
  <2>1. n \in 0 .. s - 1 /\ n \in 0 .. s /\ n + 1 \in 0 .. s /\ n \in 0 .. MaxSteps - 1 /\ (n + 1) + 1 = n + 2
    BY <1>3, <1>6, <1>9
  <2>2. exec[n + 1] = g[n] /\ exec[(n + 1) + 1] = g[n + 1]
    BY <1>8, <2>1
  <2>3. ~Stuck(g[n])
    BY <1>6, <2>1
  <2>4. g[n + 1] = ParStep(g[n], rom[g[n].pc])
    BY <1>5, <2>1, <2>3 DEF After
  <2>5. g[n] \in Contexts
    BY <1>3, <1>4, <2>1 DEF RunTo
  <2>6. ~g[n].end /\ IsInst(rom[g[n].pc]) /\ ~Panics(g[n], rom[g[n].pc])
    BY <1>0, <2>3, <2>5, NotStuck
  <2> QED
    BY <2>1, <2>2, <2>4, <2>6
<1>12. exec[TotalSteps + 1].end
  <2>1. s \in 0 .. s
    BY <1>6
  <2> QED
    BY <1>7, <1>8, <1>9, <2>1
<1>13. ExecOK
  BY <1>9, <1>10, <1>11, <1>12 DEF ExecOK
<1>14. by = "emulator" => \A t \in Threads : emu[t] = exec[1]
  <2>1. 0 \in 0 .. s
    BY <1>6
  <2>2. exec[0 + 1] = g[0] /\ 0 + 1 = 1
    BY <1>8, <2>1
  <2> QED
    BY <1>2, <2>2
<1> QED
  BY <1>13, <1>14

-----------------------------------------------------------------------------
(* Recording. *)

\* The words that step n reads.
StepWords(n) == StepReads(exec[n + 1], rom[exec[n + 1].pc])

\* How many words the first n steps read.
Before(n) == SumTo([m \in 1 .. TotalSteps |-> Len(StepWords(m - 1))], n)

\* The states that a trace can start from.
Starts == [pc : Words, c : Words, step : Nat, regs : [Regs -> Words]]

\* The traces that can be recorded.
Traces == [start : Starts, lastC : Words, steps : Nat, reads : Seq(Words), end : BOOLEAN]

\* The trace has the start of step from and the words of the steps up to to.
Covers(tr, from, to) ==
    /\ tr \in Traces /\ tr.start = StartState(exec[from + 1]) /\ tr.steps = to - from
    /\ Len(tr.reads) = Before(to) - Before(from)
    /\ \A n \in from .. to - 1 : Holds(tr.reads, Before(n) - Before(from), StepWords(n))

\* It also has what was reached.
Describes(tr, from, to) ==
    /\ Covers(tr, from, to)
    /\ tr.lastC = exec[to + 1].c /\ tr.end = exec[to + 1].end

\* Step n.
LEMMA ExecStep ==
    ASSUME ExecOK, NEW n \in 0 .. TotalSteps - 1, NEW x, x = exec[n + 1]
    PROVE  /\ TotalSteps \in Nat /\ n \in Nat /\ n \in 0 .. TotalSteps /\ n + 1 \in 0 .. TotalSteps
           /\ x \in Contexts /\ x.step = n /\ ~x.end
           /\ IsInst(rom[x.pc]) /\ ~Panics(x, rom[x.pc])
           /\ exec[(n + 1) + 1] = ParStep(x, rom[x.pc])
           /\ StepWords(n) = StepReads(x, rom[x.pc]) /\ StepWords(n) \in Seq(Words)
<1>1. TotalSteps \in Nat
  BY DEF ExecOK
<1>2. n \in Nat /\ n \in 0 .. TotalSteps /\ n + 1 \in 0 .. TotalSteps /\ (n + 1) + 1 = n + 2
  BY <1>1
<1>3. x \in Contexts /\ x.step = n
  BY <1>2 DEF ExecOK
<1>4. ~x.end /\ IsInst(rom[x.pc]) /\ ~Panics(x, rom[x.pc]) /\ exec[n + 2] = ParStep(x, rom[x.pc])
  BY DEF ExecOK
<1>5. StepWords(n) = StepReads(x, rom[x.pc])
  BY DEF StepWords
<1>6. StepReads(x, rom[x.pc]) \in Seq(Words)
  BY <1>3, <1>4, ReadsType
<1> QED
  BY <1>1, <1>2, <1>3, <1>4, <1>5, <1>6

\* The words read before a step.
LEMMA BeforeStep ==
    ASSUME ExecOK
    PROVE  /\ Before(0) = 0
           /\ \A n \in 0 .. TotalSteps : Before(n) \in Nat
           /\ \A n \in 0 .. TotalSteps - 1 : Before(n + 1) = Before(n) + Len(StepWords(n))
           /\ \A n \in 0 .. TotalSteps : \A m \in n .. TotalSteps : Before(n) <= Before(m)
<1> DEFINE f == [m \in 1 .. TotalSteps |-> Len(StepWords(m - 1))]
<1>0. TotalSteps \in Nat
  BY DEF ExecOK
<1>1. ASSUME NEW m \in 1 .. TotalSteps PROVE Len(StepWords(m - 1)) \in Nat
  <2>1. m - 1 \in 0 .. TotalSteps - 1
    BY <1>0
  <2>2. StepWords(m - 1) \in Seq(Words)
    BY <2>1, ExecStep
  <2> QED
    BY <2>2
<1>2. Terms(f, TotalSteps)
  BY <1>1 DEF Terms
<1>3. \A n : Before(n) = SumTo(f, n)
  BY DEF Before
<1>4. ASSUME NEW n \in 0 .. TotalSteps - 1 PROVE f[n + 1] = Len(StepWords(n))
  <2>1. n + 1 \in 1 .. TotalSteps /\ (n + 1) - 1 = n
    BY <1>0
  <2> QED
    BY <2>1
<1> HIDE DEF f
<1>5. \A n \in 0 .. TotalSteps : n \in Nat /\ Terms(f, n)
  BY <1>0, <1>2 DEF Terms
<1>6. SumTo(f, 0) = 0 /\ \A n \in 0 .. TotalSteps : SumTo(f, n) \in Nat
  BY <1>0, <1>2, <1>5, SumToStep
<1>7. ASSUME NEW n \in 0 .. TotalSteps - 1 PROVE SumTo(f, n + 1) = SumTo(f, n) + Len(StepWords(n))
  <2> DEFINE l == n + 1
  <2>1. l \in 0 .. TotalSteps /\ l > 0 /\ l - 1 = n
    BY <1>0
  <2>2. l \in Nat /\ Terms(f, l)
    BY <1>5, <2>1
  <2>3. f[l] = Len(StepWords(n))
    BY <1>4
  <2> HIDE DEF l
  <2>4. SumTo(f, l) = SumTo(f, l - 1) + f[l]
    BY <2>1, <2>2, SumToStep
  <2> QED
    BY <2>1, <2>3, <2>4 DEF l
<1>8. ASSUME NEW n \in 0 .. TotalSteps, NEW m \in n .. TotalSteps PROVE SumTo(f, n) <= SumTo(f, m)
  BY <1>0, <1>2, SumGrows
<1> QED
  BY <1>3, <1>6, <1>7, <1>8

\* More words behind those that are there.
LEMMA HoldsMore ==
    ASSUME NEW reads \in Seq(Words), NEW more \in Seq(Words)
    PROVE  /\ reads \o more \in Seq(Words) /\ Len(reads \o more) = Len(reads) + Len(more)
           /\ Holds(reads \o more, Len(reads), more)
           /\ \A at, seq : Holds(reads, at, seq) => Holds(reads \o more, at, seq)
<1>1. /\ Len(reads \o more) = Len(reads) + Len(more) /\ reads \o more \in Seq(Words)
      /\ Len(reads) \in Nat /\ Len(more) \in Nat
      /\ \A k \in 1 .. Len(reads) : (reads \o more)[k] = reads[k]
      /\ \A k \in 1 .. Len(more) : (reads \o more)[Len(reads) + k] = more[k]
  OBVIOUS
<1> DEFINE u == reads \o more
<1> HIDE DEF u
<1>2. Holds(u, Len(reads), more)
  BY <1>1 DEF Holds, u
<1>3. ASSUME NEW at, NEW seq, Holds(reads, at, seq) PROVE Holds(u, at, seq)
  <2>1. at \in Nat /\ seq \in Seq(Words) /\ at + Len(seq) <= Len(reads) /\ Len(seq) \in Nat
        /\ \A k \in 1 .. Len(seq) : reads[at + k] = seq[k]
    BY <1>3 DEF Holds
  <2>2. ASSUME NEW k \in 1 .. Len(seq) PROVE u[at + k] = seq[k]
    <3>1. at + k \in 1 .. Len(reads)
      BY <1>1, <2>1
    <3>2. u[at + k] = reads[at + k]
      BY <1>1, <3>1 DEF u
    <3> QED
      BY <2>1, <3>2
  <2>3. u \in Seq(Words) /\ at + Len(seq) <= Len(u)
    BY <1>1, <2>1 DEF u
  <2> QED
    BY <2>1, <2>2, <2>3 DEF Holds
<1> QED
  BY <1>1, <1>2, <1>3 DEF u

\* A new trace.
LEMMA NewCovers ==
    ASSUME ExecOK, NEW k \in 0 .. TotalSteps, NEW x, SameBarB(exec[k + 1], x)
    PROVE  Covers(NewTrace(x), k, k)
<1>1. StartState(x) = StartState(exec[k + 1]) /\ x \in Contexts
  BY SameWithB DEF StartState, SameBarB
<1>2. StartState(x) \in Starts
  BY <1>1 DEF Starts, StartState, Contexts
<1>3. TotalSteps \in Nat /\ k \in Nat /\ Before(k) \in Nat
  BY BeforeStep DEF ExecOK
<1> DEFINE tr == NewTrace(x)
<1>4. tr = [start |-> StartState(x), lastC |-> 0, steps |-> 0, reads |-> <<>>, end |-> FALSE]
  BY DEF NewTrace
<1> HIDE DEF tr
<1>5. tr \in Traces
  BY <1>2, <1>4, Lengths DEF Traces
<1>6. tr.start = StartState(x) /\ tr.steps = 0 /\ tr.reads = <<>>
  BY <1>4
<1>7. k - k = 0 /\ Before(k) - Before(k) = 0 /\ Len(tr.reads) = 0 /\ ~\E n \in k .. k - 1 : TRUE
  BY <1>3, <1>6
<1> QED
  BY <1>1, <1>5, <1>6, <1>7 DEF Covers, tr

\* One more step of a trace.
LEMMA MoreCovers ==
    ASSUME ExecOK, NEW from \in 0 .. TotalSteps, NEW k \in from .. TotalSteps - 1, NEW tr, Covers(tr, from, k),
           NEW nt, nt = [tr EXCEPT !.reads = tr.reads \o StepWords(k), !.lastC = exec[(k + 1) + 1].c,
                                   !.end = exec[(k + 1) + 1].end, !.steps = tr.steps + 1]
    PROVE  Describes(nt, from, k + 1)
<1> DEFINE w == StepWords(k)
           y == exec[(k + 1) + 1]
           reads == tr.reads \o w
<1>0. /\ tr \in Traces /\ tr.start = StartState(exec[from + 1]) /\ tr.steps = k - from
      /\ Len(tr.reads) = Before(k) - Before(from)
      /\ \A n \in from .. k - 1 : Holds(tr.reads, Before(n) - Before(from), StepWords(n))
  BY DEF Covers
<1>1. TotalSteps \in Nat /\ k \in 0 .. TotalSteps - 1 /\ from \in Nat /\ k \in 0 .. TotalSteps
      /\ k + 1 \in 0 .. TotalSteps /\ k \in Nat
  BY DEF ExecOK
<1>2. w \in Seq(Words)
  BY <1>1, ExecStep
<1>3. y \in Contexts
  BY <1>1 DEF ExecOK
<1>4. y.c \in Words /\ y.end \in BOOLEAN
  BY <1>3 DEF Contexts
<1>5. tr.reads \in Seq(Words) /\ tr.steps \in Nat
  BY <1>0 DEF Traces
<1>6. /\ reads \in Seq(Words) /\ Len(reads) = Len(tr.reads) + Len(w) /\ Holds(reads, Len(tr.reads), w)
      /\ \A at, seq : Holds(tr.reads, at, seq) => Holds(reads, at, seq)
  BY <1>2, <1>5, HoldsMore
<1>7. Before(k + 1) = Before(k) + Len(w) /\ Before(k) \in Nat /\ Before(from) \in Nat /\ Len(w) \in Nat
  BY <1>1, <1>2, BeforeStep
<1> HIDE DEF w, y, reads
<1>8. nt = [tr EXCEPT !.reads = reads, !.lastC = y.c, !.end = y.end, !.steps = tr.steps + 1]
  BY DEF reads, y, w
<1>9. /\ nt \in Traces /\ nt.start = tr.start /\ nt.steps = tr.steps + 1 /\ nt.reads = reads
      /\ nt.lastC = y.c /\ nt.end = y.end
  <2> DEFINE c == y.c
             e == y.end
             l == tr.steps + 1
  <2>1. c \in Words /\ e \in BOOLEAN /\ l \in Nat
    BY <1>4, <1>5
  <2>2. nt = [tr EXCEPT !.reads = reads, !.lastC = c, !.end = e, !.steps = l]
    BY <1>8
  <2> HIDE DEF c, e, l
  <2>3. nt \in Traces
    BY <1>0, <1>6, <2>1, <2>2 DEF Traces
  <2>4. nt.start = tr.start /\ nt.steps = l /\ nt.reads = reads /\ nt.lastC = c /\ nt.end = e
    BY <1>0, <2>2 DEF Traces
  <2> QED
    BY <2>3, <2>4 DEF c, e, l
<1>10. nt.steps = (k + 1) - from /\ Len(nt.reads) = Before(k + 1) - Before(from)
  <2>1. nt.steps = (k + 1) - from
    BY <1>0, <1>1, <1>9
  <2>2. Len(nt.reads) = (Before(k) - Before(from)) + Len(w)
    BY <1>0, <1>6, <1>9
  <2> QED
    BY <1>7, <2>1, <2>2
<1>11. ASSUME NEW n \in from .. (k + 1) - 1
       PROVE  Holds(nt.reads, Before(n) - Before(from), StepWords(n))
  <2>1. CASE n = k
    BY <1>0, <1>6, <1>9, <2>1 DEF w
  <2>2. CASE n # k
    <3>1. n \in from .. k - 1
      BY <1>1, <2>2
    <3> QED
      BY <1>0, <1>6, <1>9, <3>1
  <2> QED
    BY <2>1, <2>2
<1>12. Covers(nt, from, k + 1)
  BY <1>0, <1>9, <1>10, <1>11 DEF Covers
<1> QED
  BY <1>9, <1>12 DEF Describes, y

\* The block that is the p-th of thread t.
BlockOf(t, p) == t + NumThreads * (p - 1)

\* Its first step.
BlockStart(t, p) == NumSteps * BlockOf(t, p)

\* How far a block has got when k steps have been made.
BlockEnd(from, k) == IF from + NumSteps < k THEN from + NumSteps ELSE k

\* A block has steps, and there is a thread.
LEMMA Sizes == NumSteps \in Nat \ {0} /\ NumThreads \in Nat \ {0}
BY MinTraceAssumption

\* Blocks of a thread lie apart.
LEMMA BlocksApart ==
    ASSUME NEW t \in Threads, NEW p \in Nat \ {0}
    PROVE  /\ t \in Nat /\ t < NumThreads /\ BlockOf(t, p) \in Nat /\ BlockStart(t, p) \in Nat
           /\ \A q \in Nat \ {0} : p < q => BlockStart(t, p) + NumSteps <= BlockStart(t, q)
<1>1. t \in Nat /\ t < NumThreads
  BY Sizes DEF Threads
<1>2. ASSUME NEW q \in Nat \ {0} PROVE NumThreads * (q - 1) \in Nat /\ BlockOf(t, q) \in Nat /\ BlockStart(t, q) \in Nat
  <2>1. NumThreads * (q - 1) \in Nat
    BY Sizes
  <2>2. BlockOf(t, q) \in Nat
    BY <1>1, <2>1 DEF BlockOf
  <2> QED
    BY <2>1, <2>2, Sizes DEF BlockStart
<1>3. ASSUME NEW q \in Nat \ {0}, p < q PROVE BlockStart(t, p) + NumSteps <= BlockStart(t, q)
  <2> DEFINE a == BlockOf(t, p)
             b == BlockOf(t, q)
  <2>1. NumThreads * (q - 1) = NumThreads * (p - 1) + NumThreads + NumThreads * (q - p - 1)
    BY <1>3, Sizes
  <2>2. NumThreads * (q - p - 1) \in Nat
    BY <1>3, Sizes
  <2>3. a + 1 <= b /\ a \in Nat /\ b \in Nat
    BY <1>1, <1>2, <2>1, <2>2, Sizes DEF BlockOf
  <2> HIDE DEF a, b
  <2>4. NumSteps * (a + 1) <= NumSteps * b
    <3> DEFINE d == a + 1
    <3>1. d \in Nat /\ d <= b
      BY <2>3
    <3> HIDE DEF d
    <3>2. NumSteps * d <= NumSteps * b
      BY <2>3, <3>1, Sizes, TimesUp
    <3> QED
      BY <3>2 DEF d
  <2>5. NumSteps * (a + 1) = NumSteps * a + NumSteps
    BY <2>3, Sizes
  <2> QED
    BY <2>4, <2>5 DEF BlockStart, a, b
<1> QED
  BY <1>1, <1>2, <1>3

\* A step that is in a block of the thread.
LEMMA MyBlock ==
    ASSUME NEW t \in Threads, NEW k \in Nat, (k \div NumSteps) % NumThreads = t
    PROVE  \E p \in Nat \ {0} : /\ BlockStart(t, p) <= k /\ k < BlockStart(t, p) + NumSteps
                                /\ k % NumSteps = 0 <=> k = BlockStart(t, p)
<1>1. PICK b \in Nat, r \in 0 .. NumSteps - 1 :
        k \div NumSteps = b /\ k % NumSteps = r /\ NumSteps * b \in Nat /\ k = NumSteps * b + r
  BY Sizes, DivIs
<1>2. PICK q \in Nat, z \in 0 .. NumThreads - 1 :
        b \div NumThreads = q /\ b % NumThreads = z /\ NumThreads * q \in Nat /\ b = NumThreads * q + z
  BY Sizes, DivIs
<1>3. z = t
  BY <1>1, <1>2
<1> DEFINE p == q + 1
<1>4. p \in Nat \ {0} /\ p - 1 = q
  OBVIOUS
<1> HIDE DEF p
<1>5. BlockOf(t, p) = b
  BY <1>2, <1>3, <1>4 DEF BlockOf
<1>6. BlockStart(t, p) = NumSteps * b
  BY <1>5 DEF BlockStart
<1> QED
  BY <1>1, <1>4, <1>6, Sizes

\* The block of a step is the thread's own.
LEMMA InBlock ==
    ASSUME NEW t \in Threads, NEW k \in Nat, NEW p \in Nat \ {0},
           BlockStart(t, p) <= k, k < BlockStart(t, p) + NumSteps
    PROVE  (k \div NumSteps) % NumThreads = t
<1> DEFINE b == BlockOf(t, p)
           r == k - NumSteps * b
           q == p - 1
<1>1. b \in Nat /\ NumSteps * b \in Nat /\ t \in Nat /\ t < NumThreads /\ q \in Nat /\ t \in 0 .. NumThreads - 1
  BY BlocksApart, Sizes DEF BlockStart, Threads
<1>2. r \in 0 .. NumSteps - 1 /\ k = r + NumSteps * b
  BY <1>1, Sizes DEF BlockStart
<1>3. b = t + NumThreads * q
  BY DEF BlockOf
<1> HIDE DEF b, r, q
<1>4. k \div NumSteps = b
  BY <1>1, <1>2, Sizes, DivMod
<1>5. b % NumThreads = t
  BY <1>1, <1>3, Sizes, DivMod
<1> QED
  BY <1>4, <1>5

\* What thread t has recorded when its context is x.
ThreadRec(t, x, ts) ==
    /\ x.step \in 0 .. TotalSteps /\ SameBarB(exec[x.step + 1], x) /\ ts \in Seq(Traces)
    /\ \A p \in Nat \ {0} : p <= Len(ts) <=> BlockStart(t, p) < x.step
    /\ \A p \in 1 .. Len(ts) :
            Describes(ts[p], BlockStart(t, p), BlockEnd(BlockStart(t, p), x.step))

\* The context of a thread that has not ended.
LEMMA ThreadStep ==
    ASSUME ExecOK, NEW t \in Threads, NEW x, NEW ts, ThreadRec(t, x, ts), ~x.end, NEW k, k = x.step
    PROVE  /\ k \in 0 .. TotalSteps - 1 /\ k \in Nat /\ SameBarB(exec[k + 1], x)
           /\ SameBarB(exec[(k + 1) + 1], ParStep(x, rom[x.pc]))
           /\ SameBarB(exec[(k + 1) + 1], ParStepMyBlock(x, rom[x.pc]))
           /\ ParStep(x, rom[x.pc]).step = k + 1 /\ ParStepMyBlock(x, rom[x.pc]).step = k + 1
           /\ StepReads(x, rom[x.pc]) = StepWords(k)
<1>1. k \in 0 .. TotalSteps /\ SameBarB(exec[k + 1], x) /\ TotalSteps \in Nat
  BY DEF ThreadRec, ExecOK
<1> DEFINE z == exec[k + 1]
<1>2. z.end = x.end /\ z.pc = x.pc
  BY <1>1, SameWithB
<1>3. exec[TotalSteps + 1].end
  BY DEF ExecOK
<1>4. k \in 0 .. TotalSteps - 1
  BY <1>1, <1>2, <1>3
<1>5. /\ IsInst(rom[z.pc]) /\ ~Panics(z, rom[z.pc]) /\ exec[(k + 1) + 1] = ParStep(z, rom[z.pc])
      /\ StepWords(k) = StepReads(z, rom[z.pc]) /\ k + 1 \in 0 .. TotalSteps /\ k \in Nat
  BY <1>4, ExecStep
<1>6. SameBarB(ParStep(z, rom[z.pc]), ParStepMyBlock(x, rom[z.pc])) /\ SameBarB(ParStep(z, rom[z.pc]), ParStep(x, rom[z.pc]))
  BY <1>1, <1>5, SameMyBlock
<1>7. StepReads(x, rom[z.pc]) = StepReads(z, rom[z.pc])
  BY <1>1, SameStep
<1>8. exec[(k + 1) + 1].step = k + 1
  BY <1>5 DEF ExecOK
<1> HIDE DEF z
<1>9. ParStep(x, rom[x.pc]).step = k + 1 /\ ParStepMyBlock(x, rom[x.pc]).step = k + 1
  BY <1>2, <1>5, <1>6, <1>8, SameWithB
<1> QED
  BY <1>1, <1>2, <1>4, <1>5, <1>6, <1>7, <1>9

\* A step in a block of another thread.
LEMMA OtherBlock ==
    ASSUME ExecOK, NEW t \in Threads, NEW x, NEW ts, ThreadRec(t, x, ts), ~x.end, ~IsMyBlock(x, t)
    PROVE  ThreadRec(t, ParStep(x, rom[x.pc]), ts)
<1> DEFINE k == x.step
           y == ParStep(x, rom[x.pc])
<1>1. k \in 0 .. TotalSteps - 1 /\ k \in Nat /\ SameBarB(exec[(k + 1) + 1], y) /\ y.step = k + 1
  BY ThreadStep
<1>2. TotalSteps \in Nat /\ k + 1 \in 0 .. TotalSteps
  BY <1>1 DEF ExecOK
<1>3. /\ ts \in Seq(Traces) /\ \A p \in Nat \ {0} : p <= Len(ts) <=> BlockStart(t, p) < k
      /\ \A p \in 1 .. Len(ts) : Describes(ts[p], BlockStart(t, p), BlockEnd(BlockStart(t, p), k))
  BY DEF ThreadRec
<1> HIDE DEF k, y
<1>4. ASSUME NEW p \in Nat \ {0}
      PROVE  BlockStart(t, p) \in Nat /\ ~(BlockStart(t, p) <= k /\ k < BlockStart(t, p) + NumSteps)
  BY <1>1, BlocksApart, InBlock DEF IsMyBlock, k
<1>5. \A p \in Nat \ {0} : p <= Len(ts) <=> BlockStart(t, p) < k + 1
  <2> TAKE p \in Nat \ {0}
  <2>1. BlockStart(t, p) < k + 1 <=> BlockStart(t, p) < k
    BY <1>1, <1>4, Sizes
  <2> QED
    BY <1>3, <2>1
<1>6. ASSUME NEW p \in 1 .. Len(ts)
      PROVE  Describes(ts[p], BlockStart(t, p), BlockEnd(BlockStart(t, p), k + 1))
  <2>1. p \in Nat \ {0} /\ p <= Len(ts)
    BY <1>3
  <2>2. BlockStart(t, p) < k /\ BlockStart(t, p) \in Nat /\ BlockStart(t, p) + NumSteps <= k
    <3>1. BlockStart(t, p) < k
      BY <1>3, <2>1
    <3>2. BlockStart(t, p) \in Nat /\ ~(BlockStart(t, p) <= k /\ k < BlockStart(t, p) + NumSteps)
      BY <1>4, <2>1
    <3> QED
      BY <1>1, <3>1, <3>2, Sizes
  <2>3. BlockEnd(BlockStart(t, p), k + 1) = BlockEnd(BlockStart(t, p), k)
    BY <1>1, <2>2, Sizes DEF BlockEnd
  <2> QED
    BY <1>3, <2>3
<1> QED
  BY <1>1, <1>2, <1>3, <1>5, <1>6 DEF ThreadRec, y

\* The traces when the block of step k, the p-th, is open.
IsOpen(op, t, p, k) ==
    /\ op \in Seq(Traces) /\ Len(op) = p /\ Covers(op[p], BlockStart(t, p), k)
    /\ \A q \in 1 .. p - 1 : Describes(op[q], BlockStart(t, q), BlockEnd(BlockStart(t, q), k))

\* The trace of the block that a step is in: the last one.
LEMMA Opened ==
    ASSUME ExecOK, NEW t \in Threads, NEW x, NEW ts, ThreadRec(t, x, ts), ~x.end, NEW k, k = x.step,
           NEW p \in Nat \ {0}, BlockStart(t, p) <= k, k < BlockStart(t, p) + NumSteps,
           k % NumSteps = 0 <=> k = BlockStart(t, p),
           NEW op, op = IF k % NumSteps = 0 THEN Append(ts, NewTrace(x)) ELSE ts
    PROVE  IsOpen(op, t, p, k)
<1>1. k \in 0 .. TotalSteps - 1 /\ k \in Nat /\ SameBarB(exec[k + 1], x) /\ TotalSteps \in Nat
  BY ThreadStep DEF ExecOK
<1>2. /\ ts \in Seq(Traces) /\ Len(ts) \in Nat /\ \A q \in Nat \ {0} : q <= Len(ts) <=> BlockStart(t, q) < k
      /\ \A q \in 1 .. Len(ts) : Describes(ts[q], BlockStart(t, q), BlockEnd(BlockStart(t, q), k))
  BY DEF ThreadRec
<1>3. BlockStart(t, p) \in Nat
  BY BlocksApart
<1>4. CASE k % NumSteps = 0
  <2>1. k = BlockStart(t, p) /\ op = Append(ts, NewTrace(x))
    BY <1>4
  <2>2. ~(p <= Len(ts))
    BY <1>1, <1>2, <2>1
  <2>3. p > 1 => p - 1 <= Len(ts)
    <3> SUFFICES ASSUME p > 1 PROVE p - 1 <= Len(ts)
      OBVIOUS
    <3> DEFINE q == p - 1
    <3>1. q \in Nat \ {0} /\ q < p
      OBVIOUS
    <3> HIDE DEF q
    <3>2. BlockStart(t, q) \in Nat /\ BlockStart(t, q) + NumSteps <= BlockStart(t, p)
      BY <3>1, BlocksApart
    <3>3. BlockStart(t, q) < k
      BY <1>3, <2>1, <3>2, Sizes
    <3>4. q <= Len(ts)
      BY <1>2, <3>1, <3>3
    <3> QED
      BY <3>4 DEF q
  <2>4. Len(ts) = p - 1
    BY <1>2, <2>2, <2>3
  <2>5. Covers(NewTrace(x), k, k)
    <3>1. k \in 0 .. TotalSteps
      BY <1>1
    <3> QED
      BY <1>1, <3>1, NewCovers
  <2>6. NewTrace(x) \in Traces
    BY <2>5 DEF Covers
  <2> DEFINE nt == NewTrace(x)
  <2> HIDE DEF nt
  <2>7. op \in Seq(Traces) /\ Len(op) = p /\ op[p] = nt /\ \A q \in 1 .. p - 1 : op[q] = ts[q]
    <3>1. nt \in Traces /\ op = Append(ts, nt)
      BY <2>1, <2>6 DEF nt
    <3> QED
      BY <1>2, <2>4, <3>1
  <2> QED
    BY <1>2, <2>1, <2>4, <2>5, <2>7 DEF nt, IsOpen
<1>5. CASE k % NumSteps # 0
  <2>1. op = ts /\ BlockStart(t, p) < k
    BY <1>1, <1>3, <1>5
  <2>2. p <= Len(ts)
    BY <1>2, <2>1
  <2>3. ~(p + 1 <= Len(ts))
    <3> SUFFICES ASSUME p + 1 <= Len(ts) PROVE FALSE
      OBVIOUS
    <3> DEFINE q == p + 1
    <3>1. q \in Nat \ {0} /\ p < q /\ q <= Len(ts)
      OBVIOUS
    <3> HIDE DEF q
    <3>2. BlockStart(t, q) \in Nat /\ BlockStart(t, p) + NumSteps <= BlockStart(t, q)
      BY <3>1, BlocksApart
    <3>3. BlockStart(t, q) < k
      BY <1>2, <3>1
    <3> QED
      BY <1>1, <1>3, <3>2, <3>3, Sizes
  <2>4. Len(ts) = p
    BY <1>2, <2>2, <2>3
  <2>5. BlockEnd(BlockStart(t, p), k) = k
    BY <1>1, <1>3, Sizes DEF BlockEnd
  <2>6. p \in 1 .. Len(ts) /\ \A q \in 1 .. p - 1 : q \in 1 .. Len(ts)
    BY <2>4
  <2>7. Covers(op[p], BlockStart(t, p), k)
    BY <1>2, <2>1, <2>5, <2>6 DEF Describes
  <2> QED
    BY <1>2, <2>1, <2>4, <2>6, <2>7 DEF IsOpen
<1> QED
  BY <1>4, <1>5

\* Record replaces the last trace, the p-th, by nt.
IsRecord(op, x, p, nt) == Record(op, x) = [op EXCEPT ![p] = nt]

\* What Record makes of the last trace.
LEMMA RecordIs ==
    ASSUME NEW x, NEW op \in Seq(Traces), NEW p \in Nat \ {0}, Len(op) = p, NEW w, NEW y, NEW nt,
           w = StepReads(x, rom[x.pc]), y = ParStepMyBlock(x, rom[x.pc]),
           nt = [op[p] EXCEPT !.reads = op[p].reads \o w, !.lastC = y.c, !.end = y.end,
                              !.steps = op[p].steps + 1]
    PROVE  IsRecord(op, x, p, nt)
<1>1. p \in DOMAIN op /\ op[p] \in Traces
  OBVIOUS
<1>2. Record(op, x) = [op EXCEPT ![p].reads = @ \o w, ![p].lastC = y.c, ![p].end = y.end, ![p].steps = @ + 1]
  BY DEF Record
<1>3. DOMAIN op[p] = {"start", "lastC", "steps", "reads", "end"}
  BY <1>1 DEF Traces
<1> QED
  BY <1>1, <1>2, <1>3 DEF IsRecord

\* A sequence with its last element changed.
IsUpdate(T, s, p, e, u) ==
    u \in Seq(T) /\ Len(u) = p /\ u[p] = e /\ \A q \in 1 .. p - 1 : u[q] = s[q]

\* What EXCEPT makes of a sequence.
LEMMA SeqUpdate ==
    ASSUME NEW T, NEW s \in Seq(T), NEW p \in Nat \ {0}, p = Len(s), NEW e \in T, NEW u,
           u = [s EXCEPT ![p] = e]
    PROVE  IsUpdate(T, s, p, e, u)
BY DEF IsUpdate

\* A step in a block of the thread itself.
LEMMA OwnBlock ==
    ASSUME ExecOK, NEW t \in Threads, NEW x, NEW ts, ThreadRec(t, x, ts), ~x.end, IsMyBlock(x, t),
           NEW op, op = IF x.step % NumSteps = 0 THEN Append(ts, NewTrace(x)) ELSE ts
    PROVE  ThreadRec(t, ParStepMyBlock(x, rom[x.pc]), Record(op, x))
<1> DEFINE k == x.step
           y == ParStepMyBlock(x, rom[x.pc])
           w == StepReads(x, rom[x.pc])
<1>1. /\ k \in 0 .. TotalSteps - 1 /\ k \in Nat /\ SameBarB(exec[(k + 1) + 1], y) /\ y.step = k + 1
      /\ w = StepWords(k)
  BY ThreadStep
<1>2. TotalSteps \in Nat /\ k + 1 \in 0 .. TotalSteps
  BY <1>1 DEF ExecOK
<1>3. PICK p \in Nat \ {0} : /\ BlockStart(t, p) <= k /\ k < BlockStart(t, p) + NumSteps
                             /\ k % NumSteps = 0 <=> k = BlockStart(t, p)
  BY <1>1, MyBlock DEF IsMyBlock
<1> DEFINE from == BlockStart(t, p)
           nt == [op[p] EXCEPT !.reads = op[p].reads \o w, !.lastC = y.c, !.end = y.end,
                               !.steps = op[p].steps + 1]
           new == Record(op, x)
<1>4. /\ op \in Seq(Traces) /\ Len(op) = p /\ Covers(op[p], from, k)
      /\ \A q \in 1 .. p - 1 : Describes(op[q], BlockStart(t, q), BlockEnd(BlockStart(t, q), k))
  <2>1. k = x.step /\ op = IF k % NumSteps = 0 THEN Append(ts, NewTrace(x)) ELSE ts
    OBVIOUS
  <2> HIDE DEF k
  <2>2. IsOpen(op, t, p, k)
    BY <1>3, <2>1, Opened
  <2> QED
    BY <2>2 DEF IsOpen
<1>5. new = [op EXCEPT ![p] = nt]
  <2>1. /\ w = StepReads(x, rom[x.pc]) /\ y = ParStepMyBlock(x, rom[x.pc])
        /\ nt = [op[p] EXCEPT !.reads = op[p].reads \o w, !.lastC = y.c, !.end = y.end,
                              !.steps = op[p].steps + 1]
    OBVIOUS
  <2> HIDE DEF w, y, nt
  <2>2. IsRecord(op, x, p, nt)
    BY <1>4, <2>1, RecordIs
  <2> QED
    BY <2>2 DEF IsRecord, new
<1> HIDE DEF k, w, new
<1>6. exec[(k + 1) + 1].c = y.c /\ exec[(k + 1) + 1].end = y.end
  <2> HIDE DEF y
  <2> QED
    BY <1>1, SameWithB
<1>7. from \in Nat /\ from \in 0 .. TotalSteps /\ k \in from .. TotalSteps - 1
  BY <1>1, <1>2, <1>3, BlocksApart
<1>8. Describes(nt, from, k + 1)
  <2>1. nt = [op[p] EXCEPT !.reads = op[p].reads \o StepWords(k), !.lastC = exec[(k + 1) + 1].c,
                           !.end = exec[(k + 1) + 1].end, !.steps = op[p].steps + 1]
    BY <1>1, <1>6
  <2> DEFINE tr == op[p]
  <2>2. Covers(tr, from, k) /\ nt = [tr EXCEPT !.reads = tr.reads \o StepWords(k), !.lastC = exec[(k + 1) + 1].c,
                           !.end = exec[(k + 1) + 1].end, !.steps = tr.steps + 1]
    BY <1>4, <2>1
  <2> HIDE DEF nt, tr, from
  <2> QED
    BY <1>7, <2>2, MoreCovers
<1> HIDE DEF nt, y
<1>9. nt \in Traces
  BY <1>8 DEF Describes, Covers
<1>10. new \in Seq(Traces) /\ Len(new) = p /\ new[p] = nt /\ \A q \in 1 .. p - 1 : new[q] = op[q]
  <2>1. IsUpdate(Traces, op, p, nt, new)
    BY <1>4, <1>5, <1>9, SeqUpdate
  <2> QED
    BY <2>1 DEF IsUpdate
<1>11. \A q \in Nat \ {0} : q <= p <=> BlockStart(t, q) < k + 1
  <2> TAKE q \in Nat \ {0}
  <2>0. BlockStart(t, q) \in Nat
    BY BlocksApart
  <2>1. CASE q <= p
    <3>1. CASE q = p
      BY <1>1, <1>3, <1>7, <3>1
    <3>2. CASE q < p
      <4>1. BlockStart(t, q) + NumSteps <= BlockStart(t, p)
        BY <3>2, BlocksApart
      <4> QED
        BY <1>1, <1>3, <1>7, <2>0, <2>1, <4>1, Sizes
    <3> QED
      BY <2>1, <3>1, <3>2
  <2>2. CASE ~(q <= p)
    <3>1. p < q
      BY <2>2
    <3>2. BlockStart(t, p) + NumSteps <= BlockStart(t, q)
      BY <3>1, BlocksApart
    <3> QED
      BY <1>1, <1>3, <1>7, <2>0, <2>2, <3>2, Sizes
  <2> QED
    BY <2>1, <2>2
<1>12. ASSUME NEW q \in 1 .. p
       PROVE  Describes(new[q], BlockStart(t, q), BlockEnd(BlockStart(t, q), k + 1))
  <2>1. CASE q = p
    <3>1. BlockEnd(from, k + 1) = k + 1
      BY <1>1, <1>3, <1>7, Sizes DEF BlockEnd
    <3> QED
      BY <1>8, <1>10, <2>1, <3>1
  <2>2. CASE q # p
    <3>1. q \in 1 .. p - 1 /\ q \in Nat \ {0} /\ q < p
      BY <2>2
    <3>2. BlockStart(t, q) + NumSteps <= BlockStart(t, p) /\ BlockStart(t, q) \in Nat
      BY <3>1, BlocksApart
    <3>3. BlockStart(t, q) + NumSteps <= k
      BY <1>1, <1>3, <1>7, <3>2, Sizes
    <3>4. BlockEnd(BlockStart(t, q), k + 1) = BlockEnd(BlockStart(t, q), k)
      BY <1>1, <3>2, <3>3, Sizes DEF BlockEnd
    <3> QED
      BY <1>4, <1>10, <3>1, <3>4
  <2> QED
    BY <2>1, <2>2
<1> QED
  BY <1>1, <1>2, <1>10, <1>11, <1>12 DEF ThreadRec, y, new

-----------------------------------------------------------------------------
(* The traces of all threads. *)

\* The blocks of the run.
Blocks == (TotalSteps + NumSteps - 1) \div NumSteps

\* A block begins before the end of the run.
LEMMA BlockBegins ==
    ASSUME TotalSteps \in Nat, NEW b \in Nat
    PROVE  Blocks \in Nat /\ NumSteps * b \in Nat /\ (NumSteps * b < TotalSteps <=> b < Blocks)
<1> DEFINE a == TotalSteps + NumSteps - 1
<1>0. a \in Nat
  BY Sizes
<1>1. PICK q \in Nat, r \in 0 .. NumSteps - 1 :
        a \div NumSteps = q /\ a % NumSteps = r /\ NumSteps * q \in Nat /\ a = NumSteps * q + r
  <2> HIDE DEF a
  <2> QED
    BY <1>0, Sizes, DivIs
<1>2. Blocks = q
  BY <1>1 DEF Blocks
<1>3. NumSteps * b \in Nat
  BY Sizes
<1>4. ASSUME b < q PROVE NumSteps * b < TotalSteps
  <2> DEFINE c == b + 1
  <2>1. c \in Nat /\ c <= q /\ NumSteps * c = NumSteps * b + NumSteps
    BY <1>4, Sizes
  <2>2. NumSteps * c <= NumSteps * q
    <3> HIDE DEF c
    <3> QED
      BY <2>1, Sizes, TimesUp
  <2> QED
    BY <1>1, <1>3, <2>1, <2>2, Sizes
<1>5. ASSUME q <= b PROVE TotalSteps <= NumSteps * b
  <2>1. NumSteps * q <= NumSteps * b
    BY <1>5, Sizes, TimesUp
  <2> QED
    BY <1>1, <1>3, <2>1, Sizes
<1> QED
  BY <1>2, <1>3, <1>4, <1>5

\* The traces of a thread that has recorded all its blocks of blocks blocks.
LEMMA ThreadBlocks ==
    ASSUME NEW blocks \in Nat, NEW t \in Threads, NEW l \in Nat,
           \A p \in Nat \ {0} : p <= l <=> BlockOf(t, p) < blocks
    PROVE  l = blocks \div NumThreads + (IF t < blocks % NumThreads THEN 1 ELSE 0)
<1>1. PICK q \in Nat, r \in 0 .. NumThreads - 1 :
        blocks \div NumThreads = q /\ blocks % NumThreads = r /\ NumThreads * q \in Nat /\ blocks = NumThreads * q + r
  BY Sizes, DivIs
<1>2. t \in Nat /\ t < NumThreads
  BY Sizes DEF Threads
<1>3. q <= l
  <2>1. CASE q = 0
    BY <2>1
  <2>2. CASE q # 0
    <3>1. NumThreads * (q - 1) = NumThreads * q - NumThreads /\ NumThreads * (q - 1) \in Nat
      BY <2>2, Sizes
    <3>2. BlockOf(t, q) < blocks
      BY <1>1, <1>2, <3>1, Sizes DEF BlockOf
    <3> QED
      BY <2>2, <3>2
  <2> QED
    BY <2>1, <2>2
<1>4. q + 1 <= l <=> t < r
  <2> DEFINE p == q + 1
  <2>1. p \in Nat \ {0} /\ p - 1 = q
    OBVIOUS
  <2> HIDE DEF p
  <2>2. BlockOf(t, p) = t + NumThreads * q
    BY <2>1 DEF BlockOf
  <2>3. p <= l <=> t + NumThreads * q < blocks
    BY <2>1, <2>2
  <2>4. t + NumThreads * q < blocks <=> t < r
    BY <1>1, <1>2
  <2> QED
    BY <2>3, <2>4 DEF p
<1>5. ~(q + 2 <= l)
  <2> DEFINE p == q + 2
  <2>1. p \in Nat \ {0} /\ p - 1 = q + 1
    OBVIOUS
  <2>2. NumThreads * (q + 1) = NumThreads * q + NumThreads
    BY Sizes
  <2> HIDE DEF p
  <2>3. BlockOf(t, p) = t + (NumThreads * q + NumThreads)
    BY <2>1, <2>2 DEF BlockOf
  <2>4. ~(BlockOf(t, p) < blocks)
    BY <1>1, <1>2, <2>3, Sizes
  <2>5. ~(p <= l)
    BY <2>1, <2>4
  <2> QED
    BY <2>5 DEF p
<1> QED
  BY <1>1, <1>3, <1>4, <1>5

\* Together the threads have all blocks.
LEMMA AllBlocks ==
    ASSUME NEW blocks \in Nat, NEW f, \A t \in Threads : f[t + 1] \in Nat,
           \A t \in Threads : f[t + 1] = blocks \div NumThreads + (IF t < blocks % NumThreads THEN 1 ELSE 0)
    PROVE  SumTo(f, NumThreads) = blocks
<1>1. PICK q \in Nat, r \in 0 .. NumThreads - 1 :
        blocks \div NumThreads = q /\ blocks % NumThreads = r /\ NumThreads * q \in Nat /\ blocks = NumThreads * q + r
  BY Sizes, DivIs
<1>2. ASSUME NEW m \in Nat, m + 1 <= NumThreads
      PROVE  f[m + 1] \in Nat /\ f[m + 1] = q + (IF m < r THEN 1 ELSE 0)
  <2>1. m \in Threads
    BY <1>2, Sizes DEF Threads
  <2> QED
    BY <1>1, <2>1
<1>3. Terms(f, NumThreads)
  <2> SUFFICES ASSUME NEW m \in 1 .. NumThreads PROVE f[m] \in Nat
    BY DEF Terms
  <2>1. m - 1 \in Nat /\ (m - 1) + 1 <= NumThreads /\ (m - 1) + 1 = m
    BY Sizes
  <2>2. m - 1 \in Threads
    BY <2>1, Sizes DEF Threads
  <2>3. f[(m - 1) + 1] \in Nat
    BY <2>2
  <2> QED
    BY <2>1, <2>3
<1> DEFINE T == {m \in Nat : m <= NumThreads => SumTo(f, m) = m * q + (IF m < r THEN m ELSE r)}
<1>4. 0 \in T
  <2>1. SumTo(f, 0) = 0
    BY <1>3, Sizes, SumToStep
  <2> QED
    BY <1>1, <2>1
<1>5. ASSUME NEW m \in Nat, m \in T PROVE m + 1 \in T
  <2> SUFFICES ASSUME m + 1 <= NumThreads
               PROVE  SumTo(f, m + 1) = (m + 1) * q + (IF m + 1 < r THEN m + 1 ELSE r)
    OBVIOUS
  <2> DEFINE l == m + 1
  <2>1. l \in Nat /\ l > 0 /\ l - 1 = m /\ l <= NumThreads
    OBVIOUS
  <2> HIDE DEF l
  <2>0. Terms(f, l)
    BY <1>3, <2>1, Sizes DEF Terms
  <2>2. SumTo(f, l) = SumTo(f, l - 1) + f[l]
    BY <2>0, <2>1, SumToStep
  <2>3. SumTo(f, m + 1) = SumTo(f, m) + f[m + 1]
    BY <2>1, <2>2 DEF l
  <2>4. SumTo(f, m) = m * q + (IF m < r THEN m ELSE r)
    BY <1>5, Sizes
  <2>5. f[m + 1] = q + (IF m < r THEN 1 ELSE 0)
    BY <1>2
  <2>6. (m + 1) * q = m * q + q /\ m * q \in Nat
    BY <1>1
  <2> QED
    BY <1>1, <2>3, <2>4, <2>5, <2>6
<1> HIDE DEF T
<1>6. \A m \in Nat : m \in T
  BY <1>4, <1>5, SetInduction
<1>7. SumTo(f, NumThreads) = NumThreads * q + (IF NumThreads < r THEN NumThreads ELSE r)
  BY <1>6, Sizes DEF T
<1> QED
  BY <1>1, <1>7, Sizes

\* A thread that has ended has made all steps.
LEMMA ThreadEnded ==
    ASSUME ExecOK, NEW t \in Threads, NEW x, NEW ts, ThreadRec(t, x, ts), x.end
    PROVE  /\ x.step = TotalSteps /\ ts \in Seq(Traces) /\ Len(ts) \in Nat
           /\ Len(ts) = Blocks \div NumThreads + (IF t < Blocks % NumThreads THEN 1 ELSE 0)
           /\ \A p \in Nat \ {0} : p <= Len(ts) <=> BlockOf(t, p) < Blocks
           /\ \A p \in 1 .. Len(ts) :
                    Describes(ts[p], BlockStart(t, p), BlockEnd(BlockStart(t, p), TotalSteps))
<1>1. x.step \in 0 .. TotalSteps /\ SameBarB(exec[x.step + 1], x) /\ TotalSteps \in Nat /\ ts \in Seq(Traces)
  BY DEF ThreadRec, ExecOK
<1>2. exec[x.step + 1].end = x.end
  BY <1>1, SameWithB
<1>3. x.step = TotalSteps
  <2> SUFFICES ASSUME x.step # TotalSteps PROVE FALSE
    OBVIOUS
  <2>1. x.step \in 0 .. TotalSteps - 1
    BY <1>1
  <2>2. ~exec[x.step + 1].end
    BY <2>1 DEF ExecOK
  <2> QED
    BY <1>2, <2>2
<1>4. \A p \in Nat \ {0} : p <= Len(ts) <=> BlockOf(t, p) < Blocks
  <2> TAKE p \in Nat \ {0}
  <2>1. p <= Len(ts) <=> BlockStart(t, p) < TotalSteps
    BY <1>3 DEF ThreadRec
  <2>2. BlockOf(t, p) \in Nat
    BY BlocksApart
  <2>3. BlockStart(t, p) < TotalSteps <=> BlockOf(t, p) < Blocks
    BY <1>1, <2>2, BlockBegins DEF BlockStart
  <2> QED
    BY <2>1, <2>3
<1>5. Len(ts) \in Nat /\ Blocks \in Nat
  BY <1>1, BlockBegins
<1> DEFINE l == Len(ts)
           bl == Blocks
<1>6. l = bl \div NumThreads + (IF t < bl % NumThreads THEN 1 ELSE 0)
  <2>1. l \in Nat /\ bl \in Nat /\ \A p \in Nat \ {0} : p <= l <=> BlockOf(t, p) < bl
    BY <1>4, <1>5
  <2> HIDE DEF l, bl
  <2> QED
    BY <2>1, ThreadBlocks
<1>7. \A p \in 1 .. Len(ts) : Describes(ts[p], BlockStart(t, p), BlockEnd(BlockStart(t, p), TotalSteps))
  BY <1>3 DEF ThreadRec
<1> QED
  BY <1>1, <1>3, <1>4, <1>5, <1>6, <1>7

\* The list that Join makes.
Joined == [n \in 1 .. SumTo([t \in 1 .. NumThreads |-> Len(recorded[t - 1])], NumThreads) |-> Dealt(n)]

\* The blocks dealt from the threads are those of the run in their order.
IsJoined(list) ==
    /\ list \in Seq(Traces) /\ Len(list) = Blocks
    /\ \A n \in 1 .. Blocks :
            /\ NumSteps * (n - 1) \in Nat /\ NumSteps * (n - 1) < TotalSteps
            /\ Describes(list[n], NumSteps * (n - 1), BlockEnd(NumSteps * (n - 1), TotalSteps))

\* The n-th trace.
LEMMA DealtIs ==
    ASSUME ExecOK, \A t \in Threads : ThreadRec(t, emu[t], recorded[t]), \A t \in Threads : emu[t].end,
           NEW b \in Nat, b < Blocks, NEW n, n - 1 = b
    PROVE  /\ Dealt(n) \in Traces
           /\ Describes(Dealt(n), NumSteps * b, BlockEnd(NumSteps * b, TotalSteps))
<1>1. PICK q \in Nat, t \in 0 .. NumThreads - 1 :
        b \div NumThreads = q /\ b % NumThreads = t /\ NumThreads * q \in Nat /\ b = NumThreads * q + t
  BY Sizes, DivIs
<1> DEFINE p == q + 1
           x == emu[t]
           ts == recorded[t]
<1>2. t \in Threads /\ p \in Nat \ {0} /\ p - 1 = q
  BY DEF Threads
<1>3. ThreadRec(t, x, ts) /\ x.end
  BY <1>2
<1>4. Dealt(n) = ts[p]
  BY <1>1 DEF Dealt
<1>5. BlockOf(t, p) = b
  BY <1>1, <1>2 DEF BlockOf
<1> HIDE DEF p, x, ts
<1>6. /\ Len(ts) \in Nat /\ ts \in Seq(Traces)
      /\ \A d \in Nat \ {0} : d <= Len(ts) <=> BlockOf(t, d) < Blocks
      /\ \A d \in 1 .. Len(ts) : Describes(ts[d], BlockStart(t, d), BlockEnd(BlockStart(t, d), TotalSteps))
  BY <1>2, <1>3, ThreadEnded
<1>7. p <= Len(ts)
  BY <1>2, <1>5, <1>6
<1>8. p \in 1 .. Len(ts)
  BY <1>2, <1>6, <1>7
<1>9. Describes(ts[p], BlockStart(t, p), BlockEnd(BlockStart(t, p), TotalSteps))
  BY <1>6, <1>8
<1>10. ts[p] \in Traces
  BY <1>6, <1>8
<1> QED
  BY <1>4, <1>5, <1>9, <1>10 DEF BlockStart

\* All threads have ended.
LEMMA JoinedAll ==
    ASSUME ExecOK, \A t \in Threads : ThreadRec(t, emu[t], recorded[t]), \A t \in Threads : emu[t].end
    PROVE  IsJoined(Joined)
<1> DEFINE f == [t \in 1 .. NumThreads |-> Len(recorded[t - 1])]
           l == SumTo(f, NumThreads)
<1>1. TotalSteps \in Nat /\ Blocks \in Nat
  BY BlockBegins DEF ExecOK
<1>2. ASSUME NEW t \in Threads
      PROVE  f[t + 1] \in Nat /\ f[t + 1] = Blocks \div NumThreads + (IF t < Blocks % NumThreads THEN 1 ELSE 0)
  <2> DEFINE x == emu[t]
             ts == recorded[t]
  <2>1. ThreadRec(t, x, ts) /\ x.end
    OBVIOUS
  <2>2. t + 1 \in 1 .. NumThreads /\ (t + 1) - 1 = t
    BY Sizes DEF Threads
  <2>3. f[t + 1] = Len(ts)
    BY <2>2
  <2> HIDE DEF x, ts, f
  <2>4. Len(ts) \in Nat /\ Len(ts) = Blocks \div NumThreads + (IF t < Blocks % NumThreads THEN 1 ELSE 0)
    BY <2>1, ThreadEnded
  <2> QED
    BY <2>3, <2>4
<1>3. l = Blocks
  <2> DEFINE bl == Blocks
  <2>1. /\ bl \in Nat /\ \A t \in Threads : f[t + 1] \in Nat
        /\ \A t \in Threads : f[t + 1] = bl \div NumThreads + (IF t < bl % NumThreads THEN 1 ELSE 0)
    BY <1>1, <1>2
  <2> HIDE DEF bl, f
  <2>2. SumTo(f, NumThreads) = bl
    BY <2>1, AllBlocks
  <2> QED
    BY <2>2 DEF bl
<1>4. Joined = [n \in 1 .. Blocks |-> Dealt(n)]
  BY <1>3 DEF Joined
<1>5. ASSUME NEW n \in 1 .. Blocks
      PROVE  /\ NumSteps * (n - 1) \in Nat /\ NumSteps * (n - 1) < TotalSteps /\ Dealt(n) \in Traces
             /\ Describes(Dealt(n), NumSteps * (n - 1), BlockEnd(NumSteps * (n - 1), TotalSteps))
  <2> DEFINE b == n - 1
  <2>1. b \in Nat /\ b < Blocks /\ n - 1 = b
    BY <1>1
  <2> HIDE DEF b
  <2>2. NumSteps * b \in Nat /\ NumSteps * b < TotalSteps
    BY <1>1, <2>1, BlockBegins
  <2>3. Dealt(n) \in Traces /\ Describes(Dealt(n), NumSteps * b, BlockEnd(NumSteps * b, TotalSteps))
    BY <2>1, DealtIs
  <2> QED
    BY <2>1, <2>2, <2>3
<1>6. Joined \in Seq(Traces) /\ Len(Joined) = Blocks /\ \A n \in 1 .. Blocks : Joined[n] = Dealt(n)
  BY <1>1, <1>4, <1>5
<1> QED
  BY <1>5, <1>6 DEF IsJoined

\* Such traces follow each other.
LEMMA JoinedFollow ==
    ASSUME ExecOK, IsJoined(traces)
    PROVE  TracesFollow
<1>1. TotalSteps \in Nat /\ Blocks \in Nat /\ Len(traces) = Blocks
  BY BlockBegins DEF ExecOK, IsJoined
<1>2. Len(traces) = (TotalSteps + NumSteps - 1) \div NumSteps
  BY <1>1 DEF Blocks
<1> SUFFICES ASSUME NEW n \in 1 .. Blocks, NEW from, from = (n - 1) * NumSteps,
                    NEW to, to = IF n = Blocks THEN TotalSteps ELSE n * NumSteps
             PROVE  /\ traces[n].start = StartState(exec[from + 1])
                    /\ traces[n].steps = to - from
                    /\ traces[n].lastC = exec[to + 1].c
                    /\ traces[n].end <=> n = Blocks
  BY <1>1, <1>2 DEF TracesFollow
<1>3. from = NumSteps * (n - 1) /\ n * NumSteps = from + NumSteps /\ n * NumSteps = NumSteps * n
  BY <1>1, Sizes
<1>4. from \in Nat /\ from < TotalSteps /\ Describes(traces[n], from, BlockEnd(from, TotalSteps))
  BY <1>3 DEF IsJoined
<1>0. n \in Nat
  BY <1>1
<1>5. NumSteps * n \in Nat /\ (NumSteps * n < TotalSteps <=> n < Blocks)
  BY <1>0, <1>1, BlockBegins
<1>6. BlockEnd(from, TotalSteps) = to
  BY <1>1, <1>3, <1>4, <1>5, Sizes DEF BlockEnd
<1>7. /\ traces[n].start = StartState(exec[from + 1]) /\ traces[n].steps = to - from
      /\ traces[n].lastC = exec[to + 1].c /\ traces[n].end = exec[to + 1].end
  BY <1>4, <1>6 DEF Describes, Covers
<1>8. exec[to + 1].end <=> n = Blocks
  <2>1. CASE n = Blocks
    BY <2>1 DEF ExecOK
  <2>2. CASE n # Blocks
    <3>1. to \in 0 .. TotalSteps - 1
      BY <1>1, <1>3, <1>5, <2>2
    <3>2. ~exec[to + 1].end
      BY <3>1 DEF ExecOK
    <3> QED
      BY <2>2, <3>2
  <2> QED
    BY <2>1, <2>2
<1> QED
  BY <1>7, <1>8

-----------------------------------------------------------------------------
(* Replaying. *)

\* The replay r of the trace tr of the steps from to to.
ReplayAt(r, tr, from, to) ==
    /\ r.step \in from .. to
    /\ Follows(r, exec[r.step + 1], Before(r.step) - Before(from))
    /\ r.reads = tr.reads /\ r.left = to - r.step
    /\ r.step = from => r.end = FALSE
    /\ r.step > from =>
            /\ r.flag = exec[r.step + 1].flag /\ r.end = exec[r.step + 1].end
            /\ r.kind # "main" => StepShown(exec[r.step], rom[exec[r.step].pc], r)

\* A replay starts.
LEMMA ReplayStarts ==
    ASSUME ExecOK, NEW from \in Nat, NEW to \in from .. TotalSteps, NEW tr, Covers(tr, from, to), NEW kind
    PROVE  ReplayAt(StartConsume(tr, kind), tr, from, to)
<1> DEFINE r == StartConsume(tr, kind)
           x == exec[from + 1]
<1>1. from \in 0 .. TotalSteps /\ TotalSteps \in Nat
  BY DEF ExecOK
<1>2. x \in Contexts /\ x.step = from
  BY <1>1 DEF ExecOK
<1>3. tr.start = StartState(x) /\ tr.steps = to - from
  BY DEF Covers
<1>4. tr.start.pc = x.pc /\ tr.start.c = x.c /\ tr.start.regs = x.regs /\ tr.start.step = from
  <2> HIDE DEF x
  <2> QED
    BY <1>2, <1>3 DEF StartState
<1>5. /\ IsReplay(r) /\ r.pc = tr.start.pc /\ r.c = tr.start.c /\ r.regs = tr.start.regs
      /\ r.step = tr.start.step /\ r.panic = FALSE /\ r.index = 0 /\ r.reads = tr.reads
      /\ r.left = tr.steps /\ r.end = FALSE
  BY DEF StartConsume, IsReplay, ReplayFields
<1>6. Before(from) \in Nat /\ Before(from) - Before(from) = 0
  <2>1. Before(from) \in Nat
    BY <1>1, BeforeStep
  <2> QED
    BY <2>1
<1> HIDE DEF r, x
<1>7. Follows(r, x, 0)
  BY <1>2, <1>4, <1>5 DEF Follows
<1>8. r.step = from /\ r.step \in from .. to /\ ~(r.step > from) /\ r.left = to - r.step
  BY <1>3, <1>4, <1>5
<1>9. Follows(r, exec[r.step + 1], Before(r.step) - Before(from))
  BY <1>6, <1>7, <1>8 DEF x
<1>10. ReplayAt(r, tr, from, to)
  BY <1>5, <1>8, <1>9 DEF ReplayAt
<1> QED
  BY <1>10 DEF r

\* A slice step is the step without what the bus shows.
LEMMA SliceIs ==
    ASSUME NEW r, NEW i, NEW y, NEW at, NEW s, s = ConsumeStep(r, i), Follows(s, y, at), NEW u, u = SliceStep(r, i)
    PROVE  /\ Follows(u, y, at) /\ u.flag = s.flag /\ u.end = s.end
           /\ u.reads = s.reads /\ u.left = s.left /\ u.kind = s.kind
<1>1. u = [s EXCEPT !.bus = <<>>, !.op = <<>>]
  BY DEF SliceStep
<1>2. IsReplay(s)
  BY DEF Follows
<1>3. /\ IsReplay(u) /\ u.pc = s.pc /\ u.c = s.c /\ u.regs = s.regs /\ u.step = s.step
      /\ u.panic = s.panic /\ u.index = s.index /\ u.flag = s.flag /\ u.end = s.end
      /\ u.reads = s.reads /\ u.left = s.left /\ u.kind = s.kind
  BY <1>1, <1>2 DEF IsReplay, ReplayFields
<1>4. Follows(u, y, at)
  BY <1>3 DEF Follows
<1> QED
  BY <1>3, <1>4

\* A replay goes on.
LEMMA ReplaySteps ==
    ASSUME ExecOK, NEW from \in Nat, NEW to \in from .. TotalSteps, NEW tr, Covers(tr, from, to),
           NEW r, ReplayAt(r, tr, from, to), Goes(r), NEW u,
           u = IF r.kind = "main" THEN SliceStep(r, rom[r.pc]) ELSE ConsumeStep(r, rom[r.pc])
    PROVE  ReplayAt(u, tr, from, to)
<1> DEFINE n == r.step
           m == n + 1
           x == exec[n + 1]
           y == exec[m + 1]
           i == rom[x.pc]
           at == Before(n) - Before(from)
           next == Before(m) - Before(from)
           s == ConsumeStep(r, i)
<1>1. TotalSteps \in Nat /\ n \in from .. to /\ r.left = to - n /\ r.left > 0 /\ r.reads = tr.reads
  BY DEF ReplayAt, Goes, ExecOK
<1>2. n \in 0 .. TotalSteps - 1 /\ n \in from .. to - 1 /\ from \in 0 .. TotalSteps /\ m \in from .. to
      /\ m > from /\ m - 1 = n /\ m # from
  BY <1>1
<1>3. Follows(r, x, at)
  BY DEF ReplayAt
<1>4. /\ x \in Contexts /\ IsInst(i) /\ ~Panics(x, i) /\ y = ParStep(x, i)
      /\ StepWords(n) = StepReads(x, i) /\ StepWords(n) \in Seq(Words)
  <2> HIDE DEF n
  <2> QED
    BY <1>2, ExecStep
<1>5. Holds(tr.reads, at, StepWords(n))
  BY <1>2 DEF Covers
<1>6. rom[r.pc] = i
  BY <1>3 DEF Follows
<1>7. next = at + Len(StepWords(n))
  <2>0. n \in 0 .. TotalSteps
    BY <1>1, <1>2
  <2>1. /\ Before(n) \in Nat /\ Before(from) \in Nat /\ Before(n + 1) = Before(n) + Len(StepWords(n))
    <3> HIDE DEF n
    <3>1. n \in 0 .. TotalSteps - 1 /\ from \in 0 .. TotalSteps
      BY <1>2
    <3> QED
      BY <2>0, <3>1, BeforeStep
  <2>2. Len(StepWords(n)) \in Nat
    BY <1>4
  <2> HIDE DEF n
  <2> QED
    BY <2>1, <2>2
<1>8. StepTrue(r, x, i, at, s) /\ StepShown(x, i, s)
  <2>1. Holds(r.reads, at, StepReads(x, i))
    BY <1>1, <1>4, <1>5
  <2> HIDE DEF n, m, x, y, i, at, next
  <2> QED
    BY <1>3, <1>4, <2>1, StepHeld
<1> HIDE DEF x, y, i, at, next, s
<1>9. /\ Follows(s, y, next) /\ s.flag = y.flag /\ s.end = y.end
      /\ s.reads = r.reads /\ s.left = r.left - 1 /\ s.kind = r.kind
  BY <1>4, <1>7, <1>8 DEF StepTrue
<1>10. /\ Follows(u, y, next) /\ u.flag = y.flag /\ u.end = y.end
       /\ u.reads = r.reads /\ u.left = r.left - 1 /\ u.kind = r.kind
       /\ u.kind # "main" => StepShown(x, i, u)
  <2>1. CASE r.kind = "main"
    <3>1. u = SliceStep(r, i)
      BY <1>6, <2>1
    <3>2. s = ConsumeStep(r, i)
      BY DEF s
    <3>3. /\ Follows(u, y, next) /\ u.flag = s.flag /\ u.end = s.end
          /\ u.reads = s.reads /\ u.left = s.left /\ u.kind = s.kind
      BY <1>9, <3>1, <3>2, SliceIs
    <3> QED
      BY <1>9, <2>1, <3>3
  <2>2. CASE r.kind # "main"
    <3>1. u = s
      BY <1>6, <2>2 DEF s
    <3> QED
      BY <1>8, <1>9, <3>1
  <2> QED
    BY <2>1, <2>2
<1>11. u.step = m
  <2>1. u.step = y.step
    BY <1>10 DEF Follows
  <2>2. m \in 0 .. TotalSteps
    BY <1>1, <1>2
  <2>3. y.step = m
    <3> HIDE DEF m
    <3> QED
      BY <2>2 DEF ExecOK, y
  <2> QED
    BY <2>1, <2>3
<1>12. u.left = to - m
  <2>1. n \in Nat /\ to \in Nat
    BY <1>1
  <2> HIDE DEF n
  <2> QED
    BY <1>1, <1>10, <2>1
<1>13. Follows(u, exec[u.step + 1], Before(u.step) - Before(from))
  BY <1>10, <1>11 DEF y, next
<1>14. u.flag = exec[u.step + 1].flag /\ u.end = exec[u.step + 1].end
  BY <1>10, <1>11 DEF y
<1>15. u.kind # "main" => StepShown(exec[u.step], rom[exec[u.step].pc], u)
  BY <1>10, <1>11 DEF x, i
<1> HIDE DEF n, m
<1> QED
  BY <1>1, <1>2, <1>10, <1>11, <1>12, <1>13, <1>14, <1>15 DEF ReplayAt

\* A replay that does not go on has used up its words.
LEMMA ReplayEnds ==
    ASSUME ExecOK, NEW from \in Nat, NEW to \in from .. TotalSteps, NEW tr, Covers(tr, from, to),
           NEW r, ReplayAt(r, tr, from, to), ~Goes(r)
    PROVE  r.index = Len(tr.reads) /\ r.left = 0
<1> DEFINE n == r.step
<1>1. /\ TotalSteps \in Nat /\ n \in from .. to /\ r.left = to - n /\ r.panic = FALSE
      /\ r.index = Before(n) - Before(from)
  BY DEF ReplayAt, ExecOK, Follows
<1>2. n = to
  <2> SUFFICES ASSUME n # to PROVE FALSE
    OBVIOUS
  <2>1. n \in 0 .. TotalSteps - 1 /\ r.left > 0 /\ n \in Nat
    <3> HIDE DEF n
    <3> QED
      BY <1>1
  <2>2. r.end
    BY <1>1, <2>1 DEF Goes
  <2>3. CASE n = from
    BY <2>2, <2>3 DEF ReplayAt
  <2>4. CASE n # from
    <3>1. n > from
      <4> HIDE DEF n
      <4> QED
        BY <1>1, <2>4
    <3>2. r.end = exec[n + 1].end
      BY <3>1 DEF ReplayAt
    <3>3. ~exec[n + 1].end
      <4> HIDE DEF n
      <4> QED
        BY <2>1 DEF ExecOK
    <3> QED
      BY <2>2, <3>2, <3>3
  <2> QED
    BY <2>3, <2>4
<1>3. r.left = 0
  BY <1>1, <1>2
<1>4. Len(tr.reads) = Before(to) - Before(from)
  BY DEF Covers
<1> QED
  BY <1>1, <1>2, <1>3, <1>4

-----------------------------------------------------------------------------
(* The invariant of the recording by the emulator and of the replays. *)

\* The first step of the trace that is replayed.
From == NumSteps * (chunk - 1)

\* The step it goes up to.
To == BlockEnd(From, TotalSteps)

\* The threads' contexts and traces.
AllRecorded ==
    /\ emu = [t \in Threads |-> emu[t]] /\ recorded = [t \in Threads |-> recorded[t]]
    /\ \A t \in Threads : ThreadRec(t, emu[t], recorded[t])

\* The replay.
Replayed == chunk \in 1 .. Blocks /\ ReplayAt(replay, traces[chunk], From, To)

\* The inductive invariant: what the threads have recorded describes their own blocks of
\* the plain run, the joined list is the list of all blocks, and the replay is where the
\* plain run was, with the words it still needs before it.
IInv ==
    /\ by = "emulator" /\ phase \in {"record", "joined", "replay", "done"}
    /\ ExecOK
    /\ AllRecorded
    /\ phase # "record" => IsJoined(traces)
    /\ phase \in {"replay", "done"} => Replayed
    /\ phase = "done" => ~Goes(replay)

\* exec is a run in the next state too if nothing touches it.
LEMMA ExecSame ==
    ASSUME UNCHANGED <<exec, rom>>, ExecOK
    PROVE  ExecOK'
BY DEF ExecOK, TotalSteps

\* What the threads have describes the run in the next state too.
LEMMA ThreadsSame ==
    ASSUME UNCHANGED <<exec, rom>>, \A t \in Threads : ThreadRec(t, emu'[t], recorded'[t])
    PROVE  \A t \in Threads : ThreadRec(t, emu[t], recorded[t])'
BY DEF ThreadRec, Describes, Covers, Before, StepWords, TotalSteps

\* A step that touches neither the run nor the threads keeps what they have recorded.
LEMMA RecordedSame ==
    ASSUME UNCHANGED <<exec, rom, emu, recorded>>, AllRecorded
    PROVE  AllRecorded'
<1>1. \A t \in Threads : ThreadRec(t, emu'[t], recorded'[t])
  BY DEF AllRecorded
<1>2. \A t \in Threads : ThreadRec(t, emu[t], recorded[t])'
  BY <1>1, ThreadsSame
<1> QED
  BY <1>2 DEF AllRecorded

\* One that keeps the run and the list keeps what the list is.
LEMMA JoinedSame ==
    ASSUME UNCHANGED <<exec, rom, traces>>, IsJoined(traces)
    PROVE  IsJoined(traces)'
BY DEF IsJoined, Blocks, Describes, Covers, Before, StepWords, TotalSteps

\* One that keeps the replay too keeps where it is.
LEMMA ReplayedSame ==
    ASSUME UNCHANGED <<exec, rom, traces, chunk, replay>>, Replayed
    PROVE  Replayed'
BY DEF Replayed, From, To, Blocks, ReplayAt, Before, StepWords, TotalSteps

\* Init establishes it.
LEMMA InvInit ==
    ASSUME Init, by = "emulator"
    PROVE  IInv
<1>1. ExecOK /\ \A t \in Threads : emu[t] = exec[1]
  BY ExecInit
<1>2. ASSUME NEW t \in Threads PROVE ThreadRec(t, emu[t], recorded[t])
  <2> DEFINE x == exec[1]
             ts == <<>>
  <2>0. TotalSteps \in Nat /\ 0 \in 0 .. TotalSteps /\ 0 + 1 = 1
    BY <1>1 DEF ExecOK
  <2>1. x \in Contexts /\ x.step = 0
    BY <1>1, <2>0 DEF ExecOK
  <2>2. SameBarB(x, x)
    <3> HIDE DEF x
    <3> QED
      BY <2>1 DEF SameBarB, Contexts
  <2>3. ASSUME NEW p \in Nat \ {0} PROVE ~(p <= Len(ts)) /\ ~(BlockStart(t, p) < 0)
    <3>1. BlockStart(t, p) \in Nat
      BY BlocksApart
    <3> QED
      BY <3>1
  <2>4. ts \in Seq(Traces) /\ Len(ts) = 0 /\ 1 .. Len(ts) = {}
    OBVIOUS
  <2>5. emu[t] = x /\ recorded[t] = ts
    BY <1>1 DEF Init
  <2>6. x.step \in 0 .. TotalSteps /\ SameBarB(exec[x.step + 1], x)
    BY <2>0, <2>1, <2>2
  <2> HIDE DEF x, ts
  <2>7. ThreadRec(t, x, ts)
    BY <2>1, <2>3, <2>4, <2>6 DEF ThreadRec
  <2> QED
    BY <2>5, <2>7
<1>3. emu = [t \in Threads |-> emu[t]] /\ recorded = [t \in Threads |-> recorded[t]] /\ phase = "record"
  BY DEF Init
<1> QED
  BY <1>1, <1>2, <1>3 DEF IInv, AllRecorded

\* A step of a thread keeps what the threads have.
LEMMA ParRunKeeps ==
    ASSUME IInv, NEW t \in Threads, ParRun(t)
    PROVE  AllRecorded'
<1> DEFINE x == emu[t]
           ts == recorded[t]
           op == IF x.step % NumSteps = 0 THEN Append(ts, NewTrace(x)) ELSE ts
           i == rom[x.pc]
<1>1. ExecOK /\ ThreadRec(t, x, ts) /\ ~x.end /\ UNCHANGED <<exec, rom>>
  BY DEF IInv, AllRecorded, ParRun
<1>2. PICK y, us : /\ ThreadRec(t, y, us)
                   /\ emu' = [emu EXCEPT ![t] = y] /\ recorded' = [recorded EXCEPT ![t] = us]
  <2>1. CASE IsMyBlock(x, t)
    <3>1. emu' = [emu EXCEPT ![t] = ParStepMyBlock(x, i)] /\ recorded' = [recorded EXCEPT ![t] = Record(op, x)]
      BY <2>1 DEF ParRun
    <3> DEFINE o == op
    <3>2. o = IF x.step % NumSteps = 0 THEN Append(ts, NewTrace(x)) ELSE ts
      OBVIOUS
    <3> HIDE DEF x, ts, o
    <3>3. ThreadRec(t, ParStepMyBlock(x, rom[x.pc]), Record(o, x))
      BY <1>1, <2>1, <3>2, OwnBlock
    <3> QED
      BY <3>1, <3>3 DEF o
  <2>2. CASE ~IsMyBlock(x, t)
    <3>1. emu' = [emu EXCEPT ![t] = ParStep(x, i)] /\ recorded' = recorded
      BY <2>2 DEF ParRun
    <3>2. recorded = [recorded EXCEPT ![t] = ts]
      BY DEF IInv, AllRecorded
    <3>3. ThreadRec(t, ParStep(x, i), ts)
      <4> HIDE DEF x, ts
      <4> QED
        BY <1>1, <2>2, OtherBlock
    <3> QED
      BY <3>1, <3>2, <3>3
  <2> QED
    BY <2>1, <2>2
<1>3. /\ emu' = [u \in Threads |-> IF u = t THEN y ELSE emu[u]]
      /\ recorded' = [u \in Threads |-> IF u = t THEN us ELSE recorded[u]]
  BY <1>2 DEF IInv, AllRecorded
<1>4. \A u \in Threads : ThreadRec(u, emu'[u], recorded'[u])
  BY <1>2, <1>3 DEF IInv, AllRecorded
<1>5. \A u \in Threads : ThreadRec(u, emu[u], recorded[u])'
  BY <1>1, <1>4, ThreadsSame
<1> QED
  BY <1>3, <1>5 DEF AllRecorded

\* The trace that is replayed.
LEMMA TraceOf ==
    ASSUME ExecOK, IsJoined(traces), NEW n \in 1 .. Blocks, NEW from, from = NumSteps * (n - 1),
           NEW to, to = BlockEnd(from, TotalSteps)
    PROVE  from \in Nat /\ to \in from .. TotalSteps /\ Covers(traces[n], from, to)
<1>1. TotalSteps \in Nat /\ from \in Nat /\ from < TotalSteps /\ Describes(traces[n], from, to)
  BY DEF ExecOK, IsJoined
<1>2. to \in from .. TotalSteps
  BY <1>1, Sizes DEF BlockEnd
<1> QED
  BY <1>1, <1>2 DEF Describes

\* Every step keeps it.
LEMMA InvNext ==
    ASSUME IInv, [Next]_vars
    PROVE  IInv'
<1> USE DEF vars
<1>1. ASSUME NEW t \in Threads, ParRun(t) PROVE IInv'
  <2>1. /\ phase = "record" /\ UNCHANGED <<phase, by, rom, exec, traces, chunk, replay>> /\ ExecOK
        /\ by = "emulator"
    BY <1>1 DEF ParRun, IInv
  <2>2. AllRecorded'
    BY <1>1, ParRunKeeps
  <2>3. ExecOK'
    BY <2>1, ExecSame
  <2> QED
    BY <2>1, <2>2, <2>3 DEF IInv
<1>2. ASSUME NEW t \in Threads, AsmRun(t) PROVE IInv'
  BY <1>2 DEF AsmRun, IInv
<1>3. CASE Join
  <2>1. /\ phase' = "joined" /\ by' = by /\ UNCHANGED <<exec, rom, emu, recorded>> /\ by = "emulator"
        /\ \A t \in Threads : emu[t].end
        /\ ExecOK /\ AllRecorded
    BY <1>3 DEF Join, IInv
  <2>2. traces' = Joined
    BY <1>3 DEF Join, Joined
  <2>3. IsJoined(Joined)
    BY <2>1, JoinedAll DEF AllRecorded
  <2>4. IsJoined(traces')
    BY <2>2, <2>3
  <2>5. IsJoined(traces)'
    BY <2>1, <2>4 DEF IsJoined, Blocks, Describes, Covers, Before, StepWords, TotalSteps
  <2>6. ExecOK' /\ AllRecorded'
    BY <2>1, ExecSame, RecordedSame
  <2> QED
    BY <2>1, <2>5, <2>6 DEF IInv
<1>4. ASSUME NEW n \in 1 .. Len(traces), NEW kind \in {"count", "collect", "main"}, StartReplay(n, kind)
      PROVE  IInv'
  <2>1. /\ phase' = "replay" /\ by' = by /\ UNCHANGED <<exec, rom, emu, recorded, traces>> /\ by = "emulator"
        /\ ExecOK /\ AllRecorded /\ IsJoined(traces) /\ chunk' = n /\ replay' = StartConsume(traces[n], kind)
    BY <1>4 DEF StartReplay, IInv
  <2>2. ExecOK' /\ AllRecorded' /\ IsJoined(traces)'
    BY <2>1, ExecSame, RecordedSame, JoinedSame
  <2> DEFINE from == NumSteps * (n - 1)
             to == BlockEnd(from, TotalSteps)
             tr == traces[n]
             r == StartConsume(tr, kind)
  <2>3. n \in 1 .. Blocks
    BY <2>1 DEF IsJoined
  <2>4. from \in Nat /\ to \in from .. TotalSteps /\ Covers(tr, from, to)
    BY <2>1, <2>3, TraceOf
  <2>5. ReplayAt(r, tr, from, to)
    <3> HIDE DEF from, to, tr
    <3> QED
      BY <2>1, <2>4, ReplayStarts
  <2>6. ReplayAt(replay', traces'[chunk'], From', To')
    BY <2>1, <2>5 DEF From, To, TotalSteps
  <2>7. chunk' \in 1 .. Blocks'
    BY <2>1, <2>3 DEF Blocks, TotalSteps
  <2>8. Replayed'
    BY <2>1, <2>6, <2>7 DEF Replayed, ReplayAt, Before, StepWords, TotalSteps
  <2> QED
    BY <2>1, <2>2, <2>8 DEF IInv
<1>5. CASE ReplayStep
  <2>1. /\ UNCHANGED <<phase, by, rom, exec, emu, recorded, traces, chunk>> /\ by = "emulator" /\ phase = "replay"
        /\ ExecOK /\ AllRecorded /\ IsJoined(traces) /\ Replayed /\ Goes(replay)
        /\ replay' = IF replay.kind = "main" THEN SliceStep(replay, rom[replay.pc])
                     ELSE ConsumeStep(replay, rom[replay.pc])
    BY <1>5 DEF ReplayStep, IInv
  <2>2. ExecOK' /\ AllRecorded' /\ IsJoined(traces)'
    BY <2>1, ExecSame, RecordedSame, JoinedSame
  <2> DEFINE from == From
             to == To
             tr == traces[chunk]
             r == replay
             u == IF r.kind = "main" THEN SliceStep(r, rom[r.pc]) ELSE ConsumeStep(r, rom[r.pc])
  <2>3. chunk \in 1 .. Blocks /\ ReplayAt(r, tr, from, to)
    BY <2>1 DEF Replayed
  <2>4. from \in Nat /\ to \in from .. TotalSteps /\ Covers(tr, from, to)
    BY <2>1, <2>3, TraceOf DEF From, To
  <2>5. ReplayAt(u, tr, from, to)
    <3>1. u = IF r.kind = "main" THEN SliceStep(r, rom[r.pc]) ELSE ConsumeStep(r, rom[r.pc])
      OBVIOUS
    <3>2. Goes(r)
      BY <2>1
    <3> HIDE DEF from, to, tr, u, r
    <3> QED
      BY <2>1, <2>3, <2>4, <3>1, <3>2, ReplaySteps
  <2>6. ReplayAt(replay', traces'[chunk'], From', To')
    BY <2>1, <2>5 DEF From, To, TotalSteps
  <2>7. chunk' \in 1 .. Blocks'
    BY <2>1, <2>3 DEF Blocks, TotalSteps
  <2>8. Replayed'
    BY <2>1, <2>6, <2>7 DEF Replayed, ReplayAt, Before, StepWords, TotalSteps
  <2> QED
    BY <2>1, <2>2, <2>8 DEF IInv
<1>6. CASE EndReplay
  <2>1. /\ UNCHANGED <<by, rom, exec, emu, recorded, traces, chunk, replay>> /\ by = "emulator" /\ phase' = "done"
        /\ ExecOK /\ AllRecorded /\ IsJoined(traces) /\ Replayed /\ ~Goes(replay)
    BY <1>6 DEF EndReplay, IInv
  <2>2. ExecOK' /\ AllRecorded' /\ IsJoined(traces)' /\ Replayed'
    BY <2>1, ExecSame, RecordedSame, JoinedSame, ReplayedSame
  <2>3. ~Goes(replay)'
    BY <2>1 DEF Goes
  <2> QED
    BY <2>1, <2>2, <2>3 DEF IInv
<1>7. CASE UNCHANGED vars
  <2>1. /\ UNCHANGED <<phase, by, rom, exec, emu, recorded, traces, chunk, replay>>
        /\ by = "emulator" /\ phase \in {"record", "joined", "replay", "done"} /\ ExecOK /\ AllRecorded
    BY <1>7 DEF IInv
  <2>2. ExecOK' /\ AllRecorded'
    BY <2>1, ExecSame, RecordedSame
  <2>3. phase' # "record" => IsJoined(traces)'
    BY <2>1, JoinedSame DEF IInv
  <2>4. phase' \in {"replay", "done"} => Replayed'
    BY <2>1, ReplayedSame DEF IInv
  <2>5. phase' = "done" => ~Goes(replay)'
    BY <2>1 DEF IInv, Goes
  <2> QED
    BY <2>1, <2>2, <2>3, <2>4, <2>5 DEF IInv
<1> QED
  BY <1>1, <1>2, <1>3, <1>4, <1>5, <1>6, <1>7 DEF Next, Terminated

\* The invariant holds in every behaviour in which the emulator records: par_run on all
\* threads in any interleaving, the join of compute_minimal_traces and any replay.
THEOREM RecordingInvariant == Spec /\ by = "emulator" => []IInv
<1>1. Init /\ by = "emulator" => IInv
  BY InvInit
<1>2. IInv /\ [Next]_vars => IInv'
  BY InvNext
<1> QED
  BY <1>1, <1>2, PTL DEF Spec

\* The replay, in a state of the invariant.
LEMMA InReplay ==
    ASSUME IInv, phase \in {"replay", "done"}
    PROVE  /\ From \in Nat /\ To \in From .. TotalSteps /\ ReplayAt(replay, traces[chunk], From, To)
           /\ Covers(traces[chunk], From, To) /\ traces[chunk].start.step = From /\ ExecOK
<1>1. ExecOK /\ IsJoined(traces) /\ chunk \in 1 .. Blocks /\ ReplayAt(replay, traces[chunk], From, To)
  BY DEF IInv, Replayed
<1>2. From \in Nat /\ To \in From .. TotalSteps /\ Covers(traces[chunk], From, To)
  BY <1>1, TraceOf DEF From, To
<1>3. From \in 0 .. TotalSteps
  BY <1>1, <1>2 DEF ExecOK
<1>4. exec[From + 1].step = From
  <2> DEFINE f == From
  <2>1. f \in 0 .. TotalSteps
    BY <1>3
  <2> HIDE DEF f
  <2>2. exec[f + 1].step = f
    BY <1>1, <2>1 DEF ExecOK
  <2> QED
    BY <2>2 DEF f
<1>5. traces[chunk].start = StartState(exec[From + 1])
  BY <1>2 DEF Covers
<1>6. traces[chunk].start.step = From
  BY <1>4, <1>5 DEF StartState
<1> QED
  BY <1>1, <1>2, <1>6

\* compute_minimal_traces deals the traces of its threads into the blocks of the plain run:
\* trace n starts at step (n - 1) * NumSteps in the state of the run, all are full but the
\* last, and only the last has seen the end.
THEOREM RecordingFollows == Spec /\ by = "emulator" => []TracesFollow
<1>1. IInv => TracesFollow
  <2> SUFFICES ASSUME IInv, phase = "joined" PROVE TracesFollow
    BY DEF TracesFollow
  <2>1. ExecOK /\ IsJoined(traces)
    BY DEF IInv
  <2> QED
    BY <2>1, JoinedFollow
<1> QED
  BY <1>1, RecordingInvariant, PTL

\* A replay (process_emu_trace, process_emu_traces or the main state machine) of any trace
\* that the emulator has recorded is after every step in the state of the plain run.
THEOREM EmulatorReplayMatches == Spec /\ by = "emulator" => []ReplayMatches
<1>1. IInv => ReplayMatches
  <2> SUFFICES ASSUME IInv, phase \in {"replay", "done"}, NEW x, x = exec[replay.step + 1]
               PROVE  /\ replay.pc = x.pc /\ replay.c = x.c /\ replay.regs = x.regs
                      /\ replay.step > traces[chunk].start.step => replay.flag = x.flag /\ replay.end = x.end
    BY DEF ReplayMatches
  <2>1. ReplayAt(replay, traces[chunk], From, To) /\ traces[chunk].start.step = From
    BY InReplay
  <2>2. replay.pc = x.pc /\ replay.c = x.c /\ replay.regs = x.regs
    BY <2>1 DEF ReplayAt, Follows
  <2>3. replay.step > From => replay.flag = x.flag /\ replay.end = x.end
    BY <2>1 DEF ReplayAt
  <2> QED
    BY <2>1, <2>2, <2>3
<1> QED
  BY <1>1, RecordingInvariant, PTL

\* Such a replay never reads behind the end of mem_reads, and has used up all of it, and
\* made all steps of the trace, when its loop ends.
THEOREM EmulatorReadsUsedUp == Spec /\ by = "emulator" => []ReadsUsedUp
<1>1. IInv => ReadsUsedUp
  <2> SUFFICES ASSUME IInv, phase \in {"replay", "done"}
               PROVE  /\ ~replay.panic
                      /\ phase = "done" => replay.index = Len(traces[chunk].reads) /\ replay.left = 0
    BY DEF ReadsUsedUp
  <2>1. /\ From \in Nat /\ To \in From .. TotalSteps /\ ReplayAt(replay, traces[chunk], From, To)
        /\ Covers(traces[chunk], From, To) /\ ExecOK
    BY InReplay
  <2>2. replay.panic = FALSE
    BY <2>1 DEF ReplayAt, Follows
  <2>3. ASSUME phase = "done" PROVE replay.index = Len(traces[chunk].reads) /\ replay.left = 0
    <3> DEFINE from == From
               to == To
               tr == traces[chunk]
               r == replay
    <3>1. /\ from \in Nat /\ to \in from .. TotalSteps /\ ReplayAt(r, tr, from, to) /\ Covers(tr, from, to)
          /\ ~Goes(r)
      BY <2>1, <2>3 DEF IInv
    <3> HIDE DEF from, to, tr, r
    <3>2. r.index = Len(tr.reads) /\ r.left = 0
      BY <2>1, <3>1, ReplayEnds
    <3> QED
      BY <3>2 DEF tr, r
  <2> QED
    BY <2>2, <2>3
<1> QED
  BY <1>1, RecordingInvariant, PTL

\* The operation bus gets from step_emu_trace the operands of the plain run and the words
\* that the input of a precompile had in memory at that step.
THEOREM EmulatorOperationTrue == Spec /\ by = "emulator" => []OperationTrue
<1>1. IInv => OperationTrue
  <2> SUFFICES ASSUME IInv, Stepped, NEW x, x = exec[replay.step], NEW i, i = rom[x.pc],
                      NEW xb, xb = WithB(WithA(x, i), i)
               PROVE  replay.op = <<i.op, xb.a, xb.b>> \o Input(xb, i)
    BY DEF OperationTrue
  <2>1. ReplayAt(replay, traces[chunk], From, To) /\ traces[chunk].start.step = From
    BY InReplay DEF Stepped
  <2>2. replay.step > From /\ replay.kind # "main"
    BY <2>1 DEF Stepped
  <2>3. StepShown(x, i, replay)
    BY <2>1, <2>2 DEF ReplayAt
  <2> QED
    BY <2>3 DEF StepShown
<1> QED
  BY <1>1, RecordingInvariant, PTL

-----------------------------------------------------------------------------
(* What the bus shows. *)

\* A multiple of half a word is one of a word or lies half a word behind it.
LEMMA HalfWord ==
    ASSUME NEW addr \in Nat, addr % (WordBits \div 2) = 0
    PROVE  addr % WordBits = 0 \/ addr % WordBits = WordBits \div 2
<1>1. PICK h \in Nat \ {0} : WordBits \div 2 = h /\ WordBits = 2 * h
  BY WordAssumption
<1>2. PICK q \in Nat, r \in 0 .. h - 1 : addr \div h = q /\ addr % h = r /\ h * q \in Nat /\ addr = h * q + r
  BY DivIs
<1>3. addr = h * q
  BY <1>1, <1>2
<1>4. PICK k \in Nat, e \in 0 .. 1 : q = 2 * k + e
  <2> DEFINE d == 2
  <2>1. d \in Nat \ {0}
    OBVIOUS
  <2> HIDE DEF d
  <2>2. \E k \in Nat, e \in 0 .. d - 1 : q \div d = k /\ q % d = e /\ d * k \in Nat /\ q = d * k + e
    BY <2>1, DivIs
  <2> QED
    BY <2>2 DEF d
<1>5. CASE e = 0
  <2>1. addr = 0 + WordBits * k
    <3>1. h * q = (2 * h) * k
      BY <1>4, <1>5
    <3> QED
      BY <1>1, <1>3, <3>1
  <2>2. WordBits \in Nat \ {0} /\ 0 \in 0 .. WordBits - 1
    BY <1>1
  <2>3. (0 + WordBits * k) % WordBits = 0
    BY <2>2, DivMod
  <2> QED
    BY <2>1, <2>3
<1>6. CASE e = 1
  <2>1. addr = h + WordBits * k
    <3>1. h * q = h + (2 * h) * k
      BY <1>4, <1>6
    <3> QED
      BY <1>1, <1>3, <3>1
  <2>2. WordBits \in Nat \ {0} /\ h \in 0 .. WordBits - 1
    BY <1>1
  <2>3. (h + WordBits * k) % WordBits = h
    BY <2>2, DivMod
  <2> QED
    BY <1>1, <2>1, <2>3
<1> QED
  BY <1>4, <1>5, <1>6

\* The words of an aligned word: it alone.
LEMMA RequiredAligned ==
    ASSUME NEW addr \in Nat, addr % WordBits = 0
    PROVE  Required(addr, WordBits)[1] = addr /\ Required(addr, WordBits)[2] = addr
<1>1. WordBits \in Nat \ {0}
  BY MemFacts
<1>2. PICK q \in Nat, r \in 0 .. WordBits - 1 :
        addr % WordBits = r /\ WordBits * q \in Nat /\ addr = WordBits * q + r
  BY <1>1, DivIs
<1> DEFINE d == WordBits - 1
           e == addr + WordBits - 1
<1>3. d \in 0 .. WordBits - 1 /\ e = d + WordBits * q
  BY <1>1, <1>2
<1>4. e % WordBits = d
  <2> HIDE DEF d, e
  <2>1. (d + WordBits * q) % WordBits = d
    BY <1>1, <1>3, DivMod
  <2> QED
    BY <1>3, <2>1
<1>5. e - d = addr /\ addr - 0 = addr
  BY <1>1
<1>6. Required(addr, WordBits) = <<addr - (addr % WordBits), e - (e % WordBits)>>
  BY DEF Required
<1> QED
  BY <1>4, <1>5, <1>6

\* The payload p is that of the access q, bar the accesses that are not described truly.
Shows(p, q) == Misdescribed(q) \/ Tells(p, q)

\* The words of the memory that an access touches.
TrueWords(mem, addr, width) ==
    LET r == Required(addr, width)
    IN  <<Bits(mem, r[1], WordBits), IF r[1] = r[2] THEN 0 ELSE Bits(mem, r[2], WordBits)>>

\* The raw values of what is read for an access that is not aligned.
LEMMA RawRequired ==
    ASSUME NEW x, NEW addr, NEW width, ~IsFullAligned(addr, width)
    PROVE  Raw(ReadRequired(x, addr, width)) = TrueWords(x.mem, addr, width)
<1> DEFINE one == Required(addr, width)[1]
           two == Required(addr, width)[2]
           b1 == Bits(x.mem, one, WordBits)
           b2 == Bits(x.mem, two, WordBits)
<1>1. ReadRequired(x, addr, width) = IF one = two THEN <<b1>> ELSE <<b1, b2>>
  BY DEF ReadRequired
<1>2. TrueWords(x.mem, addr, width) = <<b1, IF one = two THEN 0 ELSE b2>>
  BY DEF TrueWords
<1> HIDE DEF one, two, b1, b2
<1>3. CASE one = two
  BY <1>1, <1>2, <1>3 DEF Raw
<1>4. CASE one # two
  BY <1>1, <1>2, <1>4 DEF Raw
<1> QED
  BY <1>3, <1>4

\* The payload of a load.
LEMMA LoadShown ==
    ASSUME NEW x \in Contexts, NEW addr, NEW width \in 1 .. WordBits, Fits(addr, width), NEW step, NEW slot,
           NEW p, p = LoadPayload(x, addr, step, slot, width),
           NEW q, q = TrueAccess("load", addr, step, slot, width, x.mem, 0)
    PROVE  Shows(p, q)
<1> DEFINE bytes == IF LoadCount(addr, width) = 2 THEN WordBits ELSE width
           pw == Raw(LoadReads(x, addr, width))
           qw == TrueWords(x.mem, addr, width)
<1>0. addr \in Nat /\ WordBits \in Nat \ {0} /\ MemSize \in Nat
  BY MemFacts DEF Fits
<1>1. p = Payload("load", addr, step, slot, bytes, pw, 0)
  BY DEF LoadPayload
<1>2. q = Payload("load", addr, step, slot, width, qw, 0)
  BY DEF TrueAccess, TrueWords
<1>3. bytes = width \/ (width < WordBits /\ Crosses(addr, width))
  BY <1>0 DEF LoadCount
<1>4. (width = WordBits /\ addr % WordBits = WordBits \div 2) \/ addr >= FreeAddr \/ pw = qw
  <2>1. CASE ~IsFullAligned(addr, width)
    <3>1. LoadReads(x, addr, width) = ReadRequired(x, addr, width)
      BY <2>1 DEF LoadReads
    <3> QED
      BY <2>1, <3>1, RawRequired
  <2>2. CASE IsFullAligned(addr, width)
    <3>1. width = WordBits /\ (addr % WordBits = 0 \/ addr % WordBits = WordBits \div 2)
      BY <1>0, <2>2, HalfWord DEF IsFullAligned
    <3>2. ASSUME addr % WordBits = 0, ~(addr >= FreeAddr) PROVE pw = qw
      <4> DEFINE v == Bits(x.mem, addr, WordBits)
      <4>1. addr # FreeAddr
        BY <1>0, <3>2 DEF FreeAddr
      <4>2. LoadReads(x, addr, width) = <<v>>
        BY <2>2, <3>1, <4>1 DEF LoadReads, Read
      <4>3. Required(addr, WordBits)[1] = addr /\ Required(addr, WordBits)[2] = addr
        BY <1>0, <3>2, RequiredAligned
      <4>4. qw = <<v, 0>>
        BY <3>1, <4>3 DEF TrueWords
      <4> HIDE DEF v
      <4>5. Raw(<<v>>) = <<v, 0>>
        BY DEF Raw
      <4> QED
        BY <4>2, <4>4, <4>5
    <3> QED
      BY <3>1, <3>2
  <2> QED
    BY <2>1, <2>2
<1> HIDE DEF bytes, pw, qw
<1>5. /\ p.op = "load" /\ p.addr = addr /\ p.step = step /\ p.slot = slot /\ p.bytes = bytes /\ p.words = pw
      /\ p.value = 0
  BY <1>1 DEF Payload
<1>6. /\ q.op = "load" /\ q.addr = addr /\ q.step = step /\ q.slot = slot /\ q.bytes = width /\ q.words = qw
      /\ q.value = 0
  BY <1>2 DEF Payload
<1> QED
  BY <1>3, <1>4, <1>5, <1>6 DEF Shows, Misdescribed, Tells

\* The payload of a store.
LEMMA StoreShown ==
    ASSUME NEW x \in Contexts, NEW i, NEW addr, NEW width \in 1 .. WordBits, Fits(addr, width), NEW step, NEW val,
           addr = AddrStore(x, i), width = WidthStore(i), step = x.step, val = ValueToStore(x, i),
           NEW p, p = StorePayload(x, i),
           NEW q, q = TrueAccess("store", addr, step, 2, width, x.mem, val)
    PROVE  Shows(p, q)
<1> DEFINE pw == IF StoreCount(addr, width) = 0 THEN <<val, 0>> ELSE Raw(ReadRequired(x, addr, width))
           qw == TrueWords(x.mem, addr, width)
<1>0. addr \in Nat
  BY DEF Fits
<1>1. p = Payload("store", addr, step, 2, width, pw, val)
  BY DEF StorePayload
<1>2. q = Payload("store", addr, step, 2, width, qw, val)
  BY DEF TrueAccess, TrueWords
<1>3. \/ width = WordBits /\ addr % WordBits = WordBits \div 2
      \/ addr % WordBits = 0 /\ width = WordBits
      \/ pw = qw
  <2>1. CASE ~IsFullAligned(addr, width)
    <3>1. StoreCount(addr, width) # 0
      BY <2>1 DEF StoreCount, LoadCount
    <3> QED
      BY <2>1, <3>1, RawRequired
  <2>2. CASE IsFullAligned(addr, width)
    BY <1>0, <2>2, HalfWord DEF IsFullAligned
  <2> QED
    BY <2>1, <2>2
<1> HIDE DEF pw, qw
<1>5. /\ p.op = "store" /\ p.addr = addr /\ p.step = step /\ p.slot = 2 /\ p.bytes = width /\ p.words = pw
      /\ p.value = val
  BY <1>1 DEF Payload
<1>6. /\ q.op = "store" /\ q.addr = addr /\ q.step = step /\ q.slot = 2 /\ q.bytes = width /\ q.words = qw
      /\ q.value = val
  BY <1>2 DEF Payload
<1> QED
  BY <1>3, <1>5, <1>6 DEF Shows, Misdescribed, Tells

\* The payloads on a bus show the accesses one by one.
Paired(bus, truth, T) ==
    /\ bus \in Seq(T) /\ truth \in Seq(T) /\ Len(bus) = Len(truth)
    /\ \A k \in 1 .. Len(truth) : Shows(bus[k], truth[k])

\* One more payload.
LEMMA PairedMore ==
    ASSUME NEW T, NEW bus, NEW truth, Paired(bus, truth, T), NEW p \in T, NEW q \in T, Shows(p, q)
    PROVE  Paired(Append(bus, p), truth \o <<q>>, T)
<1> DEFINE l == Len(bus)
           nb == Append(bus, p)
           nt == truth \o <<q>>
<1>1. /\ bus \in Seq(T) /\ truth \in Seq(T) /\ Len(truth) = l /\ l \in Nat
      /\ \A k \in 1 .. l : Shows(bus[k], truth[k])
  BY DEF Paired
<1>2. /\ nb \in Seq(T) /\ Len(nb) = l + 1 /\ nb[l + 1] = p /\ \A k \in 1 .. l : nb[k] = bus[k]
  BY <1>1
<1>3. /\ nt \in Seq(T) /\ Len(nt) = l + 1 /\ nt[l + 1] = q /\ \A k \in 1 .. l : nt[k] = truth[k]
  BY <1>1
<1> HIDE DEF l, nb, nt
<1>4. \A k \in 1 .. l + 1 : Shows(nb[k], nt[k])
  <2> TAKE k \in 1 .. l + 1
  <2>1. CASE k = l + 1
    BY <1>2, <1>3, <2>1
  <2>2. CASE k # l + 1
    <3>1. k \in 1 .. l
      BY <1>1, <2>2
    <3> QED
      BY <1>1, <1>2, <1>3, <3>1
  <2> QED
    BY <2>1, <2>2
<1>5. Paired(nb, nt, T)
  BY <1>2, <1>3, <1>4 DEF Paired
<1> QED
  BY <1>5 DEF nb, nt

\* What the bus shows of a step is what the step did.
LEMMA BusShown ==
    ASSUME NEW n, NEW x \in Contexts, x = exec[n], x.step = n - 1, NEW i, i = rom[x.pc], IsInst(i), ~Panics(x, i)
    PROVE  \E T : Paired(StepBus(x, i), TrueBus(n), T)
<1> DEFINE xa == WithA(x, i)
           xb == WithB(xa, i)
           xc == WithC(xb, i)
           dB == AddrB(xa, i)
           wB == WidthB(i)
           dS == AddrStore(xc, i)
           wS == WidthStore(i)
           val == ValueToStore(xc, i)
           pA == LoadPayload(x, i.a, x.step, 0, WordBits)
           pB == LoadPayload(xa, dB, xa.step, 1, wB)
           pS == StorePayload(xc, i)
           qA == TrueAccess("load", i.a, n - 1, 0, WordBits, x.mem, 0)
           qB == TrueAccess("load", dB, n - 1, 1, wB, x.mem, 0)
           qS == TrueAccess("store", dS, n - 1, 2, wS, xc.mem, val)
           T == {pA, pB, pS, qA, qB, qS}
<1>1. /\ FromMem(i.aSrc) => Fits(i.a, WordBits)
      /\ FromMem(i.bSrc) => Fits(dB, wB)
      /\ FromMem(i.store) => Fits(dS, wS)
  BY ReadsParts
<1>2. xa \in Contexts /\ xb \in Contexts /\ xc \in Contexts
  BY TypeStep
<1>3. xa.mem = x.mem /\ xa.step = n - 1 /\ xc.step = n - 1 /\ xc.a = xa.a
  <2>1. xa.mem = x.mem /\ xa.step = x.step
    BY DEF WithA, Contexts
  <2>2. xb.step = xa.step /\ xb.a = xa.a
    <3> HIDE DEF xa
    <3> QED
      BY <1>2 DEF WithB, Contexts
  <2>3. xc.step = xb.step /\ xc.a = xb.a
    <3> HIDE DEF xb
    <3> QED
      BY <1>2, KeptByC
  <2> QED
    BY <2>1, <2>2, <2>3
<1>4. WordBits \in 1 .. WordBits /\ wB \in 1 .. WordBits /\ wS \in 1 .. WordBits
  BY MemFacts DEF IsInst, WidthB, WidthStore
<1>5. AddrStore(xa, i) = dS
  <2> HIDE DEF xa, xc
  <2> QED
    BY <1>3 DEF AddrStore, dS
<1>6. TrueBus(n) = (IF FromMem(i.aSrc) THEN <<qA>> ELSE <<>>) \o (IF FromMem(i.bSrc) THEN <<qB>> ELSE <<>>)
                   \o (IF FromMem(i.store) THEN <<qS>> ELSE <<>>)
  <2>1. TrueBus(n) = (IF FromMem(i.aSrc) THEN <<qA>> ELSE <<>>) \o (IF FromMem(i.bSrc) THEN <<qB>> ELSE <<>>)
                   \o (IF FromMem(i.store)
                       THEN <<TrueAccess("store", AddrStore(xa, i), n - 1, 2, wS, xc.mem, val)>> ELSE <<>>)
    BY DEF TrueBus
  <2> QED
    BY <1>5, <2>1
<1> DEFINE b1 == BusA(<<>>, x, i)
           b2 == BusB(b1, xa, i)
           b3 == BusStore(b2, xc, i)
           t1 == IF FromMem(i.aSrc) THEN <<qA>> ELSE <<>>
           t2 == t1 \o (IF FromMem(i.bSrc) THEN <<qB>> ELSE <<>>)
           t3 == t2 \o (IF FromMem(i.store) THEN <<qS>> ELSE <<>>)
<1>7. StepBus(x, i) = b3 /\ TrueBus(n) = t3
  BY <1>6 DEF StepBus
<1>8. /\ b1 = IF FromMem(i.aSrc) THEN Append(<<>>, pA) ELSE <<>>
      /\ b2 = IF FromMem(i.bSrc) THEN Append(b1, pB) ELSE b1
      /\ b3 = IF FromMem(i.store) THEN Append(b2, pS) ELSE b2
  BY DEF BusA, BusB, BusStore
<1>9. /\ t1 = IF FromMem(i.aSrc) THEN <<qA>> ELSE <<>>
      /\ t2 = t1 \o (IF FromMem(i.bSrc) THEN <<qB>> ELSE <<>>)
      /\ t3 = t2 \o (IF FromMem(i.store) THEN <<qS>> ELSE <<>>)
  OBVIOUS
<1>10. FromMem(i.aSrc) => Shows(pA, qA)
  <2> DEFINE s == n - 1
             d == i.a
             w == WordBits
  <2>1. FromMem(i.aSrc) => Fits(d, w)
    BY <1>1
  <2>2. pA = LoadPayload(x, d, s, 0, w) /\ qA = TrueAccess("load", d, s, 0, w, x.mem, 0) /\ w \in 1 .. WordBits
    BY <1>4
  <2> HIDE DEF pA, qA, s, d, w
  <2> QED
    BY <2>1, <2>2, LoadShown
<1>11. FromMem(i.bSrc) => Shows(pB, qB)
  <2> DEFINE s == n - 1
  <2>1. pB = LoadPayload(xa, dB, s, 1, wB) /\ qB = TrueAccess("load", dB, s, 1, wB, xa.mem, 0)
    BY <1>3
  <2> HIDE DEF pB, qB, s, dB, wB, xa
  <2> QED
    BY <1>1, <1>2, <1>4, <2>1, LoadShown
<1>12. FromMem(i.store) => Shows(pS, qS)
  <2> DEFINE s == n - 1
  <2>1. /\ dS = AddrStore(xc, i) /\ wS = WidthStore(i) /\ s = xc.step /\ val = ValueToStore(xc, i)
        /\ pS = StorePayload(xc, i) /\ qS = TrueAccess("store", dS, s, 2, wS, xc.mem, val)
    BY <1>3
  <2> HIDE DEF pS, qS, s, dS, wS, val, xc
  <2> QED
    BY <1>1, <1>2, <1>4, <2>1, StoreShown
<1>13. pA \in T /\ pB \in T /\ pS \in T /\ qA \in T /\ qB \in T /\ qS \in T
  OBVIOUS
<1> HIDE DEF pA, pB, pS, qA, qB, qS, T, b1, b2, b3, t1, t2, t3
<1>14. Paired(<<>>, <<>>, T)
  BY DEF Paired
<1>15. Paired(b1, t1, T)
  <2>1. CASE FromMem(i.aSrc)
    <3>1. Paired(Append(<<>>, pA), <<>> \o <<qA>>, T)
      BY <1>10, <1>13, <1>14, <2>1, PairedMore
    <3>2. <<>> \o <<qA>> = <<qA>>
      OBVIOUS
    <3> QED
      BY <1>8, <1>9, <2>1, <3>1, <3>2
  <2>2. CASE ~FromMem(i.aSrc)
    BY <1>8, <1>9, <1>14, <2>2
  <2> QED
    BY <2>1, <2>2
<1>16. Paired(b2, t2, T)
  <2>1. CASE FromMem(i.bSrc)
    <3>1. Paired(Append(b1, pB), t1 \o <<qB>>, T)
      BY <1>11, <1>13, <1>15, <2>1, PairedMore
    <3> QED
      BY <1>8, <1>9, <2>1, <3>1
  <2>2. CASE ~FromMem(i.bSrc)
    <3>1. t1 \o <<>> = t1
      BY <1>15 DEF Paired
    <3> QED
      BY <1>8, <1>9, <1>15, <2>2, <3>1
  <2> QED
    BY <2>1, <2>2
<1>17. Paired(b3, t3, T)
  <2>1. CASE FromMem(i.store)
    <3>1. Paired(Append(b2, pS), t2 \o <<qS>>, T)
      BY <1>12, <1>13, <1>16, <2>1, PairedMore
    <3> QED
      BY <1>8, <1>9, <2>1, <3>1
  <2>2. CASE ~FromMem(i.store)
    <3>1. t2 \o <<>> = t2
      BY <1>16 DEF Paired
    <3> QED
      BY <1>8, <1>9, <1>16, <2>2, <3>1
  <2> QED
    BY <2>1, <2>2
<1> QED
  BY <1>7, <1>17

\* The memory bus gets from a replayed step the accesses of the plain run, in their order
\* and with the words the memory held, bar the accesses that Misdescribed names.
THEOREM EmulatorBusTrue == Spec /\ by = "emulator" => []BusTrueBar
<1>1. IInv => BusTrueBar
  <2> SUFFICES ASSUME IInv, Stepped
               PROVE  /\ Len(replay.bus) = Len(TrueBus(replay.step))
                      /\ \A k \in 1 .. Len(TrueBus(replay.step)) :
                            Misdescribed(TrueBus(replay.step)[k]) \/ Tells(replay.bus[k], TrueBus(replay.step)[k])
    BY DEF BusTrueBar
  <2> DEFINE n == replay.step
             m == n - 1
             x == exec[n]
             i == rom[x.pc]
  <2>1. /\ From \in Nat /\ To \in From .. TotalSteps /\ ReplayAt(replay, traces[chunk], From, To)
        /\ traces[chunk].start.step = From /\ ExecOK
    BY InReplay DEF Stepped
  <2>2. n > From /\ replay.kind # "main" /\ n \in From .. To
    BY <2>1 DEF Stepped, ReplayAt
  <2>3. StepShown(x, i, replay)
    BY <2>1, <2>2 DEF ReplayAt
  <2>4. m \in 0 .. TotalSteps - 1 /\ m + 1 = n
    <3>1. TotalSteps \in Nat
      BY <2>1 DEF ExecOK
    <3> HIDE DEF n
    <3> QED
      BY <2>1, <2>2, <3>1
  <2>5. x = exec[m + 1]
    BY <2>4
  <2>6. x \in Contexts /\ x.step = m /\ IsInst(i) /\ ~Panics(x, i)
    <3> HIDE DEF n, m, x
    <3> QED
      BY <2>1, <2>4, <2>5, ExecStep
  <2>7. \E T : Paired(StepBus(x, i), TrueBus(n), T)
    <3>1. x = exec[n] /\ i = rom[x.pc] /\ x.step = n - 1
      BY <2>6
    <3> HIDE DEF n, x, i
    <3> QED
      BY <2>6, <3>1, BusShown
  <2>8. PICK T : Paired(replay.bus, TrueBus(n), T)
    BY <2>3, <2>7 DEF StepShown
  <2> QED
    BY <2>8 DEF Paired, Shows
<1> QED
  BY <1>1, RecordingInvariant, PTL
=============================================================================
