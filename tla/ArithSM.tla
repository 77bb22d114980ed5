------------------------------- MODULE ArithSM -------------------------------
(***************************************************************************)
(* The arithmetic state machine (state-machines/arith/src): how            *)
(* ArithOperation turns a multiplication or a division into chunks, flags, *)
(* ranges and carries, the comparison of the remainder with the divisor    *)
(* that it leaves to the binary machine, and the rows of its two tables    *)
(* that a row counts; and, from arith.pil and its tables, what the row     *)
(* must satisfy, looks up and proves.  A chunk has W16 bits.               *)
(***************************************************************************)
EXTENDS BinarySM, SequencesExt

ChunkSize == 2 ^ W16
Chunks == 0 .. 3
Word4(f) == MapThenSumSet(LAMBDA i : f[i] * ChunkSize ^ i, Chunks)
ChunksOf(x) == [i \in Chunks |-> (x \div ChunkSize ^ i) % ChunkSize]

-----------------------------------------------------------------------------
(* ArithOperation *)

\* abs32, abs64 and sign32, sign64, sign128: the absolute value of an integer of w bits
\* and back.  The code returns a negative zero nowhere.
AbsOf(x, w) == IF x >= 2 ^ (w - 1) THEN 2 ^ w - x ELSE x
Negative(x, w) == x >= 2 ^ (w - 1)
Signed(abs, negative, w) == IF negative /\ abs # 0 THEN 2 ^ w - abs ELSE abs

IsDiv(op) == op \in DivOps \cup RemOps
IsM32(op) == op \in {"mul_w", "divu_w", "remu_w", "div_w", "rem_w"}
IsSignedA(op) == op \in {"mulsuh", "mul", "mulh", "div", "rem", "div_w", "rem_w"}
IsSignedB(op) == IsSignedA(op) /\ op # "mulsuh"

\* calculate_abcd_from_ab: a * b = c + 2^64 d, or a = q * b + r as <<q, b, a, r>>.
CalculateAbcd(op, a, b) ==
    LET w == IF IsM32(op) THEN W32 ELSE WordBits
        na == IsSignedA(op) /\ Negative(a, w)
        nb == IsSignedB(op) /\ Negative(b, w)
        absA == IF na THEN AbsOf(a, w) ELSE a
        absB == IF nb THEN AbsOf(b, w) ELSE b
        p == Signed(absA * absB, na # nb, 2 * WordBits)
        q == IF b = 0 THEN 2 ^ w - 1 ELSE Signed(absA \div absB, na # nb, w)
        r == IF b = 0 THEN a ELSE Signed(absA % absB, na, w)
    IN  IF IsDiv(op) THEN <<q, b, a, r>>
        ELSE <<a, b, p % 2 ^ WordBits, p \div 2 ^ WordBits>>

\* calculate_chunks: the difference of the two sides of the equation, by chunks.  The
\* operands that stand for negative numbers are corrected by their 2^32 or 2^64.
CalculateChunks(r) ==
    LET fab == IF r.na # r.nb THEN - 1 ELSE 1
        na_fb == r.na * (1 - 2 * r.nb)
        nb_fa == r.nb * (1 - 2 * r.na)
        Products(i) == MapThenSumSet(LAMBDA j : IF i - j \in Chunks THEN r.a[j] * r.b[i - j]
                                                ELSE 0, Chunks)
        Crossed(i) == r.a[i] * nb_fa + r.b[i] * na_fb
        Lower(i) == (2 * r.np - 1) * r.c[i] + (r.div - 2 * r.nr) * r.d[i]
        Upper(i) == (1 - r.m32) * Crossed(i) + (2 * r.np - 1) * (1 - r.div) * r.d[i]
        At2 == r.m32 * (r.nr - r.np * r.div)
        At4 == r.na * r.nb * r.m32 - r.np * r.m32 * (1 - r.div)
                 + (1 - r.m32) * (r.nr - r.np * r.div)
        At7 == ChunkSize * (1 - r.m32) * (r.na * r.nb - r.np * (1 - r.div))
    IN  [i \in 0 .. 7 |->
            fab * Products(i)
            + (IF i < 4 THEN Lower(i) ELSE Upper(i - 4))
            + (IF i \in {2, 3} THEN r.m32 * Crossed(i - 2) ELSE 0)
            + (CASE i = 2 -> At2 [] i = 4 -> At4 [] i = 7 -> At7 [] OTHER -> 0)]

\* The machine that does not hand a carry on.
CarriesOfAlone(chunks) == [i \in 0 .. 6 |-> Quotient(chunks[i], ChunkSize)]

\* update_carries; the division of Rust cuts towards zero.
CarriesOf(chunks) ==
    LET carry[i \in 0 .. 6] ==
            Quotient(chunks[i] + (IF i > 0 THEN carry[i - 1] ELSE 0), ChunkSize)
    IN  carry

\* The number of a range: 0 full, 1 positive, 2 negative.
RangeOf(negative) == IF negative = 1 THEN 2 ELSE 1
RangeId(r3, r1, s3, s1) == (r3 + r1) * 3 + s3 + s1 + (IF r1 + s1 > 0 THEN 8 ELSE 0)

\* update_flags_and_ranges
Ranges(op, f) ==
    LET sa == IsSignedA(op)
        sb == IsSignedB(op)
        rem == op \in RemOps
        wide == f.m32 = 0
        a1 == CASE wide -> 0
                [] ~ wide /\ sa -> RangeOf(f.na)
                [] ~ wide /\ op = "divu_w" -> RangeOf(f.sext)
                [] OTHER -> 0
        b1 == IF ~ wide /\ sb THEN RangeOf(f.nb) ELSE 0
        c1 == CASE wide -> 0
                [] ~ wide /\ f.div = 0 -> RangeOf(f.sext)
                [] ~ wide /\ f.div = 1 /\ sa -> RangeOf(f.np)
                [] OTHER -> 0
        d1 == CASE wide -> 0
                [] ~ wide /\ rem -> RangeOf(f.sext)
                [] ~ wide /\ ~ rem /\ sa -> RangeOf(f.nr)
                [] OTHER -> 0
        a3 == IF wide /\ sa THEN RangeOf(f.na) ELSE 0
        b3 == IF wide /\ sb THEN RangeOf(f.nb) ELSE 0
        c3 == IF wide /\ sa /\ f.div = 1 THEN RangeOf(f.np) ELSE 0
        d3 == IF wide /\ sa THEN RangeOf(IF f.div = 1 THEN f.nr ELSE f.np) ELSE 0
    IN  <<RangeId(a3, a1, b3, b1), RangeId(c3, c1, d3, d1)>>

\* The signs and flags of ArithOperation::calculate, from the four values x.
CalculateFlags(op, x) ==
    LET m32 == One(IsM32(op))
        div == One(IsDiv(op))
        w == IF IsM32(op) THEN W32 ELSE WordBits
        wc == IF IsM32(op) /\ IsDiv(op) THEN W32 ELSE WordBits
        sa == IsSignedA(op)
        nc == One(sa /\ Bit(x[3], wc - 1) = 1)
        nd == One(sa /\ Bit(x[4], w - 1) = 1)
        result == CASE op = "mul_w" -> x[3]
                    [] op \in {"divu_w", "div_w"} -> x[1]
                    [] op \in {"remu_w", "rem_w"} -> x[4]
                    [] OTHER -> 0
    IN  [m32 |-> m32, div |-> div, na |-> One(sa /\ Bit(x[1], w - 1) = 1),
         nb |-> One(IsSignedB(op) /\ Bit(x[2], w - 1) = 1),
         np |-> IF div = 1 \/ m32 = 1 THEN nc ELSE nd,
         nr |-> IF div = 1 THEN nd ELSE 0, sext |-> Bit(result, W32 - 1)]

\* ArithOperation::calculate
ArithRow(op, a, b) ==
    LET w == IF IsM32(op) THEN W32 ELSE WordBits
        Flagged(x, f) ==
            [op |-> op, a |-> ChunksOf(x[1]), b |-> ChunksOf(x[2]),
             c |-> ChunksOf(x[3]), d |-> ChunksOf(x[4]),
             divByZero |-> One(IsDiv(op) /\ b = 0),
             divOverflow |-> One(op \in {"div", "rem", "div_w", "rem_w"}
                                   /\ a = 2 ^ (w - 1) /\ b = 2 ^ w - 1),
             mainMul |-> One(op \in {"mulu", "mul", "mul_w"}),
             mainDiv |-> One(op \in DivOps), multiplicity |-> 1,
             ranges |-> Ranges(op, f)] @@ f
        Carried(r) == [carry |-> CarriesOf(CalculateChunks(r))] @@ r
        Of(x) == Carried(Flagged(x, CalculateFlags(op, x)))
    IN  Of(CalculateAbcd(op, a, b))

ArithPadding == [ArithRow("muluh", 0, 0) EXCEPT !.multiplicity = 0]

\* ArithFullSM::generate_inputs: |r| < |b|, asked of the binary machine.
GenerateInputs(op, a, b) ==
    LET Wide(x, negative) == Word4(x) + (IF IsM32(op) /\ negative = 1
                                         THEN 2 ^ WordBits - 2 ^ W32 ELSE 0)
        Compare(r) == CASE r.nr = 0 /\ r.nb = 0 -> "ltu"
                        [] r.nr = 0 /\ r.nb = 1 -> "lt_abs_pn"
                        [] r.nr = 1 /\ r.nb = 0 -> "lt_abs_np"
                        [] r.nr = 1 /\ r.nb = 1 -> "gt"
        Asked(r) == IF r.div = 1 /\ r.divByZero = 0
                    THEN <<<<Compare(r), Wide(r.d, r.nr), Wide(r.b, r.nb)>>>>
                    ELSE <<>>
    IN  Asked(ArithRow(op, a, b))

-----------------------------------------------------------------------------
(* The tables: arith_range_table_helpers.rs, arith_table_data.rs *)

\* RANGES: the sides of the 43 ranges of a chunk.
FullIds ==
    <<0, 1, 2, 9, 10, 11, 12, 13, 14, 15, 16, 17, 20, 23, 26, 27, 28, 29, 30, 31, 32, 33,
      34, 35, 36>>
PosIds == <<3, 4, 5, 18, 21, 24, 37, 38, 39>>
NegIds == <<6, 7, 8, 19, 22, 25, 40, 41, 42>>
Offsets ==
    <<0, 2, 4, 50, 51, 52, 59, 60, 61, 6, 8, 10, 12, 14, 16, 18, 20, 22, 53, 62, 24, 54, 63,
      26, 55, 64, 28, 30, 32, 34, 36, 38, 40, 42, 44, 46, 48, 56, 57, 58, 65, 66, 67>>
Half == ChunkSize \div 2
CarryId == 100
CarryMin == - (15 * ChunkSize - 1)

\* get_row_chunk_range_check and get_row_carry_range_check; both assert the range.
RangeRow(id, x) ==
    IF id = CarryId
    THEN IF x \in CarryMin .. 15 * ChunkSize THEN 68 * Half - CarryMin + x ELSE Panic
    ELSE LET low == IF id \in ToSet(NegIds) THEN Half ELSE 0
             high == IF id \in ToSet(PosIds) THEN Half - 1 ELSE ChunkSize - 1
         IN  IF x \in low .. high THEN Offsets[id + 1] * Half + x - low ELSE Panic

\* arith_range_table.pil: the full ranges, then the positive and the negative ones.
RangeTableAt(n) ==
    LET k == n \div Half
    IN  CASE k < 50 -> <<FullIds[(k \div 2) + 1], n % ChunkSize>>
          [] k \in 50 .. 58 -> <<PosIds[k - 49], n % Half>>
          [] k \in 59 .. 67 -> <<NegIds[k - 58], Half + (n % Half)>>
          [] OTHER -> <<CarryId, n - 68 * Half + CarryMin>>

\* The range checks that process_slice counts for a row: chunks 0 and 2 are full, chunks
\* 1 and 3 have the ranges of the row, and every carry is bounded.
RangeChecks(r) ==
    LET ab == r.ranges[1]
        cd == r.ranges[2]
    IN  FlattenSeq([k \in 1 .. 2 |->
            LET i == 2 * (k - 1)
            IN  <<<<0, r.a[i]>>, <<0, r.b[i]>>, <<0, r.c[i]>>, <<0, r.d[i]>>>>])
        \o <<<<ab, r.a[3]>>, <<ab + 26, r.a[1]>>, <<ab + 17, r.b[3]>>, <<ab + 9, r.b[1]>>,
             <<cd, r.c[3]>>, <<cd + 26, r.c[1]>>, <<cd + 17, r.d[3]>>, <<cd + 9, r.d[1]>>>>
        \o [k \in 1 .. 7 |-> <<CarryId, r.carry[k - 1]>>]

\* The machine that counts a padding row's checks of range 0 as those of an operation.
PaddingRangeChecksFewer(n) ==
    [k \in 1 .. 8 * n |-> <<0, 0>>] \o [k \in 1 .. 2 * n |-> <<26, 0>>]
    \o [k \in 1 .. 2 * n |-> <<17, 0>>] \o [k \in 1 .. 2 * n |-> <<9, 0>>]
    \o [k \in 1 .. 7 * n |-> <<CarryId, 0>>]

\* compute_witness counts the checks of n padding rows together.
PaddingRangeChecks(n) ==
    [k \in 1 .. 10 * n |-> <<0, 0>>] \o [k \in 1 .. 2 * n |-> <<26, 0>>]
    \o [k \in 1 .. 2 * n |-> <<17, 0>>] \o [k \in 1 .. 2 * n |-> <<9, 0>>]
    \o [k \in 1 .. 7 * n |-> <<CarryId, 0>>]

\* ARITH_TABLE_ROWS: the sets of flags that the table has a row for.
FlagsOf(r) ==
    {n \in {"na", "nb", "np", "nr", "sext", "divByZero", "divOverflow"} : r[n] = 1}
SignedDivRows ==
    {{}, {"nb"}, {"na", "nb"}, {"na", "np"}, {"nb", "np"}, {"np", "nr"},
     {"na", "np", "nr"}, {"nb", "np", "nr"}, {"na", "divByZero"},
     {"na", "np", "nr", "divByZero"}, {"na", "nb", "np", "divOverflow"}}
SignedMulRows == {{}, {"na"}, {"nb"}, {"na", "nb"}, {"na", "np"}, {"nb", "np"}}
Sext(rows, n) == {IF n \in f THEN f \cup {"sext"} ELSE f : f \in rows}
ArithTable(op) ==
    CASE op \in {"mulu", "muluh"} -> {{}}
      [] op = "mulsuh" -> {{}, {"na"}, {"na", "np"}}
      [] op \in {"mul", "mulh"} -> SignedMulRows
      [] op = "mul_w" -> {{}, {"sext"}}
      [] op \in {"divu", "remu"} -> {{}, {"divByZero"}}
      [] op \in {"div", "rem"} -> SignedDivRows
      [] op = "divu_w" -> {{}, {"sext"}, {"sext", "divByZero"}}
      [] op = "remu_w" -> SUBSET {"sext", "divByZero"}
      [] op = "div_w" -> Sext(SignedDivRows, "na")
      [] op = "rem_w" -> Sext(SignedDivRows, "nr")

\* arith_table.pil: RANGE_AB and RANGE_CD of the row of op with the flags f.
ArithTableRanges(op, f) ==
    LET SideOf(flag) == IF flag \in f THEN 2 ELSE 1
        sa == IsSignedA(op)
        a == CASE sa -> SideOf("na")
               [] IsM32(op) /\ op \in DivOps \ {"div_w"} -> SideOf("sext")
               [] OTHER -> 0
        b == IF IsSignedB(op) THEN SideOf("nb") ELSE 0
        c == CASE IsM32(op) /\ ~ IsDiv(op) -> SideOf("sext")
               [] IsDiv(op) /\ sa -> SideOf("np")
               [] OTHER -> 0
        d == CASE IsM32(op) /\ op \in RemOps -> SideOf("sext")
               [] ~(IsM32(op) /\ op \in RemOps) /\ sa -> SideOf(IF IsDiv(op) THEN "nr" ELSE "np")
               [] OTHER -> 0
        Id(x, y) == 3 * x + y + (IF IsM32(op) /\ x + y > 0 THEN 8 ELSE 0)
    IN  <<Id(a, b), Id(c, d)>>

-----------------------------------------------------------------------------
(* arith.pil *)

\* The constraints within a row: the equation with its carries and what the flags of a
\* division by zero and of an overflow force.
ArithHolds(r) ==
    LET eq == CalculateChunks(r)
        top == [i \in Chunks |-> IF r.m32 = 1 /\ i >= 2 THEN 0 ELSE ChunkSize - 1]
        least == [i \in Chunks |-> IF i = (IF r.m32 = 1 THEN 1 ELSE 3) THEN Half ELSE 0]
        zero == [i \in Chunks |-> 0]
    IN  /\ \A i \in 0 .. 7 :
               eq[i] + (IF i > 0 THEN r.carry[i - 1] ELSE 0)
                   = (IF i < 7 THEN r.carry[i] * ChunkSize ELSE 0)
        /\ r.divByZero = 1 => r.a = top /\ r.b = zero
        /\ r.divOverflow = 1 => r.b = top /\ r.c = least
        /\ r.div = 1 /\ r.divByZero = 0 => r.b # zero
        /\ r.m32 = 1 => (IF r.div = 1 THEN Word4(r.c) ELSE Word4(r.a)) < 2 ^ W32
                        /\ Word4(r.b) < 2 ^ W32

ArithProves(r) ==
    LET result == CASE r.mainMul = 1 -> Word4(r.c)
                    [] r.mainDiv = 1 -> Word4(r.a)
                    [] OTHER -> Word4(r.d)
        high == CASE r.sext = 1 -> 2 ^ W32 - 1
                  [] r.sext = 0 /\ r.m32 = 1 -> 0
                  [] OTHER -> Halves(result)[2]
    IN  <<r.op, Halves(Word4(IF r.div = 1 THEN r.c ELSE r.a)), Halves(Word4(r.b)),
          <<Halves(result)[1], high>>, r.divByZero>>

\* The comparison that the row leaves to the binary machine.
ArithAssumes(r) ==
    LET Wide(x, negative) ==
            <<Halves(Word4(x))[1], Halves(Word4(x))[2] + r.m32 * negative * (2 ^ W32 - 1)>>
        compare == CASE r.nr = 0 /\ r.nb = 0 -> "ltu"
                     [] r.nr = 1 /\ r.nb = 0 -> "lt_abs_np"
                     [] r.nr = 0 /\ r.nb = 1 -> "lt_abs_pn"
                     [] OTHER -> "gt"
    IN  IF r.div = 1 /\ r.divByZero = 0
        THEN <<<<compare, Wide(r.d, r.nr), Wide(r.b, r.nb), <<1, 0>>, 1>>>>
        ELSE <<>>
=============================================================================
