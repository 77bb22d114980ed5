------------------------------ MODULE BinarySM ------------------------------
(***************************************************************************)
(* The binary state machines (state-machines/binary/src): the row each of  *)
(* Binary, BinaryAdd and BinaryExtension writes for an operation, the rows *)
(* of the lookup tables it counts meanwhile, and, from the constraints     *)
(* beside them (state-machines/binary/pil), what the written row looks up  *)
(* and which operation it proves.  A byte has W8 bits.                     *)
(***************************************************************************)
EXTENDS ZiskOps, Sequences

CONSTANT LowBits   \* bits of b that the table of the extensions takes, 8 in the code

Bytes == 0 .. 7
Byte(x, i) == (x \div 2 ^ (W8 * i)) % 2 ^ W8
Word8(f) == MapThenSumSet(LAMBDA i : f[i] * 2 ^ (W8 * i), Bytes)
IsNegative(x) == x >= 2 ^ (W8 - 1)
One(p) == IF p THEN 1 ELSE 0

\* The lower and the upper half of a u64, as they stand on the operation bus.
Halves(x) == <<x % 2 ^ W32, x \div 2 ^ W32>>

-----------------------------------------------------------------------------
(* Binary: binary_basic.rs *)

\* The comparisons of a remainder with a divisor that the arithmetic machine asks for
\* are no Zisk operations.
BinaryExecute(op, a, b) ==
    LET Minus(x) == U(- x, WordBits)
    IN  CASE op = "lt_abs_np" -> Truth(Minus(a) < b)
          [] op = "lt_abs_pn" -> Truth(a < Minus(b))
          [] op = "gt" -> Truth(S(a, WordBits) > S(b, WordBits))
          [] OTHER -> Execute(op, a, b)

\* binary_basic_table_op of the operations of 32 bits.
WideOf ==
    [minu_w |-> "minu", min_w |-> "min", maxu_w |-> "maxu", max_w |-> "max",
     ltu_w |-> "ltu", lt_w |-> "lt", eq_w |-> "eq", add_w |-> "add", sub_w |-> "sub",
     leu_w |-> "leu", le_w |-> "le"]
Mode32(op) == op \in DOMAIN WideOf
TableOp(op) == IF Mode32(op) THEN WideOf[op] ELSE op
LastByte(op) == IF Mode32(op) THEN 3 ELSE 7
Extended(op, i) == Mode32(op) /\ i >= 4

IsMinMax(t) == t \in {"minu", "min", "maxu", "max"}
UsesLastCarry(t) == t \in {"lt_abs_np", "lt_abs_pn", "ltu", "lt", "gt", "eq", "leu", "le"}
HasInitialCarry(t) == t \in {"lt_abs_np", "lt_abs_pn"}

\* The carry out of byte i with the bytes x and y and the carry in, by the arms of
\* process_slice.  Mixed: the signs differ in the last byte of a signed comparison.
Mixed(op, i, x, y) == i = LastByte(op) /\ IsNegative(x) # IsNegative(y)
Less(p, q, cin) == IF p = q THEN cin % 2 ELSE One(p < q)
Complement(z, cin) == 2 ^ W8 - 1 - z + cin \div 2

MinCarry(op, i, x, y, cin) ==
    CASE Extended(op, i) -> 0
      [] ~ Extended(op, i) /\ TableOp(op) = "min" /\ Mixed(op, i, x, y) -> One(IsNegative(x))
      [] OTHER -> Less(x, y, cin)
MaxCarry(op, i, x, y, cin) ==
    CASE Extended(op, i) -> 0
      [] ~ Extended(op, i) /\ TableOp(op) = "max" /\ Mixed(op, i, x, y) -> One(IsNegative(y))
      [] OTHER -> Less(y, x, cin)
LtAbsNpCarry(x, y, cin) ==
    Less(Complement(x, cin) % 2 ^ W8, y, cin) + 2 * (Complement(x, cin) \div 2 ^ W8)
LtAbsPnCarry(x, y, cin) ==
    Less(x, Complement(y, cin) % 2 ^ W8, cin) + 2 * (Complement(y, cin) \div 2 ^ W8)
LtCarry(op, i, x, y, cin) ==
    IF TableOp(op) = "lt" /\ Mixed(op, i, x, y) THEN One(IsNegative(x)) ELSE Less(x, y, cin)
GtCarry(op, i, x, y, cin) ==
    IF Mixed(op, i, x, y) THEN One(IsNegative(y)) ELSE Less(y, x, cin)
EqCarry(op, i, x, y, cin) == One((x = y /\ cin = 0) = (i = LastByte(op)))
AddCarry(op, i, x, y, cin) == IF i = LastByte(op) THEN 0 ELSE (cin + x + y) \div 2 ^ W8
SubCarry(op, i, x, y, cin) == IF i = LastByte(op) THEN 0 ELSE One(x < y + cin)
LeCarry(op, i, x, y) ==
    One(IF TableOp(op) = "le" /\ Mixed(op, i, x, y) THEN IsNegative(x) ELSE x <= y)
LogicCarry == 0

Carry(op, i, x, y, cin) ==
    LET t == TableOp(op)
    IN  CASE t \in {"minu", "min"} -> MinCarry(op, i, x, y, cin)
          [] t \in {"maxu", "max"} -> MaxCarry(op, i, x, y, cin)
          [] t = "lt_abs_np" -> LtAbsNpCarry(x, y, cin)
          [] t = "lt_abs_pn" -> LtAbsPnCarry(x, y, cin)
          [] t \in {"ltu", "lt"} -> LtCarry(op, i, x, y, cin)
          [] t = "gt" -> GtCarry(op, i, x, y, cin)
          [] t = "eq" -> EqCarry(op, i, x, y, cin)
          [] t = "add" -> AddCarry(op, i, x, y, cin)
          [] t = "sub" -> SubCarry(op, i, x, y, cin)
          [] t \in {"leu", "le"} -> LeCarry(op, i, x, y)
          [] t \in LogicOps -> LogicCarry

Carries(op, a, b) ==
    LET carry[i \in Bytes] ==
            Carry(op, i, Byte(a, i), Byte(b, i),
                  IF i > 0 THEN carry[i - 1] ELSE IF HasInitialCarry(op) THEN 2 ELSE 0)
    IN  carry

\* The arguments with which process_slice asks for the row of the table of byte i.
TableKey(op, a, b, i) ==
    LET t == TableOp(op)
        carry == Carries(op, a, b)
        c == BinaryExecute(op, a, b)[1]
        last == One(i = LastByte(op))
        ofB == (IF Mode32(op) THEN U(c, W32) ELSE c) = b
        flags == CASE IsMinMax(t) -> carry[i] + 2 + 4 * One(a # b /\ ~ ofB)
                   [] UsesLastCarry(t) -> carry[i] + 8 * last
                   [] OTHER -> carry[i]
        fromC == Extended(op, i) /\ (IsMinMax(t) \/ t \in {"add", "sub"})
    IN  [op |-> IF Extended(op, i) THEN "ext32" ELSE t,
         a |-> IF fromC THEN Byte(c, 3) ELSE Byte(a, i),
         b |-> IF fromC /\ ~ IsMinMax(t) THEN 0 ELSE Byte(b, i),
         cin |-> IF i > 0 THEN carry[i - 1] ELSE IF HasInitialCarry(op) THEN 2 ELSE 0,
         last |-> last, flags |-> flags]

Panic == - 1   \* in place of a row of a table

P2_8 == 2 ^ W8
P2_16 == P2_8 * P2_8
P2_17 == 2 * P2_16
P2_18 == 4 * P2_16
P2_19 == 8 * P2_16

TableOps ==
    <<"minu", "min", "maxu", "max", "lt_abs_np", "lt_abs_pn",
      "ltu", "lt", "gt", "eq", "add", "sub",
      "leu", "le", "and", "or", "xor", "ext32">>
OffsetOpcode(t) ==
    LET k == CHOOSE j \in DOMAIN TableOps : TableOps[j] = t
    IN  CASE k <= 6 -> (k - 1) * P2_19
          [] k \in 7 .. 12 -> 6 * P2_19 + (k - 7) * P2_18
          [] OTHER -> 6 * P2_19 + 6 * P2_18 + (k - 13) * P2_17

\* BinaryBasicTableSM::calculate_table_row; unexpected flags of ext32 panic.
HasCin(t) == t \notin {"leu", "le", "and", "or", "xor"}
CalculateTableRow(key) ==
    LET resultIsA == (key.flags \div 4) % 2
    IN  IF key.op = "ext32"
        THEN IF key.flags \notin {0, 2, 6} THEN Panic
             ELSE key.a + key.cin * P2_8 + OffsetOpcode(key.op)
                  + 2 * P2_8 * (CASE key.flags = 0 -> 0
                                  [] key.flags = 2 -> 1
                                  [] key.flags = 6 -> 3)
        ELSE key.a + key.b * P2_8 + key.last * P2_16 + OffsetOpcode(key.op)
             + (IF HasCin(key.op) THEN key.cin * P2_17 ELSE 0)
             + (IF IsMinMax(key.op) THEN resultIsA * P2_18 ELSE 0)

\* The row of the trace.
BasicRow(op, a, b) ==
    LET t == TableOp(op)
        c == BinaryExecute(op, a, b)[1]
        carry == Carries(op, a, b)
        moved == UsesLastCarry(t)
    IN  [m_op |-> t, mode32 |-> Mode32(op), a |-> [i \in Bytes |-> Byte(a, i)],
         b |-> [i \in Bytes |-> Byte(b, i)],
         c |-> [i \in Bytes |-> IF moved /\ i = 7 THEN Byte(c, 0)
                                ELSE IF moved /\ i = 0 THEN 0 ELSE Byte(c, i)],
         carry |-> carry, cout |-> carry[LastByte(op)],
         resultIsA |-> One(IsMinMax(t)) * carry[LastByte(op)],
         useLastCarry |-> One(moved), isMinMax |-> One(IsMinMax(t)),
         hasInitialCarry |-> One(HasInitialCarry(t)), multiplicity |-> 1]

BasicPadding ==
    [BasicRow("and", 0, 0) EXCEPT !.multiplicity = 0]

\* The rows of the table that padding rows count: And of zeros, 7 inner bytes and a last.
PaddingKey(last) == [op |-> "and", a |-> 0, b |-> 0, cin |-> 0, last |-> last, flags |-> 0]

\* binary.pil: the tuple that the row looks up for byte i.
BasicLookup(r, i) ==
    LET last == (r.mode32 /\ i = 3) \/ (~ r.mode32 /\ i = 7)
        ext == r.mode32 /\ i >= 4
    IN  <<One(last), IF ext THEN "ext32" ELSE r.m_op,
          IF ext THEN r.c[3] ELSE r.a[i], IF ext THEN 0 ELSE r.b[i],
          IF i = 0 THEN 2 * r.hasInitialCarry ELSE r.carry[i - 1], r.c[i],
          r.carry[i] + 2 * r.isMinMax + 4 * r.resultIsA + 8 * r.useLastCarry * One(last)>>

\* binary.pil: the operation that the row proves.
BasicProves(r) ==
    LET moved == r.useLastCarry * r.cout
        op == IF r.mode32 THEN CHOOSE o \in DOMAIN WideOf : WideOf[o] = r.m_op ELSE r.m_op
        c == Word8(r.c) + moved - moved * 2 ^ (7 * W8)
    IN  <<op, Halves(Word8(r.a)), Halves(Word8(r.b)), Halves(c), r.cout - r.resultIsA>>

\* binary_table.pil: the tuple of row n of the table.
BasicTableAt(n) ==
    LET base2 == 6 * P2_19
        base3 == base2 + 6 * P2_18
        base4 == base3 + 5 * P2_17
        k == CASE n < base2 -> n \div P2_19 + 1
               [] n \in base2 .. base3 - 1 -> (n - base2) \div P2_18 + 7
               [] n \in base3 .. base4 - 1 -> (n - base3) \div P2_17 + 13
               [] OTHER -> 18
        t == TableOps[k]
        ext == t = "ext32"
        offset == (n - base4) \div (2 * P2_8)
        a == n % P2_8
        b == IF ext THEN 0 ELSE (n \div P2_8) % P2_8
        last == IF ext THEN 0 ELSE (n \div P2_16) % 2
        cin == CASE ext -> (n \div P2_8) % 2
                 [] HasInitialCarry(t) -> (n \div P2_17) % 4
                 [] k >= 13 /\ ~ ext -> 0
                 [] OTHER -> (n \div P2_17) % 2
        resultIsA == CASE ext -> One(offset % 4 = 3)
                       [] IsMinMax(t) -> (n \div P2_18) % 2
                       [] OTHER -> 0
        isMinMax == IF ext THEN offset % 2 ELSE One(IsMinMax(t))
        cout == IF ext THEN 0 ELSE Carry(t, IF last = 1 THEN 7 ELSE 0, a, b, cin)
        c == CASE ext -> IF IsNegative(a) THEN P2_8 - 1 ELSE 0
               [] IsMinMax(t) -> IF resultIsA = 1 THEN a ELSE b
               [] UsesLastCarry(t) -> last * (cout % 2)
               [] t = "add" -> (cin + a + b) % P2_8
               [] t = "sub" -> (a - cin - b) % P2_8
               [] t \in LogicOps -> LogicOp(t, a, b)[1]
    IN  <<last, t, a, b, cin, c,
          cout + 2 * isMinMax + 4 * resultIsA
               + 8 * last * One(UsesLastCarry(t) /\ ~ ext)>>

-----------------------------------------------------------------------------
(* BinaryAdd: binary_add.rs *)

\* Two halves with a carry between them; the result in chunks of 16 bits.
AddRow(a, b) ==
    LET low == Halves(a)[1] + Halves(b)[1]
        high == Halves(a)[2] + Halves(b)[2] + low \div 2 ^ W32
        ChunksOf(s) == <<s % 2 ^ W16, (s % 2 ^ W32) \div 2 ^ W16>>
    IN  [a |-> Halves(a), b |-> Halves(b), c |-> ChunksOf(low) \o ChunksOf(high),
         cout |-> <<low \div 2 ^ W32, high \div 2 ^ W32>>, multiplicity |-> 1]
AddPadding ==
    [AddRow(0, 0) EXCEPT !.multiplicity = 0]

\* binary_add.pil
AddHolds(r) ==
    \A i \in 1 .. 2 :
        /\ r.cout[i] \in {0, 1}
        /\ r.a[i] + r.b[i] + (IF i = 2 THEN r.cout[1] ELSE 0)
               = r.cout[i] * 2 ^ W32 + r.c[2 * i] * 2 ^ W16 + r.c[2 * i - 1]
AddProves(r) ==
    <<"add", r.a, r.b, <<r.c[1] + r.c[2] * 2 ^ W16, r.c[3] + r.c[4] * 2 ^ W16>>, 0>>

-----------------------------------------------------------------------------
(* BinaryExtension: binary_extension.rs *)

\* What byte j of the shifted or extended operand, x, adds to the result.
ByteOut(op, j, x, by) ==
    LET placed == x * 2 ^ (W8 * j)
        Ones(from) == 2 ^ WordBits - 2 ^ from
        Fill(p, from) == IF p /\ IsNegative(x) THEN Ones(from) ELSE 0
    IN  CASE op = "sll" -> U(placed * 2 ^ by, WordBits)
          [] op = "srl" -> placed \div 2 ^ by
          [] op = "sra" -> placed \div 2 ^ by + Fill(j = 7 /\ by # 0, WordBits - by)
          [] op = "signextend_b" -> IF j = 0 THEN x + Fill(TRUE, W8) ELSE 0
          [] op = "signextend_h" -> IF j <= 1 THEN placed + Fill(j = 1, W16) ELSE 0
          [] op = "sll_w" /\ j < 4 -> SignExtended(placed * 2 ^ by, W32)
          [] op = "srl_w" /\ j < 4 -> SignExtended(placed \div 2 ^ by, W32)
          [] op = "sra_w" /\ j < 4 -> placed \div 2 ^ by + Fill(j = 3, W32 - by)
          [] op = "signextend_w" /\ j < 4 -> placed + Fill(j = 3, W32)
          [] OTHER -> 0

IsShift(op) == op \in ShiftOps
ShiftBy(op, b) == b % (IF op \in {"sll_w", "srl_w", "sra_w"} THEN W32 ELSE WordBits)

\* A sign extension takes b for its operand; what is left of the lower half of the
\* other operand goes to in2.
ExtensionRow(op, a, b) ==
    LET in1 == IF IsShift(op) THEN a ELSE b
        in2 == IF IsShift(op) THEN b ELSE a
        low == IF IsShift(op) THEN in2 % 2 ^ LowBits ELSE 0
    IN  [op |-> op, isShift |-> One(IsShift(op)), in1 |-> [j \in Bytes |-> Byte(in1, j)],
         low |-> low,
         in2 |-> <<IF IsShift(op) THEN Halves(in2)[1] \div 2 ^ LowBits ELSE Halves(in2)[1],
                   Halves(in2)[2]>>,
         out |-> [j \in Bytes |-> Halves(ByteOut(op, j, Byte(in1, j), ShiftBy(op, in2)))],
         multiplicity |-> 1]
ExtensionPadding ==
    [ExtensionRow("signextend_w", 0, 0) EXCEPT !.multiplicity = 0]

\* BinaryExtensionTableSM::calculate_table_row
ExtensionOps ==
    <<"sll", "srl", "sra", "sll_w", "srl_w", "sra_w",
      "signextend_b", "signextend_h", "signextend_w">>
P2_11 == 8 * P2_8
ShiftRows == P2_11 * 2 ^ LowBits
CalculateExtensionRow(op, j, x, low) ==
    LET k == CHOOSE n \in DOMAIN ExtensionOps : ExtensionOps[n] = op
    IN  x + j * P2_8 + low * P2_11
          + (IF k <= 6 THEN (k - 1) * ShiftRows ELSE 6 * ShiftRows + (k - 7) * P2_11)

\* binary_extension.pil and binary_extension_table.pil
ExtensionLookup(r, j) ==
    <<r.op, j, r.in1[j], r.low, r.out[j], r.isShift>>
ExtensionProves(r) ==
    LET in1 == Halves(Word8(r.in1))
        in2 == IF r.isShift = 1 THEN <<r.low + 2 ^ LowBits * r.in2[1], r.in2[2]>> ELSE r.in2
        Outs(h) == MapThenSumSet(LAMBDA j : r.out[j][h], Bytes)
    IN  <<r.op, IF r.isShift = 1 THEN in1 ELSE in2, IF r.isShift = 1 THEN in2 ELSE in1,
          <<Outs(1), Outs(2)>>, 0>>
ExtensionTableAt(n) ==
    LET shift == n < 6 * ShiftRows
        k == IF shift THEN n \div ShiftRows + 1 ELSE (n - 6 * ShiftRows) \div P2_11 + 7
        op == ExtensionOps[k]
        low == IF shift THEN (n \div P2_11) % 2 ^ LowBits ELSE 0
        j == (n \div P2_8) % 8
        x == n % P2_8
    IN  <<op, j, x, low, Halves(ByteOut(op, j, x, ShiftBy(op, low))), One(shift)>>
=============================================================================
