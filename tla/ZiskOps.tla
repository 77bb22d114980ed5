------------------------------ MODULE ZiskOps ------------------------------
(***************************************************************************)
(* The operations of the Zisk processor (core/src/zisk_ops.rs): what op_*  *)
(* and opc_* make of the operands a and b, as a pair <<c, flag>>.          *)
(*                                                                         *)
(* A u64 has WordBits bits, 64 in the code, and the narrower integers are  *)
(* scaled with it: a u32 has half of its bits, a u16 a quarter and a u8 an *)
(* eighth.                                                                 *)
(***************************************************************************)
EXTENDS Integers, FiniteSetsExt, Sums

CONSTANT WordBits   \* bits of a u64

\* The second part is what exponentiation is, as far as words of two lengths go;
\* the provers know nothing of it.
ASSUME WordAssumption ==
    /\ WordBits \in Nat \ {0} /\ WordBits % 8 = 0
    /\ 2 ^ 0 = 1 /\ \A n \in 0 .. 2 * WordBits - 1 : 2 ^ (n + 1) = 2 * 2 ^ n

W32 == WordBits \div 2
W16 == WordBits \div 4
W8 == WordBits \div 8
M64 == 2 ^ WordBits - 1

-----------------------------------------------------------------------------
(* Conversions *)

\* x as u{w}; every integer is cut to its lower bits.
U(x, w) == x % 2 ^ w

\* x as i{w}
S(x, w) == LET u == U(x, w) IN IF u >= 2 ^ (w - 1) THEN u - 2 ^ w ELSE u

\* (x as i{w}) as u64
SignExtended(x, w) == U(S(x, w), WordBits)

\* The bit of x at position k.
Bit(x, k) == (x \div 2 ^ k) % 2

\* Division of Rust on signed integers: the quotient is cut towards zero.
Quotient(a, b) ==
    LET Abs(x) == IF x < 0 THEN - x ELSE x
    IN  IF (a < 0) = (b < 0) THEN Abs(a) \div Abs(b) ELSE - (Abs(a) \div Abs(b))
Remainder(a, b) == a - Quotient(a, b) * b

\* The result of a comparison.
Truth(p) == IF p THEN <<1, TRUE>> ELSE <<0, FALSE>>
Value(x) == <<U(x, WordBits), FALSE>>

-----------------------------------------------------------------------------
(* The operations *)

\* flag, copyb, pubout and the sign extensions.
InternalOps == {"flag", "copyb", "pubout", "signextend_b", "signextend_h", "signextend_w"}
InternalOp(op, a, b) ==
    CASE op = "flag" -> <<0, TRUE>>
      [] op \in {"copyb", "pubout"} -> Value(b)
      [] op = "signextend_b" -> Value(S(b, W8))
      [] op = "signextend_h" -> Value(S(b, W16))
      [] op = "signextend_w" -> Value(S(b, W32))

AddOps == {"add", "add_w", "sub", "sub_w"}
AddOp(op, a, b) ==
    CASE op = "add" -> Value(a + b)
      [] op = "add_w" -> Value(S(U(a, W32) + U(b, W32), W32))
      [] op = "sub" -> Value(a - b)
      [] op = "sub_w" -> Value(S(U(a, W32) - U(b, W32), W32))

\* A shift takes the lower 6 bits of b; on a Wrapping<u32> the lower 5 bits.
ShiftOps == {"sll", "srl", "sra", "sll_w", "srl_w", "sra_w"}
ShiftOp(op, a, b) ==
    LET by == 2 ^ (b % WordBits)
        byW == 2 ^ (b % W32)
    IN  CASE op = "sll" -> Value(a * by)
          [] op = "srl" -> Value(a \div by)
          [] op = "sra" -> Value(S(a, WordBits) \div by)
          [] op = "sll_w" -> Value(S(U(a, W32) * byW, W32))
          [] op = "srl_w" -> Value(S(U(a, W32) \div byW, W32))
          [] op = "sra_w" -> Value(S(a, W32) \div byW)

CompareOps ==
    {"eq", "ltu", "lt", "leu", "le", "eq_w", "ltu_w", "lt_w", "leu_w", "le_w"}
CompareOp(op, a, b) ==
    Truth(CASE op = "eq" -> a = b
            [] op = "ltu" -> a < b
            [] op = "lt" -> S(a, WordBits) < S(b, WordBits)
            [] op = "leu" -> a <= b
            [] op = "le" -> S(a, WordBits) <= S(b, WordBits)
            [] op = "eq_w" -> S(a, W32) = S(b, W32)
            [] op = "ltu_w" -> U(a, W32) < U(b, W32)
            [] op = "lt_w" -> S(a, W32) < S(b, W32)
            [] op = "leu_w" -> U(a, W32) <= U(b, W32)
            [] op = "le_w" -> S(a, W32) <= S(b, W32))

LogicOps == {"and", "or", "xor"}
LogicBit(op, x, y) ==
    CASE op = "and" -> x * y [] op = "or" -> x + y - x * y [] op = "xor" -> (x + y) % 2
LogicOp(op, a, b) ==
    Value(SumTo([k \in 1 .. WordBits |->
                    LogicBit(op, Bit(a, k - 1), Bit(b, k - 1)) * 2 ^ (k - 1)], WordBits))

MulOps == {"mulu", "mul", "muluh", "mulh", "mulsuh", "mul_w"}
MulOp(op, a, b) ==
    LET sa == S(a, WordBits)
        sb == S(b, WordBits)
    IN  CASE op = "mulu" -> Value(a * b)
          [] op = "mul" -> Value(sa * sb)
          [] op = "muluh" -> Value((a * b) \div 2 ^ WordBits)
          [] op = "mulh" -> Value((sa * sb) \div 2 ^ WordBits)
          [] op = "mulsuh" -> Value((sa * b) \div 2 ^ WordBits)
          [] op = "mul_w" -> Value(S(S(a, W32) * S(b, W32), W32))

\* A division by zero sets the flag.  div_w divides as i64, so that the quotient
\* of the least i32 and -1 is not cut to 32 bits.
DivOps == {"divu", "div", "divu_w", "div_w"}
DivOp(op, a, b) ==
    LET divisor == IF op \in {"divu", "div"} THEN b ELSE U(b, W32)
    IN  IF divisor = 0 THEN <<M64, TRUE>>
        ELSE CASE op = "divu" -> Value(a \div b)
               [] op = "div" -> Value(Quotient(S(a, WordBits), S(b, WordBits)))
               [] op = "divu_w" -> Value(S(U(a, W32) \div U(b, W32), W32))
               [] op = "div_w" -> Value(Quotient(S(a, W32), S(b, W32)))

RemOps == {"remu", "rem", "remu_w", "rem_w"}
RemOp(op, a, b) ==
    CASE op = "remu" -> IF b = 0 THEN <<a, TRUE>> ELSE Value(a % b)
      [] op = "rem" -> IF b = 0 THEN <<a, TRUE>>
                       ELSE Value(Remainder(S(a, WordBits), S(b, WordBits)))
      [] op = "remu_w" -> IF U(b, W32) = 0 THEN <<SignExtended(a, W32), TRUE>>
                          ELSE Value(S(U(a, W32) % U(b, W32), W32))
      [] op = "rem_w" -> IF U(b, W32) = 0 THEN <<SignExtended(a, W32), TRUE>>
                         ELSE Value(Remainder(S(a, W32), S(b, W32)))

\* The narrow forms return the chosen operand as an i32.
MinMaxOps == {"minu", "min", "maxu", "max", "minu_w", "min_w", "maxu_w", "max_w"}
MinMaxOp(op, a, b) ==
    LET first == CASE op = "minu" -> a < b
                   [] op = "min" -> S(a, WordBits) < S(b, WordBits)
                   [] op = "maxu" -> a > b
                   [] op = "max" -> S(a, WordBits) > S(b, WordBits)
                   [] op = "minu_w" -> U(a, W32) < U(b, W32)
                   [] op = "min_w" -> S(a, W32) < S(b, W32)
                   [] op = "maxu_w" -> U(a, W32) > U(b, W32)
                   [] op = "max_w" -> S(a, W32) > S(b, W32)
        chosen == IF first THEN a ELSE b
    IN  IF op \in {"minu", "min", "maxu", "max"} THEN Value(chosen)
        ELSE Value(S(chosen, W32))

-----------------------------------------------------------------------------
(* The table *)

\* The operations that need nothing but their operands.
PlainOps ==
    UNION {InternalOps, AddOps, ShiftOps, CompareOps, LogicOps, MulOps, DivOps, RemOps,
           MinMaxOps}

\* ZiskOp::call_ab, execute
Execute(op, a, b) ==
    CASE op \in InternalOps -> InternalOp(op, a, b)
      [] op \in AddOps -> AddOp(op, a, b)
      [] op \in ShiftOps -> ShiftOp(op, a, b)
      [] op \in CompareOps -> CompareOp(op, a, b)
      [] op \in LogicOps -> LogicOp(op, a, b)
      [] op \in MulOps -> MulOp(op, a, b)
      [] op \in DivOps -> DivOp(op, a, b)
      [] op \in RemOps -> RemOp(op, a, b)
      [] op \in MinMaxOps -> MinMaxOp(op, a, b)

\* The state machine that proves an operation (op_type of the table).
BinaryOps == AddOps \cup CompareOps \cup LogicOps \cup MinMaxOps
BinaryEOps == ShiftOps \cup {"signextend_b", "signextend_h", "signextend_w"}
ArithOps == MulOps \cup DivOps \cup RemOps
OpType(op) ==
    CASE op \in BinaryOps -> "Binary"
      [] op \in BinaryEOps -> "BinaryE"
      [] op \in ArithOps -> "Arith"
      [] op \in {"flag", "copyb"} -> "Internal"
      [] op = "pubout" -> "PubOut"
      [] op \in {"fcall_param", "fcall", "fcall_get"} -> "Fcall"
      [] op = "keccak" -> "Keccak"
      [] op = "sha256" -> "Sha256"
      [] OTHER -> "ArithEq"
=============================================================================
