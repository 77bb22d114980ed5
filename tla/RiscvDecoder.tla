---------------------------- MODULE RiscvDecoder ----------------------------
(***************************************************************************)
(* riscv_interpreter: from the 32 bits of a RISC-V instruction to its name *)
(* and fields (riscv/src/riscv_interpreter.rs and riscv_rvd.rs).           *)
(*                                                                         *)
(* A word is a function from 0 .. 31 to its bits.                          *)
(***************************************************************************)
EXTENDS Integers, FiniteSetsExt

\* Bits of the upper immediate of lui and auipc that are zero: 12 in the code,
\* where a word has 64 bits.
CONSTANT UpperShift

-----------------------------------------------------------------------------
(* Rvd::init: the names by opcode, funct3 and funct7 (or funct5) *)

\* Names that the opcode alone decides.
RvdOpcode == {<<23, "auipc">>, <<55, "lui">>, <<111, "jal">>}

\* Names by opcode and funct3: loads, immediates, stores, branches and CSRs.
RvdFunct3 ==
    { <<3, 0, "lb">>, <<3, 1, "lh">>, <<3, 2, "lw">>, <<3, 3, "ld">>, <<3, 4, "lbu">>,
      <<3, 5, "lhu">>, <<3, 6, "lwu">>,
      <<19, 0, "addi">>, <<19, 2, "slti">>, <<19, 3, "sltiu">>, <<19, 4, "xori">>,
      <<19, 6, "ori">>, <<19, 7, "andi">>, <<27, 0, "addiw">>,
      <<35, 0, "sb">>, <<35, 1, "sh">>, <<35, 2, "sw">>, <<35, 3, "sd">>,
      <<99, 0, "beq">>, <<99, 1, "bne">>, <<99, 4, "blt">>, <<99, 5, "bge">>,
      <<99, 6, "bltu">>, <<99, 7, "bgeu">>, <<103, 0, "jalr">>,
      <<115, 1, "csrrw">>, <<115, 2, "csrrs">>, <<115, 3, "csrrc">>,
      <<115, 5, "csrrwi">>, <<115, 6, "csrrsi">>, <<115, 7, "csrrci">> }

\* Shifts by an immediate, whose funct7 are the upper 6 bits.
RvdShift ==
    { <<19, 1, 0, "slli">>, <<19, 5, 0, "srli">>, <<19, 5, 16, "srai">>,
      <<27, 1, 0, "slliw">>, <<27, 5, 0, "srliw">>, <<27, 5, 16, "sraiw">> }

\* Operations on registers.
RvdRegister ==
    { <<51, 0, 0, "add">>, <<51, 0, 1, "mul">>, <<51, 0, 32, "sub">>,
      <<51, 1, 0, "sll">>, <<51, 1, 1, "mulh">>, <<51, 2, 0, "slt">>,
      <<51, 2, 1, "mulhsu">>, <<51, 3, 0, "sltu">>, <<51, 3, 1, "mulhu">>,
      <<51, 4, 0, "xor">>, <<51, 4, 1, "div">>, <<51, 5, 0, "srl">>,
      <<51, 5, 1, "divu">>, <<51, 5, 32, "sra">>, <<51, 6, 0, "or">>,
      <<51, 6, 1, "rem">>, <<51, 7, 0, "and">>, <<51, 7, 1, "remu">>,
      <<59, 0, 0, "addw">>, <<59, 0, 1, "mulw">>, <<59, 0, 32, "subw">>,
      <<59, 1, 0, "sllw">>, <<59, 4, 1, "divw">>, <<59, 5, 0, "srlw">>,
      <<59, 5, 1, "divuw">>, <<59, 5, 32, "sraw">>, <<59, 6, 1, "remw">>,
      <<59, 7, 1, "remuw">> }

\* Atomics, by funct5.
RvdAtomic ==
    { <<47, 2, 2, "lr.w">>, <<47, 2, 3, "sc.w">>, <<47, 2, 1, "amoswap.w">>,
      <<47, 2, 0, "amoadd.w">>, <<47, 2, 4, "amoxor.w">>, <<47, 2, 12, "amoand.w">>,
      <<47, 2, 8, "amoor.w">>, <<47, 2, 16, "amomin.w">>, <<47, 2, 20, "amomax.w">>,
      <<47, 2, 24, "amominu.w">>, <<47, 2, 28, "amomaxu.w">>,
      <<47, 3, 2, "lr.d">>, <<47, 3, 3, "sc.d">>, <<47, 3, 1, "amoswap.d">>,
      <<47, 3, 0, "amoadd.d">>, <<47, 3, 4, "amoxor.d">>, <<47, 3, 12, "amoand.d">>,
      <<47, 3, 8, "amoor.d">>, <<47, 3, 16, "amomin.d">>, <<47, 3, 20, "amomax.d">>,
      <<47, 3, 24, "amominu.d">>, <<47, 3, 28, "amomaxu.d">> }

\* The type of an opcode; 0 stands for an opcode that is not in the table.
RvdType(opcode) ==
    CASE opcode \in {3, 19, 27, 103} -> "I" [] opcode \in {51, 59} -> "R"
      [] opcode = 35 -> "S" [] opcode = 99 -> "B" [] opcode \in {23, 55} -> "U"
      [] opcode = 111 -> "J" [] opcode = 47 -> "A" [] opcode = 115 -> "C"
      [] opcode = 15 -> "F" [] OTHER -> "none"

\* getinst: the name and the level of the table it was found at, -1 if nowhere.
Getinst(opcode, i1, i2) ==
    LET zero == {e \in RvdOpcode : e[1] = opcode}
        one == {e \in RvdFunct3 : e[1] = opcode /\ e[2] = i1}
        two == {e \in RvdShift \cup RvdRegister \cup RvdAtomic :
                    e[1] = opcode /\ e[2] = i1 /\ e[3] = i2}
    IN  CASE zero # {} -> <<(CHOOSE e \in zero : TRUE)[2], 0>>
          [] one # {} -> <<(CHOOSE e \in one : TRUE)[3], 1>>
          [] two # {} -> <<(CHOOSE e \in two : TRUE)[4], 2>>
          [] OTHER -> <<"", -1>>

-----------------------------------------------------------------------------
(* riscv_interpreter *)

\* The bits first .. last of a word as a number: (inst & mask) >> first.
Field(w, first, last) == MapThenSumSet(LAMBDA k : w[k] * 2 ^ (k - first), first .. last)

Signext(v, size) == IF v >= 2 ^ (size - 1) THEN v - 2 ^ size ELSE v

\* An instruction with the fields that the transpiler reads.
Riscv(name, rd, rs1, rs2, imm, imme, csr) ==
    [inst |-> name, rd |-> rd, rs1 |-> rs1, rs2 |-> rs2, imm |-> imm, imme |-> imme,
     csr |-> csr]

Rd(w) == Field(w, 7, 11)
Rs1(w) == Field(w, 15, 19)
Rs2(w) == Field(w, 20, 24)
Funct3(w) == Field(w, 12, 14)
Opcode(w) == Field(w, 0, 6)

\* A shift keeps the lower 6 bits of the immediate.
DecodeI(w) ==
    LET g == Getinst(Opcode(w), Funct3(w), Field(w, 26, 31))
        imm == Signext(Field(w, 20, 31), 12)
    IN  Riscv(g[1], Rd(w), Rs1(w), 0, IF g[2] = 2 THEN imm % 64 ELSE imm, 0, 0)

DecodeR(w) ==
    Riscv(Getinst(Opcode(w), Funct3(w), Field(w, 25, 31))[1], Rd(w), Rs1(w), Rs2(w), 0, 0, 0)

DecodeA(w) ==
    Riscv(Getinst(Opcode(w), Funct3(w), Field(w, 27, 31))[1], Rd(w), Rs1(w), Rs2(w), 0, 0, 0)

DecodeS(w) ==
    Riscv(Getinst(Opcode(w), Funct3(w), 0)[1], 0, Rs1(w), Rs2(w),
          Signext(Field(w, 25, 31) * 32 + Field(w, 7, 11), 12), 0, 0)

DecodeB(w) ==
    Riscv(Getinst(Opcode(w), Funct3(w), 0)[1], 0, Rs1(w), Rs2(w),
          Signext(w[31] * 4096 + w[7] * 2048 + Field(w, 25, 30) * 32 + Field(w, 8, 11) * 2, 13),
          0, 0)

DecodeU(w) ==
    Riscv(Getinst(Opcode(w), 0, 0)[1], Rd(w), 0, 0,
          Signext(Field(w, 12, 31), 20) * 2 ^ UpperShift, 0, 0)

DecodeJ(w) ==
    Riscv(Getinst(Opcode(w), 0, 0)[1], Rd(w), 0, 0,
          Signext(w[31] * 2 ^ 20 + Field(w, 12, 19) * 4096 + w[20] * 2048 + Field(w, 21, 30) * 2,
                  21), 0, 0)

\* Every word with funct3 = 0 is an ecall but the one that is an ebreak; the
\* forms with an immediate have it in the place of rs1.
DecodeC(w) ==
    LET f == Funct3(w)
        ebreak == \A k \in 0 .. 31 : w[k] = (IF k \in {0, 1, 4, 5, 6, 20} THEN 1 ELSE 0)
    IN  IF f = 0 THEN Riscv(IF ebreak THEN "ebreak" ELSE "ecall", 0, 0, 0, 0, 0, 0)
        ELSE Riscv(Getinst(Opcode(w), f, 0)[1], Rd(w), IF f >= 4 THEN 0 ELSE Rs1(w), 0, 0,
                   IF f >= 4 THEN Rs1(w) ELSE 0, Field(w, 20, 31))

\* fence and fence.i, whose other fields have to be zero.
DecodeF(w) ==
    LET plain == Rd(w) = 0 /\ Rs1(w) = 0 /\ Field(w, 28, 31) = 0
    IN  CASE Funct3(w) = 0 /\ plain -> Riscv("fence", 0, 0, 0, 0, 0, 0)
          [] Funct3(w) = 1 /\ plain /\ Field(w, 20, 31) = 0 ->
                Riscv("fence.i", 0, 0, 0, 0, 0, 0)
          [] OTHER -> Riscv("", 0, 0, 0, 0, 0, 0)

\* One word; the name is empty where the code panics.
Decode(w) ==
    LET t == RvdType(Opcode(w))
    IN  CASE t = "I" -> DecodeI(w) [] t = "R" -> DecodeR(w) [] t = "S" -> DecodeS(w)
          [] t = "B" -> DecodeB(w) [] t = "U" -> DecodeU(w) [] t = "J" -> DecodeJ(w)
          [] t = "A" -> DecodeA(w) [] t = "C" -> DecodeC(w) [] t = "F" -> DecodeF(w)
          [] OTHER -> Riscv("", 0, 0, 0, 0, 0, 0)

\* A word of zeros is left out, so that the words behind it move up.
IsZero(w) == \A k \in 0 .. 31 : w[k] = 0
=============================================================================
