----------------------------- MODULE MCRiscvRun -----------------------------
(***************************************************************************)
(* Programs for RiscvRun, in words of 8 bits: every instruction that the   *)
(* transpiler knows, on operands at the borders of the narrow and the wide *)
(* values, with its registers the same and different.                      *)
(***************************************************************************)
EXTENDS RiscvRun

-----------------------------------------------------------------------------
(* The assembler: the encoding of RV64IMA *)

\* A row has the names of an opcode by funct3.
Row51 == <<"add", "sll", "slt", "sltu", "xor", "srl", "or", "and">>
Row51M == <<"mul", "mulh", "mulhsu", "mulhu", "div", "divu", "rem", "remu">>
Row59 == <<"addw", "sllw", "", "", "", "srlw", "", "">>
Row59M == <<"mulw", "", "", "", "divw", "divuw", "remw", "remuw">>
Row19 == <<"addi", "slli", "slti", "sltiu", "xori", "srli", "ori", "andi">>
Row27 == <<"addiw", "slliw", "", "", "", "srliw", "", "">>
Row3 == <<"lb", "lh", "lw", "ld", "lbu", "lhu", "lwu", "">>
Row35 == <<"sb", "sh", "sw", "sd", "", "", "", "">>
Row99 == <<"beq", "bne", "", "", "blt", "bge", "bltu", "bgeu">>
Row115 == <<"", "csrrw", "csrrs", "csrrc", "", "csrrwi", "csrrsi", "csrrci">>
Alternate == [sub |-> "add", sra |-> "srl", subw |-> "addw", sraw |-> "srlw", srai |-> "srli",
              sraiw |-> "srliw"]
AtomicF5 ==
    [add |-> 0, swap |-> 1, xor |-> 4, or |-> 8, and |-> 12, min |-> 16, max |-> 20,
     minu |-> 24, maxu |-> 28]
AtomicNames == DOMAIN AtomicOpsW \cup DOMAIN AtomicOpsD \cup {"amoswap.w", "amoswap.d"}
WideAmo == [add |-> "amoadd.d", swap |-> "amoswap.d", xor |-> "amoxor.d", or |-> "amoor.d",
            and |-> "amoand.d", min |-> "amomin.d", max |-> "amomax.d",
            minu |-> "amominu.d", maxu |-> "amomaxu.d"]
NarrowAmo == [add |-> "amoadd.w", swap |-> "amoswap.w", xor |-> "amoxor.w",
              or |-> "amoor.w", and |-> "amoand.w", min |-> "amomin.w", max |-> "amomax.w",
              minu |-> "amominu.w", maxu |-> "amomaxu.w"]

In(row, n) == \E k \in 1 .. 8 : row[k] = n
F3(row, n) == (CHOOSE k \in 1 .. 8 : row[k] = n) - 1

\* The bits of a word that is made of fields <<value, first bit, last bit>>.
Pack(fields) ==
    [k \in 0 .. 31 |->
        LET of == {f \in fields : k \in f[2] .. f[3]}
        IN  IF of = {} THEN 0 ELSE LET f == CHOOSE f \in of : TRUE IN Bit(f[1], k - f[2])]

Encode(i) ==
    LET n == i.inst
        alt == n \in DOMAIN Alternate
        base == IF alt THEN Alternate[n] ELSE n
        Op(opcode, f3) == {<<opcode, 0, 6>>, <<f3, 12, 14>>}
        Rd5 == {<<i.rd, 7, 11>>}
        R1 == {<<i.rs1, 15, 19>>}
        R2 == {<<i.rs2, 20, 24>>}
        RType(opcode, row, f7) == Op(opcode, F3(row, base)) \cup Rd5 \cup R1 \cup R2
                                  \cup {<<f7, 25, 31>>}
        shift == base \in {"slli", "srli", "slliw", "srliw"}
        IType(opcode, row) ==
            Op(opcode, F3(row, base)) \cup Rd5 \cup R1
            \cup (IF shift THEN {<<i.imm, 20, 25>>, <<IF alt THEN 16 ELSE 0, 26, 31>>}
                  ELSE {<<i.imm, 20, 31>>})
        Amo(f5, f3) == Op(47, f3) \cup Rd5 \cup R1 \cup R2 \cup {<<f5, 27, 31>>}
        f7 == IF alt THEN 32 ELSE 0
    IN  Pack(
        CASE In(Row51, base) -> RType(51, Row51, f7)
          [] In(Row51M, n) -> RType(51, Row51M, 1)
          [] In(Row59, base) -> RType(59, Row59, f7)
          [] In(Row59M, n) -> RType(59, Row59M, 1)
          [] In(Row19, base) -> IType(19, Row19)
          [] In(Row27, base) -> IType(27, Row27)
          [] In(Row3, n) -> IType(3, Row3)
          [] n = "jalr" -> Op(103, 0) \cup Rd5 \cup R1 \cup {<<i.imm, 20, 31>>}
          [] In(Row35, n) ->
                Op(35, F3(Row35, n)) \cup R1 \cup R2
                \cup {<<i.imm, 7, 11>>, <<i.imm \div 32, 25, 31>>}
          [] In(Row99, n) ->
                Op(99, F3(Row99, n)) \cup R1 \cup R2
                \cup {<<i.imm \div 2048, 7, 7>>, <<i.imm \div 2, 8, 11>>,
                      <<i.imm \div 32, 25, 30>>, <<i.imm \div 4096, 31, 31>>}
          [] n \in {"lui", "auipc"} ->
                {<<IF n = "lui" THEN 55 ELSE 23, 0, 6>>, <<i.imm \div 2 ^ UpperShift, 12, 31>>}
                \cup Rd5
          [] n = "jal" ->
                {<<111, 0, 6>>, <<i.imm \div 4096, 12, 19>>, <<i.imm \div 2048, 20, 20>>,
                 <<i.imm \div 2, 21, 30>>, <<i.imm \div 2 ^ 20, 31, 31>>} \cup Rd5
          [] \E f \in DOMAIN AtomicF5 : NarrowAmo[f] = n ->
                Amo(AtomicF5[CHOOSE f \in DOMAIN AtomicF5 : NarrowAmo[f] = n], 2)
          [] \E f \in DOMAIN AtomicF5 : WideAmo[f] = n ->
                Amo(AtomicF5[CHOOSE f \in DOMAIN AtomicF5 : WideAmo[f] = n], 3)
          [] n \in {"lr.w", "sc.w"} -> Amo(IF n = "lr.w" THEN 2 ELSE 3, 2)
          [] n \in {"lr.d", "sc.d"} -> Amo(IF n = "lr.d" THEN 2 ELSE 3, 3)
          [] In(Row115, n) ->
                Op(115, F3(Row115, n)) \cup Rd5
                \cup {<<IF F3(Row115, n) > 3 THEN i.imme ELSE i.rs1, 15, 19>>,
                      <<i.csr, 20, 31>>}
          [] n = "fence" -> Op(15, 0) [] n = "fence.i" -> Op(15, 1)
          [] n = "ecall" -> Op(115, 0) [] n = "ebreak" -> Op(115, 0) \cup {<<1, 20, 31>>})

-----------------------------------------------------------------------------
(* Programs *)

R(n, rd, rs1, rs2) == Riscv(n, rd, rs1, rs2, 0, 0, 0)
I(n, rd, rs1, imm) == Riscv(n, rd, rs1, 0, imm, 0, 0)
St(n, rs2, imm, rs1) == Riscv(n, 0, rs1, rs2, imm, 0, 0)
Br(n, rs1, rs2, imm) == Riscv(n, 0, rs1, rs2, imm, 0, 0)
Cs(n, rd, csr, v) ==
    Riscv(n, rd, IF n \in {"csrrw", "csrrs", "csrrc"} THEN v ELSE 0, 0, 0,
          IF n \in {"csrrw", "csrrs", "csrrc"} THEN 0 ELSE v, csr)
Op0(n) == Riscv(n, 0, 0, 0, 0, 0, 0)
Li(rd, v) == I("addi", rd, 0, v)
Quit == << Li(17, 93), Op0("ecall") >>
Ret == << I("jalr", 0, 1, 0) >>

\* Borders of values of 4 and of 8 bits.
Values == {0, 1, 7, 8, 23, 120, 127, 128, 247, 255}
Few == {0, 1, 8, 127, 128, 255}
UserCsr == 21

\* Every operation on two registers, divw but for its overflow.
Overflows(v, w) == v % 16 = 8 /\ w % 16 = 15
AluNames(v, w) ==
    SelectSeq(Row51 \o <<"sub", "sra">> \o Row51M \o Row59 \o <<"subw", "sraw">> \o Row59M,
              LAMBDA n : n # "" /\ ~(n = "divw" /\ Overflows(v, w)))
AluProgram(v, w, rd) ==
    << Li(5, v), Li(6, w) >>
    \o [k \in 1 .. Len(AluNames(v, w)) |-> R(AluNames(v, w)[k], rd, 5, 6)] \o Ret
ImmProgram(v, imm, by) ==
    << Li(5, v) >>
    \o [k \in 1 .. 6 |-> I(<<"addi", "slti", "sltiu", "xori", "ori", "andi">>[k], 12, 5, imm)]
    \o << I("addiw", 12, 5, imm), I("xori", 12, 0, imm), I("ori", 0, 0, imm) >>
    \o [k \in 1 .. 3 |-> I(<<"slli", "srli", "srai">>[k], 12, 5, by)]
    \o [k \in 1 .. 3 |-> I(<<"slliw", "srliw", "sraiw">>[k], 12, 5, by % 4)]
    \o << I("addi", 5, 5, imm) >> \o Ret
MemProgram(v, st, o1, o2) ==
    << Li(5, v), Li(6, 64), St(st, 5, o1, 6) >>
    \o [k \in 1 .. 7 |-> I(Row3[k], 12, 6, o2)] \o << I("ld", 0, 6, o2), I("ld", 6, 6, o2) >>
    \o Quit
OutProgram(v, w) ==
    << Li(5, v), Li(6, w), St("sd", 5, 0, 11), St("sw", 6, 9, 11) >> \o Quit
BranchProgram(v, w) ==
    << Li(5, v), Li(6, w) >>
    \o [k \in 1 .. 12 |->
            IF k % 2 = 0 THEN I("addi", 12, 12, 1)
            ELSE Br(<<"beq", "bne", "blt", "bge", "bltu", "bgeu">>[(k + 1) \div 2], 5, 6, 8)]
    \o << Li(5, 3), I("addi", 5, 5, -1), Br("bne", 5, 0, -4) >> \o Ret
JumpProgram(rd, off) ==     \* a call of the code behind the exit, and back
    << Li(5, 148 - off), I("jalr", rd, 5, off), Op0("fence") >> \o Quit
    \o << I("addi", 13, rd, 0), I("jalr", 0, 13, 0) >>
CallProgram(imm) ==
    << Riscv("auipc", 5, 0, 0, 0, 0, 0), Riscv("lui", 6, 0, 0, imm, 0, 0),
       Riscv("auipc", 12, 0, 0, imm, 0, 0), Riscv("jal", 13, 0, 0, 8, 0, 0),
       Op0("fence"), Op0("fence.i"), Op0("ebreak"), Li(17, 5), Op0("ecall"),
       Riscv("jal", 0, 0, 0, 4, 0, 0) >> \o Quit
AmoProgram(n, rd, rs2, v) ==
    << Li(5, v), Li(6, 72), R(n, rd, 6, rs2), I("addi", 12, 0, 1) >> \o Quit
ReserveProgram(w, rd, v) ==
    << Li(5, v), Li(6, 68),
       R(IF w = 4 THEN "lr.w" ELSE "lr.d", 12, 6, 0),
       R(IF w = 4 THEN "sc.w" ELSE "sc.d", rd, 6, 5) >> \o Quit
CsrProgram(v, w) ==
    << Li(5, v), Li(6, w), Cs("csrrw", 0, UserCsr, 5), Cs("csrrs", 12, UserCsr, 0),
       Cs("csrrs", 0, UserCsr, 6), Cs("csrrc", 13, UserCsr, 0), Cs("csrrsi", 0, UserCsr, 5),
       Cs("csrrci", 0, UserCsr, 3), Cs("csrrsi", 12, UserCsr, 0), Cs("csrrsi", 0, UserCsr, 0),
       Cs("csrrci", 13, UserCsr, 0), Cs("csrrci", 0, UserCsr, 0), Cs("csrrs", 0, UserCsr, 0),
       Cs("csrrc", 0, UserCsr, 0), Cs("csrrwi", 0, UserCsr, 6), Cs("csrrw", 0, UserCsr, 0) >>
    \o Quit
HostProgram(v, r) ==
    << Li(5, v), Cs("csrrs", 0, 2288, 5), Cs("csrrs", 0, 2288, 11), Cs("csrrwi", 0, 2240, 1),
       Cs("csrrs", 12, 4094, 0), Cs("csrrs", 13, 4094, 0), Li(r, 64), Cs("csrrs", 0, 2048, r) >>
    \o Quit

\* Data: two sections in RAM, the first one ending inside of a word, and two that
\* are joined behind it.
Data(v) == [k \in 1 .. 4 |-> Bit(v, k)]
Sections(v) ==
    << [addr |-> 64, write |-> TRUE, data |-> Data(v) \o Data(v + 1) \o Data(3 * v)],
       [addr |-> 76, write |-> TRUE, data |-> Data(v + 5)],
       [addr |-> 80, write |-> FALSE, data |-> Data(v + 9)],
       [addr |-> 84, write |-> FALSE, data |-> Data(v + 2)] >>

Elf(program, v) ==
    [sections |-> Sections(v) \o << [addr |-> ROM_ADDR, words |-> [k \in DOMAIN program |->
                                                                Encode(program[k])]] >>,
     entry |-> ROM_ADDR,
     code |-> [pc \in {ROM_ADDR + 4 * (k - 1) : k \in DOMAIN program} |->
                    program[(pc - ROM_ADDR) \div 4 + 1]]]

Programs ==
    UNION { {AluProgram(v, w, rd) : v \in Values, w \in Values, rd \in {12}},
            {AluProgram(v, 23, 5) : v \in Few}, {AluProgram(23, v, 6) : v \in Few},
            {ImmProgram(v, imm, by) : v \in Few, imm \in {-8, -1, 0, 3, 7}, by \in {0, 1, 7}},
            {MemProgram(v, st, o1, o2) :
                v \in {90, 165}, st \in {"sb", "sh", "sw", "sd"}, o1 \in 0 .. 8, o2 \in 0 .. 8},
            {OutProgram(v, w) : v \in Few, w \in Few},
            {BranchProgram(v, w) : v \in Few, w \in Few},
            {JumpProgram(rd, off) : rd \in {5, 12}, off \in {-8, -2, 0, 2, 4, 7}},
            {CallProgram(imm) : imm \in {0, 16, 112, -16, -128}},
            {AmoProgram(n, rd, rs2, v) :
                n \in AtomicNames, rd \in {0, 5, 6, 12}, rs2 \in {0, 5, 6}, v \in {3, 8, 250}},
            {ReserveProgram(w, rd, v) : w \in {4, 8}, rd \in {0, 5, 6, 12}, v \in {7, 200}},
            {CsrProgram(v, w) : v \in Few, w \in Few},
            {HostProgram(v, r) : v \in Few, r \in {10, 5}} }

MCElfs == {Elf(p, v) : p \in Programs, v \in {9}} \cup {Elf(Ret, v) : v \in 0 .. 15}

-----------------------------------------------------------------------------
(* The CSR instructions of which the transpiler makes more than one *)

SwapProgram(n, rd, v) == << Li(5, 9), Cs(n, rd, UserCsr, v) >> \o Quit
MCCsrElfs ==
    {Elf(SwapProgram(n, rd, 5), 9) : n \in {"csrrw", "csrrs", "csrrc"}, rd \in {5, 12}}
    \cup {Elf(SwapProgram(n, 12, 3), 9) : n \in {"csrrwi", "csrrsi", "csrrci"}}
    \cup {Elf(SwapProgram("csrrc", 0, 5), 9)}
=============================================================================
