----------------------------- MODULE Riscv2Zisk -----------------------------
(***************************************************************************)
(* The transpiler: from the sections of an ELF file with RISC-V code to    *)
(* the instructions of a Zisk ROM (core/src/riscv2zisk_context.rs,         *)
(* zisk_inst_builder.rs, elf2rom.rs and zisk_rom.rs).                      *)
(*                                                                         *)
(* A ROM is a function from the pc to an instruction.  The addresses are   *)
(* scaled with the word, so they are parameters; the words of registers 0  *)
(* to 31 in memory, which nothing uses, are left out of the layout.        *)
(***************************************************************************)
EXTENDS Emu, RiscvDecoder

CONSTANTS
    ROM_ENTRY,      \* pc of the first instruction
    ROM_ADDR,       \* pc where programs are
    CSR_ADDR,       \* address of CSR 0
    MTVEC,          \* the CSR that holds the address of the trap handler
    MARCHID,        \* the CSR that holds ARCH_ID_ZISK
    ARCH_ID_ZISK,
    OUTPUT_ADDR,
    OutWords,       \* words that are published at the end, 32 in the code
    RamEnd          \* RAM_ADDR + RAM_SIZE

ROM_EXIT == ROM_ENTRY + 4
CAUSE_EXIT == 93
INPUT_ADDR == FreeAddr

-----------------------------------------------------------------------------
(* ZiskInstBuilder *)

\* The memory of the registers that are not in the main trace.
TempAddr(n) == (n - 32) * WordBits

\* src_a and src_b: register 0 is the immediate 0 and a register that is not in
\* the main trace is a word of memory.  nto32s keeps a u64 as two halves.
Source(src, n) ==
    CASE src = "reg" /\ n = 0 -> <<"imm", 0>>
      [] src = "reg" /\ n > 31 -> <<"mem", TempAddr(n)>>
      [] src = "lastc" -> <<"c", 0>>
      [] src = "step" -> <<"step", 0>>
      [] OTHER -> <<src, Word(n)>>

\* new, src_a, src_b and op
Zib(op, a, an, b, bn) ==
    LET sa == Source(a, an)
        sb == Source(b, bn)
    IN  [op |-> op, aSrc |-> sa[1], a |-> sa[2], bSrc |-> sb[1], b |-> sb[2], width |-> 0,
         store |-> "none", to |-> 0, storeRa |-> FALSE, setPc |-> FALSE, jmp1 |-> 0,
         jmp2 |-> 0, end |-> FALSE]

\* A mutated form of StoreIn: register 0 is a register like the others.
StoreInZero(z, dst, n, ra) ==
    IF dst = "reg" /\ n > 31
    THEN [z EXCEPT !.store = "mem", !.to = TempAddr(n), !.storeRa = ra]
    ELSE [z EXCEPT !.store = dst, !.to = n, !.storeRa = ra]

\* store and store_ra: a store to register 0 is left out.
StoreIn(z, dst, n, ra) ==
    CASE dst = "reg" /\ n = 0 -> z
      [] dst = "reg" /\ n > 31 ->
            [z EXCEPT !.store = "mem", !.to = TempAddr(n), !.storeRa = ra]
      [] OTHER -> [z EXCEPT !.store = dst, !.to = n, !.storeRa = ra]

Width(z, w) == [z EXCEPT !.width = w]
Jump(z, j1, j2) == [z EXCEPT !.jmp1 = j1, !.jmp2 = j2]
SetsPc(z) == [z EXCEPT !.setPc = TRUE]
Ends(z) == [z EXCEPT !.end = TRUE]

\* An instruction that is put at s, and what is then added to s.
Put(z, step) == [z |-> z, step |-> step]

-----------------------------------------------------------------------------
(* Riscv2ZiskContext *)

\* create_register_op, create_branch_op, nop
RegisterOp(i, op) ==
    << Put(Jump(StoreIn(Zib(op, "reg", i.rs1, "reg", i.rs2), "reg", i.rd, FALSE), 4, 4), 4) >>

BranchOp(i, op, neg) ==
    LET z == Zib(op, "reg", i.rs1, "reg", i.rs2)
    IN  << Put(IF neg THEN Jump(z, 4, i.imm) ELSE Jump(z, i.imm, 4), 4) >>

Nop == << Put(Jump(Zib("flag", "imm", 0, "imm", 0), 4, 4), 4) >>

\* load_op, store_op
LoadOp(i, op, w) ==
    LET z == Width(Zib(op, "reg", i.rs1, "ind", i.imm), w)
    IN  << Put(Jump(StoreIn(z, "reg", i.rd, FALSE), 4, 4), 4) >>

StoreOp(i, w) ==
    LET z == Width(Zib("copyb", "reg", i.rs1, "reg", i.rs2), w)
    IN  << Put(Jump(StoreIn(z, "ind", i.imm, FALSE), 4, 4), 4) >>

\* immediate_op, immediate_op_or_x0_copyb
ImmediateOp(i, op) ==
    << Put(Jump(StoreIn(Zib(op, "reg", i.rs1, "imm", i.imm), "reg", i.rd, FALSE), 4, 4), 4) >>

ImmediateOpOrCopyb(i, op) == ImmediateOp(i, IF i.rs1 = 0 THEN "copyb" ELSE op)

\* auipc, lui, jal
Auipc(i) ==
    << Put(Jump(StoreIn(Zib("flag", "imm", 0, "imm", 0), "reg", i.rd, TRUE), 4, i.imm), 4) >>

Lui(i) ==
    << Put(Jump(StoreIn(Zib("copyb", "imm", 0, "imm", i.imm), "reg", i.rd, FALSE), 4, 4), 4) >>

Jal(i) ==
    << Put(Jump(StoreIn(Zib("flag", "imm", 0, "imm", 0), "reg", i.rd, TRUE), i.imm, 4), 4) >>

\* jalr: the mask drops the two lowest bits of the register, or of the sum.
Jalr(i) ==
    LET Go(z) == StoreIn(SetsPc(z), "reg", i.rd, TRUE)
    IN  IF i.imm % 4 = 0
        THEN << Put(Jump(Go(Zib("and", "imm", M64 - 3, "reg", i.rs1)), i.imm, 4), 4) >>
        ELSE << Put(Jump(Zib("add", "imm", i.imm, "reg", i.rs1), 1, 1), 1),
                Put(Jump(Go(Zib("and", "imm", M64 - 3, "lastc", 0)), 0, 3), 3) >>

\* ecall: a call of the trap handler.
Ecall ==
    LET z == SetsPc(Zib("copyb", "imm", 0, "mem", CSR_ADDR + MTVEC))
    IN  << Put(Jump(StoreIn(z, "reg", 1, TRUE), 0, 4), 4) >>

\* A mutated form of AtomicOp: rd is written first even if it is rs1 or rs2.
AtomicOpRdFirst(i, loadf, op, w) ==
    << Put(Jump(StoreIn(Width(Zib(loadf, "reg", i.rs1, "ind", 0), w), "reg", i.rd, FALSE),
                1, 1), 1),
       Put(Jump(Zib(op, "lastc", 0, "reg", i.rs2), 1, 1), 1),
       Put(Jump(StoreIn(Width(Zib("copyb", "reg", i.rs1, "lastc", 0), w), "ind", 0, FALSE),
                2, 2), 2) >>

\* create_atomic_op: rd gets the old value at once, or at the end, through
\* register 32, if it is rs1 or rs2.
AtomicOp(i, loadf, op, w) ==
    LET free == i.rd # i.rs1 /\ i.rd # i.rs2
        load == StoreIn(Width(Zib(loadf, "reg", i.rs1, "ind", 0), w), "reg",
                        IF free THEN i.rd ELSE 32, FALSE)
        calc == Zib(op, "lastc", 0, "reg", i.rs2)
        save == StoreIn(Width(Zib("copyb", "reg", i.rs1, "lastc", 0), w), "ind", 0, FALSE)
        move == StoreIn(Zib("copyb", "imm", 0, "reg", 32), "reg", i.rd, FALSE)
    IN  << Put(Jump(load, 1, 1), 1), Put(Jump(calc, 1, 1), 1) >>
        \o (IF free THEN << Put(Jump(save, 2, 2), 2) >>
            ELSE << Put(Jump(save, 1, 1), 1), Put(Jump(move, 1, 1), 1) >>)

\* create_atomic_swap
AtomicSwap(i, loadf, w) ==
    LET free == i.rd # i.rs1 /\ i.rd # i.rs2
        load == StoreIn(Width(Zib(loadf, "reg", i.rs1, "ind", 0), w), "reg",
                        IF free THEN i.rd ELSE 32, FALSE)
        save == StoreIn(Width(Zib("copyb", "reg", i.rs1, "reg", i.rs2), w), "ind", 0, FALSE)
        move == StoreIn(Zib("copyb", "imm", 0, "reg", 32), "reg", i.rd, FALSE)
    IN  << Put(Jump(load, 1, 1), 1) >>
        \o (IF free THEN << Put(Jump(save, 3, 3), 3) >>
            ELSE << Put(Jump(save, 1, 1), 1), Put(Jump(move, 2, 2), 2) >>)

\* A mutated form of StoreConditional: s is moved by 4 for each part.
StoreConditionalApart(i, w) ==
    LET save == StoreIn(Width(Zib("copyb", "reg", i.rs1, "reg", i.rs2), w), "ind", 0, FALSE)
        zero == StoreIn(Zib("copyb", "imm", 0, "imm", 0), "reg", i.rd, FALSE)
    IN  IF i.rd > 0 THEN << Put(Jump(save, 1, 1), 4), Put(Jump(zero, 3, 3), 4) >>
        ELSE << Put(Jump(save, 4, 4), 4) >>

\* sc_w and sc_d: the store always succeeds.
StoreConditional(i, w) ==
    LET save == StoreIn(Width(Zib("copyb", "reg", i.rs1, "reg", i.rs2), w), "ind", 0, FALSE)
        zero == StoreIn(Zib("copyb", "imm", 0, "imm", 0), "reg", i.rd, FALSE)
    IN  IF i.rd > 0 THEN << Put(Jump(save, 1, 1), 1), Put(Jump(zero, 3, 3), 3) >>
        ELSE << Put(Jump(save, 4, 4), 4) >>

-----------------------------------------------------------------------------
(* CSRs *)

\* CSR_PRECOMPILED, from 0x800 on; one more CSR passes the test of the range, but
\* has no operation (the index panics).
CSR_PRECOMPILED ==
    <<"keccak", "arith256", "arith256_mod", "secp256k1_add", "secp256k1_dbl", "sha256">>
IsPrecompiled(csr) == csr \in 2048 .. 2048 + Len(CSR_PRECOMPILED)
IsFcall(csr) == csr \in 2240 .. 2271
IsFcallParam(csr) == csr \in 2288 .. 2303
CSR_FCALL_GET_ADDR == 4094
CSR_FCALL_PARAM_OFFSET_TO_WORDS ==
    <<1, 2, 4, 8, 12, 16, 20, 24, 28, 32, 48, 64, 80, 96, 128, 256>>

\* The parts of the CSR instructions: a move to a register or to the CSR, and the
\* operation on the CSR.  Every part adds 4 to s, whatever it jumps by.
CsrAt(csr) == CSR_ADDR + csr
ToReg(a, b, bn, rd, j) == Put(Jump(StoreIn(Zib("copyb", a, 0, b, bn), "reg", rd, FALSE), j, j), 4)
ToCsr(op, a, an, b, bn, csr, j) ==
    Put(Jump(StoreIn(Zib(op, a, an, b, bn), "mem", CsrAt(csr), FALSE), j, j), 4)
Calc(op, a, an, b, bn, j) == Put(Jump(Zib(op, a, an, b, bn), j, j), 4)

Csrrw(i) ==
    CASE i.rd = i.rs1 /\ i.rd = 0 -> << ToCsr("copyb", "imm", 0, "imm", 0, i.csr, 4) >>
      [] i.rd = i.rs1 /\ i.rd # 0 ->
            << ToReg("imm", "mem", CsrAt(i.csr), 33, 1),
               ToCsr("copyb", "imm", 0, "reg", i.rs1, i.csr, 1),
               ToReg("imm", "reg", 33, i.rd, 2) >>
      [] i.rd # i.rs1 /\ i.rd = 0 -> << ToCsr("copyb", "imm", 0, "reg", i.rs1, i.csr, 4) >>
      [] OTHER ->
            << ToReg("imm", "mem", CsrAt(i.csr), i.rd, 1),
               ToCsr("copyb", "imm", 0, "reg", i.rs1, i.csr, 3) >>

\* csrrs with rd = 0 is also how a program calls a precompile, whose parameter is
\* in rs1, and passes a parameter to a free call.
CsrrsNoRd(i) ==
    CASE IsPrecompiled(i.csr) ->
            << Calc(CSR_PRECOMPILED[i.csr - 2047], "step", 0, "reg", i.rs1, 4) >>
      [] IsFcallParam(i.csr) ->
            << Calc("fcall_param", "imm", CSR_FCALL_PARAM_OFFSET_TO_WORDS[i.csr - 2287],
                    "reg", i.rs1, 4) >>
      [] OTHER -> << ToCsr("or", "mem", CsrAt(i.csr), "reg", i.rs1, i.csr, 4) >>

Csrrs(i) ==
    CASE i.rd = i.rs1 /\ i.rd = 0 -> << Calc("copyb", "imm", 0, "imm", 0, 4) >>
      [] i.rd = i.rs1 /\ i.rd # 0 ->
            << ToReg("imm", "mem", CsrAt(i.csr), 33, 1),
               ToCsr("or", "lastc", 0, "reg", i.rs1, i.csr, 1),
               ToReg("imm", "reg", 33, i.rd, 2) >>
      [] i.rd # i.rs1 /\ i.rd = 0 -> CsrrsNoRd(i)
      [] i.rd # 0 /\ i.rs1 = 0 ->
            IF i.csr = CSR_FCALL_GET_ADDR
            THEN << Put(Jump(StoreIn(Zib("fcall_get", "imm", 0, "mem", INPUT_ADDR), "reg",
                                     i.rd, FALSE), 4, 4), 4) >>
            ELSE << ToReg("imm", "mem", CsrAt(i.csr), i.rd, 4) >>
      [] OTHER ->
            << ToReg("imm", "mem", CsrAt(i.csr), i.rd, 1),
               ToCsr("or", "lastc", 0, "reg", i.rs1, i.csr, 3) >>

Csrrc(i) ==
    LET not == Calc("xor", "imm", M64, "reg", i.rs1, 1)
    IN  CASE i.rd = i.rs1 /\ i.rd = 0 -> << Calc("copyb", "imm", 0, "imm", 0, 4) >>
          [] i.rd = i.rs1 /\ i.rd # 0 ->
                << ToReg("imm", "mem", CsrAt(i.csr), 33, 1), not,
                   ToCsr("and", "reg", 33, "lastc", 0, i.csr, 1),
                   ToReg("mem", "reg", 33, i.rd, 1) >>
          [] i.rd # i.rs1 /\ i.rd = 0 ->
                << not, ToCsr("and", "mem", CsrAt(i.csr), "lastc", 0, i.csr, 3) >>
          [] i.rd # 0 /\ i.rs1 = 0 -> << ToReg("imm", "mem", CsrAt(i.csr), i.rd, 4) >>
          [] OTHER ->
                << ToReg("mem", "mem", CsrAt(i.csr), i.rd, 1), not,
                   ToCsr("and", "reg", i.rd, "lastc", 0, i.csr, 2) >>

\* csrrwi with rd = 0 also makes a free call.
Csrrwi(i) ==
    IF i.rd = 0
    THEN IF IsFcall(i.csr)
         THEN << Calc("fcall", "imm", (i.csr - 2240) * 32 + i.imme, "imm", 0, 4) >>
         ELSE << ToCsr("copyb", "imm", 0, "imm", i.imme, i.csr, 4) >>
    ELSE << ToReg("mem", "mem", CsrAt(i.csr), i.rd, 1),
            ToCsr("copyb", "mem", 0, "imm", i.imme, i.csr, 3) >>

\* csrrsi and csrrci: op is or with the immediate, or and with its complement.
CsrImmediate(i, op, imm) ==
    CASE i.rd = 0 /\ i.imme = 0 -> << Calc("copyb", "imm", 0, "imm", 0, 4) >>
      [] i.rd = 0 /\ i.imme # 0 -> << ToCsr(op, "mem", CsrAt(i.csr), "imm", imm, i.csr, 4) >>
      [] i.rd # 0 /\ i.imme = 0 -> << ToReg("imm", "mem", CsrAt(i.csr), i.rd, 4) >>
      [] OTHER ->
            << ToReg("mem", "mem", CsrAt(i.csr), i.rd, 1),
               ToCsr(op, "lastc", 0, "imm", imm, i.csr, 3) >>
Csrrsi(i) == CsrImmediate(i, "or", i.imme)
Csrrci(i) == CsrImmediate(i, "and", M64 - i.imme)

-----------------------------------------------------------------------------
(* convert *)

\* The Zisk operation of a RISC-V operation on registers, and on an immediate.
RegisterOps ==
    [slt |-> "lt", sltu |-> "ltu", mulhsu |-> "mulsuh", mulhu |-> "muluh", addw |-> "add_w",
     subw |-> "sub_w", sllw |-> "sll_w", srlw |-> "srl_w", sraw |-> "sra_w",
     mulw |-> "mul_w", divw |-> "div_w", divuw |-> "divu_w", remw |-> "rem_w",
     remuw |-> "remu_w"]
    @@ [n \in {"add", "sub", "sll", "xor", "srl", "sra", "or", "and", "mul", "mulh", "div",
               "divu", "rem", "remu"} |-> n]
ImmediateOps ==
    [slli |-> "sll", slti |-> "lt", sltiu |-> "ltu", srli |-> "srl", srai |-> "sra",
     andi |-> "and", addiw |-> "add_w", slliw |-> "sll_w", srliw |-> "srl_w",
     sraiw |-> "sra_w"]
CopybOps == [addi |-> "add", xori |-> "xor", ori |-> "or"]

\* The operation and the width of a load, and the width of a store.
LoadOps ==
    [lb |-> <<"signextend_b", W8>>, lbu |-> <<"copyb", W8>>, lh |-> <<"signextend_h", W16>>,
     lhu |-> <<"copyb", W16>>, lw |-> <<"signextend_w", W32>>, lwu |-> <<"copyb", W32>>,
     ld |-> <<"copyb", WordBits>>]
    @@ ("lr.w" :> <<"signextend_w", W32>>) @@ ("lr.d" :> <<"copyb", WordBits>>)
StoreOps == [sb |-> W8, sh |-> W16, sw |-> W32, sd |-> WordBits]

\* The comparison of a branch and whether it is negated.
BranchOps ==
    [beq |-> <<"eq", FALSE>>, bne |-> <<"eq", TRUE>>, blt |-> <<"lt", FALSE>>,
     bge |-> <<"lt", TRUE>>, bltu |-> <<"ltu", FALSE>>, bgeu |-> <<"ltu", TRUE>>]

\* The operation of an atomic, narrow and wide.
AtomicOpsW ==
    ("amoadd.w" :> "add_w") @@ ("amoxor.w" :> "xor") @@ ("amoand.w" :> "and")
    @@ ("amoor.w" :> "or") @@ ("amomin.w" :> "min_w") @@ ("amomax.w" :> "max_w")
    @@ ("amominu.w" :> "minu_w") @@ ("amomaxu.w" :> "maxu_w")
AtomicOpsD ==
    ("amoadd.d" :> "add") @@ ("amoxor.d" :> "xor") @@ ("amoand.d" :> "and")
    @@ ("amoor.d" :> "or") @@ ("amomin.d" :> "min") @@ ("amomax.d" :> "max")
    @@ ("amominu.d" :> "minu") @@ ("amomaxu.d" :> "maxu")

\* convert: what is put in the place of an instruction.  A name that is not
\* there panics.
Convert(i) ==
    LET n == i.inst
    IN  CASE n \in DOMAIN LoadOps -> LoadOp(i, LoadOps[n][1], LoadOps[n][2])
          [] n \in DOMAIN StoreOps -> StoreOp(i, StoreOps[n])
          [] n \in DOMAIN RegisterOps -> RegisterOp(i, RegisterOps[n])
          [] n \in DOMAIN ImmediateOps -> ImmediateOp(i, ImmediateOps[n])
          [] n \in DOMAIN CopybOps -> ImmediateOpOrCopyb(i, CopybOps[n])
          [] n \in DOMAIN BranchOps -> BranchOp(i, BranchOps[n][1], BranchOps[n][2])
          [] n \in DOMAIN AtomicOpsW -> AtomicOp(i, "signextend_w", AtomicOpsW[n], W32)
          [] n \in DOMAIN AtomicOpsD -> AtomicOp(i, "copyb", AtomicOpsD[n], WordBits)
          [] n = "amoswap.w" -> AtomicSwap(i, "signextend_w", W32)
          [] n = "amoswap.d" -> AtomicSwap(i, "copyb", WordBits)
          [] n = "sc.w" -> StoreConditional(i, W32)
          [] n = "sc.d" -> StoreConditional(i, WordBits)
          [] n = "auipc" -> Auipc(i) [] n = "lui" -> Lui(i)
          [] n = "jal" -> Jal(i) [] n = "jalr" -> Jalr(i)
          [] n \in {"fence", "fence.i", "ebreak"} -> Nop
          [] n = "ecall" -> Ecall
          [] n = "csrrw" -> Csrrw(i) [] n = "csrrs" -> Csrrs(i)
          [] n = "csrrc" -> Csrrc(i) [] n = "csrrwi" -> Csrrwi(i)
          [] n = "csrrsi" -> Csrrsi(i) [] n = "csrrci" -> Csrrci(i)

-----------------------------------------------------------------------------
(* The ROM *)

\* rom.insts.insert at s, and the next s.
Insert(rom, p) == [insts |-> (rom.s :> p.z) @@ rom.insts, s |-> rom.s + p.step]

\* add_zisk_code: riscv_interpreter leaves the zero words out.
AddZiskCode(insts, addr, words) ==
    LET code == SelectSeq(words, LAMBDA w : ~IsZero(w))
        One(rom, w) == FoldLeft(Insert, rom, Convert(Decode(w)))
    IN  FoldLeft(One, [insts |-> insts, s |-> addr], code).insts

\* The words of a section, the last one filled up with zeros: force_aligned.
DataWords(data) ==
    [k \in 1 .. (Len(data) + WordBits - 1) \div WordBits |->
        MapThenSumSet(LAMBDA c : data[(k - 1) * WordBits + c + 1] * 2 ^ c,
                      0 .. Min({WordBits, Len(data) - (k - 1) * WordBits}) - 1)]

\* add_zisk_init_data
AddZiskInitData(rom, addr, data) ==
    LET words == DataWords(data)
        Word8(r, k) ==
            LET z == Width(Zib("copyb", "imm", addr + (k - 1) * WordBits, "imm", words[k]),
                           WordBits)
            IN  Insert(r, Put(Jump(StoreIn(z, "ind", 0, FALSE), 4, 4), 4))
    IN  FoldLeft(Word8, rom, [k \in 1 .. Len(words) |-> k])

\* add_end_jmp
AddEndJmp ==
    LET none == Zib("copyb", "imm", 0, "imm", 0)
    IN  FoldLeft(Insert, [insts |-> <<>>, s |-> ROM_ENTRY],
                 << Put(Jump(none, 8, 8), 4), Put(Ends(none), 4) >>)

\* add_entry_exit_jmp: the start of the program at entry; behind it, from +0x14,
\* the loop that publishes the output, and from +0x38 the trap handler.
Const(b, r) == StoreIn(Zib("copyb", "imm", 0, "imm", b), "reg", r, FALSE)
StartCode(rom, entry) ==
    LET Csr(b, csr) == StoreIn(Zib("copyb", "imm", 0, "imm", b), "mem", CsrAt(csr), FALSE)
    IN  << Jump(Csr(ARCH_ID_ZISK, MARCHID), 4, 4),
           Jump(Csr(rom.s + 56, MTVEC), 4, 4),
           Jump(Const(INPUT_ADDR, 10), 0, 4),
           Jump(Const(OUTPUT_ADDR, 11), 0, 4),
           Jump(StoreIn(SetsPc(Zib("copyb", "imm", 0, "imm", entry)), "reg", 1, TRUE), 0, 4) >>
PublishCode ==
    << Jump(Const(OutWords, 11), 0, 4),
       Jump(Const(0, 12), 0, 4),
       Jump(Const(OUTPUT_ADDR, 13), 0, 4),
       Jump(Zib("eq", "reg", 11, "reg", 12), 20, 4),
       Jump(Width(Zib("copyb", "reg", 13, "ind", 0), WordBits), 0, 4),
       Jump(Zib("pubout", "reg", 12, "lastc", 0), 0, 4),
       Jump(StoreIn(Zib("add", "reg", 13, "imm", WordBits), "reg", 13, FALSE), 0, 4),
       Jump(StoreIn(Zib("add", "reg", 12, "imm", 1), "reg", 12, FALSE), 4, -16),
       Jump(SetsPc(Zib("copyb", "imm", 0, "imm", ROM_EXIT)), 0, 0) >>
TrapCode ==
    << Jump(Zib("eq", "reg", 17, "imm", CAUSE_EXIT), -36, 4),
       Jump(SetsPc(Zib("copyb", "imm", 0, "reg", 1)), 0, 4) >>
AddEntryExitJmp(rom, entry) ==
    LET code == StartCode(rom, entry) \o PublishCode \o TrapCode
    IN  FoldLeft(Insert, rom, [n \in DOMAIN code |-> Put(code[n], 4)])

\* A section is [addr, write, data]; an executable one has words instead of cells
\* (its own image as read-only data, which no program here reads, is left out).
IsCode(section) == "words" \in DOMAIN section

\* Bytes behind the last multiple of 4 are dropped, from data too.
CutToWords(section) ==
    IF IsCode(section) THEN section
    ELSE [section EXCEPT !.data = SubSeq(@, 1, Len(@) - (Len(@) % W32))]

\* Read-only data, and any that is not in RAM, waits until the other sections are
\* done; it is joined with a part that ends where it starts.
KeepRoData(ro, section) ==
    LET end == {k \in 1 .. Len(ro) : ro[k].addr + Len(ro[k].data) = section.addr}
    IN  IF end = {} THEN Append(ro, section)
        ELSE [ro EXCEPT ![Min(end)].data = @ \o section.data]

\* elf2rom: the instructions of all sections with program data.
Elf2Rom(sections, entry) ==
    LET ToRam(s) == s.write /\ s.addr + Len(s.data) <= RamEnd
        One(acc, section) ==
            LET s == CutToWords(section) IN
            CASE IsCode(s) ->
                    [acc EXCEPT !.rom.insts = AddZiskCode(@, s.addr, s.words)]
              [] ~IsCode(s) /\ ToRam(s) ->
                    [acc EXCEPT !.rom = AddZiskInitData(@, s.addr, s.data)]
              [] OTHER -> [acc EXCEPT !.ro = KeepRoData(@, s)]
        all == FoldLeft(One, [rom |-> AddEndJmp, ro |-> <<>>], sections)
        Ro(rom, s) == AddZiskInitData(rom, s.addr, s.data)
    IN  AddEntryExitJmp(FoldLeft(Ro, all.rom, all.ro), entry).insts

\* get_instruction: at an address without one there is an instruction that does
\* nothing, for ever, or the index panics.
HasInstruction(rom, pc) == pc \in DOMAIN rom
=============================================================================
