------------------------------- MODULE AsmGen -------------------------------
(***************************************************************************)
(* What the generated x86 code does (core/src/zisk_rom_2_asm.rs).  For     *)
(* every Zisk instruction the generator emits code for its sources, its    *)
(* operation, its store and its jump; in a minimal trace that code also    *)
(* records the words it reads.  Here the code is given by its effect on    *)
(* the registers it works with: a is rbx, b is rax, c is r15 and flag is   *)
(* rdx.  An operand that is an immediate may never be in its register.     *)
(***************************************************************************)
EXTENDS Emu

-----------------------------------------------------------------------------
(* x86: external *)

\* A shift takes as many bits of its count as the operand is wide.
Shl(x, by, w) == U(x * 2 ^ (by % w), w)
Shr(x, by, w) == U(x, w) \div 2 ^ (by % w)
Sar(x, by, w) == U(S(x, w) \div 2 ^ (by % w), w)
Movsx(x, w) == SignExtended(x, w)

\* An immediate operand of a 64-bit instruction is 32 bits and sign extended.
FitsImm32(x) == SignExtended(x, W32) = x

-----------------------------------------------------------------------------
(* operation_to_asm *)

\* The outcome of the code of an operation: c and flag, an exception, or code
\* that does not assemble or link.
Done(c, flag) == [is |-> "done", c |-> c, flag |-> flag]
Zero(c) == Done(U(c, WordBits), FALSE)
Trap == [is |-> "trap", c |-> 0, flag |-> FALSE]
Unbuilt == [is |-> "unbuilt", c |-> 0, flag |-> FALSE]

\* Code whose text has the operand x, which is the immediate itself if imm.
With(x, imm, done) == IF imm /\ ~FitsImm32(x) THEN Unbuilt ELSE done

\* flag, copyb, pubout and the sign extensions (movsx, movsxd).
AsmInternal(op, a, b) ==
    CASE op = "flag" -> Done(0, TRUE)
      [] op \in {"copyb", "pubout"} -> Zero(b)
      [] op = "signextend_b" -> Zero(Movsx(b, W8))
      [] op = "signextend_h" -> Zero(Movsx(b, W16))
      [] op = "signextend_w" -> Zero(Movsx(b, W32))

\* A mutated form of AsmAdd: add_w has no cdqe.
AsmAddNoCdqe(op, a, b, aImm, bImm) ==
    CASE op \in {"add", "add_w"} -> Zero(a + b)
      [] op = "sub" -> With(b, bImm, Zero(a - b))
      [] op = "sub_w" -> With(b, bImm, Zero(Movsx(a - b, W32)))

\* An immediate zero is not added or subtracted; cdqe extends the narrow forms.
AsmAdd(op, a, b, aImm, bImm) ==
    CASE op = "add" -> IF aImm /\ a = 0 THEN Zero(b)
                       ELSE IF bImm /\ b = 0 THEN Zero(a)
                       ELSE With(b, bImm, Zero(a + b))
      [] op = "add_w" -> IF aImm /\ a = 0 THEN Zero(Movsx(b, W32))
                         ELSE With(a, aImm, Zero(Movsx(a + b, W32)))
      [] op = "sub" -> IF bImm /\ b = 0 THEN Zero(a) ELSE With(b, bImm, Zero(a - b))
      [] op = "sub_w" -> IF bImm /\ b = 0 THEN Zero(Movsx(a, W32))
                         ELSE With(b, bImm, Zero(Movsx(a - b, W32)))

\* An immediate count is masked by the generator, one in cl by the processor.
AsmShiftLeft(op, a, b, bImm) ==
    LET by == IF bImm THEN b % WordBits ELSE b
    IN  CASE op = "sll" -> Zero(Shl(a, by, WordBits))
          [] op = "sll_w" -> Zero(Movsx(Shl(a, b, W32), W32))

AsmShiftRight(op, a, b, bImm) ==
    LET by == IF bImm THEN b % WordBits ELSE b
    IN  CASE op = "srl" -> Zero(Shr(a, by, WordBits))
          [] op = "sra" -> Zero(Sar(a, b, WordBits))
          [] op = "srl_w" -> Zero(Movsx(Shr(a, by, W32), W32))
          [] op = "sra_w" -> Zero(Movsx(Sar(a, by, W32), W32))

\* cmp with b, which is in the text if inText, and a jump that sets c and flag.
CmpJump(b, inText, taken) == With(b, inText, Done(IF taken THEN 1 ELSE 0, taken))

\* The label of eq_w is not the one it jumps to.
AsmEqual(op, a, b, bImm) ==
    CASE op = "eq" -> CmpJump(b, bImm, a = b)
      [] op = "eq_w" -> Unbuilt

\* lt moves an immediate of more than 32 bits to rax first.
AsmLess(op, a, b, bImm) ==
    CASE op = "ltu" -> CmpJump(b, bImm, a < b)
      [] op = "lt" -> CmpJump(b, bImm /\ b < 2 ^ W32, S(a, WordBits) < S(b, WordBits))
      [] op = "ltu_w" -> CmpJump(b, FALSE, U(a, W32) < U(b, W32))
      [] op = "lt_w" -> CmpJump(b, FALSE, S(a, W32) < S(b, W32))

\* The jumps of leu are no mnemonics.
AsmLessEqual(op, a, b, bImm) ==
    CASE op = "leu" -> Unbuilt
      [] op = "le" -> CmpJump(b, bImm /\ b < 2 ^ W32, S(a, WordBits) <= S(b, WordBits))
      [] op = "leu_w" -> CmpJump(b, FALSE, U(a, W32) <= U(b, W32))
      [] op = "le_w" -> CmpJump(b, FALSE, S(a, W32) <= S(b, W32))

\* and, or and xor, but not with an immediate that changes nothing.
AsmLogic(op, a, b, bImm) ==
    IF bImm /\ b = (IF op = "and" THEN M64 ELSE 0) THEN Zero(a)
    ELSE With(b, bImm, Zero(LogicOp(op, a, b)[1]))

\* mul and imul leave the product in rdx:rax.  mulsuh corrects the upper half of
\* the unsigned product by the sign of a (sar 63) times b.
AsmMul(op, a, b) ==
    LET High(p) == p \div 2 ^ WordBits
    IN  CASE op = "mulu" -> Zero(a * b)
          [] op = "muluh" -> Zero(High(a * b))
          [] op = "mulsuh" -> Zero(High(a * b) + U(Sar(a, WordBits - 1, WordBits) * b, WordBits))
          [] op = "mul" -> Zero(S(a, WordBits) * S(b, WordBits))
          [] op = "mulh" -> Zero(High(S(a, WordBits) * S(b, WordBits)))
          [] op = "mul_w" -> Zero(Movsx(U(a, W32) * U(b, W32), W32))

\* divu and divu_w test for zero and divide.
AsmDivu(a, b) == IF b = 0 THEN Zero(M64) ELSE Zero(a \div b)
AsmDivuW(a, b) ==
    IF U(b, W32) = 0 THEN Zero(M64) ELSE Zero(Movsx(U(a, W32) \div U(b, W32), W32))

\* div goes to the code for a division by zero when b is not zero, and divides, or
\* tests for the overflow, when it is.
AsmDiv(a, b) == IF b # 0 THEN Zero(M64) ELSE Trap

AsmRemu(a, b) == IF b = 0 THEN Zero(a) ELSE Zero(a % b)

\* div_w, rem and rem_w jump to labels that are not emitted; a line of remu_w does
\* not end where it should.
AsmDivW == Unbuilt
AsmRem == Unbuilt
AsmRemuW == Unbuilt
AsmRemW == Unbuilt

\* c holds a; it is replaced by b, all of it, when the comparison says so.
AsmMinMax(op, a, b, bImm) ==
    LET keep == CASE op = "minu" -> a < b
                  [] op = "min" -> S(a, WordBits) < S(b, WordBits)
                  [] op = "maxu" -> a > b
                  [] op = "max" -> S(a, WordBits) > S(b, WordBits)
                  [] op = "minu_w" -> U(a, W32) < U(b, W32)
                  [] op = "min_w" -> S(a, W32) < S(b, W32)
                  [] op = "maxu_w" -> U(a, W32) > U(b, W32)
                  [] op = "max_w" -> S(a, W32) > S(b, W32)
    IN  With(b, bImm /\ op \in {"minu", "min", "maxu", "max"}, Zero(IF keep THEN a ELSE b))

\* operation_to_asm for the operations that need nothing but their operands.
OperationToAsm(op, a, b, aImm, bImm) ==
    CASE op \in InternalOps -> AsmInternal(op, a, b)
      [] op \in AddOps -> AsmAdd(op, a, b, aImm, bImm)
      [] op \in {"sll", "sll_w"} -> AsmShiftLeft(op, a, b, bImm)
      [] op \in ShiftOps \ {"sll", "sll_w"} -> AsmShiftRight(op, a, b, bImm)
      [] op \in {"eq", "eq_w"} -> AsmEqual(op, a, b, bImm)
      [] op \in {"ltu", "lt", "ltu_w", "lt_w"} -> AsmLess(op, a, b, bImm)
      [] op \in {"leu", "le", "leu_w", "le_w"} -> AsmLessEqual(op, a, b, bImm)
      [] op \in LogicOps -> AsmLogic(op, a, b, bImm)
      [] op \in MulOps -> AsmMul(op, a, b)
      [] op = "divu" -> AsmDivu(a, b) [] op = "divu_w" -> AsmDivuW(a, b)
      [] op = "div" -> AsmDiv(a, b) [] op = "div_w" -> AsmDivW
      [] op = "remu" -> AsmRemu(a, b) [] op = "remu_w" -> AsmRemuW
      [] op = "rem" -> AsmRem [] op = "rem_w" -> AsmRemW
      [] op \in MinMaxOps -> AsmMinMax(op, a, b, bImm)

-----------------------------------------------------------------------------
(* save_to_asm: the sources *)

\* A context s has the fields of a context of Emu, with a and b for rbx and rax;
\* active is REG_ACTIVE_CHUNK, left is REG_STEP, base is MEM_STEP, reads is what
\* mem_reads holds, and result is the whole buffer of the results.

\* store_a_in_c, store_b_in_c, store_a_in_a and store_b_in_b
BInC(i) ==
    \/ i.op \in {"copyb", "pubout", "fcall_param", "fcall", "fcall_get"}
    \/ i.op = "add" /\ i.aSrc = "imm" /\ i.a = 0
AInC(i) ==
    \/ i.op \in LogicOps \cup MinMaxOps \cup {"sll", "srl", "sra", "sub"}
    \/ i.op = "add" /\ ~BInC(i)
AInA(i) ==
    i.op \in (CompareOps \ {"eq_w"}) \cup MulOps \cup (DivOps \ {"divu"})
             \cup (RemOps \ {"remu"}) \cup {"sub_w"}
BInB(i) ==
    \/ i.op \in MulOps \cup DivOps \cup RemOps
                \cup {"signextend_b", "signextend_h", "signextend_w", "add_w"}
    \/ i.op \in {"minu_w", "min_w", "maxu_w", "max_w"}

Aligned(addr) == addr - (addr % WordBits)
WordAt(s, addr) == Bits(s.mem, addr, WordBits)

\* Words are appended to mem_reads in an active chunk only.
Recorded(s, words) == [s EXCEPT !.reads = IF s.active THEN @ \o words ELSE @]

\* The word at an address, or the two words it is in (*_src_mem_aligned and
\* *_src_mem_not_aligned).
MemWords(s, addr) ==
    IF addr % WordBits = 0 THEN <<WordAt(s, addr)>>
    ELSE <<WordAt(s, Aligned(addr)), WordAt(s, Aligned(addr) + WordBits)>>

PutA(s, i, v) == IF AInC(i) THEN [s EXCEPT !.c = v] ELSE [s EXCEPT !.a = v]
PutB(s, i, v) == IF BInC(i) THEN [s EXCEPT !.c = v] ELSE [s EXCEPT !.b = v]

\* b is saved from c before the code of a may write to it.
SaveLastC(s, i) == IF i.bSrc = "c" /\ ~BInC(i) THEN [s EXCEPT !.b = s.c] ELSE s

\* A mutated form of SourceA: the step is the one of the start of the chunk.
SourceAChunkStep(s, i) ==
    CASE i.aSrc = "c" -> IF AInC(i) THEN s ELSE [s EXCEPT !.a = s.c]
      [] i.aSrc = "reg" -> PutA(s, i, s.regs[i.a])
      [] i.aSrc = "mem" -> Recorded(PutA(s, i, WordAt(s, i.a)), MemWords(s, i.a))
      [] i.aSrc = "imm" -> IF AInC(i) \/ AInA(i) THEN PutA(s, i, i.a) ELSE s
      [] i.aSrc = "step" -> PutA(s, i, Word(s.base))

\* Source a.  An immediate is only moved if the operation asks for it.
SourceA(s, i) ==
    CASE i.aSrc = "c" -> IF AInC(i) THEN s ELSE [s EXCEPT !.a = s.c]
      [] i.aSrc = "reg" -> PutA(s, i, s.regs[i.a])
      [] i.aSrc = "mem" -> Recorded(PutA(s, i, WordAt(s, i.a)), MemWords(s, i.a))
      [] i.aSrc = "imm" -> IF AInC(i) \/ AInA(i) THEN PutA(s, i, i.a) ELSE s
      [] i.aSrc = "step" -> PutA(s, i, Word(s.base + s.size - s.left))

\* What a load behind an address records: of a whole word, the one or two words it
\* is in; of a narrow one, the word of the address.  Its second word is looked for
\* behind the address that has been aligned already, so it is never found.
WideWords(s, addr) == MemWords(s, addr)
NarrowWords(s, addr) == <<WordAt(s, Aligned(addr))>>

\* Where the register of the address is left.
Behind(s, addr, width) ==
    CASE ~s.active \/ (width = WordBits /\ addr % WordBits = 0) -> addr
      [] s.active /\ width = WordBits /\ addr % WordBits # 0 -> Aligned(addr) + WordBits
      [] OTHER -> Aligned(addr)

\* Source b behind an address in a.  The address is built in rbx itself for
\* copyb and the narrow sign extensions, and in another register otherwise.
SourceInd(s, i) ==
    LET base == IF i.aSrc = "imm" THEN i.a ELSE s.a
        addr == Word(base + i.b)
        inA == i.op \in {"copyb", "signextend_b", "signextend_h"}
        words == IF i.width = WordBits THEN WideWords(s, addr) ELSE NarrowWords(s, addr)
        loaded == Recorded(PutB(s, i, Bits(s.mem, addr, i.width)), words)
    IN  [loaded EXCEPT !.a = IF inA THEN Behind(s, addr, i.width) ELSE base]

\* Source b.
SourceB(s, i) ==
    CASE i.bSrc = "c" -> s
      [] i.bSrc = "reg" -> PutB(s, i, s.regs[i.b])
      [] i.bSrc = "mem" -> Recorded(PutB(s, i, WordAt(s, i.b)), MemWords(s, i.b))
      [] i.bSrc = "imm" -> IF BInC(i) \/ BInB(i) THEN PutB(s, i, i.b) ELSE s
      [] i.bSrc = "ind" -> SourceInd(s, i)

\* The operands as the code of the operation finds them.
OperandA(s, i) == IF i.aSrc = "imm" THEN i.a ELSE IF AInC(i) THEN s.c ELSE s.a
OperandB(s, i) == IF i.bSrc = "imm" THEN i.b ELSE IF BInC(i) THEN s.c ELSE s.b

-----------------------------------------------------------------------------
(* Precompiles and calls *)

\* keccak takes its address from register a0, the others from b (rdi).
A0 == 10
Rdi(s, i) == IF i.op = "keccak" THEN s.regs[A0] ELSE OperandB(s, i)

\* precompiled_save_mem_reads, and the loops of keccak, sha256 and secp256k1_dbl:
\* the indirections first, then the words that each of the parameters holds.
SaveMemReads(s, op, rdi) ==
    LET ind == Indirections(op)
        chunks == Chunks(op)
        Param(n) == IF ind = 0 THEN rdi ELSE WordAt(s, rdi + n * WordBits)
    IN  [k \in 1 .. ind |-> WordAt(s, rdi + (k - 1) * WordBits)]
        \o [m \in 1 .. Loads(op) * chunks |->
                WordAt(s, Param((m - 1) \div chunks) + ((m - 1) % chunks) * WordBits)]

\* The C functions behind _opcode_keccak and its like: external.
CallOpcode(s, i, rdi) ==
    LET data == SaveMemReads(s, i.op, rdi)
        out == Compute(i.op, SubSeq(data, Indirections(i.op) + 1, Len(data)))
        Put(mem, n) == Write(mem, OutputAddr(i.op, rdi, data, n), out[n], WordBits)
    IN  FoldLeft(Put, s.mem, [n \in 1 .. Len(out) |-> n])

\* The buffer of results after a call of _opcode_fcall: external.
Results(buffer, res) == [k \in DOMAIN buffer |-> IF k <= Len(res) THEN res[k] ELSE buffer[k]]

Precompiled(s, i) ==
    LET rdi == Rdi(s, i)
        saved == Recorded(s, SaveMemReads(s, i.op, rdi))
    IN  [saved EXCEPT !.mem = CallOpcode(s, i, rdi), !.c = 0, !.flag = FALSE]

\* fcall_param appends c or the words at c; fcall writes the first result to the
\* free input; fcall_get writes the next one, whether there is one or not.
FcallParam(s, i) ==
    LET words == IF i.a = 1 THEN <<s.c>>
                 ELSE [k \in 1 .. i.a |-> WordAt(s, s.c + (k - 1) * WordBits)]
    IN  [s EXCEPT !.params = @ \o words, !.flag = FALSE]

Fcall(s, i) ==
    LET res == FcallProxy(s.params)
    IN  [s EXCEPT !.result = Results(@, res), !.params = <<>>, !.got = 1, !.flag = FALSE,
                  !.mem = Write(@, FreeAddr, IF res = <<>> THEN 0 ELSE res[1], WordBits)]

FcallGet(s, i) ==
    [s EXCEPT !.mem = Write(@, FreeAddr, s.result[s.got + 1], WordBits), !.got = @ + 1,
              !.flag = FALSE]

\* operation_to_asm.
Operation(s, i) ==
    CASE i.op \in Precompiles -> Precompiled(s, i)
      [] i.op = "fcall_param" -> FcallParam(s, i)
      [] i.op = "fcall" -> Fcall(s, i)
      [] i.op = "fcall_get" -> FcallGet(s, i)
      [] OTHER ->
            LET Keep(r) == [s EXCEPT !.c = r.c, !.flag = r.flag]
            IN  Keep(OperationToAsm(i.op, OperandA(s, i), OperandB(s, i), i.aSrc = "imm",
                                    i.bSrc = "imm"))

-----------------------------------------------------------------------------
(* The store and the jump *)

\* The address of an indirect store: a is rbx again, or the immediate.
IndAddr(s, i) == Word((IF i.aSrc = "imm" THEN i.a ELSE s.a) + i.to)

\* The old words that a store records: of a whole word, none or the two it is in;
\* of a narrow one, the word of the address, as for a load.
OldWideWords(s, addr) == IF addr % WordBits = 0 THEN <<>> ELSE MemWords(s, addr)
OldNarrowWords(s, addr) == <<WordAt(s, Aligned(addr))>>

\* The value that is stored: c or the return address.
StoreValue(s, i) == IF i.storeRa THEN Word(s.pc + i.jmp2) ELSE s.c

StoreReg(s, i) == [s EXCEPT !.regs[i.to] = StoreValue(s, i)]

StoreMem(s, i) ==
    [Recorded(s, OldWideWords(s, i.to)) EXCEPT
        !.mem = Write(@, i.to, StoreValue(s, i), WordBits)]

\* A return address of one byte is stored as two.
StoreInd(s, i) ==
    LET addr == IndAddr(s, i)
        old == IF i.width = WordBits THEN OldWideWords(s, addr) ELSE OldNarrowWords(s, addr)
        width == IF i.storeRa /\ i.width = W8 THEN W16 ELSE i.width
    IN  [Recorded(s, old) EXCEPT !.mem = Write(@, addr, StoreValue(s, i), width)]

StoreC(s, i) ==
    CASE i.store = "none" -> s
      [] i.store = "reg" -> StoreReg(s, i)
      [] i.store = "mem" -> StoreMem(s, i)
      [] i.store = "ind" -> StoreInd(s, i)

\* set_pc
JumpTo(s, i) ==
    Word(IF i.setPc THEN s.c + i.jmp1
         ELSE IF s.flag THEN s.pc + i.jmp1 ELSE s.pc + i.jmp2)

\* The code of one instruction, down to the jump: REG_STEP is counted down.  The
\* pc stays behind at the last instruction of the program.
AsmStep(s, i) ==
    LET Jumped(t) ==
            [t EXCEPT !.left = @ - 1, !.pc = IF i.end THEN @ ELSE JumpTo(t, i), !.end = i.end]
    IN  Jumped(StoreC(Operation(SourceB(SourceA(SaveLastC(s, i), i), i), i), i))

-----------------------------------------------------------------------------
(* Chunks *)

\* chunk_start: a chunk is recorded if its number is the mask of this process,
\* and opens with the state that a replay starts from.
ChunkStart(s, masks) ==
    LET active == s.chunk % masks = s.mask
        from == [pc |-> s.pc, c |-> s.c, step |-> s.base, regs |-> s.regs]
    IN  [s EXCEPT !.active = active, !.chunk = @ + 1, !.left = s.size, !.reads = <<>>,
                  !.from = IF active THEN from ELSE @]

\* chunk_end: the steps of the chunk are added to MEM_STEP.
ChunkEnd(s) == [s EXCEPT !.base = @ + s.size - s.left]

\* The trace that chunk_end completes.
ChunkTrace(s) ==
    [start |-> s.from, lastC |-> s.c, steps |-> s.size - s.left, reads |-> s.reads,
     end |-> s.end]

\* The start of the program: the C side has put its input in memory, and nothing
\* in the buffer of the results.
AsmInit(mem, size, mask) ==
    [result |-> <<0, 0, 0, 0>>] @@ Start(mem) @@
    [base |-> 0, size |-> size, left |-> size, reads |-> <<>>, active |-> FALSE,
     chunk |-> 0, mask |-> mask, from |-> <<>>]
=============================================================================
