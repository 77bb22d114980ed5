-------------------------------- MODULE Emu --------------------------------
(***************************************************************************)
(* One step of the emulator (emulator/src/emu.rs, core/src/mem.rs and the  *)
(* operations of core/src/zisk_ops.rs that need more than their operands). *)
(* A step is made with a memory, recording the words it reads, or without  *)
(* one, consuming the words that another run has recorded.                 *)
(*                                                                         *)
(* A context x is a record with the fields of InstContext.  A byte of the  *)
(* code is a bit here, so that a word of 8 bytes has WordBits of them; sp, *)
(* which nothing sets, is left out.                                        *)
(***************************************************************************)
EXTENDS ZiskOps, SequencesExt

CONSTANTS
    MemSize,        \* cells of the RAM, a number of words
    Regs            \* the registers a program uses

Word(n) == n % 2 ^ WordBits

\* INPUT_ADDR: one word behind the RAM, where a program reads free_input.
FreeAddr == MemSize

-----------------------------------------------------------------------------
(* Mem *)

\* A mutated form of IsFullAligned: narrow accesses count as aligned too.
IsFullAlignedAnyWidth(addr, width) == addr % (WordBits \div 2) = 0

\* ((address & 0x03) == 0) && (width == 8)
IsFullAligned(addr, width) == addr % (WordBits \div 2) = 0 /\ width = WordBits

\* The addresses of the words that hold the first and the last cell.
Required(addr, width) ==
    LET end == addr + width - 1
    IN  <<addr - (addr % WordBits), end - (end % WordBits)>>

Crosses(addr, width) == Required(addr, width)[1] # Required(addr, width)[2]

\* A section holds the whole access; Mem::read and Mem::write panic otherwise.
Mapped(addr, width) ==
    \/ addr + width <= MemSize
    \/ addr >= FreeAddr /\ addr + width <= FreeAddr + WordBits

Bits(mem, addr, width) ==
    SumTo([k \in 1 .. width |-> mem[addr + k - 1] * 2 ^ (k - 1)], width)

\* Mem::read
Read(x, addr, width) ==
    IF addr = FreeAddr /\ width = WordBits THEN x.free ELSE Bits(x.mem, addr, width)

\* The additional data of Mem::read_required: the words the access touches.
ReadRequired(x, addr, width) ==
    LET r == Required(addr, width)
    IN  IF IsFullAligned(addr, width) THEN <<>>
        ELSE IF r[1] = r[2] THEN <<Bits(x.mem, r[1], WordBits)>>
        ELSE <<Bits(x.mem, r[1], WordBits), Bits(x.mem, r[2], WordBits)>>

\* Mem::write
Write(mem, addr, val, width) ==
    [c \in DOMAIN mem |->
        IF c \in addr .. addr + width - 1 THEN (val \div 2 ^ (c - addr)) % 2 ELSE mem[c]]

\* Words written one after the other: a cell has the last one that covers it.
WriteAll(mem, out) ==
    [c \in DOMAIN mem |->
        LET over == {n \in DOMAIN out : c \in out[n][1] .. out[n][1] + WordBits - 1}
            last == CHOOSE n \in over : \A m \in over : m <= n
        IN  IF over = {} THEN mem[c] ELSE (out[last][2] \div 2 ^ (c - out[last][1])) % 2]

\* get_single_not_aligned_data and get_double_not_aligned_data
NotAlignedData(addr, width, raw) ==
    LET all == raw[1] + (IF Len(raw) = 2 THEN raw[2] * 2 ^ WordBits ELSE 0)
    IN  (all \div 2 ^ (addr % WordBits)) % 2 ^ width

-----------------------------------------------------------------------------
(* Operations *)

\* The operations that read their input from memory, at the address in b.
Precompiles ==
    {"keccak", "sha256", "arith256", "arith256_mod", "secp256k1_add", "secp256k1_dbl"}

\* indirections_count, loads_count and load_chunks of precompiled_load_data.  A
\* parameter of 4 words has one word here, the state of keccak two and the state
\* and the block of sha256 one and two.
Indirections(op) ==
    CASE op \in {"arith256", "arith256_mod"} -> 5 [] op = "secp256k1_add" -> 2 [] OTHER -> 0
Loads(op) ==
    CASE op = "arith256" -> 3 [] op = "arith256_mod" -> 4 [] op = "secp256k1_add" -> 2
      [] op \in {"keccak", "sha256", "secp256k1_dbl"} -> 1 [] OTHER -> 0
Chunks(op) == CASE op \in {"arith256", "arith256_mod"} -> 1 [] op = "sha256" -> 3 [] OTHER -> 2

\* Words a precompile reads: (input_size + 7) >> 3.
InputWords(i) == Indirections(i.op) + Loads(i.op) * Chunks(i.op)

\* The addresses of the words in the order of the input data; without
\* indirections the one parameter is at the address in b itself.
InputAddrs(x, i) ==
    LET ind == Indirections(i.op)
        chunks == Chunks(i.op)
        Param(n) == IF ind = 0 THEN x.b + n * chunks
                    ELSE Read(x, x.b + n * WordBits, WordBits)
    IN  [k \in 1 .. InputWords(i) |->
            IF k <= ind THEN x.b + (k - 1) * WordBits
            ELSE LET m == k - ind - 1
                 IN  Param(m \div chunks) + (m % chunks) * WordBits]

\* precompiled_load_data, and the loads of opc_keccak and opc_sha256.
Input(x, i) ==
    LET addrs == InputAddrs(x, i)
    IN  [k \in 1 .. InputWords(i) |-> Read(x, addrs[k], WordBits)]

\* The precompiled functions on the words of their parameters: external, some
\* function that mixes them.  sha256 leaves the block as it is.
Compute(op, params) ==
    LET Mix(n) == Word(SumTo([k \in DOMAIN params |-> params[k] * k], Len(params)) + n)
        out == CASE op = "arith256_mod" -> 1 [] op = "sha256" -> 3 [] OTHER -> 2
    IN  [n \in 1 .. out |-> IF op = "sha256" /\ n > 1 THEN params[n] ELSE Mix(n)]

\* Where the words of the result go.
OutputAddr(op, b, data, n) ==
    CASE op = "arith256" -> data[3 + n]
      [] op = "arith256_mod" -> data[5]
      [] op = "secp256k1_add" -> data[1] + (n - 1) * WordBits
      [] OTHER -> b + (n - 1) * WordBits

\* The words a precompile writes, as pairs of address and value.
Outputs(x, i) ==
    LET data == Input(x, i)
        out == Compute(i.op, SubSeq(data, Indirections(i.op) + 1, Len(data)))
    IN  [n \in 1 .. Len(out) |-> <<OutputAddr(i.op, x.b, data, n), out[n]>>]

\* fcall_proxy: external, a function of its parameters.
FcallProxy(params) ==
    <<Word(SumTo(params, Len(params)) + 1), Word(Len(params))>>

\* FCALL_PARAMS_MAX_SIZE
ParamsMax == 5

\* The words that fcall_param appends: b, or the a words at the address in b.
FcallWords(x) ==
    IF x.a = 1 THEN <<x.b>>
    ELSE [k \in 1 .. x.a |-> Read(x, x.b + (k - 1) * WordBits, WordBits)]

\* What every operation does to c and flag, with or without a memory.
Result(x, i) ==
    CASE i.op \in Precompiles -> [c |-> 0, flag |-> FALSE]
      [] i.op \in PlainOps ->
            LET Pair(r) == [c |-> r[1], flag |-> r[2]] IN Pair(Execute(i.op, x.a, x.b))
      [] OTHER -> [c |-> x.b, flag |-> FALSE]

\* An operation panics.
OpPanics(x, i) ==
    \/ /\ i.op \in Precompiles
       /\ \/ x.b % WordBits # 0
          \/ ~Mapped(x.b, Indirections(i.op) * WordBits)
          \/ \E k \in 1 .. InputWords(i) : ~Mapped(InputAddrs(x, i)[k], WordBits)
          \/ \E k \in DOMAIN Outputs(x, i) : ~Mapped(Outputs(x, i)[k][1], WordBits)
    \/ /\ i.op = "fcall_param"
       /\ \/ Len(x.params) + x.a >= ParamsMax
          \/ x.a > 1 /\ ~Mapped(x.b, x.a * WordBits)
    \/ /\ i.op = "fcall_get"
       /\ x.result = <<>> \/ x.got > Len(x.result)

\* The rest of an operation in the modes Mem and GenerateMemReads.
Effect(x, i) ==
    CASE i.op \in Precompiles ->
            [x EXCEPT !.mem = WriteAll(@, Outputs(x, i))]
      [] i.op = "fcall_param" -> [x EXCEPT !.params = @ \o FcallWords(x)]
      [] i.op = "fcall" ->
            LET res == FcallProxy(x.params)
            IN  [x EXCEPT !.free = res[1], !.result = res, !.got = 1, !.params = <<>>]
      [] i.op = "fcall_get" ->
            [x EXCEPT !.free = IF x.got >= Len(x.result) THEN 0 ELSE x.result[x.got + 1],
                      !.got = @ + 1]
      [] OTHER -> x

\* set_pc
SetPc(x, i) ==
    Word(IF i.setPc THEN x.c + i.jmp1
         ELSE IF x.flag THEN x.pc + i.jmp1 ELSE x.pc + i.jmp2)

\* get_value_to_store
ValueToStore(x, i) == IF i.storeRa THEN Word(x.pc + i.jmp2) ELSE x.c

-----------------------------------------------------------------------------
(* One step with a memory *)

\* The address of source b, and of the store.
AddrB(x, i) == IF i.bSrc = "ind" THEN Word(x.a + i.b) ELSE i.b
WidthB(i) == IF i.bSrc = "ind" THEN i.width ELSE WordBits
AddrStore(x, i) == IF i.store = "ind" THEN Word(x.a + i.to) ELSE i.to
WidthStore(i) == IF i.store = "ind" THEN i.width ELSE WordBits

\* The sources that are not in memory.
PlainA(x, i) ==
    CASE i.aSrc = "c" -> x.c [] i.aSrc = "reg" -> x.regs[i.a]
      [] i.aSrc = "imm" -> i.a [] i.aSrc = "step" -> Word(x.step)

PlainB(x, i) ==
    CASE i.bSrc = "c" -> x.c [] i.bSrc = "reg" -> x.regs[i.b] [] i.bSrc = "imm" -> i.b

FromMem(src) == src \in {"mem", "ind"}

\* The words that go to mem_reads for a load.
LoadReads(x, addr, width) ==
    IF IsFullAligned(addr, width) THEN <<Read(x, addr, width)>>
    ELSE ReadRequired(x, addr, width)

\* The accesses of the instruction are in a section and its operation does not
\* panic: the context after source_a, after source_b and after the operation.
WithA(x, i) ==
    [x EXCEPT !.a = IF FromMem(i.aSrc) THEN Read(x, i.a, WordBits) ELSE PlainA(x, i)]

WithB(x, i) ==
    [x EXCEPT !.b = IF FromMem(i.bSrc) THEN Read(x, AddrB(x, i), WidthB(i))
                    ELSE PlainB(x, i)]

WithC(x, i) ==
    LET Keep(r) == [Effect(x, i) EXCEPT !.c = r.c, !.flag = r.flag] IN Keep(Result(x, i))

\* store_c
Stored(x, i) ==
    CASE i.store = "none" -> x
      [] i.store = "reg" -> [x EXCEPT !.regs[i.to] = ValueToStore(x, i)]
      [] OTHER -> [x EXCEPT !.mem = Write(@, AddrStore(x, i), ValueToStore(x, i),
                                          WidthStore(i))]

\* The instruction makes the emulator panic.
Panics(x, i) ==
    \/ FromMem(i.aSrc) /\ ~Mapped(i.a, WordBits)
    \/ \E xa \in {WithA(x, i)} :
        \/ FromMem(i.bSrc) /\ ~Mapped(AddrB(xa, i), WidthB(i))
        \/ \E xb \in {WithB(xa, i)} :
            \/ OpPanics(xb, i)
            \/ FromMem(i.store) /\ ~Mapped(AddrStore(xb, i), WidthStore(i))

\* set_pc, the end of the program and the step counter.
Advanced(x, i) ==
    [x EXCEPT !.pc = SetPc(x, i), !.end = i.end, !.step = @ + 1]

\* par_step, and the steps of a plain run.
ParStep(x, i) ==
    LET xb == WithB(WithA(x, i), i)
    IN  Advanced(Stored(WithC(xb, i), i), i)

\* A mutated form of StoreReads: a store puts nothing in mem_reads.
StoreReadsNone(x, i) == <<>>

\* The old words that store_c_mem_reads_generate keeps, if not aligned.
StoreReads(x, i) ==
    IF FromMem(i.store) THEN ReadRequired(x, AddrStore(x, i), WidthStore(i)) ELSE <<>>

\* What par_step_my_block appends to mem_reads: source a, source b, the input
\* of a precompile and the old words of the store.
StepReads(x, i) ==
    LET xa == WithA(x, i)
        xb == WithB(xa, i)
        xc == WithC(xb, i)
    IN  (IF FromMem(i.aSrc) THEN LoadReads(x, i.a, WordBits) ELSE <<>>)
        \o (IF FromMem(i.bSrc) THEN LoadReads(xa, AddrB(xa, i), WidthB(i)) ELSE <<>>)
        \o Input(xb, i)
        \o StoreReads(xc, i)

\* par_step_my_block: a step that also records.  A store that is not aligned
\* leaves the old value in b.
ParStepMyBlock(x, i) ==
    LET Kept(xc, y) ==
            IF FromMem(i.store) /\ ~IsFullAligned(AddrStore(xc, i), WidthStore(i))
            THEN [y EXCEPT !.b = Read(xc, AddrStore(xc, i), WidthStore(i))]
            ELSE y
    IN  Kept(WithC(WithB(WithA(x, i), i), i), ParStep(x, i))

\* create_emu_context
Start(mem) ==
    [pc |-> 0, a |-> 0, b |-> 0, c |-> 0, flag |-> FALSE, regs |-> [r \in Regs |-> 0],
     mem |-> [k \in 0 .. MemSize + WordBits - 1 |-> IF k < MemSize THEN mem[k] ELSE 0],
     free |-> 0, params |-> <<>>, result |-> <<>>, got |-> 0, step |-> 0, end |-> FALSE]

-----------------------------------------------------------------------------
(* One step without a memory *)

\* MemHelpers::mem_load and mem_write
Payload(op, addr, step, slot, bytes, words, value) ==
    [op |-> op, addr |-> addr, step |-> step, slot |-> slot, bytes |-> bytes,
     words |-> words, value |-> value]

\* The words a load or a store takes from mem_reads.
LoadCount(addr, width) == IF ~IsFullAligned(addr, width) /\ Crosses(addr, width) THEN 2 ELSE 1
StoreCount(addr, width) == IF IsFullAligned(addr, width) THEN 0 ELSE LoadCount(addr, width)

\* The next n words of mem_reads; an index behind its end panics.
Take(r, n) ==
    [words |-> [k \in 1 .. n |->
                    IF r.index + k <= Len(r.reads) THEN r.reads[r.index + k] ELSE 0],
     short |-> r.index + n > Len(r.reads)]

\* The two raw values of a payload.
Raw(words) == [k \in 1 .. 2 |-> IF k <= Len(words) THEN words[k] ELSE 0]

\* A load from mem_reads: its value and the payload.  A load that crosses words
\* is always announced as a load of a whole word.
Load(r, slot, addr, width) ==
    LET n == LoadCount(addr, width)
        t == Take(r, n)
        val == IF IsFullAligned(addr, width) THEN t.words[1]
               ELSE NotAlignedData(addr, width, t.words)
        bytes == IF n = 2 THEN WordBits ELSE width
    IN  [val |-> val,
         r |-> [r EXCEPT !.index = @ + n, !.panic = @ \/ t.short,
                         !.bus = Append(@, Payload("load", addr, r.step, slot, bytes,
                                                   Raw(t.words), 0))]]

\* source_a_mem_reads_consume_databus
ConsumeA(r, i) ==
    IF ~FromMem(i.aSrc) THEN [r EXCEPT !.a = PlainA(r, i)]
    ELSE LET l == Load(r, 0, i.a, WordBits) IN [l.r EXCEPT !.a = l.val]

\* source_b_mem_reads_consume_databus
ConsumeB(r, i) ==
    IF ~FromMem(i.bSrc) THEN [r EXCEPT !.b = PlainB(r, i)]
    ELSE LET l == Load(r, 1, AddrB(r, i), WidthB(i)) IN [l.r EXCEPT !.b = l.val]

\* A mutated form of ConsumeOp: the input of a precompile is left in mem_reads.
ConsumeOpNoInput(r, i) ==
    LET Keep(res, t) == [r EXCEPT !.c = res.c, !.flag = res.flag,
                                  !.op = <<i.op, r.a, r.b>> \o t.words]
    IN  Keep(Result(r, i), Take(r, InputWords(i)))

\* The operation in the mode ConsumeMemReads, after the input of a precompile
\* has been taken from mem_reads, and its payload for the operation bus.
ConsumeOp(r, i) ==
    LET Keep(res, t) ==
            [r EXCEPT !.index = @ + InputWords(i), !.panic = @ \/ t.short,
                      !.c = res.c, !.flag = res.flag,
                      !.op = <<i.op, r.a, r.b>> \o t.words]
    IN  Keep(Result(r, i), Take(r, InputWords(i)))

\* store_c_mem_reads_consume_databus
ConsumeStore(r, i) ==
    LET addr == AddrStore(r, i)
        width == WidthStore(i)
        n == StoreCount(addr, width)
        t == Take(r, n)
        val == ValueToStore(r, i)
    IN  CASE i.store = "none" -> r
          [] i.store = "reg" -> [r EXCEPT !.regs[i.to] = val]
          [] OTHER ->
             [r EXCEPT !.index = @ + n, !.panic = @ \/ t.short,
                       !.bus = Append(@, Payload("store", addr, r.step, 2, width,
                                                 IF n = 0 THEN <<val, 0>> ELSE Raw(t.words),
                                                 val))]

\* step_emu_trace, and step_emu_traces, which also writes the ROM bus.
ConsumeStep(r, i) ==
    LET ra == ConsumeA([r EXCEPT !.bus = <<>>], i)
        rb == ConsumeB(ra, i)
        rc == ConsumeOp(rb, i)
        rs == ConsumeStore(rc, i)
    IN  [Advanced(rs, i) EXCEPT
            !.left = @ - 1,
            !.romBus = IF r.kind = "collect" THEN <<r.step, r.pc, i.end>> ELSE <<>>]

\* step_slice_full_trace: the same with the consume functions that have no bus.
SliceStep(r, i) == [ConsumeStep(r, i) EXCEPT !.bus = <<>>, !.op = <<>>]

\* The context of a replay of trace t: Emu::from_emu_trace_start.
StartConsume(t, kind) ==
    [kind |-> kind, pc |-> t.start.pc, a |-> 0, b |-> 0, c |-> t.start.c, flag |-> FALSE,
     regs |-> t.start.regs, step |-> t.start.step, end |-> FALSE, reads |-> t.reads,
     index |-> 0, left |-> t.steps, bus |-> <<>>, op |-> <<>>, romBus |-> <<>>,
     panic |-> FALSE]
=============================================================================
