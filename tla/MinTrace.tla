------------------------------ MODULE MinTrace ------------------------------
(***************************************************************************)
(* Recording and replaying an execution (emulator/src/emu.rs, emulator.rs, *)
(* core/src/mem.rs and zisk_ops.rs).                                       *)
(*                                                                         *)
(* compute_minimal_traces runs the whole program once on each of several   *)
(* threads.  The steps are cut in blocks; a thread records the blocks that *)
(* are its own: the state at the start of the block and every word that    *)
(* the block reads from memory.  The blocks of all threads are then dealt  *)
(* into one list.  Later any block can be replayed alone, without a        *)
(* memory: process_emu_trace counts and process_emu_traces collects, and   *)
(* both write what they see to the data bus; the main state machine fills  *)
(* its rows with fill_partial_trace.                                       *)
(*                                                                         *)
(* The same traces can be recorded by the generated assembly code instead *)
(* (core/src/zisk_rom_2_asm.rs), in one process that records all blocks or *)
(* in several that record every n-th (zip); the replay is the same.        *)
(*                                                                         *)
(* The steps themselves are those of Emu and of AsmGen.                    *)
(***************************************************************************)
EXTENDS AsmGen

CONSTANTS
    Programs,       \* the programs: functions from pcs to instructions
    Memories,       \* what the RAM may hold at the start
    MaxSteps,       \* max_steps: programs that need more are left out
    NumSteps,       \* num_steps: steps of a block
    NumThreads      \* num_threads

Words == 0 .. M64

\* The instructions of a program, as ZiskInstBuilder makes them.
IsInst(i) ==
    /\ i \in [aSrc : {"c", "reg", "imm", "step", "mem"}, a : Nat,
              bSrc : {"c", "reg", "imm", "mem", "ind"}, b : Int, width : 1 .. WordBits,
              op : UNION {PlainOps, Precompiles, {"fcall_param", "fcall", "fcall_get"}},
              store : {"none", "reg", "mem", "ind"}, to : Int, storeRa : BOOLEAN,
              setPc : BOOLEAN, jmp1 : Int, jmp2 : Int, end : BOOLEAN]
    /\ i.aSrc = "imm" => i.a \in Words
    /\ i.bSrc = "imm" => i.b \in Words
    /\ i.aSrc = "reg" => i.a \in Regs
    /\ i.bSrc = "reg" => i.b \in Regs
    /\ i.store = "reg" => i.to \in Regs
    /\ i.bSrc = "mem" => i.b \in Nat
    /\ i.store = "mem" => i.to \in Nat

ASSUME MinTraceAssumption ==
    /\ \A program \in Programs : \A at \in DOMAIN program : IsInst(program[at])
    /\ MemSize \in Nat /\ MemSize % WordBits = 0
    /\ MemSize + WordBits <= 2 ^ WordBits
    /\ MaxSteps \in Nat
    /\ NumSteps \in Nat \ {0} /\ NumThreads \in Nat \ {0}
    /\ Memories \subseteq [0 .. MemSize - 1 -> 0 .. 1]

Threads == 0 .. NumThreads - 1

VARIABLES
    phase,      \* "record", "joined", "replay" or "done"
    by,         \* who records: "emulator" or "asm"
    rom,        \* the program
    exec,       \* exec[n + 1]: the context after n steps of a plain run
    emu,        \* emu[t]: the context of thread or process t
    recorded,   \* recorded[t]: the EmuTraces of thread or process t
    traces,     \* vec_traces, the result of compute_minimal_traces
    chunk,      \* the trace being replayed
    replay      \* the context of its replay

vars == <<phase, by, rom, exec, emu, recorded, traces, chunk, replay>>

-----------------------------------------------------------------------------
(* The plain run *)

\* The context cannot make another step: the program has ended, the instruction
\* does not exist or it panics.
Stuck(x) == x.end \/ x.pc \notin DOMAIN rom \/ Panics(x, rom[x.pc])

\* The contexts of the run of rom from mem, MaxSteps + 1 of them; the last ones
\* repeat when the run is over.
Run(mem) ==
    LET after[n \in 0 .. MaxSteps] ==
            IF n = 0 THEN Start(mem)
            ELSE LET x == after[n - 1] IN IF Stuck(x) THEN x ELSE ParStep(x, rom[x.pc])
    IN  after

Init ==
    /\ phase = "record"
    /\ by \in {"emulator", "asm"}
    /\ rom \in Programs
    /\ \E mem \in Memories : \E run \in {Run(mem)} :
        /\ run[MaxSteps].end
        /\ exec = [n \in 1 .. run[MaxSteps].step + 1 |-> run[n - 1]]
        /\ emu = [t \in Threads |->
                    IF by = "emulator" THEN run[0]
                    ELSE ChunkStart(AsmInit(mem, NumSteps, t), NumThreads)]
    /\ recorded = [t \in Threads |-> <<>>]
    /\ traces = <<>>
    /\ chunk = 0
    /\ replay = <<>>

-----------------------------------------------------------------------------
(* compute_minimal_traces *)

\* A mutated form of StartState: c is not kept.
StartStateNoC(x) == [pc |-> x.pc, c |-> 0, step |-> x.step, regs |-> x.regs]

\* EmuTraceStart
StartState(x) == [pc |-> x.pc, c |-> x.c, step |-> x.step, regs |-> x.regs]

NewTrace(x) ==
    [start |-> StartState(x), lastC |-> 0, steps |-> 0, reads |-> <<>>, end |-> FALSE]

IsMyBlock(x, t) == (x.step \div NumSteps) % NumThreads = t

\* What par_step_my_block adds to the last trace of the thread.
Record(ts, x) ==
    LET i == rom[x.pc]
        Added(y) == [ts EXCEPT ![Len(ts)].reads = @ \o StepReads(x, i),
                               ![Len(ts)].lastC = y.c,
                               ![Len(ts)].end = y.end,
                               ![Len(ts)].steps = @ + 1]
    IN  Added(ParStepMyBlock(x, i))

\* One iteration of the loop of par_run on thread t.
ParRun(t) ==
    /\ phase = "record" /\ by = "emulator"
    /\ ~emu[t].end
    /\ LET x == emu[t]
           opened == IF x.step % NumSteps = 0
                     THEN Append(recorded[t], NewTrace(x)) ELSE recorded[t]
       IN  IF IsMyBlock(x, t)
           THEN /\ emu' = [emu EXCEPT ![t] = ParStepMyBlock(x, rom[x.pc])]
                /\ recorded' = [recorded EXCEPT ![t] = Record(opened, x)]
           ELSE /\ emu' = [emu EXCEPT ![t] = ParStep(x, rom[x.pc])]
                /\ UNCHANGED recorded
    /\ UNCHANGED <<phase, by, rom, exec, traces, chunk, replay>>

\* The generated code of one instruction in process t, with chunk_end behind the
\* last instruction and chunk_end_and_start behind the last step of a chunk.
AsmRun(t) ==
    /\ phase = "record" /\ by = "asm"
    /\ ~emu[t].end
    /\ \E y \in {AsmStep(emu[t], rom[emu[t].pc])} :
           IF y.left > 0 /\ ~y.end
           THEN emu' = [emu EXCEPT ![t] = y] /\ UNCHANGED recorded
           ELSE /\ emu' = [emu EXCEPT ![t] =
                            IF y.end THEN ChunkEnd(y) ELSE ChunkStart(ChunkEnd(y), NumThreads)]
                /\ recorded' = [recorded EXCEPT ![t] =
                                    IF y.active THEN Append(@, ChunkTrace(y)) ELSE @]
    /\ UNCHANGED <<phase, by, rom, exec, traces, chunk, replay>>

\* A mutated form of Dealt: the traces of a thread after those of the one before.
DealtByThread(n) ==
    LET i == n - 1
        own == Len(recorded[0])
    IN  IF i < own THEN recorded[0][i + 1] ELSE recorded[NumThreads - 1][i - own + 1]

\* minimal_traces[i % num_threads][i / num_threads]
Dealt(n) == recorded[(n - 1) % NumThreads][(n - 1) \div NumThreads + 1]

\* All threads have ended: put their traces in one list.
Join ==
    /\ phase = "record"
    /\ \A t \in Threads : emu[t].end
    /\ traces' = [n \in 1 .. SumTo([t \in 1 .. NumThreads |-> Len(recorded[t - 1])], NumThreads) |->
                    Dealt(n)]
    /\ phase' = "joined"
    /\ UNCHANGED <<by, rom, exec, emu, recorded, chunk, replay>>

-----------------------------------------------------------------------------
(* Replaying a trace *)

\* process_emu_trace, process_emu_traces or the main state machine starts with
\* trace n.  Every replay has an emulator of its own, so one replay at a time is
\* enough.
StartReplay(n, kind) ==
    /\ phase = "joined"
    /\ chunk' = n
    /\ replay' = StartConsume(traces[n], kind)
    /\ phase' = "replay"
    /\ UNCHANGED <<by, rom, exec, emu, recorded, traces>>

\* The loop of the replay goes on.
Goes(r) == ~r.panic /\ r.left > 0 /\ (r.kind = "collect" => ~r.end)

ReplayStep ==
    /\ phase = "replay"
    /\ Goes(replay)
    /\ replay' = IF replay.kind = "main" THEN SliceStep(replay, rom[replay.pc])
                 ELSE ConsumeStep(replay, rom[replay.pc])
    /\ UNCHANGED <<phase, by, rom, exec, emu, recorded, traces, chunk>>

EndReplay ==
    /\ phase = "replay"
    /\ ~Goes(replay)
    /\ phase' = "done"
    /\ UNCHANGED <<by, rom, exec, emu, recorded, traces, chunk, replay>>

Terminated == phase = "done" /\ UNCHANGED vars

Next ==
    \/ \E t \in Threads : ParRun(t)
    \/ \E t \in Threads : AsmRun(t)
    \/ Join
    \/ \E n \in 1 .. Len(traces), kind \in {"count", "collect", "main"} : StartReplay(n, kind)
    \/ ReplayStep
    \/ EndReplay
    \/ Terminated

Spec == Init /\ [][Next]_vars

-----------------------------------------------------------------------------

TotalSteps == Len(exec) - 1

\* The traces that are dealt from the threads follow each other: trace n starts
\* at step (n - 1) * NumSteps in the state of the plain run, all are full but
\* the last, and only the last one has seen the end of the program.
TracesFollow ==
    phase = "joined" =>
        /\ Len(traces) = (TotalSteps + NumSteps - 1) \div NumSteps
        /\ \A n \in 1 .. Len(traces) :
            LET from == (n - 1) * NumSteps
                to == IF n = Len(traces) THEN TotalSteps ELSE n * NumSteps
            IN  /\ traces[n].start = StartState(exec[from + 1])
                /\ traces[n].steps = to - from
                /\ traces[n].lastC = exec[to + 1].c
                /\ traces[n].end <=> n = Len(traces)

\* The accesses of the instruction that made step n of the plain run, with the
\* words of the memory that each one touches.
TrueAccess(op, addr, step, slot, width, mem, val) ==
    LET r == Required(addr, width)
        first == Bits(mem, r[1], WordBits)
    IN  Payload(op, addr, step, slot, width,
                <<first, IF r[1] = r[2] THEN 0 ELSE Bits(mem, r[2], WordBits)>>, val)

TrueBus(n) ==
    LET x == exec[n]
        i == rom[x.pc]
        xa == WithA(x, i)
        Store(xc) == TrueAccess("store", AddrStore(xa, i), n - 1, 2, WidthStore(i), xc.mem,
                                ValueToStore(xc, i))
    IN  (IF FromMem(i.aSrc)
         THEN <<TrueAccess("load", i.a, n - 1, 0, WordBits, x.mem, 0)>> ELSE <<>>)
        \o (IF FromMem(i.bSrc)
            THEN <<TrueAccess("load", AddrB(xa, i), n - 1, 1, WidthB(i), x.mem, 0)>> ELSE <<>>)
        \o (IF FromMem(i.store)
            THEN <<Store(WithC(WithB(xa, i), i))>> ELSE <<>>)

\* The steps that the process of context s has made.
AsmSteps(s) == IF s.end THEN s.base ELSE s.base + s.size - s.left

\* After every instruction the generated code has the registers, the memory, the
\* result and the parameters of calls that the emulator has there, and it goes
\* on at the same instruction.
AsmFollows ==
    by = "asm" =>
        \A t \in Threads :
            LET s == emu[t]
                x == exec[AsmSteps(s) + 1]
            IN  /\ s.end = x.end /\ s.c = x.c /\ s.regs = x.regs /\ s.params = x.params
                /\ s.end \/ s.pc = x.pc
                /\ \A k \in 0 .. MemSize - 1 : s.mem[k] = x.mem[k]
                /\ WordAt(s, FreeAddr) = x.free

\* Accesses for which the generated code does not record the words that a replay
\* takes: a narrow one that crosses words (one word instead of two) and one of
\* a word at an address that is a multiple of half a word only (two instead of
\* one).
Miscounted(q) ==
    \/ q.bytes < WordBits /\ Crosses(q.addr, q.bytes)
    \/ q.bytes = WordBits /\ q.addr % WordBits = WordBits \div 2

\* The chunk that is replayed has been recorded as the replay expects it.
WellRecorded ==
    \/ by = "emulator"
    \/ LET first == traces[chunk].start.step
       IN  \A n \in first + 1 .. first + traces[chunk].steps :
                \A q \in ToSet(TrueBus(n)) : ~Miscounted(q)

\* A replay, which has neither the memory nor the history of the execution, is
\* after every step in the state of the plain run, whoever has recorded it.
ReplayMatches ==
    phase \in {"replay", "done"} /\ WellRecorded =>
        LET x == exec[replay.step + 1]
        IN  /\ replay.pc = x.pc /\ replay.c = x.c /\ replay.regs = x.regs
            /\ replay.step > traces[chunk].start.step =>
                    replay.flag = x.flag /\ replay.end = x.end

\* A replay never runs out of recorded words and leaves none over, whichever
\* mix of aligned, narrow and crossing accesses and precompiles the block has.
ReadsUsedUp ==
    phase \in {"replay", "done"} /\ WellRecorded =>
        /\ ~replay.panic
        /\ phase = "done" => replay.index = Len(traces[chunk].reads) /\ replay.left = 0

\* The payload tells the memory state machines what the access was.  The word a
\* free input is read as is not in the memory, and a store of an aligned word
\* does not tell what was there before.
Tells(p, q) ==
    /\ p.op = q.op /\ p.addr = q.addr /\ p.step = q.step /\ p.slot = q.slot
    /\ p.bytes = q.bytes /\ p.value = q.value
    /\ \/ p.addr >= FreeAddr
       \/ p.op = "store" /\ p.addr % WordBits = 0 /\ p.bytes = WordBits
       \/ p.words = q.words

\* The replay has made a step, and written to the bus.
Stepped ==
    /\ phase = "replay" /\ replay.kind # "main" /\ WellRecorded
    /\ replay.step > traces[chunk].start.step

\* Accesses that the replay does not describe truly: a word at an address that
\* is a multiple of half a word only, and a narrow load that crosses words.
Misdescribed(q) ==
    \/ q.bytes = WordBits /\ q.addr % WordBits = WordBits \div 2
    \/ q.op = "load" /\ q.bytes < WordBits /\ Crosses(q.addr, q.bytes)

\* Every memory payload of a replayed step is the access that the plain run made
\* there, with the words the memory held, bar the accesses above.
BusTrueBar ==
    Stepped =>
        \A bus \in {TrueBus(replay.step)} :
            /\ Len(replay.bus) = Len(bus)
            /\ \A k \in 1 .. Len(bus) :
                    Misdescribed(bus[k]) \/ Tells(replay.bus[k], bus[k])

\* The operation bus gets the operands of the plain run and, for a precompile,
\* the words its input had in memory at that step.
OperationTrue ==
    Stepped =>
        LET x == exec[replay.step]
            i == rom[x.pc]
            xb == WithB(WithA(x, i), i)
        IN  replay.op = <<i.op, xb.a, xb.b>> \o Input(xb, i)
=============================================================================
