------------------------------ MODULE RiscvRun ------------------------------
(***************************************************************************)
(* A RISC-V program on Zisk: the transpiler makes a ROM of an ELF file,    *)
(* the emulator runs it, MainCounter keeps what the program publishes and  *)
(* the ROM state machine counts the instructions.                          *)
(* The machine that the program was compiled for is RiscvMachine; seen     *)
(* holds its state, taken each time the emulator gets to the first Zisk    *)
(* instruction of a RISC-V instruction.                                    *)
(***************************************************************************)
EXTENDS RomSM, AsmGen

CONSTANTS
    Elfs,       \* ELF files: [sections, entry, code], code as the assembler's input
    PlainCsrs   \* the CSRs a program uses

VARIABLES
    elf, rom,   \* the file and its ROM
    x,          \* the context of the emulator
    publics,    \* MainCounter::publics
    seen,       \* the state of the RISC-V machine
    stats,      \* the counters of the ROM collectors
    hist,       \* the histogram that the generated code keeps
    rows        \* the rows of the main trace with each pc, padding left out

vars == <<elf, rom, x, publics, seen, stats, hist, rows>>

-----------------------------------------------------------------------------
(* The state of the RISC-V machine *)

Cells == OUTPUT_ADDR .. MemSize - 1

\* What a program may rely on when it starts: its data, and the address of the
\* instruction behind the one that calls it, in the last part of the boot code.
Image(e) ==
    [c \in Cells |->
        LET in == {k \in DOMAIN e.sections :
                       /\ ~IsCode(e.sections[k])
                       /\ c - e.sections[k].addr \in 0 .. Len(e.sections[k].data) - 1}
        IN  IF in = {} THEN 0
            ELSE LET s == e.sections[CHOOSE k \in in : TRUE] IN s.data[c - s.addr + 1]]

Return(r) == Max({pc \in DOMAIN r : pc < ROM_ADDR}) - 40

NoHost == [params |-> <<>>, result |-> <<>>, got |-> 0]

Started(e, r) ==
    [pc |-> e.entry, mem |-> Image(e),
     regs |-> [n \in Regs |-> CASE n = 1 -> Return(r) [] n = 10 -> INPUT_ADDR
                                [] n = 11 -> OUTPUT_ADDR [] OTHER -> 0],
     csrs |-> [c \in PlainCsrs |-> 0], host |-> NoHost, status |-> "running",
     published |-> <<>>]

\* The number of results that a program has taken: the first one is in free_input
\* as soon as the call is made.
Snapshot(y) ==
    [pc |-> y.pc, mem |-> [c \in Cells |-> y.mem[c]], regs |-> y.regs,
     csrs |-> [c \in PlainCsrs |-> Bits(y.mem, CsrAt(c), WordBits)],
     host |-> [params |-> y.params, result |-> y.result,
               got |-> IF y.result = <<>> THEN 0 ELSE y.got - 1],
     status |-> "running", published |-> <<>>]

\* The words that the pairs in publics make up.
Published(pairs) ==
    LET Half(n) == pairs[CHOOSE k \in DOMAIN pairs : pairs[k][1] = n][2]
    IN  [k \in 1 .. Len(pairs) \div 2 |-> Half(2 * k - 2) + Half(2 * k - 1) * 2 ^ W32]

-----------------------------------------------------------------------------
(* The run *)

Init ==
    /\ elf \in Elfs
    /\ rom = Elf2Rom(elf.sections, elf.entry)
    /\ x = [Start([c \in 0 .. MemSize - 1 |-> 0]) EXCEPT !.pc = ROM_ENTRY]
    /\ publics = <<>>
    /\ seen = Started(elf, rom)
    /\ stats = NoStats /\ hist = <<>> /\ rows = <<>>

\* MainCounter::process_data: a word of the output is published in two halves.
MainCounter(i, y) ==
    LET index == 2 * PlainA(y, i)
    IN  publics \o << <<index, U(y.c, W32)>>, <<index + 1, y.c \div 2 ^ W32>> >>

\* One step of the emulator.
Step ==
    /\ ~x.end
    /\ HasInstruction(rom, x.pc)
    /\ ~Panics(x, rom[x.pc])
    /\ LET i == rom[x.pc] IN
       /\ x' = ParStep(x, i)
       /\ publics' = IF i.op = "pubout" THEN MainCounter(i, x) ELSE publics
    /\ seen' = CASE x'.end -> [seen EXCEPT !.status = "exited", !.published = Published(publics)]
                 [] ~x'.end /\ x'.pc \in DOMAIN elf.code -> Snapshot(x')
                 [] OTHER -> seen
    /\ stats' = Update(stats, x.step \div ChunkLen, x.pc, x.step, rom[x.pc].end)
    /\ hist' = Counted(hist, TraceSlot(rom, x.pc))
    /\ rows' = Counted(rows, x.pc)
    /\ UNCHANGED <<elf, rom>>

\* The program has ended.
Ended == x.end /\ UNCHANGED vars

Next == Step \/ Ended

Spec == Init /\ [][Next]_vars

-----------------------------------------------------------------------------
(* Properties *)

\* Type invariant: whatever the instructions compute stays within a word, and the
\* transpiler stores in no register that a program does not have, x0 included.
TypeOK ==
    /\ x.pc \in 0 .. M64 /\ {x.a, x.b, x.c} \subseteq 0 .. M64
    /\ x.regs \in [Regs -> 0 .. M64]
    /\ x.mem \in [0 .. MemSize + WordBits - 1 -> {0, 1}]
    /\ \A pc \in DOMAIN rom : rom[pc].store = "reg" => rom[pc].to \in Regs

\* The transpiler leaves no hole in the way of a program: wherever the emulator
\* gets, inside of the code of one RISC-V instruction, behind a jump, in the trap
\* handler or in the code that publishes the output, the transpiler has put an
\* instruction there, and none of its accesses is outside of the memory.
NeverLost == ~x.end => HasInstruction(rom, x.pc) /\ ~Panics(x, rom[x.pc])

\* The machine of the program, with what the emulator has done so far.
KeccakWords(words) == Compute("keccak", words)
RV == INSTANCE RiscvMachine WITH
          XLen <- WordBits, XRegs <- Regs, XInput <- INPUT_ADDR, XOutput <- OUTPUT_ADDR,
          home <- Return(rom), PublicWords <- OutWords, Keccak <- KeccakWords,
          Host <- FcallProxy, code <- elf.code, pc <- seen.pc, regs <- seen.regs,
          mem <- seen.mem, csrs <- seen.csrs, host <- seen.host, status <- seen.status,
          published <- seen.published

\* Decoder, transpiler, start and end code, emulator and MainCounter together do
\* what the RISC-V machine does: every sequence of Zisk steps between two RISC-V
\* instructions is one step of that machine, the program starts with its image in
\* memory, it ends only where that machine ends, and what it publishes then is its
\* output.
RunsRiscv == RV!Spec

\* The rows of the main trace with this pc: the last instance is filled up with
\* copies of the last row.
MainRows(pc) ==
    At(rows, pc) + (IF rom[pc].end THEN (MainLen - (x.step % MainLen)) % MainLen ELSE 0)

\* Every row of the main trace that looks up an instruction finds it as often as
\* the ROM table says, whether the collectors of all the chunks or the histogram
\* of the generated code have counted: no counter is shared by two instructions,
\* the parts that the instructions are split into and the boot code included, the
\* parts of the histogram are where their sizes say, and the padding is counted
\* once.  Left out: a program that ends with the last row of an instance, where
\* the code counts the padding of a whole instance, and for the histogram a
\* program whose last instruction is more than one.
RomTrueBar ==
    (x.end /\ x.step % MainLen # 0) =>
        LET header == AsmHeader(rom, hist, x.step)
        IN  \A pc \in DOMAIN rom :
                /\ ComputeWitness(stats, pc) = MainRows(pc)
                /\ AsmInRange(rom) => ComputeWitnessFromAsm(header, pc) = MainRows(pc)

-----------------------------------------------------------------------------
(* The generated x86 code *)

\* Operations whose code is known to differ from the emulator or not to be built
\* (see AsmDiv, AsmRem, AsmEqual and AsmLessEqual); keccak takes its address from a0.
AsmDeviates(i) ==
    \/ i.op \in {"div", "div_w", "rem", "rem_w", "remu_w", "eq_w", "leu"}
    \/ i.op = "keccak" /\ ~(i.bSrc = "reg" /\ i.b = A0)

\* The state of the generated code in the state of the emulator.
AsmOf(y) ==
    [result |-> Results(<<0, 0, 0, 0>>, y.result),
     mem |-> Write(y.mem, FreeAddr, y.free, WordBits)]
    @@ y @@ [base |-> y.step, size |-> 1, left |-> 1, reads |-> <<>>, active |-> FALSE]

\* The operations that leave a result of more than 32 bits in c, of which only the
\* lower ones are stored.
AsmKeepsAll(op) == op \in {"minu_w", "min_w", "maxu_w", "max_w"}

\* A jump to a pc that the generator does not know, behind a comparison too, takes
\* its label from a table of those of the pcs that are multiples of 4, in order, as
\* if there were one at each of them.
JumpsByTable(i) == i.setPc \/ i.op \in CompareOps
TableJump(pc) ==
    LET base == IF pc >= ROM_ADDR THEN ROM_ADDR ELSE ROM_ENTRY
        labels == {l \in DOMAIN rom : l >= base /\ l % 4 = 0}
    IN  CHOOSE l \in labels : Cardinality({k \in labels : k < l}) = (pc - base) \div 4

\* Wherever the emulator gets to in a program, the code that the generator has
\* emitted for the instruction there does the same as the emulator: the same next
\* pc, found in the table of labels or not, registers and memory, and the same c for
\* the next instruction to use, with its operands in the registers of the processor,
\* in memory or in the text.  Left out: the operations of AsmDeviates, and the boot
\* code, whose immediates are addresses, too wide for an immediate of the scaled
\* words.
AsmAgreesBar ==
    (~x.end /\ x.pc >= ROM_ADDR /\ HasInstruction(rom, x.pc)) =>
        AsmDeviates(rom[x.pc]) \/
        \A i \in {rom[x.pc]} :
        \A emu \in {ParStep(x, i)}, asm \in {AsmStep(AsmOf(x), i)} :
            /\ asm.pc = emu.pc /\ asm.regs = emu.regs
            /\ JumpsByTable(i) => TableJump(asm.pc) = emu.pc
            /\ asm.mem = Write(emu.mem, FreeAddr, emu.free, WordBits)
            /\ IF AsmKeepsAll(i.op) THEN U(asm.c, W32) = U(emu.c, W32) ELSE asm.c = emu.c
=============================================================================
