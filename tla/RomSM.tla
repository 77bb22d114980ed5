-------------------------------- MODULE RomSM --------------------------------
(***************************************************************************)
(* The ROM state machine (state-machines/rom): the table of all the        *)
(* instructions of a ROM, with the number of rows of the main trace that   *)
(* look each of them up.  There are two ways to count: the ROM collectors, *)
(* one for each chunk, on the ROM bus of the replay, which share their     *)
(* counters; and a run of the generated code that keeps a histogram in     *)
(* the memory that it shares with the prover.                              *)
(***************************************************************************)
EXTENDS Riscv2Zisk

CONSTANTS
    MainLen,    \* rows of an instance of the main trace, 2^22 in the code
    ChunkLen    \* steps of a chunk

-----------------------------------------------------------------------------
(* The size of a ROM *)

\* The highest pcs of the two parts of a ROM that are multiples of 4.
MaxBiosPc(rom) == Max({pc \in DOMAIN rom : pc < ROM_ADDR /\ pc % 4 = 0})
MaxProgramPc(rom) == Max({pc \in DOMAIN rom : pc >= ROM_ADDR /\ pc % 4 = 0})

-----------------------------------------------------------------------------
(* The collectors *)

\* The counters that the collectors share, and what each of them keeps.
BiosIndex(pc) == (pc - ROM_ENTRY) \div 4
ProgIndex(pc) == pc - ROM_ADDR
NoStats == [bios |-> <<>>, prog |-> <<>>, chunks |-> <<>>]
At(count, k) == IF k \in DOMAIN count THEN count[k] ELSE 0
Counted(count, k) == (k :> At(count, k) + 1) @@ count

\* A mutated form of Update: the steps are the number of the last one.
UpdateLastStep(stats, chunk, pc, step, end) ==
    LET own == IF chunk \in DOMAIN stats.chunks THEN stats.chunks[chunk]
               ELSE [endPc |-> 0, steps |-> 0]
        new == IF end THEN [endPc |-> pc, steps |-> step] ELSE own
    IN  [bios |-> IF pc < ROM_ADDR THEN Counted(stats.bios, BiosIndex(pc)) ELSE stats.bios,
         prog |-> IF pc < ROM_ADDR THEN stats.prog ELSE Counted(stats.prog, ProgIndex(pc)),
         chunks |-> (chunk :> new) @@ stats.chunks]

\* CounterStats::update, by the collector of a chunk.
Update(stats, chunk, pc, step, end) ==
    LET own == IF chunk \in DOMAIN stats.chunks THEN stats.chunks[chunk]
               ELSE [endPc |-> 0, steps |-> 0]
        new == IF end THEN [endPc |-> pc, steps |-> step + 1] ELSE own
    IN  [bios |-> IF pc < ROM_ADDR THEN Counted(stats.bios, BiosIndex(pc)) ELSE stats.bios,
         prog |-> IF pc < ROM_ADDR THEN stats.prog ELSE Counted(stats.prog, ProgIndex(pc)),
         chunks |-> (chunk :> new) @@ stats.chunks]

\* add_assign: the counters are shared; only a collector that saw the end has the
\* other two.
AddAssign(sum, own) ==
    [endPc |-> IF own.endPc # 0 THEN own.endPc ELSE sum.endPc,
     steps |-> IF own.steps # 0 THEN own.steps ELSE sum.steps]

Merged(stats) ==
    FoldLeft(AddAssign, [endPc |-> 0, steps |-> 0],
             [k \in 1 .. Cardinality(DOMAIN stats.chunks) |-> stats.chunks[k - 1]])

\* compute_witness: the multiplicity of an instruction.  The last one gets the
\* rows that fill up the last instance of the main trace, and a whole instance
\* more if there are none.
ComputeWitness(stats, pc) ==
    LET all == Merged(stats)
        n == IF pc < ROM_ADDR THEN At(stats.bios, BiosIndex(pc)) ELSE At(stats.prog, ProgIndex(pc))
    IN  IF n # 0 /\ pc = all.endPc THEN n + MainLen - (all.steps % MainLen) ELSE n

-----------------------------------------------------------------------------
(* The histogram *)

\* get_rom_histogram_trace_address, in words from the size of the first part.
TraceSlot(rom, pc) ==
    IF pc < ROM_ADDR THEN 1 + (pc - ROM_ENTRY) \div 4
    ELSE 1 + (MaxBiosPc(rom) - ROM_ENTRY) \div 4 + 1 + 1 + pc - ROM_ADDR

\* The header that the C side writes at the end: the number of steps and the sizes
\* of the two parts, the second one behind the first part.
AsmHeader(rom, hist, step) ==
    LET bios == (MaxBiosPc(rom) - ROM_ENTRY) \div 4 + 1
    IN  [steps |-> step,
         words |-> (0 :> bios) @@ (bios + 1 :> MaxProgramPc(rom) - ROM_ADDR + 1) @@ hist]

\* AsmRHData::from_ptr: the two parts, as the sizes say.
FromPtr(words) ==
    LET bios == words[0]
        prog == words[bios + 1]
    IN  [bios |-> [k \in 0 .. bios - 1 |-> At(words, 1 + k)],
         prog |-> [k \in 0 .. prog - 1 |-> At(words, bios + 2 + k)]]

\* compute_witness_from_asm; the index of an instruction behind the last multiple
\* of 4 is out of range.
AsmInRange(rom) == \A pc \in DOMAIN rom : pc <= MaxProgramPc(rom)
ComputeWitnessFromAsm(header, pc) ==
    LET data == FromPtr(header.words)
        n == IF pc < ROM_ADDR THEN data.bios[BiosIndex(pc)] ELSE data.prog[ProgIndex(pc)]
    IN  IF n # 0 /\ pc = ROM_EXIT THEN n + MainLen - (header.steps % MainLen) ELSE n
=============================================================================
