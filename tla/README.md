# A TLA+ verification of the ZisK prover's witness pipeline

ZisK is a zkVM: it executes a RISC-V program (transpiled to its own
instructions, the Zisk ROM), and turns the execution into the rows of a set of
AIRs, which an external proof manager proves.  This directory models the way
from the program to the rows: how RISC-V code becomes Zisk code and x86 code,
how an execution is recorded, replayed in pieces, counted, cut in instances,
collected, completed, and how the rows of the machines add up.  It is the part
where the code is concurrent, where two processes share memory, and where
pieces of code written independently have to compute or count the same things.

All paths below are relative to `src/`.

## 1. The system

| Component | State it keeps | Operations |
|---|---|---|
| Transpiler (`riscv/src`, `core/src/riscv2zisk*`, `elf2rom.rs`) | ROM under construction | decoding, translation per instruction, start, end and trap code, copy of the data |
| Assembly generator (`core/src/zisk_rom_2_asm.rs`) | where a, b and c are kept at the moment | x86 code per source, operation, store and jump |
| Emulator (`emulator/src`) | context: pc, a, b, c, flag, registers, memory, free input; `EmuTrace`s | `par_run` records blocks on several threads; `process_emu_trace` (count), `process_emu_traces` (collect) and `step_slice_full_trace` (main rows) replay a block from its recorded reads |
| Memory (`core/src/mem.rs`) | sections of bytes | `read`, `read_required`, `write`, alignment predicates |
| Operations (`core/src/zisk_ops.rs`) | none, but for free-input calls and precompiles | one function per opcode, in three emulation modes |
| Assembly runner (`emulator-asm`) | two processes, three semaphores, two shared memories, a thread pool | `run`, `run_and_count`; the child's `_chunk_done`, `_realloc_trace` |
| Executor (`executor/src`) | traces, counters, plans, instances | execute, count, plan, configure, collect, witness |
| Data bus (`data-bus`) | devices by bus id, a queue of derived payloads | `write_to_bus`, `into_devices` |
| Planning (`common/src/planner_helpers.rs`) | counters per chunk | `plan`: check points and skips per instance; `CollectSkipper::should_skip` |
| Memory machines (`state-machines/mem/src`) | counters per address and chunk, segments, check points, rows | merge of the counters, `MemModulePlanner`, collectors, `MemSM::compute_witness`, `MemAlignSM` |
| Main machine (`state-machines/main/src`) | rows of a segment, register steps, range counters | `compute_witness` fills traces in parallel, then completes them |
| Binary and arithmetic machines (`state-machines/binary`, `arith`) | rows, table multiplicities | counters, planners, collectors, `compute_witness` |
| ROM machine (`state-machines/rom`) | counters per instruction, or the histogram of a second assembly run | `compute_witness`, `compute_witness_from_asm` |
| Precompiles (`precompiles`) | rows and table multiplicities | as the other machines |

How they interact.  The executor runs the program once (emulator threads or
the assembly child) and gets a list of minimal traces, one per *chunk* of
steps.  Every chunk is replayed once per purpose, on a pool: a replay writes
memory and operation payloads to a data bus, to which counters (count phase)
or collectors (collect phase) are connected.  The planners see only counters
and decide which instance takes which part of which chunk; the collectors have
to find exactly that part again when the chunk is replayed.  Each instance then
computes its rows, all instances independently.  A row *proves* an operation
that another row *assumes*, and looks up tables; what is assumed and looked up
must be what is proved and counted, over all instances together.

What is hard here:

* **concurrency** - child and parent process with semaphores and shared memory,
  pool tasks that end in any order, chunks of a segment filled in parallel;
* **failure** - a child that crashes, that is slow, that enlarges its memory
  while the parent reads it;
* **agreement** - a planner counts from chunks what a state machine later
  counts from steps; a recorder and three consumers decide on their own how
  many words an access takes; a skip computed by one component is executed by
  another; an emulator and a code generator implement the same operations;
* **boundaries** - instances exactly full, segments that end between the
  internal reads of one gap, accesses across words, ranges exactly at a limit.

What makes each component correct is in the properties of section 3; every
place where the code is exposed is listed with its line under `hazards` in
`PROJECT.json`.

## 2. The modules

| Module | Models | State and actions against the code |
|---|---|---|
| `RegularPlan` | `plan()`, `CollectSkipper`, the collectors | variables are the locals of `plan()`; `NextChunk`, `TakeCheckpoint`, `EndChunk`, `Finish` are its loops; `Collect(p, c)` is one `process_data` of instance p's collector for chunk c |
| `PlanShares` | nothing: the arithmetic definition of what `plan()` should return | reference for `PlanIsShares`; the planner of `OpsBus` |
| `ChunkDelivery` | nothing in the repository: the atomic delivery of chunks and counts | the abstract specification of the assembly runner |
| `AsmRunner` | parent, child and counting pool | `ppc` and `cpc` are the program counters; one action per blocking call or per access to something shared; a *mode* selects `run_and_count` or `run`, sizes and where the child may die |
| `MemCursor` | `MemCountersCursor` | `GroupBox` and `GroupEnd` are the loop that cuts the groups, `MergeK(g)` an iteration of the merge of group g (groups interleave, as the tasks of the pool do), `NextLevel` and `MergeEnd` the recursive call, which is a tail call, and its end; `GetNext` is `get_next` |
| `MemPlan` | RAM: `MemModulePlanner`, `MemModuleCollector`, `MemModuleInstance`, `MemSM` | planner fields as variables, one action per loop iteration; `Witness(seg)` is the path of a segment from its collectors to its rows |
| `MemAlignSM` | the rows of `MemAlignSM`, its program, `MemHelpers`; the constraints of `mem_align.pil` | operators: the rows of a read or write over one or two words |
| `MemAlign` | the alignment from the memory bus to the tables: `MemCounters`, `MemAlignPlanner`, collectors, instances | one action per phase and instance |
| `ZiskOps` | every operation of `zisk_ops.rs` on two operands | operators on words of `WordBits` bits |
| `Emu` | one step of the emulator, recording or consuming; `mem.rs`; precompiles and free-input calls | operators from a context to the next one |
| `AsmGen` | the x86 code the generator emits, by its effect | operators from the state of the processor to the next one |
| `MinTrace` | `compute_minimal_traces`, the generated recorder, the replays | `ParRun(t)` is an iteration of `par_run`, `AsmRun` one of the generated code; `Join` deals the blocks; `StartReplay`, `ReplayStep`, `EndReplay` are one replay of one of three kinds |
| `MainRegs` | register accesses of a main segment | `FillRow(k)` is a row of trace k; `CompleteTrace`, `LastChunk`, `AirValues` are the completion |
| `RiscvDecoder` | `riscv_interpreter`, `Rvd` | from 32 bits to an instruction |
| `Riscv2Zisk` | the transpiler, `elf2rom`, `ZiskInstBuilder` | from ELF sections to a ROM |
| `RiscvMachine` | nothing in the repository: RV64IMA and the environment of a guest | the abstract specification of transpiler and emulator together |
| `RomSM` | the ROM machine's two ways of counting, the histogram's memory layout | operators on the counters |
| `RiscvRun` | a program from its ELF file to its published output | `Step` is a step of the emulator together with the counters it feeds |
| `BinarySM`, `ArithSM` | the rows of the binary and arithmetic machines, their lookups, table rows and constraints | operators: from an operation to a row and what it counts |
| `OpsBus` | data bus, counters, planners, executor, collectors, witness and tables of those machines | `Count`, `Plan`, `Collect`, `ComputeWitness` and the tables' turn |
| `Sums` | nothing: the sum of the first values of a function of numbers | a recursive function, so that it can be proved about; used for counts, and for the value of bits in `ZiskOps` and `Emu` |
| `*Proofs` | proofs about the module of that name | see section 5 |
| `MC*` | nothing: constants for TLC | |

`ZiskOps` carries `Emu` and `BinarySM`/`ArithSM`, so the machines are measured
against the same operations that the emulator executes; `Emu` carries `AsmGen`,
`MinTrace` and `Riscv2Zisk`; `RiscvRun` composes decoder, transpiler, emulator,
generator and ROM machine.

Definitions whose comment starts with "A mutated form of" are not part of a
specification: they state how a plausible error would look, and show that the
property concerned notices it.

Abstractions worth knowing:

* Words are scaled: `WordBits` is 8 in the runs, a u32 has four bits, a u16 two
  and a u8 one.  Widths stay in proportion, so wrapping, sign extension,
  shift masks, crossing and half-word accesses all exist.  Addresses and the
  upper immediates are scaled with them (`UpperShift`, the layout constants of
  `Riscv2Zisk`); instruction words keep their 32 bits.
* `AsmRunner`: sizes are in blocks and what a chunk contains is its number.
  Reading a chunk that is not finished, or beyond the mapping, is visible as
  such (`segv`, or a task whose data is not its chunk).
* `MemPlan`: a write writes its own step, so values can be compared; the order
  of a chunk's accesses on the bus is that of their steps.
* `MemAlignSM`: bytes are numbers in eight positions; field elements are not
  reduced, since nothing here comes near the prime.
* What a precompile computes and what the free-input functions answer is
  external: some function of the words they read.
* `AsmGen`: an instruction sequence is its effect on the registers it leaves
  for others; the text of the assembly is not modelled.  Operations whose text
  would not assemble are `Unbuilt`.
* `MainRegs`: registers do not interact, so there is one.

## 3. The runs

Passing:

| Run | Bounds | What it shows |
|---|---|---|
| `plan` | 3 chunks, up to 4 operations each, instances of 3 rows: chunks split over two and three instances, instances over several chunks, empty chunks | `CollectedOnce`: every counted operation is an input of exactly one instance; `PlanIsShares`: the loop equals the arithmetic definition; `InstancesFull`: no instance is overfull or empty, all but the last are full |
| `asm` | `run_and_count` with 4 chunks and 2 workers, `run` with 5 chunks and a first size that forces enlargements; the spawn may fail and the child die in every state | `ReadsFinishedChunks`, `CountsComplete` (every chunk counted once, in order), `PanicMeansDead` (no panic about a living child), `TraceFits`, `OutputMappable`, `DeliversChunks` (the run implements `ChunkDelivery`), `TerminatesBar` |
| `mem_cursor` | 6 chunks, two addresses, arity 4, at least 6 pairs: two levels of merging | `LevelInvariant` (order within and between boxes, nothing lost), `ReadInOrder`, `RecursionShrinks` |
| `mem_plan` | 5 chunks of 3 steps, limit of 2 chunks, 3 addresses with the first word of RAM among them, every execution of up to 4 accesses, segments of 3 rows: gaps need up to two internal reads and every position of a boundary occurs | `NoPanic`, `RowsChainBarFirst` (rows satisfy the constraints of `mem.pil` on a row and its predecessor), `RowedOnceBarMiscount` and `SegmentsMeetBarMiscount` |
| `mem_align` | every width at every offset, reads and writes, with and without something in the second word; mixes of up to 3 accesses of 1, 2, 3 and 5 rows over one and two chunks, instances of 6 rows | `RowsHoldBar` (constraints of `mem_align.pil`), `OpsProvedBar` (each unaligned access proved once with the value of the main machine, whatever the cuts), `MemoryBalance` (the memory gets exactly the aligned accesses that are assumed, and as many as counted), `TablesBalance` |
| `min_trace` | all programs of 3 instructions out of a menu, blocks of 3 steps on 2 threads or processes, runs of up to 9 steps with loops | `TracesFollow`, `AsmFollows` (generated code and emulator in step), `ReplayMatches`, `ReadsUsedUp`, `OperationTrue`, `BusTrueBar` |
| `main_regs` | 3 traces of 2 rows, every set of accesses in two of the slots, first and second segment, short last traces, every interleaving of the traces | `PreviousTrue`, `ChecksExact`, `RangesFit` |
| `riscv` | programs with every RV64IMA instruction on operands at the borders, registers equal and different, all offsets of loads and stores, data sections that end inside a word | `RunsRiscv`: the run implements `RiscvMachine`; `NeverLost`: no jump leaves the ROM; `AsmAgreesBar`: the generated code does the same; `RomTrueBar`: both counts of the ROM equal the rows of the main trace |
| `ops` | every operation that the transpiler emits on 13 x 13 operands, and mixes of machines over up to three chunks and several instances | `OpsProvedBar`: proved = assumed, as bags; `TablesBalance`: counted = looked up, for every table, the arithmetic one with its range columns; `RowsHold`: the equations of additions, products and divisions |

Runs that end with a violation, each a finding in `PROJECT.json`:

| Run | What TLC shows |
|---|---|
| `asm_realloc` | the parent reads a chunk beyond its mapping after the child has enlarged the trace (`ReadsInsideMapping`) |
| `mem_align_two` | a read over two words is composed of the wrong bytes of the second one (`RowsHold`) |
| `riscv_csr` | a CSR instruction that becomes several Zisk instructions jumps to a pc between them (`NeverLost`) |

### Known deviations

A property whose name ends in `Bar` leaves out cases in which the code is known
to differ, and says which; some bounds do the same.  The passing run then shows
that nothing else goes wrong.  Left out are:

* `TerminatesBar`: a child lost before its only post of `semin` while the
  parent no longer waits for chunks (`Stranded`): that wait has no time limit.
* `Timely = TRUE`: chunks are posted within the time limit.  With `FALSE`,
  `CountsComplete` fails: after a timeout the parent breaks on `exit_code` 0
  without draining the posts (`asm_min_traces_runner_linux.rs:303`).
* `ChunkSizes`: a chunk of the largest size would overrun by the terms that
  `MAX_CHUNK_TRACE_SIZE` (`main.c:67`) loses without parentheses.
* `MinTotal`: `target_size` of `merge_sorted_boxes` rounded down to zero makes
  the recursion go on without end (`mem_counters_cursor.rs:85`).
* `MiscountedSplit` of `MemPlan`: a segment boundary behind an internal read of
  zero steps (`mem_module_instance.rs:86`) or one that lands on the last step
  of a chunk; without it `RowedOnce` fails.
* `RowsChainBarFirst` of `MemPlan`: an execution whose first row is of the first
  word of RAM.  Without a previous segment `MemModuleInstance` starts from
  `min_addr` (`mem_module_instance.rs:144-145`), so there `addr_changes` is 0
  (`mem_sm.rs:144`), against `mem.pil:318`; with 1 the increment would be 0,
  which the range check of `mem.pil:320` refuses.  `FirstRowChanges` as an
  invariant of `mem_plan` fails with an execution of one access of that word.
  All other constraints are required of such executions too.
* `UnplannedReads` of `MemPlan`: the first access of the first word comes so
  late that `MemSM`, which takes it for a second one after step 0, puts
  internal reads before it; the planner counts none before its first entry.
  The chunk of step 0 is computed below zero (`mem_helpers.rs:21`): the model
  has the wrapped distances of a release build, a debug build panics there.
* `TwoWordBar` of `MemAlign`: reads with something in the second word, writes
  of something other than zero to it.
* `Misdescribed` of `MinTrace`: an 8-byte access at an address 4 modulo 8 goes
  to the bus as if it were aligned (`mem.rs:699`), a narrow load across two
  words with eight bytes.  `WellRecorded`: of a narrow access across two words
  the generated code records one, and of the 8-byte access above two, where a
  replay takes the other number; blocks recorded by the generated code with
  such an access are followed (`AsmFollows`) but not replayed.
* `AsmDeviates` of `RiscvRun`: `div` jumps on the wrong condition
  (`zisk_rom_2_asm.rs:3245`), and `rem`, `div_w`, `rem_w`, `remu_w`, `eq_w` and
  `leu` name labels or instructions that do not exist; keccak takes its address
  from a0.  min and max of words leave more than 32 bits in c, of which only 32
  are stored (`AsmKeepsAll`).
* `RomTrueBar`: a program that ends with the last row of an instance, where a
  whole instance of padding is added (`rom.rs:125`), and for the histogram a
  program whose last instruction is split.
* `NarrowOverflow` of `OpsBus`, and the programs of `riscv`: `div_w` of the
  least i32 and -1, whose result `op_div_w` does not sign extend.
* The programs of `riscv` use CSRs that do not overlap (the code puts them one
  byte apart), `sc` after `lr`, no zero words in the code, and an `ecall` with
  its return address in x1; `jalr` clears two bits of its target.
* The works of `ops` leave out the comparisons `leu`, `le`, `leu_w`, `le_w`,
  `ltu_w`, `lt_w` and `eq_w`, which no instruction is translated to and for
  which the binary machine panics or compares the last byte only.

Deadlock is checked in all passing runs; each specification ends in an explicit
stuttering action that is enabled only when the work is done.

### Bounds

Constants are small versions of the code's: `Arity` 4 for 16, `DiffChunks` 2
for 16, `ChunkSteps` 3 for 2^20, words of eight bits for 64.  What matters is
that the cases differ: two levels of merging need more boxes than the arity, a
gap must need more internal reads than fit in what is left of a segment, a word
must be able to start at half a word, an instance must be left with rows that
no access fits into.  `MemPlanAssumption` keeps two relations of the real sizes
that small constants could break: a segment has at least as many rows as the
longest gap has internal reads, and a chunk at least as many steps.  With
four chunks or five, a gap can take two internal reads, the least number that a
segment boundary can divide, with and without one of zero steps among them.  `MaxSteps`
leaves out programs of `MinTrace` that do not end; `par_run` panics on them.
The columns of the two binary machines (`RowSize`, 5 and 3 for 51 and 11) make
the planner choose both ways; with the real numbers, and its cost taken from
the rows instead of the instances (`binary_planner.rs:32`), it takes the
machine of the additions whenever there is one.

### Fairness

Only `AsmRunner` has liveness.  `FairSpec` assumes weak fairness of the child,
of the parent, of the timeout and of the pool: the operating system schedules
processes and threads, and `sem_timedwait` returns.  A crash is never forced.

### Refinement

`DeliversChunks` is the specification of `ChunkDelivery` under a mapping that
forgets the processes: the chunks made are those posted, the chunks counted
those whose results have arrived, the child is lost when it is dead or its
spawn has failed, and the outcome is read off the parent's program counter.
Every step of the two processes is then the making of a chunk, the arrival of a
count, the loss of the child, a return, a failure, or no step at all.  A return
requires all chunks and all counts, a failure a lost child; a fault (the parent
reads beyond its mapping, see `asm_realloc`) is allowed once there is a chunk to
count and while the outcome is pending.  It assumes `Timely`.

`RunsRiscv` is `RV!Spec`, the specification of `RiscvMachine` under a
refinement mapping: `seen` is the state of the emulator each time it gets to
the first Zisk instruction of a RISC-V instruction, so a step of the abstract
machine is the whole sequence made for one instruction.  It contains the
initial state: the memory image, registers and return address a guest is
started with, which the start code has to establish.  Both specifications are
without fairness; that a program gets on is `NeverLost` together with the
absence of deadlock.

## 4. Findings

See `findings` in `PROJECT.json` for the lines and the quoted comments.

## 5. Proofs

The theorems hold for every value of the constants that satisfies the named
assumption of the module; `theorems` in `PROJECT.json` lists them.  Each rests
on an inductive invariant `IInv` (theorem `Invariance`, or `RecordingInvariant`
for `MinTrace`), with one lemma or step per action, from which the properties
of the runs follow.

**Planning** (`RegularPlanProofs`, `PlanSharesProofs`; `ConstantsAssumption`:
the constants are natural numbers).

* `TypeCorrect`, and `ExactlyOnce`: `CollectedOnce` always holds.
  `CollectedOnce` speaks of the end and is far from inductive.  `IInv` adds,
  for the plan, that the entries of a chunk in successive scopes are disjoint
  and ordered (`EntriesOrdered`), stay within what has been dealt
  (`EntriesPlanned`) and cover it (`AllCovered`), that `HashMap::insert` never
  overwrites an entry (`FreshInScope`, which is where `remaining_size > 0`
  matters), and, for the collectors, that a collector holds consecutive
  operations starting at its skip and has seen exactly what it skipped and took
  until it is full (`CollectorOK`).  Full collectors then hold exactly their
  entry (`FullCollector`), and cover and disjointness give existence and
  uniqueness.
* `LoopIsShares`: the loop computes the shares of `PlanShares`.  All operations
  are put on one line, chunk after chunk; `LineInv` says that what has been
  dealt is a prefix of the line, that closed instance p is the part of it from
  (p-1)\*Size to p\*Size, and that the open scope is what follows.
* `RowsFilled` (`InstancesFull`) adds up the parts of an instance over the
  chunks.

**Assembly runner** (`AsmRunnerProofs`; `AsmRunnerAssumption`: a chunk is at
most as large as the room that `Threshold` leaves, and the initial trace has
room for one).

* For every number of chunks and workers, and wherever the child dies:
  `FinishedChunksOnly`, `TraceAlwaysFits`, `AlwaysMappable`, `TypeCorrect`, the
  action property `NamedUntilMapped` (no step takes the name of the output
  before the parent has the whole trace), and `AlwaysPrefix`: what is returned
  has the whole trace and the counts of a prefix of the chunks.
* With `Timely`: `AllChunksCounted` (`CountsComplete`), `PanicIsTrue`
  (`PanicMeansDead`) and the refinement `ImplementsDelivery`
  (`DeliversChunks`).  Without it the first one is false (see *Known
  deviations*), which is why `AlwaysPrefix` is stated on its own.
* With `LargeEnough` (the initial trace has room for all chunks):
  `NoFaultWhenLarge`, the parent never reads beyond its mapping.  The
  enlargement that `asm_realloc` shows is therefore the only way to.

`IInv` relates the child's position to the chunks written and posted
(`ChildProgress`), the posts to those waiting, being read and read
(`PostsInStep`), the two single posts of `semin` and `semout` to both program
counters (`Handshake`, `OutputNamed`), and the tasks of the pool to the chunks
read, each of which has one task, waiting, running or collected (`Counting`).

**Main segment** (`MainRegsProofs`; `MainRegsAssumption`, which includes that a
segment has more than one row: in a segment of one row step 0 would be its
last).  `RowsTellPrevious` (`PreviousTrue`), `RangesAlwaysFit` (`RangesFit`),
`RangesCountedOnce` (`ChecksExact`) and `TypeCorrect`, for every number and
length of the traces, every set of accesses and every interleaving.  `IInv`
says that each trace knows the first and last access of the part it has filled
(`TracesTrue`), that a filled row tells the access before it but for the first
access of a trace that is not completed (`PrevTrue`), and that `reg_steps` is
the last access before the trace completed next (`StepsTrue`).  `Counters` is
a second invariant on top of it: each counter is the number of accesses with
its difference.

**Merge of the counters** (`MemCursorProofs`; `MemCursorAssumption`).
`LevelsOrdered` (`LevelInvariant`), `CursorInOrder` (`ReadInOrder`) and
`TypeCorrect`.  `IInv` says that the groups are consecutive runs of boxes that
leave none out, and that what a group has merged is ordered, is exactly what
its cursors have passed, and comes before everything that is left.
`CallsShrink` (`RecursionShrinks`) needs `EnoughPairs`: an arity of at least
four (16 in the code) and as many pairs as chunks.  Every closed group holds
more than the target, arity times q pairs, where q is the number of pairs
divided by that of the boxes, rounded down; so c closed groups hold more than
4cq pairs, of which there are fewer than n(q+1) for n boxes, and c+1 groups are
fewer than n.  With fewer pairs than boxes q is 0 and the argument, and the
code, fail (see `MinTotal` above).

**Memory planner** (`MemPlanProofs`; `MemPlanAssumption`).

* `GapsAgree`: the number of internal reads that the planner computes from two
  chunks is the number that `MemSM` computes from the two steps, and after the
  full ones a distance in 1..`StepMaxDiff` is left.  Both round a different
  distance: that of two steps is below that of their chunks by at most two
  chunks less two steps, which is less than the limit.  So the quotients differ
  by one at most, and the read of zero steps makes up for it.
* `PlannedGaps`: in every state of the planner, for whichever accesses of the
  chunk before and of the current one are next to each other.  The invariant
  shows that the planner measures from the right chunk: the reference is the
  entry before, until the rows of the current one start.
* `CheckPointsOrdered`: the assertion on the address in `add_rows` of a check
  point never fails (the half of `NoPanic` that is about the planner), and
  `TypeCorrect`.
* `RowsAlwaysChain` (`RowsChainBarFirst`): the rows of every segment satisfy the
  constraints of `mem.pil`, from the previous segment's values on: the
  increment and its range, a change of address only where the row says so, a
  read that keeps the value or finds zero at a new address, no silent write;
  the segment passes on the values of its last row; the first one starts from
  the start of the memory, and its first row changes the address unless it is of
  the first word.  That a read finds zero at a new address (`FirstReadIsZero`)
  needs that the operation before it in the rows is the one before it in the
  whole execution, of another address, so that no write precedes it.
* `PanicFree` (`NoPanic`), as `Spec /\ AddressesClose => []NoPanic`: no
  assertion or panic from the planner to the rows fires.  The hypothesis is
  about the execution: every accessed address is within `StepMaxDiff + 1` words
  of the start of the memory or of a lower accessed address.  It is needed,
  since the increment of an address has a range check of that size too
  (`mem_sm.rs:289-300` panics otherwise) and the RAM has 2^26 words for a limit
  of 2^24; nothing in the code keeps a guest from leaving more words between
  two accesses.  In the instance of `mem_plan` every execution satisfies it.

  The two rest on `RowsInvariance`.  Order the accesses by address and step,
  and cut this order in two places.  The planner never sees an access, only
  counters per chunk and address, yet the check points of a segment always
  *fit* two cuts (`SegFits`, `AllFit`; `Coverage` for the segment still open):
  in each chunk, what it is told to skip is what is before the lower cut, and
  what it is told to count ends at the upper one.  So a collector, which filters
  the accesses of its chunk in the order of the steps, collects those
  between the cuts, and the first one also the last access before the segment
  (`FilterTracks`, `CollectedIs`).  Sorted together they are accesses next to
  each other in the execution, so in `compute_witness` every next operation is
  of a later address or continues the value of the loop (`Ready`,
  `WitnessOpGood`); the distance that is left after the internal reads has a
  range check because of `GapsAgree`; and the rows an operation adds may follow
  those before them (`Chained`, `ChainedConcat`, `ReadsGood`).

**Recording and replaying** (`MinTraceProofs`; `WordAssumption`: a word has a
positive number of bits that eight divides, and what exponentiation is up to
two words, of which the provers know nothing; `MinTraceAssumption`: instructions
are as `ZiskInstBuilder` makes them (`IsInst`), the RAM has whole words and is
smaller than the addresses a word can hold).  For every program, memory, block
length, number of threads and interleaving of the threads, and every length of
a word:

* `RecordingFollows` (`TracesFollow`): the dealt blocks are the blocks of the
  plain run in order;
* `EmulatorReplayMatches` (`ReplayMatches`), `EmulatorReadsUsedUp`
  (`ReadsUsedUp`), `EmulatorOperationTrue` (`OperationTrue`) and
  `EmulatorBusTrue` (`BusTrueBar`): a replay of any block, of any of the three
  kinds, is step by step where the plain run was, uses up exactly the recorded
  words, and tells both buses the truth, bar `Misdescribed`;
* `OperationsReturnWords`: no operation on two operands leaves the range of
  u64.

They are stated as `Spec /\ by = "emulator" => []P`.  Of blocks recorded by the
generated code they are not true of every program: the code of some operations
is wrong or does not assemble (*Known deviations*), so there TLC checks the
programs for which it is right.

The argument has two halves that meet in the recorded words.  *One step*
(`StepHeld`): if the words from the replay's index on are those that
`StepReads` yields for the context (`Holds`), `ConsumeStep` leads to the state
that `ParStep` leads to, consumes exactly these words and shows `StepBus`.  It
goes through source a, source b, operation and store (`HeldA`, `HeldB`,
`HeldC`, `HeldStore`); its core is `NotAlignedTrue`, that shifting and masking
the one or two words an access touches gives the value that the memory gives,
which is proved from what `Bits` is on a cut of the cells (`BitsSplit`,
`BitsDrop`, `BitsSlice`).  It needs that contexts stay within their types
(`TypeStep`), hence `OperationsReturnWords`.  *Recording* (`ThreadRec`): after
k steps thread t is in the state of the plain run (but for b, which a store
that is not aligned leaves different and no step reads, `SameStep`), has opened
exactly its blocks that start before k, and each holds the words of its steps,
that of step n at the sum of the lengths before it (`Covers`).  When all have
ended, their numbers of blocks add up (`AllBlocks`) and block b is number b
div `NumThreads` of thread b mod `NumThreads` (`DealtIs`).  `IInv` puts
`ThreadRec`, the joined list (`IsJoined`) and the position of the replay
(`ReplayAt`) together.

`SumsProofs` holds what the others share: induction over the natural numbers,
stated for a set instead of a predicate (the least number outside the set), and
the sums of `Sums`, which are recursive functions.

Only model-checked:

* liveness (`TerminatesBar`), which the prover does not do;
* of `MemPlan` what relates two segments: `RowedOnceBarMiscount` and
  `SegmentsMeetBarMiscount`.  `RowsInvariance` says that each segment is right in
  itself; that a segment starts where the one before has stopped also needs
  that the planner's count of the rows of a segment is that of `MemSM`, summed
  over all addresses and internal reads of the segment;
* `MemAlign`, `OpsBus` and the balances of `RiscvRun`, which compare bags of
  rows made by table-like operators over powers of two: there the finite case
  analysis of TLC is the argument;
* of `MinTrace` what concerns blocks recorded by the generated code:
  `AsmFollows`, and the replays of such blocks;
* the refinement of `RiscvMachine`, a case analysis over instruction formats
  that TLC enumerates.


## 6. Not modelled, and the plan

Next, in this order:

1. proofs: the row counts of `MemPlan`, on top of `RowsInvariance`, for
   `SegmentsMeetBarMiscount`; `AsmFollows` for programs whose operations the
   generator gets right;
2. `MemPlan` for consecutive addresses (ROM data and input data), and the range
   checks on the distance of a segment's first and last address from the ends
   of the memory (`distance_base`, `distance_end`), which `RowsChainBarFirst`
   leaves out;
3. the thread that waits for the ROM histogram;
4. the memory inputs that precompiles announce on the operation bus.

Left out for good: generated AIR traces (`pil/src`), the gate-level circuits
and 256-bit equations of the precompiles (out of TLC's reach), the modes of the
assembly generator for main traces and bus operations, text generation, ELF and
file handling, command line tools, ROM setup, the guest's libraries and the
external proof manager.
