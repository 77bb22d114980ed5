----------------------------- MODULE AsmRunner -----------------------------
(***************************************************************************)
(* The assembly runner: the prover process (the parent,                    *)
(* emulator-asm/asm-runner/src/asm_min_traces_runner_linux.rs) spawns the  *)
(* assembly emulator (the child, emulator-asm/src/main.c and the code that *)
(* core/src/zisk_rom_2_asm.rs generates) and reads the minimal trace that  *)
(* the child writes in shared memory, chunk by chunk.                      *)
(*                                                                         *)
(* Three named semaphores connect them: semckd (the child posts it once    *)
(* per finished chunk), semin (posted when the whole trace is ready) and   *)
(* semout (the parent posts it when it has mapped the trace).  The header  *)
(* of the shared memory holds the exit code (1 until the trace is          *)
(* complete) and the allocated size.                                       *)
(*                                                                         *)
(* A streaming mode is run_and_count(), which counts every chunk on a      *)
(* thread pool as soon as it is posted; another is run(), which waits for  *)
(* the whole trace.                                                        *)
(*                                                                         *)
(* Sizes are in abstract blocks; what a chunk contains is its number.      *)
(***************************************************************************)
EXTENDS Integers, Sequences, FiniteSets

CONSTANTS
    Modes,          \* the ways the runner is called, see ModeType
    ChunkSizes,     \* the sizes a chunk's trace may have
    ChunkBody,      \* MAX_CHUNK_TRACE_SIZE is defined as ChunkBody + ChunkHeader,
    ChunkHeader,    \* without parentheses
    Workers,        \* num_threads of the counting pool
    Timely          \* TRUE: no chunk takes longer than the timeout

ChildStates ==
    {"unborn", "start", "emulate", "realloc", "notify", "complete", "post_in",
     "wait_out", "unlink", "exited", "dead"}

\* streaming: run_and_count() or run(); chunks: the chunks of the emulated program;
\* size: initial_trace_size, written in the input header; mayCrash: the states in which
\* the child may die, when it runs; spawnMayFail: spawn() may return an error.
ModeType ==
    [streaming : BOOLEAN, chunks : Nat \ {0}, size : Nat,
     mayCrash : SUBSET (ChildStates \ {"unborn", "exited", "dead"}),
     spawnMayFail : BOOLEAN]

ASSUME AsmRunnerAssumption ==
    /\ Modes \subseteq ModeType
    /\ ChunkBody \in Nat /\ ChunkHeader \in Nat
    /\ ChunkSizes \subseteq 1 .. ChunkBody - ChunkHeader  \* not their sum: see Threshold
    /\ ChunkSizes # {}
    /\ \A m \in Modes : m.size >= ChunkBody - ChunkHeader
    /\ Workers \in Nat \ {0}
    /\ Timely \in BOOLEAN

VARIABLES
    mode,       \* how the runner is called
    ppc,        \* where the parent is
    cpc,        \* where the child is
    semckd, semin, semout,  \* the values of the semaphores
    shm,        \* the name of the output shared memory exists
    exitCode,   \* header: exit_code
    allocated,  \* header: mt_allocated_size
    traceSize,  \* the child's trace_size
    ends,       \* ends[i]: where the trace of the i-th finished chunk ends
    posted,     \* chunks announced on semckd
    chunkId,    \* the parent's chunk_id: chunks it has read
    mapped,     \* size of the parent's mapping, 0 before get_output_ptr
    queue,      \* tasks of the pool not started yet
    running,    \* tasks being executed
    results,    \* what came out of the channel, in arrival order
    traces      \* vec_chunks, the result of map_output

semVars == <<semckd, semin, semout>>
childVars == <<cpc, exitCode, allocated, traceSize, ends, posted>>
poolVars == <<queue, running, results>>
vars == <<mode, ppc, cpc, semckd, semin, semout, shm, exitCode, allocated, traceSize,
          ends, posted, chunkId, mapped, queue, running, results, traces>>

ParentStates ==
    {"spawn", "wait_chunk", "read", "check", "err", "drain", "collect",
     "wait_in", "map", "post_out", "done", "dropped", "panic", "segv"}

ParentAlive == ppc \notin {"panic", "segv"}

Used == IF ends = <<>> THEN 0 ELSE ends[Len(ends)]

-----------------------------------------------------------------------------
(* Semaphores *)

\* A mutated form of SemInit: the value main.c passes to its own sem_open.
SemInitOne == 1

\* NamedSemaphore::create(name, 0); the child's sem_open finds them existing.
SemInit == 0

Init ==
    /\ mode \in Modes
    /\ ppc = "spawn" /\ cpc = "unborn"
    /\ semckd = SemInit /\ semin = 0 /\ semout = 0
    /\ shm = FALSE
    /\ exitCode = 1 /\ allocated = 0 /\ traceSize = mode.size
    /\ ends = <<>> /\ posted = 0
    /\ chunkId = 0 /\ mapped = 0
    /\ queue = <<>> /\ running = {} /\ results = <<>>
    /\ traces = <<>>

-----------------------------------------------------------------------------
(* The child *)

\* main(): open the semaphores, take the input, create and map the output
\* shared memory and initialise its header.
ChildStart ==
    /\ cpc = "start"
    /\ cpc' = "emulate"
    /\ shm' = TRUE
    /\ exitCode' = 1
    /\ allocated' = traceSize
    /\ UNCHANGED <<mode, ppc, semckd, semin, semout, traceSize, ends, posted, chunkId,
                   mapped, queue, running, results, traces>>

\* A mutated form of Threshold: no room is kept for the next chunk.
ThresholdAtEnd == traceSize

\* trace_address_threshold: trace_size - MAX_CHUNK_TRACE_SIZE with the macro expanded,
\* so that ChunkHeader is added: ChunkBody - ChunkHeader blocks are left above it.
Threshold == traceSize - ChunkBody + ChunkHeader

\* chunk_start .. chunk_end: the trace of one more chunk is written, and the
\* next chunk would start at or above the threshold or not.
EmulateChunk(size) ==
    /\ cpc = "emulate"
    /\ Len(ends) < mode.chunks
    /\ ends' = Append(ends, Used + size)
    /\ cpc' = IF Used + size >= Threshold THEN "realloc" ELSE "notify"
    /\ UNCHANGED <<mode, ppc, semVars, shm, exitCode, allocated, traceSize,
                   posted, chunkId, mapped, queue, running, results, traces>>

\* _realloc_trace: double the shared memory and update the header.
ReallocTrace ==
    /\ cpc = "realloc"
    /\ traceSize' = 2 * traceSize
    /\ allocated' = 2 * traceSize
    /\ cpc' = "notify"
    /\ UNCHANGED <<mode, ppc, semVars, shm, exitCode, ends, posted, chunkId,
                   mapped, queue, running, results, traces>>

\* _chunk_done: announce the chunk; after the last one the emulation ends.
ChunkDone ==
    /\ cpc = "notify"
    /\ semckd' = semckd + 1
    /\ posted' = posted + 1
    /\ cpc' = IF Len(ends) = mode.chunks THEN "complete" ELSE "emulate"
    /\ UNCHANGED <<mode, ppc, semin, semout, shm, exitCode, allocated, traceSize, ends,
                   chunkId, mapped, queue, running, results, traces>>

\* Complete the header: exit code 0, allocated and used size.
CompleteHeader ==
    /\ cpc = "complete"
    /\ exitCode' = 0
    /\ allocated' = traceSize
    /\ cpc' = "post_in"
    /\ UNCHANGED <<mode, ppc, semVars, shm, traceSize, ends, posted, chunkId,
                   mapped, queue, running, results, traces>>

\* sem_post(sem_input): the trace is ready to be consumed.
PostIn ==
    /\ cpc = "post_in"
    /\ semin' = semin + 1
    /\ cpc' = "wait_out"
    /\ UNCHANGED <<mode, ppc, semckd, semout, shm, exitCode, allocated, traceSize, ends,
                   posted, chunkId, mapped, queue, running, results, traces>>

\* A mutated form of ChildWaitOut: the child does not wait for the caller.
ChildNoWaitOut ==
    /\ cpc = "wait_out"
    /\ cpc' = "unlink"
    /\ UNCHANGED <<mode, ppc, semVars, shm, exitCode, allocated, traceSize, ends,
                   posted, chunkId, mapped, queue, running, results, traces>>

\* sem_wait(sem_output): until the caller has mapped the trace.
ChildWaitOut ==
    /\ cpc = "wait_out"
    /\ semout > 0
    /\ semout' = semout - 1
    /\ cpc' = "unlink"
    /\ UNCHANGED <<mode, ppc, semckd, semin, shm, exitCode, allocated, traceSize, ends,
                   posted, chunkId, mapped, queue, running, results, traces>>

\* Unlink the output and the semaphores and leave main().
ChildExit ==
    /\ cpc = "unlink"
    /\ shm' = FALSE
    /\ cpc' = "exited"
    /\ UNCHANGED <<mode, ppc, semckd, semin, semout, exitCode, allocated, traceSize, ends,
                   posted, chunkId, mapped, queue, running, results, traces>>

\* A failed call (exit(-1)), a failed assertion or a signal ends the child;
\* what it has written and posted stays.
ChildCrash ==
    /\ cpc \in mode.mayCrash
    /\ cpc' = "dead"
    /\ UNCHANGED <<mode, ppc, semVars, shm, exitCode, allocated, traceSize, ends,
                   posted, chunkId, mapped, queue, running, results, traces>>

Child ==
    \/ ChildStart \/ (\E s \in ChunkSizes : EmulateChunk(s)) \/ ReallocTrace
    \/ ChunkDone \/ CompleteHeader \/ PostIn \/ ChildWaitOut \/ ChildExit

-----------------------------------------------------------------------------
(* The parent *)

\* write_input and spawn.  An error of spawn() is only logged.
Spawn(ok) ==
    /\ ppc = "spawn"
    /\ ~ok => mode.spawnMayFail
    /\ cpc' = IF ok THEN "start" ELSE "unborn"
    /\ ppc' = IF mode.streaming THEN "wait_chunk" ELSE "wait_in"
    /\ UNCHANGED <<mode, semVars, shm, exitCode, allocated, traceSize, ends,
                   posted, chunkId, mapped, queue, running, results, traces>>

\* sem_chunk_done.timed_wait(): Ok.
TimedWaitOk ==
    /\ ppc = "wait_chunk"
    /\ semckd > 0
    /\ semckd' = semckd - 1
    /\ ppc' = "read"
    /\ UNCHANGED <<mode, semin, semout, shm, childVars, chunkId, mapped, poolVars, traces>>

\* The child may still post semckd, or complete the header, within the timeout.
ChildBusy == cpc \in {"start", "emulate", "realloc", "notify", "complete"}

\* sem_chunk_done.timed_wait(): Err, the timeout or an interrupted wait.
TimedWaitErr ==
    /\ ppc = "wait_chunk"
    /\ semckd = 0
    /\ Timely => ~ChildBusy
    /\ ppc' = IF chunkId = 0 THEN "panic" ELSE "err"
    /\ UNCHANGED <<mode, semVars, shm, childVars, chunkId, mapped, poolVars, traces>>

\* A mutated form of ReadExitCode: every Err is taken for a dead child.
ErrPanics ==
    /\ ppc = "err"
    /\ ppc' = "panic"
    /\ UNCHANGED <<mode, semVars, shm, childVars, chunkId, mapped, poolVars, traces>>

\* After the Err: break with the header's exit code, panic if it is not 0.
ReadExitCode ==
    /\ ppc = "err"
    /\ ppc' = IF exitCode = 0 THEN "collect" ELSE "panic"
    /\ UNCHANGED <<mode, semVars, shm, childVars, chunkId, mapped, poolVars, traces>>

\* The size of the mapping the parent reads chunks through: get_output_ptr
\* maps what is allocated when the first chunk arrives.
Mapping == IF mapped = 0 THEN allocated ELSE mapped

\* What the chunk the read pointer is at holds: 0 if it is not finished.
ChunkAt(id) == IF id < Len(ends) THEN id + 1 ELSE 0

ChunkEnd(id) == IF id < Len(ends) THEN ends[id + 1] ELSE 0

\* to_emu_trace and pool.spawn of its counting task, then to the state next.
\* A failed shm_open panics; reading beyond the mapping is a fault.
ReadChunk(next) ==
    /\ mapped' = Mapping
    /\ IF mapped = 0 /\ ~shm
       THEN ppc' = "panic" /\ UNCHANGED <<queue, chunkId>>
       ELSE IF ChunkEnd(chunkId) > Mapping
       THEN ppc' = "segv" /\ UNCHANGED <<queue, chunkId>>
       ELSE /\ queue' = Append(queue, [id |-> chunkId, data |-> ChunkAt(chunkId)])
            /\ chunkId' = chunkId + 1
            /\ ppc' = next
    /\ UNCHANGED <<mode, semin, semout, shm, childVars, running, results, traces>>

StreamChunk ==
    /\ ppc = "read"
    /\ ReadChunk("check")
    /\ UNCHANGED semckd

\* should_exit = header.exit_code == 0.
CheckExit ==
    /\ ppc = "check"
    /\ ppc' = IF exitCode = 0 THEN "drain" ELSE "wait_chunk"
    /\ UNCHANGED <<mode, semVars, shm, childVars, chunkId, mapped, poolVars, traces>>

\* while let Ok(()) = sem_chunk_done.try_wait()
DrainChunk ==
    /\ ppc = "drain"
    /\ semckd > 0
    /\ semckd' = semckd - 1
    /\ ReadChunk("drain")

\* A mutated form of DrainEnd: what is still posted is not drained.
DrainNothing ==
    /\ ppc = "drain"
    /\ ppc' = "collect"
    /\ UNCHANGED <<mode, semVars, shm, childVars, chunkId, mapped, poolVars, traces>>

DrainEnd ==
    /\ ppc = "drain"
    /\ semckd = 0
    /\ ppc' = "collect"
    /\ UNCHANGED <<mode, semVars, shm, childVars, chunkId, mapped, poolVars, traces>>

\* Task results by chunk id: what the executor's sort_by_key makes of them.
SortByChunk(rs) ==
    [i \in 1 .. Len(rs) |->
        rs[CHOOSE j \in 1 .. Len(rs) :
            Cardinality({k \in 1 .. Len(rs) :
                rs[k].id < rs[j].id \/ (rs[k].id = rs[j].id /\ k < j)}) = i - 1]]

\* receiver.iter().collect(): ends when every task has sent and dropped its
\* sender.  The caller sorts the results before it uses them.
Collect ==
    /\ ppc = "collect"
    /\ queue = <<>> /\ running = {}
    /\ results' = SortByChunk(results)
    /\ ppc' = "wait_in"
    /\ UNCHANGED <<mode, semVars, shm, childVars, chunkId, mapped, queue, running,
                   traces>>

\* sem_in.wait(): no timeout.
WaitIn ==
    /\ ppc = "wait_in"
    /\ semin > 0
    /\ semin' = semin - 1
    /\ ppc' = "map"
    /\ UNCHANGED <<mode, semckd, semout, shm, childVars, chunkId, mapped, poolVars, traces>>

\* map_output: open the shared memory by name and read every chunk again.
MapOutput ==
    /\ ppc = "map"
    /\ IF shm
       THEN /\ traces' = [i \in 1 .. Len(ends) |-> i]
            /\ ppc' = "post_out"
       ELSE /\ ppc' = "panic"
            /\ UNCHANGED traces
    /\ UNCHANGED <<mode, semVars, shm, childVars, chunkId, mapped, poolVars>>

\* A mutated form of PostOut: the child is not told.
PostOutMissing ==
    /\ ppc = "post_out"
    /\ ppc' = "done"
    /\ UNCHANGED <<mode, semVars, shm, childVars, chunkId, mapped, poolVars, traces>>

\* sem_out.post(): the trace is mapped, the child may go.
PostOut ==
    /\ ppc = "post_out"
    /\ semout' = semout + 1
    /\ ppc' = "done"
    /\ UNCHANGED <<mode, semckd, semin, shm, childVars, chunkId, mapped, poolVars, traces>>

\* Drop for AsmRunnerMT: unmap and unlink the output.
DropRunner ==
    /\ ppc = "done"
    /\ shm' = FALSE
    /\ ppc' = "dropped"
    /\ UNCHANGED <<mode, semckd, semin, semout, childVars, chunkId, mapped, poolVars, traces>>

Parent ==
    \/ (\E ok \in BOOLEAN : Spawn(ok))
    \/ TimedWaitOk \/ ReadExitCode \/ StreamChunk \/ CheckExit
    \/ DrainChunk \/ DrainEnd \/ Collect \/ WaitIn \/ MapOutput \/ PostOut \/ DropRunner

-----------------------------------------------------------------------------
(* The counting pool *)

StartTask ==
    /\ ParentAlive
    /\ queue # <<>>
    /\ Cardinality(running) < Workers
    /\ running' = running \cup {Head(queue)}
    /\ queue' = Tail(queue)
    /\ UNCHANGED <<mode, ppc, semVars, shm, childVars, chunkId, mapped, results, traces>>

\* task.execute() has replayed its chunk; sender.send(..).
FinishTask(t) ==
    /\ ParentAlive
    /\ t \in running
    /\ running' = running \ {t}
    /\ results' = Append(results, t)
    /\ UNCHANGED <<mode, ppc, semVars, shm, childVars, chunkId, mapped, queue, traces>>

Pool == StartTask \/ \E t \in running : FinishTask(t)

-----------------------------------------------------------------------------

ParentEnded == ppc \in {"dropped", "panic", "segv"}
ChildEnded == cpc \in {"exited", "dead"}

\* sem_in.wait() has no timeout: it waits forever for a child that was never started,
\* or died before it posted.
Stranded == ppc = "wait_in" /\ semin = 0 /\ cpc \in {"dead", "unborn"}

\* Nothing is left to do: both processes have ended, the child was never born, or the
\* parent is stranded.
Ended ==
    /\ Stranded \/ (ParentEnded /\ (ChildEnded \/ cpc = "unborn"))
    /\ UNCHANGED vars

Next == Child \/ ChildCrash \/ Parent \/ TimedWaitErr \/ Pool \/ Ended

Spec == Init /\ [][Next]_vars

\* The operating system runs both processes and the pool's threads; a timed
\* wait that gets no post ends; nothing makes the child crash.
FairSpec ==
    /\ Spec
    /\ WF_vars(Child) /\ WF_vars(Parent) /\ WF_vars(TimedWaitErr) /\ WF_vars(Pool)

-----------------------------------------------------------------------------

Task == [id : 0 .. mode.chunks, data : 0 .. mode.chunks]

\* Type invariant.
TypeOK ==
    /\ mode \in Modes
    /\ ppc \in ParentStates /\ cpc \in ChildStates
    /\ semckd \in Nat /\ semin \in 0 .. 1 /\ semout \in 0 .. 1
    /\ shm \in BOOLEAN
    /\ exitCode \in 0 .. 1
    /\ allocated \in Nat /\ traceSize \in Nat /\ mapped \in Nat
    /\ ends \in Seq(Nat) /\ Len(ends) <= mode.chunks
    /\ posted \in 0 .. mode.chunks
    /\ chunkId \in 0 .. mode.chunks
    /\ queue \in Seq(Task) /\ results \in Seq(Task)
    /\ running \subseteq Task
    /\ traces \in Seq(1 .. mode.chunks)

\* The child never writes a chunk beyond its trace: before every chunk there is room for
\* the largest, however large the chunks before it were.
TraceFits ==
    /\ Used <= traceSize
    /\ cpc = "emulate" => Used + ChunkBody - ChunkHeader <= traceSize

\* The parent only decodes chunks that the child has finished, and takes each
\* one once: the posts of semckd and the reads stay in step.
ReadsFinishedChunks ==
    /\ \A t \in running : t.data = t.id + 1
    /\ \A i \in 1 .. Len(queue) : queue[i].data = queue[i].id + 1
    /\ \A i \in 1 .. Len(results) : results[i].data = results[i].id + 1

\* When the runner returns, every chunk of the program has been counted exactly
\* once and the counters are in chunk order, the order of the traces.
CountsComplete ==
    ppc = "done" =>
        /\ traces = [i \in 1 .. mode.chunks |-> i]
        /\ mode.streaming => results = [i \in 1 .. mode.chunks |-> [id |-> i - 1, data |-> i]]

\* map_output finds the shared memory: the child does not unlink it before the
\* parent has mapped it.
OutputMappable == ppc = "map" => shm

\* The parent never reads a chunk beyond the mapping it made when the first
\* chunk arrived.
ReadsInsideMapping == ppc # "segv"

\* The runner ends, by returning or by a panic, and so does the child, wherever the
\* child dies; the one exception is a child lost before its only post of semin while the
\* parent no longer, or not at all, waits for chunks.
TerminatesBar == <>(Stranded \/ (ParentEnded /\ (ChildEnded \/ cpc = "unborn")))

\* The runner implements ChunkDelivery: a result is the count of a chunk that was made, a
\* return has them all, and a panic means that the child is lost.
Delivery == INSTANCE ChunkDelivery WITH
    chunks <- mode.chunks,
    counting <- mode.streaming,
    made <- posted,
    counted <- {results[i].id : i \in 1 .. Len(results)},
    child <- IF cpc = "dead" \/ (cpc = "unborn" /\ ppc # "spawn") THEN "lost" ELSE "working",
    outcome <- CASE ppc \in {"done", "dropped"} -> "returned"
                 [] ppc = "panic" -> "failed"
                 [] ppc = "segv" -> "fault"
                 [] OTHER -> "pending"

DeliversChunks == Delivery!Spec

\* The panic "Child process terminated" is true: when the parent gives up, the
\* child has died or was never started; a trace that was completed between the
\* parent's look at the header and its timeout is not thrown away.
PanicMeansDead == ppc = "panic" => cpc \in {"dead", "unborn"}
=============================================================================
