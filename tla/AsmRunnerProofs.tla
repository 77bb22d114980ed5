--------------------------- MODULE AsmRunnerProofs ---------------------------
(***************************************************************************)
(* Proofs about the handshake of the assembly runner, for every number of  *)
(* chunks, every chunk size, every number of workers and wherever the      *)
(* child dies.                                                             *)
(***************************************************************************)
EXTENDS AsmRunner, FiniteSetTheorems, TLAPS

-----------------------------------------------------------------------------
(* The inductive invariant, one part per concern. *)

\* The child has completed the header.
Finished == {"post_in", "wait_out", "unlink", "exited"}

\* The parent has received the only post of semin.
Released == {"map", "post_out", "done", "dropped"}

\* The child writes a chunk, announces it, and completes the header after the last one.
ChildProgress ==
    /\ ppc = "spawn" => cpc = "unborn"
    /\ posted <= Len(ends) /\ Len(ends) <= posted + 1
    /\ cpc \in {"unborn", "start"} => ends = <<>>
    /\ cpc = "emulate" => Len(ends) = posted /\ posted < mode.chunks
    /\ cpc \in {"realloc", "notify"} => Len(ends) = posted + 1
    /\ cpc = "complete" => posted = mode.chunks
    /\ cpc \in Finished => exitCode = 0
    /\ exitCode = 0 => posted = mode.chunks /\ cpc \in Finished \cup {"dead"}

\* The largest chunk fits wherever one may start.
TraceRoom ==
    /\ ChunkBody - ChunkHeader <= traceSize
    /\ Used <= traceSize
    /\ cpc \in {"emulate", "notify"} => Used + ChunkBody - ChunkHeader <= traceSize

\* Every post of semckd is waiting, being read or read.
PostsInStep ==
    /\ semckd + chunkId <= posted
    /\ ppc = "read" => semckd + chunkId + 1 = posted
    /\ ppc \notin {"read", "panic", "segv"} => semckd + chunkId = posted

\* Only run_and_count() reads chunks; it leaves the drain loop and the error path for the
\* collection only when the header is complete.
ReaderControl ==
    /\ ppc \in {"wait_chunk", "read", "check", "err", "drain", "collect"} => mode.streaming
    /\ ~mode.streaming => chunkId = 0
    /\ ppc = "spawn" => chunkId = 0
    /\ ppc \in {"drain", "collect"} => exitCode = 0
    /\ ppc \in Released => exitCode = 0

\* semin and semout are posted once: semin by a finished child before the parent maps,
\* semout by the parent before the child unlinks.
Handshake ==
    /\ semin = 1 => exitCode = 0 /\ cpc # "post_in" /\ ppc \notin Released
    /\ ppc \in Released => cpc # "post_in"
    /\ semout = 1 => ppc \in {"done", "dropped"}
    /\ cpc \in {"unlink", "exited"} => semout = 0 /\ ppc \in {"done", "dropped"}

\* The name of the output exists from the child's start until the parent is done.
OutputNamed ==
    ends # <<>> \/ cpc \notin {"unborn", "start", "dead"} =>
        shm \/ ppc \in {"done", "dropped"}

Control ==
    ChildProgress /\ TraceRoom /\ PostsInStep /\ ReaderControl /\ Handshake /\ OutputNamed

\* A task counts the chunk it is numbered after, which has been read.
TaskOK(t) == t.data = t.id + 1 /\ t.id < chunkId

TasksOK ==
    /\ \A i \in 1 .. Len(queue) : TaskOK(queue[i])
    /\ \A t \in running : TaskOK(t)
    /\ \A i \in 1 .. Len(results) : TaskOK(results[i])

\* No chunk has two tasks.
TasksDistinct ==
    /\ \A i, j \in 1 .. Len(queue) : queue[i].id = queue[j].id => i = j
    /\ \A i, j \in 1 .. Len(results) : results[i].id = results[j].id => i = j
    /\ \A i \in 1 .. Len(queue) : \A t \in running : queue[i].id # t.id
    /\ \A i \in 1 .. Len(queue) : \A j \in 1 .. Len(results) : queue[i].id # results[j].id
    /\ \A t \in running : \A j \in 1 .. Len(results) : t.id # results[j].id

\* The task of chunk c is queued, running or finished.
HasTask(c) ==
    \/ \E i \in 1 .. Len(queue) : queue[i].id = c
    \/ \E t \in running : t.id = c
    \/ \E i \in 1 .. Len(results) : results[i].id = c

\* The results of the first n chunks in order.
InOrder(n) == [i \in 1 .. n |-> [id |-> i - 1, data |-> i]]

Collected ==
    mode.streaming /\ ppc \in {"wait_in"} \cup Released =>
        queue = <<>> /\ running = {} /\ results = InOrder(chunkId)

TracesComplete == ppc \in {"post_out", "done", "dropped"} => traces = [i \in 1 .. mode.chunks |-> i]

Counting ==
    /\ TasksOK
    /\ TasksDistinct
    /\ \A c \in 0 .. chunkId - 1 : HasTask(c)
    /\ Collected
    /\ TracesComplete

\* What a timeout that no working child can meet adds: the parent only gives up on a
\* child that has ended, and only collects when every chunk has been read.
GivesUpRightly ==
    /\ ppc = "err" => ~ChildBusy /\ semckd = 0
    /\ mode.streaming /\ ppc \in {"collect", "wait_in"} \cup Released => chunkId = mode.chunks
    /\ PanicMeansDead

IInv == TypeOK /\ Control /\ Counting /\ (Timely => GivesUpRightly)

-----------------------------------------------------------------------------
(* Facts about the constants and the operators. *)

\* The largest chunk has a size of at least one, a mode at least one chunk and room for it.
LEMMA Constants ==
    /\ ChunkBody \in Nat /\ ChunkHeader \in Nat
    /\ ChunkBody - ChunkHeader >= 1
    /\ \A s \in ChunkSizes : s \in Nat /\ 1 <= s /\ s <= ChunkBody - ChunkHeader
    /\ \A m \in Modes :
        /\ m.streaming \in BOOLEAN
        /\ m.chunks \in Nat /\ m.chunks >= 1
        /\ m.size \in Nat /\ m.size >= ChunkBody - ChunkHeader
        /\ \A s \in m.mayCrash : s \notin {"unborn", "exited", "dead"}
<1>1. \A s \in ChunkSizes : s \in Nat /\ 1 <= s /\ s <= ChunkBody - ChunkHeader
  BY AsmRunnerAssumption
<1>2. ChunkBody - ChunkHeader >= 1
  <2>1. PICK s : s \in ChunkSizes
    BY AsmRunnerAssumption
  <2> QED
    BY <2>1, <1>1, AsmRunnerAssumption
<1>3. ASSUME NEW m \in Modes
      PROVE  /\ m.streaming \in BOOLEAN
             /\ m.chunks \in Nat /\ m.chunks >= 1
             /\ m.size \in Nat /\ m.size >= ChunkBody - ChunkHeader
             /\ \A s \in m.mayCrash : s \notin {"unborn", "exited", "dead"}
  BY AsmRunnerAssumption DEF ModeType
<1> QED
  BY <1>1, <1>2, <1>3, AsmRunnerAssumption

\* Appending a chunk makes its end the used part of the trace.
LEMMA UsedAfter ==
    ASSUME NEW e, e \in Seq(Nat), NEW x \in Nat
    PROVE  /\ Append(e, x) \in Seq(Nat) /\ Append(e, x) # <<>>
           /\ Len(Append(e, x)) = Len(e) + 1
           /\ Append(e, x)[Len(Append(e, x))] = x
OBVIOUS

\* The used part of the trace is a number.
LEMMA UsedNat ==
    ASSUME ends \in Seq(Nat)
    PROVE  Used \in Nat
BY DEF Used

\* What a sequence holds, for SMT.
LEMMA SeqElement ==
    ASSUME NEW S, NEW s \in Seq(S)
    PROVE  Len(s) \in Nat /\ \A k \in 1 .. Len(s) : s[k] \in S
OBVIOUS

\* A sequence over a set is one over every larger set.
LEMMA SeqMonotonic ==
    ASSUME NEW S, NEW T, S \subseteq T, NEW s \in Seq(S)
    PROVE  s \in Seq(T)
OBVIOUS

\* Append stays within the sequences over a set.
LEMMA SeqAppend ==
    ASSUME NEW S, NEW s \in Seq(S), NEW x \in S
    PROVE  Append(s, x) \in Seq(S)
OBVIOUS

\* Head and Tail stay within a set and the sequences over it.
LEMMA SeqHeadTail ==
    ASSUME NEW S, NEW s \in Seq(S), s # <<>>
    PROVE  Head(s) \in S /\ Tail(s) \in Seq(S)
OBVIOUS

\* rs holds the tasks of the first n chunks, each once, in some order.
Permutes(rs, n) ==
    /\ rs \in Seq([id : Nat, data : Nat])
    /\ \A i \in 1 .. Len(rs) : rs[i].id < n /\ rs[i].data = rs[i].id + 1
    /\ \A i, j \in 1 .. Len(rs) : rs[i].id = rs[j].id => i = j
    /\ \A c \in 0 .. n - 1 : \E i \in 1 .. Len(rs) : rs[i].id = c

\* Every task of such a sequence is that of its chunk.
LEMMA PermutesElim ==
    ASSUME NEW n \in Nat, NEW rs, Permutes(rs, n)
    PROVE  /\ Len(rs) \in Nat
           /\ \A k \in 1 .. Len(rs) :
                /\ rs[k].id \in Nat /\ rs[k].id \in 0 .. n - 1
                /\ rs[k] = [id |-> rs[k].id, data |-> rs[k].id + 1]
<1>1. Len(rs) \in Nat /\ \A k \in 1 .. Len(rs) : rs[k] \in [id : Nat, data : Nat]
  BY SeqElement DEF Permutes
<1>2. ASSUME NEW k \in 1 .. Len(rs)
      PROVE  rs[k].id \in Nat /\ rs[k].id \in 0 .. n - 1 /\ rs[k].data = rs[k].id + 1
  BY <1>1 DEF Permutes
<1> QED
  BY <1>1, <1>2

\* The tasks of chunks below v are v in number.
LEMMA CountBelow ==
    ASSUME NEW n \in Nat, NEW rs, Permutes(rs, n), NEW v \in 0 .. n
    PROVE  Cardinality({k \in 1 .. Len(rs) : rs[k].id < v}) = v
<1> DEFINE B == {k \in 1 .. Len(rs) : rs[k].id < v}
           At(x) == CHOOSE k \in 1 .. Len(rs) : rs[k].id = x - 1
           g == [x \in 1 .. v |-> At(x)]
<1>1. \A k \in 1 .. Len(rs) : rs[k].id \in Nat
  BY PermutesElim
<1>2. \A x \in 1 .. v : At(x) \in 1 .. Len(rs) /\ rs[At(x)].id = x - 1
  <2> SUFFICES ASSUME NEW x \in 1 .. v
               PROVE  At(x) \in 1 .. Len(rs) /\ rs[At(x)].id = x - 1
    OBVIOUS
  <2>1. x - 1 \in 0 .. n - 1
    OBVIOUS
  <2>2. \E k \in 1 .. Len(rs) : rs[k].id = x - 1
    BY <2>1 DEF Permutes
  <2> QED
    BY <2>2
<1> HIDE DEF At
<1>3. g \in [1 .. v -> B]
  BY <1>2
<1>4. ASSUME NEW x \in 1 .. v, NEW y \in 1 .. v, g[x] = g[y]
      PROVE  x = y
  <2>1. At(x) = At(y)
    BY <1>4
  <2>2. x - 1 = y - 1
    BY <2>1, <1>2
  <2> QED
    BY <2>2
<1>5. ASSUME NEW k \in B
      PROVE  \E x \in 1 .. v : g[x] = k
  <2>1. rs[k].id + 1 \in 1 .. v
    BY <1>1
  <2>2. rs[At(rs[k].id + 1)].id = rs[k].id /\ At(rs[k].id + 1) \in 1 .. Len(rs)
    BY <2>1, <1>1, <1>2
  <2>3. At(rs[k].id + 1) = k
    BY <2>2 DEF Permutes
  <2> QED
    BY <2>1, <2>3
<1>6. g \in Bijection(1 .. v, B)
  BY <1>3, <1>4, <1>5 DEF Bijection, Injection, Surjection, IsInjective
<1>7. ExistsBijection(1 .. v, B)
  BY <1>6 DEF ExistsBijection
<1> QED
  BY <1>7, FS_CountingElements

\* sort_by_key puts the results of the first n chunks in chunk order.
LEMMA SortedTasks ==
    ASSUME NEW n \in Nat, NEW rs, Permutes(rs, n)
    PROVE  SortByChunk(rs) = InOrder(n)
<1>0. /\ Len(rs) \in Nat
      /\ \A k \in 1 .. Len(rs) : rs[k].id \in 0 .. n - 1
  BY PermutesElim
<1>1. Len(rs) = n
  <2>1. {k \in 1 .. Len(rs) : rs[k].id < n} = 1 .. Len(rs)
    BY <1>0
  <2>2. Cardinality(1 .. Len(rs)) = n
    BY <2>1, CountBelow
  <2>3. Cardinality(1 .. Len(rs)) = IF 1 > Len(rs) THEN 0 ELSE Len(rs) - 1 + 1
    <3>1. 1 \in Int /\ Len(rs) \in Int
      BY <1>0
    <3> QED
      BY <3>1, FS_Interval, Zenon
  <2> QED
    BY <1>0, <2>2, <2>3
<1> DEFINE Rank(j) == Cardinality({k \in 1 .. Len(rs) :
                          rs[k].id < rs[j].id \/ (rs[k].id = rs[j].id /\ k < j)})
<1>2. ASSUME NEW j \in 1 .. Len(rs)
      PROVE  Rank(j) = rs[j].id
  <2>1. \A k \in 1 .. Len(rs) : rs[k].id = rs[j].id => ~(k < j)
    BY DEF Permutes
  <2>2. {k \in 1 .. Len(rs) : rs[k].id < rs[j].id \/ (rs[k].id = rs[j].id /\ k < j)}
          = {k \in 1 .. Len(rs) : rs[k].id < rs[j].id}
    BY <2>1
  <2>3. rs[j].id \in 0 .. n
    BY <1>0
  <2> QED
    BY <2>2, <2>3, CountBelow
<1>3. ASSUME NEW i \in 1 .. n
      PROVE  rs[CHOOSE j \in 1 .. Len(rs) : Rank(j) = i - 1] = [id |-> i - 1, data |-> i]
  <2> HIDE DEF Rank
  <2> DEFINE J == CHOOSE j \in 1 .. Len(rs) : Rank(j) = i - 1
  <2>1. i - 1 \in 0 .. n - 1
    OBVIOUS
  <2>2. \E j \in 1 .. Len(rs) : Rank(j) = i - 1
    <3>1. PICK j \in 1 .. Len(rs) : rs[j].id = i - 1
      BY <2>1 DEF Permutes
    <3> QED
      BY <3>1, <1>2
  <2>3. J \in 1 .. Len(rs) /\ Rank(J) = i - 1
    BY <2>2
  <2> HIDE DEF J
  <2>4. rs[J].id = i - 1
    BY <2>3, <1>2
  <2>5. rs[J] = [id |-> i - 1, data |-> i - 1 + 1]
    BY <2>3, <2>4, PermutesElim
  <2> QED
    BY <2>5 DEF J
<1> HIDE DEF Rank
<1>4. SortByChunk(rs)
        = [i \in 1 .. n |-> rs[CHOOSE j \in 1 .. Len(rs) : Rank(j) = i - 1]]
  BY <1>1 DEF SortByChunk, Rank
<1> QED
  BY <1>3, <1>4 DEF InOrder

-----------------------------------------------------------------------------
(* Control is preserved, action by action. *)

\* No chunk is made, posted or read at the start.
LEMMA InitControl == Init => Control
BY Constants DEF Init, SemInit, Control, ChildProgress, TraceRoom, PostsInStep, ReaderControl,
  Handshake, OutputNamed, Used, Finished, Released

\* The steps of the child (chunk_done, waits, faults) keep the control part.
LEMMA ChildControl ==
    ASSUME TypeOK, Control, Child \/ ChildCrash
    PROVE  Control'
<1> USE Constants, UsedNat DEF TypeOK, Control, Finished, Released
<1> USE DEF ChildProgress, TraceRoom, PostsInStep, ReaderControl, Handshake, OutputNamed
<1>1. CASE ChildStart
  BY <1>1 DEF ChildStart, Used
<1>2. ASSUME NEW s \in ChunkSizes, EmulateChunk(s)
      PROVE  Control'
  <2>1. /\ ends' = Append(ends, Used + s) /\ Used + s \in Nat /\ s \in Nat
        /\ 1 <= s /\ s <= ChunkBody - ChunkHeader
    BY <1>2 DEF EmulateChunk
  <2>2. ends' # <<>> /\ Len(ends') = Len(ends) + 1 /\ Used' = Used + s
    BY <2>1, UsedAfter DEF Used
  <2>3. /\ cpc = "emulate" /\ cpc' \in {"realloc", "notify"}
        /\ cpc' = "notify" => Used + s < traceSize - ChunkBody + ChunkHeader
    BY <1>2, <2>1 DEF EmulateChunk, Threshold
  <2>4. UNCHANGED <<mode, ppc, semckd, semin, semout, shm, exitCode, traceSize, posted, chunkId>>
    BY <1>2 DEF EmulateChunk, semVars
  <2>5. TraceRoom'
    <3>1. Used + ChunkBody - ChunkHeader <= traceSize /\ traceSize' = traceSize
      BY <2>3, <2>4
    <3>2. Used' <= traceSize'
      BY <3>1, <2>1, <2>2
    <3>3. cpc' = "notify" => Used' + ChunkBody - ChunkHeader <= traceSize'
      BY <3>1, <2>1, <2>2, <2>3
    <3>4. ChunkBody - ChunkHeader <= traceSize'
      BY <3>1
    <3>5. cpc' # "emulate"
      BY <2>3
    <3> QED
      BY <3>2, <3>3, <3>4, <3>5
  <2>6. Len(ends) = posted /\ posted < mode.chunks
    BY <2>3
  <2> QED
    BY <2>2, <2>3, <2>4, <2>5, <2>6
<1>3. CASE ReallocTrace
  BY <1>3 DEF ReallocTrace, Used, semVars
<1>4. CASE ChunkDone
  BY <1>4 DEF ChunkDone, Used
<1>5. CASE CompleteHeader
  BY <1>5 DEF CompleteHeader, Used, semVars
<1>6. CASE PostIn
  BY <1>6 DEF PostIn, Used
<1>7. CASE ChildWaitOut
  BY <1>7 DEF ChildWaitOut, Used
<1>8. CASE ChildExit
  BY <1>8 DEF ChildExit, Used
<1>9. CASE ChildCrash
  BY <1>9 DEF ChildCrash, Used, semVars
<1> QED
  BY <1>1, <1>2, <1>3, <1>4, <1>5, <1>6, <1>7, <1>8, <1>9 DEF Child

\* A chunk is only read after its post, so it is finished and the output has its name: the
\* parent neither panics nor decodes an unfinished chunk.
LEMMA ChunkReady ==
    ASSUME TypeOK, Control, ppc = "read" \/ (ppc = "drain" /\ semckd > 0)
    PROVE  /\ shm
           /\ chunkId < posted /\ chunkId < mode.chunks
           /\ ChunkAt(chunkId) = chunkId + 1
<1>1. chunkId < posted /\ posted <= Len(ends)
  BY Constants DEF TypeOK, Control, PostsInStep, ChildProgress
<1>2. ends # <<>>
  BY <1>1 DEF TypeOK
<1>3. shm
  BY <1>2 DEF TypeOK, Control, OutputNamed
<1> QED
  BY <1>1, <1>3, Constants DEF TypeOK, ChunkAt

\* What reading a chunk does: it queues the task of a finished chunk, or faults.
LEMMA ReadEffect ==
    ASSUME TypeOK, Control, ppc = "read" \/ (ppc = "drain" /\ semckd > 0),
           NEW next, ReadChunk(next)
    PROVE  /\ \/ ppc' = "segv" /\ UNCHANGED <<queue, chunkId>>
              \/ /\ ppc' = next
                 /\ chunkId' = chunkId + 1
                 /\ queue' = Append(queue, [id |-> chunkId, data |-> chunkId + 1])
           /\ UNCHANGED <<mode, cpc, semin, semout, shm, exitCode, allocated, traceSize, ends,
                          posted, running, results, traces>>
           /\ mapped' \in Nat
<1>1. shm /\ ChunkAt(chunkId) = chunkId + 1
  BY ChunkReady
<1>2. mapped' \in Nat
  BY DEF TypeOK, ReadChunk, Mapping
<1> QED
  BY <1>1, <1>2 DEF ReadChunk, childVars

\* The steps of the parent (waits, mappings, unlinking) keep the control part.
LEMMA ParentControl ==
    ASSUME TypeOK, Control, Parent \/ TimedWaitErr
    PROVE  Control'
<1>0. mode.chunks \in Nat /\ mode.streaming \in BOOLEAN
  BY Constants DEF TypeOK
<1> USE <1>0 DEF TypeOK, Control, Finished, Released, childVars
<1> USE DEF ChildProgress, TraceRoom, PostsInStep, ReaderControl, Handshake, OutputNamed
<1>1. ASSUME NEW ok \in BOOLEAN, Spawn(ok)
      PROVE  Control'
  BY <1>1 DEF Spawn, Used, semVars
<1>2. CASE TimedWaitOk
  BY <1>2 DEF TimedWaitOk, Used
<1>3. CASE TimedWaitErr
  BY <1>3 DEF TimedWaitErr, Used, semVars
<1>4. CASE ReadExitCode
  BY <1>4 DEF ReadExitCode, Used, semVars
<1>5. CASE StreamChunk
  <2>1. /\ (ppc' = "segv" /\ chunkId' = chunkId) \/ (ppc' = "check" /\ chunkId' = chunkId + 1)
        /\ ppc = "read" /\ semckd' = semckd
        /\ UNCHANGED <<mode, cpc, semin, semout, shm, exitCode, traceSize, ends, posted>>
    BY <1>5, ReadEffect DEF StreamChunk
  <2>2. ChildProgress' /\ TraceRoom'
    BY <2>1 DEF Used
  <2>3. PostsInStep'
    BY ONLY <2>1, TypeOK, PostsInStep DEF TypeOK, PostsInStep
  <2>4. ReaderControl'
    BY <2>1
  <2>5. Handshake' /\ OutputNamed'
    BY <2>1
  <2> QED
    BY <2>2, <2>3, <2>4, <2>5
<1>6. CASE CheckExit
  BY <1>6 DEF CheckExit, Used, semVars
<1>7. CASE DrainChunk
  <2>1. /\ (ppc' = "segv" /\ chunkId' = chunkId) \/ (ppc' = "drain" /\ chunkId' = chunkId + 1)
        /\ ppc = "drain" /\ semckd > 0 /\ semckd' = semckd - 1
        /\ UNCHANGED <<mode, cpc, semin, semout, shm, exitCode, traceSize, ends, posted>>
    BY <1>7, ReadEffect DEF DrainChunk
  <2>2. ChildProgress' /\ TraceRoom'
    BY <2>1 DEF Used
  <2>3. PostsInStep' /\ ReaderControl'
    BY <2>1
  <2>4. Handshake' /\ OutputNamed'
    BY <2>1
  <2> QED
    BY <2>2, <2>3, <2>4
<1>8. CASE DrainEnd
  BY <1>8 DEF DrainEnd, Used, semVars
<1>9. CASE Collect
  BY <1>9 DEF Collect, Used, semVars
<1>10. CASE WaitIn
  BY <1>10 DEF WaitIn, Used
<1>11. CASE MapOutput
  BY <1>11 DEF MapOutput, Used, semVars
<1>12. CASE PostOut
  BY <1>12 DEF PostOut, Used
<1>13. CASE DropRunner
  BY <1>13 DEF DropRunner, Used
<1> QED
  BY <1>1, <1>2, <1>3, <1>4, <1>5, <1>6, <1>7, <1>8, <1>9, <1>10, <1>11, <1>12, <1>13 DEF Parent

\* The counting tasks of the pool touch no control state.
LEMMA PoolControl ==
    ASSUME TypeOK, Control, Pool \/ UNCHANGED vars
    PROVE  Control'
<1>1. UNCHANGED <<mode, ppc, cpc, semckd, semin, semout, shm, exitCode, traceSize, ends, posted,
                  chunkId>>
  BY DEF Pool, StartTask, FinishTask, childVars, semVars, vars
<1> QED
  BY <1>1 DEF Control, ChildProgress, TraceRoom, PostsInStep, ReaderControl, Handshake,
     OutputNamed, Used

-----------------------------------------------------------------------------
(* Types are preserved. *)

\* The initial state has the types.
LEMMA InitType == Init => TypeOK
<1> SUFFICES ASSUME Init PROVE TypeOK
  OBVIOUS
<1>1. mode \in Modes /\ mode.chunks \in Nat /\ mode.size \in Nat
  BY Constants DEF Init
<1>2. /\ ends \in Seq(Nat) /\ Len(ends) <= mode.chunks
      /\ queue \in Seq(Task) /\ results \in Seq(Task) /\ traces \in Seq(1 .. mode.chunks)
  BY <1>1 DEF Init
<1>3. posted \in 0 .. mode.chunks /\ chunkId \in 0 .. mode.chunks
  BY <1>1 DEF Init
<1>4. shm \in BOOLEAN
  BY DEF Init
<1>5. /\ ppc \in ParentStates /\ cpc \in ChildStates /\ running \subseteq Task
      /\ semckd \in Nat /\ semin \in 0 .. 1 /\ semout \in 0 .. 1 /\ exitCode \in 0 .. 1
      /\ allocated \in Nat /\ traceSize \in Nat /\ mapped \in Nat
  BY <1>1 DEF Init, SemInit, ParentStates, ChildStates
<1> QED
  BY <1>1, <1>2, <1>3, <1>4, <1>5 DEF TypeOK

\* The steps of the child keep the types.
LEMMA ChildType ==
    ASSUME TypeOK, Control, Child \/ ChildCrash
    PROVE  TypeOK'
<1>0. mode.chunks \in Nat
  BY Constants DEF TypeOK
<1> USE <1>0 DEF TypeOK, Task, ChildStates
<1>1. CASE ChildStart
  BY <1>1 DEF ChildStart
<1>2. ASSUME NEW s \in ChunkSizes, EmulateChunk(s)
      PROVE  TypeOK'
  <2>1. Used + s \in Nat /\ ends' = Append(ends, Used + s) /\ Len(ends) < mode.chunks
    BY <1>2, UsedNat, Constants DEF EmulateChunk
  <2>2. ends' \in Seq(Nat) /\ Len(ends') <= mode.chunks
    BY <2>1, UsedAfter
  <2> QED
    BY <1>2, <2>2 DEF EmulateChunk, semVars
<1>3. CASE ReallocTrace
  BY <1>3 DEF ReallocTrace, semVars
<1>4. CASE ChunkDone
  BY <1>4 DEF ChunkDone, Control, ChildProgress
<1>5. CASE CompleteHeader
  BY <1>5 DEF CompleteHeader, semVars
<1>6. CASE PostIn
  BY <1>6 DEF PostIn, Control, Handshake
<1>7. CASE ChildWaitOut
  BY <1>7 DEF ChildWaitOut
<1>8. CASE ChildExit
  BY <1>8 DEF ChildExit
<1>9. CASE ChildCrash
  BY <1>9 DEF ChildCrash, semVars
<1> QED
  BY <1>1, <1>2, <1>3, <1>4, <1>5, <1>6, <1>7, <1>8, <1>9 DEF Child

\* The results of the first n chunks are tasks when the program has n chunks.
LEMMA InOrderType ==
    ASSUME NEW m \in Nat, NEW n \in 0 .. m
    PROVE  InOrder(n) \in Seq([id : 0 .. m, data : 0 .. m])
BY DEF InOrder

\* When every task has sent its result, the results are a permutation of the chunks read.
LEMMA ResultsPermute ==
    ASSUME TypeOK, Counting, queue = <<>>, running = {}
    PROVE  chunkId \in Nat /\ Permutes(results, chunkId)
<1>1. chunkId \in Nat /\ mode.chunks \in Nat
  BY Constants DEF TypeOK
<1>2. results \in Seq([id : Nat, data : Nat])
  <2>1. Task \subseteq [id : Nat, data : Nat]
    BY <1>1 DEF Task
  <2> QED
    BY <2>1, SeqMonotonic DEF TypeOK
<1>3. \A c \in 0 .. chunkId - 1 : \E i \in 1 .. Len(results) : results[i].id = c
  BY DEF Counting, HasTask
<1> QED
  BY <1>1, <1>2, <1>3 DEF Permutes, Counting, TasksOK, TaskOK, TasksDistinct

\* The steps of the parent keep the types.
LEMMA ParentType ==
    ASSUME TypeOK, Control, Counting, Parent \/ TimedWaitErr
    PROVE  TypeOK'
<1>0. mode.chunks \in Nat
  BY Constants DEF TypeOK
<1> USE <1>0 DEF TypeOK, Task, ChildStates, ParentStates, childVars
<1>1. ASSUME NEW ok \in BOOLEAN, Spawn(ok)
      PROVE  TypeOK'
  BY <1>1 DEF Spawn, semVars
<1>2. CASE TimedWaitOk
  BY <1>2 DEF TimedWaitOk, poolVars
<1>3. CASE TimedWaitErr
  BY <1>3 DEF TimedWaitErr, semVars, poolVars
<1>4. CASE ReadExitCode
  BY <1>4 DEF ReadExitCode, semVars, poolVars
<1>5. CASE StreamChunk
  <2>1. chunkId < mode.chunks
    BY <1>5, ChunkReady DEF StreamChunk
  <2>2. [id |-> chunkId, data |-> chunkId + 1] \in Task
    BY <2>1
  <2>3. Append(queue, [id |-> chunkId, data |-> chunkId + 1]) \in Seq(Task)
    BY <2>2, SeqAppend
  <2>4. /\ queue' \in {queue, Append(queue, [id |-> chunkId, data |-> chunkId + 1])}
        /\ chunkId' \in {chunkId, chunkId + 1}
        /\ ppc' \in {"segv", "check"} /\ semckd' \in Nat /\ mapped' \in Nat
        /\ UNCHANGED <<mode, cpc, semin, semout, shm, exitCode, allocated, traceSize, ends,
                       posted, running, results, traces>>
    BY <1>5, ReadEffect DEF StreamChunk
  <2>5. chunkId' \in 0 .. mode.chunks
    BY <2>1, <2>4
  <2>6. queue' \in Seq(Task)
    BY ONLY <2>3, <2>4, queue \in Seq(Task)
  <2> QED
    BY <2>4, <2>5, <2>6
<1>6. CASE CheckExit
  BY <1>6 DEF CheckExit, semVars, poolVars
<1>7. CASE DrainChunk
  <2>1. chunkId < mode.chunks
    BY <1>7, ChunkReady DEF DrainChunk
  <2>2. [id |-> chunkId, data |-> chunkId + 1] \in Task
    BY <2>1
  <2>3. Append(queue, [id |-> chunkId, data |-> chunkId + 1]) \in Seq(Task)
    BY <2>2, SeqAppend
  <2>4. /\ queue' \in {queue, Append(queue, [id |-> chunkId, data |-> chunkId + 1])}
        /\ chunkId' \in {chunkId, chunkId + 1}
        /\ ppc' \in {"segv", "drain"} /\ semckd' \in Nat /\ mapped' \in Nat
        /\ UNCHANGED <<mode, cpc, semin, semout, shm, exitCode, allocated, traceSize, ends,
                       posted, running, results, traces>>
    BY <1>7, ReadEffect DEF DrainChunk
  <2>5. chunkId' \in 0 .. mode.chunks
    BY <2>1, <2>4
  <2>6. queue' \in Seq(Task)
    BY ONLY <2>3, <2>4, queue \in Seq(Task)
  <2> QED
    BY <2>4, <2>5, <2>6
<1>8. CASE DrainEnd
  BY <1>8 DEF DrainEnd, semVars, poolVars
<1>9. CASE Collect
  <2>1. results' = InOrder(chunkId)
    BY <1>9, ResultsPermute, SortedTasks DEF Collect
  <2>2. results' \in Seq(Task)
    BY <2>1, InOrderType
  <2> QED
    BY <1>9, <2>2 DEF Collect, semVars
<1>10. CASE WaitIn
  BY <1>10 DEF WaitIn, poolVars
<1>11. CASE MapOutput
  <2>1. [i \in 1 .. Len(ends) |-> i] \in Seq(1 .. mode.chunks)
    <3>1. Len(ends) \in Nat /\ \A i \in 1 .. Len(ends) : i \in 1 .. mode.chunks
      OBVIOUS
    <3> QED
      BY <3>1
  <2> QED
    BY <1>11, <2>1 DEF MapOutput, semVars, poolVars
<1>12. CASE PostOut
  BY <1>12 DEF PostOut, poolVars, Control, Handshake
<1>13. CASE DropRunner
  BY <1>13 DEF DropRunner, poolVars
<1> QED
  BY <1>1, <1>2, <1>3, <1>4, <1>5, <1>6, <1>7, <1>8, <1>9, <1>10, <1>11, <1>12, <1>13 DEF Parent

\* The tasks of the pool keep the types.
LEMMA PoolType ==
    ASSUME TypeOK, Pool \/ UNCHANGED vars
    PROVE  TypeOK'
<1> USE DEF TypeOK, Task
<1>1. CASE StartTask
  <2>1. Head(queue) \in Task /\ Tail(queue) \in Seq(Task)
    BY <1>1, SeqHeadTail DEF StartTask
  <2> QED
    BY <1>1, <2>1 DEF StartTask, semVars, childVars
<1>2. ASSUME NEW t \in running, FinishTask(t)
      PROVE  TypeOK'
  BY <1>2 DEF FinishTask, semVars, childVars
<1>3. CASE UNCHANGED vars
  BY <1>3 DEF vars
<1> QED
  BY <1>1, <1>2, <1>3 DEF Pool

-----------------------------------------------------------------------------
(* Counting is preserved. *)

\* The part of Counting that only the tasks and the number of chunks read determine.
TaskInv ==
    /\ TasksOK
    /\ TasksDistinct
    /\ \A c \in 0 .. chunkId - 1 : HasTask(c)

\* No task is there at the start.
LEMMA InitCounting == Init => Counting
BY DEF Init, Counting, TasksOK, TasksDistinct, Collected, TracesComplete, Released

\* The numbers of the tasks are numbers.
LEMMA TaskIds ==
    ASSUME TypeOK
    PROVE  /\ chunkId \in Nat
           /\ Len(queue) \in Nat /\ \A i \in 1 .. Len(queue) : queue[i] \in Task /\ queue[i].id \in Nat
           /\ \A t \in running : t.id \in Nat
           /\ Len(results) \in Nat /\ \A i \in 1 .. Len(results) : results[i] \in Task /\ results[i].id \in Nat
<1>1. mode.chunks \in Nat
  BY Constants DEF TypeOK
<1>2. \A t \in Task : t.id \in Nat
  BY <1>1 DEF Task
<1>3. /\ Len(queue) \in Nat /\ \A i \in 1 .. Len(queue) : queue[i] \in Task
      /\ Len(results) \in Nat /\ \A i \in 1 .. Len(results) : results[i] \in Task
  BY SeqElement DEF TypeOK
<1> QED
  BY <1>1, <1>2, <1>3 DEF TypeOK

\* Nothing of the pool changes.
LEMMA PoolFrame ==
    ASSUME TaskInv, UNCHANGED <<chunkId, queue, running, results>>
    PROVE  TaskInv'
BY DEF TaskInv, TasksOK, TaskOK, TasksDistinct, HasTask

\* Reading a chunk queues a task for it, the first one of this chunk.
LEMMA QueueTask ==
    ASSUME TypeOK, TaskInv, UNCHANGED <<running, results>>,
           chunkId' = chunkId + 1,
           queue' = Append(queue, [id |-> chunkId, data |-> chunkId + 1])
    PROVE  TaskInv'
<1> DEFINE new == [id |-> chunkId, data |-> chunkId + 1]
           L == Len(queue)
<1>1. L \in Nat /\ chunkId \in Nat
  BY TaskIds
<1>2. /\ Len(queue') = L + 1 /\ queue'[L + 1] = new
      /\ \A i \in 1 .. L : queue'[i] = queue[i]
  BY <1>1 DEF TypeOK
<1>3. \A i \in 1 .. Len(queue') : i \in 1 .. L \/ i = L + 1
  BY <1>1, <1>2
<1>4. new.id = chunkId /\ new.data = chunkId + 1
  OBVIOUS
<1> HIDE DEF new, L
<1>5. TasksOK'
  BY <1>1, <1>2, <1>3, <1>4, TaskIds DEF TaskInv, TasksOK, TaskOK, L
<1>6. /\ \A i \in 1 .. L : queue[i].id # chunkId
      /\ \A t \in running : t.id # chunkId
      /\ \A i \in 1 .. Len(results) : results[i].id # chunkId
  BY TaskIds DEF TaskInv, TasksOK, TaskOK, L
<1>7. TasksDistinct'
  <2>1. \A i, j \in 1 .. Len(queue') : queue'[i].id = queue'[j].id => i = j
    BY <1>2, <1>3, <1>4, <1>6 DEF TaskInv, TasksDistinct, L
  <2>2. \A i \in 1 .. Len(queue') : \A t \in running : queue'[i].id # t.id
    BY <1>2, <1>3, <1>4, <1>6 DEF TaskInv, TasksDistinct, L
  <2>3. \A i \in 1 .. Len(queue') : \A j \in 1 .. Len(results) : queue'[i].id # results[j].id
    BY <1>2, <1>3, <1>4, <1>6 DEF TaskInv, TasksDistinct, L
  <2> QED
    BY <2>1, <2>2, <2>3 DEF TaskInv, TasksDistinct
<1>8. ASSUME NEW c \in 0 .. chunkId' - 1
      PROVE  HasTask(c)'
  <2>1. CASE c = chunkId
    <3>1. L + 1 \in 1 .. Len(queue') /\ queue'[L + 1].id = c
      BY <2>1, <1>1, <1>2, <1>4
    <3> QED
      BY <3>1 DEF HasTask
  <2>2. CASE c \in 0 .. chunkId - 1
    <3>1. HasTask(c)
      BY <2>2 DEF TaskInv
    <3>2. \A i \in 1 .. L : i \in 1 .. Len(queue')
      BY <1>1, <1>2
    <3> QED
      BY <3>1, <3>2, <1>2 DEF HasTask, L
  <2> QED
    BY <1>1, <2>1, <2>2
<1> QED
  BY <1>5, <1>7, <1>8 DEF TaskInv

\* A worker takes the oldest task.
LEMMA StartTaskInv ==
    ASSUME TypeOK, TaskInv, StartTask
    PROVE  TaskInv'
<1> DEFINE t0 == queue[1]
           L == Len(queue)
<1>1. L \in Nat /\ L >= 1
  BY DEF StartTask, TypeOK
<1>2. /\ Len(queue') = L - 1
      /\ \A i \in 1 .. Len(queue') : i + 1 \in 1 .. L /\ queue'[i] = queue[i + 1]
      /\ \A i \in 1 .. L : i = 1 \/ (i - 1 \in 1 .. Len(queue') /\ queue'[i - 1] = queue[i])
  BY <1>1 DEF StartTask, TypeOK
<1>3. running' = running \cup {t0} /\ UNCHANGED <<chunkId, results>>
  BY DEF StartTask
<1>4. 1 \in 1 .. L
  BY <1>1
<1> HIDE DEF t0, L
<1>5. TasksOK'
  BY <1>2, <1>3, <1>4 DEF TaskInv, TasksOK, TaskOK, L, t0
<1>6. TasksDistinct'
  <2>1. \A i, j \in 1 .. Len(queue') : queue'[i].id = queue'[j].id => i = j
    <3> TAKE i, j \in 1 .. Len(queue')
    <3> HAVE queue'[i].id = queue'[j].id
    <3>1. i + 1 = j + 1
      BY <1>2 DEF TaskInv, TasksDistinct, L
    <3> QED
      BY <3>1, <1>1, <1>2
  <2>2. \A i \in 1 .. Len(queue') : \A t \in running' : queue'[i].id # t.id
    <3> TAKE i \in 1 .. Len(queue')
    <3> TAKE t \in running'
    <3>1. i + 1 \in 1 .. L /\ i + 1 # 1 /\ queue'[i] = queue[i + 1]
      BY <1>1, <1>2
    <3>2. CASE t \in running
      BY <3>1, <3>2 DEF TaskInv, TasksDistinct, L
    <3>3. CASE t = t0
      BY <3>1, <3>3, <1>4 DEF TaskInv, TasksDistinct, L, t0
    <3> QED
      BY <1>3, <3>2, <3>3
  <2>3. \A i \in 1 .. Len(queue') : \A j \in 1 .. Len(results) : queue'[i].id # results[j].id
    BY <1>2 DEF TaskInv, TasksDistinct, L
  <2>4. \A t \in running' : \A j \in 1 .. Len(results) : t.id # results[j].id
    BY <1>3, <1>4 DEF TaskInv, TasksDistinct, L, t0
  <2> QED
    BY <1>3, <2>1, <2>2, <2>3, <2>4 DEF TaskInv, TasksDistinct
<1>7. ASSUME NEW c \in 0 .. chunkId' - 1
      PROVE  HasTask(c)'
  <2>1. HasTask(c)
    BY <1>3 DEF TaskInv
  <2>2. CASE \E i \in 1 .. Len(queue) : queue[i].id = c
    <3>1. PICK i \in 1 .. L : queue[i].id = c
      BY <2>2 DEF L
    <3>2. CASE i = 1
      BY <3>1, <3>2, <1>3 DEF HasTask, t0
    <3>3. CASE i # 1
      <4>1. i - 1 \in 1 .. Len(queue') /\ queue'[i - 1].id = c
        BY <3>1, <3>3, <1>2
      <4> QED
        BY <4>1 DEF HasTask
    <3> QED
      BY <3>2, <3>3
  <2>3. CASE ~\E i \in 1 .. Len(queue) : queue[i].id = c
    BY <2>1, <2>3, <1>3 DEF HasTask
  <2> QED
    BY <2>2, <2>3
<1> QED
  BY <1>5, <1>6, <1>7 DEF TaskInv

\* A task sends its result: no other running task is of the same chunk.
LEMMA FinishTaskInv ==
    ASSUME TypeOK, TaskInv, NEW t0 \in running, FinishTask(t0)
    PROVE  TaskInv'
<1> DEFINE L == Len(results)
<1>1. L \in Nat
  BY TaskIds
<1>2. running' = running \ {t0} /\ UNCHANGED <<chunkId, queue>>
  BY DEF FinishTask
<1>3. /\ Len(results') = L + 1 /\ results'[L + 1] = t0
      /\ \A i \in 1 .. L : results'[i] = results[i]
  BY <1>1 DEF FinishTask, TypeOK
<1>4. \A i \in 1 .. Len(results') : i \in 1 .. L \/ i = L + 1
  BY <1>1, <1>3
<1>5. ASSUME NEW t \in running, t.id = t0.id
      PROVE  t = t0
  <2>1. t.data = t0.data
    BY <1>5 DEF TaskInv, TasksOK, TaskOK
  <2>2. t \in Task /\ t0 \in Task
    BY DEF TypeOK
  <2> QED
    BY <2>1, <2>2, <1>5 DEF Task
<1> HIDE DEF L
<1>6. TasksOK'
  BY <1>2, <1>3, <1>4 DEF TaskInv, TasksOK, TaskOK, L
<1>7. TasksDistinct'
  <2>1. \A i, j \in 1 .. Len(results') : results'[i].id = results'[j].id => i = j
    BY <1>3, <1>4 DEF TaskInv, TasksDistinct, L
  <2>2. \A i \in 1 .. Len(queue) : \A j \in 1 .. Len(results') : queue[i].id # results'[j].id
    BY <1>3, <1>4 DEF TaskInv, TasksDistinct, L
  <2>3. \A t \in running' : \A j \in 1 .. Len(results') : t.id # results'[j].id
    BY <1>2, <1>3, <1>4, <1>5 DEF TaskInv, TasksDistinct, L
  <2> QED
    BY <1>2, <2>1, <2>2, <2>3 DEF TaskInv, TasksDistinct
<1>8. ASSUME NEW c \in 0 .. chunkId' - 1
      PROVE  HasTask(c)'
  <2>1. HasTask(c)
    BY <1>2 DEF TaskInv
  <2>2. \A i \in 1 .. L : i \in 1 .. Len(results')
    BY <1>1, <1>3
  <2>3. L + 1 \in 1 .. Len(results')
    BY <1>1, <1>3
  <2> QED
    BY <2>1, <2>2, <2>3, <1>2, <1>3 DEF HasTask, L
<1> QED
  BY <1>6, <1>7, <1>8 DEF TaskInv

\* Results in chunk order are the results of a permutation.
LEMMA CollectInv ==
    ASSUME TypeOK, Counting, Collect
    PROVE  /\ results' = InOrder(chunkId)
           /\ TaskInv'
<1>1. queue = <<>> /\ running = {} /\ UNCHANGED <<chunkId, queue, running>>
  BY DEF Collect
<1>2. chunkId \in Nat /\ results' = InOrder(chunkId)
  BY <1>1, ResultsPermute, SortedTasks DEF Collect
<1>3. /\ Len(results') = chunkId
      /\ \A i \in 1 .. chunkId : results'[i].id = i - 1 /\ results'[i].data = i
  BY <1>2 DEF InOrder
<1>4. TasksOK'
  BY <1>1, <1>2, <1>3 DEF TasksOK, TaskOK
<1>5. TasksDistinct'
  BY <1>1, <1>2, <1>3 DEF TasksDistinct
<1>6. ASSUME NEW c \in 0 .. chunkId' - 1
      PROVE  HasTask(c)'
  <2>1. c + 1 \in 1 .. Len(results') /\ results'[c + 1].id = c
    BY <1>1, <1>2, <1>3
  <2> QED
    BY <2>1 DEF HasTask
<1> QED
  BY <1>2, <1>4, <1>5, <1>6 DEF TaskInv

\* Every step keeps a task or a result for each chunk handed out.
LEMMA NextCounting ==
    ASSUME TypeOK, Control, Counting, [Next]_vars
    PROVE  Counting'
<1>0. TaskInv /\ Collected /\ TracesComplete
  BY DEF Counting, TaskInv
<1> SUFFICES TaskInv' /\ Collected' /\ TracesComplete'
  BY DEF Counting, TaskInv
<1>1. CASE Child \/ ChildCrash \/ UNCHANGED vars
  <2>1. UNCHANGED <<mode, ppc, chunkId, queue, running, results, traces>>
    BY <1>1 DEF Child, ChildStart, EmulateChunk, ReallocTrace, ChunkDone, CompleteHeader, PostIn,
       ChildWaitOut, ChildExit, ChildCrash, vars
  <2> QED
    BY <1>0, <2>1, PoolFrame DEF Collected, TracesComplete, InOrder
<1>2. CASE (\E ok \in BOOLEAN : Spawn(ok)) \/ TimedWaitOk \/ TimedWaitErr \/ ReadExitCode
           \/ CheckExit \/ DrainEnd \/ WaitIn \/ PostOut \/ DropRunner
  <2>1. UNCHANGED <<mode, chunkId, queue, running, results, traces>>
    BY <1>2 DEF Spawn, TimedWaitOk, TimedWaitErr, ReadExitCode, CheckExit, DrainEnd, WaitIn,
       PostOut, DropRunner, poolVars
  <2>2. mode.streaming /\ ppc' \in {"wait_in"} \cup Released => ppc \in {"wait_in"} \cup Released
    BY <1>2 DEF Spawn, TimedWaitOk, TimedWaitErr, ReadExitCode, CheckExit, DrainEnd, WaitIn,
       PostOut, DropRunner, Released
  <2>3. ppc' \in {"post_out", "done", "dropped"} => ppc \in {"post_out", "done", "dropped"}
    BY <1>2 DEF Spawn, TimedWaitOk, TimedWaitErr, ReadExitCode, CheckExit, DrainEnd, WaitIn,
       PostOut, DropRunner
  <2> QED
    BY <1>0, <2>1, <2>2, <2>3, PoolFrame DEF Collected, TracesComplete, InOrder
<1>3. CASE StreamChunk \/ DrainChunk
  <2>1. /\ \/ ppc' = "segv" /\ UNCHANGED <<queue, chunkId>>
           \/ /\ ppc' \in {"check", "drain"}
              /\ chunkId' = chunkId + 1
              /\ queue' = Append(queue, [id |-> chunkId, data |-> chunkId + 1])
        /\ UNCHANGED <<running, results>>
    BY <1>3, ReadEffect DEF StreamChunk, DrainChunk
  <2>2. TaskInv'
    BY <1>0, <2>1, PoolFrame, QueueTask
  <2> QED
    BY <2>1, <2>2 DEF Collected, TracesComplete, Released
<1>4. CASE Collect
  BY <1>4, CollectInv DEF Collect, Collected, TracesComplete, Released, InOrder
<1>5. CASE MapOutput
  <2>1. UNCHANGED <<mode, chunkId, queue, running, results>> /\ ppc = "map"
    BY <1>5 DEF MapOutput, poolVars
  <2>2. Collected'
    BY <1>0, <2>1 DEF Collected, InOrder, Released
  <2>3. Len(ends) = mode.chunks
    BY <2>1, Constants DEF TypeOK, Control, ReaderControl, ChildProgress, Released
  <2>4. TracesComplete'
    BY <1>5, <2>1, <2>3 DEF MapOutput, TracesComplete
  <2> QED
    BY <1>0, <2>1, <2>2, <2>4, PoolFrame
<1>6. CASE StartTask
  <2>1. queue # <<>> /\ UNCHANGED <<mode, ppc, traces>>
    BY <1>6 DEF StartTask
  <2> QED
    BY <1>0, <1>6, <2>1, StartTaskInv DEF Collected, TracesComplete
<1>7. ASSUME NEW t \in running, FinishTask(t)
      PROVE  TaskInv' /\ Collected' /\ TracesComplete'
  <2>1. running # {} /\ UNCHANGED <<mode, ppc, traces>>
    BY <1>7 DEF FinishTask
  <2> QED
    BY <1>0, <1>7, <2>1, FinishTaskInv DEF Collected, TracesComplete
<1> QED
  BY <1>1, <1>2, <1>3, <1>4, <1>5, <1>6, <1>7 DEF Next, Parent, Pool, Ended

-----------------------------------------------------------------------------
(* The timeout. *)

\* The parent has not given up at the start.
LEMMA InitGivesUp == Init => GivesUpRightly
BY DEF Init, GivesUpRightly, PanicMeansDead, Released

\* When waits are timely, the parent gives up only on a child that is gone.
LEMMA NextGivesUp ==
    ASSUME Timely, TypeOK, Control, GivesUpRightly, [Next]_vars
    PROVE  GivesUpRightly'
<1>0. mode.chunks \in Nat /\ mode.chunks >= 1
  BY Constants DEF TypeOK
<1> USE <1>0 DEF GivesUpRightly, PanicMeansDead, ChildBusy, Released
<1>1. CASE Child \/ ChildCrash
  <2>1. UNCHANGED <<mode, ppc, chunkId>>
    BY <1>1 DEF Child, ChildStart, EmulateChunk, ReallocTrace, ChunkDone, CompleteHeader, PostIn,
       ChildWaitOut, ChildExit, ChildCrash
  <2>2. ~ChildBusy => ~ChildBusy' /\ semckd' = semckd
    BY <1>1 DEF Child, ChildStart, EmulateChunk, ReallocTrace, ChunkDone, CompleteHeader, PostIn,
       ChildWaitOut, ChildExit, ChildCrash, semVars
  <2>3. cpc \in {"dead", "unborn"} => cpc' \in {"dead", "unborn"}
    BY <1>1 DEF Child, ChildStart, EmulateChunk, ReallocTrace, ChunkDone, CompleteHeader, PostIn,
       ChildWaitOut, ChildExit, ChildCrash
  <2> QED
    BY <2>1, <2>2, <2>3
<1>2. ASSUME NEW ok \in BOOLEAN, Spawn(ok)
      PROVE  GivesUpRightly'
  BY <1>2 DEF Spawn
<1>3. CASE TimedWaitOk \/ CheckExit \/ WaitIn \/ PostOut \/ DropRunner \/ Collect
  BY <1>3 DEF TimedWaitOk, CheckExit, WaitIn, PostOut, DropRunner, Collect, childVars
<1>4. CASE TimedWaitErr
  BY <1>4 DEF TimedWaitErr, semVars, childVars, TypeOK, ChildStates, Control, ChildProgress,
     PostsInStep, Finished
<1>5. CASE ReadExitCode
  BY <1>5 DEF ReadExitCode, semVars, childVars, TypeOK, ChildStates, Control, ChildProgress,
     PostsInStep, Finished
<1>6. CASE StreamChunk \/ DrainChunk
  BY <1>6, ReadEffect DEF StreamChunk, DrainChunk
<1>7. CASE DrainEnd
  BY <1>7 DEF DrainEnd, TypeOK, Control, ReaderControl, ChildProgress, PostsInStep
<1>8. CASE MapOutput
  <2>1. shm
    BY <1>8, <1>0 DEF MapOutput, TypeOK, Control, ReaderControl, ChildProgress, OutputNamed
  <2> QED
    BY <1>8, <2>1 DEF MapOutput
<1>9. CASE Pool \/ UNCHANGED vars
  BY <1>9 DEF Pool, StartTask, FinishTask, vars, semVars, childVars
<1> QED
  BY <1>1, <1>2, <1>3, <1>4, <1>5, <1>6, <1>7, <1>8, <1>9 DEF Next, Parent, Ended

-----------------------------------------------------------------------------
(* The theorems. *)

\* Every step keeps the inductive invariant.
LEMMA NextIInv == IInv /\ [Next]_vars => IInv'
<1> SUFFICES ASSUME IInv, [Next]_vars PROVE IInv'
  OBVIOUS
<1>1. Control'
  BY ChildControl, ParentControl, PoolControl DEF IInv, Next, Ended
<1>2. TypeOK'
  BY ChildType, ParentType, PoolType DEF IInv, Next, Ended
<1>3. Counting'
  BY NextCounting DEF IInv
<1>4. Timely => GivesUpRightly'
  BY NextGivesUp DEF IInv
<1> QED
  BY <1>1, <1>2, <1>3, <1>4 DEF IInv

\* The handshake's invariant holds in every state of the two processes and the pool.
THEOREM Invariance == Spec => []IInv
<1>1. Init => IInv
  BY InitType, InitControl, InitCounting, InitGivesUp DEF IInv
<1> QED
  BY <1>1, NextIInv, PTL DEF Spec

\* The state of the parent, the child and the pool is of its type: semin and semout are
\* posted at most once each, no more chunks are read than the program has, and every task is
\* of one of its chunks.
THEOREM TypeCorrect == Spec => []TypeOK
BY Invariance, PTL DEF IInv

\* _realloc_trace always leaves room for the largest chunk, with the threshold that the
\* unparenthesised macro MAX_CHUNK_TRACE_SIZE computes, for every sequence of chunk sizes.
THEOREM TraceAlwaysFits == Spec => []TraceFits
<1>1. IInv => TraceFits
  BY DEF IInv, Control, TraceRoom, TraceFits
<1> QED
  BY <1>1, Invariance, PTL

\* run_and_count() decodes a chunk only after the child has finished it, whatever the timeout
\* and wherever the child dies.
THEOREM FinishedChunksOnly == Spec => []ReadsFinishedChunks
<1>1. IInv => ReadsFinishedChunks
  BY DEF IInv, Counting, TasksOK, TaskOK, ReadsFinishedChunks
<1> QED
  BY <1>1, Invariance, PTL

\* map_output finds the shared memory: the child unlinks it after the parent's sem_out.post().
THEOREM AlwaysMappable == Spec => []OutputMappable
<1>1. IInv => OutputMappable
  <2> SUFFICES ASSUME IInv, ppc = "map" PROVE shm
    BY DEF OutputMappable
  <2>1. mode.chunks \in Nat /\ mode.chunks >= 1
    BY Constants DEF IInv, TypeOK
  <2> QED
    BY <2>1 DEF IInv, TypeOK, Control, ReaderControl, ChildProgress, OutputNamed, Released
<1> QED
  BY <1>1, Invariance, PTL

\* Whatever the timeout, what run_and_count() returns has the whole trace, and counts of a
\* prefix of the chunks, each once and in order.
PrefixCounted ==
    ppc = "done" =>
        /\ traces = [i \in 1 .. mode.chunks |-> i]
        /\ mode.streaming => chunkId <= mode.chunks /\ results = InOrder(chunkId)

\* Also a run that gives up early, which no error reports, counts chunks in order.
THEOREM AlwaysPrefix == Spec => []PrefixCounted
<1>1. IInv => PrefixCounted
  <2>1. TypeOK => chunkId <= mode.chunks
    BY Constants DEF TypeOK
  <2> QED
    BY <2>1 DEF IInv, Counting, Collected, TracesComplete, Released, PrefixCounted
<1> QED
  BY <1>1, Invariance, PTL

\* If no chunk takes longer than the timeout, the panic "Child process terminated" is true:
\* the child is dead or was never started.
THEOREM PanicIsTrue ==
    ASSUME Timely
    PROVE  Spec => []PanicMeansDead
<1>1. IInv => PanicMeansDead
  BY DEF IInv, GivesUpRightly
<1> QED
  BY <1>1, Invariance, PTL

\* If no chunk takes longer than the timeout, a run that returns has counted every chunk of
\* the program exactly once, in the order of the traces.
THEOREM AllChunksCounted ==
    ASSUME Timely
    PROVE  Spec => []CountsComplete
<1>1. IInv => CountsComplete
  BY DEF IInv, GivesUpRightly, Counting, Collected, TracesComplete, Released, CountsComplete,
     InOrder
<1> QED
  BY <1>1, Invariance, PTL

\* The name of the output is removed only when the parent has mapped the whole trace,
\* whichever of the child and the parent's Drop unlinks it.
UnlinkedAfterMapped == shm /\ ~shm' => traces = [i \in 1 .. mode.chunks |-> i]

\* shm_unlink comes after the last mapping of asm_mt_runner.rs.
THEOREM NamedUntilMapped == Spec => [][UnlinkedAfterMapped]_vars
<1>1. IInv /\ [Next]_vars => [UnlinkedAfterMapped]_vars
  <2> SUFFICES ASSUME IInv, Next, shm, ~shm'
               PROVE  traces = [i \in 1 .. mode.chunks |-> i]
    BY DEF UnlinkedAfterMapped
  <2>1. ChildExit \/ DropRunner
    BY DEF Next, Child, ChildStart, EmulateChunk, ReallocTrace, ChunkDone, CompleteHeader, PostIn,
       ChildWaitOut, ChildCrash, Parent, Spawn, TimedWaitOk, TimedWaitErr, ReadExitCode,
       StreamChunk, CheckExit, DrainChunk, DrainEnd, Collect, WaitIn, MapOutput, PostOut, Pool,
       ReadChunk, StartTask, FinishTask, Ended, vars
  <2>2. ppc \in {"done", "dropped"}
    BY <2>1 DEF ChildExit, DropRunner, IInv, Control, Handshake
  <2> QED
    BY <2>2 DEF IInv, Counting, TracesComplete
<1> QED
  BY <1>1, Invariance, PTL DEF Spec

-----------------------------------------------------------------------------
(* The mapping of the first chunk. *)

W == ChunkBody - ChunkHeader

\* The initial trace has room for every chunk of a program that is counted while it runs.
LargeEnough == \A m \in Modes : m.streaming => m.chunks * W <= m.size

\* No chunk ends beyond what its number allows, and the mapping is at least the initial trace.
MappingInv ==
    /\ \A i \in 1 .. Len(ends) : ends[i] <= i * W
    /\ mode.size <= traceSize
    /\ ends # <<>> \/ cpc \notin {"unborn", "start", "dead"} => mode.size <= allocated
    /\ mapped = 0 \/ mode.size <= mapped
    /\ ppc # "segv"

\* The width of a chunk in the shared memory is a positive number.
LEMMA WNat == W \in Nat /\ W >= 1
BY Constants DEF W

\* Products with a natural number keep the order.
LEMMA TimesMonotonic ==
    ASSUME NEW a \in Nat, NEW b \in Nat, NEW w \in Nat, a <= b
    PROVE  a * w \in Nat /\ a * w <= b * w
<1> DEFINE d == b - a
<1>1. d \in Nat /\ b = a + d
  OBVIOUS
<1> HIDE DEF d
<1>2. (a + d) * w = a * w + d * w /\ d * w \in Nat /\ a * w \in Nat
  BY <1>1
<1> QED
  BY <1>1, <1>2

\* One more chunk is at most W longer.
LEMMA UsedBound ==
    ASSUME TypeOK, MappingInv
    PROVE  /\ Used \in Nat /\ Len(ends) \in Nat
           /\ Used <= Len(ends) * W
<1>1. Used \in Nat /\ Len(ends) \in Nat /\ W \in Nat
  BY UsedNat, WNat DEF TypeOK
<1>2. CASE ends = <<>>
  <2>1. Len(ends) = 0 /\ Used = 0
    BY <1>2 DEF Used
  <2>2. 0 * W = 0
    BY <1>1
  <2> QED
    BY <1>1, <2>1, <2>2
<1>3. CASE ends # <<>>
  <2>1. Len(ends) \in 1 .. Len(ends)
    BY <1>1, <1>3 DEF TypeOK
  <2> QED
    BY <1>1, <1>3, <2>1 DEF MappingInv, Used
<1> QED
  BY <1>2, <1>3

\* A chunk that is ready ends inside the mapping.
LEMMA InsideMapping ==
    ASSUME LargeEnough, TypeOK, Control, MappingInv,
           ppc = "read" \/ (ppc = "drain" /\ semckd > 0)
    PROVE  Mapping \in Nat /\ mode.size <= Mapping /\ ChunkEnd(chunkId) <= Mapping
<1>1. /\ mode.chunks \in Nat /\ mode.size \in Nat /\ chunkId \in Nat /\ Len(ends) \in Nat
      /\ W \in Nat
  BY Constants, WNat DEF TypeOK
<1>2. chunkId + 1 <= mode.chunks /\ chunkId + 1 <= Len(ends) /\ ends # <<>>
  BY <1>1, ChunkReady DEF TypeOK, Control, ChildProgress
<1>3. mode.streaming
  BY DEF Control, ReaderControl
<1>4. Mapping \in Nat /\ mode.size <= Mapping
  BY <1>1, <1>2 DEF Mapping, MappingInv, TypeOK
<1>5. ChunkEnd(chunkId) = ends[chunkId + 1]
  BY <1>1, <1>2 DEF ChunkEnd
<1>6. ends[chunkId + 1] \in Nat /\ ends[chunkId + 1] <= (chunkId + 1) * W
  BY <1>1, <1>2 DEF TypeOK, MappingInv
<1>7. (chunkId + 1) * W \in Nat /\ (chunkId + 1) * W <= mode.chunks * W
  BY <1>1, <1>2, TimesMonotonic
<1>8. mode.chunks * W \in Nat /\ mode.chunks * W <= mode.size
  BY <1>1, <1>3, TimesMonotonic DEF LargeEnough, TypeOK
<1> QED
  BY <1>1, <1>4, <1>5, <1>6, <1>7, <1>8

\* In a region that is large enough, every step keeps the reads inside the mapping.
LEMMA NextMapping ==
    ASSUME LargeEnough, IInv, MappingInv, [Next]_vars
    PROVE  MappingInv'
<1>0. TypeOK /\ Control /\ mode.size \in Nat /\ W \in Nat
  BY Constants, WNat DEF IInv, TypeOK
<1> USE <1>0 DEF MappingInv
<1>1. CASE ChildStart
  BY <1>1 DEF ChildStart, TypeOK
<1>2. ASSUME NEW s \in ChunkSizes, EmulateChunk(s)
      PROVE  MappingInv'
  <2>1. s \in Nat /\ s <= W
    BY Constants DEF W
  <2>2. Used \in Nat /\ Len(ends) \in Nat /\ Used <= Len(ends) * W
    BY UsedBound
  <2>3. (Len(ends) + 1) * W = Len(ends) * W + W /\ Len(ends) * W \in Nat
    BY <2>2
  <2>4. Used + s <= (Len(ends) + 1) * W
    BY <2>1, <2>2, <2>3
  <2>5. /\ Len(ends') = Len(ends) + 1 /\ ends'[Len(ends) + 1] = Used + s
        /\ \A i \in 1 .. Len(ends) : ends'[i] = ends[i]
    BY <1>2, <2>1, <2>2 DEF EmulateChunk, TypeOK
  <2>6. \A i \in 1 .. Len(ends') : ends'[i] <= i * W
    BY <2>2, <2>4, <2>5
  <2>7. UNCHANGED <<mode, traceSize, allocated, mapped, ppc>> /\ cpc = "emulate"
    BY <1>2 DEF EmulateChunk
  <2> QED
    BY <2>6, <2>7
<1>3. CASE ReallocTrace
  BY <1>3 DEF ReallocTrace, TypeOK
<1>4. CASE ChunkDone \/ CompleteHeader \/ PostIn \/ ChildWaitOut \/ ChildExit
  BY <1>4 DEF ChunkDone, CompleteHeader, PostIn, ChildWaitOut, ChildExit
<1>5. CASE ChildCrash
  BY <1>5, Constants DEF ChildCrash, TypeOK
<1>6. ASSUME NEW ok \in BOOLEAN, Spawn(ok)
      PROVE  MappingInv'
  BY <1>6 DEF Spawn, Control, ChildProgress
<1>7. CASE TimedWaitOk \/ TimedWaitErr \/ ReadExitCode \/ CheckExit \/ DrainEnd \/ Collect
           \/ WaitIn \/ MapOutput \/ PostOut \/ DropRunner
  BY <1>7 DEF TimedWaitOk, TimedWaitErr, ReadExitCode, CheckExit, DrainEnd, Collect, WaitIn,
     MapOutput, PostOut, DropRunner, childVars
<1>8. CASE StreamChunk \/ DrainChunk
  <2>1. shm /\ mode.size <= Mapping /\ ~(ChunkEnd(chunkId) > Mapping)
    <3>1. ChunkEnd(chunkId) \in Nat
      BY DEF ChunkEnd, TypeOK
    <3> QED
      BY <1>8, <3>1, InsideMapping, ChunkReady DEF StreamChunk, DrainChunk
  <2>2. mapped' = Mapping /\ ppc' \in {"check", "drain"} /\ UNCHANGED <<mode, childVars>>
    BY <1>8, <2>1 DEF StreamChunk, DrainChunk, ReadChunk
  <2> QED
    BY <2>1, <2>2 DEF childVars
<1>9. CASE Pool \/ UNCHANGED vars
  BY <1>9 DEF Pool, StartTask, FinishTask, vars, childVars
<1> QED
  BY <1>1, <1>2, <1>3, <1>4, <1>5, <1>6, <1>7, <1>8, <1>9 DEF Next, Child, Parent, Ended

\* The fault of the run asm_realloc needs a trace that grows: if the initial trace has room
\* for all the chunks of the program, the parent never reads beyond the mapping it made when
\* the first chunk arrived.
THEOREM NoFaultWhenLarge ==
    ASSUME LargeEnough
    PROVE  Spec => []ReadsInsideMapping
<1>1. Init => MappingInv
  BY Constants DEF Init, MappingInv
<1>2. IInv /\ MappingInv /\ [Next]_vars => MappingInv'
  BY NextMapping
<1>3. MappingInv => ReadsInsideMapping
  BY DEF MappingInv, ReadsInsideMapping
<1> QED
  BY <1>1, <1>2, <1>3, Invariance, PTL DEF Spec

-----------------------------------------------------------------------------
(* The runner implements ChunkDelivery. *)

CountedBar == {results[i].id : i \in 1 .. Len(results)}

ChildBar == IF cpc = "dead" \/ (cpc = "unborn" /\ ppc # "spawn") THEN "lost" ELSE "working"

OutcomeBar ==
    CASE ppc \in {"done", "dropped"} -> "returned"
      [] ppc = "panic" -> "failed"
      [] ppc = "segv" -> "fault"
      [] OTHER -> "pending"

\* What the abstract state is in each state of the parent and the child.
LEMMA BarValues ==
    /\ ppc \in {"done", "dropped"} => OutcomeBar = "returned"
    /\ ppc = "panic" => OutcomeBar = "failed"
    /\ ppc = "segv" => OutcomeBar = "fault"
    /\ ppc \notin {"done", "dropped", "panic", "segv"} => OutcomeBar = "pending"
    /\ cpc = "dead" \/ (cpc = "unborn" /\ ppc # "spawn") => ChildBar = "lost"
    /\ cpc \notin {"dead", "unborn"} \/ (ppc = "spawn" /\ cpc = "unborn") => ChildBar = "working"
BY DEF OutcomeBar, ChildBar

\* The same in the next state.
LEMMA BarValuesPrimed ==
    /\ ppc' \in {"done", "dropped"} => OutcomeBar' = "returned"
    /\ ppc' = "panic" => OutcomeBar' = "failed"
    /\ ppc' = "segv" => OutcomeBar' = "fault"
    /\ ppc' \notin {"done", "dropped", "panic", "segv"} => OutcomeBar' = "pending"
    /\ cpc' = "dead" \/ (cpc' = "unborn" /\ ppc' # "spawn") => ChildBar' = "lost"
    /\ cpc' \notin {"dead", "unborn"} \/ (ppc' = "spawn" /\ cpc' = "unborn") => ChildBar' = "working"
BY DEF OutcomeBar, ChildBar

\* A stuttering step of the abstract specification.
LEMMA Stutter ==
    ASSUME UNCHANGED <<mode, posted>>, CountedBar' = CountedBar, ChildBar' = ChildBar,
           OutcomeBar' = OutcomeBar
    PROVE  UNCHANGED Delivery!vars
BY DEF Delivery!vars, CountedBar, ChildBar, OutcomeBar

\* When every task has sent its result, exactly the chunks read are counted.
LEMMA AllCounted ==
    ASSUME TypeOK, Counting, queue = <<>>, running = {}
    PROVE  CountedBar = 0 .. chunkId - 1
<1>1. chunkId \in Nat /\ Permutes(results, chunkId)
  BY ResultsPermute
<1>2. \A i \in 1 .. Len(results) : results[i].id \in 0 .. chunkId - 1
  BY <1>1, PermutesElim
<1>3. \A c \in 0 .. chunkId - 1 : \E i \in 1 .. Len(results) : results[i].id = c
  BY <1>1 DEF Permutes
<1> QED
  BY <1>2, <1>3 DEF CountedBar

\* Results in the order of the chunks have the ids 0, 1, 2 and so on.
LEMMA InOrderIds ==
    ASSUME NEW n \in Nat
    PROVE  {InOrder(n)[i].id : i \in 1 .. Len(InOrder(n))} = 0 .. n - 1
<1>1. Len(InOrder(n)) = n /\ \A i \in 1 .. n : InOrder(n)[i].id = i - 1
  BY DEF InOrder
<1>2. ASSUME NEW c \in 0 .. n - 1
      PROVE  \E i \in 1 .. n : InOrder(n)[i].id = c
  <2>1. c + 1 \in 1 .. n /\ (c + 1) - 1 = c
    OBVIOUS
  <2>2. InOrder(n)[c + 1].id = (c + 1) - 1
    BY <1>1, <2>1, Zenon
  <2> QED
    BY <2>1, <2>2, Zenon
<1>3. \A i \in 1 .. n : i - 1 \in 0 .. n - 1
  OBVIOUS
<1>4. \A i \in 1 .. n : InOrder(n)[i].id \in 0 .. n - 1
  BY <1>1, <1>3, Zenon
<1> QED
  BY <1>1, <1>2, <1>4, Zenon

\* Every step of the runner is a step of ChunkDelivery or leaves its state alone.
LEMMA Refines ==
    ASSUME Timely, IInv, IInv', [Next]_vars
    PROVE  [Delivery!Next]_(Delivery!vars)
<1>0. TypeOK /\ Control /\ Counting /\ GivesUpRightly /\ GivesUpRightly'
  BY DEF IInv
<1>00. mode.chunks \in Nat /\ mode.chunks >= 1 /\ mode.streaming \in BOOLEAN
  BY <1>0, Constants DEF TypeOK
<1> USE <1>0, <1>00
<1>1. CASE ChildStart \/ (\E s \in ChunkSizes : EmulateChunk(s)) \/ ReallocTrace \/ CompleteHeader
           \/ PostIn \/ ChildWaitOut \/ ChildExit
  <2>1. /\ UNCHANGED <<mode, posted, ppc, results>>
        /\ cpc \notin {"dead", "unborn"} /\ cpc' \notin {"dead", "unborn"}
    BY <1>1 DEF ChildStart, EmulateChunk, ReallocTrace, CompleteHeader, PostIn, ChildWaitOut,
       ChildExit
  <2> QED
    BY <2>1, BarValues, BarValuesPrimed, Stutter DEF CountedBar, OutcomeBar
<1>2. CASE ChunkDone
  <2>1. /\ UNCHANGED <<mode, ppc, results>> /\ posted' = posted + 1
        /\ cpc = "notify" /\ cpc' \notin {"dead", "unborn"}
    BY <1>2 DEF ChunkDone
  <2>2. posted < mode.chunks
    BY <2>1 DEF TypeOK, Control, ChildProgress
  <2>3. ChildBar = "working" /\ ChildBar' = "working"
    BY <2>1, BarValues, BarValuesPrimed
  <2>4. Delivery!Make
    BY <2>1, <2>2, <2>3 DEF Delivery!Make, ChildBar
  <2> QED
    BY <2>4 DEF Delivery!Next
<1>3. CASE ChildCrash
  <2>1. /\ UNCHANGED <<mode, ppc, results, posted>> /\ cpc' = "dead"
        /\ cpc \notin {"dead", "unborn"}
    BY <1>3, Constants DEF ChildCrash, TypeOK
  <2>2. ChildBar = "working" /\ ChildBar' = "lost"
    BY <2>1, BarValues, BarValuesPrimed
  <2>3. Delivery!Lose
    BY <2>1, <2>2 DEF Delivery!Lose, ChildBar
  <2> QED
    BY <2>3 DEF Delivery!Next
<1>4. ASSUME NEW ok \in BOOLEAN, Spawn(ok)
      PROVE  Delivery!Next \/ UNCHANGED Delivery!vars
  <2>1. /\ UNCHANGED <<mode, results, posted>> /\ ppc = "spawn" /\ cpc = "unborn"
        /\ ppc' \in {"wait_chunk", "wait_in"} /\ cpc' \in {"start", "unborn"}
    BY <1>4 DEF Spawn, Control, ChildProgress
  <2>2. ChildBar = "working" /\ OutcomeBar = "pending" /\ OutcomeBar' = "pending"
    BY <2>1, BarValues, BarValuesPrimed
  <2>3. CASE cpc' = "start"
    BY <2>1, <2>2, <2>3, BarValuesPrimed, Stutter DEF CountedBar
  <2>4. CASE cpc' = "unborn"
    <3>1. ChildBar' = "lost"
      BY <2>1, <2>4, BarValuesPrimed
    <3>2. Delivery!Lose
      BY <2>1, <2>2, <3>1 DEF Delivery!Lose, ChildBar, OutcomeBar
    <3> QED
      BY <3>2 DEF Delivery!Next
  <2> QED
    BY <2>1, <2>3, <2>4
<1>5. CASE TimedWaitOk \/ CheckExit \/ DrainEnd \/ WaitIn \/ StartTask
  <2>1. /\ UNCHANGED <<mode, posted, cpc, results>> /\ (ppc = "spawn") = (ppc' = "spawn")
        /\ \/ ppc' = ppc
           \/ /\ ppc \notin {"done", "dropped", "panic", "segv"}
              /\ ppc' \notin {"done", "dropped", "panic", "segv"}
    BY <1>5 DEF TimedWaitOk, CheckExit, DrainEnd, WaitIn, StartTask, childVars, poolVars
  <2>2. OutcomeBar' = OutcomeBar
    <3>1. CASE ppc' = ppc
      BY <3>1 DEF OutcomeBar
    <3>2. CASE ppc' # ppc
      BY <2>1, <3>2, BarValues, BarValuesPrimed
    <3> QED
      BY <3>1, <3>2
  <2> QED
    BY <2>1, <2>2, Stutter DEF CountedBar, ChildBar
<1>6. CASE TimedWaitErr \/ ReadExitCode
  <2>1. /\ UNCHANGED <<mode, posted, cpc, results>> /\ ppc \in {"wait_chunk", "err"}
        /\ ppc' \in {"err", "collect", "panic"}
    BY <1>6 DEF TimedWaitErr, ReadExitCode, childVars, poolVars
  <2>2. CASE ppc' # "panic"
    <3>1. OutcomeBar = "pending" /\ OutcomeBar' = "pending"
      BY <2>1, <2>2, BarValues, BarValuesPrimed
    <3> QED
      BY <2>1, <3>1, Stutter DEF CountedBar, ChildBar
  <2>3. CASE ppc' = "panic"
    <3>1. cpc \in {"dead", "unborn"}
      BY <2>1, <2>3 DEF GivesUpRightly, PanicMeansDead
    <3>2. ChildBar = "lost" /\ ChildBar' = "lost" /\ OutcomeBar = "pending" /\ OutcomeBar' = "failed"
      BY <2>1, <2>3, <3>1, BarValues, BarValuesPrimed
    <3>3. Delivery!GiveUp
      BY <2>1, <3>2 DEF Delivery!GiveUp, ChildBar, OutcomeBar
    <3> QED
      BY <3>3 DEF Delivery!Next
  <2> QED
    BY <2>2, <2>3
<1>7. CASE StreamChunk \/ DrainChunk
  <2>1. /\ UNCHANGED <<mode, posted, cpc, results>> /\ ppc \in {"read", "drain"}
        /\ ppc' \in {"check", "drain", "segv"}
    BY <1>7, ReadEffect DEF StreamChunk, DrainChunk
  <2>2. mode.streaming /\ posted > 0
    BY <1>7, <2>1, ChunkReady DEF Control, ReaderControl, TypeOK, StreamChunk, DrainChunk
  <2>3. OutcomeBar = "pending" /\ ChildBar' = ChildBar
    BY <2>1, BarValues DEF ChildBar
  <2>4. CASE ppc' # "segv"
    <3>1. OutcomeBar' = "pending"
      BY <2>1, <2>4, BarValuesPrimed
    <3> QED
      BY <2>1, <2>3, <3>1, Stutter DEF CountedBar
  <2>5. CASE ppc' = "segv"
    <3>1. OutcomeBar' = "fault"
      BY <2>5, BarValuesPrimed
    <3>2. Delivery!Fault
      BY <2>1, <2>2, <2>3, <3>1 DEF Delivery!Fault, ChildBar, OutcomeBar
    <3> QED
      BY <3>2 DEF Delivery!Next
  <2> QED
    BY <2>4, <2>5
<1>8. CASE Collect
  <2>1. /\ UNCHANGED <<mode, posted, cpc, chunkId, queue, running>> /\ ppc = "collect" /\ ppc' = "wait_in"
        /\ queue = <<>> /\ running = {}
    BY <1>8 DEF Collect, childVars
  <2>2. CountedBar = 0 .. chunkId - 1
    BY <2>1, AllCounted
  <2>3. CountedBar' = 0 .. chunkId' - 1
    <3>1. chunkId' \in Nat /\ results' = InOrder(chunkId')
      BY <1>8, <2>1, CollectInv DEF TypeOK
    <3> QED
      BY <3>1, InOrderIds DEF CountedBar
  <2>4. OutcomeBar = "pending" /\ OutcomeBar' = "pending" /\ ChildBar' = ChildBar
    BY <2>1, BarValues, BarValuesPrimed DEF ChildBar
  <2> QED
    BY <2>1, <2>2, <2>3, <2>4, Stutter
<1>9. CASE MapOutput
  <2>1. shm
    BY <1>9 DEF MapOutput, TypeOK, Control, ReaderControl, ChildProgress, OutputNamed, Released
  <2>2. UNCHANGED <<mode, posted, cpc, results>> /\ ppc = "map" /\ ppc' = "post_out"
    BY <1>9, <2>1 DEF MapOutput, childVars, poolVars
  <2>3. OutcomeBar = "pending" /\ OutcomeBar' = "pending" /\ ChildBar' = ChildBar
    BY <2>2, BarValues, BarValuesPrimed DEF ChildBar
  <2> QED
    BY <2>2, <2>3, Stutter DEF CountedBar
<1>10. CASE PostOut
  <2>1. UNCHANGED <<mode, posted, cpc, results>> /\ ppc = "post_out" /\ ppc' = "done"
    BY <1>10 DEF PostOut, childVars, poolVars
  <2>2. posted = mode.chunks
    BY <2>1 DEF Control, ReaderControl, ChildProgress, Released
  <2>3. mode.streaming => CountedBar = 0 .. mode.chunks - 1
    <3>1. mode.streaming => chunkId = mode.chunks /\ queue = <<>> /\ running = {}
      BY <2>1 DEF GivesUpRightly, Counting, Collected, Released
    <3> QED
      BY <3>1, AllCounted
  <2>4. OutcomeBar = "pending" /\ OutcomeBar' = "returned"
    BY <2>1, BarValues, BarValuesPrimed
  <2>5. Delivery!Return
    BY <2>1, <2>2, <2>3, <2>4 DEF Delivery!Return, ChildBar, OutcomeBar, CountedBar
  <2> QED
    BY <2>5 DEF Delivery!Next
<1>11. CASE DropRunner
  <2>1. UNCHANGED <<mode, posted, cpc, results>> /\ ppc = "done" /\ ppc' = "dropped"
    BY <1>11 DEF DropRunner, childVars, poolVars
  <2>2. OutcomeBar = "returned" /\ OutcomeBar' = "returned" /\ ChildBar' = ChildBar
    BY <2>1, BarValues, BarValuesPrimed DEF ChildBar
  <2> QED
    BY <2>1, <2>2, Stutter DEF CountedBar
<1>12. ASSUME NEW t \in running, FinishTask(t)
       PROVE  Delivery!Next \/ UNCHANGED Delivery!vars
  <2>1. /\ UNCHANGED <<mode, posted, cpc, ppc>> /\ ppc \notin {"panic", "segv"}
        /\ results' = Append(results, t)
    BY <1>12 DEF FinishTask, ParentAlive, childVars
  <2>2. chunkId \in Nat /\ posted \in Nat /\ t.id \in Nat /\ t.id < chunkId /\ chunkId <= posted
    BY TaskIds DEF TypeOK, Control, PostsInStep, Counting, TasksOK, TaskOK
  <2>3. mode.streaming
    BY <2>2 DEF Control, ReaderControl
  <2>4. ppc \notin {"done", "dropped"}
    BY <2>3, <1>12 DEF Counting, Collected, Released
  <2>5. OutcomeBar = "pending"
    BY <2>1, <2>4, BarValues
  <2>6. t.id \notin CountedBar
    BY <1>12 DEF CountedBar, Counting, TasksDistinct
  <2>7. CountedBar' = CountedBar \cup {t.id}
    <3>1. /\ Len(results) \in Nat /\ Len(results') = Len(results) + 1
          /\ results'[Len(results) + 1] = t
          /\ \A i \in 1 .. Len(results) : results'[i] = results[i]
      BY <2>1 DEF TypeOK
    <3>2. 1 .. Len(results') = 1 .. Len(results) \cup {Len(results) + 1}
      BY <3>1
    <3> QED
      BY <3>1, <3>2 DEF CountedBar
  <2>8. Delivery!Count(t.id) /\ t.id \in 0 .. posted - 1
    BY <2>1, <2>2, <2>3, <2>5, <2>6, <2>7 DEF Delivery!Count, ChildBar, OutcomeBar, CountedBar
  <2> QED
    BY <2>8 DEF Delivery!Next
<1>13. CASE UNCHANGED vars
  BY <1>13, Stutter DEF vars, CountedBar, ChildBar, OutcomeBar
<1> QED
  BY <1>1, <1>2, <1>3, <1>4, <1>5, <1>6, <1>7, <1>8, <1>9, <1>10, <1>11, <1>12, <1>13
  DEF Next, Child, Parent, Pool, Ended

\* If no chunk takes longer than the timeout, the two processes with their semaphores, shared
\* memory and thread pool implement ChunkDelivery: run_and_count() and run() return only
\* complete results and give up only on a lost child.
THEOREM ImplementsDelivery ==
    ASSUME Timely
    PROVE  Spec => DeliversChunks
<1>1. Init => Delivery!Init
  <2> SUFFICES ASSUME Init PROVE Delivery!Init
    OBVIOUS
  <2>1. mode.chunks \in Nat \ {0} /\ mode.streaming \in BOOLEAN
    BY Constants DEF Init
  <2>2. CountedBar = {} /\ posted = 0 /\ ChildBar = "working" /\ OutcomeBar = "pending"
    BY BarValues DEF Init, CountedBar
  <2> QED
    BY <2>1, <2>2 DEF Delivery!Init, CountedBar, ChildBar, OutcomeBar
<1>2. IInv /\ IInv' /\ [Next]_vars => [Delivery!Next]_(Delivery!vars)
  BY Refines
<1> QED
  BY <1>1, <1>2, Invariance, PTL DEF Spec, DeliversChunks, Delivery!Spec
=============================================================================
