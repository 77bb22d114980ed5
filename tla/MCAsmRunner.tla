----------------------------- MODULE MCAsmRunner -----------------------------
(***************************************************************************)
(* AsmRunner for TLC.                                                      *)
(***************************************************************************)
EXTENDS AsmRunner

Mode(streaming, chunks, size, mayCrash, spawnMayFail) ==
    [streaming |-> streaming, chunks |-> chunks, size |-> size, mayCrash |-> mayCrash,
     spawnMayFail |-> spawnMayFail]

\* Chunks are counted while the child emulates, or the whole trace is waited for and
\* grows twice.  The child may fail to start and may die in every state.
Alive == {"start", "emulate", "realloc", "notify", "complete", "post_in", "wait_out", "unlink"}
AllModes == {Mode(TRUE, 4, 12, Alive, TRUE), Mode(FALSE, 5, 2, Alive, TRUE)}

\* Nothing fails, and the trace has to grow while it is being read.
ReallocModes == {Mode(TRUE, 3, 4, {}, FALSE)}
=============================================================================
