----------------------------- MODULE MCMinTrace -----------------------------
(***************************************************************************)
(* MinTrace for TLC: words of 8 cells, a RAM of seven words, and a menu of *)
(* instructions with every kind of source, store, operation and jump.      *)
(***************************************************************************)
EXTENDS MinTrace

\* An instruction that goes on with the next one.
Inst(aSrc, a, bSrc, b, width, op, store, to) ==
    [aSrc |-> aSrc, a |-> a, bSrc |-> bSrc, b |-> b, width |-> width, op |-> op,
     store |-> store, to |-> to, storeRa |-> FALSE, setPc |-> FALSE, jmp1 |-> 1,
     jmp2 |-> 1, end |-> FALSE]

\* What a program starts with: a pointer, a number, or a parameter of a call.
Setups ==
    { Inst("imm", 0, "imm", 8, 8, "copyb", "reg", 1),
      Inst("imm", 200, "mem", 44, 8, "add", "reg", 10),     \* word at half a word
      Inst("imm", 1, "imm", 77, 8, "fcall_param", "none", 0) }

\* Loads and stores of a word, narrow and crossing.
LoadStore ==
    { Inst("reg", 1, "ind", 36, 4, "signextend_w", "reg", 2),   \* narrow load
      Inst("reg", 1, "ind", 38, 4, "copyb", "reg", 10),         \* narrow, crossing
      Inst("mem", 0, "mem", 43, 8, "add", "mem", 48),           \* words, b crossing
      Inst("reg", 1, "reg", 10, 2, "copyb", "ind", 42),         \* narrow store
      Inst("reg", 1, "c", 0, 8, "copyb", "ind", 0),             \* store of a word
      Inst("reg", 1, "imm", 37, 4, "copyb", "ind", 38) }        \* narrow, crossing

\* Operations on registers, the last result and the step.
Operations ==
    { Inst("reg", 10, "reg", 1, 8, "sub", "reg", 2),
      Inst("c", 0, "c", 0, 8, "mulu", "reg", 10),
      Inst("step", 0, "reg", 1, 8, "xor", "mem", 46) }

\* Precompiles and calls for free input.
Calls ==
    { Inst("step", 0, "reg", 10, 8, "keccak", "none", 0),
      Inst("step", 0, "imm", 32, 8, "sha256", "none", 0),
      Inst("step", 0, "imm", 0, 8, "arith256", "none", 0),
      Inst("step", 0, "imm", 0, 8, "arith256_mod", "none", 0),
      Inst("step", 0, "imm", 0, 8, "secp256k1_add", "none", 0),
      Inst("step", 0, "reg", 1, 8, "secp256k1_dbl", "none", 0),
      Inst("imm", 2, "imm", 32, 8, "fcall_param", "none", 0),
      Inst("imm", 5, "imm", 0, 8, "fcall", "none", 0),
      Inst("imm", 0, "mem", 56, 8, "fcall_get", "reg", 10) }

\* A loop back and a call through a register.
Jumps ==
    { [Inst("step", 0, "imm", 5, 8, "ltu", "mem", 40) EXCEPT !.jmp1 = -1],
      [Inst("imm", 254, "imm", 3, 8, "and", "reg", 1)
            EXCEPT !.setPc = TRUE, !.storeRa = TRUE, !.jmp1 = 1] }

Menu == LoadStore \cup Operations \cup Calls \cup Jumps

EndInst == [Inst("imm", 0, "imm", 0, 8, "copyb", "none", 0) EXCEPT !.end = TRUE]

MenuPrograms ==
    {[n \in 0 .. 3 |-> IF n = 0 THEN p[1] ELSE IF n = 3 THEN EndInst ELSE p[n + 1]] :
        p \in Setups \X Menu \X Menu}

\* Five pointers, and two words for them to point to.
WordsOf(words) ==
    [k \in 0 .. 8 * Len(words) - 1 |-> (words[(k \div 8) + 1] \div 2 ^ (k % 8)) % 2]
Pointers == {WordsOf(<<40, 40, 48, 48, 40, 205, 114>>)}
=============================================================================
