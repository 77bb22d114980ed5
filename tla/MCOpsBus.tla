------------------------------ MODULE MCOpsBus ------------------------------
(***************************************************************************)
(* OpsBus for TLC: words of 8 bits, so that a byte has one bit and a chunk *)
(* of the arithmetic machine two.  Every operation that the transpiler     *)
(* emits meets every pair of a set of operands around the boundaries, and  *)
(* some executions of two and three chunks mix the machines.               *)
(***************************************************************************)
EXTENDS OpsBus

Values == <<0, 1, 3, 7, 8, 15, 16, 100, 127, 128, 240, 254, 255>>

\* No instruction compiles to the other comparisons.
Emitted ==
    (BinaryOps \cup BinaryEOps \cup ArithOps)
        \ {"leu", "le", "leu_w", "le_w", "ltu_w", "lt_w", "eq_w"}

\* One chunk: an operation on a and on every value.
Single(op, a) ==
    <<[n \in DOMAIN Values |-> <<op, a, Values[n]>>]>>

MixedWorks ==
    { << <<<<"add", 200, 100>>, <<"div", 128, 3>>>>, <<<<"sll", 3, 5>>, <<"rem", 7, 0>>>> >>,
      << <<<<"add", 255, 1>>, <<"add", 3, 4>>, <<"add", 15, 1>>>>,
         <<<<"add", 16, 240>>, <<"add", 9, 9>>, <<"ltu", 2, 1>>>> >>,
      << <<<<"rem_w", 248, 7>>>>, <<<<"sub", 1, 2>>, <<"mul", 255, 255>>>>,
         <<<<"div_w", 9, 254>>, <<"add_w", 15, 15>>, <<"sra", 128, 7>>>> >>,
      << <<<<"xor", 5, 3>>>>, <<<<"mulh", 128, 128>>>>, <<<<"signextend_h", 0, 2>>>> >>,
      << <<<<"add", 1, 1>>>>, <<>>, <<<<"add", 2, 2>>>> >>,
      << <<<<"flag", 0, 0>>>>, <<<<"copyb", 1, 2>>>> >> }

MCWorks ==
    {Single(op, a) : op \in Emitted, a \in ToSet(Values)} \cup MixedWorks

MCNumRows == [basic |-> 8, add |-> 8, extension |-> 8, arith |-> 8]
MCRowSize == [basic |-> 5, add |-> 3]
=============================================================================
