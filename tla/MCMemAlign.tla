----------------------------- MODULE MCMemAlign -----------------------------
(***************************************************************************)
(* MemAlign for TLC: every offset and width on its own, and executions of  *)
(* one and two chunks that mix accesses of 2, 3 and 5 rows with aligned    *)
(* ones so that instances of 6 rows are cut at all places.                 *)
(***************************************************************************)
EXTENDS MemAlign

MCNumRows == 6

\* Words with different bytes, and one with nothing but its lowest byte.
First == [i \in Positions |-> 1 + i]
Second == [i \in Positions |-> 11 + i]
Value == [i \in Positions |-> 21 + i]
Low == [Zero EXCEPT ![0] = 21]

Access(step, wr, offset, bytes, second, value) ==
    [wr |-> wr, addr |-> 16 + offset, step |-> step, bytes |-> bytes,
     mem |-> <<First, second>>, value |-> IF wr THEN value ELSE Zero]

Alone ==
    {<< <<Access(1, wr, offset, bytes, second, value)>> >> :
        wr \in BOOLEAN, offset \in Positions, bytes \in {1, 2, 4, 8},
        second \in {Zero, Second}, value \in {Value, Low}}

\* An aligned access and one of each number of rows.
Kinds(step) ==
    {Access(step, FALSE, 0, 8, Zero, Zero), Access(step, FALSE, 2, 4, Zero, Zero),
     Access(step, TRUE, 7, 1, Zero, Value), Access(step, FALSE, 5, 8, Zero, Zero),
     Access(step, TRUE, 6, 4, Second, Low)}

\* A chunk of up to n accesses from the main step s on.
UpTo(s, n) ==
    LET chunk[k \in 0 .. n] ==
            IF k = 0 THEN {<<>>}
            ELSE chunk[k - 1] \cup
                 {Append(c, a) : c \in {c \in chunk[k - 1] : Len(c) = k - 1},
                                 a \in Kinds(4 * (s + k) + 1)}
    IN  chunk[n]

MCExecutions ==
    Alone \cup {<<c>> : c \in UpTo(0, 3)}
          \cup {<<c, d>> : c \in UpTo(0, 2), d \in UpTo(4, 2)}

\* Reads over two words, with something in the second one.
TwoWordReads == {<< <<Access(1, FALSE, offset, 8, Second, Zero)>> >> : offset \in 1 .. 7}
=============================================================================
