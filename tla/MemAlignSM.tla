----------------------------- MODULE MemAlignSM -----------------------------
(***************************************************************************)
(* The memory alignment machine (state-machines/mem/src): the rows that    *)
(* prove one access that is no whole word, the aligned accesses the memory *)
(* machine gets for it, and, from the constraints beside them              *)
(* (state-machines/mem/pil), what the written rows have to satisfy and     *)
(* which accesses they prove and assume.                                   *)
(*                                                                         *)
(* A word is the function of its 8 bytes: all shifts and masks of the code *)
(* are of whole bytes.  An access is what stands on the memory bus: wr,    *)
(* addr, step, bytes, the words mem[1] and mem[2] that hold the data and,  *)
(* of a write, the value.                                                  *)
(***************************************************************************)
EXTENDS Integers, Sequences, FiniteSets, SequencesExt

ChunkNum == 8
Positions == 0 .. ChunkNum - 1
Zero == [i \in Positions |-> 0]

Shl(w, n) == [i \in Positions |-> IF i >= n THEN w[i - n] ELSE 0]
Shr(w, n) == [i \in Positions |-> IF i + n < ChunkNum THEN w[i + n] ELSE 0]
Keep(w, set) == [i \in Positions |-> IF i \in set THEN w[i] ELSE 0]
Merged(w, v, set) == [i \in Positions |-> IF i \in set THEN v[i] ELSE w[i]]

-----------------------------------------------------------------------------
(* MemHelpers *)

AddrW(a) == a.addr \div ChunkNum
Offset(a) == a.addr % ChunkNum
IsAligned(a) == Offset(a) = 0 /\ a.bytes = 8
IsDouble(a) == Offset(a) + a.bytes > 8

\* Positions of the first and of the second word that the access covers.
InFirst(a) == {i \in Positions : i >= Offset(a) /\ i < Offset(a) + a.bytes}
InSecond(a) == {i \in Positions : i + ChunkNum < Offset(a) + a.bytes}

\* A mutated form of WriteValues: the bytes of the register beyond the width go with it.
WriteValuesWide(a) ==
    <<Merged(a.mem[1], Shl(a.value, Offset(a)), {i \in Positions : i >= Offset(a)}),
      IF IsDouble(a)
      THEN Merged(a.mem[2], Shr(a.value, ChunkNum - Offset(a)), InSecond(a))
      ELSE a.mem[2]>>

\* get_write_values
WriteValues(a) ==
    <<Merged(a.mem[1], Shl(a.value, Offset(a)), InFirst(a)),
      IF IsDouble(a)
      THEN Merged(a.mem[2], Shr(a.value, ChunkNum - Offset(a)), InSecond(a))
      ELSE a.mem[2]>>

\* get_read_value: of the second word, the part that is moved up has been moved down first.
ReadValue(a) ==
    LET off == Offset(a)
        low == Shr(a.mem[1], off)
        high == Shl(Shr(a.mem[2], off), ChunkNum - off)
        both == IF IsDouble(a)
                THEN Merged(low, high, {i \in Positions : i >= ChunkNum - off}) ELSE low
    IN  Keep(both, 0 .. a.bytes - 1)

\* MemAlignInput: the value of a read is not on the bus, the collector works it out.
AlignInput(a) == [a EXCEPT !.value = IF a.wr THEN a.value ELSE ReadValue(a)]

\* bus_data_to_input: the aligned accesses that MemSM gets, in the order of their steps.
MemInputs(a) ==
    LET w == AddrW(a)
        Input(addr, wr, step, value) ==
            [addr |-> addr, wr |-> wr, step |-> step, value |-> value]
        Read(i) == Input(w + i - 1, FALSE, a.step, a.mem[i])
        Write(i) == Input(w + i - 1, TRUE, a.step + 1, WriteValues(a)[i])
    IN  CASE IsAligned(a) ->
                <<Input(w, a.wr, a.step, IF a.wr THEN a.value ELSE a.mem[1])>>
          [] ~ IsAligned(a) /\ ~ a.wr /\ ~ IsDouble(a) -> <<Read(1)>>
          [] ~ IsAligned(a) /\ ~ a.wr /\ IsDouble(a) -> <<Read(1), Read(2)>>
          [] ~ IsAligned(a) /\ a.wr /\ ~ IsDouble(a) -> <<Read(1), Write(1)>>
          [] ~ IsAligned(a) /\ a.wr /\ IsDouble(a) -> <<Read(1), Read(2), Write(1), Write(2)>>

\* A mutated form of AlignRows: a write counts as one access of each word.
AlignRowsOfReads(a) == 1 + (IF IsDouble(a) THEN 2 ELSE 1)

\* mem_measure: the rows of an access that is not aligned.
AlignRows(a) == 1 + (IF IsDouble(a) THEN 2 ELSE 1) * (IF a.wr THEN 2 ELSE 1)

\* mem_measure: by how much the access raises the counter of each word.
WordCounts(a) ==
    [w \in AddrW(a) .. AddrW(a) + (IF ~ IsAligned(a) /\ IsDouble(a) THEN 1 ELSE 0) |->
        IF ~ IsAligned(a) /\ a.wr THEN 2 ELSE 1]

-----------------------------------------------------------------------------
(* MemAlignRomSM: the line of the program where the rows of an access start *)

OpSizes == [OneRead |-> 2, OneWrite |-> 3, TwoReads |-> 3, TwoWrites |-> 5]
OneWordCombinations == 20
TwoWordCombinations == 11
MemOpOf(a) ==
    IF IsDouble(a) THEN (IF a.wr THEN "TwoWrites" ELSE "TwoReads")
    ELSE (IF a.wr THEN "OneWrite" ELSE "OneRead")

PossibleWidths(oneWord, offset) ==
    CASE oneWord /\ offset <= 4 -> <<1, 2, 4>>
      [] oneWord /\ offset \in 5 .. 6 -> <<1, 2>>
      [] oneWord /\ offset = 7 -> <<1>>
      [] ~ oneWord /\ offset \in 1 .. 4 -> <<8>>
      [] ~ oneWord /\ offset \in 5 .. 6 -> <<4, 8>>
      [] ~ oneWord /\ offset = 7 -> <<2, 4, 8>>

TableOffset(op) ==
    LET one == OneWordCombinations
        two == TwoWordCombinations
    IN  CASE op = "OneRead" -> 1
          [] op = "OneWrite" -> 1 + one * OpSizes.OneRead
          [] op = "TwoReads" -> 1 + one * OpSizes.OneRead + one * OpSizes.OneWrite
          [] op = "TwoWrites" ->
                1 + one * OpSizes.OneRead + one * OpSizes.OneWrite + two * OpSizes.TwoReads

\* get_first_row_idx
FirstRow(op, offset, width) ==
    LET oneWord == op \in {"OneRead", "OneWrite"}
        before == (IF oneWord THEN 0 ELSE 1) .. offset - 1
        widths == PossibleWidths(oneWord, offset)
        index == CHOOSE i \in DOMAIN widths : widths[i] = width
    IN  TableOffset(op) + OpSizes[op] *
            (FoldSet(LAMBDA o, n : n + Len(PossibleWidths(oneWord, o)), 0, before) + index - 1)

NextPc(a) == FirstRow(MemOpOf(a), Offset(a), a.bytes)

\* calculate_next_pc: the lines whose multiplicity it raises.
LinesUsed(a) == NextPc(a) .. NextPc(a) + OpSizes[MemOpOf(a)] - 1

-----------------------------------------------------------------------------
(* MemAlignSM: the rows *)

EmptyRow ==
    [step |-> 0, addr |-> 0, deltaAddr |-> 0, offset |-> 0, width |-> 0, wr |-> FALSE,
     pc |-> 0, reset |-> FALSE, up |-> FALSE, down |-> FALSE, sel |-> {}, reg |-> Zero,
     prove |-> FALSE, value |-> Zero]
PaddingRow == [EmptyRow EXCEPT !.reset = TRUE]

\* A row of an aligned access that hands its selected bytes to the next row (up to
\* down) or takes them from the previous one (down to up).
ReadRow(a, addr, word, sel) ==
    [EmptyRow EXCEPT !.step = a.step, !.addr = addr, !.width = 8, !.reg = word,
                     !.value = word, !.sel = sel]
WriteRow(a, addr, word, sel) ==
    [ReadRow(a, addr, word, sel) EXCEPT !.step = a.step + 1, !.wr = TRUE]
UpToDown(row, pc) == [row EXCEPT !.up = TRUE, !.pc = pc, !.reset = pc = 0]
DownToUp(row, pc, delta) == [row EXCEPT !.down = TRUE, !.pc = pc, !.deltaAddr = delta]

\* The row of the access itself; its registers hold the value turned by the offset.
Turned(a) == [i \in Positions |-> a.value[(ChunkNum - Offset(a) + i) % ChunkNum]]
ValueRow(a, pc, reg) ==
    [EmptyRow EXCEPT !.step = a.step, !.addr = AddrW(a), !.offset = Offset(a),
                     !.width = a.bytes, !.wr = a.wr, !.pc = pc, !.prove = TRUE,
                     !.sel = {Offset(a)}, !.reg = reg, !.value = a.value]

From(n) == {i \in Positions : i >= n}
Below(n) == {i \in Positions : i < n}

OneRead(a) ==
    <<UpToDown(ReadRow(a, AddrW(a), a.mem[1], InFirst(a)), 0),
      ValueRow(a, NextPc(a), Turned(a))>>

\* A mutated form of OneWrite: the read row selects the bytes that change.
OneWriteSelSwapped(a) ==
    LET write == Merged(a.mem[1], Shl(a.value, Offset(a)), InFirst(a))
    IN  <<UpToDown(ReadRow(a, AddrW(a), a.mem[1], InFirst(a)), 0),
          UpToDown(WriteRow(a, AddrW(a), write, InFirst(a)), NextPc(a)),
          ValueRow(a, NextPc(a) + 1, Merged(Turned(a), write, InFirst(a)))>>

OneWrite(a) ==
    LET write == Merged(a.mem[1], Shl(a.value, Offset(a)), InFirst(a))
    IN  <<UpToDown(ReadRow(a, AddrW(a), a.mem[1], Positions \ InFirst(a)), 0),
          UpToDown(WriteRow(a, AddrW(a), write, InFirst(a)), NextPc(a)),
          ValueRow(a, NextPc(a) + 1, Merged(Turned(a), write, InFirst(a)))>>

RemBytes(a) == (Offset(a) + a.bytes) % ChunkNum

TwoReads(a) ==
    <<UpToDown(ReadRow(a, AddrW(a), a.mem[1], From(Offset(a))), 0),
      ValueRow(a, NextPc(a), Turned(a)),
      DownToUp(ReadRow(a, AddrW(a) + 1, a.mem[2], Below(RemBytes(a))), NextPc(a) + 1, 1)>>

FirstWrite(a) == Merged(a.mem[1], Shl(a.value, Offset(a)), From(Offset(a)))
SecondWrite(a) == Merged(a.mem[2], Shr(a.value, ChunkNum - Offset(a)), Below(RemBytes(a)))

\* The loop fills the value row from the registers of the second write row before it
\* has filled those: they are still zero.
TwoWrites(a) ==
    LET reg == [i \in Positions |->
                    IF i < RemBytes(a) THEN 0
                    ELSE IF i >= Offset(a) THEN FirstWrite(a)[i] ELSE Turned(a)[i]]
    IN  <<UpToDown(ReadRow(a, AddrW(a), a.mem[1], Below(Offset(a))), 0),
          UpToDown(WriteRow(a, AddrW(a), FirstWrite(a), From(Offset(a))), NextPc(a)),
          ValueRow(a, NextPc(a) + 1, reg),
          DownToUp(WriteRow(a, AddrW(a) + 1, SecondWrite(a), Below(RemBytes(a))),
                   NextPc(a) + 2, 1),
          DownToUp(ReadRow(a, AddrW(a) + 1, a.mem[2], From(RemBytes(a))), NextPc(a) + 3, 0)>>

\* prove_mem_align_op
RowsOf(a) ==
    CASE MemOpOf(a) = "OneRead" -> OneRead(a)
      [] MemOpOf(a) = "OneWrite" -> OneWrite(a)
      [] MemOpOf(a) = "TwoReads" -> TwoReads(a)
      [] MemOpOf(a) = "TwoWrites" -> TwoWrites(a)

-----------------------------------------------------------------------------
(* mem_align_rom.pil: the lines of the program *)

Line(pc, deltaPc, deltaAddr, offset, width, sel, wr, up, down) ==
    [pc |-> pc, deltaPc |-> deltaPc, deltaAddr |-> deltaAddr, offset |-> offset,
     width |-> width, sel |-> sel, wr |-> wr, reset |-> pc = 0, up |-> up, down |-> down]
PaddingLine == Line(0, 0, 0, 0, 0, {}, FALSE, FALSE, FALSE)

\* The lines of each program for an offset and a width, n the number of the first.
RV(n, o, w) ==
    <<Line(0, n, 0, 0, 8, o .. o + w - 1, FALSE, TRUE, FALSE),
      Line(n, -n, 0, o, w, {o}, FALSE, FALSE, FALSE)>>
RWV(n, o, w) ==
    <<Line(0, n, 0, 0, 8, Positions \ (o .. o + w - 1), FALSE, TRUE, FALSE),
      Line(n, 1, 0, 0, 8, o .. o + w - 1, TRUE, TRUE, FALSE),
      Line(n + 1, -(n + 1), 0, o, w, {o}, TRUE, FALSE, FALSE)>>
RVR(n, o, w) ==
    <<Line(0, n, 0, 0, 8, From(o), FALSE, TRUE, FALSE),
      Line(n, 1, 0, o, w, {o}, FALSE, FALSE, FALSE),
      Line(n + 1, -(n + 1), 1, 0, 8, Below((o + w) % 8), FALSE, FALSE, TRUE)>>
RWVWR(n, o, w) ==
    <<Line(0, n, 0, 0, 8, Below(o), FALSE, TRUE, FALSE),
      Line(n, 1, 0, 0, 8, From(o), TRUE, TRUE, FALSE),
      Line(n + 1, 1, 0, o, w, {o}, TRUE, FALSE, FALSE),
      Line(n + 2, 1, 1, 0, 8, Below((o + w) % 8), TRUE, FALSE, TRUE),
      Line(n + 3, -(n + 3), 0, 0, 8, From((o + w) % 8), FALSE, FALSE, TRUE)>>

\* The offsets and widths in the order of the columns OFFSET and WIDTH.
Repeated(os, ws) == FlattenSeq([i \in DOMAIN os |-> [j \in DOMAIN ws |-> <<os[i], ws[j]>>]])
OneWord ==
    Repeated(<<0, 1, 2, 3, 4>>, <<1, 2, 4>>) \o Repeated(<<5, 6>>, <<1, 2>>)
        \o Repeated(<<7>>, <<1>>)
TwoWords ==
    Repeated(<<1, 2, 3, 4>>, <<8>>) \o Repeated(<<5, 6>>, <<4, 8>>)
        \o Repeated(<<7>>, <<2, 4, 8>>)

\* Line k of the program is Rom[k + 1].
Rom ==
    <<PaddingLine>>
    \o FlattenSeq([i \in DOMAIN OneWord |->
            RV(1 + 2 * (i - 1), OneWord[i][1], OneWord[i][2])])
    \o FlattenSeq([i \in DOMAIN OneWord |->
            RWV(41 + 3 * (i - 1), OneWord[i][1], OneWord[i][2])])
    \o FlattenSeq([i \in DOMAIN TwoWords |->
            RVR(101 + 3 * (i - 1), TwoWords[i][1], TwoWords[i][2])])
    \o FlattenSeq([i \in DOMAIN TwoWords |->
            RWVWR(134 + 5 * (i - 1), TwoWords[i][1], TwoWords[i][2])])

-----------------------------------------------------------------------------
(* mem_align.pil: the constraints.  The rows of an instance form a ring.     *)

NextRow(rows, i) == rows[1 + (i % Len(rows))]
PrevRow(rows, i) == rows[IF i = 1 THEN Len(rows) ELSE i - 1]

Assumes(row) == row.up \/ row.down
Scanned(row) == [j \in Positions |-> row.reg[((CHOOSE o \in row.sel : TRUE) + j) % ChunkNum]]

LookedUp(rows, i) ==
    LET row == rows[i]
    IN  [pc |-> row.pc, deltaPc |-> NextRow(rows, i).pc - row.pc,
         deltaAddr |-> row.deltaAddr, offset |-> row.offset, width |-> row.width,
         sel |-> row.sel, wr |-> row.wr, reset |-> row.reset, up |-> row.up,
         down |-> row.down]

RowHolds(rows, i) ==
    LET row == rows[i]
    IN  /\ row.up => \A j \in row.sel : NextRow(rows, i).reg[j] = row.reg[j]
        /\ row.down => \A j \in row.sel : PrevRow(rows, i).reg[j] = row.reg[j]
        /\ i = 1 => row.pc = 0
        /\ row.deltaAddr = (IF row.reset THEN 0 ELSE row.addr - PrevRow(rows, i).addr)
        /\ ~ (row.prove /\ Assumes(row))
        /\ row.value = IF row.prove THEN Scanned(row)
                       ELSE IF Assumes(row) THEN row.reg ELSE Zero
        /\ LookedUp(rows, i) \in ToSet(Rom)

\* The tuple of the memory permutation that a row proves or assumes.
MemoryTuple(row) ==
    [wr |-> row.wr, addr |-> row.addr * ChunkNum + row.offset, step |-> row.step,
     width |-> row.width, value |-> row.value]
=============================================================================
