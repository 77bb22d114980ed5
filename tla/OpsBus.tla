------------------------------- MODULE OpsBus -------------------------------
(***************************************************************************)
(* The operation bus from the counting of the operations to the witness of *)
(* the binary and arithmetic machines: a data bus per chunk carries the    *)
(* operations of the chunk and the comparisons that the arithmetic input   *)
(* generator derives from its divisions (data-bus/src/data_bus.rs), the    *)
(* counters of the chunks are planned into instances (binary_planner.rs,   *)
(* arith_planner.rs), the executor runs the chunks of an instance again to *)
(* collect its inputs, the instance writes its rows and counts what they   *)
(* look up, and the tables take the counts over at the end.                *)
(***************************************************************************)
EXTENDS ArithSM, PlanShares, Bags

CONSTANTS
    Works,        \* executions: sequences of chunks of operations <<op, a, b>>
    NumRows,      \* rows of an instance of each machine
    RowSize       \* columns of the binary machines

VARIABLES
    work,         \* the operations of the execution, by chunks
    counts,       \* the counters of the chunks, NoCounts before they are counted
    plans,        \* the planned instances, in the order of their global ids
    planned,      \* whether plan_sec has been called
    doing,        \* the instance whose witness is being computed, or 0
    inputs,       \* what its collectors hold, by chunks
    rows,         \* the rows of each instance, <<>> before
    mult,         \* the multiplicities that the table machines keep
    tables        \* the traces of the table instances

vars == <<work, counts, plans, planned, doing, inputs, rows, mult, tables>>

Airs == {"basic", "add", "extension", "arith"}
TableNames == {"basic", "extension", "arith", "range", "std"}
NoCounts == [add |-> 0, basic |-> 0, extension |-> 0, arith |-> 0, done |-> FALSE]

-----------------------------------------------------------------------------
(* The bus *)

\* OperationBusData::from_instruction: the operands of an operation of 32 bits are cut.
Is32(op) == Mode32(op) \/ IsM32(op) \/ op \in {"sll_w", "srl_w", "sra_w", "signextend_w"}
FromInstruction(d) ==
    IF Is32(d[1]) THEN <<d[1], U(d[2], W32), U(d[3], W32)>> ELSE d

\* The type that travels with an operation; the derived comparisons are Binary.
TypeOf(op) == IF op \in {"lt_abs_np", "lt_abs_pn", "gt"} THEN "Binary" ELSE OpType(op)

\* The bus that forgets what the devices answered with.
BusNoPending(chunk) == [n \in DOMAIN chunk |-> FromInstruction(chunk[n])]

\* What the devices of a chunk see: write_to_bus routes an operation to them and then,
\* in turn, what they answered with; only the arithmetic device answers.
Bus(chunk) ==
    FlattenSeq([n \in DOMAIN chunk |->
        LET d == FromInstruction(chunk[n])
        IN  <<d>> \o (IF TypeOf(d[1]) = "Arith" THEN GenerateInputs(d[1], d[2], d[3])
                      ELSE <<>>)])

\* The collector of an instance takes an operation of its machine.
Accepts(p, d) ==
    CASE p.air = "basic" -> TypeOf(d[1]) = "Binary" /\ (p.withAdds \/ d[1] # "add")
      [] p.air = "add" -> d[1] = "add"
      [] p.air = "extension" -> TypeOf(d[1]) = "BinaryE"
      [] p.air = "arith" -> TypeOf(d[1]) = "Arith"

\* measure of BinaryCounter and ArithCounterInputGen over the bus of a chunk.
Measured(chunk) ==
    LET Number(seen, P(_)) == Quantify(DOMAIN seen, LAMBDA n : P(seen[n][1]))
        Of(seen) ==
            [add |-> Number(seen, LAMBDA op : op = "add"),
             basic |-> Number(seen, LAMBDA op : TypeOf(op) = "Binary" /\ op # "add"),
             extension |-> Number(seen, LAMBDA op : TypeOf(op) = "BinaryE"),
             arith |-> Number(seen, LAMBDA op : TypeOf(op) = "Arith"), done |-> TRUE]
    IN  Of(Bus(chunk))

-----------------------------------------------------------------------------
(* The planners *)

CountsOf(f) == [k \in 0 .. Len(work) - 1 |-> counts[k + 1][f]]

\* BinaryPlanner::size_basic_of and size_basic_add_of
SizeOf(air, n) ==
    IF n = 0 THEN 0 ELSE ((n - 1 \div NumRows[air]) + 1) * RowSize[air]

EnableBinAdd ==
    LET adds == Total(CountsOf("add"))
        others == Total(CountsOf("basic"))
    IN  SizeOf("basic", others) + SizeOf("add", adds) < SizeOf("basic", adds + others)

\* The instances that plan() makes of the counters of a machine.
PlansFor(air, withAdds, cnt) ==
    LET shares == Shares(cnt, NumRows[air])
    IN  [p \in DOMAIN shares |->
            [air |-> air, withAdds |-> withAdds, collect |-> shares[p]]]

\* plan of BinaryPlanner, then plan of ArithPlanner.
PlanSec ==
    LET adds == CountsOf("add")
        others == CountsOf("basic")
        all == [k \in DOMAIN adds |-> adds[k] + others[k]]
    IN  PlansFor("extension", FALSE, CountsOf("extension"))
        \o (IF EnableBinAdd
            THEN PlansFor("add", FALSE, adds) \o PlansFor("basic", FALSE, others)
            ELSE PlansFor("basic", TRUE, all))
        \o PlansFor("arith", FALSE, CountsOf("arith"))

-----------------------------------------------------------------------------
(* Witnesses *)

BagOfSeq(s) == [x \in ToSet(s) |-> Quantify(DOMAIN s, LAMBDA n : s[n] = x)]
Copies(x, n) == IF n = 0 THEN EmptyBag ELSE x :> n

RowOf(air, d) ==
    CASE air = "basic" -> BasicRow(d[1], d[2], d[3])
      [] air = "add" -> AddRow(d[2], d[3])
      [] air = "extension" -> ExtensionRow(d[1], d[2], d[3])
      [] air = "arith" -> ArithRow(d[1], d[2], d[3])
PaddingOf(air) ==
    CASE air = "basic" -> BasicPadding
      [] air = "add" -> AddPadding
      [] air = "extension" -> ExtensionPadding
      [] air = "arith" -> ArithPadding

\* compute_witness: the rows of the inputs, then padding.
WitnessRows(air, in) ==
    [n \in 1 .. NumRows[air] |->
        IF n <= Len(in) THEN RowOf(air, in[n]) ELSE PaddingOf(air)]

None == [t \in TableNames |-> EmptyBag]
Eight(F(_)) == [k \in 1 .. 8 |-> F(k - 1)]

\* use_chunk_range_check and use_carry_range_check: the rows of the checks.
RangeRowsOf(checks) == [m \in DOMAIN checks |-> RangeRow(checks[m][1], checks[m][2])]

\* What compute_witness adds to the multiplicities of the tables, and to the range
\* checks of the library, for the inputs and n padding rows.
CountedBy(air, in, n) ==
    CASE air = "basic" ->
            [None EXCEPT !.basic =
                BagOfSeq(FlattenSeq([m \in DOMAIN in |-> Eight(LAMBDA i :
                    CalculateTableRow(TableKey(in[m][1], in[m][2], in[m][3], i)))]))
                (+) Copies(CalculateTableRow(PaddingKey(0)), 7 * n)
                (+) Copies(CalculateTableRow(PaddingKey(1)), n)]
      [] air = "add" ->
            [None EXCEPT !.std =
                BagOfSeq(FlattenSeq([m \in DOMAIN in |-> AddRow(in[m][2], in[m][3]).c]))
                (+) Copies(0, 4 * n)]
      [] air = "extension" ->
            LET R(m) == ExtensionRow(in[m][1], in[m][2], in[m][3])
                shifts == SelectSeq([m \in DOMAIN in |-> R(m)], LAMBDA r : r.isShift = 1)
            IN  [None EXCEPT
                    !.extension =
                        BagOfSeq(FlattenSeq([m \in DOMAIN in |-> Eight(LAMBDA j :
                            CalculateExtensionRow(in[m][1], j, R(m).in1[j], R(m).low))]))
                        (+) BagOfSeq(FlattenSeq([m \in 1 .. n |-> Eight(LAMBDA j :
                            CalculateExtensionRow("signextend_w", j, 0, 0))])),
                    !.std = BagOfSeq([m \in DOMAIN shifts |-> shifts[m].in2[1] + 1])]
      [] air = "arith" ->
            LET Of(made) ==
                    [None EXCEPT
                        !.arith = BagOfSeq([m \in DOMAIN in |-> <<in[m][1], FlagsOf(made[m])>>])
                                    (+) Copies(<<"muluh", {}>>, n),
                        !.range = BagOfSeq(RangeRowsOf(
                                    FlattenSeq([m \in DOMAIN in |-> RangeChecks(made[m])])
                                    \o PaddingRangeChecks(n)))]
            IN  Of([m \in DOMAIN in |-> ArithRow(in[m][1], in[m][2], in[m][3])])

-----------------------------------------------------------------------------
(* The actions *)

Init ==
    /\ work \in Works
    /\ counts = [k \in DOMAIN work |-> NoCounts]
    /\ plans = <<>>
    /\ planned = FALSE
    /\ doing = 0
    /\ inputs = <<>>
    /\ rows = <<>>
    /\ mult = None
    /\ tables = None

\* A thread of count() replays chunk k on its own bus.
Count(k) ==
    /\ ~ counts[k].done
    /\ counts' = [counts EXCEPT ![k] = Measured(work[k])]
    /\ UNCHANGED <<work, plans, planned, doing, inputs, rows, mult, tables>>

\* plan_sec, once every chunk is counted.
Plan ==
    /\ ~ planned
    /\ \A k \in DOMAIN counts : counts[k].done
    /\ planned' = TRUE
    /\ plans' = PlanSec
    /\ rows' = [p \in DOMAIN PlanSec |-> <<>>]
    /\ UNCHANGED <<work, counts, doing, inputs, mult, tables>>

\* calculate_witness turns to instance p.
WitnessSecnInstance(p) ==
    /\ planned
    /\ doing = 0
    /\ rows[p] = <<>>
    /\ doing' = p
    /\ inputs' = <<>>
    /\ UNCHANGED <<work, counts, plans, planned, rows, mult, tables>>

\* A thread of witness_secn_instance replays chunk k, one of the instance's checkpoint,
\* with the instance's collector: it skips, then takes its number of operations.
Collect(k) ==
    /\ doing # 0
    /\ k - 1 \in DOMAIN plans[doing].collect
    /\ k \notin DOMAIN inputs
    /\ \E mine \in {SelectSeq(Bus(work[k]), LAMBDA d : Accepts(plans[doing], d))},
          share \in {plans[doing].collect[k - 1]} :
           inputs' = inputs @@ (k :> SubSeq(mine, share.skip + 1,
                                            Min({share.skip + share.num, Len(mine)})))
    /\ UNCHANGED <<work, counts, plans, planned, doing, rows, mult, tables>>

\* compute_witness of the instance, with its collectors in the order of the chunks.
ComputeWitness ==
    /\ doing # 0
    /\ {k - 1 : k \in DOMAIN inputs} = DOMAIN plans[doing].collect
    /\ LET air == plans[doing].air
           in == FlattenSeq([k \in 1 .. Len(work) |->
                                IF k \in DOMAIN inputs THEN inputs[k] ELSE <<>>])
       IN  /\ Len(in) <= NumRows[air]
           /\ rows' = [rows EXCEPT ![doing] = WitnessRows(air, in)]
           /\ \E counted \in {CountedBy(air, in, NumRows[air] - Len(in))} :
                mult' = [t \in TableNames |-> mult[t] (+) counted[t]]
    /\ doing' = 0
    /\ inputs' = <<>>
    /\ UNCHANGED <<work, counts, plans, planned, tables>>

Computed == planned /\ \A p \in DOMAIN plans : rows[p] # <<>>

\* The instance of table t, planned beside the instances that look it up, takes the
\* multiplicities over; they start again at zero.  The library is asked last.
PlannedTable(t) ==
    \E p \in DOMAIN plans :
        CASE t = "basic" -> plans[p].air = "basic"
          [] t = "extension" -> plans[p].air = "extension"
          [] t \in {"arith", "range"} -> plans[p].air = "arith"
          [] t = "std" -> TRUE
WitnessTable(t) ==
    /\ Computed
    /\ PlannedTable(t)
    /\ mult[t] # EmptyBag
    /\ tables' = [tables EXCEPT ![t] = mult[t]]
    /\ mult' = [mult EXCEPT ![t] = EmptyBag]
    /\ UNCHANGED <<work, counts, plans, planned, doing, inputs, rows>>

Done == Computed /\ \A t \in TableNames : PlannedTable(t) => mult[t] = EmptyBag
Finished == Done /\ UNCHANGED vars

Next ==
    \/ \E k \in DOMAIN work : Count(k) \/ Collect(k)
    \/ Plan
    \/ \E p \in DOMAIN plans : WitnessSecnInstance(p)
    \/ ComputeWitness
    \/ \E t \in TableNames : WitnessTable(t)
    \/ Finished

Spec == Init /\ [][Next]_vars

-----------------------------------------------------------------------------
(* Properties *)

\* The rows of the instances of a machine.
RowsOf(air) ==
    FlattenSeq([p \in DOMAIN plans |-> IF plans[p].air = air THEN rows[p] ELSE <<>>])
ProvedBy(air, Proves(_)) ==
    LET used == SelectSeq(RowsOf(air), LAMBDA r : r.multiplicity = 1)
    IN  [n \in DOMAIN used |-> Proves(used[n])]

\* What the main machine assumes of its operations (main.pil): the operands as they are on
\* the bus, with the result and the flag of the execution.
MainAssumes ==
    FlattenSeq([k \in DOMAIN work |->
        LET external == SelectSeq(work[k], LAMBDA x : TypeOf(x[1]) # "Internal")
        IN  [n \in DOMAIN external |->
                LET d == FromInstruction(external[n])
                    c == Execute(external[n][1], external[n][2], external[n][3])
                IN  <<d[1], Halves(d[2]), Halves(d[3]), Halves(c[1]), One(c[2])>>]])

\* The quotient of the least i32 and -1, which op_div_w does not extend.
NarrowOverflow(x) ==
    x[1] = "div_w" /\ x[2] = Halves(2 ^ (W32 - 1)) /\ x[3] = Halves(2 ^ W32 - 1)

\* In the end the rows of the machines prove exactly the operations that the main machine
\* and the rows of the arithmetic machine assume, each as often as it is assumed, with the
\* result that the emulator computed: nothing is lost, collected twice or proved with
\* another result between counting, planning, collecting and writing.
OpsProvedBar ==
    Done =>
        LET arith == RowsOf("arith")
            assumed == MainAssumes
                \o FlattenSeq([n \in DOMAIN arith |-> ArithAssumes(arith[n])])
            proved == ProvedBy("basic", BasicProves) \o ProvedBy("add", AddProves)
                \o ProvedBy("extension", ExtensionProves) \o ProvedBy("arith", ArithProves)
            Bar(s) == SelectSeq(s, LAMBDA x : ~ NarrowOverflow(x))
        IN  BagOfSeq(Bar(assumed)) = BagOfSeq(Bar(proved))

\* The multiplicities, as a bag of the tuples of the table.
TuplesOf(bag, At(_)) ==
    [x \in {At(n) : n \in DOMAIN bag} |->
        MapThenSumSet(LAMBDA n : bag[n], {n \in DOMAIN bag : At(n) = x})]

\* In the end the trace of every table counts exactly the tuples that the rows, padding
\* rows included, look up in it: no lookup was counted at another row of its table, the
\* arithmetic table has the row's flags with the row's ranges, and none panicked.
TablesBalance ==
    Done =>
        LET basic == RowsOf("basic")
            ext == RowsOf("extension")
            arith == RowsOf("arith")
            add == RowsOf("add")
            Looked(s, F(_, _)) ==
                BagOfSeq(FlattenSeq([n \in DOMAIN s |-> Eight(LAMBDA i : F(s[n], i))]))
            shifts == SelectSeq(ext, LAMBDA r : r.isShift = 1)
        IN  /\ \A t \in {"basic", "range"} : Panic \notin DOMAIN tables[t]
            /\ TuplesOf(tables["basic"], BasicTableAt) = Looked(basic, BasicLookup)
            /\ TuplesOf(tables["extension"], ExtensionTableAt) = Looked(ext, ExtensionLookup)
            /\ tables["arith"] = BagOfSeq([n \in DOMAIN arith |->
                                              <<arith[n].op, FlagsOf(arith[n])>>])
            /\ \A n \in DOMAIN arith :
                 /\ FlagsOf(arith[n]) \in ArithTable(arith[n].op)
                 /\ arith[n].ranges = ArithTableRanges(arith[n].op, FlagsOf(arith[n]))
            /\ TuplesOf(tables["range"], RangeTableAt)
                  = BagOfSeq(FlattenSeq([n \in DOMAIN arith |-> RangeChecks(arith[n])]))
            /\ tables["std"] = BagOfSeq(FlattenSeq([n \in DOMAIN add |-> add[n].c])
                                  \o [n \in DOMAIN shifts |-> shifts[n].in2[1] + 1])

\* Every row of an addition and of the arithmetic machine satisfies its constraints: the
\* equations with the carries that were cut towards zero, and what the flags force.
RowsHold ==
    Done =>
        /\ \A n \in DOMAIN RowsOf("add") : AddHolds(RowsOf("add")[n])
        /\ \A n \in DOMAIN RowsOf("arith") : ArithHolds(RowsOf("arith")[n])
=============================================================================
