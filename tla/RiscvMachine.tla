---------------------------- MODULE RiscvMachine ----------------------------
(***************************************************************************)
(* What a program expects of the machine it is compiled for: RV64IMA with  *)
(* one hart, and the environment that Zisk gives a program (the start of a *)
(* program, ecall, the end of a program, precompiles and free calls behind *)
(* CSRs).  This is the abstract specification of the transpiler and of the *)
(* emulator together; it says nothing of Zisk instructions.                *)
(*                                                                         *)
(* Words have XLen bits and memory is made of cells of one bit, XLen of    *)
(* them in a word, as in Emu.                                              *)
(***************************************************************************)
EXTENDS Integers, SequencesExt

CONSTANTS
    XLen,           \* bits of a register
    XRegs,          \* the registers a program uses
    Cells,          \* addresses of the memory of a program
    XInput, XOutput,  \* addresses that a program is started with
    PublicWords,    \* words published at its end
    Keccak(_),      \* the precompile, on the words of its state
    Host(_)         \* the results of a free call, from its parameters

VARIABLES
    code,       \* the instructions, by their addresses
    home,       \* the address that the program returns to
    pc, regs, mem, csrs,
    host,       \* parameters and results of free calls
    status,     \* "running" or "exited"
    published   \* the words published

vars == <<code, home, pc, regs, mem, csrs, host, status, published>>

-----------------------------------------------------------------------------
(* Values *)

N(w) == 2 ^ w
Signed(v, w) == IF v % N(w) >= N(w - 1) THEN (v % N(w)) - N(w) ELSE v % N(w)
Extend(v, w) == Signed(v, w) % N(XLen)
BitAt(v, k) == (v \div 2 ^ k) % 2
Bitwise(Op(_, _), v, u) ==
    MapThenSumSet(LAMBDA k : Op(BitAt(v, k), BitAt(u, k)) * 2 ^ k, 0 .. XLen - 1)
Truncated(p, q) ==
    LET Size(n) == IF n < 0 THEN - n ELSE n
    IN  (IF (p < 0) = (q < 0) THEN 1 ELSE -1) * (Size(p) \div Size(q))

\* An operation on operands of w bits.
Alu(op, w, x, y) ==
    LET sx == Signed(x, w)
        sy == Signed(y, w)
        One(p) == IF p THEN 1 ELSE 0
    IN  (CASE op = "add" -> x + y
           [] op = "sub" -> x - y
           [] op = "sll" -> x * 2 ^ (y % w)
           [] op = "srl" -> x \div 2 ^ (y % w)
           [] op = "sra" -> sx \div 2 ^ (y % w)
           [] op = "slt" -> One(sx < sy)
           [] op = "sltu" -> One(x < y)
           [] op = "xor" -> Bitwise(LAMBDA p, q : (p + q) % 2, x, y)
           [] op = "or" -> Bitwise(LAMBDA p, q : (p + q + 1) \div 2, x, y)
           [] op = "and" -> Bitwise(LAMBDA p, q : (p + q) \div 2, x, y)
           [] op = "mul" -> x * y
           [] op = "mulh" -> (sx * sy) \div N(w)
           [] op = "mulhsu" -> (sx * y) \div N(w)
           [] op = "mulhu" -> (x * y) \div N(w)
           [] op = "div" -> IF y = 0 THEN -1 ELSE Truncated(sx, sy)
           [] op = "divu" -> IF y = 0 THEN -1 ELSE x \div y
           [] op = "rem" -> IF y = 0 THEN x ELSE sx - Truncated(sx, sy) * sy
           [] op = "remu" -> IF y = 0 THEN x ELSE x % y
           [] op = "swap" -> y
           [] op = "min" -> IF sx < sy THEN x ELSE y
           [] op = "max" -> IF sx < sy THEN y ELSE x
           [] op = "minu" -> IF x < y THEN x ELSE y
           [] op = "maxu" -> IF x < y THEN y ELSE x) % N(w)

\* The narrow operations work on the lower halves and extend the sign.
Narrow(op, x, y) == Extend(Alu(op, XLen \div 2, x % N(XLen \div 2), y % N(XLen \div 2)),
                           XLen \div 2)

-----------------------------------------------------------------------------
(* Instructions by their form *)

Wide == {"add", "sub", "sll", "slt", "sltu", "xor", "srl", "sra", "or", "and", "mul", "mulh",
         "mulhsu", "mulhu", "div", "divu", "rem", "remu"}
NarrowOf ==
    [addw |-> "add", subw |-> "sub", sllw |-> "sll", srlw |-> "srl", sraw |-> "sra",
     mulw |-> "mul", divw |-> "div", divuw |-> "divu", remw |-> "rem", remuw |-> "remu"]
ImmOf ==
    [addi |-> "add", slti |-> "slt", sltiu |-> "sltu", xori |-> "xor", ori |-> "or",
     andi |-> "and", slli |-> "sll", srli |-> "srl", srai |-> "sra"]
NarrowImmOf == [addiw |-> "add", slliw |-> "sll", srliw |-> "srl", sraiw |-> "sra"]
LoadOf ==   \* width in eighths of a word, and whether the sign is extended
    [lb |-> <<1, TRUE>>, lbu |-> <<1, FALSE>>, lh |-> <<2, TRUE>>, lhu |-> <<2, FALSE>>,
     lw |-> <<4, TRUE>>, lwu |-> <<4, FALSE>>, ld |-> <<8, FALSE>>]
    @@ ("lr.w" :> <<4, TRUE>>) @@ ("lr.d" :> <<8, FALSE>>)
StoreOf == [sb |-> 1, sh |-> 2, sw |-> 4, sd |-> 8]
AmoOf ==
    ("amoswap.w" :> <<"swap", 4>>) @@ ("amoadd.w" :> <<"add", 4>>)
    @@ ("amoxor.w" :> <<"xor", 4>>) @@ ("amoand.w" :> <<"and", 4>>)
    @@ ("amoor.w" :> <<"or", 4>>) @@ ("amomin.w" :> <<"min", 4>>)
    @@ ("amomax.w" :> <<"max", 4>>) @@ ("amominu.w" :> <<"minu", 4>>)
    @@ ("amomaxu.w" :> <<"maxu", 4>>) @@ ("amoswap.d" :> <<"swap", 8>>)
    @@ ("amoadd.d" :> <<"add", 8>>) @@ ("amoxor.d" :> <<"xor", 8>>)
    @@ ("amoand.d" :> <<"and", 8>>) @@ ("amoor.d" :> <<"or", 8>>)
    @@ ("amomin.d" :> <<"min", 8>>) @@ ("amomax.d" :> <<"max", 8>>)
    @@ ("amominu.d" :> <<"minu", 8>>) @@ ("amomaxu.d" :> <<"maxu", 8>>)

-----------------------------------------------------------------------------
(* The state *)

X(r) == IF r = 0 THEN 0 ELSE regs[r]
WithReg(r, v) == IF r = 0 THEN regs ELSE [regs EXCEPT ![r] = v % N(XLen)]
Size(eighths) == eighths * (XLen \div 8)
Fits(addr, w) == addr .. addr + w - 1 \subseteq Cells
At(addr, w) == MapThenSumSet(LAMBDA k : mem[addr + k] * 2 ^ k, 0 .. w - 1)
WithMem(m, addr, w, v) ==
    [c \in DOMAIN m |-> IF c \in addr .. addr + w - 1 THEN BitAt(v, c - addr) ELSE m[c]]

\* The instruction at pc is one of the given names.
Is(names) == status = "running" /\ pc \in DOMAIN code /\ code[pc].inst \in names
Here == code[pc]

\* The instruction is done; the one behind it is next.
Next4 == pc' = (pc + 4) % N(XLen)
Kept == UNCHANGED <<code, home, host, status, published>>

\* A program starts with its image in memory and two addresses in registers.
Init ==
    /\ regs = [r \in XRegs |-> CASE r = 1 -> home [] r = 10 -> XInput [] r = 11 -> XOutput
                                 [] OTHER -> 0]
    /\ host = [params |-> <<>>, result |-> <<>>, got |-> 0]
    /\ status = "running"
    /\ published = <<>>

-----------------------------------------------------------------------------
(* Actions *)

Compute ==
    /\ Is(Wide \cup DOMAIN NarrowOf \cup DOMAIN ImmOf \cup DOMAIN NarrowImmOf
          \cup {"lui", "auipc"})
    /\ LET n == Here.inst
           x == X(Here.rs1)
           y == X(Here.rs2)
           imm == Here.imm % N(XLen)
       IN  regs' = WithReg(Here.rd,
                       CASE n \in Wide -> Alu(n, XLen, x, y)
                         [] n \in DOMAIN NarrowOf -> Narrow(NarrowOf[n], x, y)
                         [] n \in DOMAIN ImmOf -> Alu(ImmOf[n], XLen, x, imm)
                         [] n \in DOMAIN NarrowImmOf -> Narrow(NarrowImmOf[n], x, imm)
                         [] n = "lui" -> imm
                         [] n = "auipc" -> pc + imm)
    /\ Next4 /\ UNCHANGED <<mem, csrs>> /\ Kept

Load ==
    /\ Is(DOMAIN LoadOf)
    /\ LET how == LoadOf[Here.inst]
           addr == (X(Here.rs1) + Here.imm) % N(XLen)
           v == At(addr, Size(how[1]))
       IN  /\ Fits(addr, Size(how[1]))
           /\ regs' = WithReg(Here.rd, IF how[2] THEN Extend(v, Size(how[1])) ELSE v)
    /\ Next4 /\ UNCHANGED <<mem, csrs>> /\ Kept

Store ==
    /\ Is(DOMAIN StoreOf)
    /\ LET w == Size(StoreOf[Here.inst])
           addr == (X(Here.rs1) + Here.imm) % N(XLen)
       IN  /\ Fits(addr, w)
           /\ mem' = WithMem(mem, addr, w, X(Here.rs2))
    /\ Next4 /\ UNCHANGED <<regs, csrs>> /\ Kept

\* A store conditional follows its load; with one hart it succeeds.
StoreConditional ==
    /\ Is({"sc.w", "sc.d"})
    /\ LET w == Size(IF Here.inst = "sc.w" THEN 4 ELSE 8)
       IN  /\ Fits(X(Here.rs1), w)
           /\ mem' = WithMem(mem, X(Here.rs1), w, X(Here.rs2))
    /\ regs' = WithReg(Here.rd, 0)
    /\ Next4 /\ UNCHANGED csrs /\ Kept

\* An atomic reads, computes and writes in one step; rd gets the old value.
Amo ==
    /\ Is(DOMAIN AmoOf)
    /\ LET how == AmoOf[Here.inst]
           w == Size(how[2])
           old == At(X(Here.rs1), w)
       IN  /\ Fits(X(Here.rs1), w)
           /\ mem' = WithMem(mem, X(Here.rs1), w,
                             Alu(how[1], w, old, X(Here.rs2) % N(w)))
           /\ regs' = WithReg(Here.rd, Extend(old, w))
    /\ Next4 /\ UNCHANGED csrs /\ Kept

Branch ==
    /\ Is({"beq", "bne", "blt", "bge", "bltu", "bgeu"})
    /\ LET n == Here.inst
           x == X(Here.rs1)
           y == X(Here.rs2)
           taken == CASE n = "beq" -> x = y [] n = "bne" -> x # y
                      [] n = "blt" -> Signed(x, XLen) < Signed(y, XLen)
                      [] n = "bge" -> Signed(x, XLen) >= Signed(y, XLen)
                      [] n = "bltu" -> x < y [] n = "bgeu" -> x >= y
       IN  pc' = (pc + (IF taken THEN Here.imm ELSE 4)) % N(XLen)
    /\ UNCHANGED <<regs, mem, csrs>> /\ Kept

\* jal, and jalr to an instruction of the program.
Target ==
    IF Here.inst = "jal" THEN (pc + Here.imm) % N(XLen)
    ELSE LET t == (X(Here.rs1) + Here.imm) % N(XLen) IN t - (t % 2)
JumpAndLink ==
    /\ Is({"jal", "jalr"})
    /\ Target # home
    /\ pc' = Target
    /\ regs' = WithReg(Here.rd, pc + 4)
    /\ UNCHANGED <<mem, csrs>> /\ Kept

Fence ==
    /\ Is({"fence", "fence.i", "ebreak"})
    /\ Next4 /\ UNCHANGED <<regs, mem, csrs>> /\ Kept

\* A CSR is read and written in one step; the forms with an immediate have it in
\* imme.  A set or a clear of nothing writes nothing.
PlainCsr(c) == c \in DOMAIN csrs
Csr ==
    /\ Is({"csrrw", "csrrs", "csrrc", "csrrwi", "csrrsi", "csrrci"})
    /\ PlainCsr(Here.csr)
    /\ LET n == Here.inst
           v == IF n \in {"csrrw", "csrrs", "csrrc"} THEN X(Here.rs1) ELSE Here.imme
           old == csrs[Here.csr]
       IN  /\ csrs' = [csrs EXCEPT ![Here.csr] =
                            CASE n \in {"csrrw", "csrrwi"} -> v
                              [] n \in {"csrrs", "csrrsi"} -> Alu("or", XLen, old, v)
                              [] OTHER -> Alu("and", XLen, old, N(XLen) - 1 - v)]
           /\ regs' = WithReg(Here.rd, old)
    /\ Next4 /\ UNCHANGED mem /\ Kept

\* csrrs x0, 0x800, rs1: keccak on the state at rs1.
Precompile ==
    /\ Is({"csrrs"})
    /\ Here.csr = 2048 /\ Here.rd = 0
    /\ LET addr == X(Here.rs1)
           out == Keccak(<<At(addr, XLen), At(addr + XLen, XLen)>>)
       IN  /\ Fits(addr, 2 * XLen)
           /\ mem' = WithMem(WithMem(mem, addr, XLen, out[1]), addr + XLen, XLen, out[2])
    /\ Next4 /\ UNCHANGED <<regs, csrs>> /\ Kept

\* csrrs x0, 0x8F0, rs1: a parameter; csrrwi x0, 0x8C0, id: the call; csrrs rd,
\* 0xFFE, x0: the next result.
FreeCall ==
    /\ \/ /\ Is({"csrrs"}) /\ Here.csr = 2288
          /\ host' = [host EXCEPT !.params = Append(@, X(Here.rs1))]
          /\ UNCHANGED regs
       \/ /\ Is({"csrrwi"}) /\ Here.csr = 2240
          /\ host' = [params |-> <<>>, result |-> Host(host.params), got |-> 0]
          /\ UNCHANGED regs
       \/ /\ Is({"csrrs"}) /\ Here.csr = 4094
          /\ host.got < Len(host.result)
          /\ host' = [host EXCEPT !.got = @ + 1]
          /\ regs' = WithReg(Here.rd, host.result[host.got + 1])
    /\ Next4
    /\ UNCHANGED <<code, home, mem, csrs, status, published>>

\* An ecall that does not ask for the end returns, with its address in ra.
Ecall ==
    /\ Is({"ecall"})
    /\ X(17) # 93
    /\ regs' = WithReg(1, pc + 4)
    /\ Next4 /\ UNCHANGED <<mem, csrs>> /\ Kept

\* The end: ecall with 93 in a7, or a jump to the address that the program was
\* started with in ra.  The words of the output are published.
Exit ==
    /\ \/ Is({"ecall"}) /\ X(17) = 93
       \/ Is({"jalr"}) /\ Here.rd = 0 /\ Target = home
    /\ status' = "exited"
    /\ published' = [k \in 1 .. PublicWords |-> At(XOutput + (k - 1) * XLen, XLen)]
    /\ UNCHANGED <<code, home, pc, regs, mem, csrs, host>>

Next ==
    \/ Compute \/ Load \/ Store \/ StoreConditional \/ Amo \/ Branch \/ JumpAndLink
    \/ Fence \/ Csr \/ Precompile \/ FreeCall \/ Ecall \/ Exit

Spec == Init /\ [][Next]_vars
=============================================================================
