---------------------------- MODULE Interpreter ----------------------------
(***************************************************************************)
(* ebpf_prog_run and the encoding of instructions in ebpf_vm_isa.h.  All   *)
(* widths are multiples of the bits of a byte, B, which is small for model *)
(* checking; the host is little endian.  Memory from ep->prog on is any    *)
(* sequence of the instructions of one family: an instruction is chosen    *)
(* when it is first fetched.  The loop does not know prog_len, so where    *)
(* the program ends and what lies behind it begins makes no difference;    *)
(* reach bounds how far a run is followed.                                 *)
(***************************************************************************)
EXTENDS Integers, FiniteSets, Bitwise, Folds, TLC

CONSTANTS
  B,              \* bits of a byte
  Families,       \* of programs: their instructions, the reach of a run, and what
                  \* the registers but R1 and R10 may hold before they are set
  CtxBase, CtxSize, StackBase, EBPF_STACK_SIZE, \* the memory of a run
  HelperResults   \* what helpers return

Word == 4 * B     \* uint32_t
DWord == 8 * B    \* uint64_t
U(w, v) == v % 2 ^ w
S(w, v) == IF v >= 2 ^ (w - 1) THEN v - 2 ^ w ELSE v

ASSUME InterpreterAssumption ==
  /\ B \in Nat \ {0} /\ \A f \in DOMAIN Families : Families[f].reach \in Nat \ {0}
  /\ StackBase + EBPF_STACK_SIZE < 2 ^ DWord

-----------------------------------------------------------------------------
(* ebpf_vm_isa.h: an opcode is a sum of a class, a source and an operation,*)
(* or of a class, a mode and a size.                                       *)

EBPF_REG_MAX == 11
CLS == [LD |-> 0, LDX |-> 1, ST |-> 2, STX |-> 3, ALU |-> 4, JMP |-> 5, ALU64 |-> 7]
EBPF_CLS(op) == op % 8
SRC == [IMM |-> 0, REG |-> 8]
EBPF_SRC(op) == IF (op \div 8) % 2 = 1 THEN SRC.REG ELSE SRC.IMM
SIZE == [W |-> 0, H |-> 8, B |-> \h10, DW |-> \h18]
EBPF_SIZE(op) == ((op \div 8) % 4) * 8
MODE == [IMM |-> 0, MEM |-> \h60]

ALU_OP ==
  [ADD |-> \h00, SUB |-> \h10, MUL |-> \h20, DIV |-> \h30, OR |-> \h40,
   AND |-> \h50, LSH |-> \h60, RSH |-> \h70, NEG |-> \h80, MOD |-> \h90,
   XOR |-> \ha0, MOV |-> \hb0, ARSH |-> \hc0, END |-> \hd0]

JMP_OP ==
  [JA |-> \h00, JEQ |-> \h10, JGT |-> \h20, JGE |-> \h30, JSET |-> \h40,
   JNE |-> \h50, JSGT |-> \h60, JSGE |-> \h70, CALL |-> \h80, EXIT |-> \h90,
   JLT |-> \ha0, JLE |-> \hb0, JSLT |-> \hc0, JSLE |-> \hd0]

EBPF_OP(op) == (op \div 16) * 16  \* EBPF_ALU_OP, EBPF_JMP_OP

Values(r) == {r[n] : n \in DOMAIN r}

\* struct ebpf_inst, with registers that exist.
Inst(opcodes, offsets, imms) ==
  [opcode : opcodes, dst : 0 .. EBPF_REG_MAX - 1, src : 0 .. EBPF_REG_MAX - 1,
   offset : offsets, imm : imms]

\* EBPF_OP_ADD_IMM ... EBPF_OP_ARSH_REG and their 64-bit forms.
AluOpcodes ==
  {c + s + o : c \in {CLS.ALU, CLS.ALU64}, s \in Values(SRC),
               o \in Values(ALU_OP) \ {ALU_OP.NEG, ALU_OP.END}}
  \cup {CLS.ALU + ALU_OP.NEG, CLS.ALU64 + ALU_OP.NEG}
EndOpcodes == {CLS.ALU + s + ALU_OP.END : s \in Values(SRC)}
JmpOpcodes ==
  {CLS.JMP + s + o : s \in Values(SRC),
                     o \in Values(JMP_OP) \ {JMP_OP.JA, JMP_OP.CALL, JMP_OP.EXIT}}
  \cup {CLS.JMP + JMP_OP.JA}
MemOpcodes(c) == {c + MODE.MEM + s : s \in Values(SIZE)}
CallOpcode == CLS.JMP + JMP_OP.CALL
ExitOpcode == CLS.JMP + JMP_OP.EXIT
LddwOpcode == CLS.LD + MODE.IMM + SIZE.DW
StOpcodes == MemOpcodes(CLS.ST) \cup MemOpcodes(CLS.STX)
Opcodes ==
  AluOpcodes \cup EndOpcodes \cup JmpOpcodes \cup MemOpcodes(CLS.LDX) \cup StOpcodes
  \cup {CallOpcode, ExitOpcode, LddwOpcode}

-----------------------------------------------------------------------------
VARIABLES
  family,
  prog,   \* memory from ep->prog on; NoInst where nothing has been fetched
  inst,   \* the index of the instruction inst points to
  pc,
  reg,
  mem,    \* the context and the stack
  status  \* "running", "exit", "invalid" (the assertion) or "trap"

vars == <<family, prog, inst, pc, reg, mem, status>>

Insts == Families[family].insts
NoInst == [opcode |-> -1]
Mem == (CtxBase .. CtxBase + CtxSize - 1) \cup (StackBase .. StackBase + EBPF_STACK_SIZE - 1)

Unset == (0 .. EBPF_REG_MAX - 1) \ {1, 10}

Init ==
  /\ family \in DOMAIN Families
  /\ prog = [k \in 0 .. Families[family].reach - 1 |-> NoInst]
  /\ inst = 0 /\ pc = 0
  /\ \E v \in Families[family].uninit : reg = (1 :> CtxBase) @@ (10 :> StackBase + EBPF_STACK_SIZE) @@ v
  /\ mem = [a \in Mem |-> 0]
  /\ status = "running"

-----------------------------------------------------------------------------
(* Arithmetic.  A shift by the width or more is undefined: the processor   *)
(* masks the count, or a compiler that knows the count makes it zero.  No  *)
(* result means a trap: the division by zero.                              *)

\* The places a value is really shifted by; by all of them it becomes zero.
ShiftCounts(w, c) == IF c < w THEN {c} ELSE {c % w, w}

\* MOV and NEG do not do the same in both widths.
AluResults(op, w, a, b0) ==
  LET b == U(w, b0)
      x == U(w, a)
  IN  CASE op = ALU_OP.ADD -> {U(w, x + b)}
        [] op = ALU_OP.SUB -> {U(w, x - b)}
        [] op = ALU_OP.MUL -> {U(w, x * b)}
        [] op = ALU_OP.DIV -> IF b = 0 THEN {} ELSE {x \div b}
        [] op = ALU_OP.MOD -> IF b = 0 THEN {} ELSE {x % b}
        [] op = ALU_OP.OR  -> {x | b}
        [] op = ALU_OP.AND -> {x & b}
        [] op = ALU_OP.XOR -> {x ^^ b}
        [] op = ALU_OP.LSH -> {U(w, x * 2 ^ c) : c \in ShiftCounts(w, b)}
        [] op \in {ALU_OP.RSH, ALU_OP.ARSH} -> {x \div 2 ^ c : c \in ShiftCounts(w, b)}
        [] op = ALU_OP.NEG -> IF w = Word THEN {U(w, -b)} ELSE {U(w, x - b)}
        [] op = ALU_OP.MOV -> IF w = Word THEN {b} ELSE {U(w, x + b)}

\* The condition of a jump, on 64-bit operands.
Holds(op, a, b) ==
  LET sa == S(DWord, a)
      sb == S(DWord, b)
  IN  \/ op = JMP_OP.JA
      \/ op = JMP_OP.JEQ /\ a = b
      \/ op = JMP_OP.JNE /\ a # b
      \/ op = JMP_OP.JSET /\ a & b # 0
      \/ op = JMP_OP.JGT /\ a > b
      \/ op = JMP_OP.JGE /\ a >= b
      \/ op = JMP_OP.JLT /\ a < b
      \/ op = JMP_OP.JLE /\ a <= b
      \/ op = JMP_OP.JSGT /\ sa > sb
      \/ op = JMP_OP.JSGE /\ sa >= sb
      \/ op = JMP_OP.JSLT /\ sa < sb
      \/ op = JMP_OP.JSLE /\ sa <= sb

-----------------------------------------------------------------------------
(* Memory, byte by byte.                                                   *)

Bytes(op) ==
  CASE EBPF_SIZE(op) = SIZE.B -> 1
    [] EBPF_SIZE(op) = SIZE.H -> 2
    [] EBPF_SIZE(op) = SIZE.W -> 4
    [] EBPF_SIZE(op) = SIZE.DW -> 8

Byte(v, k) == (v \div 2 ^ (B * k)) % 2 ^ B
Assemble(n, ByteAt(_)) ==
  MapThenFoldSet(LAMBDA x, y : x + y, 0, LAMBDA k : ByteAt(k) * 2 ^ (B * k),
                 LAMBDA s : CHOOSE k \in s : TRUE, 0 .. n - 1)
Address(r, in) == U(DWord, reg[r] + in.offset)
Cells(a, n) == {U(DWord, a + k) : k \in 0 .. n - 1}
Load(m, a, n) == Assemble(n, LAMBDA k : m[U(DWord, a + k)])
Store(m, a, n, v) ==
  [c \in Mem |-> IF c \in a .. a + n - 1 THEN Byte(v, c - a) ELSE m[c]]

-----------------------------------------------------------------------------
(* One turn of the loop.                                                   *)

\* The second operand: a register or the sign extended immediate.
Operand(in) ==
  IF EBPF_SRC(in.opcode) = SRC.REG THEN reg[in.src] ELSE U(DWord, in.imm)

\* inst = inst + pc++: where the next instruction is.
Fetched == inst + pc

\* A run that leaves the reach is not followed.
Fetch(in) ==
  /\ Fetched \in DOMAIN prog
  /\ prog[Fetched] \in {NoInst, in}
  /\ prog' = [prog EXCEPT ![Fetched] = in]
  /\ inst' = Fetched

\* The same, with a look at the instruction behind it.
FetchTwo(in, next) ==
  /\ {Fetched, Fetched + 1} \subseteq DOMAIN prog
  /\ prog[Fetched] \in {NoInst, in} /\ prog[Fetched + 1] \in {NoInst, next}
  /\ prog' = [prog EXCEPT ![Fetched] = in, ![Fetched + 1] = next]
  /\ inst' = Fetched

GotoPc(p) == pc' = U(Word, p)
SetReg(r, v) == reg' = [reg EXCEPT ![r] = v]

\* Mutant: the operands and the result are not cut down to 32 bits.
AluUncut(in) ==
  /\ in.opcode \in AluOpcodes
  /\ Fetch(in) /\ GotoPc(pc + 1)
  /\ LET vs == AluResults(EBPF_OP(in.opcode), DWord, reg[in.dst], Operand(in))
     IN  /\ \E v \in vs : SetReg(in.dst, v)
         /\ UNCHANGED <<mem, status>>

Alu(in) ==
  /\ in.opcode \in AluOpcodes
  /\ Fetch(in) /\ GotoPc(pc + 1)
  /\ LET w == IF EBPF_CLS(in.opcode) = CLS.ALU THEN Word ELSE DWord
         vs == AluResults(EBPF_OP(in.opcode), w, reg[in.dst], Operand(in))
     IN  \/ /\ \E v \in vs : SetReg(in.dst, v)
            /\ UNCHANGED <<mem, status>>
         \/ /\ vs = {}
            /\ status' = "trap"
            /\ UNCHANGED <<reg, mem>>

\* htole is a truncation on this host, htobe reverses the bytes; any other
\* size is ignored.
Endian(in) ==
  /\ in.opcode \in EndOpcodes
  /\ Fetch(in) /\ GotoPc(pc + 1)
  /\ LET n == in.imm \div 8
         v == reg[in.dst]
     IN  \/ /\ in.imm \in {16, 32, 64}
            /\ SetReg(in.dst, IF in.opcode = CLS.ALU + SRC.REG + ALU_OP.END
                              THEN Assemble(n, LAMBDA k : Byte(v, n - 1 - k))
                              ELSE U(n * B, v))
         \/ /\ in.imm \notin {16, 32, 64}
            /\ UNCHANGED reg
  /\ UNCHANGED <<mem, status>>

Jump(in) ==
  /\ in.opcode \in JmpOpcodes
  /\ Fetch(in)
  /\ GotoPc(pc + 1 + (IF Holds(EBPF_OP(in.opcode), reg[in.dst], Operand(in))
                      THEN in.offset ELSE 0))
  /\ UNCHANGED <<reg, mem, status>>

Call(in) ==
  /\ in.opcode = CallOpcode
  /\ Fetch(in) /\ GotoPc(pc + 1)
  /\ \E v \in HelperResults : SetReg(0, v)
  /\ UNCHANGED <<mem, status>>

\* return reg[0]
Exit(in) ==
  /\ in.opcode = ExitOpcode
  /\ Fetch(in) /\ GotoPc(pc + 1)
  /\ status' = "exit"
  /\ UNCHANGED <<reg, mem>>

\* The immediate of the next instruction is the upper half.
LoadDW(in) ==
  /\ in.opcode = LddwOpcode
  /\ \E hi \in Insts :
       /\ FetchTwo(in, hi)
       /\ SetReg(in.dst, U(Word, in.imm) + 2 ^ Word * U(Word, hi.imm))
  /\ GotoPc(pc + 2)
  /\ UNCHANGED <<mem, status>>

LoadX(in) ==
  /\ in.opcode \in MemOpcodes(CLS.LDX)
  /\ Fetch(in) /\ GotoPc(pc + 1)
  /\ LET a == Address(in.src, in)
         n == Bytes(in.opcode)
     IN  \/ Cells(a, n) \subseteq Mem /\ SetReg(in.dst, Load(mem, a, n)) /\ UNCHANGED status
         \/ ~(Cells(a, n) \subseteq Mem) /\ status' = "trap" /\ UNCHANGED reg
  /\ UNCHANGED mem

\* Mutant: the immediate of a store is not extended to 64 bits.
StoreXCut(in) ==
  /\ in.opcode \in StOpcodes
  /\ Fetch(in) /\ GotoPc(pc + 1)
  /\ LET a == Address(in.dst, in)
         n == Bytes(in.opcode)
         v == IF EBPF_CLS(in.opcode) = CLS.STX THEN reg[in.src] ELSE U(Word, in.imm)
     IN  \/ Cells(a, n) \subseteq Mem /\ mem' = Store(mem, a, n, v) /\ UNCHANGED status
         \/ ~(Cells(a, n) \subseteq Mem) /\ status' = "trap" /\ UNCHANGED mem
  /\ UNCHANGED reg

StoreX(in) ==
  /\ in.opcode \in StOpcodes
  /\ Fetch(in) /\ GotoPc(pc + 1)
  /\ LET a == Address(in.dst, in)
         n == Bytes(in.opcode)
         v == IF EBPF_CLS(in.opcode) = CLS.STX THEN reg[in.src] ELSE U(DWord, in.imm)
     IN  \/ Cells(a, n) \subseteq Mem /\ mem' = Store(mem, a, n, v) /\ UNCHANGED status
         \/ ~(Cells(a, n) \subseteq Mem) /\ status' = "trap" /\ UNCHANGED mem
  /\ UNCHANGED reg

\* default: a message, and an assertion that fails.
Invalid(in) ==
  /\ in.opcode \notin Opcodes
  /\ Fetch(in) /\ GotoPc(pc + 1)
  /\ status' = "invalid"
  /\ UNCHANGED <<reg, mem>>

Next ==
  /\ status = "running"
  /\ UNCHANGED family
  /\ \E in \in Insts :
       \/ Alu(in) \/ Endian(in) \/ Jump(in) \/ Call(in) \/ Exit(in)
       \/ LoadDW(in) \/ LoadX(in) \/ StoreX(in) \/ Invalid(in)

Spec == Init /\ [][Next]_vars

-----------------------------------------------------------------------------
\* The 32-bit operations leave the upper half of the register they write
\* zero, whatever the halves of the operands are (the casts to uint32_t).
UpperHalfClear ==
  [][LET in == prog'[inst']
     IN  status' = "running" /\ in.opcode \in AluOpcodes /\ EBPF_CLS(in.opcode) = CLS.ALU
         => reg'[in.dst] < 2 ^ Word]_vars

\* A load of bytes that the instruction before it has stored gets that part of
\* the stored value, whatever the sizes of the two are: the value of a register,
\* or an immediate, which a 64-bit store extends with its sign.
LoadsSeeStores ==
  inst = 1 /\ status = "running" =>
    LET st == prog[0]
        ld == prog[1]
        v == IF EBPF_CLS(st.opcode) = CLS.STX THEN reg[st.src] ELSE U(DWord, st.imm)
        skip == ld.offset - st.offset
    IN  /\ st.opcode \in StOpcodes /\ ld.opcode \in MemOpcodes(CLS.LDX)
        /\ st.dst = ld.src /\ ld.dst \notin {st.dst, st.src}
        /\ skip \in 0 .. Bytes(st.opcode) - Bytes(ld.opcode)
        => reg[ld.dst] = (v \div 2 ^ (B * skip)) % 2 ^ (B * Bytes(ld.opcode))
=============================================================================
