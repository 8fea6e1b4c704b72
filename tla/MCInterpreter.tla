--------------------------- MODULE MCInterpreter ---------------------------
(***************************************************************************)
(* Bytes of one bit: 32-bit numbers have 4 bits, 64-bit numbers 8.         *)
(***************************************************************************)
EXTENDS Interpreter

FlowReach == 7  \* how far the programs with jumps are followed (bound)

\* Two operand registers and boundary values of both widths.
Boundary == {0, 1, 2, 7, 8, 15, 16, 23, 127, 128, 240, 255}
OperandRegs ==
  {[r \in Unset |-> CASE r = 2 -> a [] r = 3 -> b [] OTHER -> 0] : a \in Boundary, b \in Boundary}
ZeroRegs == {[r \in Unset |-> 0]}

\* Every opcode there is, on these registers.
AllOpcodes ==
  [opcode : (Opcodes \ {LddwOpcode}) \cup {\hff}, dst : {2}, src : {3}, offset : {0},
   imm : {-8, -1, 0, 1, 3}]
  \cup [opcode : EndOpcodes, dst : {2}, src : {0}, offset : {0}, imm : {16, 32, 64}]

\* Jumps both ways, and what stands between them.
I(op, offset, imm) == [opcode |-> op, dst |-> 2, src |-> 3, offset |-> offset, imm |-> imm]
Flow(offsets) ==
  {I(CLS.JMP + JMP_OP.JA, o, 0) : o \in offsets}
  \cup {I(CLS.JMP + JMP_OP.JEQ, o, 1) : o \in offsets}
  \cup {I(CLS.ALU64 + ALU_OP.ADD, 0, 1), I(LddwOpcode, 0, 1), I(CallOpcode, 0, 0),
        I(ExitOpcode, 0, 0), I(\hff, 0, 0)}

\* Stores to the stack, of R3 or an immediate, and loads into R2.
Stack ==
  [opcode : StOpcodes, dst : {10}, src : {3}, offset : {-8, -6, -4}, imm : {-7, 5}]
  \cup [opcode : MemOpcodes(CLS.LDX), dst : {2}, src : {10}, offset : -8 .. -1, imm : {0}]
StoredRegs == {[r \in Unset |-> IF r = 3 THEN v ELSE 0] : v \in {1, 90, 200, 255}}

SomePrograms ==
  [each |-> [insts |-> AllOpcodes, reach |-> 1, uninit |-> OperandRegs],
   flow |-> [insts |-> Flow({-3, -2, -1, 0, 1, 2}), reach |-> FlowReach, uninit |-> ZeroRegs],
   stack |-> [insts |-> Stack, reach |-> 2, uninit |-> StoredRegs]]
=============================================================================
