------------------------------ MODULE Emission ------------------------------
(***************************************************************************)
(* The code of one function while compiler/compiler.go writes it: what     *)
(* emit, removeLastPop, changeOperand and replaceLastPopWithReturn do to a *)
(* compilation scope.  Then what can be read off the code: where its       *)
(* instructions start, and how deep the stack is there.                    *)
(***************************************************************************)
EXTENDS Code

(* Compilation scopes.                                                     *)
EmittedInstruction(op, pos) == [Opcode |-> op, Position |-> pos]

CompilationScope(ins, last, previous) ==
  [instructions |-> ins, lastInstruction |-> last, previousInstruction |-> previous]

NewScope == CompilationScope(<<>>, EmittedInstruction(0, 0), EmittedInstruction(0, 0))

(* emit, with addInstruction and setLastInstruction.                       *)
Emit(scope, op, operands) ==
  CompilationScope(scope.instructions \o Make(op, operands),
                   EmittedInstruction(op, Len(scope.instructions)),
                   scope.lastInstruction)

LastInstructionIs(scope, op) ==
  scope.instructions # <<>> /\ scope.lastInstruction.Opcode = op

(* Mutant: lastInstruction still names the pop that is gone.               *)
RemoveLastPopOnly(scope) ==
  CompilationScope(SubSeq(scope.instructions, 1, scope.lastInstruction.Position),
                   scope.lastInstruction, scope.previousInstruction)

RemoveLastPop(scope) ==
  CompilationScope(SubSeq(scope.instructions, 1, scope.lastInstruction.Position),
                   scope.previousInstruction, scope.previousInstruction)

(* Mutant: the value of a block is popped.                                 *)
KeepNoValue(scope) == scope

(* The value of a block's last expression statement stays on the stack.    *)
KeepValue(scope) ==
  IF LastInstructionIs(scope, OpPop) THEN RemoveLastPop(scope) ELSE scope

ReplaceInstructions(ins, pos, new) ==
  [k \in DOMAIN ins |-> IF k - pos \in DOMAIN new THEN new[k - pos] ELSE ins[k]]

ChangeOperand(scope, opPos, operand) ==
  LET op == scope.instructions[opPos + 1]
  IN  CompilationScope(ReplaceInstructions(scope.instructions, opPos, Make(op, <<operand>>)),
                       scope.lastInstruction, scope.previousInstruction)

ReplaceLastPopWithReturn(scope) ==
  LET pos == scope.lastInstruction.Position
  IN  CompilationScope(ReplaceInstructions(scope.instructions, pos, Make(OpReturnValue, <<>>)),
                       EmittedInstruction(OpReturnValue, pos), scope.previousInstruction)

(* How the end of a function body becomes the end of its code.             *)
EndBody(scope) ==
  LET s == IF LastInstructionIs(scope, OpPop) THEN ReplaceLastPopWithReturn(scope)
                                              ELSE scope
  IN  IF LastInstructionIs(s, OpReturnValue) THEN s ELSE Emit(s, OpReturn, <<>>)

-----------------------------------------------------------------------------
(* Where the instructions of a byte sequence start.                        *)
Starts(ins) ==
  LET from[p \in 0..Len(ins) + 3] ==
        IF p >= Len(ins) THEN {} ELSE {p} \cup from[p + Width(ins[p + 1])]
  IN  from[0]

(* Where a function has one of these instructions.                         *)
Uses(fn, ops) == {p \in Starts(fn.Instructions) : fn.Instructions[p + 1] \in ops}

(* How many values an instruction takes off the stack and puts on it.      *)
Pops(ins, p) ==
  LET op == ins[p + 1]
  IN  CASE op \in {OpAdd, OpSub, OpMul, OpDiv, OpEqual, OpNotEqual, OpGreaterThan, OpIndex} -> 2
        [] op \in {OpMinus, OpBang, OpPop, OpJumpNotTruthy, OpSetGlobal, OpSetLocal,
                   OpReturnValue} -> 1
        [] op \in {OpArray, OpHash} -> ReadUint16(ins, p + 1)
        [] op = OpCall    -> ReadUint8(ins, p + 1) + 1
        [] op = OpClosure -> ReadUint8(ins, p + 3)
        [] OTHER -> 0

Pushes(op) ==
  IF op \in {OpPop, OpJump, OpJumpNotTruthy, OpSetGlobal, OpSetLocal, OpReturnValue, OpReturn}
  THEN 0 ELSE 1

Successors(ins, p) ==
  LET op == ins[p + 1]
  IN  (IF op \in {OpJump, OpReturn, OpReturnValue} THEN {} ELSE {p + Width(op)})
      \cup (IF op \in {OpJump, OpJumpNotTruthy} THEN {ReadUint16(ins, p + 1)} ELSE {})

(* The stack depths with which control may reach each position.            *)
Depths(ins) ==
  LET flow[p \in 0..Len(ins)] ==
        IF p = 0 THEN [q \in 0..Len(ins) |-> IF q = 0 THEN {0} ELSE {}]
        ELSE LET before == flow[p - 1]  here == before[p - 1]
             IN  IF here = {} THEN before
                 ELSE [q \in 0..Len(ins) |->
                         IF q \in Successors(ins, p - 1)
                         THEN before[q] \cup
                              {d - Pops(ins, p - 1) + Pushes(ins[p]) : d \in here}
                         ELSE before[q]]
  IN  flow[Len(ins)]
=============================================================================
