-------------------------------- MODULE Code --------------------------------
(***************************************************************************)
(* code/code.go: the opcodes, how an instruction is laid out as bytes and  *)
(* how its operands are read back.  A byte holds 0..ByteSize-1; Go's byte  *)
(* has ByteSize = 256, and a smaller value brings the limits of one and    *)
(* two byte operands into reach.  Positions count bytes from 0, as in Go.  *)
(***************************************************************************)
EXTENDS Integers, Sequences

CONSTANT ByteSize

(* A byte holds every opcode.                                              *)
ASSUME ByteSizeAssumption == ByteSize \in Nat /\ ByteSize > 28

OpConstant == 0
OpAdd == 1
OpSub == 2
OpMul == 3
OpDiv == 4
OpPop == 5
OpTrue == 6
OpFalse == 7
OpEqual == 8
OpNotEqual == 9
OpGreaterThan == 10
OpMinus == 11
OpBang == 12
OpJumpNotTruthy == 13
OpJump == 14
OpNull == 15
OpSetGlobal == 16
OpGetGlobal == 17
OpArray == 18
OpHash == 19
OpIndex == 20
OpCall == 21
OpReturnValue == 22
OpReturn == 23
OpSetLocal == 24
OpGetLocal == 25
OpGetBuiltin == 26
OpClosure == 27
OpGetFree == 28

Opcodes == 0..28

(* definitions: the width in bytes of each operand.                        *)
OperandWidths(op) ==
  CASE op \in {OpConstant, OpJumpNotTruthy, OpJump, OpSetGlobal, OpGetGlobal,
               OpArray, OpHash} -> <<2>>
    [] op \in {OpCall, OpSetLocal, OpGetLocal, OpGetBuiltin, OpGetFree} -> <<1>>
    [] op = OpClosure -> <<2, 1>>
    [] OTHER -> <<>>

(* Mutant: the low byte first.                                             *)
PutOperandLittleEndian(width, o) ==
  IF width = 1 THEN <<o % ByteSize>> ELSE <<o % ByteSize, (o \div ByteSize) % ByteSize>>

(* Big-endian; what does not fit is cut off, as Go's byte(o), uint16(o).   *)
PutOperand(width, o) ==
  IF width = 1 THEN <<o % ByteSize>> ELSE <<(o \div ByteSize) % ByteSize, o % ByteSize>>

(* Make, for the operand counts emit passes: one for each operand width.   *)
Make(op, operands) ==
  LET w == OperandWidths(op)
  IN  <<op>> \o (IF Len(w) > 0 THEN PutOperand(w[1], operands[1]) ELSE <<>>)
             \o (IF Len(w) > 1 THEN PutOperand(w[2], operands[2]) ELSE <<>>)

(* The number of bytes of an instruction.                                  *)
Width(op) ==
  LET w == OperandWidths(op)
  IN  1 + (IF Len(w) > 0 THEN w[1] ELSE 0) + (IF Len(w) > 1 THEN w[2] ELSE 0)

(* Mutant: the byte is taken for a signed one.                             *)
ReadInt8(ins, pos) == IF ins[pos + 1] < ByteSize \div 2 THEN ins[pos + 1] ELSE ins[pos + 1] - ByteSize

ReadUint8(ins, pos)  == ins[pos + 1]
ReadUint16(ins, pos) == ins[pos + 1] * ByteSize + ins[pos + 2]

(* ReadOperands(def, ins[pos:])                                            *)
ReadOperands(op, ins, pos) ==
  LET w == OperandWidths(op)
      Read(width, at) == IF width = 1 THEN ReadUint8(ins, at) ELSE ReadUint16(ins, at)
  IN  CASE Len(w) = 0 -> <<>>
        [] Len(w) = 1 -> <<Read(w[1], pos)>>
        [] Len(w) = 2 -> <<Read(w[1], pos), Read(w[2], pos + w[1])>>

(* The operand that is left of o in the given number of bytes.             *)
Kept(width, o) == o % (IF width = 1 THEN ByteSize ELSE ByteSize * ByteSize)
=============================================================================
