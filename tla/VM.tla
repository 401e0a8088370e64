--------------------------------- MODULE VM ---------------------------------
(***************************************************************************)
(* vm/vm.go and vm/frame.go: the stack machine.  One step is one turn of   *)
(* the loop of Run.  Slots of the stack above sp keep what was left there, *)
(* as in Go, and a slot that was never written holds Nil.                  *)
(*                                                                         *)
(* Run ends with status "done" (it returned nil), "error" (it returned an  *)
(* error) or "panic" (a Go run-time panic, which nothing recovers: an      *)
(* index out of range, a method of nil, a failed type assertion, a         *)
(* division by zero).  What a panicking step has written before it stopped *)
(* cannot be seen by anyone and is left out.                               *)
(***************************************************************************)
EXTENDS Code, Objects

CONSTANTS
  StackSize,     (* 2048  *)
  GlobalsSize,   (* 65536 *)
  MaxFrames      (* 1024  *)

ASSUME VMAssumption ==
  /\ StackSize \in Nat
  /\ GlobalsSize \in Nat
  /\ MaxFrames \in Nat \ {0}

VARIABLES
  constants,   (* vm.constants                                             *)
  stack, sp,   (* vm.stack, vm.sp                                          *)
  globals,     (* vm.globals                                               *)
  frames,      (* vm.frames up to framesIndex, the running function last   *)
  status,      (* How Run stands.                                          *)
  heap         (* The objects allocated, to give the next one its identity *)

vmVars == <<constants, stack, sp, globals, frames, status, heap>>

NewFrame(cl, basePointer) == [cl |-> cl, ip |-> -1, basePointer |-> basePointer]

MainFrame(instructions) ==
  NewFrame(Closure(CompiledFunction(instructions, 0, 0), <<>>, <<"main">>), 0)

EmptySlots(n) == [k \in 0..n - 1 |-> Nil]

Frame == frames[Len(frames)]
ins   == Frame.cl.Fn.Instructions
ip    == Frame.ip + 1              (* where this turn of the loop reads    *)
op    == ins[ip + 1]

NextRef == <<"heap", heap>>

Fetch(ops) == status = "running" /\ Frame.ip < Len(ins) - 1 /\ op \in ops

(* ip++ of the loop, and past the operands.                                *)
Advance == frames' = [frames EXCEPT ![Len(frames)].ip = @ + Width(op)]

JumpTo(pos) == frames' = [frames EXCEPT ![Len(frames)].ip = pos - 1]

Panics     == status' = "panic" /\ UNCHANGED <<stack, sp>>
Fails(at)  == status' = "error" /\ sp' = at /\ UNCHANGED stack

(* push(o) when vm.sp is at.                                               *)
Push(at, o) ==
  IF at >= StackSize THEN Fails(at)
  ELSE IF at < 0 THEN Panics
  ELSE stack' = [stack EXCEPT ![at] = o] /\ sp' = at + 1 /\ UNCHANGED status

(* The n topmost slots exist, so that pop does not panic.                  *)
Holds(n) == n = 0 \/ (sp - n >= 0 /\ sp <= StackSize)
Top(n)   == stack[sp - n]
Topmost(n) == [k \in 1..n |-> stack[sp - n + k - 1]]

Keeps == UNCHANGED <<constants, globals, heap>>
Allocates == heap' = heap + 1 /\ UNCHANGED <<constants, globals>>

-----------------------------------------------------------------------------
(* Instructions that push something they name.                             *)
Load(ops, exists, o) ==
  /\ Fetch(ops)
  /\ IF exists THEN Push(sp, o) ELSE Panics
  /\ Advance /\ Keeps

ExecuteConstant ==
  LET i == ReadUint16(ins, ip + 1)
  IN  Load({OpConstant}, i < Len(constants), constants[i + 1])

ExecuteSingleton ==
  Load({OpTrue, OpFalse, OpNull}, TRUE,
       CASE op = OpTrue -> True [] op = OpFalse -> False [] op = OpNull -> Null)

ExecuteGetGlobal ==
  LET i == ReadUint16(ins, ip + 1) IN Load({OpGetGlobal}, i < GlobalsSize, globals[i])

ExecuteGetLocal ==
  LET i == Frame.basePointer + ReadUint8(ins, ip + 1)
  IN  Load({OpGetLocal}, i < StackSize, stack[i])

ExecuteGetBuiltin ==
  LET i == ReadUint8(ins, ip + 1)
  IN  Load({OpGetBuiltin}, i < Len(Builtins), Builtin(Builtins[i + 1]))

ExecuteGetFree ==
  LET i == ReadUint8(ins, ip + 1)
  IN  Load({OpGetFree}, i < Len(Frame.cl.Free), Frame.cl.Free[i + 1])

ExecutePop ==
  /\ Fetch({OpPop})
  /\ IF Holds(1) THEN sp' = sp - 1 /\ UNCHANGED <<stack, status>> ELSE Panics
  /\ Advance /\ Keeps

ExecuteSetGlobal ==
  /\ Fetch({OpSetGlobal})
  /\ LET i == ReadUint16(ins, ip + 1)
     IN  IF Holds(1) /\ i < GlobalsSize
         THEN /\ globals' = [globals EXCEPT ![i] = Top(1)]
              /\ sp' = sp - 1
              /\ UNCHANGED <<stack, status>>
         ELSE Panics /\ UNCHANGED globals
  /\ Advance /\ UNCHANGED <<constants, heap>>

(* Mutant: locals are addressed from the bottom of the stack.              *)
ExecuteSetLocalAbsolute ==
  /\ Fetch({OpSetLocal})
  /\ LET i == ReadUint8(ins, ip + 1)
     IN  IF Holds(1) /\ i < StackSize
         THEN /\ stack' = [stack EXCEPT ![i] = Top(1)]
              /\ sp' = sp - 1
              /\ UNCHANGED status
         ELSE Panics
  /\ Advance /\ Keeps

ExecuteSetLocal ==
  /\ Fetch({OpSetLocal})
  /\ LET i == Frame.basePointer + ReadUint8(ins, ip + 1)
     IN  IF Holds(1) /\ i < StackSize
         THEN /\ stack' = [stack EXCEPT ![i] = Top(1)]
              /\ sp' = sp - 1
              /\ UNCHANGED status
         ELSE Panics
  /\ Advance /\ Keeps

-----------------------------------------------------------------------------
(* Control.                                                                *)
IsTruthy(o) == o # False /\ o # Null

ExecuteJumpNotTruthy ==
  /\ Fetch({OpJumpNotTruthy})
  /\ IF Holds(1) THEN sp' = sp - 1 /\ UNCHANGED <<stack, status>> ELSE Panics
  /\ IF Holds(1) /\ ~IsTruthy(Top(1)) THEN JumpTo(ReadUint16(ins, ip + 1)) ELSE Advance
  /\ Keeps

ExecuteJump ==
  /\ Fetch({OpJump})
  /\ JumpTo(ReadUint16(ins, ip + 1))
  /\ UNCHANGED <<stack, sp, status>> /\ Keeps

(* The callee lies below its numArgs arguments, which become its first     *)
(* locals; pushFrame has no check of its own.                              *)
numArgs == ReadUint8(ins, ip + 1)
callee  == stack[sp - 1 - numArgs]

(* Mutant: the arguments are left below the frame.                         *)
BasePointerAboveArguments == sp

BasePointer == sp - numArgs

(* Mutant: the array is taken to be one longer.                            *)
FramesFullLate == Len(frames) > MaxFrames

(* frames[framesIndex] is out of range.                                    *)
FramesFull == Len(frames) >= MaxFrames

ExecuteCallClosure ==
  /\ Fetch({OpCall}) /\ Holds(numArgs + 1) /\ callee.type = CLOSURE_OBJ
  /\ LET returned == [frames EXCEPT ![Len(frames)].ip = @ + Width(op)]
     IN  IF numArgs # callee.Fn.NumParameters THEN Fails(sp) /\ Advance
         ELSE IF FramesFull THEN Panics /\ Advance
         ELSE /\ frames' = Append(returned, NewFrame(callee, BasePointer))
              /\ sp' = BasePointer + callee.Fn.NumLocals
              /\ UNCHANGED <<stack, status>>
  /\ Keeps

ExecuteCallBuiltin ==
  /\ Fetch({OpCall}) /\ Holds(numArgs + 1) /\ callee.type = BUILTIN_OBJ
  /\ IF BuiltinPanics(callee.Fn, Topmost(numArgs)) THEN Panics
     ELSE LET result == CallBuiltin(callee.Fn, Topmost(numArgs), NextRef)
          IN  Push(sp - numArgs - 1, IF result = Nil THEN Null ELSE result)
  /\ Advance /\ Allocates

ExecuteCallOther ==
  /\ Fetch({OpCall}) /\ (Holds(numArgs + 1) => callee.type \notin {CLOSURE_OBJ, BUILTIN_OBJ})
  /\ IF Holds(numArgs + 1) THEN Fails(sp) ELSE Panics
  /\ Advance /\ Keeps

(* Mutant: the callee is dropped twice.                                    *)
ReturnBelowCallee(value) ==
  /\ frames' = SubSeq(frames, 1, Len(frames) - 1)
  /\ Push(Frame.basePointer - 2, value)
  /\ Keeps

(* popFrame, and the value in place of the callee.                         *)
Return(value) ==
  /\ frames' = SubSeq(frames, 1, Len(frames) - 1)
  /\ Push(Frame.basePointer - 1, value)
  /\ Keeps

ExecuteReturnValue ==
  /\ Fetch({OpReturnValue})
  /\ IF Holds(1) THEN Return(Top(1)) ELSE Panics /\ Advance /\ Keeps

ExecuteReturn == Fetch({OpReturn}) /\ Return(Null)

(* Run returns nil when the code of the current frame is used up.          *)
Finish ==
  /\ status = "running" /\ Frame.ip >= Len(ins) - 1
  /\ status' = "done"
  /\ UNCHANGED <<stack, sp, frames>> /\ Keeps

-----------------------------------------------------------------------------
(* Operators.                                                              *)
Arithmetic(a, b) ==
  CASE op = OpAdd -> a + b [] op = OpSub -> a - b [] op = OpMul -> a * b
    [] op = OpDiv -> Quotient(a, b)

Both(type) == Top(2).type = type /\ Top(1).type = type

ExecuteBinaryOperation ==
  /\ Fetch({OpAdd, OpSub, OpMul, OpDiv})
  /\ IF ~Holds(2) \/ Top(1) = Nil \/ Top(2) = Nil THEN Panics
     ELSE IF Both(INTEGER_OBJ)
     THEN IF op = OpDiv /\ Top(1).int = 0 THEN Panics
          ELSE Push(sp - 2, Integer(Arithmetic(Top(2).int, Top(1).int)))
     ELSE IF Both(STRING_OBJ) /\ op = OpAdd
     THEN Push(sp - 2, String(Top(2).str \o Top(1).str, NextRef))
     ELSE Fails(sp - 2)
  /\ Advance /\ Allocates

(* One integer operand is enough to take the other for an integer too.     *)
ExecuteComparison ==
  /\ Fetch({OpEqual, OpNotEqual, OpGreaterThan})
  /\ IF ~Holds(2) \/ Top(1) = Nil \/ Top(2) = Nil THEN Panics
     ELSE IF INTEGER_OBJ \in {Top(1).type, Top(2).type}
     THEN IF ~Both(INTEGER_OBJ) THEN Panics
          ELSE Push(sp - 2, NativeBoolToBooleanObject(
                 CASE op = OpEqual       -> Top(2).int = Top(1).int
                   [] op = OpNotEqual    -> Top(2).int # Top(1).int
                   [] op = OpGreaterThan -> Top(2).int > Top(1).int))
     ELSE IF op = OpGreaterThan THEN Fails(sp - 2)
     ELSE Push(sp - 2, NativeBoolToBooleanObject((Top(1) = Top(2)) = (op = OpEqual)))
  /\ Advance /\ Keeps

ExecuteBangOperator ==
  /\ Fetch({OpBang})
  /\ IF ~Holds(1) THEN Panics ELSE Push(sp - 1, NativeBoolToBooleanObject(~IsTruthy(Top(1))))
  /\ Advance /\ Keeps

ExecuteMinusOperator ==
  /\ Fetch({OpMinus})
  /\ IF ~Holds(1) \/ Top(1) = Nil THEN Panics
     ELSE IF Top(1).type # INTEGER_OBJ THEN Fails(sp - 1)
     ELSE Push(sp - 1, Integer(-Top(1).int))
  /\ Advance /\ Keeps

-----------------------------------------------------------------------------
(* Objects with parts.                                                     *)
BuildArray ==
  /\ Fetch({OpArray})
  /\ LET n == ReadUint16(ins, ip + 1)
     IN  IF ~Holds(n) THEN Panics ELSE Push(sp - n, Array(Topmost(n), NextRef))
  /\ Advance /\ Allocates

(* Keys and values alternate; the last pair of a key stays.  The first key *)
(* that cannot be one ends it.                                             *)
HashedPairs(slots) ==
  LET keys == {k \in DOMAIN slots : k % 2 = 1}
      last(key) == CHOOSE k \in keys :
                     /\ HashKey(slots[k]) = key
                     /\ \A j \in keys : HashKey(slots[j]) = key => j <= k
  IN  [key \in {HashKey(slots[k]) : k \in keys} |->
         [Key |-> slots[last(key)], Value |-> slots[last(key) + 1]]]

BuildHash ==
  /\ Fetch({OpHash})
  /\ LET n == ReadUint16(ins, ip + 1)
         slots == Topmost(n)
         unusable == {k \in DOMAIN slots : k % 2 = 1 /\ ~Hashable(slots[k])}
     IN  IF ~Holds(n) THEN Panics
         ELSE IF unusable = {} THEN Push(sp - n, Hash(HashedPairs(slots), NextRef))
         ELSE IF \E k \in unusable : slots[k] = Nil /\ \A j \in unusable : k <= j
         THEN Panics ELSE Fails(sp)
  /\ Advance /\ Allocates

ExecuteIndexExpression ==
  /\ Fetch({OpIndex})
  /\ LET left == Top(2)  index == Top(1)
     IN  IF ~Holds(2) \/ left = Nil THEN Panics
         ELSE IF left.type \in {ARRAY_OBJ, HASH_OBJ} /\ index = Nil THEN Panics
         ELSE IF left.type = ARRAY_OBJ /\ index.type = INTEGER_OBJ
         THEN Push(sp - 2, IF index.int + 1 \in DOMAIN left.Elements
                           THEN left.Elements[index.int + 1] ELSE Null)
         ELSE IF left.type = HASH_OBJ /\ Hashable(index)
         THEN Push(sp - 2, IF HashKey(index) \in DOMAIN left.Pairs
                           THEN left.Pairs[HashKey(index)].Value ELSE Null)
         ELSE Fails(sp - 2)
  /\ Advance /\ Keeps

PushClosure ==
  /\ Fetch({OpClosure})
  /\ LET i == ReadUint16(ins, ip + 1)
         numFree == ReadUint8(ins, ip + 3)
     IN  IF i >= Len(constants) THEN Panics
         ELSE IF constants[i + 1].type # COMPILED_FUNCTION_OBJ THEN Fails(sp)
         ELSE IF ~Holds(numFree) THEN Panics
         ELSE Push(sp - numFree, Closure(constants[i + 1], Topmost(numFree), NextRef))
  /\ Advance /\ Allocates

Step ==
  \/ ExecuteConstant
  \/ ExecuteSingleton
  \/ ExecuteGetGlobal
  \/ ExecuteGetLocal
  \/ ExecuteGetBuiltin
  \/ ExecuteGetFree
  \/ ExecutePop
  \/ ExecuteSetGlobal
  \/ ExecuteSetLocal
  \/ ExecuteJumpNotTruthy
  \/ ExecuteJump
  \/ ExecuteCallClosure
  \/ ExecuteCallBuiltin
  \/ ExecuteCallOther
  \/ ExecuteReturnValue
  \/ ExecuteReturn
  \/ ExecuteBinaryOperation
  \/ ExecuteComparison
  \/ ExecuteBangOperator
  \/ ExecuteMinusOperator
  \/ BuildArray
  \/ BuildHash
  \/ ExecuteIndexExpression
  \/ PushClosure
  \/ Finish

-----------------------------------------------------------------------------
(* The region of the stack that belongs to the k-th frame ends here.       *)
Limit(k) == IF k = Len(frames) THEN sp ELSE frames[k + 1].basePointer - 1

(* The frames lie one above the other: each has room for its locals before *)
(* the callee of the next one, and the slot below its locals still holds   *)
(* the closure that it runs, where its result will go (vm.go:498, 200).    *)
FramesNested ==
  status = "running" =>
    \A k \in DOMAIN frames :
      LET f == frames[k]
      IN  /\ f.basePointer + f.cl.Fn.NumLocals <= Limit(k)
          /\ k > 1 => stack[f.basePointer - 1] = f.cl

(* No step of a function touches what its callers have on the stack or     *)
(* where they stand; only its return may replace the callee's slot.        *)
CallerUntouched ==
  status = "running" /\ status' = "running" =>
    LET returned == Len(frames') < Len(frames)
    IN  /\ \A i \in 0..Frame.basePointer - (IF returned THEN 2 ELSE 1) : stack'[i] = stack[i]
        /\ \A k \in 1..Len(frames) - 1 : frames'[k] = frames[k]

(* The machine panics for what a program asks of it, never because the     *)
(* compiled code takes operands that are not there, or names a constant, a *)
(* capture, a built-in or a slot that does not exist: it divides by zero   *)
(* (vm.go:311), compares an integer with something else (vm.go:334), uses  *)
(* a variable that has no value, calls too deep (vm.go:484) or returns     *)
(* from the program (vm.go:200).                                           *)
Operands == IF op = OpCall THEN numArgs + 1 ELSE IF op = OpHash THEN ReadUint16(ins, ip + 1)
            ELSE IF op = OpMinus THEN 1 ELSE 2

PanicCause ==
  \/ op = OpReturnValue /\ Holds(1) /\ Len(frames) = 1
  \/ /\ op \in {OpDiv, OpEqual, OpNotEqual, OpGreaterThan, OpAdd, OpSub, OpMul, OpMinus,
                OpIndex, OpHash, OpCall}
     /\ Holds(Operands)
     /\ \/ op = OpDiv /\ Both(INTEGER_OBJ) /\ Top(1).int = 0
        \/ op \in {OpEqual, OpNotEqual, OpGreaterThan} /\ ~Both(INTEGER_OBJ)
              /\ INTEGER_OBJ \in {Top(1).type, Top(2).type}
        \/ op = OpCall /\ FramesFull
        \/ \E k \in 1..Operands : HasHole(Top(k))

PanicExplained == status = "running" /\ status' = "panic" => PanicCause

(* A closure that is on the stack holds the values it captured: the name   *)
(* of a function is bound in its own body, "allowing for RECURSIVE         *)
(* FUNCTIONS!!!" (compiler.go:186).                                        *)
CapturesBound ==
  \A i \in DOMAIN stack : i < sp /\ stack[i].type = CLOSURE_OBJ =>
    \A k \in DOMAIN stack[i].Free : stack[i].Free[k] # Nil

(* sp "always points to the next free slot in the stack" (vm.go:43).       *)
StackPointerInStack == sp \in 0..StackSize
=============================================================================
