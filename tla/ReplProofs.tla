----------------------------- MODULE ReplProofs -----------------------------
(***************************************************************************)
(* The machine runs what the compiler makes, for every session.            *)
(*                                                                         *)
(* The invariant has five parts.  Session: the state of the compiler is    *)
(* well formed (CInv of CompilerProofs), and the machine holds a set of    *)
(* values that is closed under parts, in which every closure runs a        *)
(* function of the pool and holds all values that function names.  Roomy:  *)
(* what the session's names and saved functions name exists.  Poised: code *)
(* follows levels of the stack, so that it is balanced.  Running: every    *)
(* frame stands at an instruction of finished code.  Stacked: the regions  *)
(* of the frames lie one above the other, each as deep as its code         *)
(* implies.  Every instruction has one of four effects (Effect): it moves  *)
(* within its frame, calls, returns or stops; the instructions are sorted  *)
(* into these once (StepOutcome), and the invariant is shown for the four. *)
(***************************************************************************)
EXTENDS Repl, ProofBasics

CP == INSTANCE CompilerProofs WITH constants <- pool

-----------------------------------------------------------------------------
(* The compiler's and the machine's readings of code are the same.         *)
LEMMA SameOpcodes ==
  /\ C!OpConstant = OpConstant /\ C!OpAdd = OpAdd /\ C!OpSub = OpSub /\ C!OpMul = OpMul
  /\ C!OpDiv = OpDiv /\ C!OpPop = OpPop /\ C!OpTrue = OpTrue /\ C!OpFalse = OpFalse
  /\ C!OpEqual = OpEqual /\ C!OpNotEqual = OpNotEqual /\ C!OpGreaterThan = OpGreaterThan
  /\ C!OpMinus = OpMinus /\ C!OpBang = OpBang /\ C!OpJumpNotTruthy = OpJumpNotTruthy
  /\ C!OpJump = OpJump /\ C!OpNull = OpNull /\ C!OpSetGlobal = OpSetGlobal
  /\ C!OpGetGlobal = OpGetGlobal /\ C!OpArray = OpArray /\ C!OpHash = OpHash
  /\ C!OpIndex = OpIndex /\ C!OpCall = OpCall /\ C!OpReturnValue = OpReturnValue
  /\ C!OpReturn = OpReturn /\ C!OpSetLocal = OpSetLocal /\ C!OpGetLocal = OpGetLocal
  /\ C!OpGetBuiltin = OpGetBuiltin /\ C!OpClosure = OpClosure /\ C!OpGetFree = OpGetFree
BY DEF C!OpConstant, C!OpAdd, C!OpSub, C!OpMul, C!OpDiv, C!OpPop, C!OpTrue, C!OpFalse,
       C!OpEqual, C!OpNotEqual, C!OpGreaterThan, C!OpMinus, C!OpBang, C!OpJumpNotTruthy,
       C!OpJump, C!OpNull, C!OpSetGlobal, C!OpGetGlobal, C!OpArray, C!OpHash, C!OpIndex,
       C!OpCall, C!OpReturnValue, C!OpReturn, C!OpSetLocal, C!OpGetLocal, C!OpGetBuiltin,
       C!OpClosure, C!OpGetFree, OpConstant, OpAdd, OpSub, OpMul, OpDiv, OpPop, OpTrue, OpFalse,
       OpEqual, OpNotEqual, OpGreaterThan, OpMinus, OpBang, OpJumpNotTruthy, OpJump, OpNull,
       OpSetGlobal, OpGetGlobal, OpArray, OpHash, OpIndex, OpCall, OpReturnValue, OpReturn,
       OpSetLocal, OpGetLocal, OpGetBuiltin, OpClosure, OpGetFree

(* Widths, operands and the places where instructions start.               *)
LEMMA SameReading ==
  ASSUME NEW code, NEW p, NEW o
  PROVE  /\ C!Width(o) = Width(o) /\ CP!Width(o) = Width(o)
         /\ C!ReadUint8(code, p) = ReadUint8(code, p)
         /\ C!ReadUint16(code, p) = ReadUint16(code, p)
         /\ CP!ReadUint16(code, p) = ReadUint16(code, p)
         /\ CP!OpJump = OpJump /\ CP!OpJumpNotTruthy = OpJumpNotTruthy
         /\ CP!Starts(code) = C!Starts(code)
         /\ CP!Bytes = Bytes
<1>1. C!Width(o) = Width(o) /\ CP!Width(o) = Width(o)
  BY DEF CP!Width, CP!OperandWidths, C!Width, C!OperandWidths, Width, OperandWidths,
    CP!OpConstant, CP!OpJumpNotTruthy, CP!OpJump, CP!OpSetGlobal, CP!OpGetGlobal, CP!OpArray,
    CP!OpHash, CP!OpCall, CP!OpSetLocal, CP!OpGetLocal, CP!OpGetBuiltin, CP!OpGetFree, CP!OpClosure,
    C!OpConstant, C!OpJumpNotTruthy, C!OpJump, C!OpSetGlobal, C!OpGetGlobal, C!OpArray,
    C!OpHash, C!OpCall, C!OpSetLocal, C!OpGetLocal, C!OpGetBuiltin, C!OpGetFree, C!OpClosure,
    OpConstant, OpJumpNotTruthy, OpJump, OpSetGlobal, OpGetGlobal, OpArray, OpHash,
    OpCall, OpSetLocal, OpGetLocal, OpGetBuiltin, OpGetFree, OpClosure
<1>2. CP!Starts(code) = C!Starts(code)
  BY DEF CP!Starts, C!Starts, CP!Width, CP!OperandWidths, C!Width, C!OperandWidths,
    CP!OpConstant, CP!OpJumpNotTruthy, CP!OpJump, CP!OpSetGlobal, CP!OpGetGlobal, CP!OpArray,
    CP!OpHash, CP!OpCall, CP!OpSetLocal, CP!OpGetLocal, CP!OpGetBuiltin, CP!OpGetFree, CP!OpClosure,
    C!OpConstant, C!OpJumpNotTruthy, C!OpJump, C!OpSetGlobal, C!OpGetGlobal, C!OpArray,
    C!OpHash, C!OpCall, C!OpSetLocal, C!OpGetLocal, C!OpGetBuiltin, C!OpGetFree, C!OpClosure
<1>3. /\ C!ReadUint8(code, p) = ReadUint8(code, p)
      /\ C!ReadUint16(code, p) = ReadUint16(code, p)
      /\ CP!ReadUint16(code, p) = ReadUint16(code, p)
  BY DEF C!ReadUint8, C!ReadUint16, CP!ReadUint16, ReadUint8, ReadUint16
<1>4. CP!OpJump = OpJump /\ CP!OpJumpNotTruthy = OpJumpNotTruthy /\ CP!Bytes = Bytes
  BY DEF CP!OpJump, CP!OpJumpNotTruthy, OpJump, OpJumpNotTruthy, CP!Bytes, Bytes
<1>. QED BY <1>1, <1>2, <1>3, <1>4

-----------------------------------------------------------------------------
(* Two bytes hold every position of the finished code.                     *)
CodeFits == \A fn \in C!Finished : Len(fn.Instructions) <= ByteSize * ByteSize

(* Code that the machine can walk through: the instruction after each one  *)
(* is an instruction or the end, and jumps go forward to instructions.     *)
Walkable(code) ==
  /\ code \in Seq(Bytes) /\ Len(code) \in Nat
  /\ C!Starts(code) \subseteq 0..Len(code) - 1
  /\ 0 \in C!Starts(code) \cup {Len(code)}
  /\ \A p \in C!Starts(code) :
       /\ p + Width(code[p + 1]) \in C!Starts(code) \cup {Len(code)}
       /\ code[p + 1] \in {OpJump, OpJumpNotTruthy} =>
            ReadUint16(code, p + 1) \in C!Starts(code) /\ ReadUint16(code, p + 1) > p

(* The compiler's proofs speak of the same finished code.                  *)
LEMMA SameFinished ==
  /\ CP!Finished = C!Finished /\ CP!Functions = C!Functions
  /\ CP!Compiled = C!Compiled /\ CP!Scope = C!Scope
BY DEF CP!Finished, C!Finished, CP!Functions, C!Functions, CP!Compiled, C!Compiled, CP!Scope,
       C!Scope, CP!CompiledFunction, C!CompiledFunction, CP!COMPILED_FUNCTION_OBJ,
       C!COMPILED_FUNCTION_OBJ

(* Finished code is walkable (CInvJumpsLand, FinishedTight).               *)
LEMMA FinishedWalkable ==
  ASSUME NEW trees, CP!CInv(trees), CodeFits, NEW fn \in C!Finished
  PROVE  Walkable(fn.Instructions) /\ fn.NumLocals \in Nat /\ fn.NumParameters \in Nat
<1>. DEFINE code == fn.Instructions
<1>1. fn \in CP!Finished
  BY SameFinished
<1>2. CP!Linked(fn) /\ fn.type = CP!COMPILED_FUNCTION_OBJ
  BY <1>1, CP!FinishedTight, ObjectsAssumption, ByteSizeAssumption
<1>3. /\ code \in Seq(Bytes) /\ Len(code) \in Nat /\ fn.NumLocals \in Nat
      /\ fn.NumParameters \in Nat /\ CP!Whole(code)
  BY <1>2, SameReading DEF CP!Linked
<1>4. CP!CodeFits
  BY SameFinished DEF CodeFits, CP!CodeFits
<1>5. CP!JumpsLand
  BY <1>4, CP!CInvJumpsLand, ObjectsAssumption, ByteSizeAssumption
<1>6. ASSUME NEW p \in C!Starts(code), code[p + 1] \in {OpJump, OpJumpNotTruthy}
      PROVE  ReadUint16(code, p + 1) \in C!Starts(code) /\ ReadUint16(code, p + 1) > p
  <2>1. p \in CP!Uses(fn, {CP!OpJump, CP!OpJumpNotTruthy})
    BY <1>6, SameReading DEF CP!Uses
  <2>2. /\ CP!ReadUint16(code, p + 1) > p
        /\ CP!ReadUint16(code, p + 1) \in CP!Starts(code)
    BY <1>1, <1>5, <2>1 DEF CP!JumpsLand
  <2>. QED BY <2>2, SameReading
<1>7. /\ C!Starts(code) \subseteq 0..Len(code) - 1
      /\ Len(code) > 0 => 0 \in C!Starts(code)
      /\ \A p \in C!Starts(code) :
           p + Width(code[p + 1]) < Len(code) => p + Width(code[p + 1]) \in C!Starts(code)
  BY <1>3, CP!StartsClosed, SameReading, ObjectsAssumption, ByteSizeAssumption
<1>8. ASSUME NEW p \in C!Starts(code)
      PROVE  p + Width(code[p + 1]) \in C!Starts(code) \cup {Len(code)}
  <2>1. p + Width(code[p + 1]) <= Len(code)
    BY <1>3, SameReading DEF CP!Whole
  <2>2. p \in Nat /\ Width(code[p + 1]) \in Nat
    <3>1. p \in Nat
      BY <1>3, <1>7
    <3>. QED BY <3>1, OperandLayouts
  <2>. QED BY <1>3, <1>7, <2>1, <2>2
<1>9. 0 \in C!Starts(code) \cup {Len(code)}
  BY <1>3, <1>7
<1>. QED BY <1>3, <1>6, <1>7, <1>8, <1>9 DEF Walkable

-----------------------------------------------------------------------------
(* Depths.  Control only goes forward, so one pass over the code finds all *)
(* of them: what flows into a position does not change once it is reached. *)
LEMMA SuccessorsAhead ==
  ASSUME NEW code, Walkable(code), NEW p \in C!Starts(code), NEW q \in C!Successors(code, p)
  PROVE  q \in C!Starts(code) \cup {Len(code)} /\ q \in 0..Len(code) /\ q > p
<1>1. p \in Nat /\ p < Len(code) /\ Len(code) \in Nat /\ C!Starts(code) \subseteq 0..Len(code) - 1
  BY DEF Walkable
<1>2. \/ q = p + Width(code[p + 1])
      \/ code[p + 1] \in {OpJump, OpJumpNotTruthy} /\ q = ReadUint16(code, p + 1)
  BY SameReading, SameOpcodes DEF C!Successors
<1>3. CASE q = p + Width(code[p + 1])
  <2>1. q > p
    BY <1>1, <1>3, OperandLayouts
  <2>. QED BY <1>1, <1>3, <2>1 DEF Walkable
<1>4. CASE code[p + 1] \in {OpJump, OpJumpNotTruthy} /\ q = ReadUint16(code, p + 1)
  BY <1>1, <1>4 DEF Walkable
<1>. QED BY <1>2, <1>3, <1>4

FlowFrom(before, code, p, o) ==
  IF before[p] = {} THEN before
  ELSE [q \in 0..Len(code) |->
          IF q \in C!Successors(code, p)
          THEN before[q] \cup {d - C!Pops(code, p) + C!Pushes(o) : d \in before[p]}
          ELSE before[q]]

FlowStep(before, code, j) == FlowFrom(before, code, j - 1, code[j])

Flows(f, code, k) ==
  f = [j \in 0..k |-> IF j = 0 THEN [q \in 0..Len(code) |-> IF q = 0 THEN {0} ELSE {}]
                               ELSE FlowStep(f[j - 1], code, j)]

(* The pass ends.                                                          *)
LEMMA FlowsExists ==
  ASSUME NEW code, NEW k \in Nat
  PROVE  \E f : Flows(f, code, k)
<1>. DEFINE start == [q \in 0..Len(code) |-> IF q = 0 THEN {0} ELSE {}]
            T == {m \in Nat : \E f : Flows(f, code, m)}
<1>. HIDE DEF start
<1>1. 0 \in T
  <2>1. Flows([j \in 0..0 |-> start], code, 0)
    BY DEF Flows, start
  <2>. QED BY <2>1
<1>2. ASSUME NEW m \in Nat, m \in T PROVE m + 1 \in T
  <2>1. PICK f : Flows(f, code, m)
    BY <1>2
  <2>. DEFINE g == [j \in 0..m + 1 |-> IF j = m + 1 THEN FlowStep(f[m], code, j) ELSE f[j]]
  <2>2. ASSUME NEW j \in 0..m + 1
        PROVE  g[j] = IF j = 0 THEN start ELSE FlowStep(g[j - 1], code, j)
    <3>1. CASE j = m + 1
      <4>1. j # 0 /\ j - 1 = m /\ m \in 0..m + 1 /\ m # m + 1
        BY <3>1
      <4>2. g[j - 1] = f[m]
        BY <4>1
      <4>. QED BY <3>1, <4>1, <4>2
    <3>2. CASE j # m + 1
      <4>1. j \in 0..m /\ (j # 0 => j - 1 \in 0..m + 1 /\ j - 1 # m + 1)
        BY <3>2
      <4>2. g[j] = f[j] /\ (j # 0 => g[j - 1] = f[j - 1])
        BY <3>2, <4>1
      <4>. QED BY <2>1, <4>1, <4>2 DEF Flows, start
    <3>. QED BY <3>1, <3>2
  <2>3. Flows(g, code, m + 1)
    BY <2>2 DEF Flows, start
  <2>. QED BY <2>3
<1>3. \A m \in Nat : m \in T
  BY <1>1, <1>2, SetInduction
<1>. QED BY <1>3

(* One position of the pass: only instructions are reached, and only what  *)
(* lies ahead changes.                                                     *)
Forward(f, code, n) ==
  /\ f[n] = [q \in 0..Len(code) |-> f[n][q]]
  /\ \A q \in 0..Len(code) : f[n][q] # {} => q \in C!Starts(code) \cup {Len(code)}
  /\ 0 \in f[n][0]

(* One step of the pass.                                                   *)
LEMMA FlowAhead ==
  ASSUME NEW code, Walkable(code), NEW f, Flows(f, code, Len(code)),
         NEW n \in Nat, n < Len(code), Forward(f, code, n)
  PROVE  /\ Forward(f, code, n + 1)
         /\ \A q \in 0..Len(code) : f[n][q] \subseteq f[n + 1][q]
         /\ \A q \in 0..n : f[n + 1][q] = f[n][q]
         /\ \A d \in f[n][n] : \A q \in C!Successors(code, n) :
              d - C!Pops(code, n) + C!Pushes(code[n + 1]) \in f[n + 1][q]
<1>. DEFINE L == Len(code)
            New == {d - C!Pops(code, n) + C!Pushes(code[n + 1]) : d \in f[n][n]}
<1>1. L \in Nat /\ n \in 0..L /\ n + 1 \in 0..L /\ (n + 1) - 1 = n /\ n + 1 # 0 /\ 0 \in 0..L
  BY DEF Walkable
<1>2. f[n + 1] = FlowFrom(f[n], code, n, code[n + 1])
  <2>1. f[n + 1] = FlowStep(f[n], code, n + 1)
    BY <1>1 DEF Flows
  <2>. QED BY <1>1, <2>1 DEF FlowStep
<1>3. CASE f[n][n] = {}
  <2>1. f[n + 1] = f[n]
    BY <1>1, <1>2, <1>3 DEF FlowFrom
  <2>. QED BY <1>1, <1>3, <2>1 DEF Forward
<1>4. CASE f[n][n] # {}
  <2>1. n \in C!Starts(code)
    <3>1. n # L /\ n \in C!Starts(code) \cup {L}
      BY <1>1, <1>4 DEF Forward
    <3>. QED BY <3>1
  <2>2. \A q \in C!Successors(code, n) : q \in C!Starts(code) \cup {L} /\ q \in 0..L /\ q > n
    BY <2>1, SuccessorsAhead
  <2>. HIDE DEF New
  <2>3. f[n + 1] = [q \in 0..L |-> IF q \in C!Successors(code, n) THEN f[n][q] \cup New ELSE f[n][q]]
    BY <1>1, <1>2, <1>4 DEF FlowFrom, New
  <2>4. \A q \in 0..n : q \in 0..L /\ ~(q > n)
    BY <1>1
  <2>5. \A q \in 0..L : f[n + 1][q] = IF q \in C!Successors(code, n) THEN f[n][q] \cup New ELSE f[n][q]
    BY <2>3
  <2>6. Forward(f, code, n + 1)
    <3>1. f[n + 1] = [q \in 0..L |-> f[n + 1][q]]
      BY <2>3
    <3>2. \A q \in 0..L : f[n + 1][q] # {} => q \in C!Starts(code) \cup {L}
      BY <2>2, <2>5 DEF Forward
    <3>3. 0 \in f[n + 1][0]
      BY <1>1, <2>5 DEF Forward
    <3>. QED BY <3>1, <3>2, <3>3 DEF Forward
  <2>7. \A d \in f[n][n] : d - C!Pops(code, n) + C!Pushes(code[n + 1]) \in New
    BY DEF New
  <2>. QED BY <2>2, <2>4, <2>5, <2>6, <2>7
<1>. QED BY <1>3, <1>4

(* Depths starts with an empty stack and follows every instruction to      *)
(* whatever may come after it.                                             *)
LEMMA DepthsFlow ==
  ASSUME NEW code, Walkable(code)
  PROVE  /\ 0 \in C!Depths(code)[0]
         /\ \A p \in C!Starts(code) : \A d \in C!Depths(code)[p] : \A q \in C!Successors(code, p) :
              d - C!Pops(code, p) + C!Pushes(code[p + 1]) \in C!Depths(code)[q]
<1>. DEFINE L == Len(code)
            f == CHOOSE g : Flows(g, code, L)
<1>1. C!Depths(code) = f[L]
  BY DEF C!Depths, Flows, FlowStep, FlowFrom
<1>2. L \in Nat /\ 0 \in 0..L
  BY DEF Walkable
<1>3. Flows(f, code, L)
  BY <1>2, FlowsExists
<1>. HIDE DEF f
<1>4. Forward(f, code, 0)
  <2>1. f[0] = [q \in 0..L |-> IF q = 0 THEN {0} ELSE {}]
    BY <1>2, <1>3 DEF Flows
  <2>2. 0 \in C!Starts(code) \cup {L}
    BY DEF Walkable
  <2>. QED BY <1>2, <2>1, <2>2 DEF Forward
<1>5. \A n \in Nat : n <= L => Forward(f, code, n)
  <2>. DEFINE T == {n \in Nat : n <= L => Forward(f, code, n)}
  <2>1. 0 \in T
    BY <1>4
  <2>2. ASSUME NEW n \in Nat, n \in T PROVE n + 1 \in T
    <3>1. n + 1 <= L => n <= L /\ n < L
      BY <1>2
    <3>. QED BY <1>3, <2>2, <3>1, FlowAhead
  <2>3. \A n \in Nat : n \in T
    BY <2>1, <2>2, SetInduction
  <2>. QED BY <2>3
<1>6. ASSUME NEW n \in Nat, n <= L
      PROVE  /\ \A q \in 0..L : f[n][q] \subseteq f[L][q]
             /\ \A q \in 0..n : f[L][q] = f[n][q]
  <2>. DEFINE T == {i \in Nat : n + i <= L =>
                      /\ \A q \in 0..L : f[n][q] \subseteq f[n + i][q]
                      /\ \A q \in 0..n : f[n + i][q] = f[n][q]}
  <2>1. 0 \in T
    BY <1>6
  <2>2. ASSUME NEW i \in Nat, i \in T PROVE i + 1 \in T
    <3>. DEFINE m == n + i
    <3>1. m \in Nat /\ n + (i + 1) = m + 1 /\ (m + 1 <= L => m <= L /\ m < L)
          /\ \A q \in 0..n : q \in 0..m
      BY <1>2, <1>6
    <3>2. m + 1 <= L => /\ \A q \in 0..L : f[m][q] \subseteq f[m + 1][q]
                        /\ \A q \in 0..m : f[m + 1][q] = f[m][q]
      BY <1>3, <1>5, <3>1, FlowAhead
    <3>3. m + 1 <= L => /\ \A q \in 0..L : f[n][q] \subseteq f[m][q]
                        /\ \A q \in 0..n : f[m][q] = f[n][q]
      BY <2>2, <3>1
    <3>. HIDE DEF m
    <3>4. m + 1 <= L => /\ \A q \in 0..L : f[n][q] \subseteq f[m + 1][q]
                        /\ \A q \in 0..n : f[m + 1][q] = f[n][q]
      BY <3>1, <3>2, <3>3
    <3>. QED BY <3>1, <3>4
  <2>3. L - n \in Nat /\ n + (L - n) = L /\ L <= L
    BY <1>2, <1>6
  <2>4. L - n \in T
    <3>. HIDE DEF T
    <3>. QED BY <2>1, <2>2, <2>3, SetInduction
  <2>. QED BY <2>3, <2>4
<1>7. ASSUME NEW p \in C!Starts(code), NEW d \in f[L][p], NEW q \in C!Successors(code, p)
      PROVE  d - C!Pops(code, p) + C!Pushes(code[p + 1]) \in f[L][q]
  <2>1. p \in Nat /\ p < L /\ p <= L /\ p \in 0..p /\ p + 1 \in Nat /\ p + 1 <= L
    <3>1. p \in 0..L - 1
      BY DEF Walkable
    <3>. QED BY <1>2, <3>1
  <2>2. d \in f[p][p]
    BY <1>6, <2>1
  <2>3. d - C!Pops(code, p) + C!Pushes(code[p + 1]) \in f[p + 1][q]
    BY <1>3, <1>5, <2>1, <2>2, FlowAhead
  <2>4. q \in 0..L
    BY SuccessorsAhead
  <2>5. f[p + 1][q] \subseteq f[L][q]
    BY <1>6, <2>1, <2>4
  <2>. QED BY <2>3, <2>5
<1>8. 0 \in f[L][0]
  <2>1. L <= L
    BY <1>2
  <2>. QED BY <1>2, <1>5, <2>1 DEF Forward
<1>. QED BY <1>1, <1>7, <1>8

-----------------------------------------------------------------------------
(* Values.  An object is made of values of V; its code, if it is a         *)
(* closure, and the number of values it holds are a pair of P.             *)
Part(o, V, P) ==
  /\ o.type = CLOSURE_OBJ =>
       /\ <<o.Fn, Len(o.Free)>> \in P
       /\ Sequence(o.Free) /\ \A k \in 1..Len(o.Free) : o.Free[k] \in V
  /\ o.type = ARRAY_OBJ => Sequence(o.Elements) /\ \A k \in 1..Len(o.Elements) : o.Elements[k] \in V
  /\ o.type = HASH_OBJ => \A key \in DOMAIN o.Pairs : o.Pairs[key].Value \in V
  /\ o.type = BUILTIN_OBJ => o.Fn \in {"len", "first", "last", "rest", "push", "puts"}

Values(V, P) == \A o \in V : Part(o, V, P)

(* A new object may join the values it is made of.                         *)
LEMMA ValuesGrow ==
  ASSUME NEW V, NEW P, Values(V, P), NEW o, Part(o, V, P)
  PROVE  Values(V \cup {o}, P)
<1>1. ASSUME NEW x, Part(x, V, P) PROVE Part(x, V \cup {o}, P)
  BY <1>1 DEF Part
<1>. QED BY <1>1 DEF Values

(* The objects without parts.                                              *)
LEMMA PlainParts ==
  ASSUME NEW V, NEW P, NEW x, NEW y, NEW b
  PROVE  /\ Part(Nil, V, P) /\ Part(Null, V, P) /\ Part(True, V, P) /\ Part(False, V, P)
         /\ Part(Integer(x), V, P) /\ Part(String(x, y), V, P) /\ Part(Error(x), V, P)
         /\ x \in 1..Len(Builtins) => Part(Builtin(Builtins[x]), V, P)
         /\ Part(NativeBoolToBooleanObject(b), V, P)
<1>1. /\ Part(Nil, V, P) /\ Part(Null, V, P) /\ Part(True, V, P) /\ Part(False, V, P)
  BY DEF Part, Nil, Null, True, False, CLOSURE_OBJ, ARRAY_OBJ, HASH_OBJ, INTEGER_OBJ, NULL_OBJ,
         BOOLEAN_OBJ, BUILTIN_OBJ
<1>2. Part(String(x, y), V, P) /\ Part(Error(x), V, P)
  BY DEF Part, String, Error, CLOSURE_OBJ, ARRAY_OBJ, HASH_OBJ, INTEGER_OBJ,
         STRING_OBJ, ERROR_OBJ, BUILTIN_OBJ
<1>5. ASSUME x \in 1..Len(Builtins) PROVE Part(Builtin(Builtins[x]), V, P)
  <2>1. Builtins[x] \in {"len", "first", "last", "rest", "push", "puts"}
    BY <1>5 DEF Builtins
  <2>2. Builtin(Builtins[x]).type = BUILTIN_OBJ /\ Builtin(Builtins[x]).Fn = Builtins[x]
    BY DEF Builtin
  <2>. QED BY <2>1, <2>2 DEF Part, CLOSURE_OBJ, ARRAY_OBJ, HASH_OBJ, INTEGER_OBJ, BUILTIN_OBJ
<1>3. Part(Integer(x), V, P)
  <2>1. Integer(x) = [type |-> INTEGER_OBJ, int |-> Wrap(x)]
    BY DEF Integer
  <2>. QED BY <2>1 DEF Part, CLOSURE_OBJ, ARRAY_OBJ, HASH_OBJ, INTEGER_OBJ, BUILTIN_OBJ
<1>4. Part(NativeBoolToBooleanObject(b), V, P)
  BY <1>1 DEF NativeBoolToBooleanObject
<1>. QED BY <1>1, <1>2, <1>3, <1>4, <1>5

(* Arrays, hashes and closures of values.                                  *)
LEMMA MadeParts ==
  ASSUME NEW V, NEW P, NEW ref
  PROVE  /\ \A e : Sequence(e) /\ (\A k \in 1..Len(e) : e[k] \in V) => Part(Array(e, ref), V, P)
         /\ \A h : (\A key \in DOMAIN h : h[key].Value \in V) => Part(Hash(h, ref), V, P)
         /\ \A fn, e : /\ Sequence(e) /\ (\A k \in 1..Len(e) : e[k] \in V)
                       /\ <<fn, Len(e)>> \in P
                       => Part(Closure(fn, e, ref), V, P)
<1>1. ASSUME NEW e, Sequence(e), \A k \in 1..Len(e) : e[k] \in V
      PROVE  Part(Array(e, ref), V, P)
  <2>1. Array(e, ref).type = ARRAY_OBJ /\ Array(e, ref).Elements = e
    BY DEF Array
  <2>. QED BY <1>1, <2>1 DEF Part, CLOSURE_OBJ, ARRAY_OBJ, HASH_OBJ, INTEGER_OBJ, BUILTIN_OBJ
<1>2. ASSUME NEW h, \A key \in DOMAIN h : h[key].Value \in V
      PROVE  Part(Hash(h, ref), V, P)
  <2>1. Hash(h, ref).type = HASH_OBJ /\ Hash(h, ref).Pairs = h
    BY DEF Hash
  <2>. QED BY <1>2, <2>1 DEF Part, CLOSURE_OBJ, ARRAY_OBJ, HASH_OBJ, INTEGER_OBJ, BUILTIN_OBJ
<1>3. ASSUME NEW fn, NEW e, Sequence(e), \A k \in 1..Len(e) : e[k] \in V, <<fn, Len(e)>> \in P
      PROVE  Part(Closure(fn, e, ref), V, P)
  <2>1. /\ Closure(fn, e, ref).type = CLOSURE_OBJ /\ Closure(fn, e, ref).Fn = fn
        /\ Closure(fn, e, ref).Free = e
    BY DEF Closure
  <2>. QED BY <1>3, <2>1 DEF Part, CLOSURE_OBJ, ARRAY_OBJ, HASH_OBJ, INTEGER_OBJ, BUILTIN_OBJ
<1>. QED BY <1>1, <1>2, <1>3

(* What a built-in returns (builtins.go).                                  *)
LEMMA BuiltinParts ==
  ASSUME NEW V, NEW P, Values(V, P), NEW args, Sequence(args), NEW ref,
         NEW name \in {"len", "first", "last", "rest", "push", "puts"},
         \A k \in 1..Len(args) : args[k] \in V
  PROVE  Part(CallBuiltin(name, args, ref), V, P)
<1>. DEFINE arr == args[1].Elements
<1>1. Len(args) \in Nat
  BY SequenceIsFunction
<1>2. CASE name = "puts" \/ Len(args) # Arity(name)
  BY <1>2, PlainParts DEF CallBuiltin
<1>3. CASE name # "puts" /\ Len(args) = Arity(name)
  <2>1. 1 \in 1..Len(args) /\ (name = "push" => 2 \in 1..Len(args))
    BY <1>3 DEF Arity
  <2>2. CASE name = "len" /\ args[1].type = STRING_OBJ
    BY <1>3, <2>2, PlainParts DEF CallBuiltin
  <2>3. CASE ~(name = "len" /\ args[1].type = STRING_OBJ) /\ args[1].type # ARRAY_OBJ
    BY <1>3, <2>3, PlainParts DEF CallBuiltin
  <2>4. CASE ~(name = "len" /\ args[1].type = STRING_OBJ) /\ args[1].type = ARRAY_OBJ
    <3>1. Sequence(arr) /\ \A k \in 1..Len(arr) : arr[k] \in V
      BY <2>1, <2>4 DEF Values, Part
    <3>. HIDE DEF arr
    <3>2. CASE name = "len"
      BY <1>3, <2>4, <3>2, PlainParts DEF CallBuiltin
    <3>3. CASE name = "push"
      <4>1. /\ Sequence(Append(arr, args[2])) /\ Len(Append(arr, args[2])) = Len(arr) + 1 /\ Len(arr) \in Nat
            /\ \A k \in 1..Len(arr) : Append(arr, args[2])[k] = arr[k]
            /\ Append(arr, args[2])[Len(arr) + 1] = args[2]
        BY ONLY <3>1, AppendedTo
      <4>2. \A k \in 1..Len(arr) + 1 : k \in 1..Len(arr) \/ k = Len(arr) + 1
        BY <4>1
      <4>3. args[2] \in V
        BY <2>1, <3>3
      <4>4. \A k \in 1..Len(Append(arr, args[2])) : Append(arr, args[2])[k] \in V
        BY <3>1, <4>1, <4>2, <4>3
      <4>5. Part(Array(Append(arr, args[2]), ref), V, P)
        BY ONLY <4>1, <4>4, MadeParts
      <4>. QED BY <1>3, <2>4, <3>3, <4>5 DEF CallBuiltin, arr
    <3>4. CASE name \in {"first", "last", "rest"} /\ arr = <<>>
      BY <1>3, <2>4, <3>4, PlainParts DEF CallBuiltin, arr
    <3>5. CASE name \in {"first", "last", "rest"} /\ arr # <<>>
      <4>1. /\ Sequence(Tail(arr)) /\ Len(arr) \in Nat \ {0} /\ Len(Tail(arr)) = Len(arr) - 1
            /\ \A k \in 1..(Len(arr) - 1) : Tail(arr)[k] = arr[k + 1]
        BY ONLY <3>1, <3>5, TailOf
      <4>2. 1 \in 1..Len(arr) /\ Len(arr) \in 1..Len(arr)
            /\ \A k \in 1..Len(arr) - 1 : k + 1 \in 1..Len(arr)
        BY <4>1
      <4>3. Part(arr[1], V, P) /\ Part(arr[Len(arr)], V, P)
        BY <3>1, <4>2 DEF Values
      <4>4. Part(Array(Tail(arr), ref), V, P)
        <5>1. Sequence(Tail(arr)) /\ \A k \in 1..Len(Tail(arr)) : Tail(arr)[k] \in V
          BY <3>1, <4>1, <4>2
        <5>. QED BY ONLY <5>1, MadeParts
      <4>5. \/ CallBuiltin(name, args, ref) = arr[1]
            \/ CallBuiltin(name, args, ref) = arr[Len(arr)]
            \/ CallBuiltin(name, args, ref) = Array(Tail(arr), ref)
        BY <1>3, <2>4, <3>5 DEF CallBuiltin, arr
      <4>. QED BY <4>3, <4>4, <4>5
    <3>. QED BY <1>3, <3>2, <3>3, <3>4, <3>5
  <2>. QED BY <2>2, <2>3, <2>4
<1>. QED BY <1>2, <1>3

-----------------------------------------------------------------------------
(* The machine.  Functions of the pool with as many captured values as     *)
(* their code names.                                                       *)
Offered(consts) ==
  {x \in {consts[k] : k \in 1..Len(consts)} \X Nat :
     /\ x[1].type = COMPILED_FUNCTION_OBJ
     /\ \A p \in C!Uses(x[1], {OpGetFree}) : ReadUint8(x[1].Instructions, p + 1) < x[2]}

(* What the machine holds is made of values of V.                          *)
Holding(V) ==
  /\ Values(V, Offered(constants))
  /\ DOMAIN stack = 0..StackSize - 1 /\ \A i \in 0..StackSize - 1 : stack[i] \in V
  /\ DOMAIN globals = 0..GlobalsSize - 1 /\ \A i \in 0..GlobalsSize - 1 : globals[i] \in V
  /\ Sequence(constants) /\ \A k \in 1..Len(constants) : constants[k] \in V
  /\ sp \in Int /\ heap \in Nat
  /\ Sequence(frames) /\ Len(frames) \in 0..MaxFrames
  /\ \A k \in 1..Len(frames) : frames[k].cl.type = CLOSURE_OBJ
  /\ \A k \in 2..Len(frames) : frames[k].cl \in V

(* A frame stands at an instruction of finished code, or at its end.       *)
Standing(f, V, Fin) ==
  /\ f = [cl |-> f.cl, ip |-> f.ip, basePointer |-> f.basePointer]
  /\ f.ip \in Int /\ f.basePointer \in Nat
  /\ f.cl.type = CLOSURE_OBJ /\ f.cl.Fn \in Fin
  /\ Sequence(f.cl.Free) /\ \A k \in 1..Len(f.cl.Free) : f.cl.Free[k] \in V
  /\ f.ip + 1 \in C!Starts(f.cl.Fn.Instructions) \cup {Len(f.cl.Fn.Instructions)}

Running(V) ==
  /\ Len(frames) >= 1
  /\ \A k \in 1..Len(frames) : Standing(frames[k], V, C!Finished)
  /\ \A k \in 2..Len(frames) : frames[k].cl \in V /\ frames[k].basePointer >= 1
  /\ frames[1].basePointer = 0
  /\ frames[1].cl = Closure(CompiledFunction(C!Scope.instructions, 0, 0), <<>>, <<"main">>)

(* Hashes are built of pairs.                                              *)
PairsWhole ==
  \A fn \in C!Finished : \A p \in C!Uses(fn, {OpHash}) : ReadUint16(fn.Instructions, p + 1) % 2 = 0

CodeOK ==
  /\ pool = constants
  /\ C!SlotsExist /\ PairsWhole
  /\ \A fn \in C!Finished :
       Walkable(fn.Instructions) /\ fn.NumLocals \in Nat /\ fn.NumParameters \in Nat

Works(V) == Holding(V) /\ Running(V) /\ CodeOK

(* Where the running function stands, and the operands it finds there.     *)
LEMMA Fetched ==
  ASSUME NEW V, Works(V), NEW ops, Fetch(ops)
  PROVE  /\ Len(frames) \in Nat \ {0} /\ Len(frames) \in 1..Len(frames) /\ Standing(Frame, V, C!Finished)
         /\ Frame.cl.Fn \in C!Finished /\ Walkable(ins) /\ ip \in C!Starts(ins) /\ op \in ops
         /\ ip \in Nat /\ ip + Width(op) \in Int
         /\ op \in Wide => ReadUint16(ins, ip + 1) \in Nat
         /\ op \in Narrow => ReadUint8(ins, ip + 1) \in Nat
         /\ op = OpClosure => ReadUint16(ins, ip + 1) \in Nat /\ ReadUint8(ins, ip + 3) \in Nat
<1>1. Len(frames) \in Nat \ {0} /\ Len(frames) \in 1..Len(frames)
  BY DEF Works, Holding, Running
<1>2. Standing(Frame, V, C!Finished)
  BY <1>1 DEF Works, Running, Frame
<1>3. Frame.cl.Fn \in C!Finished /\ Walkable(ins)
  BY <1>2 DEF Works, CodeOK, Standing, ins
<1>4. Frame.ip < Len(ins) - 1 /\ op \in ops
  BY DEF Fetch
<1>5. ip \in C!Starts(ins)
  <2>1. ip \in C!Starts(ins) \cup {Len(ins)}
    BY <1>2 DEF Standing, ip, ins
  <2>2. ip # Len(ins)
    BY <1>2, <1>3, <1>4 DEF Standing, ip, Walkable
  <2>. QED BY <2>1, <2>2
<1>6. /\ ins \in Seq(Bytes) /\ Len(ins) \in Nat /\ C!Starts(ins) \subseteq 0..Len(ins) - 1
      /\ ip + Width(op) \in C!Starts(ins) \cup {Len(ins)}
  BY <1>3, <1>5 DEF Walkable, op
<1>7. ip \in Nat /\ ip + Width(op) <= Len(ins) /\ ip + Width(op) \in Int
  BY <1>5, <1>6
<1>8. \A k \in 1..Len(ins) : ins[k] \in Nat
  BY <1>6, ElementOfSeq, ByteSizeAssumption DEF Bytes
<1>9. ByteSize \in Nat
  BY ByteSizeAssumption
<1>10. /\ op \in Wide => Width(op) = 3
       /\ op \in Narrow => Width(op) = 2
       /\ op = OpClosure => Width(op) = 4
  BY OperandTable
<1>11. ASSUME Width(op) >= 2 PROVE ins[ip + 2] \in Nat
  BY <1>6, <1>7, <1>8, <1>11, OperandLayouts
<1>12. ASSUME Width(op) >= 3 PROVE ins[ip + 3] \in Nat
  BY <1>6, <1>7, <1>8, <1>12, OperandLayouts
<1>13. ASSUME Width(op) >= 4 PROVE ins[ip + 4] \in Nat
  BY <1>6, <1>7, <1>8, <1>13, OperandLayouts
<1>14. /\ ReadUint16(ins, ip + 1) = ins[ip + 2] * ByteSize + ins[ip + 3]
       /\ ReadUint8(ins, ip + 1) = ins[ip + 2] /\ ReadUint8(ins, ip + 3) = ins[ip + 4]
  <2>1. ip + 1 + 1 = ip + 2 /\ ip + 1 + 2 = ip + 3 /\ ip + 3 + 1 = ip + 4
    BY <1>7
  <2>. QED BY <2>1 DEF ReadUint8, ReadUint16
<1>15. ASSUME op \in Wide \/ op = OpClosure PROVE ReadUint16(ins, ip + 1) \in Nat
  <2>1. ASSUME NEW a \in Nat, NEW b \in Nat PROVE a * ByteSize + b \in Nat
    BY <1>9
  <2>2. Width(op) >= 2 /\ Width(op) >= 3
    BY <1>10, <1>15
  <2>3. ins[ip + 2] \in Nat /\ ins[ip + 3] \in Nat
    BY <1>11, <1>12, <2>2
  <2>. QED BY ONLY <1>14, <2>1, <2>3
<1>. QED BY <1>1, <1>2, <1>3, <1>4, <1>5, <1>7, <1>10, <1>11, <1>13, <1>14, <1>15

-----------------------------------------------------------------------------
(* What a step does.  The running function goes on at q.                   *)
MovesTo(q) ==
  /\ Sequence(frames') /\ Len(frames') = Len(frames)
  /\ \A k \in 1..Len(frames) - 1 : frames'[k] = frames[k]
  /\ frames'[Len(frames)] = [cl |-> Frame.cl, ip |-> q - 1, basePointer |-> Frame.basePointer]

(* Where the running function goes on.                                     *)
LEMMA FrameMoves ==
  ASSUME NEW V, Works(V), NEW ops, Fetch(ops)
  PROVE  /\ Advance => MovesTo(ip + Width(op))
         /\ \A pos : JumpTo(pos) => MovesTo(pos)
<1>. DEFINE n == Len(frames)
<1>1. n \in Nat \ {0} /\ n \in 1..n /\ Standing(Frame, V, C!Finished) /\ ip \in Nat
  BY Fetched
<1>2. Sequence(frames) /\ frames = [k \in 1..n |-> frames[k]]
  BY SequenceIsFunction DEF Works, Holding
<1>3. /\ Frame = [cl |-> Frame.cl, ip |-> Frame.ip, basePointer |-> Frame.basePointer]
      /\ Frame = frames[n] /\ Frame.ip \in Int
  BY <1>1 DEF Standing, Frame
<1>4. ASSUME NEW x, frames' = [frames EXCEPT ![n].ip = x]
      PROVE  /\ Sequence(frames') /\ Len(frames') = n
             /\ \A k \in 1..n - 1 : frames'[k] = frames[k]
             /\ frames'[n] = [cl |-> Frame.cl, ip |-> x, basePointer |-> Frame.basePointer]
  <2>1. frames' = [k \in 1..n |-> IF k = n THEN [frames[n] EXCEPT !.ip = x] ELSE frames[k]]
    BY <1>1, <1>2, <1>4
  <2>2. [frames[n] EXCEPT !.ip = x] = [cl |-> Frame.cl, ip |-> x, basePointer |-> Frame.basePointer]
    BY <1>3
  <2>3. frames' = [k \in 1..n |-> frames'[k]]
    BY <2>1
  <2>4. Sequence(frames') /\ Len(frames') = n
    BY ONLY <1>1, <2>3, FunctionIsSequence
  <2>5. \A k \in 1..n - 1 : k \in 1..n /\ k # n
    BY <1>1
  <2>. QED BY <1>1, <2>1, <2>2, <2>4, <2>5
<1>5. ASSUME Advance PROVE MovesTo(ip + Width(op))
  <2>1. Width(op) \in Int
    BY OperandLayouts
  <2>2. frames[n].ip + Width(op) = (ip + Width(op)) - 1
    BY <1>3, <2>1 DEF ip
  <2>3. frames' = [frames EXCEPT ![n].ip = (ip + Width(op)) - 1]
    BY <1>5, <2>2 DEF Advance
  <2>. QED BY <1>4, <2>3 DEF MovesTo
<1>6. ASSUME NEW pos, JumpTo(pos) PROVE MovesTo(pos)
  BY <1>4, <1>6 DEF JumpTo, MovesTo
<1>. QED BY <1>5, <1>6

-----------------------------------------------------------------------------
(* How each kind of instruction changes the depth of the stack.            *)
LEMMA DepthChange ==
  ASSUME NEW code, NEW p, NEW o, o = code[p + 1]
  PROVE  /\ o \in {OpAdd, OpSub, OpMul, OpDiv, OpEqual, OpNotEqual, OpGreaterThan, OpIndex} =>
              C!Pops(code, p) = 2 /\ C!Pushes(o) = 1
         /\ o \in {OpMinus, OpBang} => C!Pops(code, p) = 1 /\ C!Pushes(o) = 1
         /\ o \in {OpPop, OpJumpNotTruthy, OpSetGlobal, OpSetLocal} =>
              C!Pops(code, p) = 1 /\ C!Pushes(o) = 0
         /\ o \in {OpArray, OpHash} =>
              C!Pops(code, p) = ReadUint16(code, p + 1) /\ C!Pushes(o) = 1
         /\ o = OpCall => C!Pops(code, p) = ReadUint8(code, p + 1) + 1 /\ C!Pushes(o) = 1
         /\ o = OpClosure => C!Pops(code, p) = ReadUint8(code, p + 3) /\ C!Pushes(o) = 1
         /\ o \in {OpConstant, OpTrue, OpFalse, OpNull, OpGetGlobal, OpGetLocal, OpGetBuiltin,
                   OpGetFree} => C!Pops(code, p) = 0 /\ C!Pushes(o) = 1
         /\ o = OpJump => C!Pops(code, p) = 0 /\ C!Pushes(o) = 0
         /\ o \notin {OpJump, OpReturn, OpReturnValue} => p + Width(o) \in C!Successors(code, p)
         /\ o \in {OpJump, OpJumpNotTruthy} => ReadUint16(code, p + 1) \in C!Successors(code, p)
<1>1. /\ C!Width(o) = Width(o) /\ C!ReadUint8(code, p + 1) = ReadUint8(code, p + 1)
      /\ C!ReadUint8(code, p + 3) = ReadUint8(code, p + 3)
      /\ C!ReadUint16(code, p + 1) = ReadUint16(code, p + 1)
  BY SameReading
<1>. USE DEF OpConstant, OpAdd, OpSub, OpMul, OpDiv, OpPop, OpTrue, OpFalse, OpEqual, OpNotEqual,
         OpGreaterThan, OpMinus, OpBang, OpJumpNotTruthy, OpJump, OpNull, OpSetGlobal, OpGetGlobal,
         OpArray, OpHash, OpIndex, OpCall, OpReturnValue, OpReturn, OpSetLocal, OpGetLocal,
         OpGetBuiltin, OpClosure, OpGetFree
<1>2. p + Width(o) = p + C!Width(o)
  BY <1>1
<1>3. /\ o \notin {OpJump, OpReturn, OpReturnValue} => p + Width(o) \in C!Successors(code, p)
      /\ o \in {OpJump, OpJumpNotTruthy} => ReadUint16(code, p + 1) \in C!Successors(code, p)
  BY <1>1, SameOpcodes DEF C!Successors
<1>4. /\ o \in {OpAdd, OpSub, OpMul, OpDiv, OpEqual, OpNotEqual, OpGreaterThan, OpIndex} =>
           C!Pops(code, p) = 2 /\ C!Pushes(o) = 1
      /\ o \in {OpMinus, OpBang} => C!Pops(code, p) = 1 /\ C!Pushes(o) = 1
      /\ o \in {OpPop, OpJumpNotTruthy, OpSetGlobal, OpSetLocal} =>
           C!Pops(code, p) = 1 /\ C!Pushes(o) = 0
  BY SameOpcodes DEF C!Pops, C!Pushes
<1>5. /\ o \in {OpArray, OpHash} =>
           C!Pops(code, p) = ReadUint16(code, p + 1) /\ C!Pushes(o) = 1
      /\ o = OpCall => C!Pops(code, p) = ReadUint8(code, p + 1) + 1 /\ C!Pushes(o) = 1
      /\ o = OpClosure => C!Pops(code, p) = ReadUint8(code, p + 3) /\ C!Pushes(o) = 1
  BY <1>1, SameOpcodes DEF C!Pops, C!Pushes
<1>6. /\ o \in {OpConstant, OpTrue, OpFalse, OpNull, OpGetGlobal, OpGetLocal, OpGetBuiltin,
                OpGetFree} => C!Pops(code, p) = 0 /\ C!Pushes(o) = 1
      /\ o = OpJump => C!Pops(code, p) = 0 /\ C!Pushes(o) = 0
  BY SameOpcodes DEF C!Pops, C!Pushes
<1>. QED BY <1>3, <1>4, <1>5, <1>6

-----------------------------------------------------------------------------
Writes(i, v) == stack' = [stack EXCEPT ![i] = v]

(* Steps within a function, with v the value written.                      *)
WithinStep(v) ==
  /\ status' = "running"
  /\ ip \in C!Starts(ins) /\ C!Pops(ins, ip) \in Nat /\ C!Pushes(op) \in {0, 1}
  /\ \E q \in C!Successors(ins, ip) : MovesTo(q)
  /\ sp' = sp - C!Pops(ins, ip) + C!Pushes(op)
  /\ \/ stack' = stack
     \/ /\ sp' - 1 \in 0..StackSize - 1 /\ C!Pushes(op) = 1
        /\ Writes(sp' - 1, v)
     \/ \E i \in 0..StackSize - 1 :
          i >= Frame.basePointer /\ Writes(i, v)

CallStep ==
  /\ status' = "running" /\ stack' = stack
  /\ ip \in C!Starts(ins) /\ C!Pops(ins, ip) = numArgs + 1 /\ C!Pushes(op) = 1
  /\ ip + Width(op) \in C!Successors(ins, ip)
  /\ numArgs \in Nat /\ sp - numArgs \in Nat \ {0} /\ sp - numArgs - 1 \in 0..StackSize - 1
  /\ callee.type = CLOSURE_OBJ /\ callee = stack[sp - numArgs - 1]
  /\ Sequence(frames') /\ Len(frames') = Len(frames) + 1 /\ Len(frames) < MaxFrames
  /\ \A k \in 1..Len(frames) - 1 : frames'[k] = frames[k]
  /\ frames'[Len(frames)] =
       [cl |-> Frame.cl, ip |-> ip + Width(op) - 1, basePointer |-> Frame.basePointer]
  /\ frames'[Len(frames) + 1] = NewFrame(callee, sp - numArgs)
  /\ sp' = sp - numArgs + callee.Fn.NumLocals

ReturnStep(v) ==
  /\ status' = "running"
  /\ Sequence(frames') /\ Len(frames') = Len(frames) - 1 /\ Len(frames) > 1
  /\ \A k \in 1..Len(frames) - 1 : frames'[k] = frames[k]
  /\ Frame.basePointer - 1 \in 0..StackSize - 1
  /\ Writes(Frame.basePointer - 1, v) /\ sp' = Frame.basePointer

StopStep ==
  /\ status' \in {"done", "error", "panic"} /\ stack' = stack /\ sp' \in Int
  /\ Sequence(frames') /\ Len(frames') \in 0..Len(frames)
  /\ \A k \in 1..Len(frames') : frames'[k].cl = frames[k].cl

Quiet == constants' = constants /\ globals' = globals /\ heap' \in Nat

Effect(v) ==
  /\ constants' = constants /\ heap' \in Nat
  /\ \/ globals' = globals
     \/ \E i \in 0..GlobalsSize - 1 : globals' = [globals EXCEPT ![i] = v]
  /\ WithinStep(v) \/ CallStep \/ ReturnStep(v) \/ StopStep

(* A value is pushed in place of the operands, or the stack is full.       *)
LEMMA PushesValue ==
  ASSUME NEW V, Works(V), NEW ops, Fetch(ops), NEW o, Push(sp - C!Pops(ins, ip), o), Advance, Quiet,
         C!Pops(ins, ip) \in Nat, C!Pushes(op) = 1, op \notin {OpJump, OpReturn, OpReturnValue}
  PROVE  Effect(o)
<1>. DEFINE at == sp - C!Pops(ins, ip)
<1>1. MovesTo(ip + Width(op))
  BY FrameMoves
<1>2. sp \in Int /\ at \in Int /\ status = "running" /\ Sequence(frames) /\ Len(frames) \in 0..Len(frames)
  BY DEF Works, Holding, Fetch
<1>3. ip + Width(op) \in C!Successors(ins, ip) /\ ip \in C!Starts(ins)
  BY DepthChange, Fetched DEF op
<1>4. CASE at >= StackSize \/ at < 0
  <2>1. status' \in {"done", "error", "panic"} /\ stack' = stack /\ sp' \in Int
    BY <1>2, <1>4 DEF Push, Fails, Panics
  <2>2. Sequence(frames') /\ Len(frames') \in 0..Len(frames)
    BY <1>1, <1>2 DEF MovesTo
  <2>3. \A k \in 1..Len(frames) : frames'[k].cl = frames[k].cl
    BY <1>1, Fetched DEF MovesTo, Frame
  <2>4. StopStep
    BY <1>1, <2>1, <2>2, <2>3 DEF StopStep, MovesTo
  <2>. QED BY <2>4 DEF Effect, Quiet
<1>5. CASE ~(at >= StackSize \/ at < 0)
  <2>1. stack' = [stack EXCEPT ![at] = o] /\ sp' = at + 1 /\ status' = status
    BY <1>5 DEF Push
  <2>2. sp' - 1 = at /\ at \in 0..StackSize - 1
    BY <1>2, <1>5, <2>1, VMAssumption
  <2>3. sp' = sp - C!Pops(ins, ip) + C!Pushes(op)
    BY <2>1
  <2>4. WithinStep(o)
    BY <1>1, <1>2, <1>3, <2>1, <2>2, <2>3 DEF WithinStep, Writes
  <2>. QED BY <2>4 DEF Effect, Quiet
<1>. QED BY <1>4, <1>5

(* An error or a panic.                                                    *)
LEMMA Stopped ==
  ASSUME NEW V, Works(V), NEW ops, Fetch(ops), Advance, Quiet,
         Panics \/ (\E at \in Int : Fails(at))
  PROVE  \A v : Effect(v)
<1>1. MovesTo(ip + Width(op))
  BY FrameMoves
<1>2. sp \in Int /\ Len(frames) \in 0..Len(frames)
  BY DEF Works, Holding
<1>3. status' \in {"done", "error", "panic"} /\ stack' = stack /\ sp' \in Int
  BY <1>2 DEF Fails, Panics
<1>4. Sequence(frames') /\ Len(frames') \in 0..Len(frames)
  BY <1>1, <1>2 DEF MovesTo
<1>5. \A k \in 1..Len(frames) : frames'[k].cl = frames[k].cl
  BY <1>1, Fetched DEF MovesTo, Frame
<1>6. StopStep
  BY <1>1, <1>3, <1>4, <1>5 DEF StopStep, MovesTo
<1>. QED BY <1>6 DEF Effect, Quiet

(* The slots an instruction takes hold values.                             *)
LEMMA TopValues ==
  ASSUME NEW V, Works(V), NEW n \in Nat, Holds(n)
  PROVE  /\ \A k \in 1..n : Top(k) \in V
         /\ Sequence(Topmost(n)) /\ Len(Topmost(n)) = n
         /\ \A k \in 1..n : Topmost(n)[k] \in V
<1>1. sp \in Int /\ \A i \in 0..StackSize - 1 : stack[i] \in V
  BY DEF Works, Holding
<1>2. \A k \in 1..n : sp - k \in 0..StackSize - 1 /\ sp - n + k - 1 \in 0..StackSize - 1
  BY <1>1, VMAssumption DEF Holds
<1>3. Topmost(n) = [k \in 1..n |-> Topmost(n)[k]]
  BY DEF Topmost
<1>4. Sequence(Topmost(n)) /\ Len(Topmost(n)) = n
  BY ONLY <1>3, FunctionIsSequence, n \in Nat
<1>. QED BY <1>1, <1>2, <1>4 DEF Top, Topmost

-----------------------------------------------------------------------------
(* Every step writes a value.                                              *)
Outcome(V) == \E v : Part(v, V, Offered(constants)) /\ Effect(v)

(* Panics, fails or pushes a value in place of the operands.               *)
Answers(V) ==
  \/ Panics
  \/ \E at \in Int : Fails(at)
  \/ \E v : Part(v, V, Offered(constants)) /\ Push(sp - C!Pops(ins, ip), v)

(* An instruction that answers has the effect its code implies.            *)
LEMMA AnswersOutcome ==
  ASSUME NEW V, Works(V), NEW ops, Fetch(ops), Advance, Quiet, Answers(V),
         C!Pops(ins, ip) \in Nat, C!Pushes(op) = 1, op \notin {OpJump, OpReturn, OpReturnValue}
  PROVE  Outcome(V)
<1>1. CASE Panics \/ (\E at \in Int : Fails(at))
  <2>1. Effect(Nil)
    BY <1>1, Stopped
  <2>. QED BY <2>1, PlainParts DEF Outcome
<1>2. CASE \E v : Part(v, V, Offered(constants)) /\ Push(sp - C!Pops(ins, ip), v)
  <2>1. PICK v : Part(v, V, Offered(constants)) /\ Push(sp - C!Pops(ins, ip), v)
    BY <1>2
  <2>2. Effect(v)
    BY <2>1, PushesValue
  <2>. QED BY <2>1, <2>2 DEF Outcome
<1>. QED BY <1>1, <1>2 DEF Answers

(* Everything in V is a part.                                              *)
LEMMA PartOf ==
  ASSUME NEW V, Works(V), NEW v \in V
  PROVE  Part(v, V, Offered(constants))
BY DEF Works, Holding, Values

(* Instructions that write no global and allocate at most one object are   *)
(* quiet.                                                                  *)
LEMMA QuietSteps ==
  ASSUME NEW V, Works(V), Keeps \/ Allocates
  PROVE  Quiet
BY DEF Works, Holding, Keeps, Allocates, Quiet

Loads == {OpConstant, OpTrue, OpFalse, OpNull, OpGetGlobal, OpGetLocal, OpGetBuiltin, OpGetFree}

(* Instructions that push something they name.                             *)
LEMMA LoadOutcome ==
  ASSUME NEW V, Works(V), NEW ops, ops \subseteq Loads, NEW o, Fetch(ops), Advance, Keeps,
         Panics \/ (Push(sp, o) /\ Part(o, V, Offered(constants)))
  PROVE  Outcome(V)
<1>1. Fetch(ops) /\ Advance /\ Quiet
  BY QuietSteps
<1>2. op \in Loads
  BY <1>1, Fetched
<1>3. C!Pops(ins, ip) = 0 /\ C!Pushes(op) = 1
  BY <1>2, DepthChange DEF Loads, op
<1>4. op \notin {OpJump, OpReturn, OpReturnValue}
  BY <1>2 DEF Loads, OpConstant, OpTrue, OpFalse, OpNull, OpGetGlobal, OpGetLocal, OpGetBuiltin,
              OpGetFree, OpJump, OpReturn, OpReturnValue
<1>5. sp - C!Pops(ins, ip) = sp
  BY <1>3 DEF Works, Holding
<1>6. Answers(V)
  BY <1>5 DEF Answers
<1>. QED BY <1>1, <1>3, <1>4, <1>6, AnswersOutcome

(* The instructions that push a value.                                     *)
LEMMA LoadsOutcome ==
  ASSUME NEW V, Works(V),
         \/ ExecuteConstant \/ ExecuteSingleton \/ ExecuteGetGlobal \/ ExecuteGetLocal
         \/ ExecuteGetBuiltin \/ ExecuteGetFree
  PROVE  Outcome(V)
<1>. DEFINE w == ReadUint16(ins, ip + 1)  b == ReadUint8(ins, ip + 1)
<1>1. ASSUME NEW ops, Fetch(ops)
      PROVE  /\ op \in ops /\ (op \in {OpConstant, OpGetGlobal} => w \in Nat)
             /\ (op \in {OpGetLocal, OpGetBuiltin, OpGetFree} => b \in Nat)
             /\ Frame.basePointer \in Nat /\ Sequence(Frame.cl.Free)
             /\ \A k \in 1..Len(Frame.cl.Free) : Frame.cl.Free[k] \in V
  BY <1>1, Fetched DEF Wide, Narrow, Standing
<1>2. CASE ExecuteConstant
  <2>1. Load({OpConstant}, w < Len(constants), constants[w + 1])
    BY <1>2 DEF ExecuteConstant
  <2>2. Fetch({OpConstant})
    BY <2>1 DEF Load
  <2>3. w \in Nat /\ Len(constants) \in Nat
    BY <1>1, <2>2, SequenceIsFunction DEF Works, Holding
  <2>4. w < Len(constants) => Part(constants[w + 1], V, Offered(constants))
    <3>1. w < Len(constants) => w + 1 \in 1..Len(constants)
      BY <2>3
    <3>. QED BY <3>1, PartOf DEF Works, Holding
  <2>5. {OpConstant} \subseteq Loads
    BY DEF Loads
  <2>. QED BY <2>1, <2>4, <2>5, LoadOutcome DEF Load
<1>3. CASE ExecuteSingleton
  <2>. DEFINE o == CASE op = OpTrue -> True [] op = OpFalse -> False [] op = OpNull -> Null
  <2>1. Load({OpTrue, OpFalse, OpNull}, TRUE, o)
    BY <1>3 DEF ExecuteSingleton
  <2>2. op \in {OpTrue, OpFalse, OpNull}
    <3>1. Fetch({OpTrue, OpFalse, OpNull})
      BY <2>1 DEF Load
    <3>. QED BY <1>1, <3>1
  <2>3. o \in {True, False, Null}
    BY <2>2
  <2>4. Part(o, V, Offered(constants))
    BY <2>3, PlainParts
  <2>5. {OpTrue, OpFalse, OpNull} \subseteq Loads
    BY DEF Loads
  <2>. HIDE DEF o
  <2>. QED BY <2>1, <2>4, <2>5, LoadOutcome DEF Load
<1>4. CASE ExecuteGetGlobal
  <2>1. Load({OpGetGlobal}, w < GlobalsSize, globals[w])
    BY <1>4 DEF ExecuteGetGlobal
  <2>2. Fetch({OpGetGlobal})
    BY <2>1 DEF Load
  <2>3. w < GlobalsSize => w \in 0..GlobalsSize - 1
    BY <1>1, <2>2, VMAssumption
  <2>4. w < GlobalsSize => Part(globals[w], V, Offered(constants))
    BY <2>3, PartOf DEF Works, Holding
  <2>5. {OpGetGlobal} \subseteq Loads
    BY DEF Loads
  <2>. QED BY <2>1, <2>4, <2>5, LoadOutcome DEF Load
<1>5. CASE ExecuteGetLocal
  <2>. DEFINE i == Frame.basePointer + b
  <2>1. Load({OpGetLocal}, i < StackSize, stack[i])
    BY <1>5 DEF ExecuteGetLocal
  <2>2. Fetch({OpGetLocal})
    BY <2>1 DEF Load
  <2>3. i < StackSize => i \in 0..StackSize - 1
    BY <1>1, <2>2, VMAssumption
  <2>4. i < StackSize => Part(stack[i], V, Offered(constants))
    BY <2>3, PartOf DEF Works, Holding
  <2>5. {OpGetLocal} \subseteq Loads
    BY DEF Loads
  <2>. QED BY <2>1, <2>4, <2>5, LoadOutcome DEF Load
<1>6. CASE ExecuteGetBuiltin
  <2>1. Load({OpGetBuiltin}, b < Len(Builtins), Builtin(Builtins[b + 1]))
    BY <1>6 DEF ExecuteGetBuiltin
  <2>2. Fetch({OpGetBuiltin})
    BY <2>1 DEF Load
  <2>3. Len(Builtins) = 6
    BY DEF Builtins
  <2>4. b < Len(Builtins) => b + 1 \in 1..Len(Builtins)
    BY <1>1, <2>2, <2>3
  <2>5. b < Len(Builtins) => Part(Builtin(Builtins[b + 1]), V, Offered(constants))
    BY <2>4, PlainParts
  <2>6. {OpGetBuiltin} \subseteq Loads
    BY DEF Loads
  <2>. QED BY <2>1, <2>5, <2>6, LoadOutcome DEF Load
<1>7. CASE ExecuteGetFree
  <2>1. Load({OpGetFree}, b < Len(Frame.cl.Free), Frame.cl.Free[b + 1])
    BY <1>7 DEF ExecuteGetFree
  <2>2. Fetch({OpGetFree})
    BY <2>1 DEF Load
  <2>3. b \in Nat /\ Len(Frame.cl.Free) \in Nat
    BY <1>1, <2>2, SequenceIsFunction
  <2>4. b < Len(Frame.cl.Free) => b + 1 \in 1..Len(Frame.cl.Free)
    BY <2>3
  <2>5. b < Len(Frame.cl.Free) => Part(Frame.cl.Free[b + 1], V, Offered(constants))
    BY <1>1, <2>2, <2>4, PartOf
  <2>6. {OpGetFree} \subseteq Loads
    BY DEF Loads
  <2>. QED BY <2>1, <2>5, <2>6, LoadOutcome DEF Load
<1>. QED BY <1>2, <1>3, <1>4, <1>5, <1>6, <1>7

(* Operators.                                                              *)
LEMMA OperatorsOutcome ==
  ASSUME NEW V, Works(V),
         \/ ExecuteBinaryOperation \/ ExecuteComparison \/ ExecuteBangOperator
         \/ ExecuteMinusOperator
  PROVE  Outcome(V)
<1>. DEFINE P == Offered(constants)
<1>. USE DEF OpAdd, OpSub, OpMul, OpDiv, OpEqual, OpNotEqual, OpGreaterThan, OpMinus, OpBang, OpJump,
             OpReturn, OpReturnValue
<1>1. sp \in Int /\ sp - 2 \in Int /\ sp - 1 \in Int
  BY DEF Works, Holding
<1>2. CASE ExecuteBinaryOperation
  <2>1. Fetch({OpAdd, OpSub, OpMul, OpDiv}) /\ Advance /\ Quiet
    BY <1>2, QuietSteps DEF ExecuteBinaryOperation
  <2>2. op \in {OpAdd, OpSub, OpMul, OpDiv}
    BY <2>1 DEF Fetch
  <2>3. C!Pops(ins, ip) = 2 /\ C!Pushes(op) = 1
    BY <2>2, DepthChange DEF op
  <2>4. Part(Integer(Arithmetic(Top(2).int, Top(1).int)), V, P) /\ Part(String(Top(2).str \o Top(1).str, NextRef), V, P)
    BY PlainParts
  <2>5. Answers(V)
    BY <1>1, <1>2, <2>3, <2>4 DEF ExecuteBinaryOperation, Answers
  <2>. QED BY <2>1, <2>2, <2>3, <2>5, AnswersOutcome
<1>3. CASE ExecuteComparison
  <2>1. Fetch({OpEqual, OpNotEqual, OpGreaterThan}) /\ Advance /\ Quiet
    BY <1>3, QuietSteps DEF ExecuteComparison
  <2>2. op \in {OpEqual, OpNotEqual, OpGreaterThan}
    BY <2>1 DEF Fetch
  <2>3. C!Pops(ins, ip) = 2 /\ C!Pushes(op) = 1
    BY <2>2, DepthChange DEF op
  <2>4. \A b : Part(NativeBoolToBooleanObject(b), V, P)
    BY PlainParts
  <2>5. \/ Panics \/ Fails(sp - 2) \/ \E b : Push(sp - 2, NativeBoolToBooleanObject(b))
    BY <1>3 DEF ExecuteComparison
  <2>6. Answers(V)
    BY <1>1, <2>3, <2>4, <2>5 DEF Answers
  <2>. QED BY <2>1, <2>2, <2>3, <2>6, AnswersOutcome
<1>4. CASE ExecuteBangOperator
  <2>1. Fetch({OpBang}) /\ Advance /\ Quiet
    BY <1>4, QuietSteps DEF ExecuteBangOperator
  <2>2. op = OpBang
    BY <2>1 DEF Fetch
  <2>3. C!Pops(ins, ip) = 1 /\ C!Pushes(op) = 1
    BY <2>2, DepthChange DEF op
  <2>4. Part(NativeBoolToBooleanObject(~IsTruthy(Top(1))), V, P)
    BY PlainParts
  <2>5. Answers(V)
    BY <1>1, <1>4, <2>3, <2>4 DEF ExecuteBangOperator, Answers
  <2>. QED BY <2>1, <2>2, <2>3, <2>5, AnswersOutcome
<1>5. CASE ExecuteMinusOperator
  <2>1. Fetch({OpMinus}) /\ Advance /\ Quiet
    BY <1>5, QuietSteps DEF ExecuteMinusOperator
  <2>2. op = OpMinus
    BY <2>1 DEF Fetch
  <2>3. C!Pops(ins, ip) = 1 /\ C!Pushes(op) = 1
    BY <2>2, DepthChange DEF op
  <2>4. Part(Integer(-Top(1).int), V, P)
    BY PlainParts
  <2>5. Answers(V)
    BY <1>1, <1>5, <2>3, <2>4 DEF ExecuteMinusOperator, Answers
  <2>. QED BY <2>1, <2>2, <2>3, <2>5, AnswersOutcome
<1>. QED BY <1>2, <1>3, <1>4, <1>5

(* Instructions that only move values, and jumps.                          *)
LEMMA MovesOutcome ==
  ASSUME NEW V, Works(V),
         \/ ExecutePop \/ ExecuteSetGlobal \/ ExecuteSetLocal \/ ExecuteJumpNotTruthy \/ ExecuteJump
  PROVE  Outcome(V)
<1>. DEFINE P == Offered(constants)  w == ReadUint16(ins, ip + 1)  b == ReadUint8(ins, ip + 1)
            Popping == {OpPop, OpJumpNotTruthy, OpSetGlobal, OpSetLocal}
<1>1. sp \in Int /\ heap \in Nat
  BY DEF Works, Holding
<1>2. ASSUME Holds(1) PROVE Top(1) \in V /\ Part(Top(1), V, P)
  BY <1>2, TopValues, PartOf
<1>3. ASSUME NEW ops, Fetch(ops), op \in Popping
      PROVE  /\ C!Pops(ins, ip) = 1 /\ C!Pushes(op) = 0 /\ sp - C!Pops(ins, ip) + C!Pushes(op) = sp - 1
             /\ ip + Width(op) \in C!Successors(ins, ip) /\ ip \in C!Starts(ins)
             /\ status = "running" /\ Frame.basePointer \in Nat
  <2>1. C!Pops(ins, ip) = 1 /\ C!Pushes(op) = 0
    BY <1>3, DepthChange DEF op
  <2>2. op \notin {OpJump, OpReturn, OpReturnValue}
    BY <1>3 DEF OpPop, OpJumpNotTruthy, OpSetGlobal, OpSetLocal, OpJump, OpReturn, OpReturnValue
  <2>3. ip + Width(op) \in C!Successors(ins, ip)
    BY <2>2, DepthChange DEF op
  <2>4. Frame.basePointer \in Nat /\ ip \in C!Starts(ins)
    BY <1>3, Fetched DEF Standing
  <2>. QED BY <1>1, <1>3, <2>1, <2>3, <2>4 DEF Fetch
<1>4. CASE ExecutePop
  <2>1. Fetch({OpPop}) /\ Advance /\ Quiet /\ op \in Popping
    BY <1>4, QuietSteps DEF ExecutePop, Fetch
  <2>2. CASE Holds(1)
    <3>1. MovesTo(ip + Width(op))
      BY <2>1, FrameMoves
    <3>2. sp' = sp - 1 /\ stack' = stack /\ status' = status
      BY <1>4, <2>2 DEF ExecutePop
    <3>3. WithinStep(Nil)
      BY <1>3, <2>1, <3>1, <3>2 DEF WithinStep
    <3>. QED BY <2>1, <3>3, PlainParts DEF Outcome, Effect, Quiet
  <2>3. CASE ~Holds(1)
    <3>1. Effect(Nil)
      BY <1>4, <2>1, <2>3, Stopped DEF ExecutePop
    <3>. QED BY <3>1, PlainParts DEF Outcome
  <2>. QED BY <2>2, <2>3
<1>5. CASE ExecuteSetGlobal
  <2>1. Fetch({OpSetGlobal}) /\ Advance /\ op \in Popping /\ op = OpSetGlobal
    BY <1>5 DEF ExecuteSetGlobal, Fetch
  <2>2. CASE Holds(1) /\ w < GlobalsSize
    <3>1. MovesTo(ip + Width(op))
      BY <2>1, FrameMoves
    <3>2. /\ sp' = sp - 1 /\ stack' = stack /\ status' = status /\ globals' = [globals EXCEPT ![w] = Top(1)]
          /\ constants' = constants /\ heap' = heap
      BY <1>5, <2>2 DEF ExecuteSetGlobal
    <3>3. WithinStep(Top(1))
      BY <1>3, <2>1, <3>1, <3>2 DEF WithinStep
    <3>4. w \in 0..GlobalsSize - 1
      <4>1. w \in Nat
        BY <2>1, Fetched DEF Wide
      <4>. QED BY <2>2, <4>1, VMAssumption
    <3>5. Effect(Top(1))
      BY <1>1, <3>2, <3>3, <3>4 DEF Effect
    <3>. QED BY <1>2, <2>2, <3>5 DEF Outcome
  <2>3. CASE ~(Holds(1) /\ w < GlobalsSize)
    <3>1. Panics /\ Quiet
      BY <1>1, <1>5, <2>3 DEF ExecuteSetGlobal, Quiet
    <3>2. Effect(Nil)
      BY <2>1, <3>1, Stopped
    <3>. QED BY <3>2, PlainParts DEF Outcome
  <2>. QED BY <2>2, <2>3
<1>6. CASE ExecuteSetLocal
  <2>. DEFINE i == Frame.basePointer + b
  <2>1. Fetch({OpSetLocal}) /\ Advance /\ Quiet /\ op \in Popping /\ op = OpSetLocal
    BY <1>6, QuietSteps DEF ExecuteSetLocal, Fetch
  <2>2. CASE Holds(1) /\ i < StackSize
    <3>1. MovesTo(ip + Width(op))
      BY <2>1, FrameMoves
    <3>2. sp' = sp - 1 /\ stack' = [stack EXCEPT ![i] = Top(1)] /\ status' = status
      BY <1>6, <2>2 DEF ExecuteSetLocal
    <3>3. i \in 0..StackSize - 1 /\ i >= Frame.basePointer
      <4>1. b \in Nat /\ Frame.basePointer \in Nat
        BY <1>3, <2>1, Fetched DEF Narrow
      <4>. QED BY <2>2, <4>1, VMAssumption
    <3>. HIDE DEF i
    <3>4. WithinStep(Top(1))
      <4>1. /\ C!Pops(ins, ip) = 1 /\ C!Pushes(op) = 0 /\ sp - C!Pops(ins, ip) + C!Pushes(op) = sp - 1
            /\ ip + Width(op) \in C!Successors(ins, ip) /\ ip \in C!Starts(ins)
            /\ status = "running"
        BY <1>3, <2>1
      <4>2. \E x \in 0..StackSize - 1 : x >= Frame.basePointer /\ Writes(x, Top(1))
        BY <3>2, <3>3 DEF Writes
      <4>. QED BY <3>1, <3>2, <4>1, <4>2 DEF WithinStep
    <3>5. Effect(Top(1))
      BY <2>1, <3>4 DEF Effect, Quiet
    <3>. QED BY <1>2, <2>2, <3>5 DEF Outcome
  <2>3. CASE ~(Holds(1) /\ i < StackSize)
    <3>1. Effect(Nil)
      BY <1>6, <2>1, <2>3, Stopped DEF ExecuteSetLocal
    <3>. QED BY <3>1, PlainParts DEF Outcome
  <2>. QED BY <2>2, <2>3
<1>7. CASE ExecuteJumpNotTruthy
  <2>1. Fetch({OpJumpNotTruthy}) /\ Quiet /\ op \in Popping /\ op = OpJumpNotTruthy
    BY <1>7, QuietSteps DEF ExecuteJumpNotTruthy, Fetch
  <2>2. CASE Holds(1)
    <3>1. JumpTo(w) \/ Advance
      BY <1>7 DEF ExecuteJumpNotTruthy
    <3>2. MovesTo(w) \/ MovesTo(ip + Width(op))
      BY <2>1, <3>1, FrameMoves
    <3>3. w \in C!Successors(ins, ip)
      BY <2>1, DepthChange DEF op
    <3>4. sp' = sp - 1 /\ stack' = stack /\ status' = status
      BY <1>7, <2>2 DEF ExecuteJumpNotTruthy
    <3>5. WithinStep(Nil)
      BY <1>3, <2>1, <3>2, <3>3, <3>4 DEF WithinStep
    <3>. QED BY <2>1, <3>5, PlainParts DEF Outcome, Effect, Quiet
  <2>3. CASE ~Holds(1)
    <3>1. Effect(Nil)
      BY <1>7, <2>1, <2>3, Stopped DEF ExecuteJumpNotTruthy
    <3>. QED BY <3>1, PlainParts DEF Outcome
  <2>. QED BY <2>2, <2>3
<1>8. CASE ExecuteJump
  <2>1. Fetch({OpJump}) /\ Quiet /\ op = OpJump /\ status = "running"
    BY <1>8, QuietSteps DEF ExecuteJump, Fetch
  <2>2. MovesTo(w)
    BY <1>8, <2>1, FrameMoves DEF ExecuteJump
  <2>3. w \in C!Successors(ins, ip) /\ C!Pops(ins, ip) = 0 /\ C!Pushes(op) = 0 /\ ip \in C!Starts(ins)
    BY <2>1, DepthChange, Fetched DEF op
  <2>4. sp' = sp /\ stack' = stack /\ status' = status
    BY <1>8 DEF ExecuteJump
  <2>5. WithinStep(Nil)
    BY <1>1, <2>1, <2>2, <2>3, <2>4 DEF WithinStep
  <2>. QED BY <2>1, <2>5, PlainParts DEF Outcome, Effect, Quiet
<1>. QED BY <1>4, <1>5, <1>6, <1>7, <1>8

(* A hash holds the last of the values of each key.                        *)
LEMMA HashedValues ==
  ASSUME NEW V, NEW slots, Sequence(slots), Len(slots) % 2 = 0,
         \A k \in 1..Len(slots) : slots[k] \in V
  PROVE  \A key \in DOMAIN HashedPairs(slots) : HashedPairs(slots)[key].Value \in V
<1>. DEFINE n == Len(slots)
            keys == {k \in DOMAIN slots : k % 2 = 1}
            Same(key) == {k \in keys : HashKey(slots[k]) = key}
            last(key) == CHOOSE k \in keys :
                           /\ HashKey(slots[k]) = key
                           /\ \A j \in keys : HashKey(slots[j]) = key => j <= k
<1>1. n \in Nat /\ DOMAIN slots = 1..n
  BY SequenceIsFunction
<1>2. ASSUME NEW key \in {HashKey(slots[k]) : k \in keys} PROVE last(key) \in keys
  <2>. DEFINE T == {n - k : k \in Same(key)}
  <2>1. T \subseteq Nat /\ T # {}
    BY <1>1, <1>2
  <2>2. PICK x \in T : \A y \in T : x <= y
    BY <2>1, LeastNumber
  <2>3. PICK m \in Same(key) : x = n - m
    BY <2>2
  <2>4. m \in keys /\ HashKey(slots[m]) = key
    BY <2>3
  <2>5. ASSUME NEW j \in keys, HashKey(slots[j]) = key PROVE j <= m
    <3>1. n - j \in T
      BY <2>5
    <3>2. n - m <= n - j
      BY <2>2, <2>3, <3>1
    <3>3. j \in Int /\ m \in Int
      BY <1>1, <2>4
    <3>. QED BY <1>1, <3>2, <3>3
  <2>. QED BY <2>4, <2>5
<1>. HIDE DEF last
<1>3. \A k \in keys : k + 1 \in 1..n
  BY <1>1
<1>4. HashedPairs(slots) = [key \in {HashKey(slots[k]) : k \in keys} |->
                              [Key |-> slots[last(key)], Value |-> slots[last(key) + 1]]]
  BY DEF HashedPairs, last
<1>5. ASSUME NEW key \in {HashKey(slots[k]) : k \in keys} PROVE HashedPairs(slots)[key].Value \in V
  <2>1. HashedPairs(slots)[key].Value = slots[last(key) + 1]
    BY <1>4
  <2>2. last(key) + 1 \in 1..n
    BY <1>2, <1>3
  <2>. QED BY <2>1, <2>2
<1>. QED BY <1>4, <1>5

(* Objects with parts.                                                     *)
LEMMA ObjectsOutcome ==
  ASSUME NEW V, Works(V),
         BuildArray \/ BuildHash \/ ExecuteIndexExpression \/ PushClosure
  PROVE  Outcome(V)
<1>. DEFINE P == Offered(constants)  w == ReadUint16(ins, ip + 1)
<1>. USE DEF OpArray, OpHash, OpIndex, OpClosure, OpJump, OpReturn, OpReturnValue
<1>1. sp \in Int /\ heap \in Nat /\ sp - 2 \in Int
  BY DEF Works, Holding
<1>2. CASE BuildArray
  <2>1. Fetch({OpArray}) /\ Advance /\ Quiet /\ op = OpArray
    BY <1>2, QuietSteps DEF BuildArray, Fetch
  <2>2. w \in Nat /\ C!Pops(ins, ip) = w /\ C!Pushes(op) = 1
    BY <2>1, Fetched, DepthChange DEF Wide, op
  <2>3. ASSUME Holds(w) PROVE Part(Array(Topmost(w), NextRef), V, P)
    <3>1. Sequence(Topmost(w)) /\ \A k \in 1..Len(Topmost(w)) : Topmost(w)[k] \in V
      BY <2>2, <2>3, TopValues
    <3>. QED BY ONLY <3>1, MadeParts
  <2>4. Answers(V)
    BY <1>2, <2>2, <2>3 DEF BuildArray, Answers
  <2>. QED BY <2>1, <2>2, <2>4, AnswersOutcome
<1>3. CASE BuildHash
  <2>1. Fetch({OpHash}) /\ Advance /\ Quiet /\ op = OpHash
    BY <1>3, QuietSteps DEF BuildHash, Fetch
  <2>2. w \in Nat /\ C!Pops(ins, ip) = w /\ C!Pushes(op) = 1
    BY <2>1, Fetched, DepthChange DEF Wide, op
  <2>3. w % 2 = 0
    <3>1. Frame.cl.Fn \in C!Finished /\ ip \in C!Uses(Frame.cl.Fn, {OpHash})
      BY <2>1, Fetched DEF C!Uses, ins, op
    <3>. QED BY <3>1 DEF Works, CodeOK, PairsWhole, ins
  <2>4. ASSUME Holds(w) PROVE Part(Hash(HashedPairs(Topmost(w)), NextRef), V, P)
    <3>1. Sequence(Topmost(w)) /\ Len(Topmost(w)) = w /\ \A k \in 1..Len(Topmost(w)) : Topmost(w)[k] \in V
      BY <2>2, <2>4, TopValues
    <3>2. \A key \in DOMAIN HashedPairs(Topmost(w)) : HashedPairs(Topmost(w))[key].Value \in V
      BY <2>3, <3>1, HashedValues
    <3>. QED BY ONLY <3>2, MadeParts
  <2>5. \/ Panics \/ Fails(sp)
        \/ Holds(w) /\ Push(sp - w, Hash(HashedPairs(Topmost(w)), NextRef))
    BY <1>3 DEF BuildHash
  <2>6. Answers(V)
    BY <1>1, <2>2, <2>4, <2>5 DEF Answers
  <2>. QED BY <2>1, <2>2, <2>6, AnswersOutcome
<1>4. CASE ExecuteIndexExpression
  <2>. DEFINE left == Top(2)  index == Top(1)
  <2>1. Fetch({OpIndex}) /\ Advance /\ Quiet /\ op = OpIndex
    BY <1>4, QuietSteps DEF ExecuteIndexExpression, Fetch
  <2>2. C!Pops(ins, ip) = 2 /\ C!Pushes(op) = 1
    BY <2>1, DepthChange DEF op
  <2>3. CASE ~Holds(2)
    <3>1. Panics
      BY <1>4, <2>3 DEF ExecuteIndexExpression
    <3>. QED BY <2>1, <2>2, <3>1, AnswersOutcome DEF Answers
  <2>4. CASE Holds(2)
    <3>1. Part(left, V, P)
      BY <2>4, TopValues, PartOf
    <3>2. ASSUME left.type = ARRAY_OBJ
          PROVE  Part(IF index.int + 1 \in DOMAIN left.Elements THEN left.Elements[index.int + 1] ELSE Null, V, P)
      <4>1. Sequence(left.Elements) /\ \A k \in 1..Len(left.Elements) : left.Elements[k] \in V
        BY <3>1, <3>2 DEF Part
      <4>2. DOMAIN left.Elements = 1..Len(left.Elements)
        BY <4>1, SequenceIsFunction
      <4>3. ASSUME NEW i \in DOMAIN left.Elements PROVE Part(left.Elements[i], V, P)
        BY <4>1, <4>2, PartOf
      <4>. QED BY <4>3, PlainParts
    <3>3. ASSUME left.type = HASH_OBJ
          PROVE  Part(IF HashKey(index) \in DOMAIN left.Pairs THEN left.Pairs[HashKey(index)].Value ELSE Null, V, P)
      <4>1. \A key \in DOMAIN left.Pairs : left.Pairs[key].Value \in V
        BY <3>1, <3>3 DEF Part
      <4>. QED BY <4>1, PartOf, PlainParts
    <3>. HIDE DEF left, index
    <3>4. \/ Panics \/ Fails(sp - 2)
          \/ left.type = ARRAY_OBJ /\
             Push(sp - 2, IF index.int + 1 \in DOMAIN left.Elements THEN left.Elements[index.int + 1] ELSE Null)
          \/ left.type = HASH_OBJ /\
             Push(sp - 2, IF HashKey(index) \in DOMAIN left.Pairs THEN left.Pairs[HashKey(index)].Value ELSE Null)
      BY <1>4 DEF ExecuteIndexExpression, left, index
    <3>5. Answers(V)
      BY <1>1, <2>2, <3>2, <3>3, <3>4 DEF Answers
    <3>. QED BY <2>1, <2>2, <3>5, AnswersOutcome
  <2>. QED BY <2>3, <2>4
<1>5. CASE PushClosure
  <2>. DEFINE numFree == ReadUint8(ins, ip + 3)  made == constants[w + 1]
  <2>1. Fetch({OpClosure}) /\ Advance /\ Quiet /\ op = OpClosure
    BY <1>5, QuietSteps DEF PushClosure, Fetch
  <2>2. w \in Nat /\ numFree \in Nat /\ C!Pops(ins, ip) = numFree /\ C!Pushes(op) = 1
    BY <2>1, Fetched, DepthChange DEF op
  <2>3. Sequence(constants) /\ Len(constants) \in Nat
    BY SequenceIsFunction DEF Works, Holding
  <2>4. ASSUME ~(w >= Len(constants)), made.type = COMPILED_FUNCTION_OBJ, Holds(numFree)
        PROVE  Part(Closure(made, Topmost(numFree), NextRef), V, P)
    <3>1. Sequence(Topmost(numFree)) /\ Len(Topmost(numFree)) = numFree
          /\ \A k \in 1..Len(Topmost(numFree)) : Topmost(numFree)[k] \in V
      BY <2>2, <2>4, TopValues
    <3>2. w + 1 \in 1..Len(constants)
      BY <2>2, <2>3, <2>4
    <3>3. Frame.cl.Fn \in C!Finished /\ ip \in C!Uses(Frame.cl.Fn, {C!OpClosure})
      BY <2>1, Fetched, SameOpcodes DEF C!Uses, ins, op
    <3>4. \A q \in C!Uses(pool[C!ReadUint16(ins, ip + 1) + 1], {C!OpGetFree}) :
             C!ReadUint8(pool[C!ReadUint16(ins, ip + 1) + 1].Instructions, q + 1) < C!ReadUint8(ins, ip + 3)
      BY <3>3 DEF Works, CodeOK, C!SlotsExist, ins
    <3>5. pool[C!ReadUint16(ins, ip + 1) + 1] = made /\ C!ReadUint8(ins, ip + 3) = numFree
      BY SameReading DEF Works, CodeOK
    <3>6. \A q \in C!Uses(made, {OpGetFree}) : ReadUint8(made.Instructions, q + 1) < numFree
      BY <3>4, <3>5, SameReading, SameOpcodes
    <3>7. <<made, numFree>> \in P
      BY <2>2, <2>4, <3>2, <3>6 DEF Offered
    <3>. HIDE DEF made, numFree, P
    <3>. QED BY ONLY <3>1, <3>7, MadeParts
  <2>. HIDE DEF made, numFree
  <2>5. \/ Panics \/ Fails(sp)
        \/ /\ ~(w >= Len(constants)) /\ made.type = COMPILED_FUNCTION_OBJ /\ Holds(numFree)
           /\ Push(sp - numFree, Closure(made, Topmost(numFree), NextRef))
    BY <1>5 DEF PushClosure, made, numFree
  <2>6. Answers(V)
    BY <1>1, <2>2, <2>4, <2>5 DEF Answers
  <2>. QED BY <2>1, <2>2, <2>6, AnswersOutcome
<1>. QED BY <1>2, <1>3, <1>4, <1>5

(* Calls.                                                                  *)
LEMMA CallsOutcome ==
  ASSUME NEW V, Works(V), ExecuteCallClosure \/ ExecuteCallBuiltin \/ ExecuteCallOther
  PROVE  Outcome(V)
<1>. DEFINE P == Offered(constants)  n == Len(frames)
<1>1. sp \in Int /\ heap \in Nat
  BY DEF Works, Holding
<1>2. Fetch({OpCall}) /\ op = OpCall /\ status = "running"
  BY DEF ExecuteCallClosure, ExecuteCallBuiltin, ExecuteCallOther, Fetch
<1>3. /\ numArgs \in Nat /\ C!Pops(ins, ip) = numArgs + 1 /\ C!Pushes(op) = 1
      /\ op \notin {OpJump, OpReturn, OpReturnValue}
      /\ ip \in C!Starts(ins) /\ ip + Width(op) \in C!Successors(ins, ip)
  <2>1. numArgs \in Nat /\ ip \in C!Starts(ins)
    BY <1>2, Fetched DEF Narrow, numArgs
  <2>2. C!Pops(ins, ip) = numArgs + 1 /\ C!Pushes(op) = 1
    BY <1>2, DepthChange DEF op, numArgs
  <2>3. op \notin {OpJump, OpReturn, OpReturnValue}
    BY <1>2 DEF OpCall, OpJump, OpReturn, OpReturnValue
  <2>4. ip + Width(op) \in C!Successors(ins, ip)
    BY <2>3, DepthChange DEF op
  <2>. QED BY <2>1, <2>2, <2>3, <2>4
<1>4. Quiet
  BY QuietSteps DEF ExecuteCallClosure, ExecuteCallBuiltin, ExecuteCallOther
<1>5. CASE ExecuteCallClosure
  <2>. DEFINE returned == [frames EXCEPT ![n].ip = @ + Width(op)]
  <2>1. Holds(numArgs + 1) /\ callee.type = CLOSURE_OBJ
    BY <1>5 DEF ExecuteCallClosure
  <2>2. CASE numArgs # callee.Fn.NumParameters \/ FramesFull
    <3>1. (Panics \/ Fails(sp)) /\ Advance
      BY <1>5, <2>2 DEF ExecuteCallClosure
    <3>2. Effect(Nil)
      BY <1>1, <1>2, <1>4, <3>1, Stopped
    <3>. QED BY <3>2, PlainParts DEF Outcome
  <2>3. CASE ~(numArgs # callee.Fn.NumParameters \/ FramesFull)
    <3>1. /\ frames' = Append(returned, NewFrame(callee, BasePointer))
          /\ sp' = BasePointer + callee.Fn.NumLocals
          /\ stack' = stack /\ status' = status
      BY <1>5, <2>3 DEF ExecuteCallClosure
    <3>2. /\ n \in Nat \ {0} /\ Standing(Frame, V, C!Finished) /\ ip \in Nat /\ Sequence(frames)
          /\ Frame = [cl |-> Frame.cl, ip |-> Frame.ip, basePointer |-> Frame.basePointer]
          /\ Frame = frames[n] /\ Frame.ip \in Int /\ Width(op) \in Int
      BY <1>2, Fetched, OperandLayouts DEF Standing, Frame, Works, Holding
    <3>3. frames = [k \in 1..n |-> frames[k]]
      BY <3>2, SequenceIsFunction
    <3>4. returned = [k \in 1..n |-> IF k = n THEN [frames[n] EXCEPT !.ip = @ + Width(op)] ELSE frames[k]]
      BY <3>2, <3>3
    <3>5. [frames[n] EXCEPT !.ip = @ + Width(op)] =
            [cl |-> Frame.cl, ip |-> ip + Width(op) - 1, basePointer |-> Frame.basePointer]
      <4>1. Frame.ip + Width(op) = ip + Width(op) - 1
        BY <3>2 DEF ip
      <4>. QED BY <3>2, <4>1
    <3>6. returned = [k \in 1..n |-> returned[k]]
      BY <3>4
    <3>7. Sequence(returned) /\ Len(returned) = n
      BY ONLY <3>2, <3>6, FunctionIsSequence
    <3>8. /\ returned[n] = [cl |-> Frame.cl, ip |-> ip + Width(op) - 1, basePointer |-> Frame.basePointer]
          /\ \A k \in 1..n - 1 : returned[k] = frames[k]
      <4>1. n \in 1..n /\ \A k \in 1..n - 1 : k \in 1..n /\ k # n
        BY <3>2
      <4>. QED BY <3>4, <3>5, <4>1
    <3>. HIDE DEF returned
    <3>9. /\ Sequence(frames') /\ Len(frames') = n + 1
          /\ \A k \in 1..n : frames'[k] = returned[k]
          /\ frames'[n + 1] = NewFrame(callee, BasePointer)
      BY <3>1, <3>7, AppendedTo
    <3>10. n \in 1..n /\ \A k \in 1..n - 1 : k \in 1..n
      BY <3>2
    <3>11. sp - numArgs \in Nat \ {0} /\ sp - numArgs - 1 \in 0..StackSize - 1 /\ BasePointer = sp - numArgs
           /\ sp - 1 - numArgs = sp - numArgs - 1
      BY <1>1, <1>3, <2>1, VMAssumption DEF Holds, BasePointer
    <3>12. n < MaxFrames
      BY <2>3, <3>2, VMAssumption DEF FramesFull
    <3>13. callee = stack[sp - numArgs - 1]
      BY <3>11 DEF callee
    <3>14. CallStep
      BY <1>2, <1>3, <2>1, <3>1, <3>8, <3>9, <3>10, <3>11, <3>12, <3>13 DEF CallStep
    <3>. QED BY <1>4, <3>14, PlainParts DEF Outcome, Effect, Quiet
  <2>. QED BY <2>2, <2>3
<1>6. CASE ExecuteCallBuiltin
  <2>. DEFINE args == Topmost(numArgs)  result == CallBuiltin(callee.Fn, args, NextRef)
  <2>1. Holds(numArgs + 1) /\ callee.type = BUILTIN_OBJ /\ Advance
    BY <1>6 DEF ExecuteCallBuiltin
  <2>2. Holds(numArgs) /\ numArgs + 1 \in Nat /\ numArgs + 1 \in 1..numArgs + 1
    BY <1>1, <1>3, <2>1 DEF Holds
  <2>3. Sequence(args) /\ \A k \in 1..Len(args) : args[k] \in V
    BY <1>3, <2>2, TopValues
  <2>4. callee \in V
    <3>1. Top(numArgs + 1) \in V
      BY <2>1, <2>2, TopValues
    <3>2. sp - (numArgs + 1) = sp - 1 - numArgs
      BY <1>1, <1>3
    <3>. QED BY <3>1, <3>2 DEF Top, callee
  <2>5. callee.Fn \in {"len", "first", "last", "rest", "push", "puts"}
    BY <2>1, <2>4, PartOf DEF Part
  <2>6. Values(V, P)
    BY DEF Works, Holding
  <2>. HIDE DEF args, P
  <2>7. Part(result, V, P)
    BY ONLY <2>3, <2>5, <2>6, BuiltinParts
  <2>8. Panics \/ Push(sp - numArgs - 1, IF result = Nil THEN Null ELSE result)
    BY <1>6 DEF ExecuteCallBuiltin, args
  <2>. HIDE DEF result
  <2>9. Part(IF result = Nil THEN Null ELSE result, V, P)
    BY <2>7, PlainParts
  <2>10. sp - numArgs - 1 = sp - C!Pops(ins, ip)
    BY <1>1, <1>3
  <2>11. Answers(V)
    BY <2>8, <2>9, <2>10 DEF Answers, P
  <2>12. C!Pops(ins, ip) \in Nat
    BY <1>3
  <2>. QED BY <1>2, <1>3, <1>4, <2>1, <2>11, <2>12, AnswersOutcome
<1>7. CASE ExecuteCallOther
  <2>1. (Fails(sp) \/ Panics) /\ Advance
    BY <1>7 DEF ExecuteCallOther
  <2>2. Effect(Nil)
    BY <1>1, <1>2, <1>4, <2>1, Stopped
  <2>. QED BY <2>2, PlainParts DEF Outcome
<1>. QED BY <1>5, <1>6, <1>7

(* The front of a sequence.                                                *)
LEMMA Prefixes ==
  ASSUME NEW w, Sequence(w), NEW n \in Nat, n <= Len(w)
  PROVE  SubSeq(w, 1, n) = [k \in 1..n |-> w[k]]
<1>1. PICK S : w \in Seq(S)
  BY DEF Sequence
<1>. QED BY <1>1

(* Returns, and the end of the code.                                       *)
LEMMA ReturnsOutcome ==
  ASSUME NEW V, Works(V), ExecuteReturnValue \/ ExecuteReturn \/ Finish
  PROVE  Outcome(V)
<1>. DEFINE P == Offered(constants)  n == Len(frames)  base == Frame.basePointer
<1>1. sp \in Int /\ heap \in Nat /\ Sequence(frames) /\ n \in Nat \ {0} /\ n \in 1..n /\ n \in 0..n
  BY DEF Works, Holding, Running
<1>2. base \in Nat /\ (n = 1 => base = 0)
  BY <1>1 DEF Works, Running, Standing, Frame
<1>3. ASSUME NEW v, Part(v, V, P), Return(v), status = "running" PROVE Outcome(V)
  <2>1. frames' = SubSeq(frames, 1, n - 1) /\ Push(base - 1, v) /\ Quiet
    BY <1>3, QuietSteps DEF Return
  <2>2. /\ Sequence(frames') /\ Len(frames') = n - 1
        /\ \A k \in 1..n - 1 : frames'[k] = frames[k]
    <3>1. n - 1 \in Nat /\ n - 1 <= n
      BY <1>1
    <3>2. frames' = [k \in 1..n - 1 |-> frames[k]]
      BY <1>1, <2>1, <3>1, Prefixes
    <3>3. frames' = [k \in 1..n - 1 |-> frames'[k]]
      BY <3>2
    <3>4. Sequence(frames') /\ Len(frames') = n - 1
      BY ONLY <3>1, <3>3, FunctionIsSequence
    <3>. QED BY <3>2, <3>4
  <2>3. CASE base - 1 >= StackSize \/ base - 1 < 0
    <3>1. status' \in {"done", "error", "panic"} /\ stack' = stack /\ sp' \in Int
      BY <1>1, <1>2, <2>1, <2>3 DEF Push, Fails, Panics
    <3>2. StopStep
      BY <1>1, <2>2, <3>1 DEF StopStep
    <3>. QED BY <1>3, <2>1, <3>2 DEF Outcome, Effect, Quiet
  <2>4. CASE ~(base - 1 >= StackSize \/ base - 1 < 0)
    <3>1. stack' = [stack EXCEPT ![base - 1] = v] /\ sp' = base - 1 + 1 /\ status' = status
      BY <2>1, <2>4 DEF Push
    <3>2. base - 1 \in 0..StackSize - 1 /\ n > 1 /\ sp' = base
      <4>1. n # 1 /\ StackSize \in Nat
        BY <1>2, <2>4, VMAssumption
      <4>2. n > 1
        BY ONLY <1>1, <4>1
      <4>3. sp' = base /\ base - 1 \in 0..StackSize - 1
        BY ONLY <1>2, <2>4, <3>1, <4>1
      <4>. QED BY <4>2, <4>3
    <3>3. ReturnStep(v)
      BY <1>3, <2>2, <3>1, <3>2 DEF ReturnStep, Writes
    <3>. QED BY <1>3, <2>1, <3>3 DEF Outcome, Effect, Quiet
  <2>. QED BY <2>3, <2>4
<1>4. CASE ExecuteReturnValue
  <2>1. Fetch({OpReturnValue}) /\ status = "running"
    BY <1>4 DEF ExecuteReturnValue, Fetch
  <2>2. CASE Holds(1)
    <3>1. Part(Top(1), V, P)
      BY <2>2, TopValues, PartOf
    <3>. QED BY <1>3, <1>4, <2>1, <2>2, <3>1 DEF ExecuteReturnValue
  <2>3. CASE ~Holds(1)
    <3>1. Panics /\ Advance /\ Quiet
      BY <1>4, <2>3, QuietSteps DEF ExecuteReturnValue
    <3>2. Effect(Nil)
      BY <2>1, <3>1, Stopped
    <3>. QED BY <3>2, PlainParts DEF Outcome
  <2>. QED BY <2>2, <2>3
<1>5. CASE ExecuteReturn
  BY <1>3, <1>5, PlainParts DEF ExecuteReturn, Fetch
<1>6. CASE Finish
  <2>1. status' = "done" /\ stack' = stack /\ sp' = sp /\ frames' = frames /\ Quiet
    BY <1>6, QuietSteps DEF Finish
  <2>2. StopStep
    BY <1>1, <2>1 DEF StopStep
  <2>. QED BY <2>1, <2>2, PlainParts DEF Outcome, Effect, Quiet
<1>. QED BY <1>4, <1>5, <1>6

(* One turn of the loop of Run.                                            *)
LEMMA StepOutcome ==
  ASSUME NEW V, Works(V), Step
  PROVE  Outcome(V)
BY LoadsOutcome, OperatorsOutcome, MovesOutcome, ObjectsOutcome, CallsOutcome, ReturnsOutcome
   DEF Step

-----------------------------------------------------------------------------
(* The machine goes on holding values.                                     *)
LEMMA SameCode ==
  ASSUME UNCHANGED compilerVars
  PROVE  C!Finished' = C!Finished /\ C!Scope' = C!Scope
BY DEF compilerVars, C!Finished, C!Functions, C!Compiled, C!Scope, C!CompiledFunction,
       C!COMPILED_FUNCTION_OBJ

(* A frame that goes on in its code.                                       *)
LEMMA StillStanding ==
  ASSUME NEW V, NEW v, NEW f, NEW Fin, Standing(f, V, Fin)
  PROVE  Standing(f, V \cup {v}, Fin)
BY DEF Standing

(* A frame that moves to a successor of its instruction stands at an       *)
(* instruction, or at the end.                                             *)
LEMMA MovedStanding ==
  ASSUME NEW V, NEW v, NEW f, NEW Fin, Standing(f, V, Fin), Walkable(f.cl.Fn.Instructions),
         NEW q, f.ip + 1 \in C!Starts(f.cl.Fn.Instructions),
         q \in C!Successors(f.cl.Fn.Instructions, f.ip + 1)
  PROVE  Standing([cl |-> f.cl, ip |-> q - 1, basePointer |-> f.basePointer], V \cup {v}, Fin)
<1>. DEFINE code == f.cl.Fn.Instructions
            g == [cl |-> f.cl, ip |-> q - 1, basePointer |-> f.basePointer]
<1>1. q \in C!Starts(code) \cup {Len(code)} /\ q \in Int
  <2>1. q \in C!Starts(code) \cup {Len(code)} /\ q \in 0..Len(code)
    BY SuccessorsAhead
  <2>. QED BY <2>1
<1>2. q - 1 \in Int /\ (q - 1) + 1 = q
  BY <1>1
<1>3. g = [cl |-> g.cl, ip |-> g.ip, basePointer |-> g.basePointer] /\ g.ip + 1 = q /\ g.ip \in Int
      /\ g.cl = f.cl /\ g.basePointer = f.basePointer
  BY <1>2
<1>. HIDE DEF g
<1>4. Standing(g, V \cup {v}, Fin)
  BY <1>1, <1>3 DEF Standing
<1>. QED BY <1>4 DEF g

(* A closure may be called: its function is finished code.                 *)
LEMMA CalleeStanding ==
  ASSUME NEW V, Works(V), NEW v, NEW cl \in V, cl.type = CLOSURE_OBJ, NEW b \in Nat
  PROVE  /\ cl.Fn \in C!Functions /\ cl.Fn.NumLocals \in Nat /\ Walkable(cl.Fn.Instructions)
         /\ Standing(NewFrame(cl, b), V \cup {v}, C!Finished)
<1>. DEFINE g == NewFrame(cl, b)
<1>1. /\ <<cl.Fn, Len(cl.Free)>> \in Offered(constants)
      /\ Sequence(cl.Free) /\ \A k \in 1..Len(cl.Free) : cl.Free[k] \in V
  BY PartOf DEF Part
<1>2. PICK k \in 1..Len(constants) : cl.Fn = constants[k] /\ constants[k].type = COMPILED_FUNCTION_OBJ
  BY <1>1 DEF Offered
<1>3. cl.Fn \in C!Functions /\ cl.Fn \in C!Finished
  <2>1. k \in DOMAIN pool
    BY SequenceIsFunction DEF Works, Holding, CodeOK
  <2>. QED BY <1>2, <2>1 DEF Works, CodeOK, C!Finished, C!Functions, COMPILED_FUNCTION_OBJ,
                             C!COMPILED_FUNCTION_OBJ
<1>4. Walkable(cl.Fn.Instructions) /\ cl.Fn.NumLocals \in Nat
  BY <1>3 DEF Works, CodeOK
<1>5. g = [cl |-> g.cl, ip |-> g.ip, basePointer |-> g.basePointer] /\ g.ip = -1 /\ g.ip + 1 = 0
      /\ g.cl = cl /\ g.basePointer = b
  BY DEF NewFrame
<1>6. g.ip + 1 \in C!Starts(cl.Fn.Instructions) \cup {Len(cl.Fn.Instructions)}
  BY <1>4, <1>5 DEF Walkable
<1>. HIDE DEF g
<1>7. Standing(g, V \cup {v}, C!Finished)
  BY <1>1, <1>3, <1>5, <1>6 DEF Standing
<1>. QED BY <1>3, <1>4, <1>7 DEF g

(* The values after a step that wrote v.                                   *)
LEMMA StepHolding ==
  ASSUME NEW V, Works(V), NEW v, Part(v, V, Offered(constants)), Effect(v), UNCHANGED compilerVars
  PROVE  Holding(V \cup {v})'
<1>. DEFINE W == V \cup {v}  n == Len(frames)
<1>1. /\ Values(V, Offered(constants)) /\ DOMAIN stack = 0..StackSize - 1 /\ \A i \in 0..StackSize - 1 : stack[i] \in V
      /\ DOMAIN globals = 0..GlobalsSize - 1 /\ \A i \in 0..GlobalsSize - 1 : globals[i] \in V
      /\ Sequence(constants) /\ \A k \in 1..Len(constants) : constants[k] \in V
      /\ sp \in Int /\ Sequence(frames) /\ n \in 0..MaxFrames /\ n \in Nat /\ n >= 1
      /\ \A k \in 1..n : frames[k].cl.type = CLOSURE_OBJ
  BY DEF Works, Holding, Running
<1>2. constants' = constants /\ Values(W, Offered(constants)) /\ heap' \in Nat
  BY <1>1, ValuesGrow DEF Effect
<1>3. DOMAIN globals' = 0..GlobalsSize - 1 /\ \A i \in 0..GlobalsSize - 1 : globals'[i] \in W
  BY <1>1 DEF Effect
<1>4. DOMAIN stack' = 0..StackSize - 1 /\ \A i \in 0..StackSize - 1 : stack'[i] \in W
  <2>1. stack' = stack \/ \E i : stack' = [stack EXCEPT ![i] = v]
    BY DEF Effect, WithinStep, CallStep, ReturnStep, StopStep, Writes
  <2>. QED BY <1>1, <2>1
<1>5. ASSUME CallStep PROVE callee \in V /\ callee.type = CLOSURE_OBJ /\ callee.Fn.NumLocals \in Nat
  <2>1. callee \in V /\ callee.type = CLOSURE_OBJ
    BY <1>1, <1>5 DEF CallStep
  <2>. QED BY <2>1, CalleeStanding
<1>6. sp' \in Int
  <2>1. CASE WithinStep(v)
    BY <1>1, <2>1 DEF WithinStep
  <2>2. CASE CallStep
    BY <1>1, <1>5, <2>2 DEF CallStep
  <2>3. CASE ReturnStep(v)
    <3>1. Frame.basePointer - 1 \in Int /\ Frame.basePointer \in Nat
      <4>1. n \in 1..n
        BY <1>1
      <4>2. Standing(frames[n], V, C!Finished)
        BY <4>1 DEF Works, Running
      <4>. QED BY <4>2 DEF Standing, Frame
    <3>. QED BY <2>3, <3>1 DEF ReturnStep
  <2>4. CASE StopStep
    BY <2>4 DEF StopStep
  <2>. QED BY <2>1, <2>2, <2>3, <2>4 DEF Effect
<1>7. /\ Sequence(frames') /\ Len(frames') \in 0..MaxFrames
      /\ \A k \in 1..Len(frames') : frames'[k].cl.type = CLOSURE_OBJ
  <2>1. CASE WithinStep(v)
    <3>1. PICK q : MovesTo(q)
      BY <2>1 DEF WithinStep
    <3>. QED BY <1>1, <3>1 DEF MovesTo, Frame
  <2>2. CASE CallStep
    <3>1. Sequence(frames') /\ Len(frames') = n + 1 /\ n + 1 \in 0..MaxFrames
      BY <1>1, <2>2, VMAssumption DEF CallStep
    <3>2. /\ \A k \in 1..n - 1 : frames'[k].cl.type = CLOSURE_OBJ
          /\ frames'[n].cl.type = CLOSURE_OBJ /\ frames'[n + 1].cl.type = CLOSURE_OBJ
      <4>1. \A k \in 1..n - 1 : frames'[k] = frames[k] /\ k \in 1..n
        <5>1. \A k \in 1..n - 1 : frames'[k] = frames[k]
          BY ONLY <2>2 DEF CallStep, n
        <5>2. \A k \in 1..n - 1 : k \in 1..n
          BY <1>1
        <5>. QED BY <5>1, <5>2
      <4>2. frames'[n].cl = Frame.cl /\ frames'[n + 1].cl = callee
        BY <2>2 DEF CallStep, NewFrame
      <4>3. Frame.cl.type = CLOSURE_OBJ
        BY <1>1 DEF Frame
      <4>. QED BY <1>1, <1>5, <2>2, <4>1, <4>2, <4>3
    <3>3. \A k \in 1..n + 1 : k \in 1..n - 1 \/ k = n \/ k = n + 1
      BY <1>1
    <3>. QED BY <3>1, <3>2, <3>3
  <2>3. CASE ReturnStep(v)
    <3>1. Sequence(frames') /\ Len(frames') = n - 1 /\ \A k \in 1..n - 1 : frames'[k] = frames[k]
      BY <2>3 DEF ReturnStep
    <3>2. n - 1 \in 0..MaxFrames /\ \A k \in 1..n - 1 : k \in 1..n
      BY <1>1, VMAssumption
    <3>. QED BY <1>1, <3>1, <3>2
  <2>4. CASE StopStep
    <3>1. Sequence(frames') /\ Len(frames') \in 0..n /\ \A k \in 1..Len(frames') : frames'[k].cl = frames[k].cl
      BY <2>4 DEF StopStep
    <3>2. Len(frames') \in 0..MaxFrames /\ \A k \in 1..Len(frames') : k \in 1..n
      BY <1>1, <3>1, VMAssumption
    <3>. QED BY <1>1, <3>1, <3>2
  <2>. QED BY <2>1, <2>2, <2>3, <2>4 DEF Effect
<1>9. \A k \in 2..Len(frames') : frames'[k].cl \in W
  <2>1. /\ \A k \in 1..n : \A m \in 1..n : k \in 2..m => k \in 2..n /\ k \in 1..n
        /\ \A k \in 2..n + 1 : k = n + 1 \/ k = n \/ k \in 1..n - 1
        /\ \A k \in 2..n + 1 : k \in 2..n \/ k = n + 1
        /\ \A k \in 2..n : k = n \/ k \in 1..n - 1
        /\ n \in 1..n /\ n - 1 \in 0..n
    BY <1>1
  <2>2. /\ \A k \in 2..n : frames[k].cl \in V
        /\ Frame.cl = frames[n].cl
    BY DEF Works, Holding, Frame
  <2>3. CASE WithinStep(v)
    <3>1. PICK q : MovesTo(q)
      BY <2>3 DEF WithinStep
    <3>2. Len(frames') = n /\ (\A k \in 1..n - 1 : frames'[k] = frames[k]) /\ frames'[n].cl = frames[n].cl
      BY <2>2, <3>1 DEF MovesTo
    <3>. QED BY <2>1, <2>2, <3>2
  <2>4. CASE CallStep
    <3>1. /\ Len(frames') = n + 1 /\ (\A k \in 1..n - 1 : frames'[k] = frames[k])
          /\ frames'[n].cl = frames[n].cl /\ frames'[n + 1].cl = callee
      BY <2>2, <2>4 DEF CallStep, NewFrame
    <3>. QED BY <1>5, <2>1, <2>2, <2>4, <3>1
  <2>5. CASE ReturnStep(v)
    <3>1. Len(frames') = n - 1 /\ \A k \in 1..n - 1 : frames'[k] = frames[k]
      BY <2>5 DEF ReturnStep
    <3>2. \A k \in 2..n - 1 : k \in 2..n /\ k \in 1..n - 1
      BY <1>1
    <3>. QED BY <2>2, <3>1, <3>2
  <2>6. CASE StopStep
    <3>1. Len(frames') \in 0..n /\ \A k \in 1..Len(frames') : frames'[k].cl = frames[k].cl
      BY <2>6 DEF StopStep
    <3>2. \A k \in 2..Len(frames') : k \in 2..n /\ k \in 1..Len(frames')
      BY <1>1, <3>1
    <3>. QED BY <2>2, <3>1, <3>2
  <2>. QED BY <2>3, <2>4, <2>5, <2>6 DEF Effect
<1>8. Values(W, Offered(constants))'
  BY <1>2
<1>. QED BY <1>1, <1>2, <1>3, <1>4, <1>6, <1>7, <1>8, <1>9 DEF Holding

(* The frames after a step.                                                *)
LEMMA StepRunning ==
  ASSUME NEW V, Works(V), NEW v, Part(v, V, Offered(constants)), Effect(v), UNCHANGED compilerVars,
         status' = "running"
  PROVE  Running(V \cup {v})'
<1>. DEFINE W == V \cup {v}  n == Len(frames)  F == C!Finished
<1>1. /\ n \in Nat \ {0} /\ n \in 1..n
      /\ \A k \in 1..n : Standing(frames[k], V, F) /\ Standing(frames[k], W, F)
      /\ \A k \in 2..n : frames[k].cl \in V /\ frames[k].basePointer >= 1
      /\ frames[1].basePointer = 0
      /\ frames[1].cl = Closure(CompiledFunction(C!Scope.instructions, 0, 0), <<>>, <<"main">>)
  <2>1. \A k \in 1..n : Standing(frames[k], V, C!Finished)
    BY DEF Works, Running
  <2>2. \A k \in 1..n : Standing(frames[k], W, C!Finished)
    BY <2>1, StillStanding
  <2>3. n \in Nat \ {0} /\ n \in 1..n
    BY DEF Works, Holding, Running
  <2>4. /\ \A k \in 2..n : frames[k].cl \in V /\ frames[k].basePointer >= 1
        /\ frames[1].basePointer = 0
        /\ frames[1].cl = Closure(CompiledFunction(C!Scope.instructions, 0, 0), <<>>, <<"main">>)
    BY DEF Works, Running
  <2>. HIDE DEF W
  <2>. QED BY <2>1, <2>2, <2>3, <2>4
<1>2. /\ Frame = frames[n] /\ Walkable(Frame.cl.Fn.Instructions) /\ ins = Frame.cl.Fn.Instructions
      /\ ip = Frame.ip + 1
  BY <1>1 DEF Frame, Works, CodeOK, Standing, ins, ip
<1>3. F' = F /\ C!Scope' = C!Scope
  BY SameCode
<1>. HIDE DEF F
<1>4. ASSUME NEW q \in C!Successors(ins, ip), ip \in C!Starts(ins)
      PROVE  Standing([cl |-> Frame.cl, ip |-> q - 1, basePointer |-> Frame.basePointer], W, F)
  BY <1>1, <1>2, <1>4, MovedStanding
<1>5. SUFFICES
        /\ Len(frames') >= 1
        /\ \A k \in 1..Len(frames') : Standing(frames'[k], W, F)
        /\ \A k \in 2..Len(frames') : frames'[k].cl \in W /\ frames'[k].basePointer >= 1
        /\ frames'[1].basePointer = 0 /\ frames'[1].cl = frames[1].cl
  <2>1. frames'[1].cl = Closure(CompiledFunction(C!Scope'.instructions, 0, 0), <<>>, <<"main">>)
    BY <1>1, <1>3, <1>5
  <2>. QED BY <1>3, <1>5, <2>1 DEF Running, F
<1>6. CASE WithinStep(v)
  <2>1. PICK q \in C!Successors(ins, ip) : MovesTo(q)
    BY <1>6 DEF WithinStep
  <2>2. ip \in C!Starts(ins)
    BY <1>6 DEF WithinStep
  <2>3. Standing([cl |-> Frame.cl, ip |-> q - 1, basePointer |-> Frame.basePointer], W, F)
    BY <1>4, <2>2
  <2>4. /\ Len(frames') = n /\ \A k \in 1..n - 1 : frames'[k] = frames[k]
        /\ frames'[n] = [cl |-> Frame.cl, ip |-> q - 1, basePointer |-> Frame.basePointer]
    BY <2>1 DEF MovesTo
  <2>5. \A k \in 1..n : k \in 1..n - 1 \/ k = n
    BY <1>1
  <2>6. /\ \A k \in 1..n : Standing(frames'[k], W, F)
        /\ \A k \in 1..n : frames'[k].cl = frames[k].cl /\ frames'[k].basePointer = frames[k].basePointer
    <3>1. \A k \in 1..n : Standing(frames'[k], W, F)
      <4>. HIDE DEF W
      <4>. QED BY <1>1, <2>3, <2>4, <2>5
    <3>2. frames'[n].cl = Frame.cl /\ frames'[n].basePointer = Frame.basePointer
      BY <2>4
    <3>. QED BY <1>2, <2>4, <2>5, <3>1, <3>2
  <2>7. n >= 1 /\ 1 \in 1..n /\ \A k \in 2..n : k \in 1..n
    BY <1>1
  <2>. QED BY <1>1, <2>4, <2>6, <2>7
<1>7. CASE CallStep
  <2>1. ip + Width(op) \in C!Successors(ins, ip) /\ ip \in C!Starts(ins)
    BY <1>7 DEF CallStep
  <2>2. Standing([cl |-> Frame.cl, ip |-> ip + Width(op) - 1, basePointer |-> Frame.basePointer], W, F)
    <3>. DEFINE q == ip + Width(op)
    <3>1. q \in C!Successors(ins, ip) /\ ip \in C!Starts(ins)
      BY <2>1
    <3>. HIDE DEF q, W
    <3>2. Standing([cl |-> Frame.cl, ip |-> q - 1, basePointer |-> Frame.basePointer], W, F)
      BY ONLY <1>4, <3>1
    <3>3. q - 1 = ip + Width(op) - 1
      <4>1. ip \in Int /\ Width(op) \in Int
        BY <1>1, <1>2, OperandLayouts DEF Standing
      <4>. QED BY <4>1 DEF q
    <3>. QED BY ONLY <3>2, <3>3
  <2>3. callee \in V /\ callee.type = CLOSURE_OBJ /\ sp - numArgs \in Nat \ {0}
    BY <1>7 DEF CallStep, Works, Holding
  <2>4. Standing(NewFrame(callee, sp - numArgs), W, F)
    BY <2>3, CalleeStanding DEF F
  <2>5. /\ Len(frames') = n + 1 /\ \A k \in 1..n - 1 : frames'[k] = frames[k]
        /\ frames'[n] = [cl |-> Frame.cl, ip |-> ip + Width(op) - 1, basePointer |-> Frame.basePointer]
        /\ frames'[n + 1] = NewFrame(callee, sp - numArgs)
    BY <1>7 DEF CallStep
  <2>6. frames'[n + 1].cl = callee /\ frames'[n + 1].basePointer = sp - numArgs
    BY <2>5 DEF NewFrame
  <2>7. \A k \in 1..n + 1 : k \in 1..n - 1 \/ k = n \/ k = n + 1
    BY <1>1
  <2>8. \A k \in 1..n + 1 : Standing(frames'[k], W, F)
    <3>. HIDE DEF W
    <3>. QED BY <1>1, <2>2, <2>4, <2>5, <2>7
  <2>9. \A k \in 1..n : frames'[k].cl = frames[k].cl /\ frames'[k].basePointer = frames[k].basePointer
    <3>1. \A k \in 1..n : k \in 1..n - 1 \/ k = n
      BY <1>1
    <3>. QED BY <1>2, <2>5, <3>1
  <2>10. n + 1 >= 1 /\ 1 \in 1..n /\ \A k \in 2..n + 1 : k = n + 1 \/ (k \in 1..n /\ k \in 2..n)
    BY <1>1
  <2>11. \A k \in 2..n + 1 : frames'[k].cl \in W /\ frames'[k].basePointer >= 1
    BY <1>1, <2>3, <2>6, <2>9, <2>10
  <2>. QED BY <1>1, <2>5, <2>8, <2>9, <2>10, <2>11
<1>8. CASE ReturnStep(v)
  <2>1. Len(frames') = n - 1 /\ n > 1 /\ \A k \in 1..n - 1 : frames'[k] = frames[k]
    BY <1>8 DEF ReturnStep
  <2>2. n - 1 >= 1 /\ 1 \in 1..n - 1 /\ \A k \in 1..n - 1 : k \in 1..n /\ (k \in 2..n - 1 => k \in 2..n)
    BY <1>1, <2>1
  <2>3. \A k \in 2..n - 1 : k \in 1..n - 1
    BY <1>1
  <2>. QED BY <1>1, <2>1, <2>2, <2>3
<1>9. ~StopStep
  BY DEF StopStep
<1>. QED BY <1>6, <1>7, <1>8, <1>9 DEF Effect

-----------------------------------------------------------------------------
(* The session's compiler takes the steps that the compiler's proofs are   *)
(* about.                                                                  *)
LEMMA SameCompileAlternative == C!CompileAlternative => CP!CompileAlternative
<1>1. ASSUME NEW s, NEW o, NEW x
      PROVE  /\ C!Emit(s, o, x) = CP!Emit(s, o, x) /\ C!KeepValue(s) = CP!KeepValue(s)
             /\ C!ChangeOperand(s, o, x) = CP!ChangeOperand(s, o, x)
  <2>1. C!Emit(s, o, x) = CP!Emit(s, o, x)
    BY DEF C!CompilationScope, C!Emit, C!EmittedInstruction, C!Make, C!OpArray, C!OpCall,
           C!OpClosure, C!OpConstant, C!OpGetBuiltin, C!OpGetFree, C!OpGetGlobal,
           C!OpGetLocal, C!OpHash, C!OpJump, C!OpJumpNotTruthy, C!OpSetGlobal,
           C!OpSetLocal, C!OperandWidths, C!PutOperand, CP!CompilationScope, CP!Emit,
           CP!EmittedInstruction, CP!Make, CP!OpArray, CP!OpCall, CP!OpClosure,
           CP!OpConstant, CP!OpGetBuiltin, CP!OpGetFree, CP!OpGetGlobal, CP!OpGetLocal,
           CP!OpHash, CP!OpJump, CP!OpJumpNotTruthy, CP!OpSetGlobal, CP!OpSetLocal,
           CP!OperandWidths, CP!PutOperand
  <2>2. C!KeepValue(s) = CP!KeepValue(s)
    BY DEF C!CompilationScope, C!KeepValue, C!LastInstructionIs, C!OpPop, C!RemoveLastPop,
           CP!CompilationScope, CP!KeepValue, CP!LastInstructionIs, CP!OpPop,
           CP!RemoveLastPop
  <2>3. C!ChangeOperand(s, o, x) = CP!ChangeOperand(s, o, x)
    BY DEF C!ChangeOperand, C!CompilationScope, C!Make, C!OpArray, C!OpCall, C!OpClosure,
           C!OpConstant, C!OpGetBuiltin, C!OpGetFree, C!OpGetGlobal, C!OpGetLocal,
           C!OpHash, C!OpJump, C!OpJumpNotTruthy, C!OpSetGlobal, C!OpSetLocal,
           C!OperandWidths, C!PutOperand, C!ReplaceInstructions, CP!ChangeOperand,
           CP!CompilationScope, CP!Make, CP!OpArray, CP!OpCall, CP!OpClosure,
           CP!OpConstant, CP!OpGetBuiltin, CP!OpGetFree, CP!OpGetGlobal, CP!OpGetLocal,
           CP!OpHash, CP!OpJump, CP!OpJumpNotTruthy, CP!OpSetGlobal, CP!OpSetLocal,
           CP!OperandWidths, CP!PutOperand, CP!ReplaceInstructions
  <2>. QED BY <2>1, <2>2, <2>3
<1>. DEFINE v == C!KeepValue(C!Scope)
            j == C!Emit(v, C!OpJump, <<C!Bogus>>)
            pos == Head(todo).pos
<1>2. v = CP!KeepValue(CP!Scope)
  BY <1>1, SameFinished
<1>3. j = CP!Emit(CP!KeepValue(CP!Scope), CP!OpJump, <<CP!Bogus>>)
  BY <1>1, <1>2 DEF C!OpJump, CP!OpJump, C!Bogus, CP!Bogus
<1>4. C!ChangeOperand(j, pos, Len(j.instructions)) =
        CP!ChangeOperand(CP!Emit(CP!KeepValue(CP!Scope), CP!OpJump, <<CP!Bogus>>), pos,
          Len(CP!Emit(CP!KeepValue(CP!Scope), CP!OpJump, <<CP!Bogus>>).instructions))
  <2>. HIDE DEF j
  <2>. QED BY <1>1, <1>3
<1>5. ASSUME C!CompileAlternative
      PROVE  /\ C!Doing("else") /\ scopes' = C!Changed(C!ChangeOperand(j, pos, Len(j.instructions)))
             /\ C!Continue(<<IF C!Node.Alternative.kind = "nil" THEN C!Emits(C!OpNull, <<>>)
                                                              ELSE C!Visit(C!Node.Alternative),
                             C!Join(C!Node, Len(v.instructions))>>)
             /\ UNCHANGED <<pool, symbolTable, failed>>
  BY <1>5 DEF C!CompileAlternative
<1>6. ASSUME NEW x PROVE C!Changed(x) = CP!Changed(x)
  BY DEF C!Changed, CP!Changed
<1>7. ASSUME NEW x, NEW y
      PROVE  /\ C!Doing(x) = CP!Doing(x) /\ C!Continue(x) = CP!Continue(x) /\ C!Node = CP!Node
             /\ C!Emits(C!OpNull, <<>>) = CP!Emits(CP!OpNull, <<>>) /\ C!Visit(x) = CP!Visit(x)
             /\ C!Join(x, y) = CP!Join(x, y)
  BY DEF C!Doing, CP!Doing, C!Continue, CP!Continue, C!Node, CP!Node, C!Emits, CP!Emits, C!OpNull,
         CP!OpNull, C!Visit, CP!Visit, C!Join, CP!Join
<1>. HIDE DEF v, j
<1>. QED BY <1>2, <1>3, <1>4, <1>5, <1>6, <1>7 DEF CP!CompileAlternative

(* The two instances of the compiler take the same steps.                  *)
LEMMA SameNext == C!Next => CP!Next
<1>1. C!CompileStatements => CP!CompileStatements
  BY DEF C!At, C!CompileStatements, C!Continue, C!Doing, C!Node, C!OnlyVisits, C!Visit,
         C!Visits, CP!At, CP!CompileStatements, CP!Continue, CP!Doing, CP!Node,
         CP!OnlyVisits, CP!Visit, CP!Visits
<1>2. C!CompileExpressionStatement => CP!CompileExpressionStatement
  BY DEF C!At, C!CompileExpressionStatement, C!Continue, C!Doing, C!Emits, C!Node,
         C!OnlyVisits, C!OpPop, C!Visit, CP!At, CP!CompileExpressionStatement, CP!Continue,
         CP!Doing, CP!Emits, CP!Node, CP!OnlyVisits, CP!OpPop, CP!Visit
<1>3. C!CompileReturnStatement => CP!CompileReturnStatement
  BY DEF C!At, C!CompileReturnStatement, C!Continue, C!Doing, C!Emits, C!Node, C!OnlyVisits,
         C!OpReturnValue, C!Visit, CP!At, CP!CompileReturnStatement, CP!Continue, CP!Doing,
         CP!Emits, CP!Node, CP!OnlyVisits, CP!OpReturnValue, CP!Visit
<1>4. C!CompileInfixExpression => CP!CompileInfixExpression
  BY DEF C!Abort, C!At, C!CompileInfixExpression, C!Continue, C!Doing, C!Emits,
         C!EmitsOperator, C!InfixOpcode, C!Node, C!OnlyVisits, C!OpAdd, C!OpDiv, C!OpEqual,
         C!OpGreaterThan, C!OpMul, C!OpNotEqual, C!OpSub, C!Visit, CP!Abort, CP!At,
         CP!CompileInfixExpression, CP!Continue, CP!Doing, CP!Emits, CP!EmitsOperator,
         CP!InfixOpcode, CP!Node, CP!OnlyVisits, CP!OpAdd, CP!OpDiv, CP!OpEqual,
         CP!OpGreaterThan, CP!OpMul, CP!OpNotEqual, CP!OpSub, CP!Visit
<1>5. C!CompilePrefixExpression => CP!CompilePrefixExpression
  BY DEF C!Abort, C!At, C!CompilePrefixExpression, C!Continue, C!Doing, C!Emits,
         C!EmitsOperator, C!Node, C!OnlyVisits, C!OpBang, C!OpMinus, C!PrefixOpcode,
         C!Visit, CP!Abort, CP!At, CP!CompilePrefixExpression, CP!Continue, CP!Doing,
         CP!Emits, CP!EmitsOperator, CP!Node, CP!OnlyVisits, CP!OpBang, CP!OpMinus,
         CP!PrefixOpcode, CP!Visit
<1>6. C!CompileIndexExpression => CP!CompileIndexExpression
  BY DEF C!At, C!CompileIndexExpression, C!Continue, C!Doing, C!Emits, C!Node, C!OnlyVisits,
         C!OpIndex, C!Visit, CP!At, CP!CompileIndexExpression, CP!Continue, CP!Doing,
         CP!Emits, CP!Node, CP!OnlyVisits, CP!OpIndex, CP!Visit
<1>7. C!CompileArrayLiteral => CP!CompileArrayLiteral
  BY DEF C!At, C!CompileArrayLiteral, C!Continue, C!Doing, C!Emits, C!Node, C!OnlyVisits,
         C!OpArray, C!Visit, C!Visits, CP!At, CP!CompileArrayLiteral, CP!Continue, CP!Doing,
         CP!Emits, CP!Node, CP!OnlyVisits, CP!OpArray, CP!Visit, CP!Visits
<1>8. C!CompileCallExpression => CP!CompileCallExpression
  BY DEF C!At, C!CompileCallExpression, C!Continue, C!Doing, C!Emits, C!Node, C!OnlyVisits,
         C!OpCall, C!Visit, C!Visits, CP!At, CP!CompileCallExpression, CP!Continue,
         CP!Doing, CP!Emits, CP!Node, CP!OnlyVisits, CP!OpCall, CP!Visit, CP!Visits
<1>9. C!CompileHashLiteral => CP!CompileHashLiteral
  BY DEF C!At, C!CompileHashLiteral, C!Continue, C!Doing, C!Emits, C!Node, C!OnlyVisits,
         C!OpHash, C!Visit, CP!At, CP!CompileHashLiteral, CP!Continue, CP!Doing, CP!Emits,
         CP!Node, CP!OnlyVisits, CP!OpHash, CP!Visit
<1>10. C!CompileIfExpression => CP!CompileIfExpression
  BY DEF C!At, C!CompileIfExpression, C!Continue, C!Doing, C!Node, C!OnlyVisits, C!Then,
         C!Visit, CP!At, CP!CompileIfExpression, CP!Continue, CP!Doing, CP!Node,
         CP!OnlyVisits, CP!Then, CP!Visit
<1>11. C!CompileConsequence => CP!CompileConsequence
  BY DEF C!Bogus, C!Changed, C!CompilationScope, C!CompileConsequence, C!Continue, C!Doing,
         C!Else, C!Emit, C!EmittedInstruction, C!Make, C!Node, C!OpArray, C!OpCall,
         C!OpClosure, C!OpConstant, C!OpGetBuiltin, C!OpGetFree, C!OpGetGlobal,
         C!OpGetLocal, C!OpHash, C!OpJump, C!OpJumpNotTruthy, C!OpSetGlobal, C!OpSetLocal,
         C!OperandWidths, C!PutOperand, C!Scope, C!Visit, CP!Bogus, CP!Changed,
         CP!CompilationScope, CP!CompileConsequence, CP!Continue, CP!Doing, CP!Else,
         CP!Emit, CP!EmittedInstruction, CP!Make, CP!Node, CP!OpArray, CP!OpCall,
         CP!OpClosure, CP!OpConstant, CP!OpGetBuiltin, CP!OpGetFree, CP!OpGetGlobal,
         CP!OpGetLocal, CP!OpHash, CP!OpJump, CP!OpJumpNotTruthy, CP!OpSetGlobal,
         CP!OpSetLocal, CP!OperandWidths, CP!PutOperand, CP!Scope, CP!Visit
<1>12. C!CompileAlternative => CP!CompileAlternative
  BY SameCompileAlternative
<1>13. C!EndIfExpression => CP!EndIfExpression
  BY DEF C!ChangeOperand, C!Changed, C!CompilationScope, C!Continue, C!Doing,
         C!EndIfExpression, C!KeepValue, C!LastInstructionIs, C!Make, C!Node, C!OpArray,
         C!OpCall, C!OpClosure, C!OpConstant, C!OpGetBuiltin, C!OpGetFree, C!OpGetGlobal,
         C!OpGetLocal, C!OpHash, C!OpJump, C!OpJumpNotTruthy, C!OpPop, C!OpSetGlobal,
         C!OpSetLocal, C!OperandWidths, C!PutOperand, C!RemoveLastPop,
         C!ReplaceInstructions, C!Scope, CP!ChangeOperand, CP!Changed, CP!CompilationScope,
         CP!Continue, CP!Doing, CP!EndIfExpression, CP!KeepValue, CP!LastInstructionIs,
         CP!Make, CP!Node, CP!OpArray, CP!OpCall, CP!OpClosure, CP!OpConstant,
         CP!OpGetBuiltin, CP!OpGetFree, CP!OpGetGlobal, CP!OpGetLocal, CP!OpHash, CP!OpJump,
         CP!OpJumpNotTruthy, CP!OpPop, CP!OpSetGlobal, CP!OpSetLocal, CP!OperandWidths,
         CP!PutOperand, CP!RemoveLastPop, CP!ReplaceInstructions, CP!Scope
<1>14. C!CompileLetStatement => CP!CompileLetStatement
  BY DEF C!At, C!CompileLetStatement, C!Continue, C!Doing, C!Emits, C!Node, C!OpSetGlobal,
         C!OpSetLocal, C!Symbols!Bind, C!Symbols!Define, C!Symbols!DefinedSymbol,
         C!Symbols!GlobalScope, C!Symbols!LocalScope, C!Symbols!Symbol, C!Visit, CP!At,
         CP!CompileLetStatement, CP!Continue, CP!Doing, CP!Emits, CP!Node, CP!OpSetGlobal,
         CP!OpSetLocal, CP!Symbols!Bind, CP!Symbols!Define, CP!Symbols!DefinedSymbol,
         CP!Symbols!GlobalScope, CP!Symbols!LocalScope, CP!Symbols!Symbol, CP!Visit
<1>15. C!CompileIdentifier => CP!CompileIdentifier
  BY DEF C!Abort, C!At, C!Changed, C!CompilationScope, C!CompileIdentifier, C!Continue,
         C!Doing, C!Emit, C!EmittedInstruction, C!LoadSymbol, C!Make, C!Node, C!OpArray,
         C!OpCall, C!OpClosure, C!OpConstant, C!OpGetBuiltin, C!OpGetFree, C!OpGetGlobal,
         C!OpGetLocal, C!OpHash, C!OpJump, C!OpJumpNotTruthy, C!OpSetGlobal, C!OpSetLocal,
         C!OperandWidths, C!PutOperand, C!Scope, C!Symbols!Bind, C!Symbols!BuiltinScope,
         C!Symbols!Captured, C!Symbols!DefineFree, C!Symbols!Found, C!Symbols!FreeScope,
         C!Symbols!FreeSymbol, C!Symbols!GlobalScope, C!Symbols!Home, C!Symbols!LocalScope,
         C!Symbols!Resolvable, C!Symbols!Resolve, C!Symbols!Resolved, C!Symbols!ResolvedAt,
         C!Symbols!Storing, C!Symbols!Symbol, CP!Abort, CP!At, CP!Changed,
         CP!CompilationScope, CP!CompileIdentifier, CP!Continue, CP!Doing, CP!Emit,
         CP!EmittedInstruction, CP!LoadSymbol, CP!Make, CP!Node, CP!OpArray, CP!OpCall,
         CP!OpClosure, CP!OpConstant, CP!OpGetBuiltin, CP!OpGetFree, CP!OpGetGlobal,
         CP!OpGetLocal, CP!OpHash, CP!OpJump, CP!OpJumpNotTruthy, CP!OpSetGlobal,
         CP!OpSetLocal, CP!OperandWidths, CP!PutOperand, CP!Scope, CP!Symbols!Bind,
         CP!Symbols!BuiltinScope, CP!Symbols!Captured, CP!Symbols!DefineFree,
         CP!Symbols!Found, CP!Symbols!FreeScope, CP!Symbols!FreeSymbol,
         CP!Symbols!GlobalScope, CP!Symbols!Home, CP!Symbols!LocalScope,
         CP!Symbols!Resolvable, CP!Symbols!Resolve, CP!Symbols!Resolved,
         CP!Symbols!ResolvedAt, CP!Symbols!Storing, CP!Symbols!Symbol
<1>16. C!CompileLiteral => CP!CompileLiteral
  BY DEF C!At, C!Changed, C!CompilationScope, C!CompileLiteral, C!Constant, C!Continue,
         C!Doing, C!Emit, C!EmitAction, C!EmittedInstruction, C!INTEGER_OBJ, C!Integer,
         C!Make, C!Node, C!OpArray, C!OpCall, C!OpClosure, C!OpConstant, C!OpGetBuiltin,
         C!OpGetFree, C!OpGetGlobal, C!OpGetLocal, C!OpHash, C!OpJump, C!OpJumpNotTruthy,
         C!OpSetGlobal, C!OpSetLocal, C!OperandWidths, C!PutOperand, C!STRING_OBJ, C!Scope,
         C!String, C!Wrap, CP!At, CP!Changed, CP!CompilationScope, CP!CompileLiteral,
         CP!Constant, CP!Continue, CP!Doing, CP!Emit, CP!EmitAction, CP!EmittedInstruction,
         CP!INTEGER_OBJ, CP!Integer, CP!Make, CP!Node, CP!OpArray, CP!OpCall, CP!OpClosure,
         CP!OpConstant, CP!OpGetBuiltin, CP!OpGetFree, CP!OpGetGlobal, CP!OpGetLocal,
         CP!OpHash, CP!OpJump, CP!OpJumpNotTruthy, CP!OpSetGlobal, CP!OpSetLocal,
         CP!OperandWidths, CP!PutOperand, CP!STRING_OBJ, CP!Scope, CP!String, CP!Wrap
<1>17. C!CompileBoolean => CP!CompileBoolean
  BY DEF C!At, C!Changed, C!CompilationScope, C!CompileBoolean, C!Continue, C!Doing, C!Emit,
         C!EmitAction, C!EmittedInstruction, C!Make, C!Node, C!OpArray, C!OpCall,
         C!OpClosure, C!OpConstant, C!OpFalse, C!OpGetBuiltin, C!OpGetFree, C!OpGetGlobal,
         C!OpGetLocal, C!OpHash, C!OpJump, C!OpJumpNotTruthy, C!OpSetGlobal, C!OpSetLocal,
         C!OpTrue, C!OperandWidths, C!PutOperand, C!Scope, CP!At, CP!Changed,
         CP!CompilationScope, CP!CompileBoolean, CP!Continue, CP!Doing, CP!Emit,
         CP!EmitAction, CP!EmittedInstruction, CP!Make, CP!Node, CP!OpArray, CP!OpCall,
         CP!OpClosure, CP!OpConstant, CP!OpFalse, CP!OpGetBuiltin, CP!OpGetFree,
         CP!OpGetGlobal, CP!OpGetLocal, CP!OpHash, CP!OpJump, CP!OpJumpNotTruthy,
         CP!OpSetGlobal, CP!OpSetLocal, CP!OpTrue, CP!OperandWidths, CP!PutOperand, CP!Scope
<1>18. C!CompileFunctionLiteral => CP!CompileFunctionLiteral
  BY DEF C!At, C!CompilationScope, C!CompileFunctionLiteral, C!Continue, C!DefineAll,
         C!Doing, C!EmittedInstruction, C!EndFunction, C!NewScope, C!Node, C!Symbols!Bind,
         C!Symbols!Define, C!Symbols!DefinedSymbol, C!Symbols!GlobalScope,
         C!Symbols!LocalScope, C!Symbols!NewEnclosedSymbolTable, C!Symbols!NewSymbolTable,
         C!Symbols!Symbol, C!Visit, CP!At, CP!CompilationScope, CP!CompileFunctionLiteral,
         CP!Continue, CP!DefineAll, CP!Doing, CP!EmittedInstruction, CP!EndFunction,
         CP!NewScope, CP!Node, CP!Symbols!Bind, CP!Symbols!Define, CP!Symbols!DefinedSymbol,
         CP!Symbols!GlobalScope, CP!Symbols!LocalScope, CP!Symbols!NewEnclosedSymbolTable,
         CP!Symbols!NewSymbolTable, CP!Symbols!Symbol, CP!Visit
<1>19. C!CompileFunctionEnd => CP!CompileFunctionEnd
  BY DEF C!COMPILED_FUNCTION_OBJ, C!CompilationScope, C!CompileFunctionEnd,
         C!CompiledFunction, C!Continue, C!Doing, C!Emit, C!EmittedInstruction, C!EndBody,
         C!LastInstructionIs, C!LoadAll, C!LoadSymbol, C!Make, C!Node, C!OpArray, C!OpCall,
         C!OpClosure, C!OpConstant, C!OpGetBuiltin, C!OpGetFree, C!OpGetGlobal,
         C!OpGetLocal, C!OpHash, C!OpJump, C!OpJumpNotTruthy, C!OpPop, C!OpReturn,
         C!OpReturnValue, C!OpSetGlobal, C!OpSetLocal, C!OperandWidths, C!PutOperand,
         C!ReplaceInstructions, C!ReplaceLastPopWithReturn, C!Scope, C!Symbols!BuiltinScope,
         C!Symbols!FreeScope, C!Symbols!GlobalScope, C!Symbols!LocalScope, C!Symbols!Outer,
         CP!COMPILED_FUNCTION_OBJ, CP!CompilationScope, CP!CompileFunctionEnd,
         CP!CompiledFunction, CP!Continue, CP!Doing, CP!Emit, CP!EmittedInstruction,
         CP!EndBody, CP!LastInstructionIs, CP!LoadAll, CP!LoadSymbol, CP!Make, CP!Node,
         CP!OpArray, CP!OpCall, CP!OpClosure, CP!OpConstant, CP!OpGetBuiltin, CP!OpGetFree,
         CP!OpGetGlobal, CP!OpGetLocal, CP!OpHash, CP!OpJump, CP!OpJumpNotTruthy, CP!OpPop,
         CP!OpReturn, CP!OpReturnValue, CP!OpSetGlobal, CP!OpSetLocal, CP!OperandWidths,
         CP!PutOperand, CP!ReplaceInstructions, CP!ReplaceLastPopWithReturn, CP!Scope,
         CP!Symbols!BuiltinScope, CP!Symbols!FreeScope, CP!Symbols!GlobalScope,
         CP!Symbols!LocalScope, CP!Symbols!Outer
<1>20. C!EmitAfter => CP!EmitAfter
  BY DEF C!Changed, C!CompilationScope, C!Continue, C!Doing, C!Emit, C!EmitAction,
         C!EmitAfter, C!EmittedInstruction, C!Make, C!OpArray, C!OpCall, C!OpClosure,
         C!OpConstant, C!OpGetBuiltin, C!OpGetFree, C!OpGetGlobal, C!OpGetLocal, C!OpHash,
         C!OpJump, C!OpJumpNotTruthy, C!OpSetGlobal, C!OpSetLocal, C!OperandWidths,
         C!PutOperand, C!Scope, CP!Changed, CP!CompilationScope, CP!Continue, CP!Doing,
         CP!Emit, CP!EmitAction, CP!EmitAfter, CP!EmittedInstruction, CP!Make, CP!OpArray,
         CP!OpCall, CP!OpClosure, CP!OpConstant, CP!OpGetBuiltin, CP!OpGetFree,
         CP!OpGetGlobal, CP!OpGetLocal, CP!OpHash, CP!OpJump, CP!OpJumpNotTruthy,
         CP!OpSetGlobal, CP!OpSetLocal, CP!OperandWidths, CP!PutOperand, CP!Scope
<1>21. C!Fail => CP!Fail
  BY DEF C!Doing, C!Fail, CP!Doing, CP!Fail
<1>. QED BY <1>1, <1>2, <1>3, <1>4, <1>5, <1>6, <1>7, <1>8, <1>9, <1>10, <1>11, <1>12,
            <1>13, <1>14, <1>15, <1>16, <1>17, <1>18, <1>19, <1>20, <1>21 DEF C!Next,
            CP!Next

-----------------------------------------------------------------------------
(* The session.                                                            *)
Begins(a, b) == Len(a) <= Len(b) /\ \A k \in 1..Len(a) : b[k] = a[k]

MachineOK == \E V : Holding(V) /\ (status = "running" => Running(V))

Session(trees) ==
  /\ phase \in {"read", "compile", "run", "crashed", "closed"}
  /\ status \in {"running", "done", "error", "panic"}
  /\ lines \in 0..MaxLines
  /\ saved = constants
  /\ CP!Pool(constants) /\ CP!Table(symbolTable[1])
  /\ phase \in {"compile", "run"} => CP!CInv(trees)
  /\ phase = "compile" => Begins(constants, pool)
  /\ phase = "run" => pool = constants /\ C!Compiled
  /\ phase # "run" => status # "running"
  /\ MachineOK

(* What the finished code of a line has to be.                             *)
LineFits == phase = "run" => CodeFits /\ PairsWhole /\ C!SlotsExist

(* The pool's objects have no parts.                                       *)
LEMMA PoolParts ==
  ASSUME NEW consts, CP!Pool(consts), NEW V, NEW P
  PROVE  Sequence(consts) /\ \A k \in 1..Len(consts) : Part(consts[k], V, P)
BY DEF CP!Pool, CP!Sequence, Sequence, Part, CLOSURE_OBJ, ARRAY_OBJ, HASH_OBJ, BUILTIN_OBJ,
       CP!INTEGER_OBJ, CP!STRING_OBJ, CP!COMPILED_FUNCTION_OBJ

(* A session starts with nothing compiled and nothing run.                 *)
LEMMA InitSession ==
  ASSUME NEW trees, Init
  PROVE  Session(trees)
<1>1. /\ phase = "read" /\ status = "done" /\ lines = 0 /\ saved = <<>> /\ constants = <<>>
      /\ symbolTable = <<C!Symbols!DefineBuiltins>> /\ globals = EmptySlots(GlobalsSize)
      /\ stack = EmptySlots(StackSize) /\ sp = 0 /\ heap = 0 /\ frames = <<MainFrame(<<>>)>>
  BY DEF Init
<1>2. lines \in 0..MaxLines
  BY <1>1, ReplAssumption
<1>3. CP!Pool(<<>>)
  BY DEF CP!Pool, CP!Sequence
<1>4. CP!Table(symbolTable[1])
  <2>1. C!Symbols!DefineBuiltins = CP!Symbols!DefineBuiltins
    BY DEF C!Symbols!DefineBuiltins, CP!Symbols!DefineBuiltins, C!Symbols!Symbol, CP!Symbols!Symbol,
           C!Symbols!BuiltinScope, CP!Symbols!BuiltinScope,
           C!Builtins, CP!Builtins
  <2>2. CP!Table(CP!Symbols!DefineBuiltins)
    BY CP!BuiltinsTable, ObjectsAssumption, ByteSizeAssumption
  <2>. QED BY <1>1, <2>1, <2>2
<1>5. Holding({Nil})
  <2>1. Values({Nil}, Offered(constants))
    BY PlainParts DEF Values
  <2>2. DOMAIN stack = 0..StackSize - 1 /\ \A i \in 0..StackSize - 1 : stack[i] \in {Nil}
    BY <1>1 DEF EmptySlots
  <2>3. DOMAIN globals = 0..GlobalsSize - 1 /\ \A i \in 0..GlobalsSize - 1 : globals[i] \in {Nil}
    BY <1>1 DEF EmptySlots
  <2>4. Sequence(constants) /\ \A k \in 1..Len(constants) : constants[k] \in {Nil}
    <3>1. Sequence(<<>>) /\ Len(<<>>) = 0
      BY Tuples
    <3>2. Sequence(constants) /\ Len(constants) = 0
      BY <1>1, <3>1
    <3>. QED BY <3>2
  <2>. DEFINE f == MainFrame(<<>>)
  <2>5. f.cl.type = CLOSURE_OBJ
    BY DEF MainFrame, NewFrame, Closure
  <2>. HIDE DEF f
  <2>6. Sequence(<<f>>) /\ Len(<<f>>) = 1 /\ <<f>>[1] = f
    BY Tuples
  <2>7. Sequence(frames) /\ Len(frames) = 1 /\ \A k \in 1..Len(frames) : frames[k].cl.type = CLOSURE_OBJ
    BY <1>1, <2>5, <2>6 DEF f
  <2>8. sp \in Int /\ heap \in Nat /\ 1 \in 0..MaxFrames /\ \A k \in 2..Len(frames) : FALSE
    BY <1>1, <2>7, VMAssumption
  <2>. QED BY <2>1, <2>2, <2>3, <2>4, <2>7, <2>8 DEF Holding
<1>6. MachineOK
  BY <1>1, <1>5 DEF MachineOK
<1>. QED BY <1>1, <1>2, <1>3, <1>4, <1>6 DEF Session

(* Nothing that the machine holds changes.                                 *)
LEMMA MachineStays ==
  ASSUME MachineOK, UNCHANGED vmVars
  PROVE  MachineOK' \/ status = "running"
<1>1. PICK V : Holding(V)
  BY DEF MachineOK
<1>2. Holding(V)'
  BY <1>1 DEF Holding, vmVars
<1>3. status' = status
  BY DEF vmVars
<1>. QED BY <1>2, <1>3 DEF MachineOK

(* NewWithState.                                                           *)
LEMMA ReadLineSession ==
  ASSUME NEW trees, CP!Grammar(trees), NEW program \in CP!Of(trees, {"Program"}),
         Session(trees), ReadLine(program)
  PROVE  Session(trees)'
<1>. DEFINE g == symbolTable[1]
<1>1. /\ phase = "read" /\ lines < MaxLines /\ lines' = lines + 1 /\ phase' = "compile"
      /\ pool' = saved /\ symbolTable' = <<g>> /\ scopes' = <<C!NewScope>>
      /\ todo' = <<C!Visit(program)>> /\ failed' = FALSE /\ saved' = saved /\ UNCHANGED vmVars
  BY DEF ReadLine
<1>2. /\ saved = constants /\ CP!Pool(constants) /\ CP!Table(g) /\ status # "running"
      /\ status \in {"running", "done", "error", "panic"} /\ lines \in 0..MaxLines
  BY <1>1 DEF Session
<1>3. lines' \in 0..MaxLines /\ status' = status /\ constants' = constants
  BY <1>1, <1>2, ReplAssumption DEF vmVars
<1>4. MachineOK'
  BY <1>1, <1>2, MachineStays DEF Session
<1>5. CP!Chain(<<g>>) /\ Len(<<g>>) = 1
  BY <1>2, CP!OneTable, ObjectsAssumption, ByteSizeAssumption
<1>6. /\ CP!GoodScopes(<<CP!NewScope>>)
      /\ \E d : /\ CP!Todo(trees, <<CP!Visit(program)>>, d, <<CP!NewScope>>)
                /\ CP!Jumping(<<CP!Visit(program)>>, d, <<CP!NewScope>>)
  BY CP!FreshWork, ObjectsAssumption, ByteSizeAssumption
<1>7. CP!NewScope = C!NewScope /\ CP!Visit(program) = C!Visit(program)
  BY DEF CP!NewScope, C!NewScope, CP!Visit, C!Visit, CP!CompilationScope, C!CompilationScope,
         CP!EmittedInstruction, C!EmittedInstruction
<1>8. Len(<<C!NewScope>>) = 1
  OBVIOUS
<1>9. CP!CInv(trees)'
  <2>1. /\ CP!Pool(pool') /\ CP!GoodScopes(scopes') /\ CP!Chain(symbolTable')
        /\ Len(symbolTable') = Len(scopes') /\ failed' \in BOOLEAN /\ ~failed'
        /\ \E d : CP!Todo(trees, todo', d, scopes') /\ CP!Jumping(todo', d, scopes')
    BY <1>1, <1>2, <1>5, <1>6, <1>7, <1>8
  <2>. QED BY <2>1 DEF CP!CInv
<1>10. CP!Table(symbolTable'[1])
  <2>1. <<g>>[1] = g
    OBVIOUS
  <2>. QED BY <1>1, <1>2, <2>1
<1>11. Begins(constants', pool')
  <2>1. Len(constants) \in Nat
    BY <1>2, PoolParts, SequenceIsFunction
  <2>. QED BY <1>1, <1>2, <1>3, <2>1 DEF Begins
<1>. QED BY <1>1, <1>2, <1>3, <1>4, <1>9, <1>10, <1>11 DEF Session

(* One step of Compile.                                                    *)
LEMMA CompileSession ==
  ASSUME NEW trees, CP!Grammar(trees), Session(trees), CompileStep
  PROVE  Session(trees)'
<1>1. phase = "compile" /\ C!Next /\ UNCHANGED vmVars /\ UNCHANGED sessionVars
  BY DEF CompileStep
<1>2. /\ saved = constants /\ CP!Pool(constants) /\ CP!CInv(trees) /\ status # "running"
      /\ status \in {"running", "done", "error", "panic"} /\ Begins(constants, pool)
  BY <1>1 DEF Session
<1>3. CP!Next
  BY <1>1, SameNext
<1>4. CP!CInv(trees)'
  BY <1>2, <1>3, CP!NextCInv, ObjectsAssumption, ByteSizeAssumption
<1>5. MachineOK'
  BY <1>1, <1>2, MachineStays DEF Session
<1>6. CP!Table(symbolTable'[1])
  <2>1. CP!Chain(symbolTable')
    BY <1>4 DEF CP!CInv
  <2>2. 1 \in 1..Len(symbolTable')
    BY <2>1 DEF CP!Chain
  <2>. QED BY <2>1, <2>2 DEF CP!Chain
<1>7. pool' = pool \/ \E x : pool' = Append(pool, x)
  BY <1>3, CP!PoolGrows, ObjectsAssumption, ByteSizeAssumption
<1>8. Begins(constants, pool')
  <2>1. Sequence(pool) /\ Sequence(constants)
    BY <1>2 DEF CP!CInv, CP!Pool, CP!Sequence, Sequence
  <2>2. Len(pool) \in Nat /\ Len(constants) \in Nat
    BY <2>1, SequenceIsFunction
  <2>3. CASE pool' = pool
    BY <1>2, <2>3 DEF Begins
  <2>4. ASSUME NEW x, pool' = Append(pool, x) PROVE Begins(constants, pool')
    <3>1. Len(pool') = Len(pool) + 1 /\ \A k \in 1..Len(pool) : pool'[k] = pool[k]
      BY <2>1, <2>4, AppendedTo
    <3>2. \A k \in 1..Len(constants) : k \in 1..Len(pool)
      BY <1>2, <2>2 DEF Begins
    <3>. QED BY <1>2, <2>2, <3>1, <3>2 DEF Begins
  <2>. QED BY <1>7, <2>3, <2>4
<1>. QED BY <1>1, <1>2, <1>4, <1>5, <1>6, <1>8 DEF Session, vmVars, sessionVars

(* NewWithGlobalsStore: the machine of a line takes over the globals.      *)
LEMMA StartSession ==
  ASSUME NEW trees, Session(trees), StartMachine
  PROVE  Session(trees)'
<1>. DEFINE main == Closure(CompiledFunction(C!Scope.instructions, 0, 0), <<>>, <<"main">>)
            f == NewFrame(main, 0)
<1>1. /\ phase = "compile" /\ C!Compiled /\ saved' = pool /\ constants' = pool
      /\ frames' = <<f>> /\ stack' = EmptySlots(StackSize) /\ sp' = 0 /\ status' = "running"
      /\ phase' = "run" /\ UNCHANGED compilerVars /\ globals' = globals /\ heap' = heap /\ lines' = lines
  BY DEF StartMachine, C!Bytecode, MainFrame
<1>2. /\ CP!CInv(trees) /\ Begins(constants, pool) /\ lines \in 0..MaxLines /\ CP!Table(symbolTable[1])
      /\ MachineOK
  BY <1>1 DEF Session
<1>3. CP!CInv(trees)' /\ CP!Pool(pool) /\ CP!Table(symbolTable[1])'
  BY <1>1, <1>2 DEF CP!CInv, compilerVars
<1>4. PICK V : Holding(V)
  BY <1>2 DEF MachineOK
<1>4a. PICK W : W = V \cup {pool[k] : k \in 1..Len(pool)} \cup {Nil}
  OBVIOUS
<1>5. Sequence(pool) /\ \A k \in 1..Len(pool) : Part(pool[k], W, Offered(pool))
  BY <1>3, PoolParts
<1>6. Values(W, Offered(pool))
  <2>1. Len(pool) \in Nat /\ Len(constants) \in Nat
    BY <1>4, <1>5, SequenceIsFunction DEF Holding
  <2>2. \A k \in 1..Len(constants) : k \in 1..Len(pool) /\ pool[k] = constants[k]
    BY <1>2, <2>1 DEF Begins
  <2>3. Offered(constants) \subseteq Offered(pool)
    BY <2>2 DEF Offered
  <2>4. ASSUME NEW o \in V PROVE Part(o, W, Offered(pool))
    <3>1. Part(o, V, Offered(constants))
      BY <1>4, <2>4 DEF Holding, Values
    <3>2. V \subseteq W
      BY <1>4a
    <3>. QED BY <2>3, <3>1, <3>2 DEF Part
  <2>5. Part(Nil, W, Offered(pool))
    BY PlainParts
  <2>. QED BY <1>5, <1>4a, <2>4, <2>5 DEF Values
<1>7. /\ main.type = CLOSURE_OBJ /\ main.Free = <<>>
      /\ main.Fn = CompiledFunction(C!Scope.instructions, 0, 0)
      /\ f.cl = main /\ f.ip = -1 /\ f.basePointer = 0
      /\ f = [cl |-> f.cl, ip |-> f.ip, basePointer |-> f.basePointer]
  BY DEF NewFrame, Closure
<1>. HIDE DEF f, main
<1>8. /\ Sequence(<<f>>) /\ Len(<<f>>) = 1 /\ <<f>>[1] = f /\ Sequence(<<>>) /\ Len(<<>>) = 0
  BY Tuples
<1>9. Holding(W)'
  <2>1. V \subseteq W /\ Nil \in W /\ \A k \in 1..Len(pool) : pool[k] \in W
    BY <1>4a
  <2>2. DOMAIN stack' = 0..StackSize - 1 /\ \A i \in 0..StackSize - 1 : stack'[i] \in W
    BY <1>1, <2>1 DEF EmptySlots
  <2>3. DOMAIN globals' = 0..GlobalsSize - 1 /\ \A i \in 0..GlobalsSize - 1 : globals'[i] \in W
    BY <1>1, <1>4, <2>1 DEF Holding
  <2>4. Sequence(frames') /\ Len(frames') = 1 /\ \A k \in 1..Len(frames') : frames'[k].cl.type = CLOSURE_OBJ
    BY <1>1, <1>7, <1>8
  <2>5. sp' \in Int /\ heap' \in Nat /\ 1 \in 0..MaxFrames /\ \A k \in 2..Len(frames') : FALSE
    BY <1>1, <1>4, <2>4, VMAssumption DEF Holding
  <2>6. Values(W, Offered(constants'))
    BY <1>1, <1>6
  <2>. QED BY <1>1, <1>5, <2>1, <2>2, <2>3, <2>4, <2>5, <2>6 DEF Holding
<1>10. Running(W)'
  <2>1. C!Finished' = C!Finished /\ C!Scope' = C!Scope
    BY <1>1, SameCode
  <2>2. main.Fn \in C!Finished
    BY <1>1, <1>7 DEF C!Finished, CompiledFunction, C!CompiledFunction, COMPILED_FUNCTION_OBJ,
                     C!COMPILED_FUNCTION_OBJ
  <2>3. 0 \in C!Starts(main.Fn.Instructions) \cup {Len(main.Fn.Instructions)}
    <3>. DEFINE code == main.Fn.Instructions
    <3>1. CP!Linked(main.Fn) /\ main.Fn.type = CP!COMPILED_FUNCTION_OBJ
      BY <1>2, <2>2, SameFinished, CP!FinishedTight, ObjectsAssumption, ByteSizeAssumption
    <3>2. code \in Seq(Bytes) /\ Len(code) \in Nat
      BY <3>1, SameReading DEF CP!Linked
    <3>3. Len(code) > 0 => 0 \in C!Starts(code)
      BY <3>2, CP!StartsClosed, SameReading, ObjectsAssumption, ByteSizeAssumption
    <3>. QED BY <3>2, <3>3
  <2>4. Standing(f, W, C!Finished)
    <3>1. f.ip + 1 = 0 /\ f.ip \in Int /\ f.basePointer \in Nat
      BY <1>7
    <3>2. Sequence(f.cl.Free) /\ Len(f.cl.Free) = 0
      BY <1>7, <1>8
    <3>3. \A k \in 1..Len(f.cl.Free) : f.cl.Free[k] \in W
      BY <3>2
    <3>. QED BY <1>7, <2>2, <2>3, <3>1, <3>2, <3>3 DEF Standing
  <2>5. /\ Len(frames') = 1 /\ frames'[1] = f
    BY <1>1, <1>8
  <2>6. /\ \A k \in 1..Len(frames') : Standing(frames'[k], W, C!Finished')
        /\ \A k \in 2..Len(frames') : frames'[k].cl \in W /\ frames'[k].basePointer >= 1
        /\ frames'[1].basePointer = 0
        /\ frames'[1].cl = Closure(CompiledFunction(C!Scope'.instructions, 0, 0), <<>>, <<"main">>)
    BY <1>7, <2>1, <2>4, <2>5 DEF main
  <2>. QED BY <2>5, <2>6 DEF Running
<1>11. MachineOK'
  BY <1>9, <1>10 DEF MachineOK
<1>12. C!Compiled'
  BY <1>1 DEF compilerVars, C!Compiled
<1>13. pool' = pool /\ CP!Pool(constants') /\ symbolTable' = symbolTable
  BY <1>1, <1>3 DEF compilerVars
<1>14. CP!Table(symbolTable'[1])
  BY <1>2, <1>13
<1>. QED BY <1>1, <1>2, <1>3, <1>11, <1>12, <1>13, <1>14 DEF Session

(* The code of the line that runs.                                         *)
LEMMA RunningCode ==
  ASSUME NEW trees, Session(trees), LineFits, phase = "run"
  PROVE  CodeOK
<1>1. CP!CInv(trees) /\ CodeFits /\ PairsWhole /\ C!SlotsExist /\ pool = constants
  BY DEF Session, LineFits
<1>2. \A fn \in C!Finished :
        Walkable(fn.Instructions) /\ fn.NumLocals \in Nat /\ fn.NumParameters \in Nat
  BY <1>1, FinishedWalkable
<1>. QED BY <1>1, <1>2 DEF CodeOK

(* The machine only steps while it runs.                                   *)
LEMMA StepsWhileRunning == Step => status = "running"
BY DEF Step, ExecuteConstant, ExecuteSingleton, ExecuteGetGlobal, ExecuteGetLocal, ExecuteGetBuiltin,
       ExecuteGetFree, ExecutePop, ExecuteSetGlobal, ExecuteSetLocal, ExecuteJumpNotTruthy,
       ExecuteJump, ExecuteCallClosure, ExecuteCallBuiltin, ExecuteCallOther, ExecuteReturnValue,
       ExecuteReturn, ExecuteBinaryOperation, ExecuteComparison, ExecuteBangOperator,
       ExecuteMinusOperator, BuildArray, BuildHash, ExecuteIndexExpression, PushClosure, Finish,
       Load, Fetch

(* One turn of the loop of Run.                                            *)
LEMMA RunSession ==
  ASSUME NEW trees, Session(trees), LineFits, RunStep
  PROVE  Session(trees)'
<1>1. phase = "run" /\ Step /\ UNCHANGED compilerVars /\ UNCHANGED sessionVars /\ status = "running"
  BY StepsWhileRunning DEF RunStep
<1>2. PICK V : Holding(V) /\ Running(V)
  BY <1>1 DEF Session, MachineOK
<1>3. Works(V)
  BY <1>1, <1>2, RunningCode DEF Works
<1>4. PICK v : Part(v, V, Offered(constants)) /\ Effect(v)
  BY <1>1, <1>3, StepOutcome DEF Outcome
<1>5. Holding(V \cup {v})' /\ (status' = "running" => Running(V \cup {v})')
  BY <1>1, <1>3, <1>4, StepHolding, StepRunning
<1>6. MachineOK'
  BY <1>5 DEF MachineOK
<1>7. status' \in {"running", "done", "error", "panic"} /\ constants' = constants
  BY <1>4 DEF Effect, WithinStep, CallStep, ReturnStep, StopStep
<1>8. CP!CInv(trees)' /\ C!Compiled' /\ pool' = pool /\ symbolTable' = symbolTable
  BY <1>1 DEF Session, CP!CInv, C!Compiled, compilerVars
<1>. QED BY <1>1, <1>6, <1>7, <1>8 DEF Session, sessionVars

(* Every step of a session.                                                *)
LEMMA NextSession ==
  ASSUME NEW trees, CP!Grammar(trees), Programs \subseteq CP!Of(trees, {"Program"}),
         Session(trees), LineFits, [Next]_vars
  PROVE  Session(trees)'
<1>1. ASSUME UNCHANGED <<vmVars, compilerVars, saved>>, lines' \in 0..MaxLines,
             \/ phase' = phase
             \/ phase' \in {"read", "crashed", "closed"} /\ status # "running"
      PROVE  Session(trees)'
  <2>1. PICK V : Holding(V) /\ (status = "running" => Running(V))
    BY DEF Session, MachineOK
  <2>2. Holding(V)'
    BY <1>1, <2>1 DEF Holding, vmVars
  <2>3. status' = status /\ constants' = constants /\ saved' = saved /\ pool' = pool /\ symbolTable' = symbolTable
    BY <1>1 DEF vmVars, compilerVars
  <2>4. status = "running" => Running(V)'
    <3>1. C!Finished' = C!Finished /\ C!Scope' = C!Scope
      BY <1>1, SameCode
    <3>. QED BY <1>1, <2>1, <3>1 DEF Running, vmVars
  <2>5. MachineOK'
    BY <2>2, <2>3, <2>4 DEF MachineOK
  <2>6. (CP!CInv(trees) => CP!CInv(trees)') /\ (C!Compiled => C!Compiled')
    BY <1>1 DEF CP!CInv, C!Compiled, compilerVars
  <2>. QED BY <1>1, <2>3, <2>5, <2>6 DEF Session
<1>2. lines \in 0..MaxLines /\ (lines < MaxLines => lines + 1 \in 0..MaxLines)
  BY ReplAssumption DEF Session
<1>3. ASSUME NEW program \in Programs, ReadLine(program) PROVE Session(trees)'
  BY <1>3, ReadLineSession
<1>4. ASSUME ReadBadLine \/ EndOfInput \/ CompileFails \/ RunFails \/ RunPanics \/ PrintAnswer
      PROVE  Session(trees)'
  <2>1. UNCHANGED <<vmVars, compilerVars, saved>> /\ lines' \in 0..MaxLines
    BY <1>2, <1>4 DEF ReadBadLine, EndOfInput, CompileFails, RunFails, RunPanics, PrintAnswer
  <2>2. \/ phase' = phase
        \/ phase' \in {"read", "crashed", "closed"} /\ status # "running"
    BY <1>4 DEF ReadBadLine, EndOfInput, CompileFails, RunFails, RunPanics, PrintAnswer, Session
  <2>. QED BY <1>1, <2>1, <2>2
<1>5. CASE UNCHANGED vars
  BY <1>1, <1>2, <1>5 DEF vars, sessionVars
<1>6. CASE Next
  BY <1>3, <1>4, <1>6, CompileSession, StartSession, RunSession DEF Next, Work
<1>. QED BY <1>5, <1>6

(* What the invariant says of the types.                                   *)
LEMMA SessionTypes ==
  ASSUME NEW trees, Session(trees)
  PROVE  TypeOK
<1>1. PICK V : Holding(V)
  BY DEF Session, MachineOK
<1>2. DOMAIN frames = 1..Len(frames)
  BY <1>1, SequenceIsFunction DEF Holding
<1>. QED BY <1>1, <1>2 DEF Session, Holding, TypeOK

(* A function that may be captured is a function of the pool, and what its *)
(* code names is there.                                                    *)
LEMMA OfferedServed ==
  ASSUME pool = constants, C!SlotsExist, Sequence(constants), NEW fn, NEW m, <<fn, m>> \in Offered(constants)
  PROVE  Served(fn)
<1>. DEFINE code == fn.Instructions
<1>1. PICK k \in 1..Len(constants) : fn = constants[k] /\ fn.type = COMPILED_FUNCTION_OBJ
  BY DEF Offered
<1>2. DOMAIN constants = 1..Len(constants)
  BY SequenceIsFunction
<1>3. fn \in C!Finished
  BY <1>1, <1>2 DEF C!Finished, C!Functions, COMPILED_FUNCTION_OBJ, C!COMPILED_FUNCTION_OBJ
<1>4. ASSUME NEW p \in C!Uses(fn, {OpConstant, OpClosure})
      PROVE  LET i == ReadUint16(code, p + 1)
             IN  /\ i < Len(constants)
                 /\ constants[i + 1].type = COMPILED_FUNCTION_OBJ <=> code[p + 1] = OpClosure
  <2>. DEFINE i == ReadUint16(code, p + 1)
  <2>1. C!ReadUint16(code, p + 1) = i /\ C!OpConstant = OpConstant /\ C!OpClosure = OpClosure
        /\ C!COMPILED_FUNCTION_OBJ = COMPILED_FUNCTION_OBJ /\ OpConstant # OpClosure
    BY SameReading, SameOpcodes DEF COMPILED_FUNCTION_OBJ, C!COMPILED_FUNCTION_OBJ, OpConstant, OpClosure
  <2>2. code[p + 1] = OpConstant \/ code[p + 1] = OpClosure
    BY DEF C!Uses
  <2>3. CASE code[p + 1] = OpConstant
    <3>1. p \in C!Uses(fn, {C!OpConstant})
      BY <2>1, <2>3 DEF C!Uses
    <3>2. i < Len(constants) /\ constants[i + 1].type # COMPILED_FUNCTION_OBJ
      BY <1>3, <2>1, <3>1 DEF C!SlotsExist
    <3>. QED BY <2>1, <2>3, <3>2
  <2>4. CASE code[p + 1] = OpClosure
    <3>1. p \in C!Uses(fn, {C!OpClosure})
      BY <2>1, <2>4 DEF C!Uses
    <3>2. i < Len(constants) /\ constants[i + 1].type = COMPILED_FUNCTION_OBJ
      BY <1>3, <2>1, <3>1 DEF C!SlotsExist
    <3>. QED BY <2>1, <2>4, <3>2
  <2>. QED BY <2>2, <2>3, <2>4
<1>. QED BY <1>1, <1>2, <1>4 DEF Served

(* What the invariant says of closures.                                    *)
LEMMA SessionServed ==
  ASSUME NEW trees, Session(trees), LineFits
  PROVE  ClosuresServed
<1>1. SUFFICES ASSUME phase = "run"
               PROVE  /\ \A i \in DOMAIN globals : globals[i].type = CLOSURE_OBJ => Served(globals[i].Fn)
                      /\ \A k \in DOMAIN frames : k > 1 => Served(frames[k].cl.Fn)
  BY DEF ClosuresServed
<1>2. PICK V : Holding(V)
  BY DEF Session, MachineOK
<1>3. pool = constants /\ C!SlotsExist /\ Sequence(constants) /\ Sequence(frames) /\ Len(frames) \in Nat
  BY <1>1, <1>2 DEF Session, LineFits, Holding
<1>4. ASSUME NEW o \in V, o.type = CLOSURE_OBJ PROVE Served(o.Fn)
  <2>1. <<o.Fn, Len(o.Free)>> \in Offered(constants)
    BY <1>2, <1>4 DEF Holding, Values, Part
  <2>. QED BY <1>3, <2>1, OfferedServed
<1>5. DOMAIN frames = 1..Len(frames) /\ \A k \in 1..Len(frames) : k > 1 => k \in 2..Len(frames)
  BY <1>3, SequenceIsFunction
<1>. QED BY <1>2, <1>4, <1>5 DEF Holding

-----------------------------------------------------------------------------
(* The stack is as deep as the code implies.  A frame whose region of the  *)
(* stack ends at limit has its locals there, and as many values as its     *)
(* code leaves where it stands; waiting is 1 for the value that a caller   *)
(* will get.                                                               *)
Deep(f, limit, waiting) ==
  LET fn == f.cl.Fn
  IN  /\ f.basePointer + fn.NumLocals <= limit
      /\ (limit - f.basePointer - fn.NumLocals) + waiting \in C!Depths(fn.Instructions)[f.ip + 1]

Nested ==
  /\ \A k \in 1..Len(frames) : Deep(frames[k], Limit(k), IF k = Len(frames) THEN 0 ELSE 1)
  /\ \A j, k \in 1..Len(frames) : j < k => frames[j].basePointer < frames[k].basePointer
  /\ \A k \in 2..Len(frames) : stack[frames[k].basePointer - 1] = frames[k].cl

(* The operands of the instruction are there.                              *)
LEMMA OperandsThere ==
  ASSUME NEW V, Works(V), Nested, C!StackBalanced, ip \in C!Starts(ins)
  PROVE  /\ Walkable(ins) /\ Frame.cl.Fn.NumLocals \in Nat /\ Frame.basePointer \in Nat
         /\ sp - Frame.basePointer - Frame.cl.Fn.NumLocals \in C!Depths(ins)[ip]
         /\ sp - Frame.basePointer - Frame.cl.Fn.NumLocals >= C!Pops(ins, ip)
<1>. DEFINE n == Len(frames)  fn == Frame.cl.Fn
<1>1. n \in Nat \ {0} /\ n \in 1..n
  BY DEF Works, Holding, Running
<1>2. Standing(Frame, V, C!Finished) /\ Frame = frames[n]
  BY <1>1 DEF Works, Running, Frame
<1>3. fn \in C!Finished /\ Walkable(ins) /\ fn.NumLocals \in Nat /\ Frame.basePointer \in Nat /\ ins = fn.Instructions
  BY <1>2 DEF Works, CodeOK, Standing, ins
<1>4. Deep(Frame, sp, 0)
  BY <1>1, <1>2 DEF Nested, Limit
<1>5. sp - Frame.basePointer - fn.NumLocals \in C!Depths(ins)[ip]
  <2>1. (sp - Frame.basePointer - fn.NumLocals) + 0 \in C!Depths(ins)[ip]
    BY <1>3, <1>4 DEF Deep, ip
  <2>2. (sp - Frame.basePointer - fn.NumLocals) + 0 = sp - Frame.basePointer - fn.NumLocals
    BY <1>3 DEF Works, Holding
  <2>. QED BY <2>1, <2>2
<1>6. ip \in 0..Len(ins) - 1
  BY <1>3 DEF Walkable
<1>7. sp - Frame.basePointer - fn.NumLocals >= C!Pops(ins, ip)
  BY <1>3, <1>5, <1>6 DEF C!StackBalanced
<1>. QED BY <1>3, <1>5, <1>7

(* What the frames are, whichever step is next.                            *)
LEMMA FrameFacts ==
  ASSUME NEW V, Works(V)
  PROVE  /\ Len(frames) \in Nat \ {0} /\ Len(frames) \in 1..Len(frames) /\ Frame = frames[Len(frames)]
         /\ DOMAIN stack = 0..StackSize - 1 /\ sp \in Int
         /\ \A k \in 1..Len(frames) : frames[k].basePointer \in Nat
         /\ \A k \in 2..Len(frames) : frames[k].basePointer >= 1
         /\ \A k \in 1..Len(frames) : frames[k].cl.Fn \in C!Finished /\ frames[k].cl.Fn.NumLocals \in Nat
         /\ Frame.basePointer \in Nat
<1>1. Len(frames) \in Nat \ {0} /\ Len(frames) \in 1..Len(frames) /\ Frame = frames[Len(frames)]
  BY DEF Works, Holding, Running, Frame
<1>2. \A k \in 1..Len(frames) : Standing(frames[k], V, C!Finished)
  BY DEF Works, Running
<1>3. \A k \in 1..Len(frames) : frames[k].basePointer \in Nat /\ frames[k].cl.Fn \in C!Finished
  BY <1>2 DEF Standing
<1>4. \A fn \in C!Finished : fn.NumLocals \in Nat
  BY DEF Works, CodeOK
<1>5. DOMAIN stack = 0..StackSize - 1 /\ sp \in Int /\ \A k \in 2..Len(frames) : frames[k].basePointer >= 1
  BY DEF Works, Holding, Running
<1>. QED BY <1>1, <1>3, <1>4, <1>5

(* After a step that stays in its function.                                *)
LEMMA WithinNested ==
  ASSUME NEW V, Works(V), Nested, C!StackBalanced, NEW v, WithinStep(v)
  PROVE  Nested' /\ CallerUntouched
<1>. PICK n : n = Len(frames)
  OBVIOUS
<1>. DEFINE base == Frame.basePointer  NL == Frame.cl.Fn.NumLocals
<1>1. /\ ip \in C!Starts(ins) /\ C!Pops(ins, ip) \in Nat /\ C!Pushes(op) \in {0, 1}
      /\ sp' = sp - C!Pops(ins, ip) + C!Pushes(op)
  BY DEF WithinStep
<1>2. PICK q \in C!Successors(ins, ip) : MovesTo(q)
  BY DEF WithinStep
<1>3. /\ Walkable(ins) /\ NL \in Nat /\ base \in Nat /\ sp \in Int
      /\ sp - base - NL \in C!Depths(ins)[ip] /\ sp - base - NL >= C!Pops(ins, ip)
  BY <1>1, OperandsThere DEF Works, Holding
<1>4. /\ n \in Nat \ {0} /\ n \in 1..n /\ Frame = frames[n] /\ DOMAIN stack = 0..StackSize - 1
      /\ \A k \in 1..n : frames[k].basePointer \in Nat
      /\ \A k \in 2..n : frames[k].basePointer >= 1
  BY FrameFacts
<1>5. /\ Len(frames') = n /\ \A k \in 1..n - 1 : frames'[k] = frames[k]
      /\ frames'[n].cl = Frame.cl /\ frames'[n].ip = q - 1 /\ frames'[n].basePointer = base
  BY <1>2 DEF MovesTo
<1>6. \A k \in 1..n : k \in 1..n - 1 \/ k = n
  BY <1>4
<1>7. \A k \in 1..n : frames'[k].cl = frames[k].cl /\ frames'[k].basePointer = frames[k].basePointer
  BY <1>4, <1>5, <1>6
<1>8. Deep(frames'[n], sp', 0)
  <2>1. (sp - base - NL) - C!Pops(ins, ip) + C!Pushes(ins[ip + 1]) \in C!Depths(ins)[q]
    BY <1>1, <1>2, <1>3, DepthsFlow
  <2>2. (sp - base - NL) - C!Pops(ins, ip) + C!Pushes(op) = (sp' - base - NL) + 0 /\ base + NL <= sp'
    <3>1. PICK s, t, b, l, x, y : /\ s = sp /\ t = sp' /\ b = base /\ l = NL
                                  /\ x = C!Pops(ins, ip) /\ y = C!Pushes(op)
      OBVIOUS
    <3>2. s \in Int /\ b \in Nat /\ l \in Nat /\ x \in Nat /\ y \in {0, 1} /\ t = (s - x) + y /\ s - b - l >= x
      BY <1>1, <1>3, <3>1
    <3>3. (s - b - l) - x + y = (t - b - l) + 0 /\ b + l <= t
      BY ONLY <3>2
    <3>. QED BY ONLY <3>1, <3>3
  <2>3. q \in Int /\ (q - 1) + 1 = q
    <3>1. q \in 0..Len(ins)
      BY <1>1, <1>2, <1>3, SuccessorsAhead
    <3>. QED BY <3>1
  <2>4. (sp' - base - NL) + 0 \in C!Depths(ins)[frames'[n].ip + 1]
    BY <1>5, <2>1, <2>2, <2>3 DEF op
  <2>5. frames'[n].basePointer = base /\ frames'[n].cl.Fn.NumLocals = NL /\ frames'[n].cl.Fn.Instructions = ins
    BY <1>5 DEF ins
  <2>6. ASSUME NEW f, NEW x, f.basePointer = base, f.cl.Fn.NumLocals = NL, f.cl.Fn.Instructions = ins,
               base + NL <= x, (x - base - NL) + 0 \in C!Depths(ins)[f.ip + 1]
        PROVE  Deep(f, x, 0)
    BY ONLY <2>6 DEF Deep
  <2>. QED BY <2>2, <2>4, <2>5, <2>6
<1>9. \A i \in 0..base - 1 : stack'[i] = stack[i]
  <2>1. stack' = stack \/ \E x \in 0..StackSize - 1 : x >= base /\ stack' = [stack EXCEPT ![x] = v]
    <3>1. C!Pushes(op) = 1 => sp' - 1 >= base
      BY <1>1, <1>3
    <3>. QED BY <3>1 DEF WithinStep, Writes
  <2>2. ASSUME NEW x \in 0..StackSize - 1, x >= base, stack' = [stack EXCEPT ![x] = v], NEW i \in 0..base - 1
        PROVE  stack'[i] = stack[i]
    <3>1. i # x /\ i \in 0..StackSize - 1
      BY <1>3, <2>2, VMAssumption
    <3>. QED BY <1>4, <2>2, <3>1
  <2>. QED BY <2>1, <2>2
<1>10. \A k \in 1..n - 1 : Limit(k)' = Limit(k) /\ k # n /\ k \in 1..n
  <2>1. \A k \in 1..n - 1 : k + 1 \in 1..n /\ k # n /\ k \in 1..n
    BY <1>4
  <2>. QED BY <1>5, <1>7, <2>1 DEF Limit
<1>11. \A k \in 1..n : Deep(frames'[k], Limit(k)', IF k = n THEN 0 ELSE 1)
  <2>1. Limit(n)' = sp'
    BY <1>5 DEF Limit
  <2>2. ASSUME NEW k \in 1..n - 1 PROVE Deep(frames'[k], Limit(k)', IF k = n THEN 0 ELSE 1)
    <3>1. k \in 1..n /\ k # n /\ Limit(k)' = Limit(k) /\ frames'[k] = frames[k]
      BY <1>5, <1>10
    <3>2. Deep(frames[k], Limit(k), IF k = n THEN 0 ELSE 1)
      BY <3>1 DEF Nested
    <3>. QED BY ONLY <3>1, <3>2
  <2>3. Deep(frames'[n], Limit(n)', IF n = n THEN 0 ELSE 1)
    BY <1>8, <2>1
  <2>. QED BY ONLY <1>6, <2>2, <2>3
<1>12. \A k \in 2..n : stack'[frames'[k].basePointer - 1] = frames'[k].cl
  <2>1. ASSUME NEW k \in 2..n PROVE frames[k].basePointer - 1 \in 0..base - 1 /\ k \in 1..n
    <3>1. k \in 1..n /\ (k = n \/ k < n)
      BY <1>4
    <3>2. frames[k].basePointer <= base
      BY <1>3, <1>4, <3>1 DEF Nested
    <3>. QED BY <1>3, <1>4, <3>1, <3>2
  <2>. QED BY <1>7, <1>9, <2>1 DEF Nested
<1>13. Nested'
  BY <1>5, <1>7, <1>11, <1>12 DEF Nested
<1>14. CallerUntouched
  <2>1. ~(Len(frames') < n)
    BY <1>4, <1>5
  <2>. QED BY <1>5, <1>9, <2>1 DEF CallerUntouched
<1>. QED BY <1>13, <1>14

(* After a call.                                                           *)
LEMMA CallNested ==
  ASSUME NEW V, Works(V), Nested, C!StackBalanced, CallStep
  PROVE  Nested' /\ CallerUntouched
<1>. PICK n : n = Len(frames)
  OBVIOUS
<1>. DEFINE base == Frame.basePointer  NL == Frame.cl.Fn.NumLocals
            b == sp - numArgs  q == ip + Width(op)
<1>1. /\ ip \in C!Starts(ins) /\ C!Pops(ins, ip) = numArgs + 1 /\ C!Pushes(op) = 1
      /\ q \in C!Successors(ins, ip) /\ numArgs \in Nat /\ b \in Nat \ {0}
      /\ callee.type = CLOSURE_OBJ /\ callee = stack[b - 1] /\ b - 1 \in 0..StackSize - 1
      /\ stack' = stack /\ Len(frames') = n + 1
      /\ \A k \in 1..n - 1 : frames'[k] = frames[k]
      /\ frames'[n] = [cl |-> Frame.cl, ip |-> q - 1, basePointer |-> base]
      /\ frames'[n + 1] = NewFrame(callee, b)
      /\ sp' = b + callee.Fn.NumLocals
  <2>1. ip + Width(op) - 1 = q - 1
    <3>1. Standing(Frame, V, C!Finished)
      BY DEF Works, Holding, Running, Frame
    <3>2. ip \in Int /\ Width(op) \in Int
      BY <3>1, OperandLayouts DEF Standing, ip
    <3>. QED BY <3>2
  <2>2. sp - numArgs - 1 = b - 1
    BY DEF CallStep, Works, Holding
  <2>. QED BY <2>1, <2>2 DEF CallStep
<1>2. /\ Walkable(ins) /\ NL \in Nat /\ base \in Nat /\ sp \in Int
      /\ sp - base - NL \in C!Depths(ins)[ip] /\ sp - base - NL >= C!Pops(ins, ip)
  BY <1>1, OperandsThere DEF Works, Holding
<1>3. /\ n \in Nat \ {0} /\ n \in 1..n /\ Frame = frames[n]
      /\ \A k \in 1..n : frames[k].basePointer \in Nat
      /\ \A k \in 2..n : frames[k].basePointer >= 1
  BY FrameFacts
<1>4. callee.Fn.NumLocals \in Nat /\ Walkable(callee.Fn.Instructions)
  <2>1. callee \in V
    BY <1>1 DEF Works, Holding
  <2>. QED BY <1>1, <2>1, CalleeStanding
<1>5. /\ frames'[n].cl = Frame.cl /\ frames'[n].ip = q - 1 /\ frames'[n].basePointer = base
      /\ frames'[n + 1].cl = callee /\ frames'[n + 1].ip = -1 /\ frames'[n + 1].basePointer = b
  BY <1>1 DEF NewFrame
<1>6. base + NL < b
  BY <1>1, <1>2
<1>. HIDE DEF b, q
<1>7. Deep(frames'[n + 1], sp', 0)
  <2>1. 0 \in C!Depths(callee.Fn.Instructions)[0]
    BY <1>4, DepthsFlow
  <2>2. (sp' - b - callee.Fn.NumLocals) + 0 = 0 /\ b + callee.Fn.NumLocals <= sp' /\ -1 + 1 = 0
    BY <1>1, <1>4
  <2>. QED BY <1>5, <2>1, <2>2 DEF Deep
<1>8. Deep(frames'[n], b - 1, 1)
  <2>1. (sp - base - NL) - C!Pops(ins, ip) + C!Pushes(ins[ip + 1]) \in C!Depths(ins)[q]
    BY <1>1, <1>2, DepthsFlow
  <2>2. (sp - base - NL) - C!Pops(ins, ip) + C!Pushes(op) = (b - 1 - base - NL) + 1 /\ base + NL <= b - 1
    <3>1. C!Pops(ins, ip) = numArgs + 1 /\ C!Pushes(op) = 1 /\ numArgs \in Int /\ b = sp - numArgs
      BY <1>1 DEF b
    <3>2. sp \in Int /\ base \in Int /\ NL \in Int /\ base + NL < b
      BY <1>2, <1>6
    <3>. HIDE DEF base, NL
    <3>. QED BY ONLY <3>1, <3>2
  <2>3. q \in Int /\ (q - 1) + 1 = q
    <3>1. q \in 0..Len(ins)
      BY <1>1, <1>2, SuccessorsAhead
    <3>. QED BY <3>1
  <2>4. (b - 1 - base - NL) + 1 \in C!Depths(ins)[frames'[n].ip + 1]
    BY <1>5, <2>1, <2>2, <2>3 DEF op
  <2>. QED BY <1>5, <2>2, <2>4 DEF Deep, ins
<1>9. \A k \in 1..n + 1 : k = n + 1 \/ k = n \/ (k \in 1..n - 1 /\ k \in 1..n /\ k # n /\ k # n + 1)
  BY <1>3
<1>10. \A k \in 1..n : frames'[k].cl = frames[k].cl /\ frames'[k].basePointer = frames[k].basePointer
  BY <1>1, <1>3, <1>5, <1>9
<1>11. Limit(n + 1)' = sp' /\ Limit(n)' = b - 1 /\ \A k \in 1..n - 1 : Limit(k)' = Limit(k)
  <2>1. n # n + 1 /\ \A k \in 1..n - 1 : k + 1 \in 1..n /\ k # n /\ k # n + 1
    BY <1>3
  <2>2. Len(frames') = n + 1 /\ frames'[n + 1].basePointer = b
    BY <1>1, <1>5
  <2>3. Limit(n + 1)' = sp' /\ Limit(n)' = b - 1
    BY <2>1, <2>2 DEF Limit
  <2>4. ASSUME NEW k \in 1..n - 1 PROVE Limit(k)' = Limit(k)
    <3>1. k # n /\ k # n + 1 /\ frames'[k + 1].basePointer = frames[k + 1].basePointer
      BY <1>10, <2>1
    <3>. QED BY <2>2, <3>1 DEF Limit
  <2>. QED BY <2>3, <2>4
<1>12. \A k \in 1..n + 1 : Deep(frames'[k], Limit(k)', IF k = n + 1 THEN 0 ELSE 1)
  <2>1. n # n + 1
    BY <1>3
  <2>2. ASSUME NEW k \in 1..n - 1, k \in 1..n, k # n, k # n + 1
        PROVE  Deep(frames'[k], Limit(k)', IF k = n + 1 THEN 0 ELSE 1)
    <3>1. Limit(k)' = Limit(k) /\ frames'[k] = frames[k]
      BY <1>1, <1>11
    <3>2. Deep(frames[k], Limit(k), IF k = n THEN 0 ELSE 1)
      BY <2>2 DEF Nested
    <3>. QED BY ONLY <2>2, <3>1, <3>2
  <2>3. Deep(frames'[n], Limit(n)', 1) /\ Deep(frames'[n + 1], Limit(n + 1)', 0)
    BY <1>7, <1>8, <1>11
  <2>. QED BY ONLY <1>9, <2>1, <2>2, <2>3
<1>13. \A j, k \in 1..n + 1 : j < k => frames'[j].basePointer < frames'[k].basePointer
  <2>1. ASSUME NEW j \in 1..n PROVE frames[j].basePointer < b
    <3>1. j = n \/ j < n
      BY <1>3
    <3>2. j < n => frames[j].basePointer < base
      BY <1>3 DEF Nested
    <3>3. frames[j].basePointer <= base /\ frames[j].basePointer \in Int
      BY <1>2, <1>3, <3>1, <3>2
    <3>4. b \in Int /\ base \in Int /\ NL \in Nat
      BY <1>1, <1>2
    <3>. HIDE DEF base, NL
    <3>. QED BY ONLY <1>6, <3>3, <3>4
  <2>2. \A j, k \in 1..n + 1 : j < k => j \in 1..n /\ (k \in 1..n \/ k = n + 1)
    BY <1>3
  <2>. QED BY <1>5, <1>10, <2>1, <2>2 DEF Nested
<1>14. \A k \in 2..n + 1 : stack'[frames'[k].basePointer - 1] = frames'[k].cl
  <2>1. \A k \in 2..n + 1 : k = n + 1 \/ (k \in 2..n /\ k \in 1..n)
    BY <1>3
  <2>. QED BY <1>1, <1>5, <1>10, <2>1 DEF Nested
<1>15. Nested'
  BY <1>1, <1>12, <1>13, <1>14 DEF Nested
<1>16. CallerUntouched
  <2>1. ~(Len(frames') < n)
    BY <1>1, <1>3
  <2>. QED BY <1>1, <2>1 DEF CallerUntouched
<1>. QED BY <1>15, <1>16

(* After a return.                                                         *)
LEMMA ReturnNested ==
  ASSUME NEW V, Works(V), Nested, NEW v, ReturnStep(v)
  PROVE  Nested' /\ CallerUntouched
<1>. PICK n : n = Len(frames)
  OBVIOUS
<1>. DEFINE base == Frame.basePointer  m == n - 1
<1>1. /\ Len(frames') = m /\ n > 1 /\ \A k \in 1..m : frames'[k] = frames[k]
      /\ base - 1 \in 0..StackSize - 1 /\ stack' = [stack EXCEPT ![base - 1] = v] /\ sp' = base
  BY DEF ReturnStep, Writes
<1>2. /\ n \in Nat \ {0} /\ n \in 1..n /\ Frame = frames[n] /\ DOMAIN stack = 0..StackSize - 1
      /\ \A k \in 1..n : frames[k].basePointer \in Nat
      /\ \A k \in 2..n : frames[k].basePointer >= 1
      /\ \A k \in 1..n : frames[k].cl.Fn.NumLocals \in Nat
  BY FrameFacts
<1>3. m \in Nat /\ m \in 1..n /\ m # n /\ m + 1 = n /\ \A k \in 1..m : k \in 1..n /\ k # n /\ k < n
  BY <1>1, <1>2
<1>. HIDE DEF m
<1>4. \A k \in 1..m : frames[k].basePointer < base
  BY <1>2, <1>3 DEF Nested
<1>5. \A i \in 0..base - 2 : stack'[i] = stack[i]
  <2>1. base \in Nat
    BY <1>2
  <2>. QED BY <1>1, <1>2, <2>1
<1>6. Deep(frames'[m], base, 0)
  <2>. DEFINE f == frames[m]  NL == f.cl.Fn.NumLocals
  <2>1. Limit(m) = base - 1
    BY <1>2, <1>3 DEF Limit
  <2>2. Deep(f, base - 1, 1)
    BY <1>3, <2>1 DEF Nested
  <2>3. NL \in Nat /\ f.basePointer \in Nat /\ base \in Nat
    BY <1>2, <1>3
  <2>4. (base - f.basePointer - NL) + 0 = ((base - 1) - f.basePointer - NL) + 1
    BY <2>3
  <2>5. f.basePointer + NL <= base - 1 => f.basePointer + NL <= base
    BY <2>3
  <2>6. m \in 1..m
    BY <1>1, <1>2 DEF m
  <2>7. frames'[m] = f
    BY <1>1, <2>6
  <2>8. Deep(f, base, 0)
    BY <2>2, <2>4, <2>5 DEF Deep
  <2>. QED BY <2>7, <2>8
<1>7. Limit(m)' = base /\ \A k \in 1..m : k # m => Limit(k)' = Limit(k)
  <2>1. \A k \in 1..m : k # m => k + 1 \in 1..m
    BY <1>3
  <2>2. Limit(m)' = base
    BY <1>1 DEF Limit
  <2>3. ASSUME NEW k \in 1..m, k # m PROVE Limit(k)' = Limit(k)
    <3>1. frames'[k + 1] = frames[k + 1] /\ k # n
      BY <1>1, <1>3, <2>1, <2>3
    <3>. QED BY <1>1, <2>3, <3>1 DEF Limit
  <2>. QED BY <2>2, <2>3
<1>8. \A k \in 1..m : Deep(frames'[k], Limit(k)', IF k = m THEN 0 ELSE 1)
  <2>1. ASSUME NEW k \in 1..m, k # m PROVE Deep(frames'[k], Limit(k)', 1)
    <3>1. Limit(k)' = Limit(k) /\ frames'[k] = frames[k] /\ k \in 1..n /\ k # n
      BY <1>1, <1>3, <1>7, <2>1
    <3>2. Deep(frames[k], Limit(k), IF k = n THEN 0 ELSE 1)
      BY <3>1 DEF Nested
    <3>. QED BY ONLY <3>1, <3>2
  <2>. QED BY <1>6, <1>7, <2>1
<1>9. \A k \in 2..m : stack'[frames'[k].basePointer - 1] = frames'[k].cl
  <2>1. ASSUME NEW k \in 2..m PROVE frames[k].basePointer - 1 \in 0..base - 2 /\ k \in 1..m /\ k \in 2..n
    <3>1. k \in 1..m /\ k \in 2..n
      BY <1>2, <1>3
    <3>2. frames[k].basePointer < base /\ frames[k].basePointer >= 1 /\ frames[k].basePointer \in Nat /\ base \in Nat
      BY <1>2, <1>3, <1>4, <3>1
    <3>. QED BY <3>1, <3>2
  <2>. QED BY <1>1, <1>5, <2>1 DEF Nested
<1>10. Nested'
  BY <1>1, <1>3, <1>8, <1>9 DEF Nested
<1>11. CallerUntouched
  <2>1. Len(frames') < n
    BY <1>1, <1>2, <1>3
  <2>2. \A k \in 1..n - 1 : frames'[k] = frames[k]
    BY <1>1 DEF m
  <2>. QED BY <1>5, <2>1, <2>2 DEF CallerUntouched
<1>. QED BY <1>10, <1>11

(* After any step that the machine survives.                               *)
LEMMA StepNested ==
  ASSUME NEW V, Works(V), Nested, C!StackBalanced, NEW v, Effect(v), status' = "running"
  PROVE  Nested' /\ CallerUntouched
<1>1. WithinStep(v) \/ CallStep \/ ReturnStep(v)
  BY DEF Effect, StopStep
<1>. QED BY <1>1, WithinNested, CallNested, ReturnNested

Stacked == status = "running" => Nested

(* What the finished code of a line leaves on the stack.                   *)
Balanced == phase = "run" => C!StackBalanced

(* A machine starts with an empty stack, in a program without locals.      *)
LEMMA StartNested ==
  ASSUME NEW trees, Session(trees), StartMachine, LineFits'
  PROVE  Nested'
<1>. DEFINE fn == CompiledFunction(C!Scope.instructions, 0, 0)
            f  == NewFrame(Closure(fn, <<>>, <<"main">>), 0)
<1>1. /\ phase = "compile" /\ C!Compiled /\ phase' = "run" /\ UNCHANGED compilerVars
      /\ frames' = <<f>> /\ sp' = 0
  BY DEF StartMachine, C!Bytecode, MainFrame
<1>2. C!Finished' = C!Finished
  BY <1>1, SameCode
<1>3. CP!CInv(trees) /\ CodeFits
  <2>1. CodeFits'
    BY <1>1 DEF LineFits
  <2>. QED BY <1>1, <1>2, <2>1 DEF CodeFits, Session
<1>4. fn \in C!Finished
  BY <1>1 DEF C!Finished, C!CompiledFunction, CompiledFunction, C!COMPILED_FUNCTION_OBJ, COMPILED_FUNCTION_OBJ
<1>5. Walkable(fn.Instructions)
  BY <1>3, <1>4, FinishedWalkable
<1>6. 0 \in C!Depths(fn.Instructions)[0]
  BY <1>5, DepthsFlow
<1>7. Len(frames') = 1 /\ frames'[1] = f
  BY <1>1
<1>8. f.basePointer = 0 /\ f.ip = -1 /\ f.cl.Fn = fn /\ fn.NumLocals = 0
  BY DEF NewFrame, Closure, CompiledFunction
<1>. HIDE DEF f, fn
<1>9. Deep(f, 0, 0)
  <2>1. 0 + 0 <= 0 /\ (0 - 0 - 0) + 0 = 0 /\ -1 + 1 = 0
    OBVIOUS
  <2>. QED BY <1>6, <1>8, <2>1 DEF Deep
<1>10. \A k \in 1..Len(frames') : Deep(frames'[k], Limit(k)', IF k = Len(frames') THEN 0 ELSE 1)
  <2>1. Limit(1)' = 0
    BY <1>1, <1>7 DEF Limit
  <2>2. \A k \in 1..Len(frames') : k = 1 /\ k = Len(frames')
    BY <1>7
  <2>. QED BY <1>7, <1>9, <2>1, <2>2
<1>11. \A j, k \in 1..Len(frames') : ~(j < k)
  BY <1>7
<1>12. \A k \in 2..Len(frames') : FALSE
  BY <1>7
<1>. QED BY <1>10, <1>11, <1>12 DEF Nested

(* Every step of a session leaves the frames one above the other, and a    *)
(* caller's region alone.                                                  *)
LEMMA NextStacked ==
  ASSUME NEW trees, Session(trees), LineFits, LineFits', Balanced, Stacked, [Next]_vars
  PROVE  Stacked' /\ CallerUntouched
<1>1. ASSUME UNCHANGED vmVars PROVE Stacked' /\ CallerUntouched
  BY <1>1 DEF vmVars, Stacked, Nested, Limit, Deep, CallerUntouched
<1>2. ASSUME status # "running", status' # "running" \/ Nested'
      PROVE  Stacked' /\ CallerUntouched
  BY <1>2 DEF Stacked, CallerUntouched
<1>3. phase # "run" => status # "running"
  BY DEF Session
<1>4. CASE StartMachine
  <2>1. status # "running" /\ Nested'
    BY <1>3, <1>4, StartNested DEF StartMachine
  <2>. QED BY <1>2, <2>1
<1>5. CASE RunStep
  <2>1. phase = "run" /\ Step /\ status = "running"
    BY <1>5, StepsWhileRunning DEF RunStep
  <2>2. PICK V : Holding(V) /\ Running(V)
    BY <2>1 DEF Session, MachineOK
  <2>3. Works(V)
    BY <2>1, <2>2, RunningCode DEF Works
  <2>4. PICK v : Effect(v)
    BY <2>1, <2>3, StepOutcome DEF Outcome
  <2>5. Nested /\ C!StackBalanced
    BY <2>1 DEF Stacked, Balanced
  <2>6. CASE status' = "running"
    <3>1. Nested' /\ CallerUntouched
      BY <2>3, <2>4, <2>5, <2>6, StepNested
    <3>. QED BY <3>1 DEF Stacked
  <2>7. CASE status' # "running"
    BY <2>7 DEF Stacked, CallerUntouched
  <2>. QED BY <2>6, <2>7
<1>6. UNCHANGED vmVars \/ StartMachine \/ RunStep
  BY DEF Next, Work, ReadLine, ReadBadLine, EndOfInput, CompileStep, CompileFails, RunFails, RunPanics,
         PrintAnswer, vars
<1>. QED BY <1>1, <1>4, <1>5, <1>6

(* What nesting says of the properties the runs check.                     *)
LEMMA StackedFrames ==
  ASSUME NEW trees, Session(trees), LineFits, Stacked
  PROVE  FramesNested /\ DepthAsCompiled
<1>. SUFFICES ASSUME status = "running"
              PROVE  FramesNested /\ DepthAsCompiled
  BY DEF FramesNested, DepthAsCompiled
<1>1. PICK V : Holding(V) /\ Running(V)
  BY DEF Session, MachineOK
<1>2. phase = "run"
  BY DEF Session
<1>3. Works(V)
  BY <1>1, <1>2, RunningCode DEF Works
<1>4. DOMAIN frames = 1..Len(frames) /\ \A k \in 1..Len(frames) : k > 1 => k \in 2..Len(frames)
  BY <1>1, SequenceIsFunction DEF Holding
<1>5. Nested
  BY DEF Stacked
<1>6. FramesNested
  <2>1. ASSUME NEW k \in 1..Len(frames) PROVE frames[k].basePointer + frames[k].cl.Fn.NumLocals <= Limit(k)
    BY <1>5 DEF Nested, Deep
  <2>2. ASSUME NEW k \in 1..Len(frames), k > 1 PROVE stack[frames[k].basePointer - 1] = frames[k].cl
    BY <1>4, <1>5, <2>2 DEF Nested
  <2>. QED BY <1>4, <2>1, <2>2 DEF FramesNested
<1>7. ASSUME NEW k \in 1..Len(frames)
      PROVE  LET fn     == frames[k].cl.Fn
                 values == Limit(k) - frames[k].basePointer - fn.NumLocals
             IN  (IF k = Len(frames) THEN values ELSE values + 1) \in C!Depths(fn.Instructions)[frames[k].ip + 1]
  <2>. DEFINE fn == frames[k].cl.Fn  values == Limit(k) - frames[k].basePointer - fn.NumLocals
  <2>1. Deep(frames[k], Limit(k), IF k = Len(frames) THEN 0 ELSE 1)
    BY <1>5 DEF Nested
  <2>2. values + (IF k = Len(frames) THEN 0 ELSE 1) \in C!Depths(fn.Instructions)[frames[k].ip + 1]
    BY <2>1 DEF Deep
  <2>3. values \in Int
    <3>1. Limit(k) \in Int
      <4>1. k = Len(frames) \/ k + 1 \in 1..Len(frames)
        BY <1>3, FrameFacts
      <4>. QED BY <1>3, <4>1, FrameFacts DEF Limit
    <3>. QED BY <1>3, <3>1, FrameFacts
  <2>. HIDE DEF values
  <2>4. values + (IF k = Len(frames) THEN 0 ELSE 1) = IF k = Len(frames) THEN values ELSE values + 1
    BY <2>3
  <2>. QED BY <2>2, <2>4 DEF values
<1>8. DepthAsCompiled
  BY <1>4, <1>7 DEF DepthAsCompiled
<1>. QED BY <1>6, <1>8

-----------------------------------------------------------------------------
(* The slots of a session.  Between two lines the session's table has room *)
(* for its names and the saved functions find what they name; while a line *)
(* compiles and runs, so does its code.                                    *)
Roomy ==
  /\ CP!Rooms(<<symbolTable[1]>>) /\ CP!Furnished(constants, symbolTable[1].numDefinitions)
  /\ phase \in {"compile", "run"} => CP!RoomInv

(* The sizes of a line: two bytes hold the indexes of its constants and    *)
(* the positions of its code, one byte the number of captured values.      *)
SmallLines ==
  /\ phase \in {"compile", "run"} => CP!SizesFit
  /\ phase = "run" => CodeFits

(* A session starts with the built-ins.                                    *)
LEMMA InitRoomy ==
  ASSUME Init
  PROVE  Roomy
<1>1. PICK g : g = C!Symbols!DefineBuiltins /\ symbolTable = <<g>>
  BY DEF Init
<1>2. phase = "read" /\ constants = <<>> /\ symbolTable[1] = g
  BY <1>1 DEF Init
<1>3. g = CP!Symbols!DefineBuiltins
  BY <1>1 DEF C!Symbols!DefineBuiltins, CP!Symbols!DefineBuiltins, C!Symbols!Symbol, CP!Symbols!Symbol,
         C!Symbols!BuiltinScope, CP!Symbols!BuiltinScope, C!Builtins, CP!Builtins
<1>4. CP!Rooms(<<g>>)
  BY <1>3, CP!BuiltinsRooms, ObjectsAssumption, ByteSizeAssumption
<1>5. CP!Furnished(constants, symbolTable[1].numDefinitions)
  BY <1>2 DEF CP!Furnished
<1>. QED BY <1>2, <1>4, <1>5 DEF Roomy

(* NewWithState: the line starts from the session's table and pool.        *)
LEMMA ReadLineRoomy ==
  ASSUME NEW trees, NEW program, Session(trees), Roomy, ReadLine(program)
  PROVE  Roomy'
<1>1. PICK g : g = symbolTable[1]
  OBVIOUS
<1>2. /\ phase' = "compile" /\ pool' = saved /\ symbolTable' = <<g>> /\ scopes' = <<C!NewScope>>
      /\ todo' = <<C!Visit(program)>> /\ constants' = constants
  BY <1>1 DEF ReadLine, vmVars
<1>3. saved = constants /\ CP!Rooms(<<g>>) /\ CP!Furnished(constants, g.numDefinitions)
  BY <1>1 DEF Session, Roomy
<1>4. /\ CP!Coded(<<CP!NewScope>>, <<g>>, constants) /\ CP!Furnished(constants, <<g>>[1].numDefinitions)
      /\ CP!Pending(<<CP!Visit(program)>>, Len(<<CP!NewScope>>), <<g>>)
  BY <1>3, CP!FreshRooms, ObjectsAssumption, ByteSizeAssumption
<1>5. CP!NewScope = C!NewScope /\ CP!Visit(program) = C!Visit(program)
  BY DEF CP!NewScope, C!NewScope, CP!Visit, C!Visit, CP!CompilationScope, C!CompilationScope,
         CP!EmittedInstruction, C!EmittedInstruction
<1>6. /\ CP!Rooms(symbolTable') /\ CP!Coded(scopes', symbolTable', pool')
      /\ CP!Furnished(pool', symbolTable'[1].numDefinitions) /\ CP!Pending(todo', Len(scopes'), symbolTable')
  BY ONLY <1>2, <1>3, <1>4, <1>5
<1>7. CP!RoomInv'
  BY <1>6 DEF CP!RoomInv
<1>8. symbolTable'[1] = g
  BY <1>2
<1>. QED BY <1>2, <1>3, <1>7, <1>8 DEF Roomy

(* One step of Compile.  What the line defines stays, also if it fails.    *)
LEMMA CompileRoomy ==
  ASSUME NEW trees, CP!Grammar(trees), Session(trees), Roomy, SmallLines, SmallLines', CompileStep
  PROVE  Roomy'
<1>1. phase = "compile" /\ phase' = phase /\ constants' = constants /\ C!Next
  BY DEF CompileStep, vmVars, sessionVars
<1>2. /\ CP!CInv(trees) /\ CP!RoomInv /\ CP!SizesFit /\ CP!SizesFit' /\ CP!Pool(constants)
      /\ CP!Furnished(constants, symbolTable[1].numDefinitions)
  BY <1>1 DEF Session, Roomy, SmallLines
<1>3. CP!Next
  BY <1>1, SameNext
<1>4. CP!CInv(trees)' /\ CP!RoomInv'
  BY <1>2, <1>3, CP!NextCInv, CP!NextRooms, ObjectsAssumption, ByteSizeAssumption
<1>5. PICK c2, g, g2 :
        c2 = symbolTable' /\ g = symbolTable[1].numDefinitions /\ g2 = c2[1].numDefinitions
  OBVIOUS
<1>6. g <= g2
  BY <1>2, <1>3, <1>5, CP!GlobalsGrow, ObjectsAssumption, ByteSizeAssumption
<1>7. CP!Chain(symbolTable) /\ CP!Chain(c2) /\ CP!Rooms(c2)
  BY <1>2, <1>4, <1>5 DEF CP!CInv, CP!RoomInv
<1>8. g \in Nat /\ g2 \in Nat
  <2>1. \A c : CP!Chain(c) => c[1].numDefinitions \in Nat
    BY DEF CP!Chain, CP!Table
  <2>. QED BY <1>5, <1>7, <2>1
<1>9. CP!Rooms(<<c2[1]>>)
  BY <1>7, CP!FirstRooms, ObjectsAssumption, ByteSizeAssumption
<1>10. CP!Extends(constants, constants)
  <2>1. Len(constants) \in Nat
    BY <1>2, PoolParts, SequenceIsFunction
  <2>. QED BY <2>1 DEF CP!Extends
<1>11. CP!Furnished(constants, g2)
  <2>1. CP!Furnished(constants, g)
    BY <1>2, <1>5
  <2>2. \A k \in 1..Len(constants) : CP!Furnishes(constants[k], g2, constants)
    BY <1>2, <1>6, <1>8, <1>10, <2>1, CP!FurnishedMore, ObjectsAssumption, ByteSizeAssumption
  <2>. QED BY <2>2 DEF CP!Furnished
<1>. QED BY <1>1, <1>4, <1>5, <1>9, <1>11 DEF Roomy

(* Every step of a session.                                                *)
LEMMA NextRoomy ==
  ASSUME NEW trees, CP!Grammar(trees), Session(trees), LineFits, Roomy, SmallLines, SmallLines', [Next]_vars
  PROVE  Roomy'
<1>1. ASSUME UNCHANGED compilerVars, constants' = constants,
             phase' = phase \/ phase' \in {"read", "crashed", "closed"}
      PROVE  Roomy'
  <2>1. CP!RoomInv => CP!RoomInv'
    BY <1>1 DEF CP!RoomInv, compilerVars
  <2>2. symbolTable' = symbolTable
    BY <1>1 DEF compilerVars
  <2>. QED BY <1>1, <2>1, <2>2 DEF Roomy
<1>2. CASE StartMachine
  <2>1. phase = "compile" /\ constants' = pool /\ phase' = "run" /\ UNCHANGED compilerVars
    BY <1>2 DEF StartMachine, C!Bytecode
  <2>2. CP!RoomInv /\ CP!Rooms(<<symbolTable[1]>>) /\ symbolTable' = symbolTable
    BY <2>1 DEF Roomy, compilerVars
  <2>3. CP!RoomInv'
    BY <2>1, <2>2 DEF CP!RoomInv, compilerVars
  <2>4. CP!Furnished(pool, symbolTable[1].numDefinitions)
    BY <2>2 DEF CP!RoomInv
  <2>. QED BY <2>1, <2>2, <2>3, <2>4 DEF Roomy
<1>3. CASE RunStep
  <2>1. phase = "run" /\ Step /\ status = "running" /\ UNCHANGED compilerVars /\ phase' = phase
    BY <1>3, StepsWhileRunning DEF RunStep, sessionVars
  <2>2. PICK V : Holding(V) /\ Running(V)
    BY <2>1 DEF Session, MachineOK
  <2>3. Works(V)
    BY <2>1, <2>2, RunningCode DEF Works
  <2>4. PICK v : Effect(v)
    BY <2>1, <2>3, StepOutcome DEF Outcome
  <2>5. constants' = constants
    BY <2>4 DEF Effect
  <2>. QED BY <1>1, <2>1, <2>5
<1>4. ASSUME NEW program \in Programs, ReadLine(program) PROVE Roomy'
  BY <1>4, ReadLineRoomy
<1>5. CASE CompileStep
  BY <1>5, CompileRoomy
<1>6. CASE UNCHANGED vars \/ ReadBadLine \/ EndOfInput \/ CompileFails \/ RunFails \/ RunPanics \/ PrintAnswer
  <2>1. /\ UNCHANGED <<vmVars, compilerVars>>
        /\ phase' = phase \/ phase' \in {"read", "crashed", "closed"}
    BY <1>6 DEF vars, sessionVars, ReadBadLine, EndOfInput, CompileFails, RunFails, RunPanics, PrintAnswer
  <2>2. constants' = constants /\ UNCHANGED compilerVars
    BY <2>1 DEF vmVars
  <2>. QED BY <1>1, <2>1, <2>2
<1>. QED BY <1>2, <1>3, <1>4, <1>5, <1>6 DEF Next, Work

(* The compiler's proofs speak of the same slots.                          *)
LEMMA SameSlots ==
  /\ CP!SlotsExist => C!SlotsExist
  /\ CP!PairsWhole => PairsWhole
<1>1. CP!Finished = C!Finished
  BY SameFinished
<1>2. \A fn, ops : CP!Uses(fn, ops) = C!Uses(fn, ops)
  BY SameReading DEF CP!Uses, C!Uses
<1>3. CP!OpHash = OpHash
  BY DEF CP!OpHash, OpHash
<1>4. \A code, p : CP!ReadUint16(code, p) = ReadUint16(code, p)
  BY SameReading
<1>5. ASSUME CP!SlotsExist PROVE C!SlotsExist
  BY ONLY <1>5 DEF CP!SlotsExist, C!SlotsExist, CP!Uses, C!Uses, CP!Finished, C!Finished,
         CP!Functions, C!Functions, CP!Compiled, C!Compiled, CP!Scope, C!Scope,
         CP!CompiledFunction, C!CompiledFunction, CP!COMPILED_FUNCTION_OBJ,
         C!COMPILED_FUNCTION_OBJ, CP!Starts, C!Starts, CP!Width, C!Width,
         CP!OperandWidths, C!OperandWidths, CP!ReadUint8, C!ReadUint8, CP!ReadUint16,
         C!ReadUint16, CP!OpConstant, C!OpConstant, CP!OpJumpNotTruthy, C!OpJumpNotTruthy,
         CP!OpJump, C!OpJump, CP!OpSetGlobal, C!OpSetGlobal, CP!OpGetGlobal,
         C!OpGetGlobal, CP!OpArray, C!OpArray, CP!OpHash, C!OpHash, CP!OpCall, C!OpCall,
         CP!OpSetLocal, C!OpSetLocal, CP!OpGetLocal, C!OpGetLocal, CP!OpGetBuiltin,
         C!OpGetBuiltin, CP!OpGetFree, C!OpGetFree, CP!OpClosure, C!OpClosure,
         CP!Builtins, C!Builtins
<1>6. ASSUME CP!PairsWhole PROVE PairsWhole
  BY ONLY <1>1, <1>2, <1>3, <1>4, <1>6 DEF CP!PairsWhole, PairsWhole
<1>. QED BY <1>5, <1>6

(* Small lines fit.                                                        *)
LEMMA SmallLinesFit ==
  ASSUME ByteSize % 2 = 0, NEW trees, Session(trees), Roomy, SmallLines
  PROVE  LineFits
<1>. SUFFICES ASSUME phase = "run" PROVE CodeFits /\ PairsWhole /\ C!SlotsExist
  BY DEF LineFits
<1>1. CP!CInv(trees) /\ CP!RoomInv /\ CodeFits
  BY DEF Session, Roomy, SmallLines
<1>2. CP!SlotsExist /\ CP!PairsWhole
  BY <1>1, CP!RoomsSlots, CP!RoomsPairs, ObjectsAssumption, ByteSizeAssumption
<1>. QED BY <1>1, <1>2, SameSlots

-----------------------------------------------------------------------------
(* The levels of a session.  The saved functions follow their levels, and  *)
(* so does the code of a line while it compiles and runs.                  *)
Poised ==
  /\ CP!LevelPool(constants)
  /\ phase \in {"compile", "run"} => CP!LevelInv

(* A session starts with an empty pool.                                    *)
LEMMA InitPoised ==
  ASSUME Init
  PROVE  Poised
<1>1. phase = "read" /\ constants = <<>>
  BY DEF Init
<1>2. CP!LevelPool(<<>>)
  BY DEF CP!LevelPool
<1>. QED BY <1>1, <1>2 DEF Poised

(* NewWithState: the line starts at depth 0, with the session's pool.      *)
LEMMA ReadLinePoised ==
  ASSUME NEW trees, Programs \subseteq CP!Of(trees, {"Program"}), NEW program \in Programs,
         Session(trees), Poised, ReadLine(program)
  PROVE  Poised'
<1>1. /\ phase' = "compile" /\ pool' = saved /\ scopes' = <<C!NewScope>>
      /\ todo' = <<C!Visit(program)>> /\ constants' = constants
  BY DEF ReadLine, vmVars
<1>2. saved = constants /\ CP!LevelPool(constants)
  BY DEF Session, Poised
<1>3. program.kind \in CP!BlockKinds
  BY DEF CP!Of, CP!BlockKinds
<1>4. \E d, e, H : CP!Flow(<<CP!Visit(program)>>, <<CP!NewScope>>, d, e, H)
  BY <1>3, CP!FreshLevels, ObjectsAssumption, ByteSizeAssumption
<1>5. CP!NewScope = C!NewScope /\ CP!Visit(program) = C!Visit(program)
  BY DEF CP!NewScope, C!NewScope, CP!Visit, C!Visit, CP!CompilationScope, C!CompilationScope,
         CP!EmittedInstruction, C!EmittedInstruction
<1>6. CP!LevelPool(pool') /\ \E d, e, H : CP!Flow(todo', scopes', d, e, H)
  BY ONLY <1>1, <1>2, <1>4, <1>5
<1>7. CP!LevelInv'
  BY <1>6 DEF CP!LevelInv
<1>. QED BY <1>1, <1>2, <1>7 DEF Poised

(* Every step of a session.                                                *)
LEMMA NextPoised ==
  ASSUME NEW trees, CP!Grammar(trees), CP!Valued(trees), Programs \subseteq CP!Of(trees, {"Program"}),
         Session(trees), LineFits, Poised, SmallLines, [Next]_vars
  PROVE  Poised'
<1>1. ASSUME UNCHANGED compilerVars, constants' = constants,
             phase' = phase \/ phase' \in {"read", "crashed", "closed"}
      PROVE  Poised'
  <2>1. CP!LevelInv => CP!LevelInv'
    BY <1>1 DEF CP!LevelInv, compilerVars
  <2>. QED BY <1>1, <2>1 DEF Poised
<1>2. CASE StartMachine
  <2>1. phase = "compile" /\ constants' = pool /\ phase' = "run" /\ UNCHANGED compilerVars
    BY <1>2 DEF StartMachine, C!Bytecode
  <2>2. CP!LevelInv
    BY <2>1 DEF Poised
  <2>3. CP!LevelInv' /\ CP!LevelPool(pool)
    BY <2>1, <2>2 DEF CP!LevelInv, compilerVars
  <2>. QED BY <2>1, <2>3 DEF Poised
<1>3. CASE RunStep
  <2>1. phase = "run" /\ Step /\ status = "running" /\ UNCHANGED compilerVars /\ phase' = phase
    BY <1>3, StepsWhileRunning DEF RunStep, sessionVars
  <2>2. PICK V : Holding(V) /\ Running(V)
    BY <2>1 DEF Session, MachineOK
  <2>3. Works(V)
    BY <2>1, <2>2, RunningCode DEF Works
  <2>4. PICK v : Effect(v)
    BY <2>1, <2>3, StepOutcome DEF Outcome
  <2>5. constants' = constants
    BY <2>4 DEF Effect
  <2>. QED BY <1>1, <2>1, <2>5
<1>4. ASSUME NEW program \in Programs, ReadLine(program) PROVE Poised'
  BY <1>4, ReadLinePoised
<1>5. CASE CompileStep
  <2>1. phase = "compile" /\ phase' = phase /\ constants' = constants /\ C!Next
    BY <1>5 DEF CompileStep, vmVars, sessionVars
  <2>2. CP!CInv(trees) /\ CP!LevelInv /\ CP!SizesFit /\ CP!LevelPool(constants)
    BY <2>1 DEF Session, Poised, SmallLines
  <2>3. CP!Next
    BY <2>1, SameNext
  <2>4. CP!LevelInv'
    BY <2>2, <2>3, CP!NextLevels, ObjectsAssumption, ByteSizeAssumption
  <2>. QED BY <2>1, <2>2, <2>4 DEF Poised
<1>6. CASE UNCHANGED vars \/ ReadBadLine \/ EndOfInput \/ CompileFails \/ RunFails \/ RunPanics \/ PrintAnswer
  <2>1. /\ UNCHANGED <<vmVars, compilerVars>>
        /\ phase' = phase \/ phase' \in {"read", "crashed", "closed"}
    BY <1>6 DEF vars, sessionVars, ReadBadLine, EndOfInput, CompileFails, RunFails, RunPanics, PrintAnswer
  <2>2. constants' = constants /\ UNCHANGED compilerVars
    BY <2>1 DEF vmVars
  <2>. QED BY <1>1, <2>1, <2>2
<1>. QED BY <1>2, <1>3, <1>4, <1>5, <1>6 DEF Next, Work

(* The compiler's proofs speak of the same depths.                         *)
LEMMA SameBalanced == CP!StackBalanced => C!StackBalanced
<1>1. ASSUME NEW code, NEW p PROVE CP!Pops(code, p) = C!Pops(code, p)
  BY ONLY DEF CP!Pops, C!Pops, CP!ReadUint8, C!ReadUint8, CP!ReadUint16, C!ReadUint16,
         CP!OpConstant, C!OpConstant, CP!OpAdd, C!OpAdd, CP!OpSub, C!OpSub, CP!OpMul, C!OpMul,
         CP!OpDiv, C!OpDiv, CP!OpPop, C!OpPop, CP!OpTrue, C!OpTrue, CP!OpFalse, C!OpFalse,
         CP!OpEqual, C!OpEqual, CP!OpNotEqual, C!OpNotEqual, CP!OpGreaterThan, C!OpGreaterThan,
         CP!OpMinus, C!OpMinus, CP!OpBang, C!OpBang, CP!OpJumpNotTruthy, C!OpJumpNotTruthy,
         CP!OpJump, C!OpJump, CP!OpNull, C!OpNull, CP!OpSetGlobal, C!OpSetGlobal, CP!OpGetGlobal,
         C!OpGetGlobal, CP!OpArray, C!OpArray, CP!OpHash, C!OpHash, CP!OpIndex, C!OpIndex,
         CP!OpCall, C!OpCall, CP!OpReturnValue, C!OpReturnValue, CP!OpReturn, C!OpReturn,
         CP!OpSetLocal, C!OpSetLocal, CP!OpGetLocal, C!OpGetLocal, CP!OpGetBuiltin,
         C!OpGetBuiltin, CP!OpClosure, C!OpClosure, CP!OpGetFree, C!OpGetFree
<1>2. ASSUME NEW code PROVE CP!Depths(code) = C!Depths(code)
  BY ONLY DEF CP!Depths, C!Depths, CP!Pops, C!Pops, CP!Pushes, C!Pushes, CP!Successors,
         C!Successors, CP!ReadUint8, C!ReadUint8, CP!ReadUint16, C!ReadUint16, CP!Width, C!Width,
         CP!OperandWidths, C!OperandWidths, CP!OpConstant, C!OpConstant, CP!OpAdd, C!OpAdd,
         CP!OpSub, C!OpSub, CP!OpMul, C!OpMul, CP!OpDiv, C!OpDiv, CP!OpPop, C!OpPop, CP!OpTrue,
         C!OpTrue, CP!OpFalse, C!OpFalse, CP!OpEqual, C!OpEqual, CP!OpNotEqual, C!OpNotEqual,
         CP!OpGreaterThan, C!OpGreaterThan, CP!OpMinus, C!OpMinus, CP!OpBang, C!OpBang,
         CP!OpJumpNotTruthy, C!OpJumpNotTruthy, CP!OpJump, C!OpJump, CP!OpNull, C!OpNull,
         CP!OpSetGlobal, C!OpSetGlobal, CP!OpGetGlobal, C!OpGetGlobal, CP!OpArray, C!OpArray,
         CP!OpHash, C!OpHash, CP!OpIndex, C!OpIndex, CP!OpCall, C!OpCall, CP!OpReturnValue,
         C!OpReturnValue, CP!OpReturn, C!OpReturn, CP!OpSetLocal, C!OpSetLocal, CP!OpGetLocal,
         C!OpGetLocal, CP!OpGetBuiltin, C!OpGetBuiltin, CP!OpClosure, C!OpClosure, CP!OpGetFree,
         C!OpGetFree
<1>3. CP!Finished = C!Finished /\ CP!Functions = C!Functions
  BY SameFinished
<1>. SUFFICES ASSUME CP!StackBalanced, NEW fn \in C!Finished
              PROVE  LET code == fn.Instructions  depths == C!Depths(code)
                     IN  /\ \A p \in 0..Len(code) : C!Cardinality(depths[p]) <= 1
                         /\ \A p \in 0..Len(code) - 1 : \A d \in depths[p] : d >= C!Pops(code, p)
                         /\ depths[Len(code)] \subseteq (IF fn \in C!Functions THEN {} ELSE {0})
  BY DEF C!StackBalanced
<1>4. PICK code, depths : code = fn.Instructions /\ depths = CP!Depths(code)
  OBVIOUS
<1>5. /\ \A p \in 0..Len(code) : CP!Cardinality(depths[p]) <= 1
      /\ \A p \in 0..Len(code) - 1 : \A d \in depths[p] : d >= CP!Pops(code, p)
      /\ depths[Len(code)] \subseteq (IF fn \in CP!Functions THEN {} ELSE {0})
  BY <1>3, <1>4 DEF CP!StackBalanced
<1>6. depths = C!Depths(code) /\ \A p \in 0..Len(code) : C!Cardinality(depths[p]) <= 1
  <2>1. ASSUME NEW S PROVE CP!Cardinality(S) = C!Cardinality(S)
    BY ONLY DEF CP!Cardinality, C!Cardinality, CP!IsFiniteSet, C!IsFiniteSet
  <2>. QED BY ONLY <1>2, <1>4, <1>5, <2>1
<1>7. \A p \in 0..Len(code) - 1 : \A d \in depths[p] : d >= C!Pops(code, p)
  BY ONLY <1>1, <1>5
<1>. QED BY ONLY <1>3, <1>4, <1>5, <1>6, <1>7

(* The code of a line that follows its levels is balanced.                 *)
LEMMA PoisedBalanced ==
  ASSUME NEW trees, Session(trees), Poised, SmallLines
  PROVE  Balanced
<1>. SUFFICES ASSUME phase = "run" PROVE C!StackBalanced
  BY DEF Balanced
<1>1. CP!CInv(trees) /\ CP!LevelInv /\ CodeFits
  BY DEF Session, Poised, SmallLines
<1>2. CP!CodeFits
  BY <1>1, SameFinished DEF CodeFits, CP!CodeFits
<1>3. CP!StackBalanced
  BY <1>1, <1>2, CP!LevelsBalanced, ObjectsAssumption, ByteSizeAssumption
<1>. QED BY <1>3, SameBalanced

-----------------------------------------------------------------------------
(* Panics.  A machine that is ready for its next instruction: its values,  *)
(* frames and depths are those of the invariant, its stack has room for    *)
(* what is on it, two bytes only name globals that exist, and the program  *)
(* captures nothing and returns only with a value.                         *)
Ready(V) ==
  /\ Works(V) /\ Nested /\ C!StackBalanced
  /\ sp \in 0..StackSize /\ ByteSize * ByteSize <= GlobalsSize
  /\ \A p \in C!Starts(C!Scope.instructions) :
       C!Scope.instructions[p + 1] \notin {OpGetFree, OpReturn}

(* The operands of an instruction are on the stack, above the locals.      *)
LEMMA OperandsHeld ==
  ASSUME NEW V, Ready(V), NEW ops, Fetch(ops)
  PROVE  /\ op \in ops /\ status = "running"
         /\ sp \in Nat /\ StackSize \in Nat /\ sp <= StackSize
         /\ Frame.basePointer \in Nat /\ Frame.cl.Fn.NumLocals \in Nat
         /\ Frame.basePointer + Frame.cl.Fn.NumLocals <= sp
         /\ \A n \in Nat : n <= C!Pops(ins, ip) =>
              Holds(n) /\ sp - n >= 0 /\ Frame.basePointer + Frame.cl.Fn.NumLocals <= sp - n
<1>1. Works(V) /\ Nested /\ C!StackBalanced /\ sp \in Nat /\ StackSize \in Nat /\ sp <= StackSize
  BY VMAssumption DEF Ready
<1>2. ip \in C!Starts(ins) /\ op \in ops
  BY <1>1, Fetched
<1>3. PICK b, l : b = Frame.basePointer /\ l = Frame.cl.Fn.NumLocals
  OBVIOUS
<1>4. b \in Nat /\ l \in Nat /\ sp - b - l >= C!Pops(ins, ip)
  BY <1>1, <1>2, <1>3, OperandsThere
<1>5. b + l <= sp
  <2>1. Deep(Frame, sp, 0)
    BY <1>1, FrameFacts DEF Nested, Limit
  <2>. QED BY <1>3, <2>1 DEF Deep
<1>6. ASSUME NEW n \in Nat, n <= C!Pops(ins, ip) PROVE Holds(n) /\ sp - n >= 0 /\ b + l <= sp - n
  <2>1. C!Pops(ins, ip) \in Nat
    <3>1. /\ op \in {OpArray, OpHash} => ReadUint16(ins, ip + 1) \in Nat
          /\ op = OpCall => ReadUint8(ins, ip + 1) + 1 \in Nat
          /\ op = OpClosure => ReadUint8(ins, ip + 3) \in Nat
      BY <1>1, Fetched DEF Wide, Narrow
    <3>. QED BY <3>1, SameReading, SameOpcodes DEF C!Pops, op
  <2>2. PICK m : m = C!Pops(ins, ip)
    OBVIOUS
  <2>3. sp \in Nat /\ sp <= StackSize /\ StackSize \in Nat /\ m \in Nat /\ sp - b - l >= m /\ n <= m
    BY <1>1, <1>4, <1>6, <2>1, <2>2
  <2>4. sp - n >= 0 /\ b + l <= sp - n
    BY ONLY <1>4, <2>3, n \in Nat
  <2>. QED BY <2>3, <2>4 DEF Holds
<1>7. status = "running"
  BY DEF Fetch
<1>. QED BY <1>1, <1>2, <1>3, <1>4, <1>5, <1>6, <1>7

(* Bytes are small: what two of them name is a global.                     *)
LEMMA WordSmall ==
  ASSUME NEW V, Ready(V), NEW ops, Fetch(ops), op \in Wide
  PROVE  ReadUint16(ins, ip + 1) \in Nat /\ ReadUint16(ins, ip + 1) < GlobalsSize
<1>1. ins \in Seq(Bytes) /\ Len(ins) \in Nat /\ ip \in Nat /\ ip + Width(op) <= Len(ins)
  <2>1. Walkable(ins) /\ ip \in C!Starts(ins) /\ ip \in Nat
    BY Fetched DEF Ready
  <2>2. ip + Width(op) \in C!Starts(ins) \cup {Len(ins)} /\ C!Starts(ins) \subseteq 0..Len(ins) - 1
    BY <2>1 DEF Walkable, op
  <2>. QED BY <2>1, <2>2 DEF Walkable
<1>2. ip + 2 \in 1..Len(ins) /\ ip + 3 \in 1..Len(ins)
  <2>1. Width(op) = 3
    BY OperandTable
  <2>. QED BY <1>1, <2>1
<1>3. ByteSize \in Nat /\ GlobalsSize \in Nat /\ ByteSize * ByteSize <= GlobalsSize
  BY ByteSizeAssumption, VMAssumption DEF Ready
<1>4. ins[ip + 2] \in 0..ByteSize - 1 /\ ins[ip + 3] \in 0..ByteSize - 1
  BY <1>1, <1>2, ElementOfSeq DEF Bytes
<1>5. ReadUint16(ins, ip + 1) = ins[ip + 2] * ByteSize + ins[ip + 3]
  <2>1. ip + 1 + 1 = ip + 2 /\ ip + 1 + 2 = ip + 3
    BY <1>1
  <2>. QED BY <2>1 DEF ReadUint16
<1>6. ASSUME NEW a \in 0..ByteSize - 1, NEW c \in 0..ByteSize - 1
      PROVE  a * ByteSize + c \in Nat /\ a * ByteSize + c < ByteSize * ByteSize
  <2>1. PICK m \in Nat : m = ByteSize
    BY <1>3
  <2>2. a * m <= (m - 1) * m
    BY ONLY <1>6, <2>1
  <2>3. (m - 1) * m = m * m - m
    BY ONLY <2>1
  <2>4. a * m \in Nat /\ m * m \in Nat
    BY ONLY <1>6, <2>1
  <2>5. c < m
    BY ONLY <1>6, <2>1
  <2>. QED BY ONLY <1>6, <2>1, <2>2, <2>3, <2>4, <2>5
<1>7. ByteSize * ByteSize \in Nat
  BY ONLY <1>3
<1>8. PICK w : w = ins[ip + 2] * ByteSize + ins[ip + 3]
  OBVIOUS
<1>9. w \in Nat /\ w < ByteSize * ByteSize
  BY ONLY <1>4, <1>6, <1>8
<1>. QED BY ONLY <1>3, <1>5, <1>7, <1>8, <1>9

(* What an instruction names is there.                                     *)
LEMMA NamedThere ==
  ASSUME NEW V, Ready(V), NEW ops, Fetch(ops)
  PROVE  /\ op \in {OpConstant, OpClosure} => ReadUint16(ins, ip + 1) < Len(constants)
         /\ op \in {OpGetGlobal, OpSetGlobal} => ReadUint16(ins, ip + 1) < GlobalsSize
         /\ op \in {OpGetLocal, OpSetLocal} => Frame.basePointer + ReadUint8(ins, ip + 1) < StackSize
         /\ op = OpGetBuiltin => ReadUint8(ins, ip + 1) < Len(Builtins)
         /\ op = OpGetFree => ReadUint8(ins, ip + 1) < Len(Frame.cl.Free)
         /\ op = OpReturn => Len(frames) # 1
<1>1. Works(V) /\ C!SlotsExist /\ pool = constants
  BY DEF Ready, Works, CodeOK
<1>2. PICK fn : fn = Frame.cl.Fn /\ fn \in C!Finished /\ ins = fn.Instructions /\ ip \in C!Starts(ins)
  BY <1>1, Fetched DEF ins
<1>3. \A codes : op \in codes => ip \in C!Uses(fn, codes)
  BY <1>2 DEF C!Uses, op
<1>4. ASSUME op \in {OpConstant, OpClosure} PROVE ReadUint16(ins, ip + 1) < Len(constants)
  <2>1. ip \in C!Uses(fn, {C!OpConstant}) \/ ip \in C!Uses(fn, {C!OpClosure})
    BY <1>3, <1>4, SameOpcodes
  <2>2. C!ReadUint16(ins, ip + 1) < Len(pool)
    BY <1>1, <1>2, <2>1 DEF C!SlotsExist
  <2>. QED BY <1>1, <2>2, SameReading
<1>5. ASSUME op \in {OpGetGlobal, OpSetGlobal} PROVE ReadUint16(ins, ip + 1) < GlobalsSize
  <2>1. op \in Wide
    BY <1>5 DEF Wide
  <2>. QED BY <2>1, WordSmall
<1>6. ASSUME op \in {OpGetLocal, OpSetLocal} PROVE Frame.basePointer + ReadUint8(ins, ip + 1) < StackSize
  <2>1. ip \in C!Uses(fn, {C!OpGetLocal, C!OpSetLocal})
    BY <1>3, <1>6, SameOpcodes
  <2>2. C!ReadUint8(ins, ip + 1) < fn.NumLocals
    BY <1>1, <1>2, <2>1 DEF C!SlotsExist
  <2>3. PICK b, l, i : b = Frame.basePointer /\ l = Frame.cl.Fn.NumLocals /\ i = ReadUint8(ins, ip + 1)
    OBVIOUS
  <2>4. i < l
    BY <1>2, <2>2, <2>3, SameReading
  <2>5. i \in Nat
    BY <1>1, <1>6, <2>3, Fetched DEF Narrow
  <2>6. b \in Nat /\ l \in Nat /\ b + l <= sp /\ sp <= StackSize /\ sp \in Nat /\ StackSize \in Nat
    BY <2>3, OperandsHeld
  <2>. QED BY ONLY <2>3, <2>4, <2>5, <2>6
<1>7. ASSUME op = OpGetBuiltin PROVE ReadUint8(ins, ip + 1) < Len(Builtins)
  <2>1. ip \in C!Uses(fn, {C!OpGetBuiltin})
    BY <1>3, <1>7, SameOpcodes
  <2>2. C!ReadUint8(ins, ip + 1) < Len(C!Builtins)
    BY <1>1, <1>2, <2>1 DEF C!SlotsExist
  <2>. QED BY <2>2, SameReading DEF Builtins, C!Builtins
<1>8. /\ frames[1].cl.Fn.Instructions = C!Scope.instructions /\ Frame = frames[Len(frames)]
      /\ Len(frames) \in Nat \ {0}
  BY <1>1, FrameFacts DEF Works, Running, Closure, CompiledFunction
<1>9. op \in {OpGetFree, OpReturn} => Len(frames) # 1
  <2>1. ASSUME Len(frames) = 1 PROVE ins = C!Scope.instructions
    BY <1>8, <2>1 DEF ins
  <2>. QED BY <1>2, <2>1 DEF Ready, op
<1>10. ASSUME op = OpGetFree PROVE ReadUint8(ins, ip + 1) < Len(Frame.cl.Free)
  <2>1. Len(frames) \in 2..Len(frames)
    <3>1. PICK n : n = Len(frames)
      OBVIOUS
    <3>2. n \in Nat \ {0} /\ n # 1
      BY <1>8, <1>9, <1>10, <3>1
    <3>. QED BY ONLY <3>1, <3>2
  <2>2. Frame.cl \in V /\ Frame.cl.type = CLOSURE_OBJ
    BY <1>1, <1>8, <2>1, Fetched DEF Works, Holding, Standing
  <2>3. <<fn, Len(Frame.cl.Free)>> \in Offered(constants)
    BY <1>1, <1>2, <2>2, PartOf DEF Part
  <2>4. \A p \in C!Uses(fn, {OpGetFree}) : ReadUint8(fn.Instructions, p + 1) < Len(Frame.cl.Free)
    BY <2>3 DEF Offered
  <2>. QED BY <1>2, <1>3, <1>10, <2>4
<1>. QED BY <1>4, <1>5, <1>6, <1>7, <1>9, <1>10

(* A push in place of operands that are there fails at worst.              *)
LEMMA PushSurvives ==
  ASSUME NEW V, Ready(V), NEW ops, Fetch(ops), NEW n \in Nat, n <= C!Pops(ins, ip), NEW o, Push(sp - n, o)
  PROVE  status' # "panic"
<1>1. status = "running" /\ sp - n >= 0 /\ sp \in Nat
  BY OperandsHeld
<1>2. PICK at : at = sp - n
  OBVIOUS
<1>3. ~(at < 0)
  BY <1>1, <1>2
<1>4. status' = status \/ status' = "error"
  BY <1>2, <1>3 DEF Push, Fails
<1>. QED BY <1>1, <1>4

(* Instructions that push something they name.                             *)
LEMMA LoadsSurvive ==
  ASSUME NEW V, Ready(V),
         \/ ExecuteConstant \/ ExecuteSingleton \/ ExecuteGetGlobal \/ ExecuteGetLocal
         \/ ExecuteGetBuiltin \/ ExecuteGetFree
  PROVE  status' # "panic"
<1>1. ASSUME NEW ops, NEW o, Load(ops, TRUE, o) PROVE status' # "panic"
  <2>1. Fetch(ops) /\ Push(sp, o)
    BY <1>1 DEF Load
  <2>2. status = "running" /\ sp \in Nat
    BY <2>1, OperandsHeld
  <2>3. status' = status \/ status' = "error"
    BY <2>1, <2>2 DEF Push, Fails
  <2>. QED BY <2>2, <2>3
<1>2. ASSUME NEW ops, Fetch(ops), NEW o \in ops, ops = {o}
      PROVE  /\ o \in {OpConstant, OpClosure} => ReadUint16(ins, ip + 1) < Len(constants)
             /\ o \in {OpGetGlobal, OpSetGlobal} => ReadUint16(ins, ip + 1) < GlobalsSize
             /\ o \in {OpGetLocal, OpSetLocal} => Frame.basePointer + ReadUint8(ins, ip + 1) < StackSize
             /\ o = OpGetBuiltin => ReadUint8(ins, ip + 1) < Len(Builtins)
             /\ o = OpGetFree => ReadUint8(ins, ip + 1) < Len(Frame.cl.Free)
  <2>1. op = o
    BY <1>2 DEF Fetch
  <2>. QED BY <1>2, <2>1, NamedThere
<1>3. CASE ExecuteConstant
  BY <1>1, <1>2, <1>3 DEF ExecuteConstant, Load
<1>4. CASE ExecuteSingleton
  BY <1>1, <1>4 DEF ExecuteSingleton
<1>5. CASE ExecuteGetGlobal
  BY <1>1, <1>2, <1>5 DEF ExecuteGetGlobal, Load
<1>6. CASE ExecuteGetLocal
  BY <1>1, <1>2, <1>6 DEF ExecuteGetLocal, Load
<1>7. CASE ExecuteGetBuiltin
  BY <1>1, <1>2, <1>7 DEF ExecuteGetBuiltin, Load
<1>8. CASE ExecuteGetFree
  BY <1>1, <1>2, <1>8 DEF ExecuteGetFree, Load
<1>. QED BY <1>3, <1>4, <1>5, <1>6, <1>7, <1>8

(* Stores, jumps and the other instructions that find what they need.      *)
LEMMA MovesSurvive ==
  ASSUME NEW V, Ready(V),
         \/ ExecutePop \/ ExecuteSetGlobal \/ ExecuteSetLocal \/ ExecuteJumpNotTruthy \/ ExecuteJump
         \/ ExecuteBangOperator \/ BuildArray \/ PushClosure \/ Finish
  PROVE  status' # "panic"
<1>1. ASSUME NEW ops, Fetch(ops), NEW o, ops = {o}
      PROVE  /\ op = o /\ status = "running"
             /\ o \in {OpPop, OpSetGlobal, OpSetLocal, OpJumpNotTruthy, OpBang} => Holds(1)
  <2>1. op = o /\ status = "running"
    BY <1>1 DEF Fetch
  <2>2. ASSUME o \in {OpPop, OpSetGlobal, OpSetLocal, OpJumpNotTruthy, OpBang} PROVE Holds(1)
    <3>1. C!Pops(ins, ip) = 1
      BY <2>1, <2>2, DepthChange DEF op
    <3>2. 1 \in Nat /\ 1 <= C!Pops(ins, ip)
      BY <3>1
    <3>. QED BY <1>1, <3>2, OperandsHeld
  <2>. QED BY <2>1, <2>2
<1>2. CASE ExecutePop
  BY <1>1, <1>2 DEF ExecutePop
<1>3. CASE ExecuteSetGlobal
  <2>1. Fetch({OpSetGlobal}) /\ Holds(1) /\ op = OpSetGlobal /\ status = "running"
    BY <1>1, <1>3 DEF ExecuteSetGlobal
  <2>2. ReadUint16(ins, ip + 1) < GlobalsSize
    BY <2>1, NamedThere
  <2>. QED BY <1>3, <2>1, <2>2 DEF ExecuteSetGlobal
<1>4. CASE ExecuteSetLocal
  <2>1. Fetch({OpSetLocal}) /\ Holds(1) /\ op = OpSetLocal /\ status = "running"
    BY <1>1, <1>4 DEF ExecuteSetLocal
  <2>2. Frame.basePointer + ReadUint8(ins, ip + 1) < StackSize
    BY <2>1, NamedThere
  <2>. QED BY <1>4, <2>1, <2>2 DEF ExecuteSetLocal
<1>5. CASE ExecuteJumpNotTruthy
  <2>1. Holds(1) /\ status = "running"
    BY <1>1, <1>5 DEF ExecuteJumpNotTruthy
  <2>. QED BY <1>5, <2>1 DEF ExecuteJumpNotTruthy
<1>6. CASE ExecuteJump
  BY <1>6 DEF ExecuteJump, Fetch
<1>7. CASE ExecuteBangOperator
  <2>1. Fetch({OpBang}) /\ op = OpBang /\ Holds(1)
    BY <1>1, <1>7 DEF ExecuteBangOperator
  <2>2. C!Pops(ins, ip) = 1
    BY <2>1, DepthChange DEF op
  <2>3. PICK o : Push(sp - 1, o)
    BY <1>7, <2>1 DEF ExecuteBangOperator
  <2>. QED BY <2>1, <2>2, <2>3, PushSurvives
<1>8. CASE BuildArray
  <2>. DEFINE n == ReadUint16(ins, ip + 1)
  <2>1. Fetch({OpArray}) /\ op = OpArray
    BY <1>8 DEF BuildArray, Fetch
  <2>2. C!Pops(ins, ip) = n /\ n \in Nat /\ n <= C!Pops(ins, ip)
    <3>1. C!Pops(ins, ip) = n
      BY <2>1, DepthChange DEF op
    <3>2. n \in Nat
      BY <2>1, Fetched DEF Ready, Wide
    <3>. QED BY <3>1, <3>2
  <2>3. Holds(n)
    BY <2>1, <2>2, OperandsHeld
  <2>4. PICK o : Push(sp - n, o)
    BY <1>8, <2>3 DEF BuildArray
  <2>. HIDE DEF n
  <2>. QED BY <2>1, <2>2, <2>4, PushSurvives
<1>9. CASE PushClosure
  <2>. DEFINE n == ReadUint8(ins, ip + 3)  i == ReadUint16(ins, ip + 1)
  <2>1. Fetch({OpClosure}) /\ op = OpClosure
    BY <1>9 DEF PushClosure, Fetch
  <2>2. C!Pops(ins, ip) = n /\ n \in Nat /\ n <= C!Pops(ins, ip)
    <3>1. C!Pops(ins, ip) = n
      BY <2>1, DepthChange DEF op
    <3>2. n \in Nat
      BY <2>1, Fetched DEF Ready
    <3>. QED BY <3>1, <3>2
  <2>3. Holds(n)
    BY <2>1, <2>2, OperandsHeld
  <2>4. i < Len(constants) /\ i \in Nat /\ Len(constants) \in Nat
    BY <2>1, Fetched, NamedThere, SequenceIsFunction DEF Ready, Works, Holding
  <2>5. ~(i >= Len(constants))
    BY <2>4
  <2>6. Fails(sp) \/ \E o : Push(sp - n, o)
    BY <1>9, <2>3, <2>5 DEF PushClosure
  <2>. HIDE DEF n, i
  <2>7. CASE Fails(sp)
    BY <2>7 DEF Fails
  <2>8. CASE \E o : Push(sp - n, o)
    BY <2>1, <2>2, <2>8, PushSurvives
  <2>. QED BY <2>6, <2>7, <2>8
<1>10. CASE Finish
  BY <1>10 DEF Finish
<1>. QED BY <1>2, <1>3, <1>4, <1>5, <1>6, <1>7, <1>8, <1>9, <1>10

(* Only the program returns to nowhere (vm.go:200).                        *)
LEMMA ReturnsExplained ==
  ASSUME NEW V, Ready(V), ExecuteReturnValue \/ ExecuteReturn, status' = "panic"
  PROVE  PanicCause
<1>1. ASSUME NEW v, Return(v), status = "running" PROVE Len(frames) = 1
  <2>1. PICK n, b : n = Len(frames) /\ b = Frame.basePointer
    OBVIOUS
  <2>2. n \in Nat \ {0} /\ b \in Nat /\ Frame = frames[n] /\ \A k \in 2..n : frames[k].basePointer >= 1
    BY <2>1, FrameFacts DEF Ready
  <2>3. n # 1 => b >= 1
    <3>1. n # 1 => n \in 2..n
      BY <2>2
    <3>. QED BY <2>1, <2>2, <3>1
  <2>4. Push(b - 1, v)
    BY <1>1, <2>1 DEF Return
  <2>5. n # 1 => ~(b - 1 < 0)
    BY <2>2, <2>3
  <2>6. n # 1 => status' = status \/ status' = "error"
    BY <2>4, <2>5 DEF Push, Fails
  <2>. QED BY <1>1, <2>1, <2>6
<1>2. CASE ExecuteReturn
  <2>1. Fetch({OpReturn}) /\ Return(Null) /\ op = OpReturn /\ status = "running"
    BY <1>2 DEF ExecuteReturn, Fetch
  <2>2. Len(frames) # 1
    BY <2>1, NamedThere
  <2>. QED BY <1>1, <2>1, <2>2
<1>3. CASE ExecuteReturnValue
  <2>1. Fetch({OpReturnValue}) /\ op = OpReturnValue /\ status = "running"
    BY <1>3 DEF ExecuteReturnValue, Fetch
  <2>2. C!Pops(ins, ip) = 1
    <3>1. ins[ip + 1] = C!OpReturnValue
      BY <2>1, SameOpcodes DEF op
    <3>. QED BY ONLY <3>1 DEF C!Pops, C!OpReturnValue, C!OpAdd, C!OpSub, C!OpMul, C!OpDiv, C!OpEqual, C!OpNotEqual,
           C!OpGreaterThan, C!OpIndex, C!OpArray, C!OpHash, C!OpCall, C!OpClosure
  <2>3. 1 \in Nat /\ 1 <= C!Pops(ins, ip)
    BY <2>2
  <2>4. Holds(1)
    BY <2>1, <2>3, OperandsHeld
  <2>5. Len(frames) = 1
    BY <1>1, <1>3, <2>1, <2>4 DEF ExecuteReturnValue
  <2>. QED BY <2>1, <2>4, <2>5 DEF PanicCause
<1>. QED BY <1>2, <1>3

Risky == {OpDiv, OpEqual, OpNotEqual, OpGreaterThan, OpAdd, OpSub, OpMul, OpMinus, OpIndex, OpHash, OpCall}

(* The operands of an instruction that may panic.                          *)
LEMMA RiskyOperands ==
  ASSUME NEW V, Ready(V), NEW ops, Fetch(ops), ops \subseteq Risky
  PROVE  /\ op \in Risky /\ Operands = C!Pops(ins, ip) /\ Operands \in Nat
         /\ Holds(Operands)
<1>1. op \in Risky /\ Works(V)
  BY DEF Fetch, Ready
<1>2. /\ op = OpCall => numArgs \in Nat /\ C!Pops(ins, ip) = numArgs + 1
      /\ op = OpHash => ReadUint16(ins, ip + 1) \in Nat /\ C!Pops(ins, ip) = ReadUint16(ins, ip + 1)
      /\ op = OpMinus => C!Pops(ins, ip) = 1
      /\ op \notin {OpCall, OpHash, OpMinus} => C!Pops(ins, ip) = 2
  <2>1. op = OpCall => numArgs \in Nat
    BY <1>1, Fetched DEF Narrow, numArgs
  <2>2. op = OpHash => ReadUint16(ins, ip + 1) \in Nat
    BY <1>1, Fetched DEF Wide
  <2>3. op = ins[ip + 1]
    BY DEF op
  <2>. QED BY <1>1, <2>1, <2>2, <2>3, DepthChange DEF Risky, numArgs
<1>3. Operands = C!Pops(ins, ip) /\ Operands \in Nat
  BY <1>2 DEF Operands, OpCall, OpHash, OpMinus
<1>4. Operands <= C!Pops(ins, ip)
  BY <1>3
<1>. QED BY <1>1, <1>3, <1>4, OperandsHeld

(* Operators (vm.go:311, vm.go:334).                                       *)
LEMMA OperatorsExplained ==
  ASSUME NEW V, Ready(V), status' = "panic",
         ExecuteBinaryOperation \/ ExecuteComparison \/ ExecuteMinusOperator \/ ExecuteIndexExpression
  PROVE  PanicCause
<1>. USE DEF OpDiv, OpEqual, OpNotEqual, OpGreaterThan, OpAdd, OpSub, OpMul, OpMinus, OpIndex, OpHash, OpCall
<1>1. HasHole(Nil)
  BY DEF HasHole, Nil
<1>2. ASSUME NEW ops, ops \subseteq {OpAdd, OpSub, OpMul, OpDiv, OpEqual, OpNotEqual, OpGreaterThan, OpIndex}, Fetch(ops)
      PROVE  op \in ops /\ op \in Risky /\ Operands = 2 /\ Holds(2) /\ 1 \in 1..Operands /\ 2 \in 1..Operands
             /\ (\A o : ~Push(sp - 2, o))
  <2>1. op \in ops /\ ops \subseteq Risky
    BY <1>2 DEF Fetch, Risky
  <2>2. Operands = 2
    BY <1>2, <2>1 DEF Operands
  <2>3. op \in Risky /\ Operands = C!Pops(ins, ip) /\ Holds(Operands)
    BY <1>2, <2>1, RiskyOperands
  <2>4. 2 <= C!Pops(ins, ip)
    BY <2>2, <2>3
  <2>. QED BY <1>2, <2>1, <2>2, <2>3, <2>4, PushSurvives
<1>3. ASSUME op \in Risky, Holds(Operands), NEW k \in 1..Operands, Top(k) = Nil PROVE PanicCause
  BY <1>1, <1>3 DEF PanicCause, Risky
<1>4. ASSUME NEW at, Fails(at) PROVE FALSE
  BY <1>4 DEF Fails
<1>5. CASE ExecuteBinaryOperation
  <2>1. Fetch({OpAdd, OpSub, OpMul, OpDiv})
    BY <1>5 DEF ExecuteBinaryOperation
  <2>2. op \in Risky /\ Holds(Operands) /\ Operands = 2 /\ 1 \in 1..Operands /\ 2 \in 1..Operands
        /\ \A o : ~Push(sp - 2, o)
    BY <1>2, <2>1
  <2>3. Top(1) = Nil \/ Top(2) = Nil \/ (Both(INTEGER_OBJ) /\ op = OpDiv /\ Top(1).int = 0)
    BY <1>4, <1>5, <2>2 DEF ExecuteBinaryOperation
  <2>4. CASE Both(INTEGER_OBJ) /\ op = OpDiv /\ Top(1).int = 0
    BY <2>2, <2>4 DEF PanicCause, Risky
  <2>. QED BY <1>3, <2>2, <2>3, <2>4
<1>6. CASE ExecuteComparison
  <2>1. Fetch({OpEqual, OpNotEqual, OpGreaterThan})
    BY <1>6 DEF ExecuteComparison
  <2>2. op \in {OpEqual, OpNotEqual, OpGreaterThan}
        /\ op \in Risky /\ Holds(Operands) /\ Operands = 2 /\ 1 \in 1..Operands /\ 2 \in 1..Operands
        /\ \A o : ~Push(sp - 2, o)
    BY <1>2, <2>1
  <2>3. \/ Top(1) = Nil \/ Top(2) = Nil
        \/ INTEGER_OBJ \in {Top(1).type, Top(2).type} /\ ~Both(INTEGER_OBJ)
    BY <1>4, <1>6, <2>2 DEF ExecuteComparison
  <2>4. CASE INTEGER_OBJ \in {Top(1).type, Top(2).type} /\ ~Both(INTEGER_OBJ)
    BY <2>2, <2>4 DEF PanicCause, Risky
  <2>. QED BY <1>3, <2>2, <2>3, <2>4
<1>7. CASE ExecuteMinusOperator
  <2>1. Fetch({OpMinus}) /\ op = OpMinus /\ {OpMinus} \subseteq Risky
    BY <1>7 DEF ExecuteMinusOperator, Fetch, Risky
  <2>2. Operands = 1
    BY <2>1 DEF Operands
  <2>3. op \in Risky /\ Operands = C!Pops(ins, ip) /\ Holds(Operands) /\ Holds(1)
    BY <2>1, <2>2, RiskyOperands
  <2>4. 1 <= C!Pops(ins, ip) /\ 1 \in 1..Operands
    BY <2>2, <2>3
  <2>5. \A o : ~Push(sp - 1, o)
    BY <2>1, <2>4, PushSurvives
  <2>6. Top(1) = Nil
    BY <1>4, <1>7, <2>3, <2>5 DEF ExecuteMinusOperator
  <2>. QED BY <1>3, <2>3, <2>4, <2>6
<1>8. CASE ExecuteIndexExpression
  <2>1. Fetch({OpIndex})
    BY <1>8 DEF ExecuteIndexExpression
  <2>2. op \in Risky /\ Holds(Operands) /\ Operands = 2 /\ 1 \in 1..Operands /\ 2 \in 1..Operands
        /\ \A o : ~Push(sp - 2, o)
    BY <1>2, <2>1
  <2>3. Top(1) = Nil \/ Top(2) = Nil
    BY <1>4, <1>8, <2>2 DEF ExecuteIndexExpression
  <2>. QED BY <1>3, <2>2, <2>3
<1>. QED BY <1>5, <1>6, <1>7, <1>8

(* A key that was never set has no type for the error to name (vm.go:412). *)
LEMMA HashExplained ==
  ASSUME NEW V, Ready(V), status' = "panic", BuildHash
  PROVE  PanicCause
<1>1. Fetch({OpHash}) /\ op = OpHash /\ {OpHash} \subseteq Risky
  BY DEF BuildHash, Fetch, Risky
<1>2. PICK n : n = ReadUint16(ins, ip + 1)
  OBVIOUS
<1>3. Operands = n
  BY <1>1, <1>2 DEF Operands, OpHash, OpCall
<1>4. op \in Risky /\ n = C!Pops(ins, ip) /\ n \in Nat /\ Holds(n) /\ n <= C!Pops(ins, ip)
  BY <1>1, <1>3, RiskyOperands
<1>5. \A o : ~Push(sp - n, o)
  BY <1>1, <1>4, PushSurvives
<1>6. ~Fails(sp)
  BY DEF Fails
<1>7. \E k \in DOMAIN Topmost(n) : Topmost(n)[k] = Nil
  BY <1>2, <1>4, <1>5, <1>6 DEF BuildHash
<1>8. PICK k \in 1..n : stack[sp - n + k - 1] = Nil
  BY <1>7 DEF Topmost
<1>9. n - k + 1 \in 1..n /\ sp - (n - k + 1) = sp - n + k - 1
  BY <1>4, OperandsHeld, <1>1
<1>10. HasHole(Top(n - k + 1))
  BY <1>8, <1>9 DEF Top, HasHole, Nil
<1>. QED BY <1>1, <1>3, <1>4, <1>9, <1>10 DEF PanicCause, Risky

(* Calls too deep (vm.go:484), and built-ins that use an argument that was *)
(* never set (builtins.go).                                                *)
LEMMA CallsExplained ==
  ASSUME NEW V, Ready(V), status' = "panic", ExecuteCallClosure \/ ExecuteCallBuiltin \/ ExecuteCallOther
  PROVE  PanicCause
<1>1. Fetch({OpCall}) /\ op = OpCall /\ {OpCall} \subseteq Risky /\ status = "running"
  BY DEF ExecuteCallClosure, ExecuteCallBuiltin, ExecuteCallOther, Fetch, Risky
<1>2. PICK n : n = numArgs
  OBVIOUS
<1>3. Operands = n + 1
  BY <1>1, <1>2 DEF Operands
<1>4. op \in Risky /\ n + 1 = C!Pops(ins, ip) /\ n + 1 \in Nat /\ Holds(n + 1) /\ n + 1 <= C!Pops(ins, ip)
  BY <1>1, <1>3, RiskyOperands
<1>5. n \in Nat /\ sp \in Nat /\ Works(V)
  BY <1>1, <1>2, OperandsHeld, Fetched DEF Ready, Narrow, numArgs
<1>6. \A at : ~Fails(at)
  BY DEF Fails
<1>7. CASE ExecuteCallClosure
  <2>1. FramesFull
    BY <1>1, <1>6, <1>7 DEF ExecuteCallClosure
  <2>. QED BY <1>1, <1>3, <1>4, <2>1 DEF PanicCause, Risky
<1>8. CASE ExecuteCallBuiltin
  <2>1. sp - n - 1 = sp - (n + 1)
    BY <1>5
  <2>2. \A o : ~Push(sp - n - 1, o)
    BY <1>1, <1>4, <2>1, PushSurvives
  <2>3. BuiltinPanics(callee.Fn, Topmost(n))
    BY <1>2, <1>8, <2>2 DEF ExecuteCallBuiltin
  <2>4. DOMAIN Topmost(n) = 1..n /\ Len(Topmost(n)) = n
    <3>1. Holds(n)
      BY <1>4, <1>5, <1>1, OperandsHeld
    <3>. QED BY <1>5, <3>1, TopValues DEF Topmost
  <2>5. \E k \in 1..n : HasHole(Topmost(n)[k])
    <3>1. CASE callee.Fn = "puts"
      BY <2>3, <2>4, <3>1 DEF BuiltinPanics
    <3>2. CASE callee.Fn # "puts"
      <4>1. n = Arity(callee.Fn) /\ Topmost(n)[1].type = "nil"
        BY <2>3, <2>4, <3>2 DEF BuiltinPanics
      <4>2. 1 \in 1..n
        BY <1>5, <4>1 DEF Arity
      <4>. QED BY <4>1, <4>2 DEF HasHole
    <3>. QED BY <3>1, <3>2
  <2>6. PICK k \in 1..n : HasHole(stack[sp - n + k - 1])
    BY <2>5 DEF Topmost
  <2>7. n - k + 1 \in 1..n + 1 /\ sp - (n - k + 1) = sp - n + k - 1
    BY <1>5
  <2>8. HasHole(Top(n - k + 1))
    BY <2>6, <2>7 DEF Top
  <2>. QED BY <1>1, <1>3, <1>4, <2>7, <2>8 DEF PanicCause, Risky
<1>9. CASE ExecuteCallOther
  BY <1>2, <1>4, <1>6, <1>9 DEF ExecuteCallOther
<1>. QED BY <1>7, <1>8, <1>9

(* Every panic of the machine has a cause in the program.                  *)
LEMMA StepExplained ==
  ASSUME NEW V, Ready(V), Step
  PROVE  PanicExplained
<1>. SUFFICES ASSUME status' = "panic" PROVE PanicCause
  BY DEF PanicExplained
<1>. QED BY LoadsSurvive, MovesSurvive, ReturnsExplained, OperatorsExplained, HashExplained, CallsExplained
         DEF Step

(* Every step of a session that leaves room on the stack.                  *)
LEMMA NextExplained ==
  ASSUME NEW trees, Session(trees), LineFits, Roomy, Balanced, Stacked, StackPointerInStack,
         ByteSize * ByteSize <= GlobalsSize, [Next]_vars
  PROVE  PanicExplained
<1>1. ASSUME UNCHANGED vmVars PROVE PanicExplained
  BY <1>1 DEF vmVars, PanicExplained
<1>2. CASE StartMachine
  BY <1>2 DEF StartMachine, PanicExplained
<1>3. CASE RunStep
  <2>1. phase = "run" /\ Step /\ status = "running"
    BY <1>3, StepsWhileRunning DEF RunStep
  <2>2. PICK V : Holding(V) /\ Running(V)
    BY <2>1 DEF Session, MachineOK
  <2>3. Works(V)
    BY <2>1, <2>2, RunningCode DEF Works
  <2>4. Nested /\ C!StackBalanced /\ sp \in 0..StackSize
    BY <2>1 DEF Stacked, Balanced, StackPointerInStack
  <2>5. \A p \in C!Starts(C!Scope.instructions) :
          C!Scope.instructions[p + 1] \notin {OpGetFree, OpReturn}
    <3>1. CP!CInv(trees) /\ CP!RoomInv /\ CP!Compiled
      BY <2>1, SameFinished DEF Session, Roomy
    <3>2. \A p \in CP!Starts(CP!Scope.instructions) :
            CP!Scope.instructions[p + 1] \notin {CP!OpGetFree, CP!OpReturn}
      BY <3>1, CP!ProgramCode, ObjectsAssumption, ByteSizeAssumption
    <3>3. CP!OpGetFree = OpGetFree /\ CP!OpReturn = OpReturn
      BY DEF CP!OpGetFree, CP!OpReturn, OpGetFree, OpReturn
    <3>. QED BY <3>2, <3>3, SameFinished, SameReading
  <2>6. Ready(V)
    BY <2>3, <2>4, <2>5 DEF Ready
  <2>. QED BY <2>1, <2>6, StepExplained
<1>4. UNCHANGED vmVars \/ StartMachine \/ RunStep
  BY DEF Next, Work, ReadLine, ReadBadLine, EndOfInput, CompileStep, CompileFails, RunFails, RunPanics,
         PrintAnswer, vars
<1>. QED BY <1>1, <1>2, <1>3, <1>4

-----------------------------------------------------------------------------
(* The theorems.  trees holds the programs of the lines and all of their   *)
(* parts, a grammar of any size.  The hypothesis under [] is about sizes   *)
(* (SmallLines).  For the shape of the stack, trees are such that the arms *)
(* of an if leave a value (Valued of Compiler).                            *)

(* The finished code of a line only names what exists: the locals of its   *)
(* functions, the globals, constants and functions of this line and of the *)
(* lines before it, and captured values that are gathered                  *)
(* (repl.go:65-73).                                                        *)
THEOREM LinesNameWhatExists ==
  ASSUME NEW CONSTANT trees, CP!Grammar(trees), Programs \subseteq CP!Of(trees, {"Program"}),
         ByteSize % 2 = 0
  PROVE  Spec /\ []SmallLines => []LineFits
<1>1. Init => Session(trees) /\ Roomy
  BY InitSession, InitRoomy
<1>2. Session(trees) /\ Roomy /\ SmallLines => LineFits
  BY SmallLinesFit
<1>3. Session(trees) /\ LineFits /\ [Next]_vars => Session(trees)'
  BY NextSession
<1>4. Session(trees) /\ LineFits /\ Roomy /\ SmallLines /\ SmallLines' /\ [Next]_vars => Roomy'
  BY NextRoomy
<1>. QED BY <1>1, <1>2, <1>3, <1>4, PTL DEF Spec

(* Whatever lines are typed, the phases, the machine's stack, globals and  *)
(* frames keep their types, and every frame runs a closure.                *)
THEOREM TypeCorrect ==
  ASSUME NEW CONSTANT trees, CP!Grammar(trees), Programs \subseteq CP!Of(trees, {"Program"}),
         ByteSize % 2 = 0
  PROVE  Spec /\ []SmallLines => []TypeOK
<1>1. Init => Session(trees) /\ Roomy
  BY InitSession, InitRoomy
<1>2. Session(trees) /\ Roomy /\ SmallLines => LineFits
  BY SmallLinesFit
<1>3. Session(trees) /\ LineFits /\ [Next]_vars => Session(trees)'
  BY NextSession
<1>4. Session(trees) /\ LineFits /\ Roomy /\ SmallLines /\ SmallLines' /\ [Next]_vars => Roomy'
  BY NextRoomy
<1>5. Session(trees) => TypeOK
  BY SessionTypes
<1>. QED BY <1>1, <1>2, <1>3, <1>4, <1>5, PTL DEF Spec

(* Whatever lines are typed, a closure that a global or a frame holds is a *)
(* function of the pool, and the constants its code names are there and of *)
(* the kind its instructions take, also for closures of earlier lines      *)
(* (repl.go:65-73).                                                        *)
THEOREM ClosuresStayServed ==
  ASSUME NEW CONSTANT trees, CP!Grammar(trees), Programs \subseteq CP!Of(trees, {"Program"}),
         ByteSize % 2 = 0
  PROVE  Spec /\ []SmallLines => []ClosuresServed
<1>1. Init => Session(trees) /\ Roomy
  BY InitSession, InitRoomy
<1>2. Session(trees) /\ Roomy /\ SmallLines => LineFits
  BY SmallLinesFit
<1>3. Session(trees) /\ LineFits /\ [Next]_vars => Session(trees)'
  BY NextSession
<1>4. Session(trees) /\ LineFits /\ Roomy /\ SmallLines /\ SmallLines' /\ [Next]_vars => Roomy'
  BY NextRoomy
<1>5. Session(trees) /\ LineFits => ClosuresServed
  BY SessionServed
<1>. QED BY <1>1, <1>2, <1>3, <1>4, <1>5, PTL DEF Spec

(* Whatever lines are typed, if the arms of their ifs leave a value, each  *)
(* frame has its locals between its base pointer and the next frame, and   *)
(* the closure it runs below them (vm.go:196-213, vm.go:493-503).          *)
THEOREM FramesStayNested ==
  ASSUME NEW CONSTANT trees, CP!Grammar(trees), CP!Valued(trees),
         Programs \subseteq CP!Of(trees, {"Program"}), ByteSize % 2 = 0
  PROVE  Spec /\ []SmallLines => []FramesNested
<1>1. Init => Session(trees) /\ Roomy /\ Poised /\ Stacked
  BY InitSession, InitRoomy, InitPoised DEF Init, Stacked
<1>2. Session(trees) /\ Roomy /\ SmallLines => LineFits
  BY SmallLinesFit
<1>3. Session(trees) /\ LineFits /\ [Next]_vars => Session(trees)'
  BY NextSession
<1>4. Session(trees) /\ LineFits /\ Roomy /\ SmallLines /\ SmallLines' /\ [Next]_vars => Roomy'
  BY NextRoomy
<1>5. Session(trees) /\ LineFits /\ Poised /\ SmallLines /\ [Next]_vars => Poised'
  BY NextPoised
<1>6. Session(trees) /\ Poised /\ SmallLines => Balanced
  BY PoisedBalanced
<1>7. Session(trees) /\ LineFits /\ LineFits' /\ Balanced /\ Stacked /\ [Next]_vars => Stacked'
  BY NextStacked
<1>8. Session(trees) /\ LineFits /\ Stacked => FramesNested
  BY StackedFrames
<1>. QED BY <1>1, <1>2, <1>3, <1>4, <1>5, <1>6, <1>7, <1>8, PTL DEF Spec

(* Whatever lines are typed, if the arms of their ifs leave a value, the   *)
(* stack of every frame is as deep as the compiler's code implies where it *)
(* stands: no instruction takes its operands from locals or from a caller  *)
(* (vm.go:58-247).                                                         *)
THEOREM DepthsAsCompiled ==
  ASSUME NEW CONSTANT trees, CP!Grammar(trees), CP!Valued(trees),
         Programs \subseteq CP!Of(trees, {"Program"}), ByteSize % 2 = 0
  PROVE  Spec /\ []SmallLines => []DepthAsCompiled
<1>1. Init => Session(trees) /\ Roomy /\ Poised /\ Stacked
  BY InitSession, InitRoomy, InitPoised DEF Init, Stacked
<1>2. Session(trees) /\ Roomy /\ SmallLines => LineFits
  BY SmallLinesFit
<1>3. Session(trees) /\ LineFits /\ [Next]_vars => Session(trees)'
  BY NextSession
<1>4. Session(trees) /\ LineFits /\ Roomy /\ SmallLines /\ SmallLines' /\ [Next]_vars => Roomy'
  BY NextRoomy
<1>5. Session(trees) /\ LineFits /\ Poised /\ SmallLines /\ [Next]_vars => Poised'
  BY NextPoised
<1>6. Session(trees) /\ Poised /\ SmallLines => Balanced
  BY PoisedBalanced
<1>7. Session(trees) /\ LineFits /\ LineFits' /\ Balanced /\ Stacked /\ [Next]_vars => Stacked'
  BY NextStacked
<1>8. Session(trees) /\ LineFits /\ Stacked => DepthAsCompiled
  BY StackedFrames
<1>. QED BY <1>1, <1>2, <1>3, <1>4, <1>5, <1>6, <1>7, <1>8, PTL DEF Spec

(* Whatever lines are typed, if the arms of their ifs leave a value, no    *)
(* step of a function touches what its callers have on the stack or where  *)
(* they stand (vm.go:138-144, vm.go:196-213, vm.go:493-503).               *)
THEOREM CallersIsolated ==
  ASSUME NEW CONSTANT trees, CP!Grammar(trees), CP!Valued(trees),
         Programs \subseteq CP!Of(trees, {"Program"}), ByteSize % 2 = 0
  PROVE  Spec /\ []SmallLines => CallerIsolation
<1>1. Init => Session(trees) /\ Roomy /\ Poised /\ Stacked
  BY InitSession, InitRoomy, InitPoised DEF Init, Stacked
<1>2. Session(trees) /\ Roomy /\ SmallLines => LineFits
  BY SmallLinesFit
<1>3. Session(trees) /\ LineFits /\ [Next]_vars => Session(trees)'
  BY NextSession
<1>4. Session(trees) /\ LineFits /\ Roomy /\ SmallLines /\ SmallLines' /\ [Next]_vars => Roomy'
  BY NextRoomy
<1>5. Session(trees) /\ LineFits /\ Poised /\ SmallLines /\ [Next]_vars => Poised'
  BY NextPoised
<1>6. Session(trees) /\ Poised /\ SmallLines => Balanced
  BY PoisedBalanced
<1>7. Session(trees) /\ LineFits /\ LineFits' /\ Balanced /\ Stacked /\ [Next]_vars
        => Stacked' /\ CallerUntouched
  BY NextStacked
<1>. QED BY <1>1, <1>2, <1>3, <1>4, <1>5, <1>6, <1>7, PTL DEF Spec, CallerIsolation

(* Whatever lines are typed, if the arms of their ifs leave a value, every *)
(* panic of the machine has a cause in the program (vm.go:200, 311, 334,   *)
(* 484): its code never takes operands that are not there, and never names *)
(* a constant, a global, a local, a built-in or a captured value that does *)
(* not exist.  The hypothesis on sp leaves out functions with more locals  *)
(* than the stack has room for, which the machine does not check           *)
(* (vm.go:500); that on the sizes is that of the code, 256 * 256 = 65536.  *)
THEOREM PanicsHaveCauses ==
  ASSUME NEW CONSTANT trees, CP!Grammar(trees), CP!Valued(trees),
         Programs \subseteq CP!Of(trees, {"Program"}), ByteSize % 2 = 0,
         ByteSize * ByteSize <= GlobalsSize
  PROVE  Spec /\ []SmallLines /\ []StackPointerInStack => PanicsExplained
<1>1. Init => Session(trees) /\ Roomy /\ Poised /\ Stacked
  BY InitSession, InitRoomy, InitPoised DEF Init, Stacked
<1>2. Session(trees) /\ Roomy /\ SmallLines => LineFits
  BY SmallLinesFit
<1>3. Session(trees) /\ LineFits /\ [Next]_vars => Session(trees)'
  BY NextSession
<1>4. Session(trees) /\ LineFits /\ Roomy /\ SmallLines /\ SmallLines' /\ [Next]_vars => Roomy'
  BY NextRoomy
<1>5. Session(trees) /\ LineFits /\ Poised /\ SmallLines /\ [Next]_vars => Poised'
  BY NextPoised
<1>6. Session(trees) /\ Poised /\ SmallLines => Balanced
  BY PoisedBalanced
<1>7. Session(trees) /\ LineFits /\ LineFits' /\ Balanced /\ Stacked /\ [Next]_vars => Stacked'
  BY NextStacked
<1>8. Session(trees) /\ LineFits /\ Roomy /\ Balanced /\ Stacked /\ StackPointerInStack /\ [Next]_vars
        => PanicExplained
  BY NextExplained
<1>. QED BY <1>1, <1>2, <1>3, <1>4, <1>5, <1>6, <1>7, <1>8, PTL DEF Spec, PanicsExplained
=============================================================================
