------------------------------ MODULE Compiler ------------------------------
(***************************************************************************)
(* compiler/compiler.go: Compile walks a syntax tree and emits bytecode,   *)
(* one compilation scope and one symbol table per function it is inside.   *)
(*                                                                         *)
(* Go's recursion is the variable todo, what is still to be done, next     *)
(* first: Visit(node) is a call of Compile, and the other items are what a *)
(* call does after the calls it makes.  One action is one case of          *)
(* Compile's switch up to its first recursive call, or one stretch between *)
(* two of them.                                                            *)
(***************************************************************************)
EXTENDS Emission, Objects, FiniteSets

CONSTANTS
  Names,                    (* The identifiers of the programs.            *)
  KeyText(_),               (* The rank of a hash key's String() among     *)
                            (* texts in Go's order of strings.             *)
  Programs                  (* The programs to compile.                    *)

VARIABLES
  constants,     (* c.constants                                            *)
  symbolTable,   (* c.symbolTable and the tables outside it, see Symbols   *)
  scopes,        (* c.scopes; scopeIndex is always that of the last one    *)
  todo,          (* The work left.                                         *)
  failed         (* Compile returned an error.                             *)

vars == <<constants, symbolTable, scopes, todo, failed>>

Symbols == INSTANCE SymbolTable
  WITH BuiltinNames <- Builtins, MaxDepth <- 0, MaxDefinitions <- 0,
       tables <- symbolTable, resolved <- <<>>

-----------------------------------------------------------------------------
(* The innermost scope.                                                    *)
Scope == scopes[Len(scopes)]
Changed(scope) == [scopes EXCEPT ![Len(scopes)] = scope]

(* Mutant: a captured variable is loaded as if it were a local.            *)
LoadSymbolFreeAsLocal(scope, s) ==
  Emit(scope, CASE s.Scope = Symbols!GlobalScope  -> OpGetGlobal
                [] s.Scope = Symbols!BuiltinScope -> OpGetBuiltin
                [] OTHER                          -> OpGetLocal, <<s.Index>>)

LoadSymbol(scope, s) ==
  Emit(scope, CASE s.Scope = Symbols!GlobalScope  -> OpGetGlobal
                [] s.Scope = Symbols!LocalScope   -> OpGetLocal
                [] s.Scope = Symbols!BuiltinScope -> OpGetBuiltin
                [] s.Scope = Symbols!FreeScope    -> OpGetFree, <<s.Index>>)

(* The loops over the parameters of a function and over what it captures.  *)
DefineAll(chain, names) ==
  LET after[k \in 0..Len(names)] ==
        IF k = 0 THEN chain ELSE Symbols!Define(after[k - 1], names[k])
  IN  after[Len(names)]

LoadAll(scope, symbols) ==
  LET after[k \in 0..Len(symbols)] ==
        IF k = 0 THEN scope ELSE LoadSymbol(after[k - 1], symbols[k])
  IN  after[Len(symbols)]

-----------------------------------------------------------------------------
(* The items of todo.                                                      *)
Visit(node)              == [do |-> "visit", node |-> node]
Visits(nodes)            == [k \in DOMAIN nodes |-> Visit(nodes[k])]
Emits(op, operands)      == [do |-> "emit", op |-> op, operands |-> operands]
Then(node)               == [do |-> "then", node |-> node]
Else(node, pos)          == [do |-> "else", node |-> node, pos |-> pos]
Join(node, pos)          == [do |-> "join", node |-> node, pos |-> pos]
EndFunction(node)        == [do |-> "end function", node |-> node]
Abort                    == [do |-> "abort"]

Bogus == 9999   (* The operand of a jump whose target is not known yet.    *)

InfixOpcode  == [o \in {"+", "-", "*", "/", ">", "==", "!="} |->
  CASE o = "+" -> OpAdd [] o = "-" -> OpSub [] o = "*" -> OpMul [] o = "/" -> OpDiv
    [] o = ">" -> OpGreaterThan [] o = "==" -> OpEqual [] o = "!=" -> OpNotEqual]

PrefixOpcode == [o \in {"!", "-"} |-> IF o = "!" THEN OpBang ELSE OpMinus]

EmitsOperator(opcode, o) == IF o \in DOMAIN opcode THEN Emits(opcode[o], <<>>) ELSE Abort

Doing(what) == todo # <<>> /\ Head(todo).do = what
At(kinds)   == Doing("visit") /\ Head(todo).node.kind \in kinds
Node        == Head(todo).node

Continue(items) == todo' = items \o Tail(todo)

EmitAction(op, operands) ==
  /\ scopes' = Changed(Emit(Scope, op, operands))
  /\ Continue(<<>>)
  /\ UNCHANGED <<symbolTable, failed>>

(* Nodes that only call Compile on their parts and then emit.              *)
OnlyVisits(items) ==
  Continue(items) /\ UNCHANGED <<constants, symbolTable, scopes, failed>>

CompileStatements ==
  At({"Program", "BlockStatement"}) /\ OnlyVisits(Visits(Node.Statements))

CompileExpressionStatement ==
  At({"ExpressionStatement"}) /\ OnlyVisits(<<Visit(Node.Expr), Emits(OpPop, <<>>)>>)

CompileReturnStatement ==
  At({"ReturnStatement"}) /\ OnlyVisits(<<Visit(Node.Expr), Emits(OpReturnValue, <<>>)>>)

CompileInfixExpression ==
  /\ At({"InfixExpression"})
  /\ OnlyVisits(IF Node.Operator = "<"
                THEN <<Visit(Node.Right), Visit(Node.Left), Emits(OpGreaterThan, <<>>)>>
                ELSE <<Visit(Node.Left), Visit(Node.Right),
                       EmitsOperator(InfixOpcode, Node.Operator)>>)

CompilePrefixExpression ==
  At({"PrefixExpression"})
    /\ OnlyVisits(<<Visit(Node.Right), EmitsOperator(PrefixOpcode, Node.Operator)>>)

CompileIndexExpression ==
  At({"IndexExpression"})
    /\ OnlyVisits(<<Visit(Node.Left), Visit(Node.Index), Emits(OpIndex, <<>>)>>)

CompileArrayLiteral ==
  At({"ArrayLiteral"})
    /\ OnlyVisits(Append(Visits(Node.Elements), Emits(OpArray, <<Len(Node.Elements)>>)))

CompileCallExpression ==
  At({"CallExpression"})
    /\ OnlyVisits(Append(<<Visit(Node.Function)>> \o Visits(Node.Arguments),
                         Emits(OpCall, <<Len(Node.Arguments)>>)))

(* The keys come out of a map in any order and are sorted by their text;   *)
(* the sort is not stable, so keys with the same text stay in any order.   *)
CompileHashLiteral ==
  /\ At({"HashLiteral"})
  /\ LET n == Len(Node.Pairs)
     IN  \E keys \in [1..n -> 1..n] :
           /\ \A i, j \in 1..n : i # j => keys[i] # keys[j]
           /\ \A i, j \in 1..n : i < j => KeyText(Node.Pairs[keys[i]][1])
                                            <= KeyText(Node.Pairs[keys[j]][1])
           /\ OnlyVisits(Append([k \in 1..n * 2 |->
                                   Visit(Node.Pairs[keys[(k + 1) \div 2]][2 - (k % 2)])],
                                Emits(OpHash, <<n * 2>>)))

CompileIfExpression ==
  At({"IfExpression"}) /\ OnlyVisits(<<Visit(Node.Condition), Then(Node)>>)

CompileConsequence ==
  /\ Doing("then")
  /\ scopes' = Changed(Emit(Scope, OpJumpNotTruthy, <<Bogus>>))
  /\ Continue(<<Visit(Node.Consequence), Else(Node, Len(Scope.instructions))>>)
  /\ UNCHANGED <<constants, symbolTable, failed>>

CompileAlternative ==
  /\ Doing("else")
  /\ LET jumpNotTruthyPos == Head(todo).pos
         value  == KeepValue(Scope)
         jump   == Emit(value, OpJump, <<Bogus>>)
         target == ChangeOperand(jump, jumpNotTruthyPos, Len(jump.instructions))
     IN  /\ scopes' = Changed(target)
         /\ Continue(<<IF Node.Alternative.kind = "nil" THEN Emits(OpNull, <<>>)
                                                        ELSE Visit(Node.Alternative),
                       Join(Node, Len(value.instructions))>>)
  /\ UNCHANGED <<constants, symbolTable, failed>>

(* Mutant: the target is measured before the pop is taken off.             *)
EndIfExpressionEarly ==
  /\ Doing("join")
  /\ LET value == IF Node.Alternative.kind = "nil" THEN Scope ELSE KeepValue(Scope)
     IN  scopes' = Changed(ChangeOperand(value, Head(todo).pos, Len(Scope.instructions)))
  /\ Continue(<<>>)
  /\ UNCHANGED <<constants, symbolTable, failed>>

(* Mutant: the jump is given its own position.                             *)
EndIfExpressionLooping ==
  /\ Doing("join")
  /\ LET value == IF Node.Alternative.kind = "nil" THEN Scope ELSE KeepValue(Scope)
     IN  scopes' = Changed(ChangeOperand(value, Head(todo).pos, Head(todo).pos))
  /\ Continue(<<>>)
  /\ UNCHANGED <<constants, symbolTable, failed>>

EndIfExpression ==
  /\ Doing("join")
  /\ LET value == IF Node.Alternative.kind = "nil" THEN Scope ELSE KeepValue(Scope)
     IN  scopes' = Changed(ChangeOperand(value, Head(todo).pos, Len(value.instructions)))
  /\ Continue(<<>>)
  /\ UNCHANGED <<constants, symbolTable, failed>>

(* The name is defined before the value is compiled.                       *)
CompileLetStatement ==
  /\ At({"LetStatement"})
  /\ LET symbol == Symbols!DefinedSymbol(symbolTable, Node.Name)
     IN  Continue(<<Visit(Node.Expr),
                    Emits(IF symbol.Scope = Symbols!GlobalScope THEN OpSetGlobal ELSE OpSetLocal,
                          <<symbol.Index>>)>>)
  /\ symbolTable' = Symbols!Define(symbolTable, Node.Name)
  /\ UNCHANGED <<constants, scopes, failed>>

CompileIdentifier ==
  /\ At({"Identifier"})
  /\ IF Symbols!Resolvable(symbolTable, Node.Name)
     THEN /\ scopes' = Changed(LoadSymbol(Scope, Symbols!Resolved(symbolTable, Node.Name)))
          /\ symbolTable' = Symbols!Resolve(symbolTable, Node.Name)
          /\ Continue(<<>>)
     ELSE Continue(<<Abort>>) /\ UNCHANGED <<symbolTable, scopes>>
  /\ UNCHANGED <<constants, failed>>

(* addConstant and OpConstant.  A string literal is one object, allocated  *)
(* here: its place in the pool is its identity.                            *)
Constant ==
  IF Node.kind = "IntegerLiteral"
  THEN Integer(Node.Int)
  ELSE String(Node.Str, <<"constant", Len(constants)>>)

CompileLiteral ==
  /\ At({"IntegerLiteral", "StringLiteral"})
  /\ constants' = Append(constants, Constant)
  /\ EmitAction(OpConstant, <<Len(constants)>>)

CompileBoolean ==
  /\ At({"Boolean"})
  /\ EmitAction(IF Node.Bool THEN OpTrue ELSE OpFalse, <<>>)
  /\ UNCHANGED constants

(* Mutant: enterScope makes no table.                                      *)
CompileFunctionLiteralInPlace ==
  /\ At({"FunctionLiteral"})
  /\ scopes' = Append(scopes, NewScope)
  /\ symbolTable' = DefineAll(symbolTable, Node.Parameters)
  /\ Continue(<<Visit(Node.Body), EndFunction(Node)>>)
  /\ UNCHANGED <<constants, failed>>

(* enterScope, and the parameters as the first locals.                     *)
CompileFunctionLiteral ==
  /\ At({"FunctionLiteral"})
  /\ scopes' = Append(scopes, NewScope)
  /\ symbolTable' = DefineAll(Symbols!NewEnclosedSymbolTable(symbolTable), Node.Parameters)
  /\ Continue(<<Visit(Node.Body), EndFunction(Node)>>)
  /\ UNCHANGED <<constants, failed>>

(* leaveScope; what the function captures is loaded around it.             *)
CompileFunctionEnd ==
  /\ Doing("end function")
  /\ LET table       == symbolTable[Len(symbolTable)]
         compiledFn  == CompiledFunction(EndBody(Scope).instructions,
                          table.numDefinitions, Len(Node.Parameters))
         enclosing   == scopes[Len(scopes) - 1]
         loaded      == LoadAll(enclosing, table.FreeSymbols)
     IN  /\ scopes' = Append(SubSeq(scopes, 1, Len(scopes) - 2),
                             Emit(loaded, OpClosure,
                                  <<Len(constants), Len(table.FreeSymbols)>>))
         /\ constants' = Append(constants, compiledFn)
  /\ symbolTable' = Symbols!Outer(symbolTable)
  /\ Continue(<<>>)
  /\ UNCHANGED failed

(* What a node emits after the nodes below it.                             *)
EmitAfter ==
  /\ Doing("emit")
  /\ EmitAction(Head(todo).op, Head(todo).operands)
  /\ UNCHANGED constants

(* Compile returns an error, and with it every call that is open.          *)
Fail ==
  /\ Doing("abort")
  /\ todo' = <<>>
  /\ failed' = TRUE
  /\ UNCHANGED <<constants, symbolTable, scopes>>

(* NewWithState(table, pool), and Compile(program) still to be done.       *)
Start(table, pool, program) ==
  /\ constants = pool
  /\ symbolTable = <<table>>
  /\ scopes = <<NewScope>>
  /\ todo = <<Visit(program)>>
  /\ failed = FALSE

Init == \E program \in Programs : Start(Symbols!DefineBuiltins, <<>>, program)

Next ==
  \/ CompileStatements
  \/ CompileExpressionStatement
  \/ CompileReturnStatement
  \/ CompileInfixExpression
  \/ CompilePrefixExpression
  \/ CompileIndexExpression
  \/ CompileArrayLiteral
  \/ CompileCallExpression
  \/ CompileHashLiteral
  \/ CompileIfExpression
  \/ CompileConsequence
  \/ CompileAlternative
  \/ EndIfExpression
  \/ CompileLetStatement
  \/ CompileIdentifier
  \/ CompileLiteral
  \/ CompileBoolean
  \/ CompileFunctionLiteral
  \/ CompileFunctionEnd
  \/ EmitAfter
  \/ Fail

Spec == Init /\ [][Next]_vars

Compiled == todo = <<>> /\ ~failed

(* Bytecode(): the instructions of the program, and the pool.              *)
Bytecode == [Instructions |-> Scope.instructions, Constants |-> constants]

-----------------------------------------------------------------------------
(* Type invariant.  The scopes and the tables go in and out of functions   *)
(* together, and every function that is open is still to be ended.         *)
TypeOK ==
  /\ \A k \in DOMAIN constants :
       constants[k].type \in {INTEGER_OBJ, STRING_OBJ, COMPILED_FUNCTION_OBJ}
  /\ Len(scopes) = Len(symbolTable)
  /\ \A k \in DOMAIN scopes :
       /\ scopes[k].instructions \in Seq(0..ByteSize - 1)
       /\ scopes[k].lastInstruction \in [Opcode : Opcodes, Position : Nat]
       /\ scopes[k].previousInstruction \in [Opcode : Opcodes, Position : Nat]
  /\ failed \in BOOLEAN
  /\ ~failed => Cardinality({k \in DOMAIN todo : todo[k].do = "end function"}) = Len(scopes) - 1

(* lastInstruction is the last instruction of its scope, also when a pop   *)
(* was taken off it or turned into a return: removeLastPop cuts the code   *)
(* at lastInstruction.Position and replaceLastPopWithReturn writes there   *)
(* (compiler.go:382, compiler.go:432).                                     *)
LastInstructionTracked ==
  \A k \in DOMAIN scopes :
    LET ins == scopes[k].instructions  last == scopes[k].lastInstruction
    IN  ins # <<>> => /\ last.Position \in Starts(ins)
                      /\ last.Position + Width(last.Opcode) = Len(ins)
                      /\ ins[last.Position + 1] = last.Opcode

(* The code that is finished: the functions of the pool, and the program   *)
(* once it is compiled.                                                    *)
Functions ==
  {constants[k] : k \in {i \in DOMAIN constants : constants[i].type = COMPILED_FUNCTION_OBJ}}

Finished ==
  Functions \cup (IF Compiled THEN {CompiledFunction(Scope.instructions, 0, 0)} ELSE {})

(* Every jump of finished code goes forward to an instruction of the same  *)
(* function: no bogus operand is left, pops that were taken out and nested *)
(* ifs do not shift a target, and no code loops.  A conditional jump goes  *)
(* behind the jump that ends the consequence (compiler.go:156-173).        *)
JumpsLand ==
  \A fn \in Finished : \A p \in Uses(fn, {OpJump, OpJumpNotTruthy}) :
    LET target == ReadUint16(fn.Instructions, p + 1)
    IN  /\ target > p /\ target \in Starts(fn.Instructions)
        /\ fn.Instructions[p + 1] = OpJumpNotTruthy => target - 3 \in Uses(fn, {OpJump})

(* Finished code only names slots that exist: locals of the function,      *)
(* built-ins, values of the pool, functions of the pool for OpClosure, and *)
(* as many captured values as each OpClosure for that function gathers.    *)
SlotsExist ==
  \A fn \in Finished :
    LET ins == fn.Instructions
    IN  /\ \A p \in Uses(fn, {OpGetLocal, OpSetLocal}) : ReadUint8(ins, p + 1) < fn.NumLocals
        /\ \A p \in Uses(fn, {OpGetGlobal, OpSetGlobal}) :
              ReadUint16(ins, p + 1) < symbolTable[1].numDefinitions
        /\ \A p \in Uses(fn, {OpGetBuiltin}) : ReadUint8(ins, p + 1) < Len(Builtins)
        /\ \A p \in Uses(fn, {OpConstant}) :
              /\ ReadUint16(ins, p + 1) < Len(constants)
              /\ constants[ReadUint16(ins, p + 1) + 1].type # COMPILED_FUNCTION_OBJ
        /\ \A p \in Uses(fn, {OpClosure}) :
              LET made == constants[ReadUint16(ins, p + 1) + 1]
              IN  /\ ReadUint16(ins, p + 1) < Len(constants)
                  /\ made.type = COMPILED_FUNCTION_OBJ
                  /\ \A q \in Uses(made, {OpGetFree}) :
                       ReadUint8(made.Instructions, q + 1) < ReadUint8(ins, p + 3)
        /\ fn.NumParameters <= fn.NumLocals

(* Programs whose code keeps the stack balanced: both arms of an if end in *)
(* an expression or in a return, as the comment at compiler.go:152 takes   *)
(* for granted, and no list is longer than an operand can count.           *)
EndsInValue(block) ==
  /\ block.Statements # <<>>
  /\ block.Statements[Len(block.Statements)].kind \in {"ExpressionStatement", "ReturnStatement"}

Valued(trees) ==
  \A n \in trees :
    /\ n.kind = "IfExpression" =>
         /\ EndsInValue(n.Consequence)
         /\ n.Alternative.kind = "nil" \/ EndsInValue(n.Alternative)
    /\ n.kind = "ArrayLiteral" => Len(n.Elements) < ByteSize * ByteSize
    /\ n.kind = "HashLiteral" => Len(n.Pairs) * 2 < ByteSize * ByteSize
    /\ n.kind = "CallExpression" => Len(n.Arguments) < ByteSize

(* Whatever path is taken through finished code, an instruction finds the  *)
(* operands it takes, two paths that meet have left the same number of     *)
(* values, the program leaves none and a function never runs off its end.  *)
StackBalanced ==
  \A fn \in Finished :
    LET ins == fn.Instructions  depths == Depths(ins)
    IN  /\ \A p \in 0..Len(ins) : Cardinality(depths[p]) <= 1
        /\ \A p \in 0..Len(ins) - 1 : \A d \in depths[p] : d >= Pops(ins, p)
        /\ depths[Len(ins)] \subseteq (IF fn \in Functions THEN {} ELSE {0})
=============================================================================
