------------------------------ MODULE Benchmark ------------------------------
(***************************************************************************)
(* benchmark/main.go: one program, run by the compiler and its machine or  *)
(* by the evaluator.  The model composes the parser with both engines and  *)
(* stands for two invocations on the same input, the first with            *)
(* -engine=vm and the second with -engine=eval, whose results are then     *)
(* compared.  main does not look at the parser's errors: its input, a      *)
(* constant, has none.                                                     *)
(***************************************************************************)
EXTENDS VM

CONSTANTS
  NUL, Inputs,       (* See Lexer.                                         *)
  Names, KeyText(_), (* See Compiler.                                      *)
  MaxCalls           (* See Evaluator.                                     *)

ASSUME BenchmarkAssumption == MaxCalls \in Nat

VARIABLES
  p, calls, tree, errors,               (* See Parser.                     *)
  pool, symbolTable, scopes, todo, failed,   (* See Compiler.              *)
  envs, work, val, panicked, made,      (* See Evaluator.                  *)
  phase    (* "parse", "compile", "run", "eval" or "end"                   *)

parserVars    == <<p, calls, tree, errors>>
compilerVars  == <<pool, symbolTable, scopes, todo, failed>>
evaluatorVars == <<envs, work, val, panicked, made>>
vars == <<parserVars, compilerVars, vmVars, evaluatorVars, phase>>

P == INSTANCE Parser WITH todo <- calls, value <- tree, failed <- errors
C == INSTANCE Compiler WITH constants <- pool, Programs <- {}
E == INSTANCE Evaluator WITH Programs <- {}

Init ==
  /\ \E input \in Inputs : P!Start(input)
  /\ pool = <<>> /\ symbolTable = <<C!Symbols!DefineBuiltins>>
  /\ scopes = <<C!NewScope>> /\ todo = <<>> /\ failed = FALSE
  /\ constants = <<>> /\ globals = EmptySlots(GlobalsSize)
  /\ stack = EmptySlots(StackSize) /\ sp = 0 /\ frames = <<MainFrame(<<>>)>>
  /\ status = "done" /\ heap = 0
  /\ envs = <<E!NewEnclosedEnvironment(0)>> /\ work = <<>> /\ val = Nil
  /\ panicked = FALSE /\ made = 0
  /\ phase = "parse"

ParseStep ==
  phase = "parse" /\ P!Next /\ UNCHANGED <<compilerVars, vmVars, evaluatorVars, phase>>

(* compiler.New, comp.Compile(program)                                     *)
StartCompiler ==
  /\ phase = "parse" /\ P!Parsed
  /\ todo' = <<C!Visit(tree)>> /\ phase' = "compile"
  /\ UNCHANGED <<parserVars, pool, symbolTable, scopes, failed, vmVars, evaluatorVars>>

CompileStep ==
  phase = "compile" /\ C!Next /\ UNCHANGED <<parserVars, vmVars, evaluatorVars, phase>>

(* vm.New(comp.Bytecode())                                                 *)
StartMachine ==
  /\ phase = "compile" /\ C!Compiled
  /\ constants' = C!Bytecode.Constants
  /\ frames' = <<MainFrame(C!Bytecode.Instructions)>>
  /\ status' = "running" /\ phase' = "run"
  /\ UNCHANGED <<parserVars, compilerVars, stack, sp, globals, heap, evaluatorVars>>

RunStep ==
  phase = "run" /\ Step /\ UNCHANGED <<parserVars, compilerVars, evaluatorVars, phase>>

(* The second invocation: object.NewEnvironment, evaluator.Eval.           *)
StartEvaluator ==
  /\ (phase = "compile" /\ failed) \/ (phase = "run" /\ status # "running")
  /\ work' = <<E!Eval(tree, 1)>> /\ phase' = "eval"
  /\ UNCHANGED <<parserVars, compilerVars, vmVars, envs, val, panicked, made>>

EvalStep ==
  phase = "eval" /\ E!Next /\ UNCHANGED <<parserVars, compilerVars, vmVars, phase>>

EvalEnds ==
  /\ phase = "eval" /\ (E!Evaluated \/ panicked)
  /\ phase' = "end"
  /\ UNCHANGED <<parserVars, compilerVars, vmVars, evaluatorVars>>

Next ==
  \/ ParseStep
  \/ StartCompiler
  \/ CompileStep
  \/ StartMachine
  \/ RunStep
  \/ StartEvaluator
  \/ EvalStep
  \/ EvalEnds

(* A program that has been started runs on.                                *)
Spec == Init /\ [][Next]_vars /\ WF_vars(Next)

-----------------------------------------------------------------------------
(* What main prints: the machine's or the compiler's error, the result's   *)
(* Inspect, which panics on nil, or nothing after a panic.                 *)
VMOutcome ==
  IF failed \/ status = "error" THEN "error"
  ELSE IF status = "panic" \/ sp \notin DOMAIN stack \/ HasHole(stack[sp]) THEN "panic"
  ELSE "value"

EvalOutcome ==
  IF panicked \/ HasHole(val) THEN "panic" ELSE IF E!IsError(val) THEN "error" ELSE "value"

(* Every program ends under both engines.                                  *)
BothEnd == <>(phase = "end")

(* The evaluator never drops an error, but for one that is the left        *)
(* operand of an operator (evaluator.go:47 returns the right one for it):  *)
(* whatever waits for the value of a call passes an error on.              *)
ErrorsKept ==
  [][E!Running /\ E!IsError(val)
       /\ ~E!Doing("right operand")
       /\ ~(\E k \in DOMAIN work : work[k].do = "infix" /\ E!IsError(work[k].left))
     => E!IsError(val')]_vars
==============================================================================
