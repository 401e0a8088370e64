-------------------------------- MODULE Repl --------------------------------
(***************************************************************************)
(* repl/repl.go Start: a session.  Each line is parsed, compiled with the  *)
(* symbol table and the constants of the lines before it, and run with the *)
(* globals they left.  The compiler and the machine of a line are new; the *)
(* symbol table, the constants and the globals live as long as the session *)
(* does.  The parser is seen as the syntax tree it returns, or as its      *)
(* errors.                                                                 *)
(***************************************************************************)
EXTENDS VM

CONSTANTS
  Names,        (* See Compiler.                                           *)
  KeyText(_),   (* See Compiler.                                           *)
  Programs,     (* The lines that parse, as syntax trees.                  *)
  MaxLines      (* Bound: lines in a session.                              *)

ASSUME ReplAssumption == MaxLines \in Nat

VARIABLES
  saved,         (* Start's constants                                      *)
  pool,          (* The compiler's constants                               *)
  symbolTable,   (* The compiler's tables; the first is the session's      *)
  scopes, todo, failed,   (* See Compiler.                                 *)
  phase,         (* "read", "compile", "run", "crashed" or "closed"        *)
  lines          (* How many lines were read.                              *)

compilerVars == <<pool, symbolTable, scopes, todo, failed>>
sessionVars  == <<saved, phase, lines>>
vars         == <<vmVars, compilerVars, sessionVars>>

C == INSTANCE Compiler WITH constants <- pool

Init ==
  /\ saved = <<>> /\ pool = <<>> /\ constants = <<>>
  /\ globals = EmptySlots(GlobalsSize)
  /\ symbolTable = <<C!Symbols!DefineBuiltins>>
  /\ scopes = <<C!NewScope>> /\ todo = <<>> /\ failed = FALSE
  /\ stack = EmptySlots(StackSize) /\ sp = 0 /\ frames = <<MainFrame(<<>>)>>
  /\ status = "done" /\ heap = 0
  /\ phase = "read" /\ lines = 0

(* scanner.Scan, and a line that parses: NewWithState.                     *)
ReadLine(program) ==
  /\ phase = "read" /\ lines < MaxLines
  /\ lines' = lines + 1
  /\ phase' = "compile"
  /\ pool' = saved
  /\ symbolTable' = <<symbolTable[1]>>
  /\ scopes' = <<C!NewScope>> /\ todo' = <<C!Visit(program)>> /\ failed' = FALSE
  /\ UNCHANGED <<vmVars, saved>>

(* A line with syntax errors: they are printed, nothing else happens.      *)
ReadBadLine ==
  /\ phase = "read" /\ lines < MaxLines
  /\ lines' = lines + 1
  /\ UNCHANGED <<vmVars, compilerVars, saved, phase>>

EndOfInput ==
  /\ phase = "read"
  /\ phase' = "closed"
  /\ UNCHANGED <<vmVars, compilerVars, saved, lines>>

CompileStep ==
  /\ phase = "compile"
  /\ C!Next
  /\ UNCHANGED <<vmVars, sessionVars>>

(* "Whoops! Compilation failed": what the line defined stays defined.      *)
CompileFails ==
  /\ phase = "compile" /\ failed
  /\ phase' = "read"
  /\ UNCHANGED <<vmVars, compilerVars, saved, lines>>

(* Mutant: the constants of the line are not saved.                        *)
StartMachineUnsaved ==
  /\ phase = "compile" /\ C!Compiled
  /\ constants' = C!Bytecode.Constants
  /\ frames' = <<MainFrame(C!Bytecode.Instructions)>>
  /\ stack' = EmptySlots(StackSize) /\ sp' = 0
  /\ status' = "running"
  /\ phase' = "run"
  /\ UNCHANGED <<saved, compilerVars, globals, heap, lines>>

(* Mutant: vm.New, with globals of its own.                                *)
StartMachineNewGlobals ==
  /\ phase = "compile" /\ C!Compiled
  /\ saved' = C!Bytecode.Constants
  /\ constants' = C!Bytecode.Constants
  /\ frames' = <<MainFrame(C!Bytecode.Instructions)>>
  /\ stack' = EmptySlots(StackSize) /\ sp' = 0
  /\ globals' = EmptySlots(GlobalsSize)
  /\ status' = "running"
  /\ phase' = "run"
  /\ UNCHANGED <<compilerVars, heap, lines>>

(* The constants are saved before the machine runs.                        *)
StartMachine ==
  /\ phase = "compile" /\ C!Compiled
  /\ saved' = C!Bytecode.Constants
  /\ constants' = C!Bytecode.Constants
  /\ frames' = <<MainFrame(C!Bytecode.Instructions)>>
  /\ stack' = EmptySlots(StackSize) /\ sp' = 0
  /\ status' = "running"
  /\ phase' = "run"
  /\ UNCHANGED <<compilerVars, globals, heap, lines>>

RunStep ==
  /\ phase = "run"
  /\ Step
  /\ UNCHANGED <<compilerVars, sessionVars>>

RunFails ==
  /\ phase = "run" /\ status = "error"
  /\ phase' = "read"
  /\ UNCHANGED <<vmVars, compilerVars, saved, lines>>

RunPanics ==
  /\ phase = "run" /\ status = "panic"
  /\ phase' = "crashed"
  /\ UNCHANGED <<vmVars, compilerVars, saved, lines>>

(* LastPoppedStackElem().Inspect()                                         *)
PrintAnswer ==
  /\ phase = "run" /\ status = "done"
  /\ phase' = IF sp \in DOMAIN stack /\ ~HasHole(stack[sp]) THEN "read" ELSE "crashed"
  /\ UNCHANGED <<vmVars, compilerVars, saved, lines>>

Work == CompileStep \/ CompileFails \/ StartMachine \/ RunStep \/ RunFails \/ RunPanics \/ PrintAnswer

Next ==
  \/ \E program \in Programs : ReadLine(program)
  \/ ReadBadLine
  \/ EndOfInput
  \/ Work

(* A line that was read is worked on until it is answered; nobody has to   *)
(* type another.                                                           *)
Spec == Init /\ [][Next]_vars /\ WF_vars(Work)

-----------------------------------------------------------------------------
(* Type invariant.                                                         *)
TypeOK ==
  /\ phase \in {"read", "compile", "run", "crashed", "closed"}
  /\ status \in {"running", "done", "error", "panic"}
  /\ DOMAIN stack = 0..StackSize - 1 /\ DOMAIN globals = 0..GlobalsSize - 1
  /\ sp \in Int /\ Len(frames) \in 0..MaxFrames
  /\ \A k \in DOMAIN frames : frames[k].cl.type = CLOSURE_OBJ
  /\ heap \in Nat /\ lines \in 0..MaxLines

(* No step of a function touches what its callers have on the stack or     *)
(* where they stand (vm.go:138-144, 196-213, 493-503).                     *)
CallerIsolation == [][CallerUntouched]_vars

(* Every panic of the machine has a cause in the program (vm.go:200, 311,  *)
(* 334, 484): compiled code never reads past the stack, the constants, the *)
(* captures or the globals.                                                *)
PanicsExplained == [][PanicExplained]_vars

(* The machine's stack is as deep as the compiler's code implies wherever  *)
(* it stands, in the running function and in every caller, whatever was    *)
(* called, returned early or thrown away before: operands are never taken  *)
(* from locals or from a caller, and none is left behind.                  *)
DepthAsCompiled ==
  status = "running" =>
    \A k \in DOMAIN frames :
      LET fn     == frames[k].cl.Fn
          values == Limit(k) - frames[k].basePointer - fn.NumLocals
      IN  (IF k = Len(frames) THEN values ELSE values + 1)
            \in C!Depths(fn.Instructions)[frames[k].ip + 1]

(* Every line is answered: compiled code has no loop that is not a call,   *)
(* and calls are limited by the frames of the machine.                     *)
EveryLineAnswered == phase = "compile" ~> phase \in {"read", "crashed"}

(* Code of an earlier line goes on meaning what it meant: the function of  *)
(* every closure that a global holds or a frame runs is a function of the  *)
(* machine's pool, and the constants that its code names are there and of  *)
(* the kind its instructions take (repl.go:73 saves them even if the line  *)
(* then fails).                                                            *)
Served(fn) ==
  /\ \E k \in DOMAIN constants : constants[k] = fn
  /\ \A p \in C!Uses(fn, {OpConstant, OpClosure}) :
       LET i == ReadUint16(fn.Instructions, p + 1)
       IN  /\ i < Len(constants)
           /\ constants[i + 1].type = COMPILED_FUNCTION_OBJ <=> fn.Instructions[p + 1] = OpClosure

ClosuresServed ==
  phase = "run" =>
    /\ \A i \in DOMAIN globals : globals[i].type = CLOSURE_OBJ => Served(globals[i].Fn)
    /\ \A k \in DOMAIN frames : k > 1 => Served(frames[k].cl.Fn)

(* A global slot is written at most once in a session: a let of a name     *)
(* that exists takes a slot of its own (symbol_table.go:47), so no later   *)
(* line, good or failing, changes the variable a compiled function reads.  *)
GlobalsWrittenOnce ==
  [][\A i \in DOMAIN globals : globals[i] # Nil => globals'[i] = globals[i]]_vars
=============================================================================
