# Celeste in TLA+

Celeste is an interpreter for a small language (integers, booleans, strings, arrays,
hashes, closures). A line typed at the REPL goes through a lexer, a Pratt parser, a
compiler to bytecode and a stack machine; a second engine, which the benchmark can choose,
evaluates the syntax tree directly. These modules model all of it from the text to the
answer, check it with TLC and prove with TLAPS what can be proved of it for every program.

## The system

| Part | State | Operations | Talks to |
|---|---|---|---|
| Lexer `lexer/`, tokens `token/` | cursor in the input | `NextToken` | called by the parser |
| Parser `parser/`, tree `ast/` | current and next token, errors | `ParseProgram` and one function per construct | returns a tree to the REPL |
| Symbol table `compiler/symbol_table.go` | chain of tables: names, number of definitions, captured symbols | `Define`, `DefineBuiltin`, `Resolve`, `defineFree`, `NewEnclosedSymbolTable` | owned by the compiler; the global one by the session |
| Compiler `compiler/compiler.go` | constants, symbol table, stack of compilation scopes | `Compile`, one case per node | calls the symbol table and `code.Make` |
| Bytecode `code/` | none | `Make`, `ReadOperands`, `Instructions.String` | written by the compiler, read by the machine |
| Objects, built-ins `object/` | values | `HashKey`, `Inspect`, six built-in functions | used by compiler and machine |
| Machine `vm/` | stack, sp, globals, frames | `Run`, one case per opcode | new for each line, on the session's globals |
| REPL `repl/` | constants, globals, symbol table | `Start` | drives all of the above |
| Evaluator `evaluator/`, `object/environment.go` | chained environments | `Eval`, one case per node | used by the benchmark only |
| Benchmark `benchmark/` | none | one program through either engine | drives parser and both engines |
| `main.go` | none | starts the REPL | |

The program is sequential. What makes it hard is long-lived state under long sequences of
legal steps: captures through several functions, code that is cut and patched while it is
written, operands abandoned on the stack by an early return, lines that fail half way
while the session goes on, limits of operands, stack, frames and globals. PROJECT.json
lists these hazards line by line with the properties that cover them.

What makes each part correct:

- lexer: each call takes the longest token there is and the end is reached;
- parser: the tree says what the text says, with nothing passed over and no hole that was
  not reported, and every text is parsed to its end;
- evaluator: an error reaches the top; its answer is the machine's answer;
- symbol table: a name resolves to the declaration lexical scoping gives it; every symbol
  names a slot that exists; no two names share one;
- bytecode: what `Make` writes is what is read back, and the reader ends;
- compiler: jumps land on instructions, slots exist, the stack balances on every path,
  `lastInstruction` is the last instruction;
- machine: frames stay nested, a function never touches its callers, the stack is as deep
  as the code implies;
- machine: it panics only for a cause in the program;
- session: every line is answered; earlier closures and globals keep their meaning, and
  names and values stay in step.

## Modules

| Module | Models | How |
|---|---|---|
| `LexicalScope` | what the symbol table promises | bodies that declare, look up, open, close; no tables |
| `SymbolTable` | `compiler/symbol_table.go` | methods as operators on the chain of tables; then a state machine with one action per call |
| `Code` | `code/code.go` | opcodes, widths, `Make`, reads; truncation by `% ByteSize` |
| `Disassembler` | `Instructions.String` | one action per turn of its loop |
| `Objects` | `object/` | values as records; `ref` is the pointer where Go compares pointers; `Nil` is Go's nil |
| `Token`, `Lexer` | `token/`, `lexer/` | a text is a TLA+ string; `NextToken` is one step of the cursor, a loop over characters the position where it stops |
| `Ast`, `AstString`, `Samples` | `ast/ast.go` | the shape of the nodes, and `Grammar`, what the types of their fields allow; `String`; shorthands for sample programs |
| `Parser` | `parser/parser.go` | recursion is the work list `todo`, the value of the last call is `value`; one action per function, or per stretch between two recursive calls |
| `Emission` | `compiler/compiler.go` | the code of one function while it is written: `emit`, `removeLastPop`, `changeOperand`; where its instructions start and how deep the stack is there |
| `Compiler` | `compiler/compiler.go` | extends `Emission`; recursion is the work list `todo`; one action per case of `Compile`, or per stretch between two recursive calls; instances `SymbolTable` |
| `VM` | `vm/vm.go`, `vm/frame.go` | one action per case of `Run`, with its error returns and the run-time panics of Go |
| `Repl` | `repl/repl.go` | extends `VM`, instances `Compiler`; what outlives a line and what does not |
| `Evaluator` | `evaluator/`, `object/environment.go` | recursion is the work list `work`, the value of the last call is `val`; an environment is a number |
| `Benchmark` | `benchmark/main.go` | extends `VM`, instances `Parser`, `Compiler`, `Evaluator`: one text through both engines, one after the other |
| `SymbolTableProofs`, `CompilerProofs`, `DisassemblerProofs`, `LexerProofs`, `ParserProofs`, `ReplProofs`, `BenchmarkProofs` | | theorems about the module of that name; `ReplProofs` is about the machine and the session together |
| `ProofBasics` | | induction, facts about sequences, what `Make` writes and reads find, and what each operation of `Emission` does to code, which the proofs share |
| `MCSymbolTable`, `MCDisassembler`, `MCCompiler`, `MCRepl`, `MCSession`, `MCLexer`, `MCParser`, `MCBenchmark` | | texts, programs, sessions and values for TLC |

`Resolve` is recursive in Go and closed in the model: the nearest table that stores the
name is its home, and every table further in captures what the table outside it resolved
to. The order of the writes does not matter because each touches its own table.

The parser reads the tokens of its text from a list that `Lexer!Tokens` makes once: what
`NextToken` returns does not depend on the parser. A recursive call and the code behind it
are items of the work list, so that a Go function with two recursive calls in it is three
actions. Messages of errors are left out; that there is one is kept. The lexer's NUL, which
a TLA+ string cannot spell, is the constant `NUL` (the character @ in the runs).

A panic is the status `"panic"` of the machine; nothing in the program recovers it, and the
REPL ends in the phase `"crashed"`. Definitions whose comment starts with "Mutant:" are
deliberately wrong variants; they are not part of any specification.

## Runs

| Run | Configuration | Checks | Distinct states |
|---|---|---|---|
| symbols | 2 names (one built-in that may be shadowed), 4 nested tables, 2 definitions each | type, `StoredLoadable`, `CapturesLoadable`, `NoSharedSlot`, refinement of `LexicalScope` | 62,328 |
| disassembler | streams of up to 3 instructions of every layout, operands 0, 255, 256, 65535, 65536 | `ListsWhatWasEmitted`, `ListsEverything` | 33,241 |
| compiler | all programs of the grammar in `MCCompiler` | type, `LastInstructionTracked`, `JumpsLand`, `SlotsExist`, `StackBalanced` | 73,901 |
| pipeline | one line: all operators on all kinds of operands, calls with every body of a grammar, recursion past the limits | type, `FramesNested`, `DepthAsCompiled`, `CallerIsolation`, `EveryLineAnswered`, `PanicsExplained` | 24,636 |
| session | up to 4 lines out of 7 that define, redefine, capture and fail, and lines that do not parse | `ClosuresServed`, `GlobalsWrittenOnce`, `DefinedMeansSet` | 18,928 |
| lexer | all texts of up to 4 characters out of 9, and some longer ones | `LongestMatch`, `EndReached` | 55,553 |
| parser | texts of all trees of two operators and of every node; four texts with one word cut, dropped, replaced or inserted at every place; all texts of two words | `RoundTrip`, `NoHoles`, `NothingPassedOver`, `BracketsMatch`, `EveryTextParsed` | 210,953 |
| engines | 1074 programs: every operator on every kind, eight faults in sixteen places, three names bound at three levels in every combination, recursion and higher-order functions | `EnginesAgree`, `ErrorsKept`, `BothEnd` | 156,262 |
| limits | 29 values to a byte; as many locals, arguments and captures as fit | `EnginesAgree` | 2,046 |
| valueless_if | `if (true) { let a = 1; }` | violates `StackBalanced` | |
| local_recursion | a recursive function bound inside a function | violates `CapturesBound` | |
| many_locals | more locals than stack | violates `StackPointerInStack` | |

Bounds. Four tables (the global one and three functions) are the least in which a local is
captured through a function that neither declares nor uses it; two definitions are the least for shadowing and redefinition in
one table, and two names the least for captures and definitions to interleave (three names
give two million states and the same result). The grammar nests conditionals and functions two deep, with arms that end in a
value, a return or a let followed by a value, since back-patching only interferes with the
conditional directly inside. The stack has 14 slots (8 in sessions), frames 6, globals 3
(8 in sessions): small enough that samples overflow each of stack and frames, large enough
that the others do not. Integers have 8 bits (`IntSize = 256`), so that `100 * 2` wraps.
The hash of a string is its length, so that two strings collide. Bytes are real ones.
A text of four characters is the least in which two two-character operators, or a string
and what follows it, stand side by side; longer tokens only repeat a loop. Two operators
next to a third decide precedence and associativity, since the parser compares two at a
time. In the run engines the stack has 20 slots and the globals 8, which only the program
that never ends its recursion exceeds; both engines may nest 6 calls. In the run limits a
byte holds 29 values, the least that number all opcodes, so that 29 locals (the last has
index 28) and 28 arguments or captures are the most an operand can name.
The runs whose programs stop do not check deadlock: a compiled program and a closed or
crashed session are the end.

The passing runs keep to conditionals whose arms leave a value or return. What happens
otherwise is the finding of valueless_if, and the stack properties do not hold there.

`RoundTrip` compares with the tree a text was written from, by a writer (`Text`) that puts
parentheses only where precedence and left associativity call for them, and, for operators,
by the program's own `String`. `NothingPassedOver` compares the words of the tree, left to
right, with the tokens that were read. `BracketsMatch` states the two exceptions of the
parser: the end of input closes open blocks, and a bracket in a parameter list is a name.
`DefinedMeansSet` needs to know whether a line has failed, which the program does not
remember: `MCSession` adds the variable `spoilt` for it.

Fairness. `EveryLineAnswered`, `ListsEverything`, `EndReached`, `EveryTextParsed` and
`BothEnd` assume weak fairness of the steps that work on a line, a listing, a text or a
program: one goroutine runs them and nothing else competes. Nothing
is assumed of the user, who may never type another line.

## Findings

- **A local function cannot call itself** (`compiler.go:186`). The name is defined before
  the function is compiled, "allowing for RECURSIVE FUNCTIONS!!!"; inside a function
  OpClosure copies the slot before OpSetLocal fills it, and the closure captures nil.
- **A conditional may have no value** (`compiler.go:152`). An arm that ends in a let, or is
  empty, leaves nothing for the pop that follows; at top level the machine panics.
- **sp may leave the stack** (`vm.go:500` against the comment at `vm.go:43`). `callClosure`
  reserves locals without a check; the next push reports the overflow.

Also visible in the model, with nothing in the repository that promises otherwise: a failed
`let x = ...` leaves `x` defined and unset, so printing `x` panics; an empty line
panics too, because its new machine has popped nothing; `1 == true`, `1 / 0`, a `return` at
top level and recursion deeper than the frames end the process.

## The two engines

`EnginesAgree` holds for the programs of the run engines, which keep to what the engines
have in common. Where they are known to differ, and nothing in the repository says which is
right:

- an integer compared with something else: the machine panics, the evaluator answers false
  for `==` and an error for `<`;
- two strings compared with `==`: the machine compares pointers, the evaluator reports an
  error;
- the error a built-in returns (`len(1)`) is a value for the machine, an error for the
  evaluator;
- an error as the left operand is dropped by the evaluator (`evaluator.go:47`);
- a name that does not exist is an error of the whole program for the compiler, of its use
  for the evaluator; so is a global defined after the function that reads it;
- a call with the wrong number of arguments: an error of the machine; the evaluator panics
  or ignores the rest;
- a `return` at top level, or inside an operand or the value of a let; redefinition of a
  name that was captured; `let x = ...` that reads an outer `x`; local recursion;
  conditionals and functions without a value; a program that ends in a let; duplicate keys;
- depth: the machine has 1024 frames, the evaluator Go's stack.

## Proofs

| Theorem | States, for every value of the constants | Inductive invariant |
|---|---|---|
| `SymbolTableProofs!TypeCorrect`, `NamesLoadable`, `FreeSymbolsLoadable`, `SlotsNeverShared` | `TypeOK`, `StoredLoadable`, `CapturesLoadable`, `NoSharedSlot` of the symbol table | `IInv`, their conjunction |
| `SymbolTableProofs!ImplementsLexicalScope` | `ResolvesLexically`: the symbol table implements `LexicalScope` | `IInv` and `StoredMeansNearest` |
| `CompilerProofs!CompilerTypes`, `LastIsLast`, `JumpsReachInstructions` | `TypeOK`, `LastInstructionTracked`, `CodeFits => JumpsLand` of the compiler | `CInv` |
| `CompilerProofs!NamedSlotsExist` | `SlotsExist`, while `SizesFit` | `CInv` and `RoomInv` |
| `CompilerProofs!CodeBalanced` | `CodeFits => StackBalanced` of programs that are `Valued`, while `SizesFit` | `CInv` and `LevelInv` |
| `ReplProofs!LinesNameWhatExists` | in every line of a session the positions fit, hashes have whole pairs and `SlotsExist`, while `SmallLines` | `Session` and `Roomy` |
| `ReplProofs!TypeCorrect`, `ClosuresStayServed` | `Repl!TypeOK`, `ClosuresServed`, while `SmallLines` | `Session` and `Roomy` |
| `ReplProofs!FramesStayNested`, `DepthsAsCompiled`, `CallersIsolated` | `FramesNested`, `DepthAsCompiled`, `CallerIsolation` of lines that are `Valued`, while `SmallLines` | these, `Poised` and `Stacked` |
| `ReplProofs!PanicsHaveCauses` | `PanicsExplained` of lines that are `Valued`, while `SmallLines` and `StackPointerInStack` | the same |
| `DisassemblerProofs!StreamReadBack` | `ListsWhatWasEmitted` | `IInv`: where each instruction lies |
| `LexerProofs!TokensAreLongest` | `LongestMatch` | `LInv`: the lexer is a text and a position |
| `ParserProofs!TreesAreWhole` | `NoHoles` | `PInv`: what each pending call carries |
| `BenchmarkProofs!ErrorsArrive` | `ErrorsKept` | `EInv`: who is waiting |

**Assumptions.** Names and built-ins: `SymbolTableAssumption` (no built-in is listed twice).
Bytes: `ByteSizeAssumption`, a byte holds every opcode. Emitted instructions:
`DisassemblerAssumption`, as many operands as the opcode has and none negative, which is
what `emit` passes. Texts: `LexerAssumption`, a text has a length and NUL is no letter,
digit, blank, quote, operator or delimiter. Programs: the theorems about the compiler are
about any set of whole trees, `Grammar(trees)`. The types of `ast.go` give each field its
kind, and `TreesAreWhole` says that a text without syntax errors leaves none nil; TLC
evaluates `Grammar` for the programs of the runs compiler, pipeline and session
(`WholePrograms`, `WholeLines`). Code size: an
operand has two bytes, and `Make` cuts a longer target without a word, so the theorem about
jumps is about states where finished code is no longer than two bytes can address
(`CodeFits`).

**Hypotheses.** Theorems of the form `Spec /\ []H => []P` are about behaviours in which `H`
holds throughout. `SizesFit` is about two limits of the encoding that no code checks: the
pool has at most as many constants as two bytes can count, and a function captures fewer
values than one byte can count. `SmallLines` says this and `CodeFits` of every line of a
session. A byte holds an even number of values (256 in the code), so that cutting the number
of operands of OpHash leaves it even. `Valued` is a condition on trees: both arms of an if end
in an expression or a return, as the comment at `compiler.go:152` takes for granted, an array,
a hash and a call have no more operands than their instruction can count. It cannot be left
out: the finding valueless_if is a program that is not `Valued` and whose code is not balanced.
The hypotheses are not empty: the runs pipeline and session stay within the sizes, and TLC
evaluates `Valued` for all programs of the runs compiler, pipeline and session
(`ValuedPrograms`, `WholeLines`). `PanicsHaveCauses` asks for more: sp stays in the stack, which
a function with too many locals breaks (the finding many_locals), and two bytes name no more
globals than there are slots, `ByteSize * ByteSize <= GlobalsSize`, as 256 * 256 = 65536 do in
the code. The run pipeline has three slots, and no line of it names more globals than that.

**Symbol table.** None of the four invariants is inductive alone: that a new index is unused
needs the old ones to be in range, and that a capture stays loadable needs the enclosing
table's entries to stay what they are. `Define` and `defineFree` have a lemma each about the
one table they change (`DefinedTable`, `CapturingTable`); one lemma per action lifts them to
the chain. The refinement mapping follows a captured symbol outwards, table by table, to the
declaration it means (`Declaration`). `StoredMeansNearest` says that every stored symbol
means the nearest declaration of its name outside or at its table; `DeclarationStable` that
later captures do not change what an older symbol means. With them every step of the tables
is a step of `LexicalScope`, `Resolve` one that answers with the nearest declaration.

**Compiler.** `removeLastPop` has one instruction of history, so that `lastInstruction` stays
right only if no two pops are taken off in a row. That in turn depends on the whole tree:
`CInv` is therefore about the work left. Every item has a depth, the number of the scope it
will work in; the ends of functions are where the depth goes down, and the last item leaves
the program's scope (this is also the counting in `TypeOK`). A pending back-patch finds its
jump, with its opcode, in that scope (`Placed`). And where a pop is emitted, or an if without
else is joined, the item before it leaves code that does not end in a pop (`Demands`,
`Leaves`). A scope is good (`GoodScope`) if the last instruction is tracked and, when it is a
pop, the previous one is too and is no pop. `EmitGood`, `KeepValueGood` and
`ChangeOperandGood` say what the three ways to touch code do to a good scope; that an
instruction of the code stays one when the code behind it is cut, extended or patched is
`StartsShared`, from a characterisation of `Starts` as the least set closed under going to
the next instruction. `Continues` replaces an item by the items its call leaves; each action
has one lemma on top of it.

Jumps are followed in the same invariant. A jump with its bogus operand waits for a pending
back-patch of its scope (`WaitsIn`); every other jump goes to an instruction or right behind
the last one (`Settled`), and never behind the last one while the code ends in a pop that
may still be taken off (`Tight`; together `GoodJumps`). `EmitJumps`, `KeepValueJumps`,
`ChangeOperandJumps` and `EndBodyJumps` say what each way to touch code does to this; what a
call patches and what it leaves waiting is `Moves`, and `JumpsContinue` lifts it to the work
left. A jump behind the last instruction must not survive in finished code: the last item of
a function or a program leaves an instruction behind every target (`Seals`), or is a block
with nothing left to do (`Block`, `Closing`, `Ready`).

**Slots.** `SlotsExist` speaks of finished code, and is proved of code while it is written
(`Named`: every operand of an instruction is within the room of its scope). The room of a
scope is the number of definitions of its table, of the global table and of its captures;
`Rooms` says that every symbol of a table is within it, and since tables only grow while
they are open (`Wider`) what was emitted stays named. The difficulty is the work left: an
assignment or a load that is pending holds a symbol that was resolved earlier (`Pending`,
`Due`), a function that is left takes its table with it, so that its code has to be named by
the number of locals it is frozen with, and the captures that are loaded behind it have to be
within the room of the scope outside (`FunctionEndRooms`). The pool is `Furnished` if every
function in it finds its globals, constants and captures there. The program itself has no
function around it and captures nothing, so it never loads a captured value (`ProgramCode`). A session starts a line with
the tables and the pool of the lines before it, so `Roomy` carries this across lines that
succeed, fail to compile, fail to run or do not parse.

**Balance.** `StackBalanced` speaks of all paths through finished code, while the compiler
writes code with holes in it: a jump with its bogus operand, whose target is only known later.
The invariant `LevelInv` therefore does not count along paths but gives every position of the
code a level: code `Follows` its levels if every instruction finds what it takes and leaves
what the level of each successor says; a jump that waits for its back-patch is excused. The
work left carries the rest. `Flows` says from which level an item starts and at which it ends
(an expression leaves one value more, a statement none), and that the jump it will patch has
the level it will be sent to. `Flow` chains the items of `todo`: where one ends the next
begins, in the scope it works in, and whatever takes a pop off the end of a block (`Closer`)
comes after an item that leaves a pop or a return there (`Shuts`). This is where `Valued` is
needed: without it `removeLastPop` finds nothing to take off and the two ways into the join
disagree. Appending an instruction, taking a pop off and patching a jump have a lemma each, and
so has every action (`NextLevels`). A function in the pool follows some levels and returns
before its end (`Leveled`). `Depths`, the definition that TLC evaluates, never holds anything
but the level (`LevelsBalanced`, by induction over the positions). `Poised` carries `LevelInv`
through a session: the saved functions keep their levels and each line starts at level 0.

**Machine.** There is an infinite supply of values, so the invariant speaks of some set `V`
of values that contains what stack, globals, constants and frames hold and the parts of its
members (`Holding`). Every closure of `V` runs a function of the pool and holds at least as
many captured values as its code names (`Offered`): this is what lets a function of an
earlier line be called in a later one. Every frame stands at an instruction of finished code
(`Running`), and by `JumpsLand` goes on to one. `StepOutcome` sorts the 25 actions into the
four effects an instruction can have on the stack and the frames, with the value it makes:
within the frame, call, return, stop; the invariant is then shown of the four.

For the depth of the stack, `Depths` is computed once, forward over the code
(`DepthsFlow` shows that its recursive definition is what flows along every edge, from the
fact that jumps go forward). `Nested` says that the region of each frame, from its base
pointer to where the next one begins, holds its locals and one of the depths of its code
there, and that the callee of each frame is still in its slot. With balanced code (`Poised`)
no instruction takes more operands than its frame has (`OperandsThere`), so that whatever it writes is above
the locals: `CallerUntouched` is then a fact about one step.

A panic of the machine is an access that nothing checks. `PanicsHaveCauses` goes through the
actions and rules out every such access that the compiler answers for: operands that are not
there (`OperandsHeld`), constants, globals, locals, built-ins and captured values that do not
exist (`NamedThere`), a return without a value from the program, which only closes bodies of
functions with OpReturn (`Ongoing`). What remains is `PanicCause`, and each part of it is in the
program that was typed: a division by zero, an integer compared with something else, more calls
than frames, `return` outside a function, and a name that is used before it is set.

**Bytecode.** `ProofBasics` shows that two bytes hold a number modulo `ByteSize * ByteSize`
(`TwoBytes`), and that reading at a position where `Make` wrote returns the operands cut to
their widths (`MakeWrites`, `ReadsWhatMakeWrote`). `StreamReadBack` is the same of a whole
stream: the invariant knows the offset of every instruction, so the cursor always stands
where one begins.

**Lexer.** The first character decides what a token may be (`ByFirstCharacter`,
`KindsDisjoint`), the loops stop at the first character that is not theirs (`WhileStops`,
`StringStops`), and so no longer token fits (`NoneLonger`).

**Parser.** `NoHoles` is about the value of the last call. It is inductive once the nodes
that pending calls carry are known to be whole but for the field they wait for; every action
then is a return of a whole node, a list of calls, or an error (`Shaped`).

**Evaluator.** An error can only be lost by work that starts something while it is being
returned. `Waiting` says that only the next item ever starts something, and not while the
value is an error, unless an error was left behind as a left operand.

**Technique.** The library's induction theorems take an operator and cannot be used by the
installed provers, so induction is over sets (`LeastNumber`, `SetInduction`: a set that holds
0 and the successors of its members holds every number). A recursive function is a CHOOSE;
that there is such a function is shown by the same induction (`LoadsExists`,
`DefinesExists`, `FollowExists`, `StartsReached`), and then its defining equation can be used.

**Only model-checked.** Liveness (`ListsEverything`, `EveryLineAnswered`, `EndReached`,
`EveryTextParsed`, `BothEnd`), which this prover cannot do. `RoundTrip`, `NothingPassedOver`
and `BracketsMatch` compare with recursive operators over trees, and `EnginesAgree` compares
two engines over whole runs. `DefinedMeansSet` needs to know which
instructions of a line have run, and `GlobalsWrittenOnce` that every assignment of a line is
executed at most once.

## Not modelled

The text of printed values and errors, the timing of the benchmark, and `main.go`, which
prints a greeting and starts the REPL. The session takes syntax trees, or syntax errors;
texts are parsed in the runs parser, engines and limits.

## What is left

Of the proofs: `DefinedMeansSet` and `GlobalsWrittenOnce`, which need an invariant that relates
each instruction of a line to the one assignment it was compiled from; the other properties
without a theorem are liveness or compare with recursive operators. No module with theorems may
reach a RECURSIVE operator: they are in `AstString`, `Samples`, `MCParser` and `MCBenchmark` only.
