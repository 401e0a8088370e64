---------------------------- MODULE CompilerProofs ----------------------------
(***************************************************************************)
(* compiler/compiler.go for every program: its scopes and tables go        *)
(* together, and lastInstruction names the last instruction, whatever was  *)
(* cut off and patched.  The invariant, CInv, says what each item of todo  *)
(* finds: in which scope it works, that the jump it will patch is there,   *)
(* and that no pop is on top where the compiler takes a value for granted. *)
(***************************************************************************)
EXTENDS Compiler, Ast, ProofBasics, FiniteSetTheorems

-----------------------------------------------------------------------------
(* A symbol that loadSymbol knows how to load.                             *)
Known(s) ==
  /\ s.Scope \in {Symbols!GlobalScope, Symbols!LocalScope, Symbols!BuiltinScope, Symbols!FreeScope}
  /\ s.Index \in Nat

(* loadSymbol emits one of the four loads.                                 *)
LEMMA LoadSymbolGood ==
  ASSUME NEW s, GoodScope(s), NEW symbol, Known(symbol)
  PROVE  LET e == LoadSymbol(s, symbol)
         IN  GoodScope(e) /\ CodeKept(s, e) /\ NoPop(e) /\ Passes(s, {}, e, {})
<1>. DEFINE op == CASE symbol.Scope = Symbols!GlobalScope  -> OpGetGlobal
                    [] symbol.Scope = Symbols!LocalScope   -> OpGetLocal
                    [] symbol.Scope = Symbols!BuiltinScope -> OpGetBuiltin
                    [] symbol.Scope = Symbols!FreeScope    -> OpGetFree
<1>1. op \in {OpGetGlobal, OpGetLocal, OpGetBuiltin, OpGetFree}
  BY DEF Known
<1>2. LoadSymbol(s, symbol) = Emit(s, op, <<symbol.Index>>)
  BY DEF LoadSymbol
<1>. HIDE DEF op
<1>3. op \in Opcodes /\ op # OpPop /\ op # OpReturn /\ op \notin JumpOps /\ Len(OperandWidths(op)) = 1
  <2>1. op \in Opcodes /\ op # OpPop /\ op # OpReturn /\ op \notin JumpOps
    BY <1>1 DEF Opcodes, OpPop, OpReturn, OpGetGlobal, OpGetLocal, OpGetBuiltin, OpGetFree, JumpOps, OpJump,
                OpJumpNotTruthy
  <2>2. op \in Wide \cup Narrow
    BY <1>1 DEF Wide, Narrow
  <2>. QED BY <2>1, <2>2, OperandTable
<1>4. <<symbol.Index>> \in [1..Len(OperandWidths(op)) -> Nat]
  BY <1>3 DEF Known
<1>. DEFINE e == Emit(s, op, <<symbol.Index>>)
<1>5. GoodScope(e) /\ CodeKept(s, e) /\ NoPop(e)
  BY <1>3, <1>4, EmitGood
<1>6. ASSUME NEW P, GoodJumps(s, P) PROVE GoodJumps(e, P)
  BY <1>3, <1>4, <1>6, EmitJumps
<1>. HIDE DEF e
<1>7. Passes(s, {}, e, {})
  BY <1>6 DEF Passes
<1>. QED BY <1>2, <1>5, <1>7 DEF e

(* The loop over what a function captures, as far as the k-th symbol.      *)
Loads(f, scope, symbols, k) ==
  f = [j \in 0..k |-> IF j = 0 THEN scope ELSE LoadSymbol(f[j - 1], symbols[j])]

(* The loop ends, whatever it loads.                                       *)
LEMMA LoadsExists ==
  ASSUME NEW scope, NEW symbols, NEW k \in Nat
  PROVE  \E f : Loads(f, scope, symbols, k)
<1>. DEFINE T == {m \in Nat : \E f : Loads(f, scope, symbols, m)}
<1>1. 0 \in T
  <2>1. Loads([j \in 0..0 |-> scope], scope, symbols, 0)
    BY DEF Loads
  <2>. QED BY <2>1
<1>2. ASSUME NEW m \in Nat, m \in T PROVE m + 1 \in T
  <2>1. PICK f : Loads(f, scope, symbols, m)
    BY <1>2
  <2>. DEFINE g == [j \in 0..m + 1 |-> IF j = m + 1 THEN LoadSymbol(f[m], symbols[j]) ELSE f[j]]
  <2>2. ASSUME NEW j \in 0..m + 1
        PROVE  g[j] = IF j = 0 THEN scope ELSE LoadSymbol(g[j - 1], symbols[j])
    <3>1. CASE j = m + 1
      <4>1. j # 0 /\ j - 1 = m /\ m \in 0..m + 1 /\ m # m + 1
        BY <3>1
      <4>2. g[j - 1] = f[m]
        BY <4>1
      <4>. QED BY <3>1, <4>1, <4>2
    <3>2. CASE j # m + 1
      <4>1. j \in 0..m /\ (j # 0 => j - 1 \in 0..m + 1 /\ j - 1 # m + 1)
        BY <3>2
      <4>2. g[j] = f[j] /\ (j # 0 => g[j - 1] = f[j - 1])
        BY <3>2, <4>1
      <4>. QED BY <2>1, <4>1, <4>2 DEF Loads
    <3>. QED BY <3>1, <3>2
  <2>3. Loads(g, scope, symbols, m + 1)
    BY <2>2 DEF Loads
  <2>. QED BY <2>3
<1>3. \A m \in Nat : m \in T
  BY <1>1, <1>2, SetInduction
<1>. QED BY <1>3

(* Loading what a function captures adds to the code of the function       *)
(* around it (compiler.go:292-294).                                        *)
LEMMA LoadAllGood ==
  ASSUME NEW s, GoodScope(s), NEW symbols, Len(symbols) \in Nat,
         \A k \in 1..Len(symbols) : Known(symbols[k])
  PROVE  /\ GoodScope(LoadAll(s, symbols)) /\ CodeKept(s, LoadAll(s, symbols))
         /\ Passes(s, {}, LoadAll(s, symbols), {})
<1>. DEFINE n == Len(symbols)
            c == CHOOSE f : Loads(f, s, symbols, n)
            T == {k \in Nat : k <= n => GoodScope(c[k]) /\ CodeKept(s, c[k]) /\ Passes(s, {}, c[k], {})}
<1>1. LoadAll(s, symbols) = c[n]
  BY DEF LoadAll, Loads
<1>2. Loads(c, s, symbols, n)
  BY LoadsExists
<1>. HIDE DEF c
<1>3. 0 \in T
  <2>1. c[0] = s
    BY <1>2 DEF Loads
  <2>. QED BY <2>1 DEF CodeKept, Passes
<1>4. ASSUME NEW k \in Nat, k \in T PROVE k + 1 \in T
  <2>. SUFFICES ASSUME k + 1 <= n
                PROVE  GoodScope(c[k + 1]) /\ CodeKept(s, c[k + 1]) /\ Passes(s, {}, c[k + 1], {})
    OBVIOUS
  <2>1. k + 1 \in 0..n /\ k + 1 # 0 /\ (k + 1) - 1 = k /\ k <= n /\ k + 1 \in 1..n
    OBVIOUS
  <2>2. c[k + 1] = LoadSymbol(c[k], symbols[k + 1])
    BY <1>2, <2>1 DEF Loads
  <2>3. GoodScope(c[k]) /\ CodeKept(s, c[k]) /\ Known(symbols[k + 1]) /\ Passes(s, {}, c[k], {})
    BY <1>4, <2>1
  <2>4. Passes(c[k], {}, c[k + 1], {})
    BY <2>2, <2>3, LoadSymbolGood
  <2>5. Passes(s, {}, c[k + 1], {})
    BY <2>3, <2>4 DEF Passes
  <2>. QED BY <2>2, <2>3, <2>5, LoadSymbolGood, CodeKeptTransitive
<1>5. n \in T
  BY <1>3, <1>4, SetInduction
<1>. QED BY <1>1, <1>5

-----------------------------------------------------------------------------
(* The symbol tables as the compiler needs them: whatever they store or    *)
(* capture can be loaded.                                                  *)
Table(t) ==
  /\ \A n \in DOMAIN t.store : Known(t.store[n])
  /\ t.numDefinitions \in Nat
  /\ Sequence(t.FreeSymbols)
  /\ \A k \in 1..Len(t.FreeSymbols) : Known(t.FreeSymbols[k])

Chain(chain) ==
  /\ Sequence(chain)
  /\ Len(chain) \in Nat \ {0}
  /\ \A k \in 1..Len(chain) : Table(chain[k])

(* store[symbol.Name] = symbol                                             *)
LEMMA BoundKnown ==
  ASSUME NEW store, \A n \in DOMAIN store : Known(store[n]), NEW s, Known(s)
  PROVE  \A n \in DOMAIN Symbols!Bind(store, s) : Known(Symbols!Bind(store, s)[n])
BY DEF Symbols!Bind

(* The symbol of a new definition (symbol_table.go:38).                    *)
LEMMA DefinedKnown ==
  ASSUME NEW chain, Chain(chain), NEW name
  PROVE  /\ Known(Symbols!DefinedSymbol(chain, name))
         /\ Symbols!DefinedSymbol(chain, name).Scope \in {Symbols!GlobalScope, Symbols!LocalScope}
<1>1. chain[Len(chain)].numDefinitions \in Nat
  <2>1. Len(chain) \in 1..Len(chain)
    BY DEF Chain
  <2>. QED BY <2>1 DEF Chain, Table
<1>. QED BY <1>1 DEF Symbols!DefinedSymbol, Symbols!Symbol, Known

(* Define changes the innermost table only.                                *)
LEMMA DefineChain ==
  ASSUME NEW chain, Chain(chain), NEW name
  PROVE  Chain(Symbols!Define(chain, name)) /\ Len(Symbols!Define(chain, name)) = Len(chain)
<1>. DEFINE n == Len(chain)
            t == chain[n]
            d == [store          |-> Symbols!Bind(t.store, Symbols!DefinedSymbol(chain, name)),
                  numDefinitions |-> t.numDefinitions + 1,
                  FreeSymbols    |-> t.FreeSymbols]
            c == Symbols!Define(chain, name)
<1>1. n \in Nat \ {0} /\ n \in 1..n /\ DOMAIN chain = 1..n /\ Sequence(chain)
  BY SequenceIsFunction DEF Chain
<1>2. Table(t)
  BY <1>1 DEF Chain
<1>3. Table(d)
  <2>1. Known(Symbols!DefinedSymbol(chain, name))
    BY DefinedKnown
  <2>2. \A x \in DOMAIN d.store : Known(d.store[x])
    BY <1>2, <2>1, BoundKnown DEF Table
  <2>. QED BY <1>2, <2>2 DEF Table
<1>4. c = [chain EXCEPT ![n] = d]
  BY DEF Symbols!Define
<1>. HIDE DEF d, c
<1>5. c = [k \in 1..n |-> IF k = n THEN d ELSE chain[k]]
  <2>1. chain = [k \in 1..n |-> chain[k]]
    BY <1>1, SequenceIsFunction
  <2>. QED BY <1>1, <1>4, <2>1
<1>6. Sequence(c) /\ Len(c) = n
  <2>1. c = [k \in 1..n |-> c[k]]
    BY <1>5
  <2>. QED BY <1>1, <2>1, FunctionIsSequence
<1>7. \A k \in 1..n : Table(c[k])
  BY <1>3, <1>5 DEF Chain
<1>. QED BY <1>1, <1>6, <1>7 DEF Chain, c

(* The loop over the parameters, as far as the k-th name.                  *)
Defines(f, chain, names, k) ==
  f = [j \in 0..k |-> IF j = 0 THEN chain ELSE Symbols!Define(f[j - 1], names[j])]

(* The loop ends, whatever it defines.                                     *)
LEMMA DefinesExists ==
  ASSUME NEW chain, NEW names, NEW k \in Nat
  PROVE  \E f : Defines(f, chain, names, k)
<1>. DEFINE T == {m \in Nat : \E f : Defines(f, chain, names, m)}
<1>1. 0 \in T
  <2>1. Defines([j \in 0..0 |-> chain], chain, names, 0)
    BY DEF Defines
  <2>. QED BY <2>1
<1>2. ASSUME NEW m \in Nat, m \in T PROVE m + 1 \in T
  <2>1. PICK f : Defines(f, chain, names, m)
    BY <1>2
  <2>. DEFINE g == [j \in 0..m + 1 |-> IF j = m + 1 THEN Symbols!Define(f[m], names[j]) ELSE f[j]]
  <2>2. ASSUME NEW j \in 0..m + 1
        PROVE  g[j] = IF j = 0 THEN chain ELSE Symbols!Define(g[j - 1], names[j])
    <3>1. CASE j = m + 1
      <4>1. j # 0 /\ j - 1 = m /\ m \in 0..m + 1 /\ m # m + 1
        BY <3>1
      <4>2. g[j - 1] = f[m]
        BY <4>1
      <4>. QED BY <3>1, <4>1, <4>2
    <3>2. CASE j # m + 1
      <4>1. j \in 0..m /\ (j # 0 => j - 1 \in 0..m + 1 /\ j - 1 # m + 1)
        BY <3>2
      <4>2. g[j] = f[j] /\ (j # 0 => g[j - 1] = f[j - 1])
        BY <3>2, <4>1
      <4>. QED BY <2>1, <4>1, <4>2 DEF Defines
    <3>. QED BY <3>1, <3>2
  <2>3. Defines(g, chain, names, m + 1)
    BY <2>2 DEF Defines
  <2>. QED BY <2>3
<1>3. \A m \in Nat : m \in T
  BY <1>1, <1>2, SetInduction
<1>. QED BY <1>3

(* Defining the parameters of a function (compiler.go:271-273).            *)
LEMMA DefineAllChain ==
  ASSUME NEW chain, Chain(chain), NEW names, Len(names) \in Nat
  PROVE  Chain(DefineAll(chain, names)) /\ Len(DefineAll(chain, names)) = Len(chain)
<1>. DEFINE n == Len(names)
            c == CHOOSE f : Defines(f, chain, names, n)
            T == {k \in Nat : k <= n => Chain(c[k]) /\ Len(c[k]) = Len(chain)}
<1>1. DefineAll(chain, names) = c[n]
  BY DEF DefineAll, Defines
<1>2. Defines(c, chain, names, n)
  BY DefinesExists
<1>. HIDE DEF c
<1>3. 0 \in T
  <2>1. c[0] = chain
    BY <1>2 DEF Defines
  <2>. QED BY <2>1
<1>4. ASSUME NEW k \in Nat, k \in T PROVE k + 1 \in T
  <2>. SUFFICES ASSUME k + 1 <= n PROVE Chain(c[k + 1]) /\ Len(c[k + 1]) = Len(chain)
    OBVIOUS
  <2>1. k + 1 \in 0..n /\ k + 1 # 0 /\ (k + 1) - 1 = k /\ k <= n
    OBVIOUS
  <2>2. c[k + 1] = Symbols!Define(c[k], names[k + 1])
    BY <1>2, <2>1 DEF Defines
  <2>3. Chain(c[k]) /\ Len(c[k]) = Len(chain)
    BY <1>4, <2>1
  <2>. QED BY <2>2, <2>3, DefineChain
<1>5. n \in T
  BY <1>3, <1>4, SetInduction
<1>. QED BY <1>1, <1>5

(* enterScope's new table, and leaveScope without it.                      *)
LEMMA EnclosedChain ==
  ASSUME NEW chain, Chain(chain)
  PROVE  /\ Chain(Symbols!NewEnclosedSymbolTable(chain))
         /\ Len(Symbols!NewEnclosedSymbolTable(chain)) = Len(chain) + 1
<1>. DEFINE t == Symbols!NewSymbolTable
            n == Len(chain)
<1>1. Table(t)
  <2>1. t.store = [x \in {} |-> 0] /\ t.numDefinitions = 0 /\ t.FreeSymbols = <<>>
    BY DEF Symbols!NewSymbolTable
  <2>2. Sequence(<<>>) /\ Len(<<>>) = 0
    BY DEF Sequence
  <2>. QED BY <2>1, <2>2 DEF Table
<1>. HIDE DEF t
<1>2. /\ Sequence(Append(chain, t)) /\ Len(Append(chain, t)) = n + 1 /\ n \in Nat
      /\ \A k \in 1..n : Append(chain, t)[k] = chain[k]
      /\ Append(chain, t)[n + 1] = t
  BY AppendedTo DEF Chain
<1>3. \A k \in 1..n + 1 : k \in 1..n \/ k = n + 1
  BY <1>2
<1>4. \A k \in 1..n + 1 : Table(Append(chain, t)[k])
  BY <1>1, <1>2, <1>3 DEF Chain
<1>. QED BY <1>2, <1>4 DEF Chain, Symbols!NewEnclosedSymbolTable, t

(* leaveScope drops the innermost table.                                   *)
LEMMA OuterChain ==
  ASSUME NEW chain, Chain(chain), Len(chain) > 1
  PROVE  Chain(Symbols!Outer(chain)) /\ Len(Symbols!Outer(chain)) = Len(chain) - 1
<1>. DEFINE n == Len(chain)
            o == Symbols!Outer(chain)
<1>1. n \in Nat /\ n - 1 \in Nat \ {0} /\ Sequence(chain)
  BY DEF Chain
<1>2. o = [k \in 1..n - 1 |-> chain[k]]
  <2>1. PICK S : chain \in Seq(S)
    BY <1>1 DEF Sequence
  <2>2. 1 \in 1..n + 1 /\ n - 1 \in 0..n
    BY <1>1
  <2>. QED BY <2>1, <2>2 DEF Symbols!Outer
<1>. HIDE DEF o
<1>3. Sequence(o) /\ Len(o) = n - 1
  <2>1. o = [k \in 1..n - 1 |-> o[k]]
    BY <1>2
  <2>. QED BY <1>1, <2>1, FunctionIsSequence
<1>4. \A k \in 1..n - 1 : Table(o[k])
  <2>1. \A k \in 1..n - 1 : k \in 1..n
    BY <1>1
  <2>. QED BY <1>2, <2>1 DEF Chain
<1>. QED BY <1>1, <1>3, <1>4 DEF Chain, o

(* The nearest table that stores a name.                                   *)
LEMMA HomeStores ==
  ASSUME NEW chain, Chain(chain), NEW name, Symbols!Resolvable(chain, name)
  PROVE  /\ Symbols!Home(chain, name) \in 1..Len(chain)
         /\ name \in DOMAIN chain[Symbols!Home(chain, name)].store
<1>. DEFINE S == Symbols!Storing(chain, name)
            n == Len(chain)
<1>1. n \in Nat /\ DOMAIN chain = 1..n
  BY SequenceIsFunction DEF Chain
<1>2. S \subseteq 1..n /\ S # {}
  BY <1>1 DEF Symbols!Storing, Symbols!Resolvable
<1>. HIDE DEF S
<1>3. \E k \in S : \A j \in S : j <= k
  <2>. DEFINE M == {n - k : k \in S}
  <2>0. \A k \in S : n - k \in Nat
    BY <1>1, <1>2
  <2>1. M \subseteq Nat /\ M # {}
    BY <1>2, <2>0
  <2>2. PICK m \in M : \A y \in M : m <= y
    BY <2>1, LeastNumber
  <2>3. PICK k \in S : m = n - k
    OBVIOUS
  <2>4. ASSUME NEW j \in S PROVE j <= k
    <3>1. n - k <= n - j
      BY <2>2, <2>3
    <3>. QED BY <1>1, <1>2, <3>1
  <2>. QED BY <2>4
<1>4. Symbols!Home(chain, name) \in S
  BY <1>3 DEF Symbols!Home, S
<1>. QED BY <1>1, <1>2, <1>4 DEF S, Symbols!Storing

(* Resolve: what it returns can be loaded, and so can what the tables it   *)
(* passes capture (symbol_table.go:51-87).                                 *)
LEMMA ResolveChain ==
  ASSUME NEW chain, Chain(chain), NEW name, Symbols!Resolvable(chain, name)
  PROVE  /\ Chain(Symbols!Resolve(chain, name)) /\ Len(Symbols!Resolve(chain, name)) = Len(chain)
         /\ Known(Symbols!Resolved(chain, name))
<1>. DEFINE n == Len(chain)
            h == Symbols!Home(chain, name)
            c == Symbols!Resolve(chain, name)
            At1(k) == Symbols!ResolvedAt(chain, name, k)
<1>1. n \in Nat \ {0} /\ n \in 1..n /\ DOMAIN chain = 1..n /\ Sequence(chain)
  BY SequenceIsFunction DEF Chain
<1>2. h \in 1..n /\ Known(Symbols!Found(chain, name))
  <2>1. h \in 1..n /\ name \in DOMAIN chain[h].store
    BY HomeStores
  <2>. QED BY <2>1 DEF Chain, Table, Symbols!Found
<1>3. ASSUME NEW k \in 1..n, NEW x PROVE Known(Symbols!FreeSymbol(chain[k], x))
  <2>1. Len(chain[k].FreeSymbols) \in Nat
    BY SequenceIsFunction DEF Chain, Table
  <2>. QED BY <2>1 DEF Symbols!FreeSymbol, Symbols!Symbol, Known
<1>4. ASSUME NEW k \in 1..n PROVE Known(At1(k))
  BY <1>2, <1>3 DEF Symbols!ResolvedAt
<1>5. Known(Symbols!Resolved(chain, name))
  BY <1>1, <1>4 DEF Symbols!Resolved
<1>. HIDE DEF At1
<1>6. CASE Symbols!Captured(chain, name)
  <2>1. c = [k \in 1..n |-> IF k > h THEN Symbols!DefineFree(chain[k], At1(k - 1)) ELSE chain[k]]
    BY <1>1, <1>6 DEF Symbols!Resolve, At1
  <2>. HIDE DEF c, h
  <2>2. ASSUME NEW k \in 1..n, k > h PROVE Table(Symbols!DefineFree(chain[k], At1(k - 1)))
    <3>. DEFINE t == chain[k]
                o == At1(k - 1)
                d == Symbols!DefineFree(t, o)
    <3>1. k - 1 \in 1..n
      BY <1>1, <1>2, <2>2
    <3>2. Known(o)
      BY <1>4, <3>1
    <3>3. Table(t) /\ Known(Symbols!FreeSymbol(t, o.Name))
      BY <1>3 DEF Chain
    <3>. HIDE DEF t, o
    <3>4. /\ d.store = Symbols!Bind(t.store, Symbols!FreeSymbol(t, o.Name))
          /\ d.numDefinitions = t.numDefinitions
          /\ d.FreeSymbols = Append(t.FreeSymbols, o)
      BY DEF Symbols!DefineFree
    <3>. HIDE DEF d
    <3>5. \A x \in DOMAIN d.store : Known(d.store[x])
      BY <3>3, <3>4, BoundKnown DEF Table
    <3>. DEFINE fs == t.FreeSymbols
                m == Len(fs)
    <3>6. /\ Sequence(d.FreeSymbols) /\ Len(d.FreeSymbols) = m + 1 /\ m \in Nat
          /\ \A j \in 1..m : d.FreeSymbols[j] = fs[j]
          /\ d.FreeSymbols[m + 1] = o
      BY <3>3, <3>4, AppendedTo DEF Table
    <3>7. \A j \in 1..m + 1 : j \in 1..m \/ j = m + 1
      BY <3>6
    <3>8. \A j \in 1..m + 1 : Known(d.FreeSymbols[j])
      BY <3>2, <3>3, <3>6, <3>7 DEF Table
    <3>9. Table(d)
      BY <3>3, <3>4, <3>5, <3>6, <3>8 DEF Table
    <3>. QED BY <3>9 DEF d, t, o
  <2>3. Sequence(c) /\ Len(c) = n
    <3>1. c = [k \in 1..n |-> c[k]]
      BY <2>1
    <3>. QED BY <1>1, <3>1, FunctionIsSequence
  <2>4. \A k \in 1..n : Table(c[k])
    BY <2>1, <2>2 DEF Chain
  <2>. QED BY <1>1, <1>5, <2>3, <2>4 DEF Chain, c
<1>7. CASE ~Symbols!Captured(chain, name)
  BY <1>5, <1>7 DEF Symbols!Resolve
<1>. QED BY <1>6, <1>7

-----------------------------------------------------------------------------
(* What may stand in todo.                                                 *)
Item(trees, it) ==
  \/ it.do = "visit" /\ it.node \in trees
  \/ /\ it.do = "emit" /\ it.op \in Opcodes /\ it.op \notin JumpOps /\ it.op # OpReturn
     /\ it.operands \in [1..Len(OperandWidths(it.op)) -> Nat]
  \/ it.do \in {"then", "else", "join"} /\ it.node \in Of(trees, {"IfExpression"})
  \/ it.do = "end function" /\ it.node \in Of(trees, {"FunctionLiteral"})
  \/ it.do = "abort"

(* The jump that an item will patch stands in the code of its function.    *)
Placed(it, scope) ==
  LET Jump(op) == /\ it.pos \in Starts(scope.instructions)
                  /\ scope.instructions[it.pos + 1] = op
  IN  /\ it.do = "else" => Jump(OpJumpNotTruthy)
      /\ it.do = "join" => Jump(OpJump)

(* The code does not end in a pop when an expression has been compiled,    *)
(* and must not when a pop or the end of an if without else comes next.    *)
Leaves(it) ==
  \/ it.do = "visit" /\ it.node.kind \in ExpressionKinds
  \/ it.do = "emit" /\ it.op # OpPop
  \/ it.do \in {"then", "else", "join", "end function", "abort"}

Demands(it) ==
  \/ it.do = "emit" /\ it.op = OpPop
  \/ it.do = "join" /\ it.node.Alternative.kind = "nil"

(* How many functions are open, the program counted, when an item is done. *)
Below(it, n) == IF it.do = "end function" THEN n - 1 ELSE n

(* The work left, w, with the depth d of each of its items in the scopes.  *)
Todo(trees, w, d, sc) ==
  /\ Sequence(w)
  /\ d \in [1..Len(w) + 1 -> 1..Len(sc)]
  /\ d[1] = Len(sc) /\ d[Len(w) + 1] = 1
  /\ \A k \in 1..Len(w) :
       Item(trees, w[k]) /\ Placed(w[k], sc[d[k]]) /\ d[k + 1] = Below(w[k], d[k])
  /\ \A k \in 1..Len(w) - 1 : Demands(w[k + 1]) => Leaves(w[k])
  /\ w # <<>> /\ Demands(w[1]) => NoPop(sc[Len(sc)])

(* The jumps that wait: those of the items that will patch one.            *)
Patching(it) == it.do \in {"else", "join"}

Waits(it) == {p \in Nat : Patching(it) /\ it.pos = p}

WaitsIn(w, d, j) == {p \in Nat : \E k \in 1..Len(w) : d[k] = j /\ p \in Waits(w[k])}

(* A statement or an emit leaves an instruction behind every target, an    *)
(* expression may not; a block without statements leaves what it finds.    *)
Seals(it) ==
  \/ it.do \in {"emit", "abort", "end function"}
  \/ it.do = "visit" /\ it.node.kind \in StatementKinds

Block(it) == it.do = "visit" /\ it.node.kind \in BlockKinds

(* The k-th item is the last one of a function, or of the program.         *)
Ending(it) == it.do = "end function"

Closing(w, k) == k = Len(w) \/ Ending(w[k + 1])

Ready(w) == w = <<>> \/ Ending(w[1]) \/ (Block(w[1]) /\ Closing(w, 1))

(* The jumps of the scopes, for the work left: at the end of a function,   *)
(* and before its body, no jump goes behind the last instruction.          *)
Jumping(w, d, sc) ==
  /\ \A j \in 1..Len(sc) : GoodJumps(sc[j], WaitsIn(w, d, j))
  /\ \A k \in 1..Len(w) : Closing(w, k) => Seals(w[k]) \/ Block(w[k])
  /\ \A k \in 2..Len(w) : ~(Block(w[k]) /\ Closing(w, k))
  /\ Ready(w) => Tight(sc[Len(sc)].instructions, WaitsIn(w, d, Len(sc)))

(* A jump stays where it is.                                               *)
LEMMA PlacedKept ==
  ASSUME NEW it, NEW s, NEW t, Placed(it, s), CodeKept(s, t)
  PROVE  Placed(it, t)
<1>1. OpJump # OpPop /\ OpJumpNotTruthy # OpPop
  BY DEF OpJump, OpJumpNotTruthy, OpPop
<1>. QED BY <1>1 DEF Placed, CodeKept

(* What comes later is not deeper.                                         *)
LEMMA Descends ==
  ASSUME NEW trees, NEW w, NEW d, NEW sc, Todo(trees, w, d, sc), Len(sc) \in Nat
  PROVE  \A k \in 2..Len(w) + 1 : d[k] <= d[2]
<1>. DEFINE L == Len(w)
            T == {k \in Nat : k >= 2 /\ k <= L + 1 => d[k] <= d[2]}
<1>1. L \in Nat /\ \A k \in 1..L + 1 : d[k] \in Nat
  BY SequenceIsFunction DEF Todo
<1>2. 0 \in T
  OBVIOUS
<1>3. ASSUME NEW k \in Nat, k \in T PROVE k + 1 \in T
  <2>. SUFFICES ASSUME k + 1 >= 2, k + 1 <= L + 1 PROVE d[k + 1] <= d[2]
    OBVIOUS
  <2>1. CASE k = 1
    <3>1. k + 1 = 2 /\ 2 \in 1..L + 1
      BY <1>1, <2>1
    <3>. QED BY <1>1, <3>1
  <2>2. CASE k # 1
    <3>1. k >= 2 /\ k \in 1..L /\ k \in 1..L + 1 /\ k <= L + 1 /\ 2 \in 1..L + 1
      BY <1>1, <2>2
    <3>2. d[k] <= d[2] /\ d[k] \in Nat /\ d[2] \in Nat
      BY <1>1, <1>3, <3>1
    <3>3. d[k + 1] = d[k] \/ d[k + 1] = d[k] - 1
      BY <3>1 DEF Todo, Below
    <3>. QED BY <3>2, <3>3
  <2>. QED BY <2>1, <2>2
<1>4. \A k \in Nat : k \in T
  BY <1>2, <1>3, SetInduction
<1>5. ASSUME NEW k \in 2..L + 1 PROVE d[k] <= d[2]
  <2>1. k \in Nat /\ k >= 2 /\ k <= L + 1
    BY <1>1
  <2>. QED BY <1>4, <2>1
<1>. QED BY <1>5

Spliced(d2, e, items, d, w) ==
  /\ \A k \in 1..Len(items) : d2[k] = e[k]
  /\ \A k \in 1..Len(w) : d2[Len(items) + k] = d[k + 1]

(* A call makes the calls it makes: they replace it in the work left.      *)
LEMMA Continues ==
  ASSUME NEW trees, NEW w, NEW d, NEW sc, Todo(trees, w, d, sc), w # <<>>, Len(sc) \in Nat,
         NEW items, Sequence(items), NEW sc2, Len(sc2) \in Nat,
         NEW e \in [1..Len(items) + 1 -> 1..Len(sc2)],
         e[1] = Len(sc2), e[Len(items) + 1] = d[2],
         \A k \in 1..Len(items) :
           Item(trees, items[k]) /\ Placed(items[k], sc2[e[k]]) /\ e[k + 1] = Below(items[k], e[k]),
         \A k \in 1..Len(items) - 1 : Demands(items[k + 1]) => Leaves(items[k]),
         items # <<>> /\ Demands(items[1]) => NoPop(sc2[Len(sc2)]),
         Leaves(w[1]) => IF items = <<>> THEN NoPop(sc2[Len(sc2)]) ELSE Leaves(items[Len(items)]),
         \A j \in 1..d[2] : CodeKept(sc[j], sc2[j])
  PROVE  \E d2 : Todo(trees, items \o Tail(w), d2, sc2) /\ Spliced(d2, e, items, d, w)
<1>. DEFINE m == Len(items)
            L == Len(w)
            t == L - 1
            new == items \o Tail(w)
            d2 == [k \in 1..m + t + 1 |-> IF k <= m THEN e[k] ELSE d[(k - m) + 1]]
<1>3. /\ Sequence(new) /\ m \in Nat /\ L \in Nat \ {0} /\ Len(new) = m + t
      /\ \A k \in 1..m : new[k] = items[k]
      /\ \A k \in 1..t : new[m + k] = w[k + 1]
  <2>1. Sequence(w) /\ w # <<>> /\ Sequence(items)
    BY DEF Todo
  <2>. QED BY ONLY <2>1, Replaced
<1>1. L \in Nat \ {0}
  BY <1>3
<1>2. m \in Nat /\ t \in Nat
  BY <1>3
<1>. HIDE DEF new
<1>4. \A k \in 2..L + 1 : d[k] \in 1..Len(sc2) /\ d[k] \in 1..d[2] /\ d[k] \in Nat
  <2>1. m + 1 \in 1..m + 1
    BY <1>2
  <2>2. d[2] \in 1..Len(sc2)
    BY <2>1
  <2>3. \A k \in 2..L + 1 : k \in 1..L + 1
    BY <1>1
  <2>4. \A k \in 2..L + 1 : d[k] \in 1..Len(sc)
    BY <2>3 DEF Todo
  <2>5. \A k \in 2..L + 1 : d[k] <= d[2]
    BY Descends
  <2>6. ASSUME NEW k \in 2..L + 1 PROVE d[k] \in 1..Len(sc2) /\ d[k] \in 1..d[2] /\ d[k] \in Nat
    <3>1. d[k] \in 1..Len(sc) /\ d[k] <= d[2]
      BY <2>4, <2>5
    <3>. QED BY <2>2, <3>1
  <2>. QED BY <2>6
<1>. HIDE DEF d2
<1>5. \A k \in 1..m : d2[k] = e[k]
  <2>1. \A k \in 1..m : k \in 1..m + t + 1 /\ k <= m
    BY <1>2
  <2>. QED BY <2>1 DEF d2
<1>6. \A k \in 1..t + 1 : d2[m + k] = d[k + 1]
  <2>1. \A k \in 1..t + 1 : m + k \in 1..m + t + 1 /\ ~(m + k <= m) /\ (m + k) - m = k
    BY <1>2
  <2>. QED BY <2>1 DEF d2
<1>7. \A k \in 1..m + 1 : d2[k] = e[k]
  <2>1. 1 \in 1..t + 1 /\ 1 + 1 = 2
    BY <1>2
  <2>2. d2[m + 1] = e[m + 1]
    BY <1>6, <2>1
  <2>3. \A k \in 1..m + 1 : k \in 1..m \/ k = m + 1
    BY <1>2
  <2>. QED BY <1>5, <2>2, <2>3
<1>8. \A k \in 1..m + t + 1 : k \in 1..m \/ \E j \in 1..t + 1 : k = m + j
  <2>1. ASSUME NEW k \in 1..m + t + 1, k \notin 1..m PROVE \E j \in 1..t + 1 : k = m + j
    <3>1. k - m \in 1..t + 1 /\ k = m + (k - m)
      BY <1>2, <2>1
    <3>. QED BY <3>1
  <2>. QED BY <2>1
<1>9. \A j \in 1..t + 1 : j + 1 \in 2..L + 1
  BY <1>1
<1>10. d2 \in [1..Len(new) + 1 -> 1..Len(sc2)]
  <2>1. \A k \in 1..m : e[k] \in 1..Len(sc2)
    <3>1. \A k \in 1..m : k \in 1..m + 1
      BY <1>2
    <3>. QED BY <3>1
  <2>2. ASSUME NEW k \in 1..m + t + 1 PROVE d2[k] \in 1..Len(sc2)
    <3>1. CASE k \in 1..m
      BY <1>5, <2>1, <3>1
    <3>2. ASSUME NEW j \in 1..t + 1, k = m + j PROVE d2[k] \in 1..Len(sc2)
      BY <1>4, <1>6, <1>9, <3>2
    <3>. QED BY <1>8, <3>1, <3>2
  <2>3. d2 = [k \in 1..m + t + 1 |-> d2[k]]
    BY DEF d2
  <2>. QED BY <1>3, <2>2, <2>3
<1>11. d2[1] = Len(sc2) /\ d2[Len(new) + 1] = 1
  <2>1. 1 \in 1..m + 1 /\ t + 1 \in 1..t + 1 /\ (m + t) + 1 = m + (t + 1) /\ (t + 1) + 1 = L + 1
    BY <1>1, <1>2
  <2>2. d2[1] = e[1]
    BY <1>7, <2>1
  <2>3. d2[m + (t + 1)] = d[L + 1]
    BY <1>6, <2>1
  <2>. QED BY <1>3, <2>1, <2>2, <2>3 DEF Todo
<1>12. ASSUME NEW k \in 1..Len(new)
       PROVE  /\ Item(trees, new[k]) /\ Placed(new[k], sc2[d2[k]])
              /\ d2[k + 1] = Below(new[k], d2[k])
  <2>1. CASE k \in 1..m
    <3>1. k + 1 \in 1..m + 1 /\ k \in 1..m + 1
      BY <1>2, <2>1
    <3>. QED BY <1>3, <1>7, <2>1, <3>1
  <2>2. ASSUME NEW j \in 1..t, k = m + j
        PROVE  /\ Item(trees, new[k]) /\ Placed(new[k], sc2[d2[k]])
               /\ d2[k + 1] = Below(new[k], d2[k])
    <3>1. j + 1 \in 1..L /\ j + 1 \in 2..L + 1 /\ j \in 1..t + 1 /\ j + 1 \in 1..t + 1
          /\ (m + j) + 1 = m + (j + 1)
      BY <1>1, <1>2
    <3>2. new[k] = w[j + 1] /\ d2[k] = d[j + 1] /\ d2[k + 1] = d[(j + 1) + 1]
      BY <1>3, <1>6, <2>2, <3>1
    <3>3. /\ Item(trees, w[j + 1]) /\ Placed(w[j + 1], sc[d[j + 1]])
          /\ d[(j + 1) + 1] = Below(w[j + 1], d[j + 1])
      BY <3>1 DEF Todo
    <3>4. Placed(w[j + 1], sc2[d[j + 1]])
      <4>1. CodeKept(sc[d[j + 1]], sc2[d[j + 1]])
        BY <1>4, <3>1
      <4>. QED BY <3>3, <4>1, PlacedKept
    <3>. QED BY <3>2, <3>3, <3>4
  <2>3. k \in 1..m \/ \E j \in 1..t : k = m + j
    <3>1. ASSUME k \notin 1..m PROVE \E j \in 1..t : k = m + j
      <4>1. k - m \in 1..t /\ k = m + (k - m)
        BY <1>2, <1>3, <3>1
      <4>. QED BY <4>1
    <3>. QED BY <3>1
  <2>. QED BY <2>1, <2>2, <2>3
<1>13. ASSUME NEW k \in 1..Len(new) - 1, Demands(new[k + 1]) PROVE Leaves(new[k])
  <2>0. k \in Nat /\ k >= 1 /\ k <= (m + t) - 1
    BY <1>2, <1>3
  <2>1. CASE k < m
    <3>1. k \in 1..m /\ k + 1 \in 1..m /\ k \in 1..m - 1
      BY <1>2, <2>0, <2>1
    <3>. QED BY <1>3, <1>13, <3>1
  <2>2. CASE k = m
    <3>1. k \in 1..m /\ 1 \in 1..t /\ 1 + 1 = 2 /\ 1 \in 1..L - 1 /\ m > 0
      BY <1>1, <1>2, <2>0, <2>2
    <3>2. new[k] = items[m] /\ new[k + 1] = w[2]
      BY <1>3, <2>2, <3>1
    <3>3. Leaves(w[1])
      BY <1>13, <3>1, <3>2 DEF Todo
    <3>4. items # <<>>
      BY <3>1
    <3>. QED BY <3>2, <3>3, <3>4
  <2>3. CASE k > m
    <3>. DEFINE j == k - m
    <3>1. /\ j \in 1..t /\ j + 1 \in 1..t /\ k = m + j /\ k + 1 = m + (j + 1)
          /\ j + 1 \in 1..L - 1
      BY <1>1, <1>2, <2>0, <2>3
    <3>. HIDE DEF j
    <3>2. new[k] = w[j + 1] /\ new[k + 1] = w[(j + 1) + 1]
      BY <1>3, <3>1
    <3>. QED BY <1>13, <3>1, <3>2 DEF Todo
  <2>. QED BY <1>2, <2>0, <2>1, <2>2, <2>3
<1>14. ASSUME new # <<>>, Demands(new[1]) PROVE NoPop(sc2[Len(sc2)])
  <2>1. CASE items # <<>>
    <3>1. 1 \in 1..m
      <4>1. m # 0
        BY <2>1, EmptySeq DEF Sequence
      <4>. QED BY <1>2, <4>1
    <3>. QED BY <1>3, <1>14, <2>1, <3>1
  <2>2. CASE items = <<>>
    <3>1. m = 0
      BY <2>2
    <3>2. Len(new) # 0
      BY <1>3, <1>14, EmptySeq DEF Sequence
    <3>3. 1 \in 1..t /\ m + 1 = 1 /\ 1 + 1 = 2 /\ 1 \in 1..L - 1
      BY <1>1, <1>2, <1>3, <3>1, <3>2
    <3>4. new[1] = w[2]
      BY <1>3, <3>3
    <3>5. Leaves(w[1])
      BY <1>14, <3>3, <3>4 DEF Todo
    <3>. QED BY <2>2, <3>5
  <2>. QED BY <2>1, <2>2
<1>15. Todo(trees, new, d2, sc2)
  BY <1>3, <1>10, <1>11, <1>12, <1>13, <1>14 DEF Todo
<1>16. Spliced(d2, e, items, d, w)
  <2>1. t + 1 = L
    BY <1>1
  <2>. QED BY <1>5, <1>6, <2>1 DEF Spliced
<1>. QED BY <1>15, <1>16 DEF new

(* The jumps that wait for the items, and for the work behind the first.   *)
WaitsOf(items) == {p \in Nat : \E k \in 1..Len(items) : p \in Waits(items[k])}

WaitsBehind(w, d, j) == {p \in Nat : \E k \in 2..Len(w) : d[k] = j /\ p \in Waits(w[k])}

(* The items that will patch a jump stand in the n-th scope.               *)
PatchIn(items, e, n) == \A k \in 1..Len(items) : Patching(items[k]) => e[k] = n

(* The jumps that wait are those of the new items and those that waited    *)
(* before, but for the one that the call has patched.                      *)
LEMMA WaitsContinue ==
  ASSUME NEW w, Sequence(w), w # <<>>, NEW items, Sequence(items), NEW d, NEW d2, NEW e,
         Spliced(d2, e, items, d, w), NEW n, PatchIn(items, e, n), NEW j
  PROVE  LET w2 == items \o Tail(w)
         IN  /\ WaitsBehind(w, d, j) \subseteq WaitsIn(w2, d2, j)
             /\ WaitsOf(items) \subseteq WaitsIn(w2, d2, n)
             /\ WaitsIn(w, d, j) \subseteq WaitsBehind(w, d, j) \cup Waits(w[1])
             /\ ~Patching(w[1]) \/ d[1] # j => WaitsIn(w, d, j) \subseteq WaitsBehind(w, d, j)
<1>. DEFINE m == Len(items)
            L == Len(w)
            t == L - 1
            w2 == items \o Tail(w)
<1>1. /\ m \in Nat /\ L \in Nat \ {0} /\ Len(w2) = m + t
      /\ \A k \in 1..m : w2[k] = items[k]
      /\ \A k \in 1..t : w2[m + k] = w[k + 1]
  BY ONLY Sequence(w), w # <<>>, Sequence(items), Replaced
<1>2. /\ \A k \in 1..m : d2[k] = e[k]
      /\ \A k \in 1..L : d2[m + k] = d[k + 1]
  BY DEF Spliced
<1>. HIDE DEF w2, m, L
<1>3. ASSUME NEW p \in WaitsBehind(w, d, j) PROVE p \in WaitsIn(w2, d2, j)
  <2>1. p \in Nat /\ \E k \in 2..L : d[k] = j /\ p \in Waits(w[k])
    BY DEF WaitsBehind, L
  <2>2. PICK k \in 2..L : d[k] = j /\ p \in Waits(w[k])
    BY <2>1
  <2>3. k - 1 \in 1..t /\ k - 1 \in 1..L /\ (k - 1) + 1 = k /\ m + (k - 1) \in 1..m + t
    BY ONLY <1>1, k \in 2..L
  <2>4. w2[m + (k - 1)] = w[k] /\ d2[m + (k - 1)] = d[k]
    BY ONLY <1>1, <1>2, <2>3
  <2>5. m + (k - 1) \in 1..Len(w2) /\ d2[m + (k - 1)] = j /\ p \in Waits(w2[m + (k - 1)])
    BY ONLY <1>1, <2>2, <2>3, <2>4
  <2>. HIDE DEF t
  <2>. QED BY ONLY <2>1, <2>5 DEF WaitsIn
<1>4. ASSUME NEW p \in WaitsOf(items) PROVE p \in WaitsIn(w2, d2, n)
  <2>1. p \in Nat /\ \E k \in 1..m : p \in Waits(items[k])
    BY DEF WaitsOf, m
  <2>2. PICK k \in 1..m : p \in Waits(items[k])
    BY <2>1
  <2>3. k \in 1..Len(w2)
    BY ONLY <1>1, k \in 1..m
  <2>4. e[k] = n
    BY <2>2 DEF Waits, PatchIn, m
  <2>5. d2[k] = n /\ p \in Waits(w2[k])
    BY ONLY <1>1, <1>2, <2>2, <2>4, k \in 1..m
  <2>. QED BY ONLY <2>1, <2>3, <2>5 DEF WaitsIn
<1>5. ASSUME NEW p \in WaitsIn(w, d, j)
      PROVE  p \in WaitsBehind(w, d, j) \/ (p \in Waits(w[1]) /\ d[1] = j)
  <2>1. p \in Nat /\ \E k \in 1..L : d[k] = j /\ p \in Waits(w[k])
    BY DEF WaitsIn, L
  <2>2. PICK k \in 1..L : d[k] = j /\ p \in Waits(w[k])
    BY <2>1
  <2>3. k = 1 \/ k \in 2..L
    BY ONLY <1>1, k \in 1..L
  <2>. QED BY ONLY <2>1, <2>2, <2>3 DEF WaitsBehind, L
<1>6. \A p \in Waits(w[1]) : Patching(w[1])
  BY DEF Waits
<1>. QED BY <1>3, <1>4, <1>5, <1>6 DEF w2

(* Which items are the last ones of a function.                            *)
LEMMA ClosingContinues ==
  ASSUME NEW w, Sequence(w), w # <<>>, NEW items, Sequence(items)
  PROVE  LET w2 == items \o Tail(w)
             m  == Len(items)
         IN  /\ \A k \in 1..Len(w) - 1 : Closing(w2, m + k) <=> Closing(w, k + 1)
             /\ m > 0 => (Closing(w2, m) <=> Closing(w, 1))
             /\ \A k \in 1..m - 1 : Closing(w2, k) <=> Ending(items[k + 1])
             /\ \A k \in 1..Len(w2) :
                  \/ k \in 1..m - 1 \/ (k = m /\ m > 0)
                  \/ \E j \in 1..Len(w) - 1 : k = m + j /\ w2[k] = w[j + 1]
<1>. DEFINE m == Len(items)
            L == Len(w)
            t == L - 1
            w2 == items \o Tail(w)
<1>1. /\ m \in Nat /\ L \in Nat \ {0} /\ Len(w2) = m + t
      /\ \A k \in 1..m : w2[k] = items[k]
      /\ \A k \in 1..t : w2[m + k] = w[k + 1]
  BY ONLY Sequence(w), w # <<>>, Sequence(items), Replaced
<1>. HIDE DEF w2, m
<1>3. ASSUME NEW k \in 1..t PROVE Closing(w2, m + k) <=> Closing(w, k + 1)
  <2>1. /\ (m + k = Len(w2) <=> k + 1 = L)
        /\ k + 1 # L => k + 1 \in 1..t /\ (m + k) + 1 = m + (k + 1)
    BY ONLY <1>1, k \in 1..t
  <2>2. k + 1 # L => w2[(m + k) + 1] = w[(k + 1) + 1]
    BY ONLY <1>1, <2>1
  <2>. QED BY ONLY <2>1, <2>2 DEF Closing
<1>4. ASSUME m > 0 PROVE Closing(w2, m) <=> Closing(w, 1)
  <2>1. (m = Len(w2) <=> 1 = L) /\ (1 # L => 1 \in 1..t)
    <3>1. m \in Nat /\ L \in Nat \ {0} /\ Len(w2) = m + t
      BY ONLY <1>1
    <3>. HIDE DEF L
    <3>. QED BY ONLY <3>1
  <2>2. 1 # L => w2[m + 1] = w[1 + 1]
    BY ONLY <1>1, <2>1
  <2>. QED BY ONLY <2>1, <2>2 DEF Closing
<1>5. ASSUME NEW k \in 1..m - 1 PROVE Closing(w2, k) <=> Ending(items[k + 1])
  <2>1. k + 1 \in 1..m /\ k # Len(w2)
    BY ONLY <1>1, k \in 1..m - 1
  <2>2. w2[k + 1] = items[k + 1]
    BY ONLY <1>1, <2>1
  <2>. QED BY ONLY <2>1, <2>2 DEF Closing
<1>6. ASSUME NEW k \in 1..Len(w2), ~(k \in 1..m - 1), ~(k = m /\ m > 0)
      PROVE  \E j \in 1..t : k = m + j /\ w2[k] = w[j + 1]
  <2>1. k - m \in 1..t /\ k = m + (k - m)
    BY ONLY <1>1, <1>6
  <2>2. w2[k] = w[(k - m) + 1]
    BY ONLY <1>1, <2>1
  <2>. QED BY ONLY <2>1, <2>2
<1>7. \A k \in 1..Len(w2) : \/ k \in 1..m - 1 \/ (k = m /\ m > 0)
                            \/ \E j \in 1..t : k = m + j /\ w2[k] = w[j + 1]
  BY <1>6
<1>. QED BY <1>3, <1>4, <1>5, <1>7 DEF w2, m

(* What a call does to the jumps: it takes the scope from s to t and       *)
(* leaves the items.                                                       *)
Moves(it, s, items, t) ==
  /\ Passes(s, Waits(it), t, WaitsOf(items))
  /\ items = <<>> => (Seals(it) => Closes(s, Waits(it), t)) /\ (Block(it) => t = s)
  /\ items # <<>> /\ (Seals(it) \/ Block(it)) => Seals(items[Len(items)])
  /\ \A k \in 1..Len(items) : Block(items[k]) => k = 1 /\ Len(items) >= 2

(* A call keeps the jumps good, for the work that is left then.            *)
LEMMA JumpsContinue ==
  ASSUME NEW w, Sequence(w), w # <<>>, NEW d, NEW sc, Len(sc) \in Nat, Jumping(w, d, sc),
         d[1] = Len(sc),
         NEW items, Sequence(items), NEW sc2, Len(sc2) \in Nat \ {0}, NEW d2, NEW e,
         Spliced(d2, e, items, d, w),
         PatchIn(items, e, Len(sc2)),
         Moves(w[1], sc[Len(sc2)], items, sc2[Len(sc2)]),
         \A j \in 1..Len(sc2) : j # Len(sc2) => j \in 1..Len(sc) /\ sc2[j] = sc[j],
         Patching(w[1]) \/ (Block(w[1]) /\ items = <<>>) => Len(sc2) = Len(sc),
         Len(sc2) \in 1..Len(sc) \/ sc2[Len(sc2)] = NewScope,
         \A k \in 1..Len(items) :
           Ending(items[k]) => k = 2 /\ Block(items[1]) /\ sc2[Len(sc2)] = NewScope
  PROVE  Jumping(items \o Tail(w), d2, sc2)
<1>. DEFINE m == Len(items)
            L == Len(w)
            w2 == items \o Tail(w)
            n == Len(sc)
            n2 == Len(sc2)
            s == sc[n2]
            t == sc2[n2]
            Wait(j) == WaitsIn(w2, d2, j)
            Rest(j) == WaitsBehind(w, d, j)
<1>1. /\ m \in Nat /\ L \in Nat \ {0} /\ Len(w2) = m + (L - 1)
      /\ \A k \in 1..m : w2[k] = items[k]
      /\ \A k \in 1..L - 1 : w2[m + k] = w[k + 1]
  BY ONLY Sequence(w), w # <<>>, Sequence(items), Replaced
<1>2. ASSUME NEW j
      PROVE  /\ Rest(j) \subseteq Wait(j)
             /\ WaitsOf(items) \subseteq Wait(n2)
             /\ WaitsIn(w, d, j) \subseteq Rest(j) \cup Waits(w[1])
             /\ ~Patching(w[1]) \/ d[1] # j => WaitsIn(w, d, j) \subseteq Rest(j)
  <2>1. /\ Sequence(w) /\ w # <<>> /\ Sequence(items) /\ Spliced(d2, e, items, d, w)
        /\ PatchIn(items, e, n2)
    OBVIOUS
  <2>. HIDE DEF n2
  <2>. QED BY ONLY <2>1, WaitsContinue
<1>3. /\ \A k \in 1..L - 1 : Closing(w2, m + k) <=> Closing(w, k + 1)
      /\ m > 0 => (Closing(w2, m) <=> Closing(w, 1))
      /\ \A k \in 1..m - 1 : Closing(w2, k) <=> Ending(items[k + 1])
      /\ \A k \in 1..Len(w2) : \/ k \in 1..m - 1 \/ (k = m /\ m > 0)
                               \/ \E j \in 1..L - 1 : k = m + j /\ w2[k] = w[j + 1]
  BY ONLY Sequence(w), w # <<>>, Sequence(items), ClosingContinues
<1>4. /\ \A j \in 1..n : GoodJumps(sc[j], WaitsIn(w, d, j))
      /\ \A k \in 1..L : Closing(w, k) => Seals(w[k]) \/ Block(w[k])
      /\ \A k \in 2..L : ~(Block(w[k]) /\ Closing(w, k))
      /\ Ready(w) => Tight(sc[n].instructions, WaitsIn(w, d, n))
  BY DEF Jumping
<1>5. /\ \A P : GoodJumps(s, P \cup Waits(w[1])) => GoodJumps(t, P \cup WaitsOf(items))
      /\ items = <<>> /\ Seals(w[1]) =>
           \A P : GoodJumps(s, P \cup Waits(w[1])) => Tight(t.instructions, P)
      /\ items = <<>> /\ Block(w[1]) => t = s
      /\ items # <<>> /\ (Seals(w[1]) \/ Block(w[1])) => Seals(items[m])
      /\ \A k \in 1..m : Block(items[k]) => k = 1 /\ m >= 2
  BY DEF Moves, Passes, Closes
<1>6. items = <<>> <=> m = 0
  BY EmptySeq DEF Sequence
<1>7. /\ \A j \in 1..n2 : j # n2 => j \in 1..n /\ sc2[j] = sc[j]
      /\ Patching(w[1]) \/ (Block(w[1]) /\ items = <<>>) => n2 = n
      /\ n2 \in 1..n \/ t = NewScope
      /\ \A k \in 1..m : Ending(items[k]) => k = 2 /\ Block(items[1]) /\ t = NewScope
      /\ d[1] = n /\ n2 \in Nat \ {0} /\ n \in Nat
  OBVIOUS
<1>8. t = NewScope => \A P : GoodJumps(t, P) /\ Tight(t.instructions, P)
  BY NewScopeJumps
<1>. HIDE DEF m, L, w2, n, n2, s, t, Wait, Rest
<1>9. n2 \in 1..n => GoodJumps(s, Rest(n2) \cup Waits(w[1]))
  <2>1. WaitsIn(w, d, n2) \subseteq Rest(n2) \cup Waits(w[1])
    BY <1>2
  <2>2. n2 \in 1..n => GoodJumps(s, WaitsIn(w, d, n2))
    BY <1>4 DEF s
  <2>. QED BY ONLY <2>1, <2>2, GoodJumpsWait
<1>10. ASSUME NEW j \in 1..n2 PROVE GoodJumps(sc2[j], Wait(j))
  <2>1. CASE j = n2
    <3>1. GoodJumps(t, Rest(n2) \cup WaitsOf(items))
      BY ONLY <1>5, <1>7, <1>8, <1>9
    <3>2. Rest(n2) \cup WaitsOf(items) \subseteq Wait(n2)
      <4>1. Rest(n2) \subseteq Wait(n2) /\ WaitsOf(items) \subseteq Wait(n2)
        BY <1>2
      <4>. QED BY ONLY <4>1
    <3>3. GoodJumps(t, Wait(n2))
      BY ONLY <3>1, <3>2, GoodJumpsWait
    <3>. QED BY ONLY <2>1, <3>3 DEF t
  <2>2. CASE j # n2
    <3>1. j \in 1..n /\ sc2[j] = sc[j]
      BY ONLY <1>7, <2>2, j \in 1..n2
    <3>2. ~Patching(w[1]) \/ d[1] # j
      BY ONLY <1>7, <2>2
    <3>3. WaitsIn(w, d, j) \subseteq Wait(j)
      <4>1. WaitsIn(w, d, j) \subseteq Rest(j) /\ Rest(j) \subseteq Wait(j)
        BY <1>2, <3>2
      <4>. QED BY ONLY <4>1
    <3>4. GoodJumps(sc2[j], WaitsIn(w, d, j))
      BY ONLY <1>4, <3>1
    <3>. QED BY ONLY <3>3, <3>4, GoodJumpsWait
  <2>. QED BY ONLY <2>1, <2>2
<1>11. ASSUME NEW k \in 1..Len(w2), Closing(w2, k)
       PROVE  /\ Seals(w2[k]) \/ Block(w2[k])
              /\ k # 1 => ~Block(w2[k])
  <2>1. CASE k \in 1..m - 1
    <3>1. k + 1 \in 1..m /\ k \in 1..m /\ (k + 1 = 2 => k = 1) /\ 1 \in 1..m
      BY ONLY <1>1, <2>1
    <3>2. Ending(items[k + 1])
      BY ONLY <1>3, <1>11, <2>1
    <3>3. k = 1 /\ Block(items[1])
      BY ONLY <1>7, <3>1, <3>2
    <3>. QED BY ONLY <1>1, <3>1, <3>3
  <2>2. CASE k = m /\ m > 0
    <3>1. 1 \in 1..L /\ m \in 1..m
      BY ONLY <1>1, <2>2
    <3>2. Seals(w[1]) \/ Block(w[1])
      BY ONLY <1>3, <1>4, <1>11, <2>2, <3>1
    <3>3. items # <<>>
      BY ONLY <1>1, <1>6, <2>2
    <3>4. w2[k] = items[m]
      BY ONLY <1>1, <2>2, <3>1
    <3>5. Seals(w2[k])
      BY ONLY <1>5, <3>2, <3>3, <3>4
    <3>6. k # 1 => ~Block(w2[k])
      BY ONLY <1>5, <2>2, <3>1, <3>4
    <3>. QED BY ONLY <3>5, <3>6
  <2>3. ASSUME NEW j \in 1..L - 1, k = m + j, w2[k] = w[j + 1]
        PROVE  (Seals(w2[k]) \/ Block(w2[k])) /\ ~Block(w2[k])
    <3>1. j + 1 \in 1..L /\ j + 1 \in 2..L
      BY ONLY <1>1, j \in 1..L - 1
    <3>2. Closing(w, j + 1)
      BY ONLY <1>3, <1>11, <2>3, j \in 1..L - 1
    <3>. QED BY ONLY <1>4, <2>3, <3>1, <3>2
  <2>. QED BY ONLY <1>3, <2>1, <2>2, <2>3, k \in 1..Len(w2)
<1>12. ASSUME Ready(w2) PROVE Tight(t.instructions, Wait(n2))
  <2>0. w2 = <<>> \/ Ending(w2[1]) \/ (Block(w2[1]) /\ Closing(w2, 1))
    BY <1>12 DEF Ready
  <2>1. CASE m = 0
    <3>0. items = <<>>
      BY ONLY <1>6, <2>1
    <3>1. Closing(w, 1)
      <4>1. CASE L = 1
        BY <4>1 DEF Closing, L
      <4>2. CASE L # 1
        <5>1. Len(w2) # 0 /\ 1 \in 1..L - 1 /\ 1 + 1 = 2 /\ m + 1 = 1 /\ 2 \in 2..L
          BY ONLY <1>1, <2>1, <4>2
        <5>2. w2 # <<>>
          BY ONLY <5>1
        <5>3. w2[1] = w[2]
          BY ONLY <1>1, <5>1
        <5>4. Closing(w2, 1) <=> Closing(w, 2)
          BY ONLY <1>3, <5>1
        <5>5. ~(Block(w[2]) /\ Closing(w, 2))
          BY ONLY <1>4, <5>1
        <5>6. Ending(w[2])
          BY ONLY <2>0, <5>2, <5>3, <5>4, <5>5
        <5>. QED BY ONLY <5>1, <5>6 DEF Closing
      <4>. QED BY ONLY <4>1, <4>2
    <3>2. 1 \in 1..L
      BY ONLY <1>1
    <3>3. Seals(w[1]) \/ Block(w[1])
      BY ONLY <1>4, <3>1, <3>2
    <3>4. CASE Seals(w[1])
      <4>1. Tight(t.instructions, Rest(n2))
        BY ONLY <1>5, <1>7, <1>8, <1>9, <3>0, <3>4
      <4>2. Rest(n2) \subseteq Wait(n2)
        BY <1>2
      <4>. QED BY ONLY <4>1, <4>2, MoreWait
    <3>5. CASE Block(w[1])
      <4>1. t = s /\ n2 = n
        BY ONLY <1>5, <1>7, <3>0, <3>5
      <4>2. Tight(sc[n].instructions, WaitsIn(w, d, n))
        BY ONLY <1>4, <3>1, <3>5 DEF Ready
      <4>3. ~Patching(w[1])
        BY ONLY <3>5 DEF Block, Patching
      <4>4. WaitsIn(w, d, n2) \subseteq Wait(n2)
        <5>1. WaitsIn(w, d, n2) \subseteq Rest(n2) /\ Rest(n2) \subseteq Wait(n2)
          BY <1>2, <4>3
        <5>. QED BY ONLY <5>1
      <4>5. Tight(t.instructions, WaitsIn(w, d, n2))
        BY ONLY <4>1, <4>2 DEF s
      <4>. QED BY ONLY <4>4, <4>5, MoreWait
    <3>. QED BY ONLY <3>3, <3>4, <3>5
  <2>2. CASE m # 0
    <3>1. 1 \in 1..m /\ Len(w2) # 0 /\ (m >= 2 => 1 \in 1..m - 1 /\ 1 + 1 \in 1..m)
      BY ONLY <1>1, <2>2
    <3>2. w2[1] = items[1] /\ w2 # <<>>
      BY ONLY <1>1, <3>1
    <3>3. ~Ending(items[1])
      BY ONLY <1>7, <3>1
    <3>4. Block(items[1]) /\ Closing(w2, 1)
      BY ONLY <2>0, <3>2, <3>3
    <3>5. m >= 2
      BY ONLY <1>5, <3>1, <3>4
    <3>6. Ending(items[1 + 1])
      BY ONLY <1>3, <3>1, <3>4, <3>5
    <3>7. t = NewScope
      BY ONLY <1>7, <3>1, <3>5, <3>6
    <3>. QED BY ONLY <1>8, <3>7
  <2>. QED BY ONLY <2>1, <2>2
<1>13. \A k \in 2..Len(w2) : k \in 1..Len(w2) /\ k # 1
  BY ONLY <1>1
<1>14. /\ \A j \in 1..Len(sc2) : GoodJumps(sc2[j], WaitsIn(w2, d2, j))
       /\ Ready(w2) => Tight(sc2[Len(sc2)].instructions, WaitsIn(w2, d2, Len(sc2)))
  BY <1>10, <1>12 DEF Wait, n2, t
<1>15. /\ \A k \in 1..Len(w2) : Closing(w2, k) => Seals(w2[k]) \/ Block(w2[k])
       /\ \A k \in 2..Len(w2) : ~(Block(w2[k]) /\ Closing(w2, k))
  BY <1>11, <1>13
<1>16. Jumping(w2, d2, sc2)
  BY <1>14, <1>15 DEF Jumping
<1>. QED BY <1>16 DEF w2

-----------------------------------------------------------------------------
(* The inductive invariant.                                                *)
GoodScopes(sc) ==
  /\ Sequence(sc)
  /\ Len(sc) \in Nat \ {0}
  /\ \A k \in 1..Len(sc) : GoodScope(sc[k])

(* A function of the pool has whole instructions and all its jumps.        *)
Linked(x) ==
  x.type = COMPILED_FUNCTION_OBJ =>
    /\ x.Instructions \in Seq(Bytes) /\ Len(x.Instructions) \in Nat
    /\ x.NumLocals \in Nat /\ x.NumParameters \in Nat
    /\ Whole(x.Instructions) /\ Tight(x.Instructions, {})

Pool(pool) ==
  /\ Sequence(pool)
  /\ \A k \in 1..Len(pool) :
       /\ pool[k].type \in {INTEGER_OBJ, STRING_OBJ, COMPILED_FUNCTION_OBJ}
       /\ Linked(pool[k])

CInv(trees) ==
  /\ Pool(constants)
  /\ GoodScopes(scopes)
  /\ Chain(symbolTable)
  /\ Len(symbolTable) = Len(scopes)
  /\ failed \in BOOLEAN
  /\ IF failed THEN todo = <<>> ELSE \E d : Todo(trees, todo, d, scopes) /\ Jumping(todo, d, scopes)

(* Code is emitted into the innermost scope only.                          *)
LEMMA InnermostChanged ==
  ASSUME NEW sc, GoodScopes(sc), NEW t, GoodScope(t)
  PROVE  LET sc2 == [sc EXCEPT ![Len(sc)] = t]
         IN  /\ GoodScopes(sc2) /\ Len(sc2) = Len(sc) /\ sc2[Len(sc)] = t
             /\ \A k \in 1..Len(sc) : k # Len(sc) => sc2[k] = sc[k]
<1>. DEFINE n == Len(sc)
            sc2 == [sc EXCEPT ![Len(sc)] = t]
<1>1. n \in Nat \ {0} /\ n \in 1..n /\ sc = [k \in 1..n |-> sc[k]]
  BY SequenceIsFunction DEF GoodScopes
<1>2. sc2 = [k \in 1..n |-> IF k = n THEN t ELSE sc[k]]
  BY <1>1
<1>. HIDE DEF sc2
<1>3. Sequence(sc2) /\ Len(sc2) = n
  <2>1. sc2 = [k \in 1..n |-> sc2[k]]
    BY <1>2
  <2>. QED BY <1>1, <2>1, FunctionIsSequence
<1>4. \A k \in 1..n : GoodScope(sc2[k])
  BY <1>2 DEF GoodScopes
<1>5. /\ GoodScopes(sc2) /\ Len(sc2) = n /\ sc2[n] = t
      /\ \A k \in 1..n : k # n => sc2[k] = sc[k]
  BY <1>1, <1>2, <1>3, <1>4 DEF GoodScopes
<1>. QED BY <1>5 DEF sc2

(* A stretch of Compile inside one function: it may emit, and it leaves    *)
(* some work in the place of the item it takes.                            *)
LEMMA Working ==
  ASSUME NEW trees, CInv(trees), ~failed, todo # <<>>, todo[1].do # "end function",
         NEW items, Sequence(items), NEW t, GoodScope(t), CodeKept(Scope, t),
         \A k \in 1..Len(items) :
           Item(trees, items[k]) /\ Placed(items[k], t) /\ items[k].do # "end function",
         \A k \in 1..Len(items) - 1 : Demands(items[k + 1]) => Leaves(items[k]),
         items # <<>> /\ Demands(items[1]) => NoPop(t),
         Leaves(todo[1]) => IF items = <<>> THEN NoPop(t) ELSE Leaves(items[Len(items)]),
         Moves(todo[1], Scope, items, t),
         scopes' = Changed(t), todo' = items \o Tail(todo), failed' = failed,
         Pool(constants'), Chain(symbolTable'), Len(symbolTable') = Len(symbolTable)
  PROVE  CInv(trees)'
<1>. DEFINE n == Len(scopes)
            m == Len(items)
            e == [k \in 1..m + 1 |-> n]
<1>1. PICK d : Todo(trees, todo, d, scopes) /\ Jumping(todo, d, scopes)
  BY DEF CInv
<1>2. n \in Nat \ {0} /\ GoodScopes(scopes) /\ m \in Nat /\ Len(todo) \in Nat \ {0}
  BY <1>1, SequenceIsFunction, TailOf DEF CInv, GoodScopes, Todo
<1>3. /\ GoodScopes(scopes') /\ Len(scopes') = n /\ scopes'[n] = t
      /\ \A k \in 1..n : k # n => scopes'[k] = scopes[k]
  <2>. DEFINE sc2 == [scopes EXCEPT ![Len(scopes)] = t]
  <2>1. GoodScopes(scopes) /\ GoodScope(t)
    BY <1>2
  <2>2. /\ GoodScopes(sc2) /\ Len(sc2) = n /\ sc2[n] = t
        /\ \A k \in 1..n : k # n => sc2[k] = scopes[k]
    BY ONLY <2>1, InnermostChanged
  <2>3. scopes' = sc2
    BY DEF Changed
  <2>. HIDE DEF sc2
  <2>. QED BY ONLY <2>2, <2>3
<1>4. d[2] = n
  <2>1. 1 \in 1..Len(todo) /\ 1 + 1 = 2
    BY ONLY <1>2
  <2>2. d[1] = n /\ d[1 + 1] = Below(todo[1], d[1])
    BY <1>1, <2>1 DEF Todo
  <2>. QED BY <2>1, <2>2 DEF Below
<1>5. \A j \in 1..d[2] : CodeKept(scopes[j], scopes'[j])
  <2>1. \A j \in 1..n : j # n => CodeKept(scopes[j], scopes'[j])
    BY <1>3 DEF CodeKept
  <2>2. CodeKept(scopes[n], scopes'[n])
    BY <1>3 DEF Scope
  <2>. QED BY <1>4, <2>1, <2>2
<1>6. e \in [1..m + 1 -> 1..Len(scopes')] /\ e[1] = Len(scopes') /\ e[m + 1] = d[2]
  <2>1. m \in Nat /\ n \in Nat \ {0} /\ Len(scopes') = n /\ d[2] = n
    BY <1>2, <1>3, <1>4
  <2>. HIDE DEF m, n
  <2>2. e \in [1..m + 1 -> 1..n] /\ e[1] = n /\ e[m + 1] = n
    BY ONLY <2>1
  <2>. QED BY <2>1, <2>2
<1>7. \A k \in 1..m : Placed(items[k], scopes'[e[k]]) /\ e[k + 1] = Below(items[k], e[k])
  <2>1. \A k \in 1..m : k \in 1..m + 1 /\ k + 1 \in 1..m + 1
    BY ONLY <1>2
  <2>. QED BY <1>3, <2>1 DEF Below
<1>. HIDE DEF e
<1>8. PICK d2 : Todo(trees, items \o Tail(todo), d2, scopes') /\ Spliced(d2, e, items, d, todo)
  <2>1. Leaves(todo[1]) => IF items = <<>> THEN NoPop(scopes'[Len(scopes')]) ELSE Leaves(items[m])
    BY <1>3
  <2>2. items # <<>> /\ Demands(items[1]) => NoPop(scopes'[Len(scopes')])
    BY <1>3
  <2>3. Len(scopes) \in Nat /\ Len(scopes') \in Nat
    BY <1>2, <1>3
  <2>. QED BY <1>1, <1>5, <1>6, <1>7, <2>1, <2>2, <2>3, Continues
<1>9. Jumping(items \o Tail(todo), d2, scopes')
  <2>1. /\ Sequence(todo) /\ todo # <<>> /\ Len(scopes) \in Nat /\ Jumping(todo, d, scopes)
        /\ d[1] = Len(scopes) /\ Sequence(items) /\ Len(scopes') \in Nat \ {0}
        /\ Spliced(d2, e, items, d, todo) /\ Len(scopes') = Len(scopes)
    BY <1>1, <1>2, <1>3, <1>8 DEF Todo
  <2>2. PatchIn(items, e, Len(scopes'))
    <3>1. \A k \in 1..m : k \in 1..m + 1
      BY ONLY <1>2
    <3>. QED BY <1>3, <3>1 DEF PatchIn, e
  <2>3. Moves(todo[1], scopes[Len(scopes')], items, scopes'[Len(scopes')])
    BY <1>3 DEF Scope
  <2>4. \A j \in 1..Len(scopes') : j # Len(scopes') => j \in 1..Len(scopes) /\ scopes'[j] = scopes[j]
    BY <1>3
  <2>5. Len(scopes') \in 1..Len(scopes)
    BY ONLY <2>1
  <2>6. \A k \in 1..Len(items) : ~Ending(items[k])
    BY DEF Ending
  <2>. HIDE DEF e
  <2>. QED BY ONLY <2>1, <2>2, <2>3, <2>4, <2>5, <2>6, JumpsContinue
<1>. QED BY <1>3, <1>8, <1>9 DEF CInv

(* A call that will patch no jump and leave no function, and is not for a  *)
(* block.                                                                  *)
Calm(trees, it) ==
  Item(trees, it) /\ it.do \in {"visit", "emit", "then", "abort"} /\ ~Block(it)

(* A stretch that only leaves work, and none that has to come first.       *)
LEMMA Visiting ==
  ASSUME NEW trees, CInv(trees), ~failed, todo # <<>>, todo[1].do = "visit",
         NEW items, Sequence(items), \A k \in 1..Len(items) : Calm(trees, items[k]),
         \A k \in 1..Len(items) - 1 : Demands(items[k + 1]) => Leaves(items[k]),
         items # <<>> => ~Demands(items[1]),
         Leaves(todo[1]) => items # <<>> /\ Leaves(items[Len(items)]),
         Seals(todo[1]) => items # <<>>,
         items # <<>> /\ (Seals(todo[1]) \/ Block(todo[1])) => Seals(items[Len(items)]),
         todo' = items \o Tail(todo), scopes' = scopes, failed' = failed, constants' = constants,
         Chain(symbolTable'), Len(symbolTable') = Len(symbolTable)
  PROVE  CInv(trees)'
<1>. DEFINE t == Scope
            n == Len(scopes)
<1>1. n \in Nat \ {0} /\ n \in 1..n /\ scopes = [k \in 1..n |-> scopes[k]] /\ GoodScope(t)
  <2>1. GoodScopes(scopes)
    BY DEF CInv
  <2>. QED BY ONLY <2>1, SequenceIsFunction DEF GoodScopes, Scope
<1>2. scopes' = Changed(t)
  BY <1>1 DEF Changed, Scope
<1>3. CodeKept(Scope, t) /\ Pool(constants')
  BY DEF CodeKept, CInv
<1>4. \A k \in 1..Len(items) :
        Item(trees, items[k]) /\ Placed(items[k], t) /\ items[k].do # "end function"
  BY DEF Calm, Placed
<1>5. Moves(todo[1], Scope, items, t)
  <2>1. Waits(todo[1]) = {}
    BY DEF Waits, Patching
  <2>2. \A P : GoodJumps(t, P) => GoodJumps(t, P \cup WaitsOf(items))
    BY GoodJumpsWait
  <2>3. Passes(Scope, Waits(todo[1]), t, WaitsOf(items))
    BY <2>1, <2>2 DEF Passes
  <2>4. \A k \in 1..Len(items) : ~Block(items[k])
    BY DEF Calm
  <2>. QED BY <2>3, <2>4 DEF Moves
<1>. HIDE DEF t
<1>6. todo[1].do # "end function"
  OBVIOUS
<1>. QED BY <1>1, <1>2, <1>3, <1>4, <1>5, <1>6, Working

(* The built-ins (compiler.go:59-62).                                      *)
LEMMA BuiltinsTable == Table(Symbols!DefineBuiltins)
<1>. DEFINE g == Symbols!DefineBuiltins
<1>1. /\ g.numDefinitions = 0 /\ g.FreeSymbols = <<>>
      /\ DOMAIN g.store = {Builtins[i] : i \in DOMAIN Builtins}
      /\ \A x \in DOMAIN g.store :
           g.store[x] = Symbols!Symbol(x, Symbols!BuiltinScope,
                          (CHOOSE i \in DOMAIN Builtins : Builtins[i] = x) - 1)
  BY DEF Symbols!DefineBuiltins
<1>2. DOMAIN Builtins \subseteq Nat \ {0}
  BY DEF Builtins
<1>3. ASSUME NEW x \in DOMAIN g.store PROVE Known(g.store[x])
  <2>. DEFINE i == CHOOSE i \in DOMAIN Builtins : Builtins[i] = x
  <2>1. \E j \in DOMAIN Builtins : Builtins[j] = x
    BY <1>1
  <2>2. i \in DOMAIN Builtins
    BY <2>1
  <2>3. g.store[x] = Symbols!Symbol(x, Symbols!BuiltinScope, i - 1)
    BY <1>1
  <2>. HIDE DEF i
  <2>4. i - 1 \in Nat
    BY <1>2, <2>2
  <2>. QED BY <2>3, <2>4 DEF Known, Symbols!Symbol
<1>4. Sequence(<<>>) /\ Len(<<>>) = 0
  BY DEF Sequence
<1>. QED BY <1>1, <1>3, <1>4 DEF Table

(* The work of a program that is still to be compiled, in a new scope.     *)
LEMMA FreshWork ==
  ASSUME NEW trees, NEW program \in Of(trees, {"Program"})
  PROVE  /\ GoodScopes(<<NewScope>>)
         /\ \E d : Todo(trees, <<Visit(program)>>, d, <<NewScope>>) /\ Jumping(<<Visit(program)>>, d, <<NewScope>>)
<1>. DEFINE item == Visit(program)
            d == [k \in 1..2 |-> 1]
<1>4. GoodScopes(<<NewScope>>)
  <2>. HIDE DEF NewScope
  <2>1. Sequence(<<NewScope>>) /\ Len(<<NewScope>>) = 1 /\ <<NewScope>>[1] = NewScope
    BY Tuples
  <2>. QED BY <2>1, NewScopeGood DEF GoodScopes
<1>7. Todo(trees, <<item>>, d, <<NewScope>>)
  <2>1. /\ Item(trees, item) /\ ~Demands(item) /\ Placed(item, NewScope)
        /\ item.do = "visit"
    BY DEF Item, Demands, Placed, Visit, Of
  <2>. HIDE DEF item, NewScope
  <2>2. Sequence(<<item>>) /\ Len(<<item>>) = 1 /\ <<item>>[1] = item
        /\ Len(<<NewScope>>) = 1 /\ <<NewScope>>[1] = NewScope
    BY Tuples
  <2>. DEFINE w == <<item>>
              sc == <<NewScope>>
  <2>. HIDE DEF w, sc
  <2>3. Sequence(w) /\ Len(w) = 1 /\ w[1] = item /\ Len(sc) = 1 /\ sc[1] = NewScope
    BY <2>2 DEF w, sc
  <2>4. d \in [1..Len(w) + 1 -> 1..Len(sc)] /\ d[1] = Len(sc) /\ d[Len(w) + 1] = 1
    BY <2>3
  <2>5. ASSUME NEW k \in 1..Len(w)
        PROVE  Item(trees, w[k]) /\ Placed(w[k], sc[d[k]]) /\ d[k + 1] = Below(w[k], d[k])
    <3>1. k = 1 /\ k + 1 = 2 /\ d[1] = 1 /\ d[2] = 1
      BY <2>3
    <3>. QED BY <2>1, <2>3, <3>1 DEF Below
  <2>6. \A k \in 1..Len(w) - 1 : FALSE
    BY <2>3
  <2>7. Todo(trees, w, d, sc)
    BY <2>1, <2>3, <2>4, <2>5, <2>6 DEF Todo
  <2>. QED BY <2>7 DEF w, sc
<1>8. Jumping(<<item>>, d, <<NewScope>>)
  <2>1. Block(item) /\ item.do = "visit"
    BY DEF Block, Visit, Of, BlockKinds
  <2>. HIDE DEF item, NewScope
  <2>. DEFINE w == <<item>>
              sc == <<NewScope>>
  <2>2. Len(w) = 1 /\ w[1] = item /\ Len(sc) = 1 /\ sc[1] = NewScope
    BY Tuples
  <2>. HIDE DEF w, sc
  <2>3. /\ \A k \in 1..Len(w) : k = 1
        /\ \A k \in 2..Len(w) : FALSE
        /\ \A j \in 1..Len(sc) : j = 1
    BY ONLY <2>2
  <2>4. \A P : GoodJumps(sc[1], P) /\ Tight(sc[1].instructions, P)
    BY <2>2, NewScopeJumps
  <2>5. Jumping(w, d, sc)
    BY <2>1, <2>2, <2>3, <2>4 DEF Jumping
  <2>. QED BY <2>5 DEF w, sc
<1>9. \E e : Todo(trees, <<item>>, e, <<NewScope>>) /\ Jumping(<<item>>, e, <<NewScope>>)
  <2>. HIDE DEF item, NewScope, d
  <2>. QED BY <1>7, <1>8
<1>. QED BY <1>4, <1>9

(* One table that is all right is a chain.                                 *)
LEMMA OneTable ==
  ASSUME NEW g, Table(g)
  PROVE  Chain(<<g>>) /\ Len(<<g>>) = 1
<1>1. Sequence(<<g>>) /\ Len(<<g>>) = 1 /\ <<g>>[1] = g
  BY Tuples
<1>. QED BY <1>1 DEF Chain

(* The invariant holds when a compiler is new (compiler.go:46-82).         *)
LEMMA InitCInv ==
  ASSUME NEW trees, Grammar(trees), Programs \subseteq Of(trees, {"Program"}), Init
  PROVE  CInv(trees)
<1>1. PICK program \in Programs : Start(Symbols!DefineBuiltins, <<>>, program)
  BY DEF Init
<1>. DEFINE g == Symbols!DefineBuiltins
<1>2. /\ constants = <<>> /\ symbolTable = <<g>> /\ scopes = <<NewScope>>
      /\ todo = <<Visit(program)>> /\ failed = FALSE
  BY <1>1 DEF Start
<1>3. Pool(<<>>)
  BY DEF Pool, Sequence
<1>4. Chain(<<g>>) /\ Len(<<g>>) = 1
  BY BuiltinsTable, OneTable
<1>5. /\ GoodScopes(<<NewScope>>) /\ Len(<<NewScope>>) = 1
      /\ \E d : Todo(trees, <<Visit(program)>>, d, <<NewScope>>) /\ Jumping(<<Visit(program)>>, d, <<NewScope>>)
  BY FreshWork
<1>. QED BY ONLY <1>2, <1>3, <1>4, <1>5 DEF CInv

-----------------------------------------------------------------------------
(* The kinds of nodes are apart.                                           *)
LEMMA KindsApart ==
  /\ StatementKinds \cap ExpressionKinds = {} /\ BlockKinds \cap ExpressionKinds = {}
  /\ StatementKinds \cap BlockKinds = {}
BY DEF StatementKinds, ExpressionKinds, BlockKinds

(* The item that is taken from todo.                                       *)
LEMMA AtHead ==
  ASSUME NEW trees, CInv(trees), todo # <<>>
  PROVE  /\ ~failed /\ Head(todo) = todo[1] /\ Item(trees, todo[1]) /\ Placed(todo[1], Scope)
         /\ Demands(todo[1]) => NoPop(Scope)
         /\ GoodScope(Scope) /\ Len(scopes) \in Nat \ {0}
<1>1. ~failed /\ failed \in BOOLEAN
  BY DEF CInv
<1>2. PICK d : Todo(trees, todo, d, scopes)
  BY <1>1 DEF CInv
<1>3. Sequence(todo)
  BY <1>2 DEF Todo
<1>4. Len(todo) \in Nat \ {0} /\ Head(todo) = todo[1]
  BY ONLY <1>3, todo # <<>>, TailOf
<1>5. 1 \in 1..Len(todo)
  BY ONLY <1>4
<1>6. Item(trees, todo[1]) /\ Placed(todo[1], scopes[d[1]]) /\ d[1] = Len(scopes)
  BY <1>2, <1>5 DEF Todo
<1>7. Demands(todo[1]) => NoPop(Scope)
  BY <1>2 DEF Todo, Scope
<1>8. GoodScopes(scopes)
  BY DEF CInv
<1>9. GoodScope(Scope) /\ Len(scopes) \in Nat \ {0}
  BY ONLY <1>8 DEF GoodScopes, Scope
<1>. QED BY <1>1, <1>4, <1>6, <1>7, <1>9 DEF Scope

(* A call of Compile on a node of the given kinds.                         *)
LEMMA AtNode ==
  ASSUME NEW trees, CInv(trees), NEW kinds, At(kinds)
  PROVE  /\ Node \in trees /\ Node.kind \in kinds /\ todo # <<>> /\ ~failed
         /\ todo[1].do = "visit" /\ todo[1].node = Node
         /\ Leaves(todo[1]) <=> Node.kind \in ExpressionKinds
         /\ Seals(todo[1]) <=> Node.kind \in StatementKinds
         /\ Block(todo[1]) <=> Node.kind \in BlockKinds
         /\ Waits(todo[1]) = {} /\ ~Patching(todo[1])
<1>1. todo # <<>> /\ Head(todo).do = "visit" /\ Node.kind \in kinds
  BY DEF At, Doing, Node
<1>2. ~failed /\ Head(todo) = todo[1] /\ Item(trees, todo[1])
  BY <1>1, AtHead
<1>3. todo[1].do = "visit" /\ todo[1].node = Node
  BY <1>1, <1>2 DEF Node
<1>4. Node \in trees
  BY <1>2, <1>3 DEF Item
<1>5. Leaves(todo[1]) <=> Node.kind \in ExpressionKinds
  BY <1>3 DEF Leaves
<1>6. (Seals(todo[1]) <=> Node.kind \in StatementKinds) /\ (Block(todo[1]) <=> Node.kind \in BlockKinds)
  BY <1>3 DEF Seals, Block
<1>7. Waits(todo[1]) = {} /\ ~Patching(todo[1])
  BY <1>3 DEF Waits, Patching
<1>. QED BY <1>1, <1>2, <1>3, <1>4, <1>5, <1>6, <1>7

(* The calls of Compile and of emit that a call leaves.                    *)
LEMMA VisitItem ==
  ASSUME NEW trees, NEW n \in Of(trees, StatementKinds \cup ExpressionKinds)
  PROVE  /\ Calm(trees, Visit(n)) /\ ~Demands(Visit(n))
         /\ n.kind \in ExpressionKinds => Leaves(Visit(n))
         /\ n.kind \in StatementKinds => Seals(Visit(n))
BY KindsApart DEF Calm, Item, Demands, Leaves, Visit, Block, Seals, Of

(* A call of emit demands that no pop comes before it only if it is one.   *)
LEMMA EmitItem ==
  ASSUME NEW trees, NEW op \in Opcodes, op \notin JumpOps, op # OpReturn,
         NEW operands \in [1..Len(OperandWidths(op)) -> Nat]
  PROVE  /\ Calm(trees, Emits(op, operands)) /\ Seals(Emits(op, operands))
         /\ Demands(Emits(op, operands)) <=> op = OpPop
         /\ Leaves(Emits(op, operands)) <=> op # OpPop
BY DEF Calm, Item, Demands, Leaves, Emits, Block, Seals

(* A stretch that leaves calls, none of which demands anything.            *)
LEMMA VisitingMany ==
  ASSUME NEW trees, CInv(trees), NEW kinds, At(kinds), NEW items, Sequence(items),
         \A k \in 1..Len(items) : Calm(trees, items[k]) /\ ~Demands(items[k]),
         Node.kind \in ExpressionKinds => items # <<>> /\ Leaves(items[Len(items)]),
         Node.kind \in StatementKinds => items # <<>>,
         items # <<>> /\ Node.kind \notin ExpressionKinds => Seals(items[Len(items)]),
         todo' = items \o Tail(todo), scopes' = scopes, failed' = failed, constants' = constants,
         symbolTable' = symbolTable
  PROVE  CInv(trees)'
<1>1. /\ ~failed /\ todo # <<>> /\ todo[1].do = "visit"
      /\ Leaves(todo[1]) <=> Node.kind \in ExpressionKinds
      /\ Seals(todo[1]) <=> Node.kind \in StatementKinds
      /\ Seals(todo[1]) \/ Block(todo[1]) => Node.kind \notin ExpressionKinds
  BY AtNode, KindsApart
<1>2. Len(items) \in Nat
  BY ONLY Sequence(items), SequenceIsFunction
<1>3. \A k \in 1..Len(items) - 1 : k + 1 \in 1..Len(items)
  BY ONLY <1>2
<1>4. items # <<>> => 1 \in 1..Len(items)
  <2>1. items # <<>> => Len(items) # 0
    BY EmptySeq DEF Sequence
  <2>. QED BY ONLY <1>2, <2>1
<1>5. \A k \in 1..Len(items) - 1 : Demands(items[k + 1]) => Leaves(items[k])
  BY <1>3
<1>6. items # <<>> => ~Demands(items[1])
  BY <1>4
<1>7. Chain(symbolTable') /\ Len(symbolTable') = Len(symbolTable)
  BY DEF CInv
<1>. QED BY <1>1, <1>5, <1>6, <1>7, Visiting

(* A stretch that leaves two items.                                        *)
LEMMA VisitingTwo ==
  ASSUME NEW trees, CInv(trees), NEW kinds, At(kinds), NEW a, NEW b,
         Calm(trees, a), Calm(trees, b), ~Demands(a), Demands(b) => Leaves(a),
         Node.kind \in ExpressionKinds => Leaves(b), Node.kind \in ExpressionKinds \/ Seals(b),
         todo' = <<a, b>> \o Tail(todo), scopes' = scopes, failed' = failed,
         constants' = constants, Chain(symbolTable'), Len(symbolTable') = Len(symbolTable)
  PROVE  CInv(trees)'
<1>. DEFINE items == <<a, b>>
<1>1. /\ ~failed /\ todo # <<>> /\ todo[1].do = "visit"
      /\ Leaves(todo[1]) <=> Node.kind \in ExpressionKinds
      /\ Seals(todo[1]) <=> Node.kind \in StatementKinds
      /\ Seals(todo[1]) \/ Block(todo[1]) => Node.kind \notin ExpressionKinds
  BY AtNode, KindsApart
<1>2. /\ Sequence(items) /\ Len(items) = 2 /\ items[1] = a /\ items[2] = b
      /\ items # <<>>
  BY ONLY Tuples
<1>3. todo' = items \o Tail(todo)
  OBVIOUS
<1>. HIDE DEF items
<1>4. /\ \A k \in 1..Len(items) : k = 1 \/ k = 2
      /\ \A k \in 1..Len(items) - 1 : k = 1 /\ k + 1 = 2
  BY ONLY <1>2
<1>5. \A k \in 1..Len(items) : Calm(trees, items[k])
  BY <1>2, <1>4
<1>6. \A k \in 1..Len(items) - 1 : Demands(items[k + 1]) => Leaves(items[k])
  BY <1>2, <1>4
<1>. QED BY <1>1, <1>2, <1>3, <1>5, <1>6, Visiting

(* A stretch that leaves three items.                                      *)
LEMMA VisitingThree ==
  ASSUME NEW trees, CInv(trees), NEW kinds, At(kinds), NEW a, NEW b, NEW c,
         Calm(trees, a), Calm(trees, b), Calm(trees, c), ~Demands(a), ~Demands(b), ~Demands(c),
         Leaves(c), Seals(c),
         todo' = <<a, b, c>> \o Tail(todo), scopes' = scopes, failed' = failed,
         constants' = constants, symbolTable' = symbolTable
  PROVE  CInv(trees)'
<1>. DEFINE items == <<a, b, c>>
<1>1. /\ Sequence(items) /\ Len(items) = 3 /\ items[1] = a /\ items[2] = b /\ items[3] = c
      /\ items # <<>>
  BY ONLY Tuples
<1>2. todo' = items \o Tail(todo)
  OBVIOUS
<1>. HIDE DEF items
<1>3. \A k \in 1..Len(items) : k = 1 \/ k = 2 \/ k = 3
  BY ONLY <1>1
<1>4. \A k \in 1..Len(items) : Calm(trees, items[k]) /\ ~Demands(items[k])
  BY <1>1, <1>3
<1>. QED BY <1>1, <1>2, <1>4, VisitingMany

-----------------------------------------------------------------------------
(* The calls for a list of nodes.                                          *)
LEMMA VisitsItems ==
  ASSUME NEW trees, NEW S, S \subseteq Of(trees, StatementKinds \cup ExpressionKinds), NEW nodes \in Seq(S)
  PROVE  /\ Sequence(Visits(nodes)) /\ Len(Visits(nodes)) = Len(nodes) /\ Len(nodes) \in Nat
         /\ \A k \in 1..Len(nodes) : /\ Visits(nodes)[k] = Visit(nodes[k]) /\ nodes[k] \in S
                                     /\ Calm(trees, Visits(nodes)[k]) /\ ~Demands(Visits(nodes)[k])
<1>. DEFINE v == Visits(nodes)
<1>1. Len(nodes) \in Nat /\ DOMAIN nodes = 1..Len(nodes) /\ \A k \in 1..Len(nodes) : nodes[k] \in S
  BY LenProperties, ElementOfSeq
<1>2. v = [k \in 1..Len(nodes) |-> Visit(nodes[k])]
  BY <1>1 DEF Visits
<1>. HIDE DEF v
<1>3. Sequence(v) /\ Len(v) = Len(nodes)
  <2>1. v = [k \in 1..Len(nodes) |-> v[k]]
    BY <1>2
  <2>. QED BY <1>1, <2>1, FunctionIsSequence
<1>4. \A k \in 1..Len(nodes) : Calm(trees, Visit(nodes[k])) /\ ~Demands(Visit(nodes[k]))
  BY <1>1, VisitItem
<1>. QED BY <1>1, <1>2, <1>3, <1>4 DEF v

(* A list of calls and one more item.                                      *)
LEMMA AndOneMore ==
  ASSUME NEW trees, NEW items, Sequence(items), NEW x, Calm(trees, x), ~Demands(x),
         \A k \in 1..Len(items) : Calm(trees, items[k]) /\ ~Demands(items[k])
  PROVE  /\ Sequence(Append(items, x)) /\ Append(items, x) # <<>>
         /\ Append(items, x)[Len(Append(items, x))] = x
         /\ \A k \in 1..Len(Append(items, x)) :
              Calm(trees, Append(items, x)[k]) /\ ~Demands(Append(items, x)[k])
<1>. DEFINE a == Append(items, x)
            n == Len(items)
<1>1. /\ Sequence(a) /\ Len(a) = n + 1 /\ n \in Nat
      /\ \A k \in 1..n : a[k] = items[k]
      /\ a[n + 1] = x
  BY ONLY Sequence(items), AppendedTo
<1>. HIDE DEF a
<1>2. \A k \in 1..Len(a) : k \in 1..n \/ k = n + 1
  BY ONLY <1>1
<1>3. Len(a) # 0
  BY ONLY <1>1
<1>4. a # <<>>
  BY <1>3
<1>5. \A k \in 1..Len(a) : Calm(trees, a[k]) /\ ~Demands(a[k])
  BY <1>1, <1>2
<1>. QED BY <1>1, <1>4, <1>5 DEF a

(* Program and BlockStatement (compiler.go:64-70, 178-184).                *)
LEMMA StatementsStep ==
  ASSUME NEW trees, Grammar(trees), CInv(trees), CompileStatements
  PROVE  CInv(trees)'
<1>1. At({"Program", "BlockStatement"}) /\ OnlyVisits(Visits(Node.Statements))
  BY DEF CompileStatements
<1>2. Node \in trees /\ Node.kind \in BlockKinds
  BY <1>1, AtNode DEF BlockKinds
<1>3. Node.Statements \in Seq(Of(trees, StatementKinds)) /\ Node.kind \notin ExpressionKinds
  BY <1>2, KindsApart DEF Grammar
<1>. DEFINE S == Of(trees, StatementKinds)
            v == Visits(Node.Statements)
<1>4. S \subseteq Of(trees, StatementKinds \cup ExpressionKinds) /\ \A n \in S : n.kind \in StatementKinds
  BY DEF Of
<1>5. /\ Sequence(v) /\ Len(v) = Len(Node.Statements) /\ Len(v) \in Nat
      /\ \A k \in 1..Len(v) : /\ Calm(trees, v[k]) /\ ~Demands(v[k])
                              /\ v[k] = Visit(Node.Statements[k]) /\ Node.Statements[k] \in S
  <2>. DEFINE nodes == Node.Statements
  <2>1. nodes \in Seq(S) /\ S \subseteq Of(trees, StatementKinds \cup ExpressionKinds)
    BY <1>3, <1>4
  <2>. HIDE DEF S, nodes
  <2>2. /\ Sequence(Visits(nodes)) /\ Len(Visits(nodes)) = Len(nodes) /\ Len(nodes) \in Nat
        /\ \A k \in 1..Len(nodes) : /\ Visits(nodes)[k] = Visit(nodes[k]) /\ nodes[k] \in S
                                    /\ Calm(trees, Visits(nodes)[k]) /\ ~Demands(Visits(nodes)[k])
    BY ONLY <2>1, VisitsItems
  <2>3. v = Visits(nodes) /\ nodes = Node.Statements
    BY DEF nodes
  <2>. HIDE DEF v
  <2>. QED BY ONLY <2>2, <2>3
<1>6. \A k \in 1..Len(v) : Seals(v[k])
  BY <1>4, <1>5, VisitItem
<1>7. OnlyVisits(v)
  BY <1>1
<1>. HIDE DEF v
<1>8. v # <<>> => Len(v) \in 1..Len(v)
  <2>1. v # <<>> => Len(v) # 0
    BY <1>5, EmptySeq DEF Sequence
  <2>. QED BY ONLY <1>5, <2>1
<1>9. v # <<>> => Seals(v[Len(v)])
  BY <1>6, <1>8
<1>10. Node.kind \notin StatementKinds
  BY <1>2, KindsApart
<1>. QED BY <1>1, <1>3, <1>5, <1>7, <1>9, <1>10, VisitingMany DEF OnlyVisits, Continue

(* ExpressionStatement: the pop comes behind an expression, and so behind  *)
(* no other pop (compiler.go:72-77).                                       *)
LEMMA ExpressionStatementStep ==
  ASSUME NEW trees, Grammar(trees), CInv(trees), CompileExpressionStatement
  PROVE  CInv(trees)'
<1>. DEFINE a == Visit(Node.Expr)
            b == Emits(OpPop, <<>>)
<1>1. At({"ExpressionStatement"}) /\ OnlyVisits(<<a, b>>)
  BY DEF CompileExpressionStatement
<1>2. Node \in trees /\ Node.kind \in StatementKinds
  BY <1>1, AtNode DEF StatementKinds
<1>3. /\ Node.Expr \in Of(trees, StatementKinds \cup ExpressionKinds)
      /\ Node.Expr.kind \in ExpressionKinds /\ Node.kind \notin ExpressionKinds
  BY <1>2, KindsApart DEF Grammar, Of
<1>4. Calm(trees, a) /\ ~Demands(a) /\ Leaves(a)
  BY <1>3, VisitItem
<1>5. Calm(trees, b) /\ Seals(b)
  BY EmitItem, PlainOpcodes
<1>. HIDE DEF a, b
<1>6. Chain(symbolTable') /\ Len(symbolTable') = Len(symbolTable)
  BY <1>1 DEF CInv, OnlyVisits
<1>. QED BY <1>1, <1>3, <1>4, <1>5, <1>6, VisitingTwo DEF OnlyVisits, Continue

(* ReturnStatement (compiler.go:305-311).                                  *)
LEMMA ReturnStatementStep ==
  ASSUME NEW trees, Grammar(trees), CInv(trees), CompileReturnStatement
  PROVE  CInv(trees)'
<1>. DEFINE a == Visit(Node.Expr)
            b == Emits(OpReturnValue, <<>>)
<1>1. At({"ReturnStatement"}) /\ OnlyVisits(<<a, b>>)
  BY DEF CompileReturnStatement
<1>2. Node \in trees /\ Node.kind \in StatementKinds
  BY <1>1, AtNode DEF StatementKinds
<1>3. /\ Node.Expr \in Of(trees, StatementKinds \cup ExpressionKinds)
      /\ Node.Expr.kind \in ExpressionKinds /\ Node.kind \notin ExpressionKinds
  BY <1>2, KindsApart DEF Grammar, Of
<1>4. Calm(trees, a) /\ ~Demands(a) /\ Leaves(a)
  BY <1>3, VisitItem
<1>5. Calm(trees, b) /\ Seals(b)
  BY EmitItem, PlainOpcodes
<1>. HIDE DEF a, b
<1>6. Chain(symbolTable') /\ Len(symbolTable') = Len(symbolTable)
  BY <1>1 DEF CInv, OnlyVisits
<1>. QED BY <1>1, <1>3, <1>4, <1>5, <1>6, VisitingTwo DEF OnlyVisits, Continue

(* What stands for an operator: its opcode, or the error that it has none. *)
LEMMA OperatorItem ==
  ASSUME NEW trees, NEW o
  PROVE  /\ Calm(trees, EmitsOperator(InfixOpcode, o)) /\ ~Demands(EmitsOperator(InfixOpcode, o))
         /\ Leaves(EmitsOperator(InfixOpcode, o)) /\ Seals(EmitsOperator(InfixOpcode, o))
         /\ Calm(trees, EmitsOperator(PrefixOpcode, o)) /\ ~Demands(EmitsOperator(PrefixOpcode, o))
         /\ Leaves(EmitsOperator(PrefixOpcode, o)) /\ Seals(EmitsOperator(PrefixOpcode, o))
<1>. DEFINE Fine(it) == Calm(trees, it) /\ ~Demands(it) /\ Leaves(it) /\ Seals(it)
            Ops == {OpAdd, OpSub, OpMul, OpDiv, OpGreaterThan, OpEqual, OpNotEqual, OpBang, OpMinus}
<1>1. Fine(Abort)
  BY DEF Calm, Item, Demands, Leaves, Abort, Seals, Block
<1>2. \A op \in Ops : Fine(Emits(op, <<>>))
  BY PlainOpcodes, EmitItem
<1>3. \A x \in DOMAIN InfixOpcode : InfixOpcode[x] \in Ops
  <2>1. DOMAIN InfixOpcode = {"+", "-", "*", "/", ">", "==", "!="}
    BY DEF InfixOpcode
  <2>2. /\ InfixOpcode["+"] = OpAdd /\ InfixOpcode["-"] = OpSub /\ InfixOpcode["*"] = OpMul
        /\ InfixOpcode["/"] = OpDiv /\ InfixOpcode[">"] = OpGreaterThan
        /\ InfixOpcode["=="] = OpEqual /\ InfixOpcode["!="] = OpNotEqual
    BY DEF InfixOpcode
  <2>. QED BY <2>1, <2>2
<1>4. \A x \in DOMAIN PrefixOpcode : PrefixOpcode[x] \in Ops
  BY DEF PrefixOpcode
<1>. HIDE DEF Fine, Ops
<1>5. Fine(EmitsOperator(InfixOpcode, o))
  BY <1>1, <1>2, <1>3 DEF EmitsOperator
<1>6. Fine(EmitsOperator(PrefixOpcode, o))
  BY <1>1, <1>2, <1>4 DEF EmitsOperator
<1>. QED BY <1>5, <1>6 DEF Fine

(* InfixExpression (compiler.go:79-121).                                   *)
LEMMA InfixStep ==
  ASSUME NEW trees, Grammar(trees), CInv(trees), CompileInfixExpression
  PROVE  CInv(trees)'
<1>. DEFINE l == Visit(Node.Left)
            r == Visit(Node.Right)
            g == Emits(OpGreaterThan, <<>>)
            o == EmitsOperator(InfixOpcode, Node.Operator)
<1>1. At({"InfixExpression"}) /\ OnlyVisits(IF Node.Operator = "<" THEN <<r, l, g>> ELSE <<l, r, o>>)
  BY DEF CompileInfixExpression
<1>2. Node \in trees /\ Node.kind = "InfixExpression"
  BY <1>1, AtNode
<1>3. Node.Left \in Of(trees, StatementKinds \cup ExpressionKinds) /\ Node.Right \in Of(trees, StatementKinds \cup ExpressionKinds)
  BY <1>2 DEF Grammar, Of
<1>4. Calm(trees, l) /\ ~Demands(l) /\ Calm(trees, r) /\ ~Demands(r)
  BY <1>3, VisitItem
<1>5. Calm(trees, g) /\ ~Demands(g) /\ Leaves(g) /\ Seals(g)
  BY EmitItem, PlainOpcodes
<1>6. Calm(trees, o) /\ ~Demands(o) /\ Leaves(o) /\ Seals(o)
  BY OperatorItem
<1>. HIDE DEF l, r, g, o
<1>7. CASE Node.Operator = "<"
  BY <1>1, <1>4, <1>5, <1>7, VisitingThree DEF OnlyVisits, Continue
<1>8. CASE Node.Operator # "<"
  BY <1>1, <1>4, <1>6, <1>8, VisitingThree DEF OnlyVisits, Continue
<1>. QED BY <1>7, <1>8

(* PrefixExpression (compiler.go:123-137).                                 *)
LEMMA PrefixStep ==
  ASSUME NEW trees, Grammar(trees), CInv(trees), CompilePrefixExpression
  PROVE  CInv(trees)'
<1>. DEFINE r == Visit(Node.Right)
            o == EmitsOperator(PrefixOpcode, Node.Operator)
<1>1. At({"PrefixExpression"}) /\ OnlyVisits(<<r, o>>)
  BY DEF CompilePrefixExpression
<1>2. Node \in trees /\ Node.kind = "PrefixExpression"
  BY <1>1, AtNode
<1>3. Node.Right \in Of(trees, StatementKinds \cup ExpressionKinds)
  BY <1>2 DEF Grammar, Of
<1>4. Calm(trees, r) /\ ~Demands(r)
  BY <1>3, VisitItem
<1>5. Calm(trees, o) /\ ~Demands(o) /\ Leaves(o) /\ Seals(o)
  BY OperatorItem
<1>. HIDE DEF r, o
<1>6. Chain(symbolTable') /\ Len(symbolTable') = Len(symbolTable)
  BY <1>1 DEF CInv, OnlyVisits
<1>. QED BY <1>1, <1>4, <1>5, <1>6, VisitingTwo DEF OnlyVisits, Continue

(* IndexExpression (compiler.go:255-266).                                  *)
LEMMA IndexStep ==
  ASSUME NEW trees, Grammar(trees), CInv(trees), CompileIndexExpression
  PROVE  CInv(trees)'
<1>. DEFINE l == Visit(Node.Left)
            r == Visit(Node.Index)
            g == Emits(OpIndex, <<>>)
<1>1. At({"IndexExpression"}) /\ OnlyVisits(<<l, r, g>>)
  BY DEF CompileIndexExpression
<1>2. Node \in trees /\ Node.kind = "IndexExpression"
  BY <1>1, AtNode
<1>3. Node.Left \in Of(trees, StatementKinds \cup ExpressionKinds) /\ Node.Index \in Of(trees, StatementKinds \cup ExpressionKinds)
  BY <1>2 DEF Grammar, Of
<1>4. Calm(trees, l) /\ ~Demands(l) /\ Calm(trees, r) /\ ~Demands(r)
  BY <1>3, VisitItem
<1>5. Calm(trees, g) /\ ~Demands(g) /\ Leaves(g) /\ Seals(g)
  BY EmitItem, PlainOpcodes
<1>. HIDE DEF l, r, g
<1>. QED BY <1>1, <1>4, <1>5, VisitingThree DEF OnlyVisits, Continue

(* ArrayLiteral (compiler.go:222-230).                                     *)
LEMMA ArrayStep ==
  ASSUME NEW trees, Grammar(trees), CInv(trees), CompileArrayLiteral
  PROVE  CInv(trees)'
<1>. DEFINE v == Visits(Node.Elements)
            x == Emits(OpArray, <<Len(Node.Elements)>>)
            items == Append(v, x)
<1>1. At({"ArrayLiteral"}) /\ OnlyVisits(items)
  BY DEF CompileArrayLiteral
<1>2. Node \in trees /\ Node.kind = "ArrayLiteral"
  BY <1>1, AtNode
<1>3. /\ Node.Elements \in Seq(Of(trees, ExpressionKinds))
      /\ Of(trees, ExpressionKinds) \subseteq Of(trees, StatementKinds \cup ExpressionKinds)
  BY <1>2 DEF Grammar, Of
<1>4. /\ Sequence(v) /\ Len(Node.Elements) \in Nat
      /\ \A k \in 1..Len(v) : Calm(trees, v[k]) /\ ~Demands(v[k])
  BY <1>3, VisitsItems
<1>5. Calm(trees, x) /\ ~Demands(x) /\ Leaves(x) /\ Seals(x)
  BY <1>4, OneOperand, NoJumps, EmitItem DEF Wide
<1>. HIDE DEF v, x
<1>6. /\ Sequence(items) /\ items # <<>> /\ items[Len(items)] = x
      /\ \A k \in 1..Len(items) : Calm(trees, items[k]) /\ ~Demands(items[k])
  BY ONLY <1>4, <1>5, AndOneMore
<1>. HIDE DEF items
<1>. QED BY <1>1, <1>5, <1>6, VisitingMany DEF OnlyVisits, Continue

(* CallExpression (compiler.go:313-326).                                   *)
LEMMA CallStep ==
  ASSUME NEW trees, Grammar(trees), CInv(trees), CompileCallExpression
  PROVE  CInv(trees)'
<1>. DEFINE f == Visit(Node.Function)
            v == Visits(Node.Arguments)
            x == Emits(OpCall, <<Len(Node.Arguments)>>)
            both == <<f>> \o v
            items == Append(both, x)
<1>1. At({"CallExpression"}) /\ OnlyVisits(items)
  BY DEF CompileCallExpression
<1>2. Node \in trees /\ Node.kind = "CallExpression"
  BY <1>1, AtNode
<1>3. /\ Node.Arguments \in Seq(Of(trees, ExpressionKinds))
      /\ Of(trees, ExpressionKinds) \subseteq Of(trees, StatementKinds \cup ExpressionKinds)
      /\ Node.Function \in Of(trees, StatementKinds \cup ExpressionKinds)
  BY <1>2 DEF Grammar, Of
<1>4. /\ Sequence(v) /\ Len(Node.Arguments) \in Nat
      /\ \A k \in 1..Len(v) : Calm(trees, v[k]) /\ ~Demands(v[k])
  BY <1>3, VisitsItems
<1>5. Calm(trees, x) /\ ~Demands(x) /\ Leaves(x) /\ Seals(x)
  BY <1>4, OneOperand, NoJumps, EmitItem DEF Narrow
<1>6. Calm(trees, f) /\ ~Demands(f)
  BY <1>3, VisitItem
<1>. HIDE DEF f, v, x
<1>7. Sequence(both) /\ \A k \in 1..Len(both) : Calm(trees, both[k]) /\ ~Demands(both[k])
  <2>. DEFINE one == <<f>>
              n == Len(v)
  <2>1. Sequence(one) /\ Len(one) = 1 /\ one[1] = f /\ Len(one) \in Nat
    BY ONLY Tuples
  <2>. HIDE DEF one
  <2>2. /\ Sequence(one \o v) /\ n \in Nat /\ DOMAIN (one \o v) = 1..(Len(one) + n)
        /\ \A k \in 1..Len(one) : (one \o v)[k] = one[k]
        /\ \A k \in 1..n : (one \o v)[Len(one) + k] = v[k]
    <3>1. Sequence(v) /\ Sequence(one) /\ Len(one) \in Nat
      BY ONLY <1>4, <2>1
    <3>. QED BY ONLY <3>1, Pushed
  <2>3. both = one \o v
    BY DEF one
  <2>. HIDE DEF both
  <2>4. Len(both) = 1 + n
    <3>1. both = [k \in 1..1 + n |-> both[k]]
      BY <2>1, <2>2, <2>3, SequenceIsFunction
    <3>. QED BY <2>2, <3>1, FunctionIsSequence
  <2>5. ASSUME NEW k \in 1..Len(both) PROVE Calm(trees, both[k]) /\ ~Demands(both[k])
    <3>1. k = 1 \/ (k - 1 \in 1..n /\ k = 1 + (k - 1))
      BY ONLY <2>2, <2>4, k \in 1..Len(both)
    <3>2. both[1] = f
      BY <2>1, <2>2, <2>3
    <3>3. \A j \in 1..n : both[1 + j] = v[j]
      BY <2>1, <2>2, <2>3
    <3>. QED BY <1>4, <1>6, <3>1, <3>2, <3>3
  <2>. QED BY <2>2, <2>3, <2>5
<1>. HIDE DEF both
<1>8. /\ Sequence(items) /\ items # <<>> /\ items[Len(items)] = x
      /\ \A k \in 1..Len(items) : Calm(trees, items[k]) /\ ~Demands(items[k])
  BY ONLY <1>5, <1>7, AndOneMore
<1>. HIDE DEF items
<1>. QED BY <1>1, <1>5, <1>8, VisitingMany DEF OnlyVisits, Continue

(* HashLiteral, in whatever order its pairs come (compiler.go:232-253).    *)
LEMMA HashStep ==
  ASSUME NEW trees, Grammar(trees), CInv(trees), CompileHashLiteral
  PROVE  CInv(trees)'
<1>. DEFINE n == Len(Node.Pairs)
            x == Emits(OpHash, <<n * 2>>)
            E == Of(trees, ExpressionKinds)
<1>1. At({"HashLiteral"})
  BY DEF CompileHashLiteral
<1>2. Node \in trees /\ Node.kind = "HashLiteral"
  BY <1>1, AtNode
<1>3. Node.Pairs \in Seq(E \X E) /\ E \subseteq Of(trees, StatementKinds \cup ExpressionKinds)
  BY <1>2 DEF Grammar, Of
<1>4. n \in Nat /\ \A k \in 1..n : Node.Pairs[k] \in E \X E
  BY <1>3, LenProperties, ElementOfSeq
<1>5. PICK keys \in [1..n -> 1..n] :
        OnlyVisits(Append([k \in 1..n * 2 |->
                             Visit(Node.Pairs[keys[(k + 1) \div 2]][2 - (k % 2)])], x))
  BY DEF CompileHashLiteral
<1>. DEFINE v == [k \in 1..n * 2 |-> Visit(Node.Pairs[keys[(k + 1) \div 2]][2 - (k % 2)])]
            items == Append(v, x)
<1>6. n * 2 \in Nat
  BY <1>4
<1>7. Calm(trees, x) /\ ~Demands(x) /\ Leaves(x) /\ Seals(x)
  BY <1>6, OneOperand, NoJumps, EmitItem DEF Wide
<1>8. ASSUME NEW k \in 1..n * 2 PROVE Calm(trees, v[k]) /\ ~Demands(v[k])
  <2>1. (k + 1) \div 2 \in 1..n /\ 2 - (k % 2) \in {1, 2}
    BY <1>4, <1>8
  <2>2. Node.Pairs[keys[(k + 1) \div 2]] \in E \X E
    BY <1>4, <2>1
  <2>3. Node.Pairs[keys[(k + 1) \div 2]][2 - (k % 2)] \in Of(trees, StatementKinds \cup ExpressionKinds)
    BY <1>3, <2>1, <2>2
  <2>. QED BY <1>8, <2>3, VisitItem
<1>9. v = [k \in 1..n * 2 |-> v[k]]
  OBVIOUS
<1>10. OnlyVisits(items)
  BY <1>5
<1>. HIDE DEF v, x
<1>11. Sequence(v) /\ Len(v) = n * 2
  BY ONLY <1>6, <1>9, FunctionIsSequence
<1>12. \A k \in 1..Len(v) : Calm(trees, v[k]) /\ ~Demands(v[k])
  BY <1>8, <1>11
<1>13. /\ Sequence(items) /\ items # <<>> /\ items[Len(items)] = x
       /\ \A k \in 1..Len(items) : Calm(trees, items[k]) /\ ~Demands(items[k])
  <2>1. Sequence(v) /\ Calm(trees, x) /\ ~Demands(x)
    BY <1>7, <1>11
  <2>. QED BY ONLY <1>12, <2>1, AndOneMore
<1>. HIDE DEF items
<1>. QED BY <1>1, <1>7, <1>10, <1>13, VisitingMany DEF OnlyVisits, Continue

(* IfExpression up to its condition (compiler.go:139-143).                 *)
LEMMA IfStep ==
  ASSUME NEW trees, Grammar(trees), CInv(trees), CompileIfExpression
  PROVE  CInv(trees)'
<1>. DEFINE c == Visit(Node.Condition)
            t == Then(Node)
<1>1. At({"IfExpression"}) /\ OnlyVisits(<<c, t>>)
  BY DEF CompileIfExpression
<1>2. Node \in trees /\ Node.kind = "IfExpression"
  BY <1>1, AtNode
<1>3. Node.Condition \in Of(trees, StatementKinds \cup ExpressionKinds) /\ Node.kind \in ExpressionKinds
  BY <1>2 DEF Grammar, Of, ExpressionKinds
<1>4. Calm(trees, c) /\ ~Demands(c)
  BY <1>3, VisitItem
<1>5. Calm(trees, t) /\ ~Demands(t) /\ Leaves(t)
  BY <1>2 DEF Calm, Item, Demands, Leaves, Then, Of, Block
<1>. HIDE DEF c, t
<1>6. Chain(symbolTable') /\ Len(symbolTable') = Len(symbolTable)
  BY <1>1 DEF CInv, OnlyVisits
<1>. QED BY <1>1, <1>3, <1>4, <1>5, <1>6, VisitingTwo DEF OnlyVisits, Continue

(* LetStatement up to its value: the name is defined (compiler.go:186-191). *)
LEMMA LetStep ==
  ASSUME NEW trees, Grammar(trees), CInv(trees), CompileLetStatement
  PROVE  CInv(trees)'
<1>. DEFINE s == Symbols!DefinedSymbol(symbolTable, Node.Name)
            op == IF s.Scope = Symbols!GlobalScope THEN OpSetGlobal ELSE OpSetLocal
            a == Visit(Node.Expr)
            b == Emits(op, <<s.Index>>)
<1>1. /\ At({"LetStatement"}) /\ todo' = <<a, b>> \o Tail(todo)
      /\ symbolTable' = Symbols!Define(symbolTable, Node.Name)
      /\ constants' = constants /\ scopes' = scopes /\ failed' = failed
  BY DEF CompileLetStatement, Continue
<1>2. Node \in trees /\ Node.kind \in StatementKinds
  BY <1>1, AtNode DEF StatementKinds
<1>3. /\ Node.Expr \in Of(trees, StatementKinds \cup ExpressionKinds)
      /\ Node.Expr.kind \in ExpressionKinds /\ Node.kind \notin ExpressionKinds
  BY <1>2, KindsApart DEF Grammar, Of
<1>4. Calm(trees, a) /\ ~Demands(a) /\ Leaves(a)
  BY <1>3, VisitItem
<1>5. s.Index \in Nat
  BY DefinedKnown DEF CInv, Known
<1>6. op \in Wide \cup Narrow /\ op \notin JumpOps
  BY NoJumps DEF Wide, Narrow
<1>. HIDE DEF s, op
<1>7. Calm(trees, b) /\ Seals(b)
  BY <1>5, <1>6, OneOperand, EmitItem
<1>. HIDE DEF a, b
<1>8. Chain(symbolTable') /\ Len(symbolTable') = Len(symbolTable)
  BY <1>1, DefineChain DEF CInv
<1>. QED BY <1>1, <1>3, <1>4, <1>7, <1>8, VisitingTwo

-----------------------------------------------------------------------------
(* A stretch that emits and leaves no work.                                *)
LEMMA WorkingNone ==
  ASSUME NEW trees, CInv(trees), todo # <<>>, todo[1].do # "end function",
         NEW t, GoodScope(t), CodeKept(Scope, t), Leaves(todo[1]) => NoPop(t),
         Passes(Scope, Waits(todo[1]), t, {}), Seals(todo[1]) => Closes(Scope, Waits(todo[1]), t),
         ~Block(todo[1]),
         scopes' = Changed(t), todo' = <<>> \o Tail(todo), failed' = failed,
         Pool(constants'), Chain(symbolTable'), Len(symbolTable') = Len(symbolTable)
  PROVE  CInv(trees)'
<1>. DEFINE items == <<>>
<1>1. Sequence(items) /\ items = <<>> /\ Len(items) = 0 /\ todo' = items \o Tail(todo)
  BY Tuples
<1>. HIDE DEF items
<1>2. ~failed
  BY AtHead
<1>3. /\ \A k \in 1..Len(items) : FALSE
      /\ \A k \in 1..Len(items) - 1 : FALSE
  BY ONLY <1>1
<1>4. Moves(todo[1], Scope, items, t)
  <2>1. WaitsOf(items) = {}
    BY <1>3 DEF WaitsOf
  <2>. QED BY <1>1, <1>3, <2>1 DEF Moves
<1>. QED BY <1>1, <1>2, <1>3, <1>4, Working

(* A stretch that emits and leaves two items.                              *)
LEMMA WorkingTwo ==
  ASSUME NEW trees, CInv(trees), todo # <<>>, todo[1].do # "end function",
         NEW t, GoodScope(t), CodeKept(Scope, t), NEW a, NEW b,
         Item(trees, a), Item(trees, b), Placed(a, t), Placed(b, t),
         a.do # "end function", b.do # "end function",
         ~Demands(a), Demands(b) => Leaves(a), Leaves(b),
         Passes(Scope, Waits(todo[1]), t, Waits(b)), ~Seals(todo[1]), ~Block(todo[1]), ~Block(b),
         scopes' = Changed(t), todo' = <<a, b>> \o Tail(todo), failed' = failed,
         Pool(constants'), Chain(symbolTable'), Len(symbolTable') = Len(symbolTable)
  PROVE  CInv(trees)'
<1>. DEFINE items == <<a, b>>
<1>1. /\ Sequence(items) /\ Len(items) = 2 /\ items[1] = a /\ items[2] = b
      /\ items # <<>>
  BY ONLY Tuples
<1>2. todo' = items \o Tail(todo)
  OBVIOUS
<1>3. ~failed
  BY AtHead
<1>. HIDE DEF items
<1>4. /\ \A k \in 1..Len(items) : k = 1 \/ k = 2
      /\ \A k \in 1..Len(items) - 1 : k = 1 /\ k + 1 = 2
  BY ONLY <1>1
<1>5. \A k \in 1..Len(items) :
        Item(trees, items[k]) /\ Placed(items[k], t) /\ items[k].do # "end function"
  BY <1>1, <1>4
<1>6. \A k \in 1..Len(items) - 1 : Demands(items[k + 1]) => Leaves(items[k])
  BY <1>1, <1>4
<1>7. Moves(todo[1], Scope, items, t)
  <2>1. Waits(b) \subseteq WaitsOf(items)
    <3>1. 2 \in 1..Len(items)
      BY ONLY <1>1
    <3>2. \A p \in Waits(b) : p \in Nat
      BY DEF Waits
    <3>. QED BY <1>1, <3>1, <3>2 DEF WaitsOf
  <2>2. \A P : P \cup Waits(b) \subseteq P \cup WaitsOf(items)
    BY <2>1
  <2>3. ASSUME NEW P, GoodJumps(Scope, P \cup Waits(todo[1]))
        PROVE  GoodJumps(t, P \cup WaitsOf(items))
    <3>1. GoodJumps(t, P \cup Waits(b))
      BY <2>3 DEF Passes
    <3>. QED BY ONLY <2>2, <3>1, GoodJumpsWait
  <2>4. Passes(Scope, Waits(todo[1]), t, WaitsOf(items))
    BY <2>3 DEF Passes
  <2>5. \A k \in 1..Len(items) : Block(items[k]) => k = 1 /\ Len(items) >= 2
    <3>1. Len(items) >= 2
      BY ONLY <1>1
    <3>2. \A k \in 1..Len(items) : Block(items[k]) => k = 1
      BY <1>1, <1>4
    <3>. QED BY ONLY <3>1, <3>2
  <2>. QED BY <1>1, <2>4, <2>5 DEF Moves
<1>. QED BY <1>1, <1>2, <1>3, <1>5, <1>6, <1>7, Working

(* The condition is compiled: a jump over the consequence, whose target is *)
(* not known yet, comes behind it (compiler.go:145-147).                   *)
LEMMA ConsequenceStep ==
  ASSUME NEW trees, Grammar(trees), CInv(trees), CompileConsequence
  PROVE  CInv(trees)'
<1>. DEFINE t == Emit(Scope, OpJumpNotTruthy, <<Bogus>>)
            a == Visit(Node.Consequence)
            b == Else(Node, Len(Scope.instructions))
<1>1. /\ Doing("then") /\ scopes' = Changed(t) /\ todo' = <<a, b>> \o Tail(todo)
      /\ constants' = constants /\ symbolTable' = symbolTable /\ failed' = failed
  BY DEF CompileConsequence, Continue
<1>2. /\ todo # <<>> /\ todo[1] = Head(todo) /\ todo[1].do = "then" /\ Item(trees, todo[1])
      /\ GoodScope(Scope)
  BY <1>1, AtHead DEF Doing
<1>3. Node \in trees /\ Node.kind = "IfExpression" /\ Node.Consequence \in trees
  BY <1>2 DEF Item, Of, Node, Grammar
<1>4. OpJumpNotTruthy \in Opcodes /\ <<Bogus>> \in [1..Len(OperandWidths(OpJumpNotTruthy)) -> Nat]
      /\ OpJumpNotTruthy # OpPop /\ OpJumpNotTruthy # OpReturn
  BY OneOperand DEF Wide, Bogus
<1>5. /\ GoodScope(t) /\ CodeKept(Scope, t)
      /\ Len(Scope.instructions) \in Starts(t.instructions)
      /\ t.instructions[Len(Scope.instructions) + 1] = OpJumpNotTruthy
  BY <1>2, <1>4, EmitGood
<1>9. \A P : GoodJumps(Scope, P) => GoodJumps(t, P \cup {Len(Scope.instructions)})
  BY <1>2, <1>4, EmitJumps
<1>10. Len(Scope.instructions) \in Nat
  BY <1>2, LenProperties DEF GoodScope, Formed
<1>. HIDE DEF t
<1>6. Item(trees, a) /\ Placed(a, t) /\ a.do # "end function" /\ ~Demands(a)
  BY <1>3 DEF Item, Placed, Visit, Demands
<1>7. /\ Item(trees, b) /\ Placed(b, t) /\ b.do # "end function" /\ ~Demands(b) /\ Leaves(b)
  BY <1>3, <1>5 DEF Item, Placed, Else, Demands, Leaves, Of
<1>11. Passes(Scope, Waits(todo[1]), t, Waits(b))
  <2>1. Waits(todo[1]) = {}
    BY <1>2 DEF Waits, Patching
  <2>2. Waits(b) = {Len(Scope.instructions)}
    BY <1>10 DEF Waits, Patching, Else
  <2>. QED BY <1>9, <2>1, <2>2 DEF Passes
<1>12. ~Seals(todo[1]) /\ ~Block(todo[1]) /\ ~Block(b)
  BY <1>2 DEF Seals, Block, Else
<1>. HIDE DEF a, b
<1>8. Pool(constants') /\ Chain(symbolTable') /\ Len(symbolTable') = Len(symbolTable)
  BY <1>1 DEF CInv
<1>13. todo[1].do # "end function"
  BY <1>2
<1>. QED BY <1>1, <1>2, <1>5, <1>6, <1>7, <1>8, <1>11, <1>12, <1>13, WorkingTwo

(* The consequence is compiled: its value stays, a jump over the           *)
(* alternative comes behind it and the first jump gets its target          *)
(* (compiler.go:152-162).                                                  *)
LEMMA AlternativeStep ==
  ASSUME NEW trees, Grammar(trees), CInv(trees), CompileAlternative
  PROVE  CInv(trees)'
<1>. DEFINE pos   == Head(todo).pos
            value == KeepValue(Scope)
            L     == Len(value.instructions)
            jump  == Emit(value, OpJump, <<Bogus>>)
            size  == Len(jump.instructions)
            t     == ChangeOperand(jump, pos, size)
            a     == IF Node.Alternative.kind = "nil" THEN Emits(OpNull, <<>>)
                                                      ELSE Visit(Node.Alternative)
            b     == Join(Node, L)
<1>1. /\ Doing("else") /\ scopes' = Changed(t) /\ todo' = <<a, b>> \o Tail(todo)
      /\ constants' = constants /\ symbolTable' = symbolTable /\ failed' = failed
  BY DEF CompileAlternative, Continue
<1>2. /\ todo # <<>> /\ todo[1] = Head(todo) /\ todo[1].do = "else" /\ Item(trees, todo[1])
      /\ GoodScope(Scope) /\ Placed(todo[1], Scope)
  BY <1>1, AtHead DEF Doing
<1>3. /\ Node \in trees /\ Node.kind = "IfExpression"
      /\ Node.Alternative.kind = "nil" \/ Node.Alternative \in trees
  BY <1>2 DEF Item, Of, Node, Grammar
<1>4. /\ OpJump \in Opcodes /\ <<Bogus>> \in [1..Len(OperandWidths(OpJump)) -> Nat]
      /\ OpJump # OpPop /\ OpJump # OpReturn
  BY OneOperand DEF Wide, Bogus
<1>5. GoodScope(value) /\ CodeKept(Scope, value) /\ NoPop(value)
  BY <1>2, KeepValueGood
<1>16. \A P : GoodJumps(Scope, P) => GoodJumps(value, P)
  BY <1>2, KeepValueJumps
<1>. HIDE DEF value
<1>6. /\ GoodScope(jump) /\ CodeKept(value, jump) /\ NoPop(jump)
      /\ L \in Starts(jump.instructions) /\ jump.instructions[L + 1] = OpJump
      /\ size = L + Width(jump.instructions[L + 1])
  BY <1>4, <1>5, EmitGood DEF OneMore
<1>17. \A P : GoodJumps(value, P) => GoodJumps(jump, P \cup {L})
  BY <1>4, <1>5, EmitJumps
<1>. HIDE DEF L, jump
<1>7. size \in Nat
  BY <1>6, LenProperties DEF GoodScope, Formed
<1>8. pos \in Starts(jump.instructions) /\ jump.instructions[pos + 1] = OpJumpNotTruthy
  <2>1. Placed(todo[1], jump)
    BY <1>2, <1>5, <1>6, PlacedKept
  <2>. QED BY <1>2, <2>1 DEF Placed
<1>18. /\ size > pos /\ size - 3 = L /\ L \in Nat
  <2>1. Starts(jump.instructions) \subseteq 0..size - 1
    BY <1>7, StartsClosed
  <2>2. Width(jump.instructions[L + 1]) = 3
    BY <1>6, JumpWidth DEF JumpOps
  <2>. HIDE DEF size
  <2>3. L \in Nat /\ pos \in Nat /\ pos < size
    BY ONLY <1>6, <1>7, <1>8, <2>1
  <2>. QED BY ONLY <1>6, <1>7, <2>2, <2>3
<1>19. size \in Starts(jump.instructions) \cup {Len(jump.instructions)}
  OBVIOUS
<1>. HIDE DEF size
<1>20. ASSUME NEW P, GoodJumps(jump, P \cup {pos}) PROVE GoodJumps(t, P)
  <2>1. size - 3 \in Starts(jump.instructions) /\ jump.instructions[(size - 3) + 1] = OpJump
    BY <1>6, <1>18
  <2>2. jump.instructions[pos + 1] \in JumpOps
    BY <1>8 DEF JumpOps
  <2>. QED BY <1>6, <1>8, <1>18, <1>19, <1>20, <2>1, <2>2, ChangeOperandJumps
<1>9. GoodScope(t) /\ CodeKept(jump, t) /\ NoPop(t)
  BY <1>6, <1>7, <1>8, ChangeOperandGood
<1>. HIDE DEF t
<1>10. CodeKept(Scope, t)
  BY <1>5, <1>6, <1>9, CodeKeptTransitive
<1>11. Item(trees, b) /\ b.do = "join" /\ Leaves(b) /\ b.pos = L /\ b.node = Node
  BY <1>3 DEF Item, Join, Leaves, Of
<1>21. Passes(Scope, Waits(todo[1]), t, Waits(b))
  <2>1. Waits(todo[1]) = {pos} /\ Waits(b) = {L}
    <3>1. pos \in Nat
      <4>1. Starts(Scope.instructions) \subseteq Nat
        <5>1. Len(Scope.instructions) \in Nat
          BY <1>2, LenProperties DEF GoodScope, Formed
        <5>2. \A p \in 0..Len(Scope.instructions) - 1 : p \in Nat
          BY ONLY <5>1
        <5>. QED BY <5>1, <5>2, StartsClosed
      <4>. QED BY <1>2, <4>1 DEF Placed
    <3>. HIDE DEF b
    <3>. QED BY <1>2, <1>11, <1>18, <3>1 DEF Waits, Patching
  <2>2. ASSUME NEW P, GoodJumps(Scope, P \cup {pos}) PROVE GoodJumps(t, P \cup {L})
    <3>1. GoodJumps(value, P \cup {pos})
      BY <1>16, <2>2
    <3>2. GoodJumps(jump, (P \cup {pos}) \cup {L})
      BY <1>17, <3>1
    <3>3. (P \cup {pos}) \cup {L} = (P \cup {L}) \cup {pos}
      OBVIOUS
    <3>4. GoodJumps(jump, (P \cup {L}) \cup {pos})
      BY ONLY <3>2, <3>3
    <3>. QED BY <1>20, <3>4
  <2>. HIDE DEF b
  <2>. QED BY <2>1, <2>2 DEF Passes
<1>22. ~Seals(todo[1]) /\ ~Block(todo[1]) /\ ~Block(b) /\ todo[1].do # "end function" /\ b.do # "end function"
  BY <1>2, <1>11 DEF Seals, Block
<1>12. Placed(b, t)
  <2>1. Placed(b, jump)
    BY <1>6, <1>11 DEF Placed
  <2>. QED BY <1>9, <2>1, PlacedKept
<1>13. /\ Item(trees, a) /\ Placed(a, t) /\ a.do # "end function" /\ ~Demands(a)
       /\ Node.Alternative.kind = "nil" => Leaves(a)
  <2>1. CASE Node.Alternative.kind = "nil"
    <3>1. /\ OpNull \in Opcodes /\ <<>> \in [1..Len(OperandWidths(OpNull)) -> Nat] /\ OpNull # OpPop
          /\ OpNull \notin JumpOps /\ OpNull # OpReturn
      BY PlainOpcodes
    <3>2. a = Emits(OpNull, <<>>)
      BY <2>1
    <3>. HIDE DEF a
    <3>. QED BY <3>1, <3>2 DEF Item, Placed, Emits, Demands, Leaves
  <2>2. CASE Node.Alternative.kind # "nil"
    BY <1>3, <2>2 DEF Item, Placed, Visit, Demands
  <2>. QED BY <2>1, <2>2
<1>. HIDE DEF a, b
<1>14. Demands(b) => Leaves(a)
  BY <1>11, <1>13 DEF Demands
<1>15. Pool(constants') /\ Chain(symbolTable') /\ Len(symbolTable') = Len(symbolTable)
  BY <1>1 DEF CInv
<1>. QED BY <1>1, <1>2, <1>9, <1>10, <1>11, <1>12, <1>13, <1>14, <1>15, <1>21, <1>22, WorkingTwo

(* The alternative is compiled: its value stays, and the second jump gets  *)
(* its target (compiler.go:169-175).                                       *)
LEMMA EndIfStep ==
  ASSUME NEW trees, Grammar(trees), CInv(trees), EndIfExpression
  PROVE  CInv(trees)'
<1>. DEFINE pos   == Head(todo).pos
            value == IF Node.Alternative.kind = "nil" THEN Scope ELSE KeepValue(Scope)
            L     == Len(value.instructions)
            t     == ChangeOperand(value, pos, L)
<1>1. /\ Doing("join") /\ scopes' = Changed(t) /\ todo' = <<>> \o Tail(todo)
      /\ constants' = constants /\ symbolTable' = symbolTable /\ failed' = failed
  BY DEF EndIfExpression, Continue
<1>2. /\ todo # <<>> /\ todo[1] = Head(todo) /\ todo[1].do = "join"
      /\ GoodScope(Scope) /\ Placed(todo[1], Scope) /\ (Demands(todo[1]) => NoPop(Scope))
  BY <1>1, AtHead DEF Doing
<1>3. GoodScope(value) /\ CodeKept(Scope, value) /\ NoPop(value)
  <2>1. CASE Node.Alternative.kind = "nil"
    BY <1>2, <2>1 DEF Demands, Node, CodeKept
  <2>2. CASE Node.Alternative.kind # "nil"
    BY <1>2, <2>2, KeepValueGood
  <2>. QED BY <2>1, <2>2
<1>9. \A P : GoodJumps(Scope, P) => GoodJumps(value, P)
  BY <1>2, KeepValueJumps
<1>. HIDE DEF value
<1>4. L \in Nat
  BY <1>3, LenProperties DEF GoodScope, Formed
<1>5. pos \in Starts(value.instructions) /\ value.instructions[pos + 1] = OpJump
  <2>1. Placed(todo[1], value)
    BY <1>2, <1>3, PlacedKept
  <2>. QED BY <1>2, <2>1 DEF Placed
<1>10. L > pos /\ pos \in Nat /\ L \in Starts(value.instructions) \cup {Len(value.instructions)}
  <2>1. Starts(value.instructions) \subseteq 0..L - 1
    BY <1>4, StartsClosed
  <2>2. L = Len(value.instructions)
    OBVIOUS
  <2>. HIDE DEF L
  <2>3. L > pos /\ pos \in Nat
    BY ONLY <1>4, <1>5, <2>1
  <2>. QED BY <2>2, <2>3
<1>. HIDE DEF L
<1>11. ASSUME NEW P, GoodJumps(value, P \cup {pos}) PROVE GoodJumps(t, P)
  <2>1. value.instructions[pos + 1] \in JumpOps /\ value.instructions[pos + 1] # OpJumpNotTruthy
    BY <1>5 DEF JumpOps, OpJump, OpJumpNotTruthy
  <2>. QED BY <1>3, <1>5, <1>10, <1>11, <2>1, ChangeOperandJumps
<1>6. GoodScope(t) /\ CodeKept(value, t) /\ NoPop(t)
  BY <1>3, <1>4, <1>5, ChangeOperandGood
<1>. HIDE DEF t
<1>7. CodeKept(Scope, t)
  BY <1>3, <1>6, CodeKeptTransitive
<1>8. Pool(constants') /\ Chain(symbolTable') /\ Len(symbolTable') = Len(symbolTable)
  BY <1>1 DEF CInv
<1>12. Passes(Scope, Waits(todo[1]), t, {})
  <2>1. Waits(todo[1]) = {pos}
    BY <1>2, <1>10 DEF Waits, Patching
  <2>2. \A P : P \cup {} = P
    OBVIOUS
  <2>. QED BY <1>9, <1>11, <2>1, <2>2 DEF Passes
<1>13. ~Seals(todo[1]) /\ ~Block(todo[1]) /\ todo[1].do # "end function"
  BY <1>2 DEF Seals, Block
<1>. QED BY <1>1, <1>2, <1>6, <1>7, <1>8, <1>12, <1>13, WorkingNone

(* A stretch that is one call of emit.                                     *)
LEMMA Emitting ==
  ASSUME NEW trees, CInv(trees), todo # <<>>, todo[1].do # "end function",
         NEW op \in Opcodes, NEW operands \in [1..Len(OperandWidths(op)) -> Nat],
         op # OpReturn, op = OpPop => NoPop(Scope) /\ ~Leaves(todo[1]),
         op \notin JumpOps, ~Patching(todo[1]), ~Block(todo[1]),
         EmitAction(op, operands), Pool(constants')
  PROVE  CInv(trees)'
<1>. DEFINE t == Emit(Scope, op, operands)
<1>1. /\ scopes' = Changed(t) /\ todo' = <<>> \o Tail(todo)
      /\ symbolTable' = symbolTable /\ failed' = failed
  BY DEF EmitAction, Continue
<1>2. GoodScope(Scope)
  BY AtHead
<1>3. GoodScope(t) /\ CodeKept(Scope, t) /\ (op # OpPop => NoPop(t))
  BY <1>2, EmitGood
<1>5. \A P : GoodJumps(Scope, P) => GoodJumps(t, P) /\ Tight(t.instructions, P)
  BY <1>2, EmitJumps
<1>. HIDE DEF t
<1>6. Passes(Scope, Waits(todo[1]), t, {}) /\ Closes(Scope, Waits(todo[1]), t)
  <2>1. Waits(todo[1]) = {}
    BY DEF Waits
  <2>2. \A P : P \cup {} = P
    OBVIOUS
  <2>. QED BY <1>5, <2>1, <2>2 DEF Passes, Closes
<1>4. Chain(symbolTable') /\ Len(symbolTable') = Len(symbolTable)
  BY <1>1 DEF CInv
<1>. QED BY <1>1, <1>3, <1>4, <1>6, WorkingNone

(* addConstant keeps the pool a pool (compiler.go:339-342).                *)
LEMMA Pooled ==
  ASSUME NEW pool, Pool(pool), NEW x, Linked(x),
         x.type \in {INTEGER_OBJ, STRING_OBJ, COMPILED_FUNCTION_OBJ}
  PROVE  Pool(Append(pool, x)) /\ Len(pool) \in Nat
<1>. DEFINE n == Len(pool)
            new == Append(pool, x)
<1>1. Sequence(pool)
  BY DEF Pool
<1>2. /\ Sequence(new) /\ Len(new) = n + 1 /\ n \in Nat
      /\ \A k \in 1..n : new[k] = pool[k]
      /\ new[n + 1] = x
  BY ONLY <1>1, AppendedTo
<1>. HIDE DEF new
<1>3. \A k \in 1..Len(new) : k \in 1..n \/ k = n + 1
  BY ONLY <1>2
<1>. QED BY <1>2, <1>3 DEF Pool, new

(* IntegerLiteral and StringLiteral (compiler.go:207-213).                 *)
LEMMA LiteralStep ==
  ASSUME NEW trees, CInv(trees), CompileLiteral
  PROVE  CInv(trees)'
<1>1. /\ At({"IntegerLiteral", "StringLiteral"}) /\ constants' = Append(constants, Constant)
      /\ EmitAction(OpConstant, <<Len(constants)>>)
  BY DEF CompileLiteral
<1>2. todo # <<>> /\ todo[1].do # "end function" /\ ~Patching(todo[1]) /\ ~Block(todo[1])
  <2>1. /\ todo # <<>> /\ todo[1].do = "visit" /\ ~Patching(todo[1]) /\ Node.kind \in {"IntegerLiteral", "StringLiteral"}
        /\ Block(todo[1]) <=> Node.kind \in BlockKinds
    BY <1>1, AtNode
  <2>2. ~Block(todo[1])
    BY ONLY <2>1 DEF BlockKinds
  <2>3. todo[1].do # "end function"
    BY <2>1
  <2>. QED BY <2>1, <2>2, <2>3
<1>3. Constant.type \in {INTEGER_OBJ, STRING_OBJ, COMPILED_FUNCTION_OBJ} /\ Linked(Constant)
  <2>1. Constant.type \in {INTEGER_OBJ, STRING_OBJ}
    BY DEF Constant, Integer, String
  <2>. QED BY <2>1 DEF Linked, INTEGER_OBJ, STRING_OBJ, COMPILED_FUNCTION_OBJ
<1>4. Pool(constants') /\ Len(constants) \in Nat
  BY <1>1, <1>3, Pooled DEF CInv
<1>5. /\ OpConstant \in Opcodes /\ OpConstant # OpPop /\ OpConstant # OpReturn /\ OpConstant \notin JumpOps
      /\ <<Len(constants)>> \in [1..Len(OperandWidths(OpConstant)) -> Nat]
  BY <1>4, OneOperand, NoJumps DEF Wide
<1>. QED BY <1>1, <1>2, <1>4, <1>5, Emitting

(* Boolean (compiler.go:215-220).                                          *)
LEMMA BooleanStep ==
  ASSUME NEW trees, CInv(trees), CompileBoolean
  PROVE  CInv(trees)'
<1>. DEFINE op == IF Node.Bool THEN OpTrue ELSE OpFalse
<1>1. At({"Boolean"}) /\ constants' = constants /\ EmitAction(op, <<>>)
  BY DEF CompileBoolean
<1>2. todo # <<>> /\ todo[1].do # "end function" /\ ~Patching(todo[1]) /\ ~Block(todo[1])
  <2>1. /\ todo # <<>> /\ todo[1].do = "visit" /\ ~Patching(todo[1]) /\ Node.kind \in {"Boolean"}
        /\ Block(todo[1]) <=> Node.kind \in BlockKinds
    BY <1>1, AtNode
  <2>2. ~Block(todo[1])
    BY ONLY <2>1 DEF BlockKinds
  <2>3. todo[1].do # "end function"
    BY <2>1
  <2>. QED BY <2>1, <2>2, <2>3
<1>3. op \in {OpTrue, OpFalse}
  OBVIOUS
<1>. HIDE DEF op
<1>4. op \in Opcodes /\ op # OpPop /\ op # OpReturn /\ op \notin JumpOps /\ <<>> \in [1..Len(OperandWidths(op)) -> Nat]
  BY <1>3, PlainOpcodes
<1>5. Pool(constants')
  BY <1>1 DEF CInv
<1>. QED BY <1>1, <1>2, <1>4, <1>5, Emitting

(* What a call emits after the calls it made.                              *)
LEMMA EmitAfterStep ==
  ASSUME NEW trees, CInv(trees), EmitAfter
  PROVE  CInv(trees)'
<1>. DEFINE it == todo[1]
<1>1. Doing("emit") /\ constants' = constants /\ EmitAction(Head(todo).op, Head(todo).operands)
  BY DEF EmitAfter
<1>2. /\ todo # <<>> /\ it = Head(todo) /\ it.do = "emit" /\ Item(trees, it)
      /\ (Demands(it) => NoPop(Scope))
  BY <1>1, AtHead DEF Doing
<1>3. it.op \in Opcodes /\ it.op \notin JumpOps /\ it.op # OpReturn /\ it.operands \in [1..Len(OperandWidths(it.op)) -> Nat]
  BY <1>2 DEF Item
<1>4. it.op = OpPop => NoPop(Scope) /\ ~Leaves(it)
  BY <1>2 DEF Demands, Leaves
<1>5. Pool(constants')
  BY <1>1 DEF CInv
<1>6. EmitAction(it.op, it.operands)
  BY <1>1, <1>2
<1>7. todo[1].do # "end function" /\ ~Patching(todo[1]) /\ ~Block(todo[1])
  BY <1>2 DEF Patching, Block
<1>. QED BY <1>2, <1>3, <1>4, <1>5, <1>6, <1>7, Emitting

(* Identifier: a name that resolves is loaded (compiler.go:199-205).       *)
LEMMA IdentifierStep ==
  ASSUME NEW trees, CInv(trees), CompileIdentifier
  PROVE  CInv(trees)'
<1>1. At({"Identifier"}) /\ constants' = constants /\ failed' = failed
  BY DEF CompileIdentifier
<1>2. /\ todo # <<>> /\ todo[1].do # "end function" /\ ~failed
      /\ ~Seals(todo[1]) /\ ~Block(todo[1]) /\ Waits(todo[1]) = {} /\ Node.kind = "Identifier"
  BY <1>1, AtNode DEF BlockKinds, StatementKinds
<1>3. CASE Symbols!Resolvable(symbolTable, Node.Name)
  <2>. DEFINE s == Symbols!Resolved(symbolTable, Node.Name)
              t == LoadSymbol(Scope, s)
              c == Symbols!Resolve(symbolTable, Node.Name)
  <2>1. scopes' = Changed(t) /\ symbolTable' = c /\ todo' = <<>> \o Tail(todo)
    BY <1>3 DEF CompileIdentifier, Continue
  <2>2. Chain(c) /\ Len(c) = Len(symbolTable) /\ Known(s)
    BY <1>3, ResolveChain DEF CInv
  <2>. HIDE DEF s, c
  <2>3. GoodScope(Scope)
    BY <1>2, AtHead
  <2>4. GoodScope(t) /\ CodeKept(Scope, t) /\ NoPop(t) /\ Passes(Scope, Waits(todo[1]), t, {})
    BY <1>2, <2>2, <2>3, LoadSymbolGood
  <2>. HIDE DEF t
  <2>5. Pool(constants')
    BY <1>1 DEF CInv
  <2>6. Chain(symbolTable') /\ Len(symbolTable') = Len(symbolTable)
    BY <2>1, <2>2
  <2>. QED BY <1>1, <1>2, <2>1, <2>4, <2>5, <2>6, WorkingNone
<1>4. CASE ~Symbols!Resolvable(symbolTable, Node.Name)
  <2>. DEFINE items == <<Abort>>
  <2>1. scopes' = scopes /\ symbolTable' = symbolTable /\ todo' = items \o Tail(todo)
    BY <1>4 DEF CompileIdentifier, Continue
  <2>2. Sequence(items) /\ Len(items) = 1 /\ items[1] = Abort /\ items # <<>>
    BY ONLY Tuples
  <2>3. Calm(trees, Abort) /\ ~Demands(Abort) /\ Leaves(Abort) /\ Seals(Abort)
    BY DEF Calm, Item, Demands, Leaves, Abort, Seals, Block
  <2>. HIDE DEF items
  <2>4. \A k \in 1..Len(items) : k = 1
    BY ONLY <2>2
  <2>5. \A k \in 1..Len(items) : Calm(trees, items[k]) /\ ~Demands(items[k])
    BY <2>2, <2>3, <2>4
  <2>6. Leaves(items[Len(items)]) /\ Seals(items[Len(items)])
    BY <2>2, <2>3
  <2>. QED BY <1>1, <2>1, <2>2, <2>5, <2>6, VisitingMany
<1>. QED BY <1>3, <1>4

(* An error ends everything that is open.                                  *)
LEMMA FailStep ==
  ASSUME NEW trees, CInv(trees), Fail
  PROVE  CInv(trees)'
BY DEF CInv, Fail

(* FunctionLiteral up to its body: a scope and a table are entered, and    *)
(* the parameters are defined (compiler.go:268-273).                       *)
LEMMA FunctionStep ==
  ASSUME NEW trees, Grammar(trees), CInv(trees), CompileFunctionLiteral
  PROVE  CInv(trees)'
<1>. DEFINE n == Len(scopes)
            sc2 == Append(scopes, NewScope)
            c == Symbols!NewEnclosedSymbolTable(symbolTable)
            a == Visit(Node.Body)
            b == EndFunction(Node)
            items == <<a, b>>
            e == <<n + 1, n + 1, n>>
<1>1. /\ At({"FunctionLiteral"}) /\ scopes' = sc2 /\ symbolTable' = DefineAll(c, Node.Parameters)
      /\ todo' = items \o Tail(todo) /\ constants' = constants /\ failed' = failed
  BY DEF CompileFunctionLiteral, Continue
<1>2. /\ Node \in trees /\ Node.kind = "FunctionLiteral" /\ todo # <<>> /\ ~failed
      /\ todo[1].do = "visit"
  BY <1>1, AtNode
<1>3. Node.Body \in trees /\ Node.Body.kind \in BlockKinds /\ Len(Node.Parameters) \in Nat
  BY <1>2 DEF Grammar, Of
<1>4. /\ GoodScopes(scopes) /\ Chain(symbolTable) /\ Len(symbolTable) = n /\ Pool(constants)
      /\ failed \in BOOLEAN
  BY DEF CInv
<1>5. PICK d : Todo(trees, todo, d, scopes) /\ Jumping(todo, d, scopes)
  BY <1>2 DEF CInv
<1>6. n \in Nat \ {0} /\ Sequence(scopes)
  BY <1>4 DEF GoodScopes
<1>7. Chain(symbolTable') /\ Len(symbolTable') = n + 1
  <2>1. Chain(c) /\ Len(c) = n + 1
    BY <1>4, EnclosedChain
  <2>. HIDE DEF c
  <2>. QED BY <1>1, <1>3, <2>1, DefineAllChain
<1>. HIDE DEF c
<1>8. /\ GoodScopes(sc2) /\ Len(sc2) = n + 1 /\ sc2[n + 1] = NewScope
      /\ \A k \in 1..n : sc2[k] = scopes[k]
  <2>. HIDE DEF NewScope
  <2>1. /\ Sequence(sc2) /\ Len(sc2) = n + 1
        /\ \A k \in 1..n : sc2[k] = scopes[k]
        /\ sc2[n + 1] = NewScope
    BY ONLY <1>6, AppendedTo
  <2>. HIDE DEF sc2
  <2>2. \A k \in 1..Len(sc2) : k \in 1..n \/ k = n + 1
    BY ONLY <1>6, <2>1
  <2>3. \A k \in 1..Len(sc2) : GoodScope(sc2[k])
    BY <1>4, <2>1, <2>2, NewScopeGood DEF GoodScopes
  <2>4. Len(sc2) \in Nat \ {0}
    BY ONLY <1>6, <2>1
  <2>. QED BY <2>1, <2>3, <2>4 DEF GoodScopes
<1>. HIDE DEF sc2
<1>9. d[2] = n
  <2>1. Len(todo) \in Nat \ {0}
    BY <1>2, <1>5, TailOf DEF Todo
  <2>2. 1 \in 1..Len(todo) /\ 1 + 1 = 2
    BY ONLY <2>1
  <2>3. d[1] = n /\ d[1 + 1] = Below(todo[1], d[1])
    BY <1>5, <2>2 DEF Todo
  <2>. QED BY <1>2, <2>2, <2>3 DEF Below
<1>10. /\ Item(trees, a) /\ a.do = "visit" /\ ~Demands(a)
       /\ Item(trees, b) /\ b.do = "end function" /\ ~Demands(b) /\ Leaves(b)
       /\ Block(a) /\ Seals(b)
  BY <1>2, <1>3 DEF Item, Demands, Leaves, Visit, EndFunction, Of, Block, Seals
<1>11. \A s : Placed(a, s) /\ Placed(b, s)
  BY <1>10 DEF Placed
<1>. HIDE DEF a, b
<1>12. /\ Sequence(items) /\ Len(items) = 2 /\ items[1] = a /\ items[2] = b /\ items # <<>>
  BY ONLY Tuples
<1>. HIDE DEF items
<1>13. /\ e \in [1..Len(items) + 1 -> 1..Len(sc2)] /\ e[1] = n + 1 /\ e[2] = n + 1 /\ e[3] = n
  BY ONLY <1>6, <1>8, <1>12
<1>. HIDE DEF e
<1>14. /\ \A k \in 1..Len(items) : (k = 1 /\ k + 1 = 2) \/ (k = 2 /\ k + 1 = 3)
       /\ \A k \in 1..Len(items) - 1 : k = 1 /\ k + 1 = 2
       /\ Len(items) + 1 = 3 /\ (n + 1) - 1 = n
  BY ONLY <1>6, <1>12
<1>15. \A k \in 1..Len(items) :
         Item(trees, items[k]) /\ Placed(items[k], sc2[e[k]]) /\ e[k + 1] = Below(items[k], e[k])
  BY <1>10, <1>11, <1>12, <1>13, <1>14 DEF Below
<1>16. \A k \in 1..Len(items) - 1 : Demands(items[k + 1]) => Leaves(items[k])
  BY <1>10, <1>12, <1>14
<1>17. \A j \in 1..d[2] : CodeKept(scopes[j], sc2[j])
  BY <1>8, <1>9 DEF CodeKept
<1>18. Len(scopes) \in Nat /\ Len(sc2) \in Nat /\ e[1] = Len(sc2) /\ e[Len(items) + 1] = d[2]
  BY <1>6, <1>8, <1>9, <1>13, <1>14
<1>19. ~Demands(items[1]) /\ Leaves(items[Len(items)])
  BY <1>10, <1>12
<1>20. PICK d2 : Todo(trees, items \o Tail(todo), d2, sc2) /\ Spliced(d2, e, items, d, todo)
  BY <1>2, <1>5, <1>12, <1>13, <1>15, <1>16, <1>17, <1>18, <1>19, Continues
<1>21. ~Patching(a) /\ ~Patching(b) /\ ~Block(b) /\ ~Ending(a) /\ ~Patching(todo[1])
  BY <1>2, <1>10 DEF Patching, Block, Ending
<1>22. sc2[Len(sc2)] = NewScope
  BY <1>8
<1>23. Moves(todo[1], scopes[Len(sc2)], items, sc2[Len(sc2)])
  <2>1. \A P : GoodJumps(sc2[Len(sc2)], P)
    BY <1>22, NewScopeJumps
  <2>2. \A s, P, Q : Passes(s, P, sc2[Len(sc2)], Q)
    BY <2>1 DEF Passes
  <2>3. \A k \in 1..Len(items) : Block(items[k]) => k = 1 /\ Len(items) >= 2
    <3>1. Len(items) >= 2
      BY ONLY <1>12
    <3>2. \A k \in 1..Len(items) : Block(items[k]) => k = 1
      BY <1>12, <1>14, <1>21
    <3>. QED BY ONLY <3>1, <3>2
  <2>4. items # <<>> /\ Seals(items[Len(items)])
    BY <1>10, <1>12
  <2>. QED BY <2>2, <2>3, <2>4 DEF Moves
<1>24. Jumping(items \o Tail(todo), d2, sc2)
  <2>1. /\ Sequence(todo) /\ todo # <<>> /\ Len(scopes) \in Nat /\ Jumping(todo, d, scopes)
        /\ d[1] = Len(scopes) /\ Sequence(items) /\ Len(sc2) \in Nat \ {0}
        /\ Spliced(d2, e, items, d, todo)
    BY <1>2, <1>5, <1>6, <1>8, <1>12, <1>20 DEF Todo
  <2>2. PatchIn(items, e, Len(sc2))
    BY <1>12, <1>14, <1>21 DEF PatchIn
  <2>3. \A j \in 1..Len(sc2) : j # Len(sc2) => j \in 1..Len(scopes) /\ sc2[j] = scopes[j]
    <3>1. \A j \in 1..n + 1 : j # n + 1 => j \in 1..n
      BY ONLY <1>6
    <3>. QED BY <1>8, <3>1
  <2>4. ~Patching(todo[1]) /\ items # <<>>
    BY <1>12, <1>21
  <2>5. \A k \in 1..Len(items) :
          Ending(items[k]) => k = 2 /\ Block(items[1]) /\ sc2[Len(sc2)] = NewScope
    BY <1>10, <1>12, <1>14, <1>21, <1>22
  <2>. QED BY ONLY <1>22, <1>23, <2>1, <2>2, <2>3, <2>4, <2>5, JumpsContinue
<1>. QED BY <1>1, <1>2, <1>4, <1>7, <1>8, <1>20, <1>24 DEF CInv

(* FunctionLiteral after its body: the scope and the table are left, and   *)
(* the function around it gets the loads and the closure                   *)
(* (compiler.go:280-303).                                                  *)
LEMMA FunctionEndStep ==
  ASSUME NEW trees, Grammar(trees), CInv(trees), CompileFunctionEnd
  PROVE  CInv(trees)'
<1>. DEFINE n == Len(scopes)
            free == symbolTable[Len(symbolTable)].FreeSymbols
            loaded == LoadAll(scopes[n - 1], free)
            t == Emit(loaded, OpClosure, <<Len(constants), Len(free)>>)
            front == SubSeq(scopes, 1, n - 2)
            sc2 == Append(front, t)
            fn == CompiledFunction(EndBody(Scope).instructions,
                    symbolTable[Len(symbolTable)].numDefinitions, Len(Node.Parameters))
            items == <<>>
            e == <<n - 1>>
<1>1. /\ Doing("end function") /\ scopes' = sc2 /\ symbolTable' = Symbols!Outer(symbolTable)
      /\ todo' = items \o Tail(todo) /\ constants' = Append(constants, fn) /\ failed' = failed
  BY DEF CompileFunctionEnd, Continue
<1>2. todo # <<>> /\ todo[1] = Head(todo) /\ todo[1].do = "end function" /\ ~failed
  BY <1>1, AtHead DEF Doing
<1>3. /\ GoodScopes(scopes) /\ Chain(symbolTable) /\ Len(symbolTable) = n /\ Pool(constants)
      /\ failed \in BOOLEAN
  BY DEF CInv
<1>4. PICK d : Todo(trees, todo, d, scopes) /\ Jumping(todo, d, scopes)
  BY <1>2 DEF CInv
<1>5. n \in Nat \ {0} /\ Sequence(scopes)
  BY <1>3 DEF GoodScopes
<1>6. d[2] = n - 1 /\ n - 1 \in 1..n /\ n - 2 \in Nat /\ n > 1
  <2>1. Len(todo) \in Nat \ {0}
    BY <1>2, <1>4, TailOf DEF Todo
  <2>2. 1 \in 1..Len(todo) /\ 1 + 1 = 2 /\ 2 \in 1..Len(todo) + 1
    BY ONLY <2>1
  <2>3. d[1] = n /\ d[1 + 1] = Below(todo[1], d[1]) /\ d[2] \in 1..n
    BY <1>4, <2>2 DEF Todo
  <2>4. d[2] = n - 1
    BY <1>2, <2>2, <2>3 DEF Below
  <2>. QED BY ONLY <1>5, <2>3, <2>4
<1>7. Chain(symbolTable') /\ Len(symbolTable') = n - 1
  BY <1>1, <1>3, <1>6, OuterChain
<1>8. Len(free) \in Nat /\ \A k \in 1..Len(free) : Known(free[k])
  <2>1. n \in 1..n
    BY ONLY <1>5
  <2>2. Table(symbolTable[Len(symbolTable)])
    BY <1>3, <2>1 DEF Chain
  <2>. QED BY <2>2, SequenceIsFunction DEF Table
<1>. HIDE DEF free
<1>9. GoodScope(loaded) /\ CodeKept(scopes[n - 1], loaded) /\ Passes(scopes[n - 1], {}, loaded, {})
  <2>1. GoodScope(scopes[n - 1])
    BY <1>3, <1>6 DEF GoodScopes
  <2>. QED BY <1>8, <2>1, LoadAllGood
<1>. HIDE DEF loaded
<1>25. Tight(Scope.instructions, {}) /\ GoodJumps(Scope, {}) /\ GoodScope(Scope)
  <2>1. n \in 1..n /\ \A k \in 1..Len(todo) : k = 1 \/ k \in 2..Len(todo) + 1
    <3>1. Len(todo) \in Nat
      BY <1>4, SequenceIsFunction DEF Todo
    <3>. QED BY ONLY <1>5, <3>1
  <2>2. \A k \in 2..Len(todo) + 1 : d[k] # n
    <3>1. \A k \in 2..Len(todo) + 1 : d[k] <= d[2]
      BY <1>4, <1>5, Descends
    <3>. QED BY ONLY <1>5, <1>6, <3>1
  <2>3. Waits(todo[1]) = {}
    BY <1>2 DEF Waits, Patching
  <2>4. WaitsIn(todo, d, n) = {}
    BY <2>1, <2>2, <2>3 DEF WaitsIn
  <2>5. Ready(todo)
    BY <1>2 DEF Ready, Ending
  <2>6. Tight(scopes[n].instructions, {}) /\ GoodJumps(scopes[n], {})
    BY <1>4, <2>1, <2>4, <2>5 DEF Jumping
  <2>7. GoodScope(scopes[n])
    BY <1>3, <2>1 DEF GoodScopes
  <2>. QED BY <2>6, <2>7 DEF Scope
<1>10. fn.type = COMPILED_FUNCTION_OBJ /\ Linked(fn)
  <2>1. Tight(EndBody(Scope).instructions, {}) /\ Len(EndBody(Scope).instructions) \in Nat
    BY <1>25, EndBodyJumps
  <2>2. PICK g : Formed(g) /\ EndBody(Scope).instructions = g.instructions
    BY <1>25, EndBodyJumps
  <2>3. EndBody(Scope).instructions \in Seq(Bytes) /\ Whole(EndBody(Scope).instructions)
    BY <2>2, FormedWhole DEF Formed
  <2>4. symbolTable[Len(symbolTable)].numDefinitions \in Nat
    <3>1. n \in 1..n
      BY ONLY <1>5
    <3>. QED BY <1>3, <3>1 DEF Chain, Table
  <2>5. Len(Node.Parameters) \in Nat
    <3>1. Len(todo) \in Nat \ {0}
      BY <1>2, <1>4, TailOf DEF Todo
    <3>2. 1 \in 1..Len(todo)
      BY ONLY <3>1
    <3>3. Item(trees, todo[1])
      BY <1>4, <3>2 DEF Todo
    <3>4. Node \in Of(trees, {"FunctionLiteral"})
      BY <1>2, <3>3 DEF Item, Node
    <3>. QED BY <3>4 DEF Of, Grammar
  <2>6. /\ fn.type = COMPILED_FUNCTION_OBJ /\ fn.Instructions = EndBody(Scope).instructions
        /\ fn.NumLocals = symbolTable[Len(symbolTable)].numDefinitions
        /\ fn.NumParameters = Len(Node.Parameters)
    BY DEF CompiledFunction
  <2>. HIDE DEF fn
  <2>. QED BY <2>1, <2>3, <2>4, <2>5, <2>6 DEF Linked
<1>. HIDE DEF fn
<1>11. Pool(constants') /\ Len(constants) \in Nat
  <2>1. /\ fn.type \in {INTEGER_OBJ, STRING_OBJ, COMPILED_FUNCTION_OBJ} /\ Linked(fn)
        /\ Pool(constants)
    BY <1>3, <1>10
  <2>2. Pool(Append(constants, fn)) /\ Len(constants) \in Nat
    BY ONLY <2>1, Pooled
  <2>. QED BY <1>1, <2>2
<1>12. /\ GoodScope(t) /\ CodeKept(loaded, t) /\ NoPop(t)
       /\ \A P : GoodJumps(loaded, P) => GoodJumps(t, P) /\ Tight(t.instructions, P)
  <2>1. OpClosure \in Opcodes /\ OpClosure # OpPop /\ OpClosure # OpReturn
    BY DEF OpClosure, OpPop, OpReturn, Opcodes
  <2>2. Len(OperandWidths(OpClosure)) = 2
    BY OperandTable
  <2>3. <<Len(constants), Len(free)>> \in [1..Len(OperandWidths(OpClosure)) -> Nat]
    BY <1>8, <1>11, <2>2
  <2>4. OpClosure \notin JumpOps
    BY NoJumps
  <2>5. GoodScope(t) /\ CodeKept(loaded, t) /\ NoPop(t)
    BY <1>9, <2>1, <2>3, EmitGood
  <2>6. \A P : GoodJumps(loaded, P) => GoodJumps(t, P) /\ Tight(t.instructions, P)
    BY <1>9, <2>1, <2>3, <2>4, EmitJumps
  <2>. QED BY <2>5, <2>6
<1>. HIDE DEF t
<1>13. CodeKept(scopes[n - 1], t)
  BY <1>9, <1>12, CodeKeptTransitive
<1>14. Sequence(front) /\ Len(front) = n - 2 /\ \A k \in 1..n - 2 : front[k] = scopes[k]
  <2>1. PICK S : scopes \in Seq(S)
    BY <1>5 DEF Sequence
  <2>2. 1 \in 1..n + 1 /\ n - 2 \in 0..n
    BY ONLY <1>5, <1>6
  <2>3. front = [k \in 1..n - 2 |-> scopes[k]]
    BY <2>1, <2>2
  <2>. HIDE DEF front
  <2>4. front = [k \in 1..n - 2 |-> front[k]]
    BY <2>3
  <2>5. Sequence(front) /\ Len(front) = n - 2
    BY ONLY <1>6, <2>4, FunctionIsSequence
  <2>. QED BY <2>3, <2>5
<1>. HIDE DEF front
<1>15. /\ Sequence(sc2) /\ Len(sc2) = n - 1 /\ sc2[n - 1] = t
       /\ \A k \in 1..n - 2 : sc2[k] = scopes[k]
  <2>1. Sequence(front)
    BY <1>14
  <2>2. /\ Sequence(sc2) /\ Len(sc2) = Len(front) + 1
        /\ \A k \in 1..Len(front) : sc2[k] = front[k]
        /\ sc2[Len(front) + 1] = t
    BY ONLY <2>1, AppendedTo
  <2>. HIDE DEF sc2
  <2>3. Len(front) + 1 = n - 1
    BY ONLY <1>5, <1>14
  <2>. QED BY <1>14, <2>2, <2>3
<1>. HIDE DEF sc2
<1>16. \A k \in 1..n - 1 : k = n - 1 \/ (k \in 1..n - 2 /\ k \in 1..n)
  BY ONLY <1>5, <1>6
<1>17. GoodScopes(sc2)
  <2>1. \A k \in 1..Len(sc2) : GoodScope(sc2[k])
    BY <1>3, <1>12, <1>15, <1>16 DEF GoodScopes
  <2>2. Len(sc2) \in Nat \ {0}
    BY ONLY <1>5, <1>6, <1>15
  <2>. QED BY <1>15, <2>1, <2>2 DEF GoodScopes
<1>18. \A j \in 1..d[2] : CodeKept(scopes[j], sc2[j])
  <2>1. ASSUME NEW j \in 1..n - 1 PROVE CodeKept(scopes[j], sc2[j])
    <3>1. CASE j = n - 1
      BY <1>13, <1>15, <3>1
    <3>2. CASE j \in 1..n - 2
      BY <1>15, <3>2 DEF CodeKept
    <3>. QED BY <1>16, <3>1, <3>2
  <2>. QED BY <1>6, <2>1
<1>19. Sequence(items) /\ items = <<>> /\ Len(items) = 0
  BY Tuples
<1>. HIDE DEF items
<1>20. e \in [1..Len(items) + 1 -> 1..Len(sc2)] /\ e[1] = n - 1
  <2>1. n - 1 \in 1..n - 1
    BY ONLY <1>5, <1>6
  <2>. QED BY ONLY <2>1, <1>15, <1>19
<1>. HIDE DEF e
<1>21. /\ \A k \in 1..Len(items) : FALSE
       /\ \A k \in 1..Len(items) - 1 : FALSE
       /\ Len(items) + 1 = 1
  BY ONLY <1>19
<1>22. Len(scopes) \in Nat /\ Len(sc2) \in Nat /\ e[1] = Len(sc2) /\ e[Len(items) + 1] = d[2]
  BY <1>5, <1>6, <1>15, <1>17, <1>20, <1>21 DEF GoodScopes
<1>23. NoPop(sc2[Len(sc2)])
  BY <1>12, <1>15
<1>24. PICK d2 : Todo(trees, items \o Tail(todo), d2, sc2) /\ Spliced(d2, e, items, d, todo)
  BY <1>2, <1>4, <1>18, <1>19, <1>20, <1>21, <1>22, <1>23, Continues
<1>26. ~Patching(todo[1]) /\ ~Block(todo[1]) /\ Waits(todo[1]) = {}
  BY <1>2 DEF Patching, Block, Waits
<1>27. Moves(todo[1], scopes[Len(sc2)], items, sc2[Len(sc2)])
  <2>1. WaitsOf(items) = {} /\ \A P : P \cup {} = P
    BY <1>21 DEF WaitsOf
  <2>2. sc2[Len(sc2)] = t /\ scopes[Len(sc2)] = scopes[n - 1]
    BY <1>15
  <2>3. Passes(scopes[n - 1], {}, t, {}) /\ Closes(scopes[n - 1], {}, t)
    BY <1>9, <1>12, <2>1 DEF Passes, Closes
  <2>. QED BY <1>19, <1>21, <1>26, <2>1, <2>2, <2>3 DEF Moves
<1>28. Jumping(items \o Tail(todo), d2, sc2)
  <2>1. /\ Sequence(todo) /\ todo # <<>> /\ Len(scopes) \in Nat /\ Jumping(todo, d, scopes)
        /\ d[1] = Len(scopes) /\ Sequence(items) /\ Len(sc2) \in Nat \ {0}
        /\ Spliced(d2, e, items, d, todo)
    BY <1>2, <1>4, <1>5, <1>17, <1>19, <1>24 DEF Todo, GoodScopes
  <2>2. PatchIn(items, e, Len(sc2))
    BY <1>21 DEF PatchIn
  <2>3. \A j \in 1..Len(sc2) : j # Len(sc2) => j \in 1..Len(scopes) /\ sc2[j] = scopes[j]
    BY <1>15, <1>16
  <2>4. Len(sc2) \in 1..Len(scopes)
    BY <1>6, <1>15
  <2>5. \A k \in 1..Len(items) : FALSE
    BY <1>21
  <2>6. ~Patching(todo[1]) /\ ~Block(todo[1])
    BY <1>26
  <2>. QED BY ONLY <1>27, <2>1, <2>2, <2>3, <2>4, <2>5, <2>6, JumpsContinue
<1>. QED BY <1>1, <1>2, <1>3, <1>7, <1>11, <1>15, <1>17, <1>24, <1>28 DEF CInv

-----------------------------------------------------------------------------
(* Every step of Compile keeps the invariant.                              *)
LEMMA NextCInv ==
  ASSUME NEW trees, Grammar(trees), CInv(trees), [Next]_vars
  PROVE  CInv(trees)'
<1>1. CASE Next
  <2>1. \/ CompileStatements \/ CompileExpressionStatement \/ CompileReturnStatement
        \/ CompileInfixExpression \/ CompilePrefixExpression \/ CompileIndexExpression
        \/ CompileArrayLiteral \/ CompileCallExpression \/ CompileHashLiteral
        \/ CompileIfExpression \/ CompileConsequence \/ CompileAlternative \/ EndIfExpression
        \/ CompileLetStatement \/ CompileIdentifier \/ CompileLiteral \/ CompileBoolean
        \/ CompileFunctionLiteral \/ CompileFunctionEnd \/ EmitAfter \/ Fail
    BY <1>1 DEF Next
  <2>. QED BY <2>1, StatementsStep, ExpressionStatementStep, ReturnStatementStep, InfixStep,
              PrefixStep, IndexStep, ArrayStep, CallStep, HashStep, IfStep, ConsequenceStep,
              AlternativeStep, EndIfStep, LetStep, IdentifierStep, LiteralStep, BooleanStep,
              FunctionStep, FunctionEndStep, EmitAfterStep, FailStep
<1>2. CASE UNCHANGED vars
  BY <1>2 DEF vars, CInv
<1>. QED BY <1>1, <1>2

(* Constants are added at the end of the pool and never taken away         *)
(* (compiler.go:339).                                                      *)
LEMMA PoolGrows ==
  ASSUME Next
  PROVE  constants' = constants \/ \E x : constants' = Append(constants, x)
BY DEF Next, OnlyVisits, CompileStatements, CompileExpressionStatement, CompileReturnStatement,
       CompileInfixExpression, CompilePrefixExpression, CompileIndexExpression,
       CompileArrayLiteral, CompileCallExpression, CompileHashLiteral, CompileIfExpression,
       CompileConsequence, CompileAlternative, EndIfExpression, CompileLetStatement,
       CompileIdentifier, CompileLiteral, CompileBoolean, CompileFunctionLiteral,
       CompileFunctionEnd, EmitAfter, Fail

(* While a program compiles, one end of a function is left for every       *)
(* function that is open.                                                  *)
LEMMA EndsCounted ==
  ASSUME NEW trees, NEW w, NEW d, NEW sc, Todo(trees, w, d, sc), Len(sc) \in Nat
  PROVE  Cardinality({k \in DOMAIN w : w[k].do = "end function"}) = Len(sc) - 1
<1>. DEFINE L == Len(w)
            T == {m \in Nat : m <= L => /\ IsFiniteSet(Ends(w, m))
                                     /\ Cardinality(Ends(w, m)) = Len(sc) - d[m + 1]}
<1>1. /\ L \in Nat /\ DOMAIN w = 1..L /\ d[1] = Len(sc) /\ d[L + 1] = 1
      /\ \A k \in 1..L + 1 : d[k] \in Nat
  BY SequenceIsFunction DEF Todo
<1>2. 0 \in T
  <2>1. Ends(w, 0) = {}
    BY DEF Ends
  <2>2. IsFiniteSet({}) /\ Cardinality({}) = 0
    BY FS_EmptySet
  <2>3. 0 = Len(sc) - d[0 + 1]
    BY <1>1
  <2>. QED BY <2>1, <2>2, <2>3
<1>3. ASSUME NEW m \in Nat, m \in T PROVE m + 1 \in T
  <2>. SUFFICES ASSUME m + 1 <= L
                PROVE  /\ IsFiniteSet(Ends(w, m + 1))
                       /\ Cardinality(Ends(w, m + 1)) = Len(sc) - d[(m + 1) + 1]
    OBVIOUS
  <2>1. m <= L /\ m + 1 \in 1..L /\ m + 1 \in 1..L + 1 /\ (m + 1) + 1 \in 1..L + 1
    BY <1>1
  <2>0. m + 1 \notin Ends(w, m)
    BY OneMoreEnd
  <2>2. IsFiniteSet(Ends(w, m)) /\ Cardinality(Ends(w, m)) = Len(sc) - d[m + 1]
    BY <1>3, <2>1
  <2>3. d[(m + 1) + 1] = Below(w[m + 1], d[m + 1]) /\ d[m + 1] \in Nat
    BY <1>1, <2>1 DEF Todo
  <2>4. CASE w[m + 1].do = "end function"
    <3>1. Ends(w, m + 1) = Ends(w, m) \cup {m + 1}
      BY <2>4, OneMoreEnd
    <3>2. IsFiniteSet(Ends(w, m) \cup {m + 1}) /\ Cardinality(Ends(w, m) \cup {m + 1}) = Cardinality(Ends(w, m)) + 1
      BY <2>0, <2>2, FS_AddElement
    <3>3. d[(m + 1) + 1] = d[m + 1] - 1
      BY <2>3, <2>4 DEF Below
    <3>4. (Len(sc) - d[m + 1]) + 1 = Len(sc) - (d[m + 1] - 1)
      BY <2>3
    <3>. QED BY <2>2, <3>1, <3>2, <3>3, <3>4
  <2>5. CASE w[m + 1].do # "end function"
    <3>1. Ends(w, m + 1) = Ends(w, m)
      BY <2>5, OneMoreEnd
    <3>2. d[(m + 1) + 1] = d[m + 1]
      BY <2>3, <2>5 DEF Below
    <3>. QED BY <2>2, <3>1, <3>2
  <2>. QED BY <2>4, <2>5
<1>4. L \in T
  BY <1>1, <1>2, <1>3, SetInduction
<1>5. Cardinality(Ends(w, L)) = Len(sc) - 1
  BY <1>1, <1>4
<1>. QED BY <1>1, <1>5 DEF Ends

(* The invariant says what the runs check.                                 *)
LEMMA CInvTypeOK ==
  ASSUME NEW trees, CInv(trees)
  PROVE  TypeOK
<1>1. \A k \in DOMAIN constants :
        constants[k].type \in {INTEGER_OBJ, STRING_OBJ, COMPILED_FUNCTION_OBJ}
  BY SequenceIsFunction DEF CInv, Pool
<1>2. /\ GoodScopes(scopes) /\ Len(scopes) = Len(symbolTable) /\ failed \in BOOLEAN
  BY DEF CInv
<1>3. DOMAIN scopes = 1..Len(scopes) /\ Len(scopes) \in Nat
  BY <1>2, SequenceIsFunction DEF GoodScopes
<1>4. ASSUME NEW k \in DOMAIN scopes
      PROVE  /\ scopes[k].instructions \in Seq(0..ByteSize - 1)
             /\ scopes[k].lastInstruction \in [Opcode : Opcodes, Position : Nat]
             /\ scopes[k].previousInstruction \in [Opcode : Opcodes, Position : Nat]
  <2>1. GoodScope(scopes[k])
    BY <1>2, <1>3 DEF GoodScopes
  <2>. QED BY <2>1 DEF GoodScope, Formed, Bytes, Instruction
<1>5. ~failed => Cardinality({k \in DOMAIN todo : todo[k].do = "end function"}) = Len(scopes) - 1
  BY <1>3, EndsCounted DEF CInv
<1>. QED BY <1>1, <1>2, <1>4, <1>5 DEF TypeOK

(* The scopes are good, so their last instructions are tracked.            *)
LEMMA CInvTracked ==
  ASSUME NEW trees, CInv(trees)
  PROVE  LastInstructionTracked
<1>1. GoodScopes(scopes)
  BY DEF CInv
<1>2. DOMAIN scopes = 1..Len(scopes)
  BY <1>1, SequenceIsFunction DEF GoodScopes
<1>3. \A k \in DOMAIN scopes : Tracked(scopes[k].instructions, scopes[k].lastInstruction)
  BY <1>1, <1>2 DEF GoodScopes, GoodScope, Formed
<1>. QED BY <1>3 DEF LastInstructionTracked, Tracked

(* Finished code is whole and its jumps have their targets.                *)
LEMMA FinishedTight ==
  ASSUME NEW trees, CInv(trees), NEW fn \in Finished
  PROVE  fn.type = COMPILED_FUNCTION_OBJ /\ Linked(fn)
<1>1. CASE fn \in Functions
  <2>1. PICK k \in DOMAIN constants : fn = constants[k] /\ constants[k].type = COMPILED_FUNCTION_OBJ
    BY <1>1 DEF Functions
  <2>2. k \in 1..Len(constants)
    BY SequenceIsFunction DEF CInv, Pool
  <2>. QED BY <2>1, <2>2 DEF CInv, Pool
<1>2. CASE Compiled /\ fn = CompiledFunction(Scope.instructions, 0, 0)
  <2>1. /\ fn.Instructions = Scope.instructions /\ fn.NumLocals = 0 /\ fn.NumParameters = 0
        /\ fn.type = COMPILED_FUNCTION_OBJ
    BY <1>2 DEF CompiledFunction
  <2>2. todo = <<>> /\ ~failed
    BY <1>2 DEF Compiled
  <2>3. PICK d : Jumping(todo, d, scopes)
    BY <2>2 DEF CInv
  <2>4. WaitsIn(todo, d, Len(scopes)) = {}
    <3>1. \A k \in 1..Len(todo) : FALSE
      BY <2>2
    <3>. QED BY <3>1 DEF WaitsIn
  <2>5. Tight(Scope.instructions, {})
    BY <2>2, <2>3, <2>4 DEF Jumping, Ready, Scope
  <2>6. GoodScopes(scopes)
    BY DEF CInv
  <2>7. GoodScope(Scope)
    <3>1. Len(scopes) \in 1..Len(scopes)
      BY ONLY <2>6 DEF GoodScopes
    <3>. QED BY <2>6, <3>1 DEF GoodScopes, Scope
  <2>8. /\ Scope.instructions \in Seq(Bytes) /\ Len(Scope.instructions) \in Nat
        /\ Whole(Scope.instructions)
    BY <2>7, LenProperties, GoodScopeWhole DEF GoodScope, Formed
  <2>. QED BY <2>1, <2>5, <2>8 DEF Linked
<1>. QED BY <1>1, <1>2 DEF Finished

(* Two bytes hold every position of the finished code.                     *)
CodeFits == \A fn \in Finished : Len(fn.Instructions) <= ByteSize * ByteSize

(* A target that two bytes hold is where the jump goes.                    *)
LEMMA CInvJumpsLand ==
  ASSUME NEW trees, CInv(trees), CodeFits
  PROVE  JumpsLand
<1>. SUFFICES ASSUME NEW fn \in Finished, NEW p \in Uses(fn, {OpJump, OpJumpNotTruthy})
              PROVE  LET target == ReadUint16(fn.Instructions, p + 1)
                     IN  /\ target > p /\ target \in Starts(fn.Instructions)
                         /\ fn.Instructions[p + 1] = OpJumpNotTruthy => target - 3 \in Uses(fn, {OpJump})
  BY DEF JumpsLand
<1>. DEFINE ins == fn.Instructions
            M == ByteSize * ByteSize
<1>1. Len(ins) \in Nat /\ Tight(ins, {}) /\ Len(ins) <= M
  BY FinishedTight DEF CodeFits, Linked
<1>2. p \in Jumps(ins)
  BY DEF Uses, Jumps, JumpOps
<1>3. PICK T \in Starts(ins) : Lands(ins, p, T)
  BY <1>1, <1>2 DEF Tight
<1>4. M \in Nat
  BY ByteSizeAssumption
<1>5. T \in 0..Len(ins) - 1
  BY <1>1, StartsClosed
<1>. HIDE DEF M
<1>6. T % M = T
  BY ONLY <1>1, <1>4, <1>5
<1>7. ReadUint16(ins, p + 1) = T
  BY <1>3, <1>6 DEF Lands, M
<1>8. ins[p + 1] = OpJumpNotTruthy => T - 3 \in Uses(fn, {OpJump})
  BY <1>3 DEF Lands, Uses
<1>9. T > p
  BY <1>3 DEF Lands
<1>. QED BY <1>3, <1>7, <1>8, <1>9

-----------------------------------------------------------------------------
(* What the code names.  An instruction of a function with L locals and F  *)
(* captures, among G globals and the constants of pool, names what is      *)
(* there; a hash is built of pairs.                                        *)
Gathers(fn, n) == \A q \in Uses(fn, {OpGetFree}) : ReadUint8(fn.Instructions, q + 1) < n

Even(n) == ByteSize % 2 = 0 => n % 2 = 0

Refers(o, short, long, last, L, G, F, pool) ==
  /\ o \in {OpGetLocal, OpSetLocal} => short < L
  /\ o \in {OpGetGlobal, OpSetGlobal} => long < G
  /\ o = OpGetFree => short < F
  /\ o = OpGetBuiltin => short < Len(Builtins)
  /\ o = OpConstant => long < Len(pool) /\ pool[long + 1].type # COMPILED_FUNCTION_OBJ
  /\ o = OpClosure => /\ long < Len(pool) /\ pool[long + 1].type = COMPILED_FUNCTION_OBJ
                      /\ Gathers(pool[long + 1], last)
  /\ o = OpHash => Even(long)

RefersAt(ins, p, L, G, F, pool) ==
  Refers(ins[p + 1], ReadUint8(ins, p + 1), ReadUint16(ins, p + 1), ReadUint8(ins, p + 3), L, G, F, pool)

Named(ins, L, G, F, pool) == \A p \in Starts(ins) : RefersAt(ins, p, L, G, F, pool)

Referring == {OpGetLocal, OpSetLocal, OpGetGlobal, OpSetGlobal, OpGetFree, OpGetBuiltin, OpConstant,
              OpClosure, OpHash}

(* How wide they are.                                                      *)
LEMMA ReferringWidths ==
  /\ \A o \in {OpGetLocal, OpSetLocal, OpGetFree, OpGetBuiltin} : o \in Narrow /\ Width(o) = 2
  /\ \A o \in {OpGetGlobal, OpSetGlobal, OpConstant, OpHash} : o \in Wide /\ Width(o) = 3
  /\ Width(OpClosure) = 4
BY OperandTable DEF Wide, Narrow

(* The bytes of the instruction decide what it names.                      *)
LEMMA SameReference ==
  ASSUME NEW a, NEW b, NEW p \in Nat, \A j \in 1..Width(a[p + 1]) : b[p + j] = a[p + j],
         NEW L, NEW G, NEW F, NEW pool
  PROVE  RefersAt(a, p, L, G, F, pool) <=> RefersAt(b, p, L, G, F, pool)
<1>. DEFINE o == a[p + 1]
<1>1. Width(o) \in 1..4
  BY WidthRange
<1>2. b[p + 1] = o
  BY <1>1
<1>3. o \in {OpGetLocal, OpSetLocal, OpGetFree, OpGetBuiltin} => ReadUint8(b, p + 1) = ReadUint8(a, p + 1)
  <2>1. ASSUME Width(o) = 2 PROVE b[p + 2] = a[p + 2]
    BY <2>1
  <2>2. (p + 1) + 1 = p + 2
    OBVIOUS
  <2>. QED BY <2>1, <2>2, ReferringWidths DEF ReadUint8
<1>4. o \in {OpGetGlobal, OpSetGlobal, OpConstant, OpHash, OpClosure} => ReadUint16(b, p + 1) = ReadUint16(a, p + 1)
  <2>1. ASSUME Width(o) >= 3 PROVE b[p + 2] = a[p + 2] /\ b[p + 3] = a[p + 3]
    BY <1>1, <2>1
  <2>2. (p + 1) + 1 = p + 2 /\ (p + 1) + 2 = p + 3
    OBVIOUS
  <2>3. o \in {OpGetGlobal, OpSetGlobal, OpConstant, OpHash, OpClosure} => Width(o) >= 3
    BY ReferringWidths
  <2>. QED BY <2>1, <2>2, <2>3 DEF ReadUint16
<1>5. o = OpClosure => ReadUint8(b, p + 3) = ReadUint8(a, p + 3)
  <2>1. ASSUME Width(o) = 4 PROVE b[p + 4] = a[p + 4]
    BY <2>1
  <2>2. (p + 3) + 1 = p + 4
    OBVIOUS
  <2>. QED BY <2>1, <2>2, ReferringWidths DEF ReadUint8
<1>. HIDE DEF o
<1>6. \A s, l, t, s2, l2, t2 :
        /\ o \in {OpGetLocal, OpSetLocal, OpGetFree, OpGetBuiltin} => s2 = s
        /\ o \in {OpGetGlobal, OpSetGlobal, OpConstant, OpHash, OpClosure} => l2 = l
        /\ o = OpClosure => t2 = t
        => (Refers(o, s, l, t, L, G, F, pool) <=> Refers(o, s2, l2, t2, L, G, F, pool))
  BY DEF Refers
<1>. QED BY <1>2, <1>3, <1>4, <1>5, <1>6 DEF RefersAt, o

(* Other instructions name nothing.                                        *)
LEMMA NothingNamed ==
  ASSUME NEW o, o \notin Referring
  PROVE  \A s, l, t, L, G, F, pool : Refers(o, s, l, t, L, G, F, pool)
BY DEF Refers, Referring

(* One instruction more, or less.                                          *)
LEMMA NamedOneMore ==
  ASSUME NEW a, NEW b, OneMore(a, b), NEW L, NEW G, NEW F, NEW pool
  PROVE  Named(b, L, G, F, pool) <=> Named(a, L, G, F, pool) /\ RefersAt(b, Len(a), L, G, F, pool)
<1>1. /\ Starts(b) = Starts(a) \cup {Len(a)}
      /\ \A p \in Starts(a) : /\ p \in Nat /\ p + Width(a[p + 1]) <= Len(a)
                              /\ b[p + 1] = a[p + 1] /\ p + 1 \in 1..Len(a)
  BY OneMoreStart
<1>2. ASSUME NEW p \in Starts(a) PROVE RefersAt(a, p, L, G, F, pool) <=> RefersAt(b, p, L, G, F, pool)
  <2>1. Len(a) \in Nat /\ p \in Nat /\ p + Width(a[p + 1]) <= Len(a) /\ Width(a[p + 1]) \in Nat
    BY <1>1, LenProperties, WidthRange DEF OneMore
  <2>2. \A j \in 1..Width(a[p + 1]) : p + j \in 1..Len(a)
    BY <2>1
  <2>3. \A j \in 1..Width(a[p + 1]) : b[p + j] = a[p + j]
    BY <2>2 DEF OneMore
  <2>. QED BY <2>1, <2>3, SameReference
<1>. QED BY <1>1, <1>2 DEF Named

(* A jump that gets its target.                                            *)
LEMMA NamedPatched ==
  ASSUME NEW a, NEW b, NEW pos, NEW o, Patched(a, b, pos, o), a[pos + 1] \in JumpOps, Whole(a),
         NEW L, NEW G, NEW F, NEW pool, Named(a, L, G, F, pool)
  PROVE  Named(b, L, G, F, pool)
<1>1. /\ Len(a) \in Nat /\ Starts(b) = Starts(a) /\ Starts(a) \subseteq 0..Len(a) - 1
      /\ pos \in Starts(a) /\ Width(a[pos + 1]) = 3 /\ b[pos + 1] = a[pos + 1]
  <2>1. Len(a) \in Nat
    BY LenProperties DEF Patched
  <2>. QED BY <2>1, StartsClosed DEF Patched
<1>2. RefersAt(b, pos, L, G, F, pool)
  <2>1. b[pos + 1] \notin Referring
    BY <1>1 DEF Referring, JumpOps, OpJump, OpJumpNotTruthy, OpGetLocal, OpSetLocal, OpGetGlobal,
                OpSetGlobal, OpGetFree, OpGetBuiltin, OpConstant, OpClosure, OpHash
  <2>. QED BY <2>1, NothingNamed DEF RefersAt
<1>3. ASSUME NEW p \in Starts(a), p # pos PROVE RefersAt(b, p, L, G, F, pool)
  <2>1. p \in Nat /\ pos \in Nat /\ Width(a[p + 1]) \in Nat
    BY <1>1, WidthRange
  <2>2. p < pos => p + Width(a[p + 1]) <= pos
    BY <1>1, StartsApart
  <2>3. pos < p => pos + 3 <= p
    BY <1>1, StartsApart
  <2>4. \A j \in 1..Width(a[p + 1]) : (p + j) - pos \notin 1..3
    BY <1>3, <2>1, <2>2, <2>3
  <2>5. ASSUME NEW j \in 1..Width(a[p + 1]) PROVE b[p + j] = a[p + j]
    <3>1. p + Width(a[p + 1]) <= Len(a)
      BY DEF Whole
    <3>2. p + j \in 1..Len(a)
      BY <1>1, <2>1, <3>1
    <3>. QED BY <2>4, <3>2 DEF Patched
  <2>6. RefersAt(a, p, L, G, F, pool)
    BY DEF Named
  <2>. QED BY <2>1, <2>5, <2>6, SameReference
<1>. QED BY <1>1, <1>2, <1>3 DEF Named

(* More of everything.                                                     *)
Extends(pool, pool2) ==
  /\ Len(pool) \in Nat /\ Len(pool2) \in Nat /\ Len(pool) <= Len(pool2)
  /\ \A k \in 1..Len(pool) : pool2[k] = pool[k]

(* Code that names what is there still does when there is more.            *)
LEMMA NamedMore ==
  ASSUME NEW ins \in Seq(Bytes), Whole(ins), NEW L \in Nat, NEW L2 \in Nat, L <= L2,
         NEW G \in Nat, NEW G2 \in Nat, G <= G2, NEW F \in Nat, NEW F2 \in Nat, F <= F2,
         NEW pool, NEW pool2, Extends(pool, pool2), Named(ins, L, G, F, pool)
  PROVE  Named(ins, L2, G2, F2, pool2)
<1>. SUFFICES ASSUME NEW p \in Starts(ins) PROVE RefersAt(ins, p, L2, G2, F2, pool2)
  BY DEF Named
<1>. DEFINE o == ins[p + 1]  s == ReadUint8(ins, p + 1)  l == ReadUint16(ins, p + 1)  t == ReadUint8(ins, p + 3)
<1>1. Refers(o, s, l, t, L, G, F, pool)
  BY DEF Named, RefersAt
<1>2. /\ Len(ins) \in Nat /\ p \in 0..Len(ins) - 1 /\ p + Width(o) <= Len(ins)
      /\ \A k \in 1..Len(ins) : ins[k] \in Nat
  <2>1. Len(ins) \in Nat /\ \A k \in 1..Len(ins) : ins[k] \in Bytes
    BY LenProperties, ElementOfSeq
  <2>. QED BY <2>1, StartsClosed, ByteSizeAssumption DEF Whole, Bytes
<1>3. o \in {OpGetLocal, OpSetLocal, OpGetFree} => s \in Nat
  <2>1. ASSUME Width(o) = 2 PROVE (p + 1) + 1 \in 1..Len(ins)
    BY <1>2, <2>1
  <2>. QED BY <1>2, <2>1, ReferringWidths DEF ReadUint8
<1>4. o \in {OpGetGlobal, OpSetGlobal, OpConstant, OpHash, OpClosure} => l \in Nat
  <2>1. ASSUME Width(o) >= 3 PROVE (p + 1) + 1 \in 1..Len(ins) /\ (p + 1) + 2 \in 1..Len(ins)
    <3>1. Width(o) \in 1..4
      BY ONLY WidthRange
    <3>2. PICK w : w = Width(o)
      OBVIOUS
    <3>. HIDE DEF o, s, l, t
    <3>. QED BY ONLY <1>2, <2>1, <3>1, <3>2
  <2>2. o \in {OpGetGlobal, OpSetGlobal, OpConstant, OpHash, OpClosure} => Width(o) >= 3
    BY ReferringWidths
  <2>3. ASSUME NEW x \in Nat, NEW y \in Nat PROVE x * ByteSize + y \in Nat
    BY ByteSizeAssumption
  <2>. QED BY <1>2, <2>1, <2>2, <2>3 DEF ReadUint16
<1>. HIDE DEF o, s, l, t
<1>5. ASSUME l \in Nat, l < Len(pool) PROVE pool2[l + 1] = pool[l + 1] /\ l < Len(pool2)
  <2>1. l + 1 \in 1..Len(pool)
    BY <1>5 DEF Extends
  <2>. QED BY <1>5, <2>1 DEF Extends
<1>6. Refers(o, s, l, t, L2, G2, F2, pool2)
  <2>1. o \in {OpGetLocal, OpSetLocal} => s < L2
    BY <1>1, <1>3 DEF Refers
  <2>2. o = OpGetFree => s < F2
    BY <1>1, <1>3 DEF Refers
  <2>3. o \in {OpGetGlobal, OpSetGlobal} => l < G2
    BY <1>1, <1>4 DEF Refers
  <2>4. o = OpConstant => l < Len(pool2) /\ pool2[l + 1].type # COMPILED_FUNCTION_OBJ
    BY <1>1, <1>4, <1>5 DEF Refers
  <2>5. o = OpClosure => /\ l < Len(pool2) /\ pool2[l + 1].type = COMPILED_FUNCTION_OBJ
                         /\ Gathers(pool2[l + 1], t)
    BY <1>1, <1>4, <1>5 DEF Refers
  <2>6. (o = OpHash => Even(l)) /\ (o = OpGetBuiltin => s < Len(Builtins))
    BY <1>1 DEF Refers
  <2>. QED BY <2>1, <2>2, <2>3, <2>4, <2>5, <2>6 DEF Refers
<1>. QED BY <1>6 DEF RefersAt, o, s, l, t

(* What may be emitted.                                                    *)
Fits(op, operands, L, G, F, pool) ==
  /\ op \in {OpGetLocal, OpSetLocal} => operands[1] < L
  /\ op \in {OpGetGlobal, OpSetGlobal} => operands[1] < G
  /\ op = OpGetFree => operands[1] < F
  /\ op = OpGetBuiltin => operands[1] < Len(Builtins)
  /\ op \in {OpConstant, OpClosure} => operands[1] < Len(pool) /\ operands[1] < ByteSize * ByteSize
  /\ op = OpConstant => pool[operands[1] + 1].type # COMPILED_FUNCTION_OBJ
  /\ op = OpClosure => /\ pool[operands[1] + 1].type = COMPILED_FUNCTION_OBJ
                       /\ operands[2] < ByteSize /\ Gathers(pool[operands[1] + 1], operands[2])
  /\ op = OpHash => operands[1] % 2 = 0

(* There are built-ins.                                                    *)
LEMMA BuiltinCount == Len(Builtins) \in Nat
BY DEF Builtins

(* The remainder of an even number by the square of an even one is even.   *)
LEMMA EvenRemainder ==
  ASSUME NEW o \in Nat, o % 2 = 0, NEW b \in Nat, b > 1, b % 2 = 0
  PROVE  (o % (b * b)) % 2 = 0
<1>. DEFINE m == b * b  q == o \div m  r == o % m  x == b \div 2  y == o \div 2
<1>1. m \in Nat /\ m > 0
  OBVIOUS
<1>2. b = 2 * x /\ x \in Nat /\ o = 2 * y /\ y \in Nat
  OBVIOUS
<1>3. o = q * m + r /\ q \in Nat /\ r \in Nat
  BY <1>1
<1>4. m = 2 * (x * b)
  BY <1>2
<1>5. q * m = 2 * (q * (x * b)) /\ q * (x * b) \in Nat
  <2>. HIDE DEF q, m, x
  <2>1. x * b \in Nat
    BY <1>2
  <2>2. ASSUME NEW z \in Nat PROVE q * (2 * z) = 2 * (q * z) /\ q * z \in Nat
    BY <1>3
  <2>. QED BY <1>4, <2>1, <2>2
<1>. DEFINE z == q * (x * b)
<1>. HIDE DEF q, m, x, r, y, z
<1>6. r = 2 * (y - z) /\ y - z \in Int
  BY <1>2, <1>3, <1>5 DEF z
<1>7. r % 2 = 0
  BY <1>6
<1>. QED BY <1>7 DEF r, m

(* emit: the operands come back as they are, or smaller.                   *)
LEMMA EmitNamed ==
  ASSUME NEW s, GoodScope(s), NEW op \in Opcodes, op = OpPop => NoPop(s),
         NEW operands \in [1..Len(OperandWidths(op)) -> Nat], NEW L \in Nat, NEW G \in Nat, NEW F \in Nat, NEW pool,
         Named(s.instructions, L, G, F, pool), Fits(op, operands, L, G, F, pool)
  PROVE  Named(Emit(s, op, operands).instructions, L, G, F, pool)
<1>. DEFINE a == s.instructions  b == Emit(s, op, operands).instructions  m == Make(op, operands)  n == Len(a)
            o1 == operands[1]  o2 == operands[2]  B == ByteSize
<1>1. OneMore(a, b) /\ b[n + 1] = op
  BY EmitGood
<1>2. b = a \o m /\ a \in Seq(Bytes) /\ m \in Seq(Bytes) /\ Len(m) = Width(op) /\ n \in Nat
  BY MakeBytes, LenProperties DEF Emit, CompilationScope, GoodScope, Formed
<1>3. \A j \in 1..Width(op) : b[n + j] = m[j]
  <2>1. Width(op) \in Nat
    BY WidthRange
  <2>2. \A j \in 1..Width(op) : n + j \in 1..(n + Width(op)) /\ ~(n + j <= n) /\ (n + j) - n = j
    BY <1>2, <2>1
  <2>3. \A j \in 1..Width(op) : n + j \in 1..(n + Len(m)) /\ ~(n + j <= n) /\ (n + j) - n = j
    <3>. HIDE DEF m, n
    <3>. QED BY <1>2, <2>2
  <2>4. \A i \in 1..(n + Len(m)) : (a \o m)[i] = IF i <= n THEN a[i] ELSE m[i - n]
    <3>. HIDE DEF a, m
    <3>. QED BY <1>2, ConcatProperties DEF n
  <2>. QED
    <3>. HIDE DEF a, b, m, n
    <3>. QED BY ONLY <1>2, <2>3, <2>4
<1>3a. /\ OperandWidths(op) = <<1>> => m[2] = o1 % B
       /\ OperandWidths(op) = <<2>> => m[2] = (o1 \div B) % B /\ m[3] = o1 % B
       /\ OperandWidths(op) = <<2, 1>> => m[2] = (o1 \div B) % B /\ m[3] = o1 % B /\ m[4] = o2 % B
  BY MakeWrites
<1>3b. /\ OperandWidths(op) \in {<<1>>, <<2>>, <<2, 1>>} => o1 \in Nat
       /\ OperandWidths(op) = <<2, 1>> => o2 \in Nat
  <2>1. /\ Len(OperandWidths(op)) = 1 => o1 \in Nat
        /\ Len(OperandWidths(op)) = 2 => o1 \in Nat /\ o2 \in Nat
    <3>1. ASSUME NEW w \in Nat, NEW f \in [1..w -> Nat]
          PROVE  (w = 1 => f[1] \in Nat) /\ (w = 2 => f[1] \in Nat /\ f[2] \in Nat)
      OBVIOUS
    <3>2. Len(OperandWidths(op)) = 1 \/ Len(OperandWidths(op)) = 2 => Len(OperandWidths(op)) \in Nat
      OBVIOUS
    <3>. QED BY ONLY <3>1, <3>2, operands \in [1..Len(OperandWidths(op)) -> Nat]
  <2>2. Len(<<1>>) = 1 /\ Len(<<2>>) = 1 /\ Len(<<2, 1>>) = 2
    OBVIOUS
  <2>. HIDE DEF o1, o2
  <2>. QED BY <2>1, <2>2
<1>4. B \in Nat /\ B > 1
  BY ByteSizeAssumption
<1>5. op \in Narrow => /\ o1 \in Nat /\ ReadUint8(b, n + 1) = o1 % B
  <2>1. ASSUME op \in Narrow PROVE OperandWidths(op) = <<1>> /\ Width(op) = 2
    BY <2>1, OperandTable
  <2>2. ASSUME op \in Narrow PROVE m[2] = o1 % B /\ o1 \in Nat
    BY ONLY <1>3a, <1>3b, <2>1, <2>2
  <2>3. (n + 1) + 1 = n + 2
    BY <1>2
  <2>. HIDE DEF m
  <2>. QED BY <1>3, <2>1, <2>2, <2>3 DEF ReadUint8
<1>6. op \in Wide \cup {OpClosure} => o1 \in Nat /\ ReadUint16(b, n + 1) = o1 % (B * B)
  <2>1. ASSUME op \in Wide \cup {OpClosure}
        PROVE  (OperandWidths(op) = <<2>> \/ OperandWidths(op) = <<2, 1>>) /\ Width(op) >= 3
    BY <2>1, OperandTable
  <2>2. ASSUME op \in Wide \cup {OpClosure} PROVE m[2] = (o1 \div B) % B /\ m[3] = o1 % B /\ o1 \in Nat
    BY ONLY <1>3a, <1>3b, <2>1, <2>2
  <2>3. (n + 1) + 1 = n + 2 /\ (n + 1) + 2 = n + 3
    BY <1>2
  <2>4. ASSUME op \in Wide \cup {OpClosure} PROVE b[n + 2] = m[2] /\ b[n + 3] = m[3]
    BY <1>3, <2>1, <2>4, WidthRange
  <2>5. ASSUME op \in Wide \cup {OpClosure} PROVE ((o1 \div B) % B) * B + (o1 % B) = o1 % (B * B)
    BY <1>4, <2>2, <2>5, TwoBytes
  <2>. HIDE DEF m, b
  <2>. QED BY <2>2, <2>3, <2>4, <2>5 DEF ReadUint16
<1>7. op = OpClosure => o2 \in Nat /\ ReadUint8(b, n + 3) = o2 % B
  <2>1. ASSUME op = OpClosure PROVE OperandWidths(op) = <<2, 1>> /\ Width(op) = 4
    BY <2>1, OperandTable
  <2>2. ASSUME op = OpClosure PROVE m[4] = o2 % B /\ o2 \in Nat
    BY ONLY <1>3a, <1>3b, <2>1, <2>2
  <2>3. (n + 3) + 1 = n + 4
    BY <1>2
  <2>. HIDE DEF m
  <2>. QED BY <1>3, <2>1, <2>2, <2>3 DEF ReadUint8
<1>. DEFINE short == ReadUint8(b, n + 1)  long == ReadUint16(b, n + 1)  last == ReadUint8(b, n + 3)
<1>. HIDE DEF b, m, o1, o2, short, long, last
<1>8. \A x \in Nat, c \in Nat : c > 0 => x % c \in Nat /\ x % c <= x /\ (x < c => x % c = x)
  OBVIOUS
<1>9. Refers(op, short, long, last, L, G, F, pool)
  <2>0. B * B \in Nat /\ B * B > 0
    BY <1>4
  <2>1. op \in {OpGetLocal, OpSetLocal} => short < L
    <3>1. op \in {OpGetLocal, OpSetLocal} => o1 < L /\ o1 \in Nat /\ short = o1 % B
      BY <1>5, ReferringWidths DEF Fits, short, o1
    <3>. QED BY ONLY <1>4, <1>8, <3>1, L \in Nat
  <2>2. op = OpGetFree => short < F
    <3>1. op = OpGetFree => o1 < F /\ o1 \in Nat /\ short = o1 % B
      BY <1>5, ReferringWidths DEF Fits, short, o1
    <3>. QED BY ONLY <1>4, <1>8, <3>1, F \in Nat
  <2>3. op \in {OpGetGlobal, OpSetGlobal} => long < G
    <3>1. op \in {OpGetGlobal, OpSetGlobal} => o1 < G /\ o1 \in Nat /\ long = o1 % (B * B)
      BY <1>6, ReferringWidths DEF Fits, long, o1
    <3>. QED BY ONLY <2>0, <1>8, <3>1, G \in Nat
  <2>4. op \in {OpConstant, OpClosure} => long = o1
    <3>1. op \in {OpConstant, OpClosure} => o1 < B * B /\ o1 \in Nat /\ long = o1 % (B * B)
      BY <1>6, ReferringWidths DEF Fits, long, o1
    <3>. QED BY ONLY <2>0, <1>8, <3>1
  <2>5. op = OpClosure => last = o2
    <3>1. op = OpClosure => o2 < B /\ o2 \in Nat /\ last = o2 % B
      BY <1>7 DEF Fits, last, o2
    <3>. QED BY ONLY <1>4, <1>8, <3>1
  <2>6. op = OpHash => Even(long)
    <3>1. op = OpHash => o1 \in Nat /\ long = o1 % (B * B) /\ o1 % 2 = 0
      BY <1>6, ReferringWidths DEF Fits, long, o1
    <3>. QED BY <1>4, <3>1, EvenRemainder DEF Even
  <2>7. op = OpGetBuiltin => short < Len(Builtins)
    <3>1. op = OpGetBuiltin => o1 < Len(Builtins) /\ o1 \in Nat /\ short = o1 % B
      BY <1>5, ReferringWidths DEF Fits, short, o1
    <3>. QED BY ONLY <1>4, <1>8, <3>1, BuiltinCount
  <2>. QED BY <2>1, <2>2, <2>3, <2>4, <2>5, <2>6, <2>7 DEF Refers, Fits, o1, o2
<1>10. RefersAt(b, n, L, G, F, pool)
  BY <1>1, <1>9 DEF RefersAt, short, long, last, b
<1>. QED BY <1>1, <1>10, NamedOneMore DEF b

(* Code without instructions names nothing.                                *)
LEMMA NewScopeNamed ==
  ASSUME NEW L, NEW G, NEW F, NEW pool
  PROVE  Named(NewScope.instructions, L, G, F, pool)
<1>1. NewScope.instructions = <<>> /\ Len(<<>>) = 0
  BY DEF NewScope, CompilationScope
<1>2. Starts(<<>>) \subseteq 0..0 - 1
  BY <1>1, StartsClosed
<1>3. Starts(<<>>) = {}
  BY <1>2
<1>. QED BY <1>1, <1>3 DEF Named

(* removeLastPop.                                                          *)
LEMMA KeepValueNamed ==
  ASSUME NEW s, GoodScope(s), NEW L, NEW G, NEW F, NEW pool, Named(s.instructions, L, G, F, pool)
  PROVE  Named(KeepValue(s).instructions, L, G, F, pool)
<1>1. OneMore(KeepValue(s).instructions, s.instructions) \/ KeepValue(s) = s
  BY KeepValueGood
<1>. QED BY <1>1, NamedOneMore

(* The opcodes that name nothing can be emitted.                           *)
LEMMA FitsPlain ==
  ASSUME NEW op, op \notin Referring
  PROVE  \A operands, L, G, F, pool : Fits(op, operands, L, G, F, pool)
BY DEF Fits, Referring

(* The opcodes without an operand that names a slot, a constant or pairs.  *)
LEMMA PlainNamesNothing ==
  ASSUME NEW op \in {OpAdd, OpSub, OpMul, OpDiv, OpPop, OpTrue, OpFalse, OpEqual, OpNotEqual,
                     OpGreaterThan, OpMinus, OpBang, OpNull, OpIndex, OpReturnValue, OpReturn,
                     OpJump, OpJumpNotTruthy, OpArray, OpCall}
  PROVE  op \notin Referring
BY DEF Referring, OpConstant, OpJumpNotTruthy, OpJump, OpSetGlobal, OpGetGlobal,
       OpArray, OpHash, OpCall, OpSetLocal, OpGetLocal, OpGetBuiltin, OpGetFree, OpClosure,
       OpAdd, OpSub, OpMul, OpDiv, OpPop, OpTrue, OpFalse, OpEqual, OpNotEqual,
       OpGreaterThan, OpMinus, OpBang, OpNull, OpIndex, OpReturnValue, OpReturn

(* The end of a function body.                                             *)
LEMMA EndBodyNamed ==
  ASSUME NEW s, GoodScope(s), NEW L \in Nat, NEW G \in Nat, NEW F \in Nat, NEW pool,
         Named(s.instructions, L, G, F, pool)
  PROVE  /\ Named(EndBody(s).instructions, L, G, F, pool)
         /\ EndBody(s).instructions \in Seq(Bytes) /\ Whole(EndBody(s).instructions)
<1>. DEFINE P == Jumps(s.instructions)
<1>1. Tight(s.instructions, P) /\ GoodJumps(s, P)
  BY DEF Tight, Settled, GoodJumps
<1>. HIDE DEF P
<1>2. PICK g \in {s, Emit(KeepValue(s), OpReturnValue, <<>>), Emit(s, OpReturn, <<>>)} :
              Formed(g) /\ EndBody(s).instructions = g.instructions
  BY <1>1, EndBodyJumps
<1>3. g.instructions \in Seq(Bytes) /\ Whole(g.instructions)
  BY <1>2, FormedWhole DEF Formed
<1>4. /\ OpReturn \in Opcodes /\ OpReturnValue \in Opcodes /\ OpReturn # OpPop /\ OpReturnValue # OpPop
      /\ <<>> \in [1..Len(OperandWidths(OpReturn)) -> Nat]
      /\ <<>> \in [1..Len(OperandWidths(OpReturnValue)) -> Nat]
  BY PlainOpcodes
<1>5. OpReturn \notin Referring /\ OpReturnValue \notin Referring
  BY PlainNamesNothing
<1>6. Fits(OpReturn, <<>>, L, G, F, pool) /\ Fits(OpReturnValue, <<>>, L, G, F, pool)
  BY <1>5, FitsPlain
<1>7. GoodScope(KeepValue(s)) /\ Named(KeepValue(s).instructions, L, G, F, pool)
  BY KeepValueGood, KeepValueNamed
<1>8. Named(Emit(s, OpReturn, <<>>).instructions, L, G, F, pool)
  BY <1>4, <1>6, EmitNamed
<1>9. Named(Emit(KeepValue(s), OpReturnValue, <<>>).instructions, L, G, F, pool)
  BY <1>4, <1>6, <1>7, EmitNamed
<1>. QED BY <1>2, <1>3, <1>8, <1>9

-----------------------------------------------------------------------------
(* Symbols of a table with L locals and F captures, among G globals and    *)
(* the built-ins.                                                          *)
Slot(s, L, G, F) ==
  /\ s.Scope = Symbols!LocalScope => s.Index < L
  /\ s.Scope = Symbols!GlobalScope => s.Index < G
  /\ s.Scope = Symbols!FreeScope => s.Index < F
  /\ s.Scope = Symbols!BuiltinScope => s.Index < Len(Builtins)

(* loadSymbol.                                                             *)
LEMMA LoadSymbolNamed ==
  ASSUME NEW s, GoodScope(s), NEW symbol, Known(symbol), NEW L \in Nat, NEW G \in Nat, NEW F \in Nat, NEW pool,
         Slot(symbol, L, G, F), Named(s.instructions, L, G, F, pool)
  PROVE  Named(LoadSymbol(s, symbol).instructions, L, G, F, pool)
<1>. DEFINE op == CASE symbol.Scope = Symbols!GlobalScope  -> OpGetGlobal
                    [] symbol.Scope = Symbols!LocalScope   -> OpGetLocal
                    [] symbol.Scope = Symbols!BuiltinScope -> OpGetBuiltin
                    [] symbol.Scope = Symbols!FreeScope    -> OpGetFree
            i == symbol.Index
<1>1. LoadSymbol(s, symbol) = Emit(s, op, <<i>>)
  BY DEF LoadSymbol
<1>2. \/ op = OpGetGlobal /\ i < G
      \/ op = OpGetLocal /\ i < L
      \/ op = OpGetBuiltin /\ i < Len(Builtins)
      \/ op = OpGetFree /\ i < F
  BY DEF Known, Slot, Symbols!GlobalScope, Symbols!LocalScope, Symbols!BuiltinScope, Symbols!FreeScope
<1>3. i \in Nat
  BY DEF Known
<1>. HIDE DEF op, i
<1>4. op \in Wide \cup Narrow
  BY <1>2 DEF Wide, Narrow
<1>5. op \in Opcodes /\ <<i>> \in [1..Len(OperandWidths(op)) -> Nat] /\ op # OpPop
  BY <1>3, <1>4, OneOperand
<1>6. Fits(op, <<i>>, L, G, F, pool)
  <2>1. <<i>>[1] = i
    OBVIOUS
  <2>. QED BY <1>2, <2>1 DEF Fits, OpConstant, OpHash, OpSetGlobal, OpSetLocal, OpGetGlobal, OpGetLocal,
                            OpGetFree, OpGetBuiltin, OpClosure
<1>. QED BY <1>1, <1>5, <1>6, EmitNamed

(* The loop over what a function captures.                                 *)
LEMMA LoadAllNamed ==
  ASSUME NEW s, GoodScope(s), NEW symbols, Len(symbols) \in Nat, NEW L \in Nat, NEW G \in Nat, NEW F \in Nat, NEW pool,
         \A k \in 1..Len(symbols) : Known(symbols[k]) /\ Slot(symbols[k], L, G, F),
         Named(s.instructions, L, G, F, pool)
  PROVE  Named(LoadAll(s, symbols).instructions, L, G, F, pool)
<1>. DEFINE n == Len(symbols)
            c == CHOOSE f : Loads(f, s, symbols, n)
            T == {k \in Nat : k <= n => GoodScope(c[k]) /\ Named(c[k].instructions, L, G, F, pool)}
<1>1. LoadAll(s, symbols) = c[n]
  BY DEF LoadAll, Loads
<1>2. Loads(c, s, symbols, n)
  BY LoadsExists
<1>. HIDE DEF c
<1>3. 0 \in T
  <2>1. c[0] = s
    BY <1>2 DEF Loads
  <2>. QED BY <2>1
<1>4. ASSUME NEW k \in Nat, k \in T PROVE k + 1 \in T
  <2>. SUFFICES ASSUME k + 1 <= n
                PROVE  GoodScope(c[k + 1]) /\ Named(c[k + 1].instructions, L, G, F, pool)
    OBVIOUS
  <2>1. k + 1 \in 0..n /\ k + 1 # 0 /\ (k + 1) - 1 = k /\ k <= n /\ k + 1 \in 1..n
    OBVIOUS
  <2>2. c[k + 1] = LoadSymbol(c[k], symbols[k + 1])
    BY <1>2, <2>1 DEF Loads
  <2>3. /\ GoodScope(c[k]) /\ Named(c[k].instructions, L, G, F, pool)
        /\ Known(symbols[k + 1]) /\ Slot(symbols[k + 1], L, G, F)
    BY <1>4, <2>1
  <2>. QED BY <2>2, <2>3, LoadSymbolGood, LoadSymbolNamed
<1>5. n \in T
  BY <1>3, <1>4, SetInduction
<1>. QED BY <1>1, <1>5

(* What the k-th table of a chain has room for.  The program has no locals *)
(* and captures nothing.                                                   *)
LocalsAt(c, k)  == IF k = 1 THEN 0 ELSE c[k].numDefinitions
FreeAt(c, k)    == IF k = 1 THEN 0 ELSE Len(c[k].FreeSymbols)
SlotAt(c, k, s) == Slot(s, LocalsAt(c, k), c[1].numDefinitions, FreeAt(c, k))

(* A table's names stand for slots of its function, and what it captures   *)
(* for slots of the function around it.                                    *)
Rooms(c) ==
  /\ \A k \in 1..Len(c) : \A n \in DOMAIN c[k].store : SlotAt(c, k, c[k].store[n])
  /\ \A k \in 2..Len(c) : \A i \in 1..Len(c[k].FreeSymbols) : SlotAt(c, k - 1, c[k].FreeSymbols[i])

(* As much room as before, in the first m tables.                          *)
Wider(c, c2, m) ==
  \A k \in 1..m : c[k].numDefinitions <= c2[k].numDefinitions /\ FreeAt(c, k) <= FreeAt(c2, k)

(* Rooms are numbers.                                                      *)
LEMMA RoomNumbers ==
  ASSUME NEW c, Chain(c), NEW k \in 1..Len(c)
  PROVE  /\ c[k].numDefinitions \in Nat /\ LocalsAt(c, k) \in Nat /\ FreeAt(c, k) \in Nat
         /\ c[1].numDefinitions \in Nat /\ 1 \in 1..Len(c)
<1>1. 1 \in 1..Len(c)
  BY DEF Chain
<1>2. Table(c[k]) /\ Table(c[1])
  BY <1>1 DEF Chain
<1>3. FreeAt(c, k) \in Nat
  BY <1>2, SequenceIsFunction DEF Table, FreeAt
<1>. QED BY <1>1, <1>2, <1>3 DEF Table, LocalsAt

(* A slot of a chain is a slot of a wider one.                             *)
LEMMA SlotWider ==
  ASSUME NEW c, Chain(c), NEW c2, Chain(c2), NEW m \in Nat, m <= Len(c), m <= Len(c2), Wider(c, c2, m),
         NEW k \in 1..m, NEW s, Known(s), SlotAt(c, k, s)
  PROVE  SlotAt(c2, k, s)
<1>1. Len(c) \in Nat /\ Len(c2) \in Nat
  BY DEF Chain
<1>2. k \in 1..Len(c) /\ k \in 1..Len(c2) /\ 1 \in 1..m
  BY <1>1
<1>3. /\ LocalsAt(c, k) \in Nat /\ FreeAt(c, k) \in Nat /\ c[1].numDefinitions \in Nat
      /\ LocalsAt(c2, k) \in Nat /\ FreeAt(c2, k) \in Nat /\ c2[1].numDefinitions \in Nat
  BY <1>2, RoomNumbers
<1>4. /\ LocalsAt(c, k) <= LocalsAt(c2, k) /\ FreeAt(c, k) <= FreeAt(c2, k)
      /\ c[1].numDefinitions <= c2[1].numDefinitions
  BY <1>2 DEF Wider, LocalsAt
<1>5. s.Index \in Nat
  BY DEF Known
<1>6. ASSUME NEW a \in Nat, NEW b \in Nat, a <= b, s.Index < a PROVE s.Index < b
  BY <1>5, <1>6
<1>. QED BY <1>3, <1>4, <1>6 DEF SlotAt, Slot

(* Define: one more local, or one more global.                             *)
LEMMA DefineRooms ==
  ASSUME NEW c, Chain(c), Rooms(c), NEW name
  PROVE  LET c2 == Symbols!Define(c, name)
             n  == Len(c)
         IN  /\ Rooms(c2) /\ Wider(c, c2, n) /\ SlotAt(c2, n, Symbols!DefinedSymbol(c, name))
             /\ c2[n].numDefinitions = c[n].numDefinitions + 1 /\ c2[n].FreeSymbols = c[n].FreeSymbols
             /\ \A k \in 1..n : k # n => c2[k] = c[k]
<1>. DEFINE n == Len(c)  t == c[n]  s == Symbols!DefinedSymbol(c, name)
            d == [store |-> Symbols!Bind(t.store, s), numDefinitions |-> t.numDefinitions + 1,
                  FreeSymbols |-> t.FreeSymbols]
            c2 == Symbols!Define(c, name)
<1>1. n \in Nat \ {0} /\ n \in 1..n /\ DOMAIN c = 1..n /\ 1 \in 1..n
  BY SequenceIsFunction DEF Chain
<1>2. Chain(c2) /\ Len(c2) = n
  BY DefineChain
<1>3. c2 = [c EXCEPT ![n] = d]
  BY DEF Symbols!Define
<1>4. s.Scope = (IF n = 1 THEN Symbols!GlobalScope ELSE Symbols!LocalScope) /\ s.Index = t.numDefinitions
  BY DEF Symbols!DefinedSymbol, Symbols!Symbol
<1>5. Known(s)
  BY DefinedKnown
<1>. HIDE DEF c2, s
<1>6. c2[n] = d /\ \A k \in 1..n : k # n => c2[k] = c[k]
  BY <1>1, <1>3
<1>7. /\ c2[n].store = Symbols!Bind(t.store, s) /\ c2[n].numDefinitions = t.numDefinitions + 1
      /\ c2[n].FreeSymbols = t.FreeSymbols
  BY <1>6
<1>. HIDE DEF d
<1>8. \A k \in 1..n : c[k].numDefinitions \in Nat /\ FreeAt(c, k) \in Nat
  BY RoomNumbers
<1>9. Wider(c, c2, n)
  <2>1. ASSUME NEW k \in 1..n
        PROVE  c[k].numDefinitions <= c2[k].numDefinitions /\ FreeAt(c, k) <= FreeAt(c2, k)
    <3>1. CASE k = n
      BY <1>7, <1>8, <3>1 DEF FreeAt
    <3>2. CASE k # n
      BY <1>6, <1>8, <3>2 DEF FreeAt
    <3>. QED BY <3>1, <3>2
  <2>. QED BY <2>1 DEF Wider
<1>10. ASSUME NEW k \in 1..n, NEW x, Known(x), SlotAt(c, k, x) PROVE SlotAt(c2, k, x)
  BY <1>1, <1>2, <1>9, <1>10, SlotWider
<1>11. SlotAt(c2, n, s)
  <2>1. t.numDefinitions \in Nat /\ t.numDefinitions < t.numDefinitions + 1
    BY <1>1, <1>8
  <2>. QED BY <1>4, <1>7, <2>1 DEF SlotAt, Slot, LocalsAt, Symbols!GlobalScope, Symbols!LocalScope,
                                           Symbols!FreeScope, Symbols!BuiltinScope
<1>12. ASSUME NEW k \in 1..n, NEW x \in DOMAIN c2[k].store PROVE SlotAt(c2, k, c2[k].store[x])
  <2>1. \A y \in DOMAIN c[k].store : Known(c[k].store[y]) /\ SlotAt(c, k, c[k].store[y])
    BY DEF Chain, Table, Rooms
  <2>2. CASE k # n
    BY <1>6, <1>10, <2>1, <2>2
  <2>3. CASE k = n
    <3>1. c2[k].store[x] = s \/ (x \in DOMAIN t.store /\ c2[k].store[x] = t.store[x])
      BY <1>7, <2>3 DEF Symbols!Bind
    <3>. QED BY <1>10, <1>11, <2>1, <2>3, <3>1
  <2>. QED BY <2>2, <2>3
<1>13. ASSUME NEW k \in 2..n, NEW i \in 1..Len(c2[k].FreeSymbols) PROVE SlotAt(c2, k - 1, c2[k].FreeSymbols[i])
  <2>1. k \in 1..n /\ k - 1 \in 1..n
    BY <1>1
  <2>2. c2[k].FreeSymbols = c[k].FreeSymbols
    BY <1>6, <1>7, <2>1
  <2>3. Known(c[k].FreeSymbols[i]) /\ SlotAt(c, k - 1, c[k].FreeSymbols[i])
    BY <1>13, <2>1, <2>2 DEF Chain, Table, Rooms
  <2>. QED BY <1>10, <2>1, <2>2, <2>3
<1>14. Rooms(c2)
  BY <1>2, <1>12, <1>13 DEF Rooms
<1>. QED BY <1>6, <1>7, <1>9, <1>11, <1>14 DEF c2, s

(* Wider goes from chain to chain.                                         *)
LEMMA WiderTransitive ==
  ASSUME NEW c, NEW c2, NEW c3, NEW m \in Nat, Chain(c), Chain(c2), Chain(c3), m <= Len(c), m <= Len(c2), m <= Len(c3),
         Wider(c, c2, m), Wider(c2, c3, m)
  PROVE  Wider(c, c3, m)
<1>1. ASSUME NEW k \in 1..m
      PROVE  /\ c[k].numDefinitions \in Nat /\ c2[k].numDefinitions \in Nat /\ c3[k].numDefinitions \in Nat
             /\ FreeAt(c, k) \in Nat /\ FreeAt(c2, k) \in Nat /\ FreeAt(c3, k) \in Nat
  <2>1. k \in 1..Len(c) /\ k \in 1..Len(c2) /\ k \in 1..Len(c3)
    BY DEF Chain
  <2>. QED BY <2>1, RoomNumbers
<1>2. ASSUME NEW k \in 1..m
      PROVE  c[k].numDefinitions <= c3[k].numDefinitions /\ FreeAt(c, k) <= FreeAt(c3, k)
  <2>1. /\ c[k].numDefinitions <= c2[k].numDefinitions /\ FreeAt(c, k) <= FreeAt(c2, k)
        /\ c2[k].numDefinitions <= c3[k].numDefinitions /\ FreeAt(c2, k) <= FreeAt(c3, k)
    BY DEF Wider
  <2>. QED BY ONLY <1>1, <2>1
<1>. QED BY <1>2 DEF Wider

(* The parameters: as many locals more as there are names.                 *)
LEMMA DefineAllRooms ==
  ASSUME NEW c, Chain(c), Rooms(c), NEW names, Len(names) \in Nat
  PROVE  LET c2 == DefineAll(c, names)
             n  == Len(c)
         IN  /\ Rooms(c2) /\ c2[n].numDefinitions = c[n].numDefinitions + Len(names)
             /\ c2[n].FreeSymbols = c[n].FreeSymbols /\ \A k \in 1..n : k # n => c2[k] = c[k]
<1>. DEFINE n == Len(c)
            m == Len(names)
            f == CHOOSE g : Defines(g, c, names, m)
            Done(g, k) == /\ Chain(g) /\ Len(g) = n /\ Rooms(g) /\ g[n].numDefinitions = c[n].numDefinitions + k
                          /\ g[n].FreeSymbols = c[n].FreeSymbols /\ \A j \in 1..n : j # n => g[j] = c[j]
            T == {k \in Nat : k <= m => Done(f[k], k)}
<1>1. DefineAll(c, names) = f[m]
  BY DEF DefineAll, Defines
<1>2. Defines(f, c, names, m)
  BY DefinesExists
<1>. HIDE DEF f
<1>3. c[n].numDefinitions \in Nat
  <2>1. n \in 1..n
    BY DEF Chain
  <2>. QED BY <2>1, RoomNumbers
<1>4. 0 \in T
  <2>1. f[0] = c
    BY <1>2 DEF Defines
  <2>. QED BY <1>3, <2>1
<1>5. ASSUME NEW k \in Nat, k \in T PROVE k + 1 \in T
  <2>. SUFFICES ASSUME k + 1 <= m PROVE Done(f[k + 1], k + 1)
    OBVIOUS
  <2>1. k + 1 \in 0..m /\ k + 1 # 0 /\ (k + 1) - 1 = k /\ k <= m
    OBVIOUS
  <2>2. f[k + 1] = Symbols!Define(f[k], names[k + 1])
    BY <1>2, <2>1 DEF Defines
  <2>3. Done(f[k], k)
    BY <1>5, <2>1
  <2>4. Chain(f[k + 1]) /\ Len(f[k + 1]) = n
    BY <2>2, <2>3, DefineChain
  <2>5. /\ Rooms(f[k + 1]) /\ f[k + 1][n].numDefinitions = f[k][n].numDefinitions + 1
        /\ f[k + 1][n].FreeSymbols = f[k][n].FreeSymbols /\ \A j \in 1..n : j # n => f[k + 1][j] = f[k][j]
    BY <2>2, <2>3, DefineRooms
  <2>6. f[k + 1][n].numDefinitions = c[n].numDefinitions + (k + 1)
    <3>1. f[k][n].numDefinitions = c[n].numDefinitions + k
      BY <2>3
    <3>2. \A b, d : \A a \in Nat : b = a + k /\ d = b + 1 => d = a + (k + 1)
      OBVIOUS
    <3>. QED BY ONLY <1>3, <2>5, <3>1, <3>2
  <2>. QED BY <2>3, <2>4, <2>5, <2>6
<1>6. m \in T
  BY <1>4, <1>5, SetInduction
<1>7. Done(f[m], m)
  BY <1>6
<1>. QED BY <1>1, <1>7

(* enterScope: the new table has nothing.                                  *)
LEMMA EnclosedRooms ==
  ASSUME NEW c, Chain(c), Rooms(c)
  PROVE  LET c2 == Symbols!NewEnclosedSymbolTable(c)
             n  == Len(c)
         IN  /\ Rooms(c2) /\ c2[n + 1].numDefinitions = 0 /\ c2[n + 1].FreeSymbols = <<>>
             /\ \A k \in 1..n : c2[k] = c[k]
<1>. DEFINE n == Len(c)  t == Symbols!NewSymbolTable  c2 == Symbols!NewEnclosedSymbolTable(c)
<1>1. t.store = [x \in {} |-> 0] /\ t.numDefinitions = 0 /\ t.FreeSymbols = <<>>
  BY DEF Symbols!NewSymbolTable
<1>. HIDE DEF t
<1>2. /\ Len(c2) = n + 1 /\ n \in Nat \ {0} /\ \A k \in 1..n : c2[k] = c[k]
      /\ c2[n + 1] = t
  BY AppendedTo DEF Chain, Symbols!NewEnclosedSymbolTable, t
<1>. HIDE DEF c2
<1>3. \A s : \A k \in 1..n : SlotAt(c, k, s) => SlotAt(c2, k, s)
  <2>1. 1 \in 1..n
    BY <1>2
  <2>. QED BY <1>2, <2>1 DEF SlotAt, LocalsAt, FreeAt
<1>4. ASSUME NEW k \in 1..n + 1 PROVE \A x \in DOMAIN c2[k].store : SlotAt(c2, k, c2[k].store[x])
  <2>1. CASE k = n + 1
    <3>1. c2[k].store = [x \in {} |-> 0]
      BY <1>1, <1>2, <2>1
    <3>. QED BY <3>1
  <2>2. CASE k # n + 1
    <3>1. k \in 1..n
      BY <1>2, <2>2
    <3>. QED BY <1>2, <1>3, <3>1 DEF Rooms
  <2>. QED BY <2>1, <2>2
<1>5. ASSUME NEW k \in 2..n + 1
      PROVE  \A i \in 1..Len(c2[k].FreeSymbols) : SlotAt(c2, k - 1, c2[k].FreeSymbols[i])
  <2>1. CASE k = n + 1
    <3>1. c2[k].FreeSymbols = <<>>
      BY <1>1, <1>2, <2>1
    <3>. QED BY <3>1
  <2>2. CASE k # n + 1
    <3>1. k \in 1..n /\ k \in 2..n /\ k - 1 \in 1..n
      BY <1>2, <2>2
    <3>. QED BY <1>2, <1>3, <3>1 DEF Rooms
  <2>. QED BY <2>1, <2>2
<1>. QED BY <1>1, <1>2, <1>4, <1>5 DEF Rooms, c2

(* leaveScope: the tables around it stay as they are.                      *)
LEMMA OuterRooms ==
  ASSUME NEW c, Chain(c), Rooms(c), Len(c) > 1
  PROVE  LET c2 == Symbols!Outer(c)
         IN  Rooms(c2) /\ \A k \in 1..Len(c) - 1 : c2[k] = c[k]
<1>. DEFINE n == Len(c)  c2 == Symbols!Outer(c)
<1>1. n \in Nat /\ n - 1 \in Nat \ {0} /\ Sequence(c)
  BY DEF Chain
<1>2. c2 = [k \in 1..n - 1 |-> c[k]]
  <2>1. PICK S : c \in Seq(S)
    BY <1>1 DEF Sequence
  <2>2. 1 \in 1..n + 1 /\ n - 1 \in 0..n
    BY <1>1
  <2>. QED BY <2>1, <2>2 DEF Symbols!Outer
<1>3. Len(c2) = n - 1
  BY OuterChain
<1>. HIDE DEF c2
<1>4. \A k \in 1..n - 1 : c2[k] = c[k] /\ k \in 1..n
  BY <1>1, <1>2
<1>5. \A s : \A k \in 1..n - 1 : SlotAt(c, k, s) => SlotAt(c2, k, s)
  <2>1. 1 \in 1..n - 1
    BY <1>1
  <2>. QED BY <1>4, <2>1 DEF SlotAt, LocalsAt, FreeAt
<1>6. \A k \in 1..n - 1 : \A x \in DOMAIN c2[k].store : SlotAt(c2, k, c2[k].store[x])
  BY <1>4, <1>5 DEF Rooms
<1>7. ASSUME NEW k \in 2..n - 1
      PROVE  \A i \in 1..Len(c2[k].FreeSymbols) : SlotAt(c2, k - 1, c2[k].FreeSymbols[i])
  <2>1. k \in 1..n - 1 /\ k - 1 \in 1..n - 1 /\ k \in 2..n
    BY <1>1
  <2>. QED BY <1>4, <1>5, <2>1 DEF Rooms
<1>. QED BY <1>3, <1>4, <1>6, <1>7 DEF Rooms, c2

(* The built-ins take no room.                                             *)
LEMMA BuiltinsRooms == Rooms(<<Symbols!DefineBuiltins>>)
<1>. DEFINE g == Symbols!DefineBuiltins
<1>1. /\ g.FreeSymbols = <<>>
      /\ \A x \in DOMAIN g.store : /\ g.store[x].Scope = Symbols!BuiltinScope
                                   /\ g.store[x].Index < Len(Builtins)
  <2>1. g.FreeSymbols = <<>>
    BY DEF Symbols!DefineBuiltins
  <2>2. PICK names : names = Builtins
    OBVIOUS
  <2>3. DOMAIN names = 1..Len(names) /\ Len(names) \in Nat
    BY <2>2 DEF Builtins
  <2>4. ASSUME NEW x \in DOMAIN g.store
        PROVE  g.store[x].Scope = Symbols!BuiltinScope /\ g.store[x].Index < Len(names)
    <3>1. PICK k : k = (CHOOSE i \in DOMAIN names : names[i] = x)
      OBVIOUS
    <3>2. /\ x \in {names[i] : i \in DOMAIN names}
          /\ g.store[x] = Symbols!Symbol(x, Symbols!BuiltinScope, k - 1)
      BY <2>2, <3>1 DEF Symbols!DefineBuiltins
    <3>3. k \in DOMAIN names
      BY ONLY <3>1, <3>2
    <3>4. k - 1 < Len(names)
      BY ONLY <2>3, <3>3
    <3>. QED BY <3>2, <3>4 DEF Symbols!Symbol
  <2>. QED BY <2>1, <2>2, <2>4
<1>. HIDE DEF g
<1>2. Len(<<g>>) = 1 /\ <<g>>[1] = g
  BY Tuples
<1>3. \A x \in DOMAIN g.store : SlotAt(<<g>>, 1, g.store[x])
  BY <1>1 DEF SlotAt, Slot, Symbols!BuiltinScope, Symbols!LocalScope, Symbols!GlobalScope, Symbols!FreeScope
<1>4. \A k \in 1..1 : k = 1
  OBVIOUS
<1>5. \A k \in 2..1 : FALSE
  OBVIOUS
<1>. QED BY <1>2, <1>3, <1>4, <1>5 DEF Rooms, g

(* Resolve: there is a place for what it returns, and for what every table *)
(* on the way captures (symbol_table.go:51-87).                            *)
LEMMA ResolveRooms ==
  ASSUME NEW c, Chain(c), Rooms(c), NEW name, Symbols!Resolvable(c, name)
  PROVE  LET c2 == Symbols!Resolve(c, name)
             n  == Len(c)
         IN  /\ Rooms(c2) /\ Wider(c, c2, n) /\ SlotAt(c2, n, Symbols!Resolved(c, name))
             /\ \A k \in 1..n : c2[k].numDefinitions = c[k].numDefinitions
<1>. DEFINE n == Len(c)  h == Symbols!Home(c, name)  c2 == Symbols!Resolve(c, name)
            found == Symbols!Found(c, name)  At1(k) == Symbols!ResolvedAt(c, name, k)
<1>1. n \in Nat \ {0} /\ n \in 1..n /\ DOMAIN c = 1..n /\ Sequence(c) /\ 1 \in 1..n
  BY SequenceIsFunction DEF Chain
<1>2. h \in 1..n /\ Known(found) /\ SlotAt(c, h, found)
  <2>1. h \in 1..n /\ name \in DOMAIN c[h].store
    BY HomeStores
  <2>. QED BY <2>1 DEF Chain, Table, Symbols!Found, Rooms
<1>3. Chain(c2) /\ Len(c2) = n
  BY ResolveChain
<1>4. \A k \in 1..n : c[k].numDefinitions \in Nat /\ FreeAt(c, k) \in Nat
  BY RoomNumbers
<1>5. CASE ~Symbols!Captured(c, name)
  <2>1. c2 = c
    BY <1>5 DEF Symbols!Resolve
  <2>2. found.Scope \in {Symbols!GlobalScope, Symbols!BuiltinScope} /\ At1(n) = found
    BY <1>5 DEF Symbols!Captured, Symbols!ResolvedAt
  <2>. HIDE DEF found, h, c2, At1
  <2>3. SlotAt(c, n, found)
    BY <1>2, <2>2 DEF SlotAt, Slot, Symbols!BuiltinScope, Symbols!LocalScope, Symbols!GlobalScope, Symbols!FreeScope
  <2>4. Wider(c, c, n)
    BY <1>4 DEF Wider
  <2>. QED BY <2>1, <2>2, <2>3, <2>4 DEF c2, At1, Symbols!Resolved
<1>6. CASE Symbols!Captured(c, name)
  <2>1. c2 = [k \in 1..n |-> IF k > h THEN Symbols!DefineFree(c[k], At1(k - 1)) ELSE c[k]]
    BY <1>1, <1>6 DEF Symbols!Resolve
  <2>2. /\ At1(h) = found
        /\ \A k \in 1..n : k > h => At1(k) = Symbols!FreeSymbol(c[k], name)
    <3>1. ~(h > h)
      BY <1>2
    <3>. QED BY <1>6, <3>1 DEF Symbols!ResolvedAt
  <2>3. ASSUME NEW k \in 1..n PROVE Known(Symbols!FreeSymbol(c[k], name)) 
    BY <1>4 DEF Symbols!FreeSymbol, Symbols!Symbol, Known, FreeAt
  <2>. HIDE DEF c2, h, found, At1
  <2>4. ASSUME NEW k \in 1..n, k > h
        PROVE  /\ c2[k].numDefinitions = c[k].numDefinitions
               /\ c2[k].FreeSymbols = Append(c[k].FreeSymbols, At1(k - 1))
               /\ \E x : c2[k].store = Symbols!Bind(c[k].store, Symbols!FreeSymbol(c[k], x))
    BY <2>1, <2>4 DEF Symbols!DefineFree
  <2>5. ASSUME NEW k \in 1..n, k > h
        PROVE  LET m == FreeAt(c, k)
               IN  /\ FreeAt(c2, k) = m + 1 /\ c2[k].FreeSymbols[m + 1] = At1(k - 1)
                   /\ \A j \in 1..m : c2[k].FreeSymbols[j] = c[k].FreeSymbols[j]
    <3>1. Sequence(c[k].FreeSymbols)
      BY DEF Chain, Table
    <3>2. k # 1
      BY <1>2, <2>5
    <3>. QED BY <2>4, <2>5, <3>1, <3>2, AppendedTo DEF FreeAt
  <2>6. ASSUME NEW k \in 1..n, ~(k > h) PROVE c2[k] = c[k]
    BY <2>1, <2>6
  <2>7. Wider(c, c2, n)
    <3>1. ASSUME NEW k \in 1..n
          PROVE  c[k].numDefinitions <= c2[k].numDefinitions /\ FreeAt(c, k) <= FreeAt(c2, k)
      <4>1. CASE k > h
        BY <1>4, <2>4, <2>5, <4>1
      <4>2. CASE ~(k > h)
        BY <1>4, <2>6, <4>2 DEF FreeAt
      <4>. QED BY <4>1, <4>2
    <3>. QED BY <3>1 DEF Wider
  <2>8. ASSUME NEW k \in 1..n, NEW x, Known(x), SlotAt(c, k, x) PROVE SlotAt(c2, k, x)
    BY <1>1, <1>3, <2>7, <2>8, SlotWider
  <2>9. ASSUME NEW k \in 1..n, k > h, NEW x PROVE SlotAt(c2, k, Symbols!FreeSymbol(c[k], x))
    <3>. DEFINE s == Symbols!FreeSymbol(c[k], x)
    <3>1. s.Scope = Symbols!FreeScope /\ s.Index = FreeAt(c, k)
      BY <1>2, <2>9 DEF Symbols!FreeSymbol, Symbols!Symbol, FreeAt
    <3>2. FreeAt(c, k) < FreeAt(c2, k)
      BY <1>4, <2>5, <2>9
    <3>. QED BY <3>1, <3>2 DEF SlotAt, Slot, Symbols!LocalScope, Symbols!GlobalScope, Symbols!FreeScope,
                                   Symbols!BuiltinScope
  <2>10. ASSUME NEW k \in 1..n, k >= h PROVE SlotAt(c2, k, At1(k))
    <3>1. CASE k = h
      BY <1>2, <2>2, <2>8, <3>1
    <3>2. CASE k # h
      <4>1. k > h
        BY <1>1, <1>2, <2>10, <3>2
      <4>. QED BY <2>2, <2>9, <4>1
    <3>. QED BY <3>1, <3>2
  <2>11. ASSUME NEW k \in 1..n, NEW x \in DOMAIN c2[k].store PROVE SlotAt(c2, k, c2[k].store[x])
    <3>1. \A y \in DOMAIN c[k].store : Known(c[k].store[y]) /\ SlotAt(c, k, c[k].store[y])
      BY DEF Chain, Table, Rooms
    <3>2. CASE ~(k > h)
      BY <2>6, <2>8, <3>1, <3>2
    <3>3. CASE k > h
      <4>1. PICK z : c2[k].store = Symbols!Bind(c[k].store, Symbols!FreeSymbol(c[k], z))
        BY <2>4, <3>3
      <4>2. \/ c2[k].store[x] = Symbols!FreeSymbol(c[k], z)
            \/ x \in DOMAIN c[k].store /\ c2[k].store[x] = c[k].store[x]
        BY <4>1 DEF Symbols!Bind
      <4>. QED BY <2>8, <2>9, <3>1, <3>3, <4>2
    <3>. QED BY <3>2, <3>3
  <2>12. ASSUME NEW k \in 2..n, NEW i \in 1..Len(c2[k].FreeSymbols) PROVE SlotAt(c2, k - 1, c2[k].FreeSymbols[i])
    <3>1. k \in 1..n /\ k - 1 \in 1..n
      BY <1>1
    <3>2. \A j \in 1..FreeAt(c, k) : Known(c[k].FreeSymbols[j]) /\ SlotAt(c, k - 1, c[k].FreeSymbols[j])
      BY <3>1 DEF Chain, Table, Rooms, FreeAt
    <3>3. CASE ~(k > h)
      BY <2>6, <2>8, <3>1, <3>2, <3>3 DEF FreeAt
    <3>4. CASE k > h
      <4>1. k - 1 >= h
        BY <1>1, <1>2, <3>4
      <4>2. i \in 1..FreeAt(c, k) + 1
        BY <2>5, <3>1, <3>4 DEF FreeAt
      <4>3. i \in 1..FreeAt(c, k) \/ i = FreeAt(c, k) + 1
        BY <1>4, <3>1, <4>2
      <4>4. CASE i \in 1..FreeAt(c, k)
        BY <2>5, <2>8, <3>1, <3>2, <3>4, <4>4
      <4>5. CASE i = FreeAt(c, k) + 1
        BY <2>5, <2>10, <3>1, <3>4, <4>1, <4>5
      <4>. QED BY <4>3, <4>4, <4>5
    <3>. QED BY <3>3, <3>4
  <2>13. Rooms(c2)
    BY <1>3, <2>11, <2>12 DEF Rooms
  <2>14. n >= h
    BY <1>1, <1>2
  <2>15. SlotAt(c2, n, At1(n))
    BY <1>1, <2>10, <2>14
  <2>16. \A k \in 1..n : c2[k].numDefinitions = c[k].numDefinitions
    BY <2>4, <2>6
  <2>. QED BY <2>7, <2>13, <2>15, <2>16 DEF c2, At1, Symbols!Resolved
<1>. QED BY <1>5, <1>6

-----------------------------------------------------------------------------
(* What the work left will name: the slot of a let is there already, the   *)
(* operand of a hash is even and a function's parameters are defined.      *)
Due(it, j, c) ==
  /\ it.do = "emit" =>
       /\ it.op \notin {OpGetLocal, OpGetGlobal, OpGetFree, OpGetBuiltin, OpConstant, OpClosure}
       /\ it.op = OpSetLocal => it.operands[1] < LocalsAt(c, j)
       /\ it.op = OpSetGlobal => it.operands[1] < c[1].numDefinitions
       /\ it.op = OpHash => it.operands[1] % 2 = 0
  /\ Ending(it) => Len(it.node.Parameters) <= c[j].numDefinitions

Depth(w, n, d) ==
  /\ d \in [1..Len(w) + 1 -> 1..n] /\ d[1] = n
  /\ \A k \in 1..Len(w) : d[k + 1] = Below(w[k], d[k])

Pending(w, n, c) == \E d : Depth(w, n, d) /\ \A k \in 1..Len(w) : Due(w[k], d[k], c)

(* An item ends at most one function.                                      *)
LEMMA BelowOne ==
  ASSUME NEW it, NEW n
  PROVE  /\ Below(it, n) = n \/ Below(it, n) = n - 1
         /\ ~Ending(it) => Below(it, n) = n
         /\ Ending(it) => Below(it, n) = n - 1
BY DEF Below, Ending

(* What comes later is not deeper.                                         *)
LEMMA DepthFalls ==
  ASSUME NEW w, Len(w) \in Nat, NEW n \in Nat, NEW d, Depth(w, n, d)
  PROVE  \A k \in 2..Len(w) + 1 : d[k] <= d[2]
<1>. DEFINE L == Len(w)
            T == {k \in Nat : k >= 2 /\ k <= L + 1 => d[k] <= d[2]}
<1>1. \A k \in 1..L + 1 : d[k] \in Nat
  BY DEF Depth
<1>2. 0 \in T
  OBVIOUS
<1>3. ASSUME NEW k \in Nat, k \in T PROVE k + 1 \in T
  <2>. SUFFICES ASSUME k + 1 >= 2, k + 1 <= L + 1 PROVE d[k + 1] <= d[2]
    OBVIOUS
  <2>1. CASE k = 1
    <3>1. k + 1 = 2 /\ 2 \in 1..L + 1
      BY <2>1
    <3>. QED BY <1>1, <3>1
  <2>2. CASE k # 1
    <3>1. k >= 2 /\ k \in 1..L /\ k \in 1..L + 1 /\ k <= L + 1 /\ 2 \in 1..L + 1
      BY <2>2
    <3>2. d[k] <= d[2] /\ d[k] \in Nat /\ d[2] \in Nat
      BY <1>1, <1>3, <3>1
    <3>3. d[k + 1] = d[k] \/ d[k + 1] = d[k] - 1
      BY <3>1, BelowOne DEF Depth
    <3>. QED BY <3>2, <3>3
  <2>. QED BY <2>1, <2>2
<1>4. \A k \in Nat : k \in T
  BY <1>2, <1>3, SetInduction
<1>5. ASSUME NEW k \in 2..L + 1 PROVE d[k] <= d[2]
  <2>1. k \in Nat /\ k >= 2 /\ k <= L + 1
    OBVIOUS
  <2>. QED BY <1>4, <2>1
<1>. QED BY <1>5

(* A wider chain owes no more.                                             *)
LEMMA DueWider ==
  ASSUME NEW c, Chain(c), NEW c2, Chain(c2), NEW m \in Nat, m <= Len(c), m <= Len(c2), Wider(c, c2, m),
         NEW j \in 1..m, NEW it, Due(it, j, c), it.do = "emit" => it.operands \in [1..Len(OperandWidths(it.op)) -> Nat],
         Ending(it) => Len(it.node.Parameters) \in Nat
  PROVE  Due(it, j, c2)
<1>1. Len(c) \in Nat /\ Len(c2) \in Nat
  BY DEF Chain
<1>2. j \in 1..Len(c) /\ j \in 1..Len(c2) /\ 1 \in 1..m
  BY <1>1
<1>3. /\ LocalsAt(c, j) \in Nat /\ c[1].numDefinitions \in Nat /\ c[j].numDefinitions \in Nat
      /\ LocalsAt(c2, j) \in Nat /\ c2[1].numDefinitions \in Nat /\ c2[j].numDefinitions \in Nat
  BY <1>2, RoomNumbers
<1>4. /\ LocalsAt(c, j) <= LocalsAt(c2, j) /\ c[j].numDefinitions <= c2[j].numDefinitions
      /\ c[1].numDefinitions <= c2[1].numDefinitions
  BY <1>2 DEF Wider, LocalsAt
<1>5. ASSUME NEW x \in Nat, NEW a \in Nat, NEW b \in Nat, a <= b PROVE (x < a => x < b) /\ (x <= a => x <= b)
  BY <1>5
<1>6. it.do = "emit" /\ it.op \in {OpSetLocal, OpSetGlobal} => it.operands[1] \in Nat
  <2>1. \A op \in {OpSetLocal, OpSetGlobal} : Len(OperandWidths(op)) = 1
    BY OperandTable DEF Wide, Narrow
  <2>. QED BY <2>1
<1>7. it.do = "emit" =>
       /\ it.op \notin {OpGetLocal, OpGetGlobal, OpGetFree, OpGetBuiltin, OpConstant, OpClosure}
       /\ it.op = OpSetLocal => it.operands[1] < LocalsAt(c2, j)
       /\ it.op = OpSetGlobal => it.operands[1] < c2[1].numDefinitions
       /\ it.op = OpHash => it.operands[1] % 2 = 0
  BY <1>3, <1>4, <1>5, <1>6 DEF Due
<1>8. Ending(it) => Len(it.node.Parameters) <= c2[j].numDefinitions
  BY <1>3, <1>4, <1>5 DEF Due
<1>. QED BY <1>7, <1>8 DEF Due

(* What an item carries.                                                   *)
LEMMA ItemCarries ==
  ASSUME NEW trees, Grammar(trees), NEW it, Item(trees, it)
  PROVE  /\ it.do = "emit" => it.operands \in [1..Len(OperandWidths(it.op)) -> Nat]
         /\ Ending(it) => Len(it.node.Parameters) \in Nat
BY DEF Item, Ending, Of, Grammar

(* The work left stays due when calls replace the call that makes them.    *)
LEMMA PendingContinues ==
  ASSUME NEW trees, Grammar(trees), NEW w, Sequence(w), w # <<>>, \A k \in 1..Len(w) : Item(trees, w[k]),
         NEW n \in Nat, NEW c, Chain(c), Len(c) = n, Pending(w, n, c),
         NEW items, Sequence(items), NEW n2 \in Nat, NEW c2, Chain(c2), Len(c2) = n2,
         NEW e \in [1..Len(items) + 1 -> 1..n2], e[1] = n2, e[Len(items) + 1] = Below(w[1], n),
         \A k \in 1..Len(items) : e[k + 1] = Below(items[k], e[k]) /\ Due(items[k], e[k], c2),
         Wider(c, c2, Below(w[1], n))
  PROVE  Pending(items \o Tail(w), n2, c2)
<1>. DEFINE m == Len(items)
            L == Len(w)
            t == L - 1
            new == items \o Tail(w)
            b == Below(w[1], n)
<1>1. /\ Sequence(new) /\ m \in Nat /\ L \in Nat \ {0} /\ Len(new) = m + t
      /\ \A k \in 1..m : new[k] = items[k]
      /\ \A k \in 1..t : new[m + k] = w[k + 1]
  BY ONLY Sequence(w), w # <<>>, Sequence(items), Replaced
<1>2. m \in Nat /\ t \in Nat /\ L \in Nat /\ 1 \in 1..L /\ 1 + 1 = 2
  BY <1>1
<1>. HIDE DEF new
<1>3. PICK d : Depth(w, n, d) /\ \A k \in 1..L : Due(w[k], d[k], c)
  BY DEF Pending
<1>. DEFINE d2 == [k \in 1..m + t + 1 |-> IF k <= m THEN e[k] ELSE d[(k - m) + 1]]
<1>4. d[2] = b /\ b \in 1..n2 /\ b \in 1..n
  <2>1. m + 1 \in 1..m + 1
    BY <1>2
  <2>2. d[1] = n /\ d[1 + 1] = Below(w[1], d[1]) /\ d[1 + 1] \in 1..n
    <3>1. 1 + 1 \in 1..L + 1
      BY <1>2
    <3>. QED BY <1>2, <1>3, <3>1 DEF Depth
  <2>. QED BY <1>2, <2>1, <2>2
<1>. HIDE DEF d2, b
<1>5. \A k \in 2..L + 1 : d[k] \in 1..n2 /\ d[k] \in 1..b
  <2>1. \A k \in 2..L + 1 : k \in 1..L + 1
    BY <1>2
  <2>2. \A k \in 2..L + 1 : d[k] \in 1..n
    BY <1>3, <2>1 DEF Depth
  <2>3. \A k \in 2..L + 1 : d[k] <= d[2]
    BY <1>2, <1>3, DepthFalls
  <2>4. ASSUME NEW k \in 2..L + 1 PROVE d[k] \in 1..n2 /\ d[k] \in 1..b
    <3>1. d[k] \in 1..n /\ d[k] <= b
      BY <1>4, <2>2, <2>3
    <3>. QED BY <1>4, <3>1
  <2>. QED BY <2>4
<1>6. \A k \in 1..m : d2[k] = e[k]
  <2>1. \A k \in 1..m : k \in 1..m + t + 1 /\ k <= m
    BY <1>2
  <2>. QED BY <2>1 DEF d2
<1>7. \A k \in 1..t + 1 : d2[m + k] = d[k + 1]
  <2>1. \A k \in 1..t + 1 : m + k \in 1..m + t + 1 /\ ~(m + k <= m) /\ (m + k) - m = k
    BY <1>2
  <2>. QED BY <2>1 DEF d2
<1>8. \A k \in 1..m + 1 : d2[k] = e[k]
  <2>1. 1 \in 1..t + 1
    BY <1>2
  <2>2. d2[m + 1] = e[m + 1]
    BY <1>2, <1>4, <1>7, <2>1 DEF b
  <2>3. \A k \in 1..m + 1 : k \in 1..m \/ k = m + 1
    BY <1>2
  <2>. QED BY <1>6, <2>2, <2>3
<1>9. \A k \in 1..m + t + 1 : k \in 1..m \/ \E j \in 1..t + 1 : k = m + j
  <2>1. ASSUME NEW k \in 1..m + t + 1, k \notin 1..m PROVE \E j \in 1..t + 1 : k = m + j
    <3>1. k - m \in 1..t + 1 /\ k = m + (k - m)
      BY <1>2, <2>1
    <3>. QED BY <3>1
  <2>. QED BY <2>1
<1>10. d2 \in [1..Len(new) + 1 -> 1..n2]
  <2>1. \A k \in 1..m : e[k] \in 1..n2
    <3>1. \A k \in 1..m : k \in 1..m + 1
      BY <1>2
    <3>. QED BY <3>1
  <2>2. \A j \in 1..t + 1 : j + 1 \in 2..L + 1
    BY <1>2
  <2>3. ASSUME NEW k \in 1..m + t + 1 PROVE d2[k] \in 1..n2
    <3>1. CASE k \in 1..m
      BY <1>6, <2>1, <3>1
    <3>2. ASSUME NEW j \in 1..t + 1, k = m + j PROVE d2[k] \in 1..n2
      BY <1>5, <1>7, <2>2, <3>2
    <3>. QED BY <1>9, <3>1, <3>2
  <2>4. d2 = [k \in 1..m + t + 1 |-> d2[k]]
    BY DEF d2
  <2>. QED BY <1>1, <2>3, <2>4
<1>11. d2[1] = n2
  <2>1. 1 \in 1..m + 1
    BY <1>2
  <2>. QED BY <1>8, <2>1
<1>12. ASSUME NEW k \in 1..Len(new)
       PROVE  d2[k + 1] = Below(new[k], d2[k]) /\ Due(new[k], d2[k], c2)
  <2>1. CASE k \in 1..m
    <3>1. k + 1 \in 1..m + 1 /\ k \in 1..m + 1
      BY <1>2, <2>1
    <3>. QED BY <1>1, <1>8, <2>1, <3>1
  <2>2. ASSUME NEW j \in 1..t, k = m + j
        PROVE  d2[k + 1] = Below(new[k], d2[k]) /\ Due(new[k], d2[k], c2)
    <3>1. j + 1 \in 1..L /\ j + 1 \in 2..L + 1 /\ j \in 1..t + 1 /\ j + 1 \in 1..t + 1
          /\ (m + j) + 1 = m + (j + 1)
      BY <1>1, <1>2
    <3>2. new[k] = w[j + 1] /\ d2[k] = d[j + 1] /\ d2[k + 1] = d[(j + 1) + 1]
      BY <1>1, <1>7, <2>2, <3>1
    <3>3. /\ Item(trees, w[j + 1]) /\ Due(w[j + 1], d[j + 1], c)
          /\ d[(j + 1) + 1] = Below(w[j + 1], d[j + 1])
      BY <1>3, <3>1 DEF Depth
    <3>4. Due(w[j + 1], d[j + 1], c2)
      <4>1. d[j + 1] \in 1..b /\ b \in Nat /\ b <= n /\ b <= n2 /\ Wider(c, c2, b)
        BY <1>4, <1>5, <3>1 DEF b
      <4>2. /\ w[j + 1].do = "emit" => w[j + 1].operands \in [1..Len(OperandWidths(w[j + 1].op)) -> Nat]
            /\ Ending(w[j + 1]) => Len(w[j + 1].node.Parameters) \in Nat
        BY <3>3, ItemCarries
      <4>3. PICK it, g : it = w[j + 1] /\ g = d[j + 1]
        OBVIOUS
      <4>4. /\ Chain(c) /\ Chain(c2) /\ b \in Nat /\ b <= Len(c) /\ b <= Len(c2) /\ Wider(c, c2, b)
            /\ g \in 1..b /\ Due(it, g, c)
            /\ it.do = "emit" => it.operands \in [1..Len(OperandWidths(it.op)) -> Nat]
            /\ Ending(it) => Len(it.node.Parameters) \in Nat
        BY <3>3, <4>1, <4>2, <4>3
      <4>5. Due(it, g, c2)
        BY ONLY <4>4, DueWider
      <4>. QED BY ONLY <4>3, <4>5
    <3>. QED BY <3>2, <3>3, <3>4
  <2>3. k \in 1..m \/ \E j \in 1..t : k = m + j
    <3>1. ASSUME k \notin 1..m PROVE \E j \in 1..t : k = m + j
      <4>1. k - m \in 1..t /\ k = m + (k - m)
        BY <1>1, <1>2, <3>1
      <4>. QED BY <4>1
    <3>. QED BY <3>1
  <2>. QED BY <2>1, <2>2, <2>3
<1>. QED BY <1>10, <1>11, <1>12 DEF Pending, Depth, new

-----------------------------------------------------------------------------
(* The invariant: every slot that is named exists.                         *)
Coded(sc, c, pool) ==
  \A j \in 1..Len(sc) : Named(sc[j].instructions, LocalsAt(c, j), c[1].numDefinitions, FreeAt(c, j), pool)

Furnishes(x, G, pool) ==
  x.type = COMPILED_FUNCTION_OBJ =>
    /\ \E F \in Nat : Named(x.Instructions, x.NumLocals, G, F, pool)
    /\ x.NumParameters <= x.NumLocals

Furnished(pool, G) == \A k \in 1..Len(pool) : Furnishes(pool[k], G, pool)

RoomInv ==
  /\ Rooms(symbolTable)
  /\ Coded(scopes, symbolTable, constants)
  /\ Furnished(constants, symbolTable[1].numDefinitions)
  /\ Pending(todo, Len(scopes), symbolTable)

(* A longer pool and more globals serve the functions there are.           *)
LEMMA FurnishesMore ==
  ASSUME NEW x, Linked(x), NEW G \in Nat, NEW G2 \in Nat, G <= G2, NEW pool, NEW pool2, Extends(pool, pool2),
         Furnishes(x, G, pool)
  PROVE  Furnishes(x, G2, pool2)
<1>. SUFFICES ASSUME x.type = COMPILED_FUNCTION_OBJ
              PROVE  /\ \E F \in Nat : Named(x.Instructions, x.NumLocals, G2, F, pool2)
                     /\ x.NumParameters <= x.NumLocals
  BY DEF Furnishes
<1>1. x.Instructions \in Seq(Bytes) /\ Whole(x.Instructions) /\ x.NumLocals \in Nat
  BY DEF Linked
<1>2. PICK F \in Nat : Named(x.Instructions, x.NumLocals, G, F, pool)
  BY DEF Furnishes
<1>3. Named(x.Instructions, x.NumLocals, G2, F, pool2)
  <2>1. x.NumLocals <= x.NumLocals /\ F <= F
    BY <1>1
  <2>. QED BY <1>1, <1>2, <2>1, NamedMore
<1>. QED BY <1>3 DEF Furnishes

(* So it is for all functions of the pool.                                 *)
LEMMA FurnishedMore ==
  ASSUME NEW pool, Pool(pool), NEW G \in Nat, NEW G2 \in Nat, G <= G2, NEW pool2, Extends(pool, pool2),
         Furnished(pool, G)
  PROVE  \A k \in 1..Len(pool) : Furnishes(pool2[k], G2, pool2)
<1>. SUFFICES ASSUME NEW k \in 1..Len(pool) PROVE Furnishes(pool2[k], G2, pool2)
  OBVIOUS
<1>1. Linked(pool[k]) /\ Furnishes(pool[k], G, pool) /\ pool2[k] = pool[k]
  BY DEF Pool, Furnished, Extends
<1>. QED BY <1>1, FurnishesMore

(* Wider tables and a longer pool serve the code there is.                 *)
LEMMA CodeMore ==
  ASSUME NEW c, Chain(c), NEW c2, Chain(c2), NEW m \in Nat, m <= Len(c), m <= Len(c2), Wider(c, c2, m),
         NEW pool, NEW pool2, Extends(pool, pool2), NEW j \in 1..m, NEW s, GoodScope(s),
         Named(s.instructions, LocalsAt(c, j), c[1].numDefinitions, FreeAt(c, j), pool)
  PROVE  Named(s.instructions, LocalsAt(c2, j), c2[1].numDefinitions, FreeAt(c2, j), pool2)
<1>1. Len(c) \in Nat /\ Len(c2) \in Nat
  BY DEF Chain
<1>2. j \in 1..Len(c) /\ j \in 1..Len(c2) /\ 1 \in 1..m
  BY <1>1
<1>3. /\ LocalsAt(c, j) \in Nat /\ FreeAt(c, j) \in Nat /\ c[1].numDefinitions \in Nat
      /\ LocalsAt(c2, j) \in Nat /\ FreeAt(c2, j) \in Nat /\ c2[1].numDefinitions \in Nat
  BY <1>2, RoomNumbers
<1>4. /\ LocalsAt(c, j) <= LocalsAt(c2, j) /\ FreeAt(c, j) <= FreeAt(c2, j)
      /\ c[1].numDefinitions <= c2[1].numDefinitions
  <2>1. 0 <= 0
    OBVIOUS
  <2>. QED BY <1>2, <2>1 DEF Wider, LocalsAt
<1>5. s.instructions \in Seq(Bytes) /\ Whole(s.instructions)
  BY GoodScopeWhole DEF GoodScope, Formed
<1>6. PICK i, l, l2, f, f2, g, g2 :
        /\ i = s.instructions /\ l = LocalsAt(c, j) /\ l2 = LocalsAt(c2, j) /\ f = FreeAt(c, j) /\ f2 = FreeAt(c2, j)
        /\ g = c[1].numDefinitions /\ g2 = c2[1].numDefinitions
  OBVIOUS
<1>7. /\ i \in Seq(Bytes) /\ Whole(i) /\ l \in Nat /\ l2 \in Nat /\ f \in Nat /\ f2 \in Nat /\ g \in Nat /\ g2 \in Nat
      /\ l <= l2 /\ f <= f2 /\ g <= g2 /\ Extends(pool, pool2) /\ Named(i, l, g, f, pool)
  BY <1>3, <1>4, <1>5, <1>6
<1>8. Named(i, l2, g2, f2, pool2)
  BY ONLY <1>7, NamedMore
<1>. QED BY ONLY <1>6, <1>8

(* The work left, item by item.                                            *)
LEMMA TodoItems ==
  ASSUME NEW trees, CInv(trees), todo # <<>>
  PROVE  Sequence(todo) /\ \A k \in 1..Len(todo) : Item(trees, todo[k])
<1>1. ~failed
  BY AtHead
<1>. QED BY <1>1 DEF CInv, Todo

(* A stretch of Compile inside one function: what it emits names what the  *)
(* tables and the pool have room for behind it, and so does the work it    *)
(* leaves.                                                                 *)
LEMMA StretchRooms ==
  ASSUME NEW trees, Grammar(trees), CInv(trees), RoomInv, todo # <<>>, ~Ending(todo[1]),
         NEW c2, Chain(c2), Len(c2) = Len(symbolTable), Rooms(c2), Wider(symbolTable, c2, Len(symbolTable)),
         NEW pool2, Extends(constants, pool2), Furnished(pool2, c2[1].numDefinitions),
         NEW items, Sequence(items), \A k \in 1..Len(items) : ~Ending(items[k]) /\ Due(items[k], Len(scopes), c2),
         NEW t, GoodScope(t),
         Named(t.instructions, LocalsAt(c2, Len(scopes)), c2[1].numDefinitions, FreeAt(c2, Len(scopes)), pool2),
         scopes' = Changed(t), todo' = items \o Tail(todo), symbolTable' = c2, constants' = pool2
  PROVE  RoomInv'
<1>. DEFINE n == Len(scopes)  m == Len(items)
<1>1. /\ GoodScopes(scopes) /\ Chain(symbolTable) /\ Len(symbolTable) = n /\ n \in Nat \ {0}
  BY DEF CInv, GoodScopes
<1>2. PICK sc2 : sc2 = [scopes EXCEPT ![n] = t]
  OBVIOUS
<1>3. scopes' = sc2
  BY <1>2 DEF Changed
<1>4. GoodScopes(sc2) /\ Len(sc2) = n /\ sc2[n] = t /\ \A k \in 1..n : k # n => sc2[k] = scopes[k]
  <2>1. GoodScopes(scopes) /\ GoodScope(t)
    BY <1>1
  <2>2. LET x == [scopes EXCEPT ![Len(scopes)] = t]
        IN  /\ GoodScopes(x) /\ Len(x) = Len(scopes) /\ x[Len(scopes)] = t
            /\ \A k \in 1..Len(scopes) : k # Len(scopes) => x[k] = scopes[k]
    BY ONLY <2>1, InnermostChanged
  <2>. QED BY <1>2, <2>2
<1>5. Sequence(todo) /\ \A k \in 1..Len(todo) : Item(trees, todo[k])
  BY TodoItems
<1>6. Coded(sc2, c2, pool2)
  <2>1. ASSUME NEW j \in 1..n
        PROVE  Named(sc2[j].instructions, LocalsAt(c2, j), c2[1].numDefinitions, FreeAt(c2, j), pool2)
    <3>1. CASE j = n
      BY <1>4, <3>1
    <3>2. CASE j # n
      <4>1. PICK s : s = scopes[j]
        OBVIOUS
      <4>2. /\ GoodScope(s) /\ sc2[j] = s
            /\ Named(s.instructions, LocalsAt(symbolTable, j), symbolTable[1].numDefinitions,
                     FreeAt(symbolTable, j), constants)
        BY <1>1, <1>4, <3>2, <4>1 DEF RoomInv, Coded, GoodScopes
      <4>3. n \in Nat /\ n <= Len(symbolTable) /\ n <= Len(c2) /\ Wider(symbolTable, c2, n)
        BY <1>1
      <4>4. Named(s.instructions, LocalsAt(c2, j), c2[1].numDefinitions, FreeAt(c2, j), pool2)
        BY <1>1, <4>2, <4>3, CodeMore
      <4>. QED BY <4>2, <4>4
    <3>. QED BY <3>1, <3>2
  <2>. QED BY <1>4, <2>1 DEF Coded
<1>7. Pending(items \o Tail(todo), n, c2)
  <2>1. m \in Nat
    BY SequenceIsFunction
  <2>2. PICK e : e = [k \in 1..m + 1 |-> n]
    OBVIOUS
  <2>3. Below(todo[1], n) = n
    BY BelowOne
  <2>4. /\ e \in [1..Len(items) + 1 -> 1..n] /\ e[1] = n /\ e[Len(items) + 1] = n
        /\ \A k \in 1..Len(items) : e[k] = n /\ e[k + 1] = n
    <3>1. 1 \in 1..m + 1 /\ m + 1 \in 1..m + 1 /\ n \in 1..n /\ \A k \in 1..m : k \in 1..m + 1 /\ k + 1 \in 1..m + 1
      BY <1>1, <2>1
    <3>. QED BY <2>2, <3>1
  <2>5. \A k \in 1..Len(items) : e[k + 1] = Below(items[k], e[k]) /\ Due(items[k], e[k], c2)
    BY <2>4, BelowOne
  <2>6. /\ Pending(todo, n, symbolTable) /\ n \in Nat /\ Len(c2) = n /\ Wider(symbolTable, c2, Below(todo[1], n))
        /\ e[Len(items) + 1] = Below(todo[1], n) /\ e \in [1..Len(items) + 1 -> 1..n] /\ e[1] = n
    BY <1>1, <2>3, <2>4 DEF RoomInv
  <2>. QED BY <1>1, <1>5, <2>5, <2>6, PendingContinues
<1>. QED BY <1>3, <1>4, <1>6, <1>7 DEF RoomInv

(* Work that names nothing but pairs.                                      *)
Plain(it) ==
  /\ ~Ending(it)
  /\ it.do = "emit" => /\ it.op \in Referring => it.op = OpHash
                       /\ it.op = OpHash => it.operands[1] % 2 = 0

AllPlain(items) == Sequence(items) /\ \A k \in 1..Len(items) : Plain(items[k])

(* Plain work is due wherever it stands.                                   *)
LEMMA PlainDue ==
  ASSUME NEW it, Plain(it), NEW j, NEW c
  PROVE  Due(it, j, c)
<1>1. \A o \in {OpGetLocal, OpGetGlobal, OpGetFree, OpGetBuiltin, OpConstant, OpClosure, OpSetLocal,
                 OpSetGlobal} : o \in Referring /\ o # OpHash
  BY DEF Referring, OpHash, OpGetLocal, OpGetGlobal, OpGetFree, OpGetBuiltin, OpConstant, OpClosure, OpSetLocal, OpSetGlobal
<1>. QED BY <1>1 DEF Due, Plain

(* A chain is as wide as it is, and a pool extends itself.                 *)
LEMMA AsBefore ==
  ASSUME NEW c, Chain(c), NEW pool, Pool(pool)
  PROVE  Wider(c, c, Len(c)) /\ Extends(pool, pool)
<1>1. \A k \in 1..Len(c) : c[k].numDefinitions \in Nat /\ FreeAt(c, k) \in Nat
  BY RoomNumbers
<1>2. Len(pool) \in Nat
  BY SequenceIsFunction DEF Pool
<1>. QED BY <1>1, <1>2 DEF Wider, Extends

(* A stretch that leaves the tables and the pool alone.                    *)
LEMMA QuietRooms ==
  ASSUME NEW trees, Grammar(trees), CInv(trees), RoomInv, todo # <<>>, ~Ending(todo[1]),
         NEW items, AllPlain(items), NEW t, GoodScope(t),
         Named(t.instructions, LocalsAt(symbolTable, Len(scopes)), symbolTable[1].numDefinitions,
               FreeAt(symbolTable, Len(scopes)), constants),
         scopes' = Changed(t), todo' = items \o Tail(todo), symbolTable' = symbolTable, constants' = constants
  PROVE  RoomInv'
<1>1. Chain(symbolTable) /\ Pool(constants)
  BY DEF CInv
<1>2. Wider(symbolTable, symbolTable, Len(symbolTable)) /\ Extends(constants, constants)
  BY <1>1, AsBefore
<1>3. Rooms(symbolTable) /\ Furnished(constants, symbolTable[1].numDefinitions)
  BY DEF RoomInv
<1>4. Sequence(items) /\ \A k \in 1..Len(items) : ~Ending(items[k]) /\ Due(items[k], Len(scopes), symbolTable)
  BY PlainDue DEF AllPlain, Plain
<1>. QED BY <1>1, <1>2, <1>3, <1>4, StretchRooms

(* What the code of the innermost function names.                          *)
LEMMA ScopeNamed ==
  ASSUME NEW trees, CInv(trees), RoomInv
  PROVE  /\ GoodScope(Scope) /\ Len(scopes) \in 1..Len(scopes) /\ Len(scopes) = Len(symbolTable)
         /\ Named(Scope.instructions, LocalsAt(symbolTable, Len(scopes)), symbolTable[1].numDefinitions,
                  FreeAt(symbolTable, Len(scopes)), constants)
         /\ LocalsAt(symbolTable, Len(scopes)) \in Nat /\ FreeAt(symbolTable, Len(scopes)) \in Nat
         /\ symbolTable[1].numDefinitions \in Nat
<1>1. GoodScopes(scopes) /\ Chain(symbolTable) /\ Len(symbolTable) = Len(scopes)
  BY DEF CInv
<1>2. Len(scopes) \in 1..Len(scopes)
  BY <1>1 DEF GoodScopes
<1>3. /\ LocalsAt(symbolTable, Len(scopes)) \in Nat /\ FreeAt(symbolTable, Len(scopes)) \in Nat
      /\ symbolTable[1].numDefinitions \in Nat
  BY <1>1, <1>2, RoomNumbers
<1>. QED BY <1>1, <1>2, <1>3 DEF RoomInv, Coded, Scope, GoodScopes

(* A stretch that only leaves work.                                        *)
LEMMA VisitRooms ==
  ASSUME NEW trees, Grammar(trees), CInv(trees), RoomInv, NEW kinds, At(kinds), NEW items, AllPlain(items),
         OnlyVisits(items)
  PROVE  RoomInv'
<1>1. /\ todo' = items \o Tail(todo) /\ symbolTable' = symbolTable /\ constants' = constants /\ scopes' = scopes
  BY DEF OnlyVisits, Continue
<1>2. todo # <<>> /\ todo[1].do = "visit"
  BY AtNode
<1>3. ~Ending(todo[1])
  BY <1>2 DEF Ending
<1>4. scopes' = Changed(Scope)
  <2>1. GoodScopes(scopes)
    BY DEF CInv
  <2>2. scopes = [k \in 1..Len(scopes) |-> scopes[k]]
    BY <2>1, SequenceIsFunction DEF GoodScopes
  <2>. QED BY <1>1, <2>2 DEF Changed, Scope
<1>. QED BY <1>1, <1>2, <1>3, <1>4, ScopeNamed, QuietRooms

-----------------------------------------------------------------------------
(* The work that the calls leave.                                          *)
LEMMA PlainItems ==
  ASSUME NEW n, NEW p
  PROVE  Plain(Visit(n)) /\ Plain(Then(n)) /\ Plain(Else(n, p)) /\ Plain(Join(n, p)) /\ Plain(Abort)
BY DEF Plain, Ending, Visit, Then, Else, Join, Abort

(* An instruction that names nothing is plain.                             *)
LEMMA PlainEmit ==
  ASSUME NEW op, op \notin Referring, NEW operands
  PROVE  Plain(Emits(op, operands))
<1>1. OpHash \in Referring
  BY DEF Referring
<1>2. Emits(op, operands).do = "emit" /\ Emits(op, operands).op = op
  BY DEF Emits
<1>3. ~Ending(Emits(op, operands))
  BY DEF Emits, Ending
<1>. QED BY <1>1, <1>2, <1>3 DEF Plain

(* The operators are.                                                      *)
LEMMA PlainOperator ==
  ASSUME NEW o
  PROVE  Plain(EmitsOperator(InfixOpcode, o)) /\ Plain(EmitsOperator(PrefixOpcode, o))
<1>. DEFINE Ops == {OpAdd, OpSub, OpMul, OpDiv, OpGreaterThan, OpEqual, OpNotEqual, OpBang, OpMinus}
<1>1. \A op \in Ops : Plain(Emits(op, <<>>))
  <2>1. \A op \in Ops : op \notin Referring
    BY PlainNamesNothing
  <2>. QED BY <2>1, PlainEmit
<1>2. \A x \in DOMAIN InfixOpcode : InfixOpcode[x] \in Ops
  <2>1. DOMAIN InfixOpcode = {"+", "-", "*", "/", ">", "==", "!="}
    BY DEF InfixOpcode
  <2>2. /\ InfixOpcode["+"] = OpAdd /\ InfixOpcode["-"] = OpSub /\ InfixOpcode["*"] = OpMul
        /\ InfixOpcode["/"] = OpDiv /\ InfixOpcode[">"] = OpGreaterThan
        /\ InfixOpcode["=="] = OpEqual /\ InfixOpcode["!="] = OpNotEqual
    BY DEF InfixOpcode
  <2>. QED BY <2>1, <2>2
<1>3. \A x \in DOMAIN PrefixOpcode : PrefixOpcode[x] \in Ops
  BY DEF PrefixOpcode
<1>. HIDE DEF Ops
<1>. QED BY <1>1, <1>2, <1>3, PlainItems DEF EmitsOperator

(* Short lists of plain items.                                             *)
LEMMA PlainFew ==
  ASSUME NEW a, NEW b, NEW c
  PROVE  /\ AllPlain(<<>>)
         /\ Plain(a) => AllPlain(<<a>>)
         /\ Plain(a) /\ Plain(b) => AllPlain(<<a, b>>)
         /\ Plain(a) /\ Plain(b) /\ Plain(c) => AllPlain(<<a, b, c>>)
<1>. DEFINE one == <<a>>  two == <<a, b>>  three == <<a, b, c>>
<1>1. /\ Sequence(<<>>) /\ Len(<<>>) = 0
      /\ Sequence(one) /\ Len(one) = 1 /\ one[1] = a
      /\ Sequence(two) /\ Len(two) = 2 /\ two[1] = a /\ two[2] = b
      /\ Sequence(three) /\ Len(three) = 3 /\ three[1] = a /\ three[2] = b /\ three[3] = c
  BY ONLY Tuples
<1>. HIDE DEF one, two, three
<1>2. /\ \A k \in 1..0 : FALSE
      /\ \A k \in 1..1 : k = 1
      /\ \A k \in 1..2 : k = 1 \/ k = 2
      /\ \A k \in 1..3 : k = 1 \/ k = 2 \/ k = 3
  OBVIOUS
<1>3. AllPlain(<<>>)
  BY <1>1, <1>2 DEF AllPlain
<1>4. Plain(a) => AllPlain(one)
  BY <1>1, <1>2 DEF AllPlain
<1>5. Plain(a) /\ Plain(b) => AllPlain(two)
  BY <1>1, <1>2 DEF AllPlain
<1>6. Plain(a) /\ Plain(b) /\ Plain(c) => AllPlain(three)
  BY <1>1, <1>2 DEF AllPlain
<1>. QED BY <1>3, <1>4, <1>5, <1>6 DEF one, two, three

(* A list of plain items, given as a function.                             *)
LEMMA PlainList ==
  ASSUME NEW v, NEW n \in Nat, v = [k \in 1..n |-> v[k]], \A k \in 1..n : Plain(v[k])
  PROVE  AllPlain(v)
<1>1. Sequence(v) /\ Len(v) = n
  BY FunctionIsSequence
<1>. QED BY <1>1 DEF AllPlain

(* Calls of Compile on a list of nodes are plain.                          *)
LEMMA PlainVisits ==
  ASSUME NEW S, NEW nodes \in Seq(S)
  PROVE  AllPlain(Visits(nodes)) /\ Len(nodes) \in Nat
<1>. DEFINE v == Visits(nodes)
<1>1. Len(nodes) \in Nat /\ DOMAIN nodes = 1..Len(nodes)
  BY LenProperties
<1>2. v = [k \in 1..Len(nodes) |-> Visit(nodes[k])]
  BY <1>1 DEF Visits
<1>. HIDE DEF v
<1>3. v = [k \in 1..Len(nodes) |-> v[k]] /\ \A k \in 1..Len(nodes) : v[k] = Visit(nodes[k])
  BY <1>2
<1>4. \A k \in 1..Len(nodes) : Plain(v[k])
  BY <1>3, PlainItems
<1>5. AllPlain(v)
  BY <1>1, <1>3, <1>4, PlainList
<1>. QED BY <1>1, <1>5 DEF v

(* One plain item behind.                                                  *)
LEMMA PlainOneMore ==
  ASSUME NEW v, AllPlain(v), NEW x, Plain(x)
  PROVE  AllPlain(Append(v, x))
<1>. DEFINE a == Append(v, x)
<1>1. /\ Sequence(a) /\ Len(a) = Len(v) + 1 /\ Len(v) \in Nat
      /\ \A k \in 1..Len(v) : a[k] = v[k]
      /\ a[Len(v) + 1] = x
  BY AppendedTo DEF AllPlain
<1>. HIDE DEF a
<1>2. \A k \in 1..Len(a) : k \in 1..Len(v) \/ k = Len(v) + 1
  BY <1>1
<1>3. \A k \in 1..Len(a) : Plain(a[k])
  BY <1>1, <1>2 DEF AllPlain
<1>. QED BY <1>1, <1>3 DEF AllPlain, a

(* One plain item in front.                                                *)
LEMMA PlainInFront ==
  ASSUME NEW v, AllPlain(v), NEW x, Plain(x)
  PROVE  AllPlain(<<x>> \o v)
<1>1. PICK one : one = <<x>>
  OBVIOUS
<1>2. Sequence(one) /\ Len(one) = 1 /\ one[1] = x /\ Len(one) \in Nat /\ Sequence(v)
  BY <1>1, Tuples DEF AllPlain
<1>3. PICK both : both = one \o v
  OBVIOUS
<1>4. /\ Sequence(both) /\ Len(v) \in Nat /\ DOMAIN both = 1..(Len(one) + Len(v))
      /\ \A k \in 1..Len(one) : both[k] = one[k]
      /\ \A k \in 1..Len(v) : both[Len(one) + k] = v[k]
  <2>1. Sequence(v) /\ Sequence(one) /\ Len(one) \in Nat
    BY <1>2
  <2>2. /\ Sequence(one \o v) /\ Len(v) \in Nat /\ DOMAIN (one \o v) = 1..(Len(one) + Len(v))
        /\ \A k \in 1..Len(one) : (one \o v)[k] = one[k]
        /\ \A k \in 1..Len(v) : (one \o v)[Len(one) + k] = v[k]
    BY ONLY <2>1, Pushed
  <2>. QED BY ONLY <1>3, <2>2
<1>5. Len(both) = 1 + Len(v)
  <2>1. both = [k \in 1..1 + Len(v) |-> both[k]]
    BY <1>2, <1>4, SequenceIsFunction
  <2>. QED BY <1>4, <2>1, FunctionIsSequence
<1>6. ASSUME NEW k \in 1..Len(both) PROVE Plain(both[k])
  <2>1. k = 1 \/ (k - 1 \in 1..Len(v) /\ k = 1 + (k - 1))
    BY <1>4, <1>5
  <2>2. both[1] = x /\ \A j \in 1..Len(v) : both[1 + j] = v[j]
    BY <1>2, <1>4
  <2>. QED BY <2>1, <2>2 DEF AllPlain
<1>. QED BY <1>1, <1>3, <1>4, <1>6 DEF AllPlain

(* The calls that only leave work (compiler.go:64-143, 178-184, 222-266,   *)
(* 305-326).                                                               *)
LEMMA OnlyVisitsRooms ==
  ASSUME NEW trees, Grammar(trees), CInv(trees), RoomInv,
         \/ CompileStatements \/ CompileExpressionStatement \/ CompileReturnStatement
         \/ CompileInfixExpression \/ CompilePrefixExpression \/ CompileIndexExpression
         \/ CompileIfExpression
  PROVE  RoomInv'
<1>1. CASE CompileStatements
  <2>1. At({"Program", "BlockStatement"}) /\ OnlyVisits(Visits(Node.Statements))
    BY <1>1 DEF CompileStatements
  <2>2. Node \in trees /\ Node.kind \in BlockKinds
    BY <2>1, AtNode DEF BlockKinds
  <2>3. Node.Statements \in Seq(Of(trees, StatementKinds))
    BY <2>2 DEF Grammar
  <2>4. AllPlain(Visits(Node.Statements))
    BY <2>3, PlainVisits
  <2>. QED BY <2>1, <2>4, VisitRooms
<1>2. CASE CompileExpressionStatement
  <2>1. At({"ExpressionStatement"}) /\ OnlyVisits(<<Visit(Node.Expr), Emits(OpPop, <<>>)>>)
    BY <1>2 DEF CompileExpressionStatement
  <2>2. Plain(Emits(OpPop, <<>>))
    BY PlainNamesNothing, PlainEmit
  <2>3. AllPlain(<<Visit(Node.Expr), Emits(OpPop, <<>>)>>)
    BY <2>2, PlainItems, PlainFew
  <2>. QED BY <2>1, <2>3, VisitRooms
<1>3. CASE CompileReturnStatement
  <2>1. At({"ReturnStatement"}) /\ OnlyVisits(<<Visit(Node.Expr), Emits(OpReturnValue, <<>>)>>)
    BY <1>3 DEF CompileReturnStatement
  <2>2. Plain(Emits(OpReturnValue, <<>>))
    BY PlainNamesNothing, PlainEmit
  <2>3. AllPlain(<<Visit(Node.Expr), Emits(OpReturnValue, <<>>)>>)
    BY <2>2, PlainItems, PlainFew
  <2>. QED BY <2>1, <2>3, VisitRooms
<1>4. CASE CompileInfixExpression
  <2>. DEFINE l == Visit(Node.Left)
              r == Visit(Node.Right)
              g == Emits(OpGreaterThan, <<>>)
              o == EmitsOperator(InfixOpcode, Node.Operator)
              items == IF Node.Operator = "<" THEN <<r, l, g>> ELSE <<l, r, o>>
  <2>1. At({"InfixExpression"}) /\ OnlyVisits(items)
    BY <1>4 DEF CompileInfixExpression
  <2>2. Plain(g) /\ Plain(l) /\ Plain(r) /\ Plain(o)
    BY PlainNamesNothing, PlainEmit, PlainItems, PlainOperator
  <2>. HIDE DEF l, r, g, o
  <2>3. AllPlain(items)
    BY <2>2, PlainFew
  <2>. HIDE DEF items
  <2>. QED BY <2>1, <2>3, VisitRooms
<1>5. CASE CompilePrefixExpression
  <2>1. At({"PrefixExpression"}) /\ OnlyVisits(<<Visit(Node.Right), EmitsOperator(PrefixOpcode, Node.Operator)>>)
    BY <1>5 DEF CompilePrefixExpression
  <2>2. AllPlain(<<Visit(Node.Right), EmitsOperator(PrefixOpcode, Node.Operator)>>)
    BY PlainOperator, PlainItems, PlainFew
  <2>. QED BY <2>1, <2>2, VisitRooms
<1>6. CASE CompileIndexExpression
  <2>1. At({"IndexExpression"}) /\ OnlyVisits(<<Visit(Node.Left), Visit(Node.Index), Emits(OpIndex, <<>>)>>)
    BY <1>6 DEF CompileIndexExpression
  <2>2. Plain(Emits(OpIndex, <<>>))
    BY PlainNamesNothing, PlainEmit
  <2>3. AllPlain(<<Visit(Node.Left), Visit(Node.Index), Emits(OpIndex, <<>>)>>)
    BY <2>2, PlainItems, PlainFew
  <2>. QED BY <2>1, <2>3, VisitRooms
<1>7. CASE CompileIfExpression
  <2>1. At({"IfExpression"}) /\ OnlyVisits(<<Visit(Node.Condition), Then(Node)>>)
    BY <1>7 DEF CompileIfExpression
  <2>2. AllPlain(<<Visit(Node.Condition), Then(Node)>>)
    BY PlainItems, PlainFew
  <2>. QED BY <2>1, <2>2, VisitRooms
<1>. QED BY <1>1, <1>2, <1>3, <1>4, <1>5, <1>6, <1>7

(* The literals and calls with a list of parts: their last operand counts  *)
(* them, and a hash counts twice its pairs.                                *)
LEMMA ListRooms ==
  ASSUME NEW trees, Grammar(trees), CInv(trees), RoomInv,
         CompileArrayLiteral \/ CompileCallExpression \/ CompileHashLiteral
  PROVE  RoomInv'
<1>1. CASE CompileArrayLiteral
  <2>. DEFINE v == Visits(Node.Elements)
              x == Emits(OpArray, <<Len(Node.Elements)>>)
  <2>1. At({"ArrayLiteral"}) /\ OnlyVisits(Append(v, x))
    BY <1>1 DEF CompileArrayLiteral
  <2>2. Node \in trees /\ Node.kind = "ArrayLiteral"
    BY <2>1, AtNode
  <2>3. Node.Elements \in Seq(Of(trees, ExpressionKinds))
    BY <2>2 DEF Grammar
  <2>4. AllPlain(v) /\ Plain(x)
    BY <2>3, PlainVisits, PlainNamesNothing, PlainEmit
  <2>. HIDE DEF v, x
  <2>5. AllPlain(Append(v, x))
    BY <2>4, PlainOneMore
  <2>. QED BY <2>1, <2>5, VisitRooms
<1>2. CASE CompileCallExpression
  <2>. DEFINE f == Visit(Node.Function)
              v == Visits(Node.Arguments)
              x == Emits(OpCall, <<Len(Node.Arguments)>>)
  <2>1. At({"CallExpression"}) /\ OnlyVisits(Append(<<f>> \o v, x))
    BY <1>2 DEF CompileCallExpression
  <2>2. Node \in trees /\ Node.kind = "CallExpression"
    BY <2>1, AtNode
  <2>3. Node.Arguments \in Seq(Of(trees, ExpressionKinds))
    BY <2>2 DEF Grammar
  <2>4. Plain(f) /\ AllPlain(v) /\ Plain(x)
    BY <2>3, PlainItems, PlainVisits, PlainNamesNothing, PlainEmit
  <2>. HIDE DEF f, v, x
  <2>5. AllPlain(<<f>> \o v)
    BY <2>4, PlainInFront
  <2>6. AllPlain(Append(<<f>> \o v, x))
    BY <2>4, <2>5, PlainOneMore
  <2>. QED BY <2>1, <2>6, VisitRooms
<1>3. CASE CompileHashLiteral
  <2>. DEFINE n == Len(Node.Pairs)
              E == Of(trees, ExpressionKinds)
              x == Emits(OpHash, <<n * 2>>)
  <2>1. At({"HashLiteral"})
    BY <1>3 DEF CompileHashLiteral
  <2>2. Node \in trees /\ Node.kind = "HashLiteral"
    BY <2>1, AtNode
  <2>3. Node.Pairs \in Seq(E \X E)
    BY <2>2 DEF Grammar
  <2>4. n \in Nat
    BY <2>3, LenProperties
  <2>5. PICK keys \in [1..n -> 1..n] :
          OnlyVisits(Append([k \in 1..n * 2 |->
                               Visit(Node.Pairs[keys[(k + 1) \div 2]][2 - (k % 2)])], x))
    BY <1>3 DEF CompileHashLiteral
  <2>. DEFINE v == [k \in 1..n * 2 |-> Visit(Node.Pairs[keys[(k + 1) \div 2]][2 - (k % 2)])]
  <2>6. Plain(x)
    <3>1. x.do = "emit" /\ x.op = OpHash /\ x.operands[1] = n * 2
      BY DEF Emits
    <3>2. (n * 2) % 2 = 0
      <4>1. \A i \in Nat : (i * 2) % 2 = 0
        OBVIOUS
      <4>. QED BY ONLY <2>4, <4>1
    <3>3. ~Ending(x)
      BY DEF Emits, Ending
    <3>. QED BY <3>1, <3>2, <3>3 DEF Plain
  <2>7. n * 2 \in Nat /\ v = [k \in 1..n * 2 |-> v[k]]
    BY <2>4
  <2>8. \A k \in 1..n * 2 : Plain(v[k])
    BY PlainItems
  <2>9. OnlyVisits(Append(v, x))
    BY <2>5
  <2>. HIDE DEF v, x
  <2>10. AllPlain(v)
    BY <2>7, <2>8, PlainList
  <2>11. AllPlain(Append(v, x))
    BY <2>6, <2>10, PlainOneMore
  <2>. QED BY <2>1, <2>9, <2>11, VisitRooms
<1>. QED BY <1>1, <1>2, <1>3

(* changeOperand writes a jump again.                                      *)
LEMMA ChangeOperandNamed ==
  ASSUME NEW s, GoodScope(s), NoPop(s), NEW pos \in Starts(s.instructions),
         s.instructions[pos + 1] \in {OpJump, OpJumpNotTruthy}, NEW operand \in Nat,
         NEW L, NEW G, NEW F, NEW pool, Named(s.instructions, L, G, F, pool)
  PROVE  Named(ChangeOperand(s, pos, operand).instructions, L, G, F, pool)
<1>1. Patched(s.instructions, ChangeOperand(s, pos, operand).instructions, pos, operand)
  BY ChangeOperandGood
<1>2. Whole(s.instructions) /\ s.instructions[pos + 1] \in JumpOps
  BY GoodScopeWhole DEF JumpOps
<1>. QED BY <1>1, <1>2, NamedPatched

(* A jump whose target is not known yet names nothing.                     *)
LEMMA BogusNamed ==
  ASSUME NEW s, GoodScope(s), NEW op \in JumpOps, NEW L \in Nat, NEW G \in Nat, NEW F \in Nat, NEW pool,
         Named(s.instructions, L, G, F, pool)
  PROVE  Named(Emit(s, op, <<Bogus>>).instructions, L, G, F, pool)
<1>1. op \in Opcodes /\ <<Bogus>> \in [1..Len(OperandWidths(op)) -> Nat] /\ op # OpPop
  BY OneOperand DEF Wide, Bogus, JumpOps
<1>2. op \notin Referring
  BY PlainNamesNothing DEF JumpOps
<1>. QED BY <1>1, <1>2, FitsPlain, EmitNamed

(* The three stretches of an if (compiler.go:145-175).                     *)
LEMMA ConsequenceRooms ==
  ASSUME NEW trees, Grammar(trees), CInv(trees), RoomInv, CompileConsequence
  PROVE  RoomInv'
<1>. DEFINE t == Emit(Scope, OpJumpNotTruthy, <<Bogus>>)
            a == Visit(Node.Consequence)
            b == Else(Node, Len(Scope.instructions))
<1>1. /\ Doing("then") /\ scopes' = Changed(t) /\ todo' = <<a, b>> \o Tail(todo)
      /\ constants' = constants /\ symbolTable' = symbolTable
  BY DEF CompileConsequence, Continue
<1>2. todo # <<>> /\ todo[1].do = "then" /\ GoodScope(Scope)
  BY <1>1, AtHead DEF Doing
<1>3. ~Ending(todo[1])
  BY <1>2 DEF Ending
<1>4. OpJumpNotTruthy \in Opcodes /\ <<Bogus>> \in [1..Len(OperandWidths(OpJumpNotTruthy)) -> Nat] /\ OpJumpNotTruthy # OpPop /\ OpJumpNotTruthy # OpReturn
  BY OneOperand DEF Wide, Bogus
<1>5. GoodScope(t)
  BY <1>2, <1>4, EmitGood
<1>6. Named(t.instructions, LocalsAt(symbolTable, Len(scopes)), symbolTable[1].numDefinitions,
            FreeAt(symbolTable, Len(scopes)), constants)
  BY ScopeNamed, BogusNamed DEF JumpOps
<1>7. AllPlain(<<a, b>>)
  BY PlainItems, PlainFew
<1>. HIDE DEF t, a, b
<1>. QED BY <1>1, <1>2, <1>3, <1>5, <1>6, <1>7, QuietRooms

(* The jump over the alternative, and the operand of the conditional jump  *)
(* (compiler.go:151-159).                                                  *)
LEMMA AlternativeRooms ==
  ASSUME NEW trees, Grammar(trees), CInv(trees), RoomInv, CompileAlternative
  PROVE  RoomInv'
<1>. DEFINE pos   == Head(todo).pos
            value == KeepValue(Scope)
            jump  == Emit(value, OpJump, <<Bogus>>)
            size  == Len(jump.instructions)
            t     == ChangeOperand(jump, pos, size)
            a     == IF Node.Alternative.kind = "nil" THEN Emits(OpNull, <<>>)
                                                      ELSE Visit(Node.Alternative)
            b     == Join(Node, Len(value.instructions))
            N(s)  == Named(s.instructions, LocalsAt(symbolTable, Len(scopes)), symbolTable[1].numDefinitions,
                           FreeAt(symbolTable, Len(scopes)), constants)
<1>1. /\ Doing("else") /\ scopes' = Changed(t) /\ todo' = <<a, b>> \o Tail(todo)
      /\ constants' = constants /\ symbolTable' = symbolTable
  BY DEF CompileAlternative, Continue
<1>2. /\ todo # <<>> /\ todo[1] = Head(todo) /\ todo[1].do = "else"
      /\ GoodScope(Scope) /\ Placed(todo[1], Scope)
  BY <1>1, AtHead DEF Doing
<1>3. ~Ending(todo[1])
  BY <1>2 DEF Ending
<1>4. /\ OpJump \in Opcodes /\ <<Bogus>> \in [1..Len(OperandWidths(OpJump)) -> Nat] /\ OpJump # OpPop /\ OpJump # OpReturn
  BY OneOperand DEF Wide, Bogus
<1>5. GoodScope(value) /\ CodeKept(Scope, value) /\ NoPop(value) /\ N(value)
  BY <1>2, KeepValueGood, ScopeNamed, KeepValueNamed
<1>6. AllPlain(<<a, b>>)
  <2>1. Plain(Emits(OpNull, <<>>))
    BY PlainNamesNothing, PlainEmit
  <2>2. Plain(a) /\ Plain(b)
    BY <2>1, PlainItems
  <2>. QED BY <2>2, PlainFew
<1>. HIDE DEF value, a, b
<1>7. GoodScope(jump) /\ CodeKept(value, jump) /\ NoPop(jump)
  BY <1>4, <1>5, EmitGood
<1>8. N(jump)
  BY <1>5, ScopeNamed, BogusNamed DEF JumpOps
<1>. HIDE DEF jump
<1>9. size \in Nat
  BY <1>7, LenProperties DEF GoodScope, Formed
<1>10. pos \in Starts(jump.instructions) /\ jump.instructions[pos + 1] \in {OpJump, OpJumpNotTruthy}
  <2>1. Placed(todo[1], jump)
    BY <1>2, <1>5, <1>7, PlacedKept
  <2>. QED BY <1>2, <2>1 DEF Placed
<1>. HIDE DEF size, pos
<1>11. GoodScope(t)
  BY <1>7, <1>9, <1>10, ChangeOperandGood
<1>12. N(t)
  BY <1>7, <1>8, <1>9, <1>10, ChangeOperandNamed
<1>. HIDE DEF t
<1>. QED BY <1>1, <1>2, <1>3, <1>6, <1>11, <1>12, QuietRooms

(* The operand of the jump over the alternative (compiler.go:161-175).     *)
LEMMA EndIfRooms ==
  ASSUME NEW trees, Grammar(trees), CInv(trees), RoomInv, EndIfExpression
  PROVE  RoomInv'
<1>. DEFINE pos   == Head(todo).pos
            value == IF Node.Alternative.kind = "nil" THEN Scope ELSE KeepValue(Scope)
            L     == Len(value.instructions)
            t     == ChangeOperand(value, pos, L)
            N(s)  == Named(s.instructions, LocalsAt(symbolTable, Len(scopes)), symbolTable[1].numDefinitions,
                           FreeAt(symbolTable, Len(scopes)), constants)
<1>1. /\ Doing("join") /\ scopes' = Changed(t) /\ todo' = <<>> \o Tail(todo)
      /\ constants' = constants /\ symbolTable' = symbolTable
  BY DEF EndIfExpression, Continue
<1>2. /\ todo # <<>> /\ todo[1] = Head(todo) /\ todo[1].do = "join"
      /\ GoodScope(Scope) /\ Placed(todo[1], Scope) /\ (Demands(todo[1]) => NoPop(Scope))
  BY <1>1, AtHead DEF Doing
<1>3. ~Ending(todo[1])
  BY <1>2 DEF Ending
<1>4. GoodScope(value) /\ CodeKept(Scope, value) /\ NoPop(value) /\ N(value)
  <2>1. CASE Node.Alternative.kind = "nil"
    BY <1>2, <2>1, ScopeNamed DEF Demands, Node, CodeKept
  <2>2. CASE Node.Alternative.kind # "nil"
    BY <1>2, <2>2, KeepValueGood, ScopeNamed, KeepValueNamed
  <2>. QED BY <2>1, <2>2
<1>. HIDE DEF value
<1>5. L \in Nat
  BY <1>4, LenProperties DEF GoodScope, Formed
<1>6. pos \in Starts(value.instructions) /\ value.instructions[pos + 1] \in {OpJump, OpJumpNotTruthy}
  <2>1. Placed(todo[1], value)
    BY <1>2, <1>4, PlacedKept
  <2>. QED BY <1>2, <2>1 DEF Placed
<1>. HIDE DEF L, pos
<1>7. GoodScope(t)
  BY <1>4, <1>5, <1>6, ChangeOperandGood
<1>8. N(t)
  BY <1>4, <1>5, <1>6, ChangeOperandNamed
<1>9. AllPlain(<<>>)
  BY PlainFew
<1>. HIDE DEF t
<1>. QED BY <1>1, <1>2, <1>3, <1>7, <1>8, <1>9, QuietRooms

(* The item that comes next is due.                                        *)
LEMMA HeadDue ==
  ASSUME NEW trees, CInv(trees), RoomInv, todo # <<>>
  PROVE  Due(todo[1], Len(scopes), symbolTable) /\ (Ending(todo[1]) => Len(scopes) > 1)
<1>1. 1 \in 1..Len(todo) /\ 1 + 1 = 2 /\ 2 \in 1..Len(todo) + 1
  <2>1. Sequence(todo)
    BY TodoItems
  <2>2. Len(todo) \in Nat \ {0}
    BY ONLY <2>1, todo # <<>>, TailOf
  <2>. QED BY ONLY <2>2
<1>2. PICK d : Depth(todo, Len(scopes), d) /\ \A k \in 1..Len(todo) : Due(todo[k], d[k], symbolTable)
  BY DEF RoomInv, Pending
<1>3. d[1] = Len(scopes) /\ d[2] = Below(todo[1], Len(scopes)) /\ d[2] \in 1..Len(scopes)
  BY <1>1, <1>2 DEF Depth
<1>4. Len(scopes) \in Nat
  BY AtHead
<1>5. Ending(todo[1]) => Len(scopes) > 1
  <2>1. Ending(todo[1]) => d[2] = Len(scopes) - 1
    BY <1>3, BelowOne
  <2>. QED BY <1>3, <1>4, <2>1
<1>. QED BY <1>1, <1>2, <1>3, <1>5

(* What a call emits behind the calls it made, and the booleans.           *)
LEMMA EmitRooms ==
  ASSUME NEW trees, Grammar(trees), CInv(trees), RoomInv, EmitAfter \/ CompileBoolean
  PROVE  RoomInv'
<1>. DEFINE L == LocalsAt(symbolTable, Len(scopes))  G == symbolTable[1].numDefinitions
            F == FreeAt(symbolTable, Len(scopes))
<1>1. PICK op, operands :
        /\ EmitAction(op, operands) /\ constants' = constants /\ todo # <<>> /\ ~Ending(todo[1])
        /\ op \in Opcodes /\ operands \in [1..Len(OperandWidths(op)) -> Nat] /\ (op = OpPop => NoPop(Scope))
        /\ op # OpReturn /\ Fits(op, operands, L, G, F, constants)
  <2>1. CASE EmitAfter
    <3>. DEFINE it == todo[1]
    <3>1. Doing("emit") /\ constants' = constants /\ EmitAction(Head(todo).op, Head(todo).operands)
      BY <2>1 DEF EmitAfter
    <3>2. /\ todo # <<>> /\ it = Head(todo) /\ it.do = "emit" /\ Item(trees, it)
          /\ (Demands(it) => NoPop(Scope))
      BY <3>1, AtHead DEF Doing
    <3>3. /\ it.op \in Opcodes /\ it.operands \in [1..Len(OperandWidths(it.op)) -> Nat] /\ ~Ending(it)
          /\ it.op # OpReturn
      BY <3>2 DEF Item, Ending
    <3>4. it.op = OpPop => NoPop(Scope)
      BY <3>2 DEF Demands
    <3>5. Due(it, Len(scopes), symbolTable)
      BY <3>2, HeadDue
    <3>6. Fits(it.op, it.operands, L, G, F, constants)
      BY <3>2, <3>5 DEF Due, Fits
    <3>7. EmitAction(it.op, it.operands)
      BY <3>1, <3>2
    <3>. QED BY <3>1, <3>2, <3>3, <3>4, <3>6, <3>7
  <2>2. CASE CompileBoolean
    <3>. DEFINE op == IF Node.Bool THEN OpTrue ELSE OpFalse
    <3>1. At({"Boolean"}) /\ constants' = constants /\ EmitAction(op, <<>>)
      BY <2>2 DEF CompileBoolean
    <3>2. op \in {OpTrue, OpFalse}
      OBVIOUS
    <3>. HIDE DEF op
    <3>3. op \in Opcodes /\ op # OpPop /\ op # OpReturn /\ <<>> \in [1..Len(OperandWidths(op)) -> Nat]
      BY <3>2, PlainOpcodes
    <3>4. op \notin Referring
      BY <3>2, PlainNamesNothing
    <3>5. Fits(op, <<>>, L, G, F, constants)
      BY <3>4, FitsPlain
    <3>6. todo # <<>> /\ todo[1].do = "visit"
      BY <3>1, AtNode
    <3>7. ~Ending(todo[1])
      BY <3>6 DEF Ending
    <3>. QED BY <3>1, <3>3, <3>5, <3>6, <3>7
  <2>. QED BY <2>1, <2>2
<1>. DEFINE t == Emit(Scope, op, operands)
<1>2. scopes' = Changed(t) /\ todo' = <<>> \o Tail(todo) /\ symbolTable' = symbolTable
  BY <1>1 DEF EmitAction, Continue
<1>3. GoodScope(t)
  BY <1>1, ScopeNamed, EmitGood
<1>4. Named(t.instructions, L, G, F, constants)
  BY <1>1, ScopeNamed, EmitNamed
<1>5. AllPlain(<<>>)
  BY PlainFew
<1>. HIDE DEF t
<1>. QED BY <1>1, <1>2, <1>3, <1>4, <1>5, QuietRooms

(* No work is due in no time.                                              *)
LEMMA NoneDue ==
  ASSUME NEW n, NEW c
  PROVE  Sequence(<<>>) /\ \A k \in 1..Len(<<>>) : ~Ending(<<>>[k]) /\ Due(<<>>[k], n, c)
<1>1. Sequence(<<>>) /\ Len(<<>>) = 0
  BY Tuples
<1>2. \A k \in 1..0 : FALSE
  OBVIOUS
<1>. QED BY <1>1, <1>2

(* Wider tables serve the functions of the pool.                           *)
LEMMA FurnishedWider ==
  ASSUME NEW c, Chain(c), NEW c2, Chain(c2), Len(c2) = Len(c), Wider(c, c2, Len(c)),
         NEW pool, Pool(pool), Furnished(pool, c[1].numDefinitions)
  PROVE  Furnished(pool, c2[1].numDefinitions)
<1>1. 1 \in 1..Len(c) /\ 1 \in 1..Len(c2)
  BY DEF Chain
<1>2. /\ c[1].numDefinitions \in Nat /\ c2[1].numDefinitions \in Nat
      /\ c[1].numDefinitions <= c2[1].numDefinitions
  BY <1>1, RoomNumbers DEF Wider
<1>3. Extends(pool, pool)
  BY AsBefore
<1>4. PICK g, g2 : g = c[1].numDefinitions /\ g2 = c2[1].numDefinitions
  OBVIOUS
<1>5. g \in Nat /\ g2 \in Nat /\ g <= g2 /\ Pool(pool) /\ Extends(pool, pool) /\ Furnished(pool, g)
  BY <1>2, <1>3, <1>4
<1>6. \A k \in 1..Len(pool) : Furnishes(pool[k], g2, pool)
  BY ONLY <1>5, FurnishedMore
<1>. QED BY <1>4, <1>6 DEF Furnished

(* And the code of the innermost function.                                 *)
LEMMA ScopeWider ==
  ASSUME NEW trees, CInv(trees), RoomInv, NEW c2, Chain(c2), Len(c2) = Len(symbolTable),
         Wider(symbolTable, c2, Len(symbolTable)), NEW pool2, Extends(constants, pool2)
  PROVE  /\ Named(Scope.instructions, LocalsAt(c2, Len(scopes)), c2[1].numDefinitions,
                  FreeAt(c2, Len(scopes)), pool2)
         /\ LocalsAt(c2, Len(scopes)) \in Nat /\ FreeAt(c2, Len(scopes)) \in Nat /\ c2[1].numDefinitions \in Nat
<1>1. PICK n : n = Len(scopes)
  OBVIOUS
<1>2. /\ GoodScope(Scope) /\ n \in 1..n /\ n = Len(symbolTable) /\ Chain(symbolTable) /\ n \in Nat
      /\ Named(Scope.instructions, LocalsAt(symbolTable, n), symbolTable[1].numDefinitions,
               FreeAt(symbolTable, n), constants)
  BY <1>1, ScopeNamed DEF CInv, GoodScopes
<1>3. n <= Len(symbolTable) /\ n <= Len(c2) /\ Wider(symbolTable, c2, n) /\ n \in 1..Len(c2)
  BY <1>2
<1>4. Named(Scope.instructions, LocalsAt(c2, n), c2[1].numDefinitions, FreeAt(c2, n), pool2)
  BY <1>2, <1>3, CodeMore
<1>5. LocalsAt(c2, n) \in Nat /\ FreeAt(c2, n) \in Nat /\ c2[1].numDefinitions \in Nat
  BY <1>3, RoomNumbers
<1>. QED BY <1>1, <1>4, <1>5

(* Nothing is emitted.                                                     *)
LEMMA SameScope ==
  ASSUME NEW trees, CInv(trees), scopes' = scopes
  PROVE  scopes' = Changed(Scope)
<1>1. GoodScopes(scopes)
  BY DEF CInv
<1>2. scopes = [k \in 1..Len(scopes) |-> scopes[k]]
  BY <1>1, SequenceIsFunction DEF GoodScopes
<1>. QED BY <1>2 DEF Changed, Scope

(* LetStatement: the slot is there before the value is compiled            *)
(* (compiler.go:186-197).                                                  *)
LEMMA LetRooms ==
  ASSUME NEW trees, Grammar(trees), CInv(trees), RoomInv, CompileLetStatement
  PROVE  RoomInv'
<1>. DEFINE s == Symbols!DefinedSymbol(symbolTable, Node.Name)
            op == IF s.Scope = Symbols!GlobalScope THEN OpSetGlobal ELSE OpSetLocal
            a == Visit(Node.Expr)
            b == Emits(op, <<s.Index>>)
            n == Len(scopes)
<1>1. PICK c2 : c2 = Symbols!Define(symbolTable, Node.Name)
  OBVIOUS
<1>2. /\ At({"LetStatement"}) /\ todo' = <<a, b>> \o Tail(todo) /\ symbolTable' = c2
      /\ constants' = constants /\ scopes' = scopes
  BY <1>1 DEF CompileLetStatement, Continue
<1>3. /\ Chain(symbolTable) /\ Rooms(symbolTable) /\ Pool(constants) /\ Len(symbolTable) = n
      /\ Furnished(constants, symbolTable[1].numDefinitions)
  BY DEF CInv, RoomInv
<1>4. Chain(c2) /\ Len(c2) = n
  BY <1>1, <1>3, DefineChain
<1>5. Rooms(c2) /\ Wider(symbolTable, c2, n) /\ SlotAt(c2, n, s)
  BY <1>1, <1>3, DefineRooms
<1>6. Extends(constants, constants) /\ Furnished(constants, c2[1].numDefinitions)
  BY <1>3, <1>4, <1>5, AsBefore, FurnishedWider
<1>7. todo # <<>> /\ todo[1].do = "visit"
  BY <1>2, AtNode
<1>8. ~Ending(todo[1])
  BY <1>7 DEF Ending
<1>9. s.Scope \in {Symbols!GlobalScope, Symbols!LocalScope}
  BY <1>3, DefinedKnown
<1>. HIDE DEF s
<1>10. Due(b, n, c2) /\ ~Ending(b)
  <2>1. b.do = "emit" /\ b.op = op /\ b.operands[1] = s.Index
    BY DEF Emits
  <2>2. ~Ending(b)
    BY DEF Emits, Ending
  <2>3. \/ op = OpSetGlobal /\ s.Index < c2[1].numDefinitions
        \/ op = OpSetLocal /\ s.Index < LocalsAt(c2, n)
    BY <1>5, <1>9 DEF SlotAt, Slot
  <2>. HIDE DEF b, op
  <2>. QED BY <2>1, <2>2, <2>3 DEF Due, OpHash, OpGetLocal, OpGetGlobal, OpGetFree, OpGetBuiltin, OpConstant, OpClosure, OpSetLocal, OpSetGlobal
<1>11. Due(a, n, c2) /\ ~Ending(a)
  BY PlainItems, PlainDue DEF Plain
<1>. HIDE DEF a, b
<1>12. PICK items : items = <<a, b>>
  OBVIOUS
<1>13. Sequence(items) /\ Len(items) = 2 /\ items[1] = a /\ items[2] = b
  BY <1>12, Tuples
<1>14. \A k \in 1..Len(items) : ~Ending(items[k]) /\ Due(items[k], n, c2)
  <2>1. \A k \in 1..Len(items) : k = 1 \/ k = 2
    BY ONLY <1>13
  <2>. QED BY <1>10, <1>11, <1>13, <2>1
<1>15. /\ GoodScope(Scope)
       /\ Named(Scope.instructions, LocalsAt(c2, n), c2[1].numDefinitions, FreeAt(c2, n), constants)
  BY <1>3, <1>4, <1>5, <1>6, ScopeNamed, ScopeWider
<1>16. scopes' = Changed(Scope) /\ todo' = items \o Tail(todo)
  BY <1>2, <1>12, SameScope
<1>17. Len(c2) = Len(symbolTable) /\ Wider(symbolTable, c2, Len(symbolTable))
  BY <1>3, <1>4, <1>5
<1>. QED BY <1>2, <1>4, <1>5, <1>6, <1>7, <1>8, <1>13, <1>14, <1>15, <1>16, <1>17, StretchRooms

(* Identifier: what the name stands for has a slot in this function, once  *)
(* Resolve has captured it (compiler.go:199-205).                          *)
LEMMA IdentifierRooms ==
  ASSUME NEW trees, Grammar(trees), CInv(trees), RoomInv, CompileIdentifier
  PROVE  RoomInv'
<1>. DEFINE n == Len(scopes)
            s == Symbols!Resolved(symbolTable, Node.Name)
            t == LoadSymbol(Scope, s)
<1>1. At({"Identifier"}) /\ constants' = constants
  BY DEF CompileIdentifier
<1>2. todo # <<>> /\ todo[1].do = "visit"
  BY <1>1, AtNode
<1>3. ~Ending(todo[1])
  BY <1>2 DEF Ending
<1>4. CASE ~Symbols!Resolvable(symbolTable, Node.Name)
  <2>1. OnlyVisits(<<Abort>>)
    BY <1>4 DEF CompileIdentifier, OnlyVisits
  <2>2. AllPlain(<<Abort>>)
    BY PlainItems, PlainFew
  <2>. QED BY <1>1, <2>1, <2>2, VisitRooms
<1>5. CASE Symbols!Resolvable(symbolTable, Node.Name)
  <2>1. PICK c2 : c2 = Symbols!Resolve(symbolTable, Node.Name)
    OBVIOUS
  <2>2. scopes' = Changed(t) /\ symbolTable' = c2 /\ todo' = <<>> \o Tail(todo)
    BY <1>5, <2>1 DEF CompileIdentifier, Continue
  <2>3. /\ Chain(symbolTable) /\ Rooms(symbolTable) /\ Pool(constants) /\ Len(symbolTable) = n
        /\ Furnished(constants, symbolTable[1].numDefinitions)
    BY DEF CInv, RoomInv
  <2>4. Chain(c2) /\ Len(c2) = n /\ Known(s)
    BY <1>5, <2>1, <2>3, ResolveChain
  <2>5. Rooms(c2) /\ Wider(symbolTable, c2, n) /\ SlotAt(c2, n, s)
    BY <1>5, <2>1, <2>3, ResolveRooms
  <2>6. Extends(constants, constants) /\ Furnished(constants, c2[1].numDefinitions)
    BY <2>3, <2>4, <2>5, AsBefore, FurnishedWider
  <2>7. Len(c2) = Len(symbolTable) /\ Wider(symbolTable, c2, Len(symbolTable))
    BY <2>3, <2>4, <2>5
  <2>. HIDE DEF s
  <2>8. PICK l, g, f : l = LocalsAt(c2, n) /\ g = c2[1].numDefinitions /\ f = FreeAt(c2, n)
    OBVIOUS
  <2>9. /\ GoodScope(Scope) /\ Named(Scope.instructions, l, g, f, constants)
        /\ l \in Nat /\ g \in Nat /\ f \in Nat
    BY <2>4, <2>6, <2>7, <2>8, ScopeNamed, ScopeWider
  <2>10. GoodScope(t) /\ Named(t.instructions, l, g, f, constants)
    <3>1. Slot(s, l, g, f)
      BY <2>5, <2>8 DEF SlotAt
    <3>. QED BY <2>4, <2>9, <3>1, LoadSymbolGood, LoadSymbolNamed
  <2>11. Sequence(<<>>) /\ \A k \in 1..Len(<<>>) : ~Ending(<<>>[k]) /\ Due(<<>>[k], n, c2)
    BY NoneDue
  <2>. HIDE DEF t
  <2>. QED BY <1>1, <1>2, <1>3, <2>2, <2>4, <2>5, <2>6, <2>7, <2>8, <2>10, <2>11, StretchRooms
<1>. QED BY <1>4, <1>5

(* What stays within the sizes that the operands can name: constants in    *)
(* two bytes, captured values in one.                                      *)
SizesFit ==
  /\ Len(constants) <= ByteSize * ByteSize
  /\ \A k \in 1..Len(symbolTable) : Len(symbolTable[k].FreeSymbols) < ByteSize

(* addConstant: the pool is one longer.                                    *)
LEMMA OneMoreConstant ==
  ASSUME NEW pool, Pool(pool), NEW x, NEW G \in Nat, Furnished(pool, G)
  PROVE  LET pool2 == Append(pool, x)
         IN  /\ Extends(pool, pool2) /\ Len(pool2) = Len(pool) + 1 /\ pool2[Len(pool) + 1] = x
             /\ Furnishes(x, G, pool2) => Furnished(pool2, G)
<1>1. PICK pool2 : pool2 = Append(pool, x)
  OBVIOUS
<1>2. /\ Len(pool2) = Len(pool) + 1 /\ Len(pool) \in Nat /\ \A k \in 1..Len(pool) : pool2[k] = pool[k]
      /\ pool2[Len(pool) + 1] = x
  BY <1>1, AppendedTo DEF Pool
<1>3. Extends(pool, pool2)
  BY <1>2 DEF Extends
<1>4. \A k \in 1..Len(pool) : Furnishes(pool2[k], G, pool2)
  <2>1. G <= G
    OBVIOUS
  <2>. QED BY <1>3, <2>1, FurnishedMore
<1>5. \A k \in 1..Len(pool2) : k \in 1..Len(pool) \/ k = Len(pool) + 1
  BY <1>2
<1>6. Furnishes(x, G, pool2) => Furnished(pool2, G)
  BY <1>2, <1>4, <1>5 DEF Furnished
<1>. QED BY <1>1, <1>2, <1>3, <1>6

(* IntegerLiteral and StringLiteral (compiler.go:207-213).                 *)
LEMMA LiteralRooms ==
  ASSUME NEW trees, Grammar(trees), CInv(trees), RoomInv, CompileLiteral, SizesFit'
  PROVE  RoomInv'
<1>. DEFINE n == Len(scopes)  m == Len(constants)
            t == Emit(Scope, OpConstant, <<m>>)
<1>1. PICK x, pool2 : x = Constant /\ pool2 = Append(constants, x)
  OBVIOUS
<1>2. /\ At({"IntegerLiteral", "StringLiteral"}) /\ constants' = pool2 /\ symbolTable' = symbolTable
      /\ scopes' = Changed(t) /\ todo' = <<>> \o Tail(todo)
  BY <1>1 DEF CompileLiteral, EmitAction, Continue
<1>3. todo # <<>> /\ todo[1].do = "visit"
  BY <1>2, AtNode
<1>4. ~Ending(todo[1])
  BY <1>3 DEF Ending
<1>5. x.type # COMPILED_FUNCTION_OBJ
  BY <1>1 DEF Constant, Integer, String, INTEGER_OBJ, STRING_OBJ, COMPILED_FUNCTION_OBJ
<1>6. /\ Chain(symbolTable) /\ Rooms(symbolTable) /\ Pool(constants) /\ Len(symbolTable) = n
      /\ Furnished(constants, symbolTable[1].numDefinitions) /\ symbolTable[1].numDefinitions \in Nat
  BY ScopeNamed DEF CInv, RoomInv
<1>7. /\ Extends(constants, pool2) /\ Len(pool2) = m + 1 /\ pool2[m + 1] = x /\ m \in Nat
      /\ Furnished(pool2, symbolTable[1].numDefinitions)
  <2>1. Furnishes(x, symbolTable[1].numDefinitions, pool2)
    BY <1>5 DEF Furnishes
  <2>2. m \in Nat
    BY <1>6, SequenceIsFunction DEF Pool
  <2>. QED BY <1>1, <1>6, <2>1, <2>2, OneMoreConstant
<1>8. Wider(symbolTable, symbolTable, Len(symbolTable))
  BY <1>6, AsBefore
<1>9. PICK l, g, f : l = LocalsAt(symbolTable, n) /\ g = symbolTable[1].numDefinitions /\ f = FreeAt(symbolTable, n)
  OBVIOUS
<1>10. /\ GoodScope(Scope) /\ Named(Scope.instructions, l, g, f, pool2)
       /\ l \in Nat /\ g \in Nat /\ f \in Nat
  BY <1>6, <1>7, <1>8, <1>9, ScopeNamed, ScopeWider
<1>11. /\ OpConstant \in Opcodes /\ OpConstant # OpPop /\ OpConstant # OpReturn
       /\ <<m>> \in [1..Len(OperandWidths(OpConstant)) -> Nat]
  BY <1>7, OneOperand DEF Wide
<1>12. Fits(OpConstant, <<m>>, l, g, f, pool2)
  <2>1. m < ByteSize * ByteSize /\ m < Len(pool2)
    <3>1. Len(pool2) <= ByteSize * ByteSize
      BY <1>2 DEF SizesFit
    <3>2. ByteSize * ByteSize \in Nat
      BY ByteSizeAssumption
    <3>. QED BY <1>7, <3>1, <3>2
  <2>2. <<m>>[1] = m
    OBVIOUS
  <2>. QED BY <1>5, <1>7, <2>1, <2>2 DEF Fits, OpConstant, OpHash, OpSetGlobal, OpSetLocal, OpGetGlobal, OpGetLocal,
                                         OpGetFree, OpGetBuiltin, OpClosure
<1>13. GoodScope(t) /\ Named(t.instructions, l, g, f, pool2)
  BY <1>10, <1>11, <1>12, EmitGood, EmitNamed
<1>14. Sequence(<<>>) /\ \A k \in 1..Len(<<>>) : ~Ending(<<>>[k]) /\ Due(<<>>[k], n, symbolTable)
  BY NoneDue
<1>. HIDE DEF t
<1>. QED BY <1>2, <1>3, <1>4, <1>6, <1>7, <1>8, <1>9, <1>13, <1>14, StretchRooms

(* FunctionLiteral up to its body: an empty scope, and room for the        *)
(* parameters (compiler.go:268-273).                                       *)
LEMMA FunctionRooms ==
  ASSUME NEW trees, Grammar(trees), CInv(trees), RoomInv, CompileFunctionLiteral
  PROVE  RoomInv'
<1>. DEFINE n == Len(scopes)
<1>1. PICK c, c2, sc2, a, b, items :
        /\ c = Symbols!NewEnclosedSymbolTable(symbolTable) /\ c2 = DefineAll(c, Node.Parameters)
        /\ sc2 = Append(scopes, NewScope) /\ a = Visit(Node.Body) /\ b = EndFunction(Node) /\ items = <<a, b>>
  OBVIOUS
<1>2. /\ At({"FunctionLiteral"}) /\ scopes' = sc2 /\ symbolTable' = c2
      /\ todo' = items \o Tail(todo) /\ constants' = constants
  BY <1>1 DEF CompileFunctionLiteral, Continue
<1>3. Node \in trees /\ Node.kind = "FunctionLiteral" /\ todo # <<>> /\ todo[1].do = "visit"
  BY <1>2, AtNode
<1>4. Len(Node.Parameters) \in Nat
  BY <1>3 DEF Grammar, Of
<1>5. /\ GoodScopes(scopes) /\ Chain(symbolTable) /\ Len(symbolTable) = n /\ Rooms(symbolTable)
      /\ Coded(scopes, symbolTable, constants) /\ Furnished(constants, symbolTable[1].numDefinitions)
      /\ Pending(todo, n, symbolTable) /\ Pool(constants)
  BY DEF CInv, RoomInv
<1>6. n \in Nat \ {0} /\ Sequence(scopes)
  BY <1>5 DEF GoodScopes
<1>7. Chain(c) /\ Len(c) = n + 1 /\ Rooms(c) /\ c[n + 1].numDefinitions = 0 /\ \A k \in 1..n : c[k] = symbolTable[k]
  BY <1>1, <1>5, EnclosedChain, EnclosedRooms
<1>8. Chain(c2) /\ Len(c2) = n + 1
  BY <1>1, <1>4, <1>7, DefineAllChain
<1>9. /\ Rooms(c2) /\ c2[n + 1].numDefinitions = Len(Node.Parameters)
      /\ \A k \in 1..n : c2[k] = symbolTable[k]
  <2>1. /\ Rooms(c2) /\ c2[Len(c)].numDefinitions = c[Len(c)].numDefinitions + Len(Node.Parameters)
        /\ \A k \in 1..Len(c) : k # Len(c) => c2[k] = c[k]
    BY <1>1, <1>4, <1>7, DefineAllRooms
  <2>2. 0 + Len(Node.Parameters) = Len(Node.Parameters)
    BY ONLY <1>4
  <2>3. \A k \in 1..n : k \in 1..n + 1 /\ k # n + 1
    BY ONLY <1>6
  <2>. QED BY ONLY <1>7, <2>1, <2>2, <2>3
<1>10. Wider(symbolTable, c2, n) /\ 1 \in 1..n /\ c2[1] = symbolTable[1]
  <2>1. \A k \in 1..n : symbolTable[k].numDefinitions \in Nat /\ FreeAt(symbolTable, k) \in Nat
    BY <1>5, RoomNumbers
  <2>2. \A x \in Nat : x <= x
    OBVIOUS
  <2>3. 1 \in 1..n
    BY ONLY <1>6
  <2>. QED BY <1>9, <2>1, <2>2, <2>3 DEF Wider, FreeAt
<1>11. /\ Sequence(sc2) /\ Len(sc2) = n + 1 /\ \A k \in 1..n : sc2[k] = scopes[k]
       /\ sc2[n + 1] = NewScope
  BY ONLY <1>1, <1>6, AppendedTo
<1>12. Coded(sc2, c2, constants)
  <2>1. ASSUME NEW j \in 1..n + 1
        PROVE  Named(sc2[j].instructions, LocalsAt(c2, j), c2[1].numDefinitions, FreeAt(c2, j), constants)
    <3>1. CASE j = n + 1
      <4>1. sc2[j] = NewScope
        BY <1>11, <3>1
      <4>. QED BY <4>1, NewScopeNamed
    <3>2. CASE j # n + 1
      <4>1. j \in 1..n
        BY ONLY <1>6, <3>2, j \in 1..n + 1
      <4>2. /\ sc2[j] = scopes[j] /\ LocalsAt(c2, j) = LocalsAt(symbolTable, j)
            /\ FreeAt(c2, j) = FreeAt(symbolTable, j)
        BY <1>9, <1>11, <4>1 DEF LocalsAt, FreeAt
      <4>3. Named(scopes[j].instructions, LocalsAt(symbolTable, j), symbolTable[1].numDefinitions,
                  FreeAt(symbolTable, j), constants)
        BY <1>5, <4>1 DEF Coded
      <4>. QED BY <1>10, <4>2, <4>3
    <3>. QED BY <3>1, <3>2
  <2>. QED BY <1>11, <2>1 DEF Coded
<1>13. Furnished(constants, c2[1].numDefinitions)
  BY <1>5, <1>10
<1>14. Pending(items \o Tail(todo), n + 1, c2)
  <2>1. PICK e : e = <<n + 1, n + 1, n>>
    OBVIOUS
  <2>2. Sequence(items) /\ Len(items) = 2 /\ items[1] = a /\ items[2] = b
    BY ONLY <1>1, Tuples
  <2>3. e \in [1..Len(items) + 1 -> 1..n + 1] /\ e[1] = n + 1 /\ e[2] = n + 1 /\ e[3] = n
    BY ONLY <1>6, <2>1, <2>2
  <2>4. /\ \A k \in 1..Len(items) : (k = 1 /\ k + 1 = 2) \/ (k = 2 /\ k + 1 = 3)
        /\ Len(items) + 1 = 3 /\ (n + 1) - 1 = n /\ n + 1 \in Nat /\ n \in Nat
    BY ONLY <1>6, <2>2
  <2>5. a.do = "visit" /\ Ending(b) /\ b.do # "emit" /\ b.node = Node
    BY <1>1 DEF Visit, EndFunction, Ending
  <2>6. ~Ending(a) /\ ~Ending(todo[1])
    BY <1>3, <2>5 DEF Ending
  <2>7. Due(a, n + 1, c2) /\ Due(b, n + 1, c2)
    <3>1. Len(b.node.Parameters) <= c2[n + 1].numDefinitions
      BY <1>4, <1>9, <2>5
    <3>. QED BY <2>5, <2>6, <3>1 DEF Due
  <2>8. \A k \in 1..Len(items) : e[k + 1] = Below(items[k], e[k]) /\ Due(items[k], e[k], c2)
    <3>1. Below(a, n + 1) = n + 1 /\ Below(b, n + 1) = n
      BY <2>4, <2>5, <2>6, BelowOne
    <3>. QED BY <2>2, <2>3, <2>4, <2>7, <3>1
  <2>9. Below(todo[1], n) = n
    BY <2>6, BelowOne
  <2>10. Sequence(todo) /\ \A k \in 1..Len(todo) : Item(trees, todo[k])
    BY <1>3, TodoItems
  <2>11. e[Len(items) + 1] = Below(todo[1], n) /\ Wider(symbolTable, c2, Below(todo[1], n))
    BY <1>10, <2>3, <2>4, <2>9
  <2>. QED BY <1>3, <1>5, <1>8, <2>2, <2>3, <2>4, <2>8, <2>10, <2>11, PendingContinues
<1>. QED BY <1>2, <1>9, <1>11, <1>12, <1>13, <1>14 DEF RoomInv

(* FunctionLiteral after its body: the function keeps room for its locals, *)
(* what it captures is loaded from the function around it, and OpClosure   *)
(* gathers as many values as the code reads (compiler.go:280-303).         *)
LEMMA FunctionEndRooms ==
  ASSUME NEW trees, Grammar(trees), CInv(trees), RoomInv, CompileFunctionEnd, SizesFit, SizesFit'
  PROVE  RoomInv'
<1>. DEFINE n == Len(scopes)
            table == symbolTable[Len(symbolTable)]
<1>1. PICK ins, free, fn, loaded, t, front, sc2, c2, pool2, params, m :
        /\ ins = EndBody(Scope).instructions /\ free = table.FreeSymbols /\ params = Len(Node.Parameters)
        /\ fn = CompiledFunction(ins, table.numDefinitions, params) /\ loaded = LoadAll(scopes[n - 1], free)
        /\ t = Emit(loaded, OpClosure, <<Len(constants), Len(free)>>) /\ front = SubSeq(scopes, 1, n - 2)
        /\ sc2 = Append(front, t) /\ c2 = Symbols!Outer(symbolTable) /\ pool2 = Append(constants, fn)
        /\ m = Len(constants)
  OBVIOUS
<1>2. /\ Doing("end function") /\ scopes' = sc2 /\ symbolTable' = c2
      /\ todo' = <<>> \o Tail(todo) /\ constants' = pool2
  BY <1>1 DEF CompileFunctionEnd, Continue
<1>3. todo # <<>> /\ todo[1] = Head(todo) /\ todo[1].do = "end function"
  BY <1>2, AtHead DEF Doing
<1>4. Ending(todo[1]) /\ todo[1].node = Node
  BY <1>3 DEF Ending, Node
<1>5. /\ GoodScopes(scopes) /\ Chain(symbolTable) /\ Len(symbolTable) = n /\ Rooms(symbolTable)
      /\ Coded(scopes, symbolTable, constants) /\ Furnished(constants, symbolTable[1].numDefinitions)
      /\ Pending(todo, n, symbolTable) /\ Pool(constants) /\ n \in Nat \ {0} /\ Sequence(scopes)
  BY DEF CInv, RoomInv, GoodScopes
<1>6. n > 1 /\ params <= table.numDefinitions
  BY <1>1, <1>3, <1>4, <1>5, HeadDue DEF Due
<1>7. /\ n - 1 \in 1..n /\ n - 1 \in 1..n - 1 /\ n - 2 \in Nat /\ n \in 1..n /\ n \in 2..n /\ n # 1 /\ n - 1 \in Nat
      /\ 1 \in 1..n - 1 /\ \A k \in 1..n - 1 : k \in 1..n
  BY ONLY <1>5, <1>6
<1>8. Chain(c2) /\ Len(c2) = n - 1 /\ Rooms(c2) /\ \A k \in 1..n - 1 : c2[k] = symbolTable[k]
  BY <1>1, <1>5, <1>6, OuterChain, OuterRooms
<1>9. PICK L, G, F, L1, F1 :
        /\ L = LocalsAt(symbolTable, n) /\ G = symbolTable[1].numDefinitions /\ F = FreeAt(symbolTable, n)
        /\ L1 = LocalsAt(symbolTable, n - 1) /\ F1 = FreeAt(symbolTable, n - 1)
  OBVIOUS
<1>10. /\ L \in Nat /\ G \in Nat /\ F \in Nat /\ L1 \in Nat /\ F1 \in Nat /\ F = Len(free)
       /\ L = table.numDefinitions
  <2>1. L \in Nat /\ G \in Nat /\ F \in Nat /\ L1 \in Nat /\ F1 \in Nat
    BY <1>5, <1>7, <1>9, RoomNumbers
  <2>2. F = Len(free) /\ L = table.numDefinitions
    BY <1>1, <1>5, <1>7, <1>9 DEF FreeAt, LocalsAt
  <2>. QED BY <2>1, <2>2
<1>11. GoodScope(Scope) /\ Named(Scope.instructions, L, G, F, constants)
  BY <1>9, ScopeNamed
<1>12. Named(ins, L, G, F, constants) /\ ins \in Seq(Bytes) /\ Whole(ins)
  BY <1>1, <1>10, <1>11, EndBodyNamed
<1>13. /\ fn.type = COMPILED_FUNCTION_OBJ /\ fn.Instructions = ins /\ fn.NumLocals = L
       /\ fn.NumParameters = params
  BY <1>1, <1>10 DEF CompiledFunction
<1>14. /\ Extends(constants, pool2) /\ Len(pool2) = m + 1 /\ pool2[m + 1] = fn /\ m \in Nat
       /\ Furnishes(fn, G, pool2) => Furnished(pool2, G)
  <2>1. m \in Nat
    BY <1>1, <1>5, SequenceIsFunction DEF Pool
  <2>2. Pool(constants) /\ G \in Nat /\ Furnished(constants, G)
    BY <1>5, <1>9, <1>10
  <2>. QED BY <1>1, <2>1, <2>2, OneMoreConstant
<1>15. Named(ins, L, G, F, pool2)
  <2>1. \A x \in Nat : x <= x
    OBVIOUS
  <2>. QED BY <1>10, <1>12, <1>14, <2>1, NamedMore
<1>16. Furnished(pool2, G)
  <2>1. params <= L
    BY <1>6, <1>10
  <2>. QED BY <1>10, <1>13, <1>14, <1>15, <2>1 DEF Furnishes
<1>17. Gathers(fn, Len(free))
  BY <1>10, <1>12, <1>13 DEF Gathers, Uses, Named, RefersAt, Refers
<1>18. GoodScope(scopes[n - 1]) /\ Named(scopes[n - 1].instructions, L1, G, F1, pool2)
  <2>1. GoodScope(scopes[n - 1]) /\ Named(scopes[n - 1].instructions, L1, G, F1, constants)
    BY <1>5, <1>7, <1>9 DEF GoodScopes, Coded
  <2>2. PICK s : s = scopes[n - 1]
    OBVIOUS
  <2>3. s.instructions \in Seq(Bytes) /\ Whole(s.instructions) /\ Named(s.instructions, L1, G, F1, constants)
    BY <2>1, <2>2, GoodScopeWhole DEF GoodScope, Formed
  <2>4. \A x \in Nat : x <= x
    OBVIOUS
  <2>5. Named(s.instructions, L1, G, F1, pool2)
    BY <1>10, <1>14, <2>3, <2>4, NamedMore
  <2>. QED BY <2>1, <2>2, <2>5
<1>19. \A k \in 1..Len(free) : Known(free[k]) /\ Slot(free[k], L1, G, F1)
  <2>1. Table(table)
    BY <1>5, <1>7 DEF Chain
  <2>2. \A k \in 1..Len(free) : Known(free[k])
    BY <1>1, <2>1 DEF Table
  <2>3. \A k \in 1..Len(free) : SlotAt(symbolTable, n - 1, free[k])
    BY <1>1, <1>5, <1>7 DEF Rooms
  <2>. QED BY <1>9, <2>2, <2>3 DEF SlotAt
<1>20. GoodScope(loaded) /\ Named(loaded.instructions, L1, G, F1, pool2)
  <2>1. PICK s : s = scopes[n - 1]
    OBVIOUS
  <2>2. /\ GoodScope(s) /\ Named(s.instructions, L1, G, F1, pool2) /\ Len(free) \in Nat
        /\ \A k \in 1..Len(free) : Known(free[k])
    BY <1>10, <1>18, <1>19, <2>1
  <2>3. GoodScope(LoadAll(s, free))
    BY <2>2, LoadAllGood
  <2>4. Named(LoadAll(s, free).instructions, L1, G, F1, pool2)
    BY <1>10, <1>19, <2>2, LoadAllNamed
  <2>. QED BY <1>1, <2>1, <2>3, <2>4
<1>21. /\ OpClosure \in Opcodes /\ OpClosure # OpPop
       /\ <<m, Len(free)>> \in [1..Len(OperandWidths(OpClosure)) -> Nat]
  <2>1. OpClosure \in Opcodes /\ OpClosure # OpPop
    BY DEF OpClosure, OpPop, Opcodes
  <2>2. Len(OperandWidths(OpClosure)) = 2
    BY OperandTable
  <2>. QED BY <1>10, <1>14, <2>1, <2>2
<1>22. Fits(OpClosure, <<m, Len(free)>>, L1, G, F1, pool2)
  <2>1. m < ByteSize * ByteSize /\ m < Len(pool2)
    <3>1. Len(pool2) <= ByteSize * ByteSize
      BY <1>2 DEF SizesFit
    <3>2. ByteSize * ByteSize \in Nat
      BY ByteSizeAssumption
    <3>. QED BY <1>14, <3>1, <3>2
  <2>2. Len(free) < ByteSize
    BY <1>1, <1>5, <1>7 DEF SizesFit
  <2>3. <<m, Len(free)>>[1] = m /\ <<m, Len(free)>>[2] = Len(free)
    OBVIOUS
  <2>4. /\ pool2[m + 1].type = COMPILED_FUNCTION_OBJ /\ Gathers(pool2[m + 1], Len(free))
    BY <1>13, <1>14, <1>17
  <2>. QED BY <2>1, <2>2, <2>3, <2>4
       DEF Fits, OpConstant, OpHash, OpSetGlobal, OpSetLocal, OpGetGlobal, OpGetLocal, OpGetFree, OpGetBuiltin,
           OpClosure
<1>23. Named(t.instructions, L1, G, F1, pool2)
  <2>1. t = Emit(loaded, OpClosure, <<m, Len(free)>>)
    BY <1>1
  <2>. QED BY <1>10, <1>20, <1>21, <1>22, <2>1, EmitNamed
<1>24. Sequence(front) /\ Len(front) = n - 2 /\ \A k \in 1..n - 2 : front[k] = scopes[k]
  <2>1. PICK S : scopes \in Seq(S)
    BY <1>5 DEF Sequence
  <2>2. 1 \in 1..n + 1 /\ n - 2 \in 0..n
    BY ONLY <1>5, <1>6
  <2>3. front = [k \in 1..n - 2 |-> scopes[k]]
    BY <1>1, <2>1, <2>2
  <2>4. front = [k \in 1..n - 2 |-> front[k]]
    BY <2>3
  <2>5. Sequence(front) /\ Len(front) = n - 2
    BY ONLY <1>7, <2>4, FunctionIsSequence
  <2>. QED BY <2>3, <2>5
<1>25. Len(sc2) = n - 1 /\ sc2[n - 1] = t /\ \A k \in 1..n - 2 : sc2[k] = scopes[k]
  <2>1. /\ Len(sc2) = Len(front) + 1 /\ \A k \in 1..Len(front) : sc2[k] = front[k]
        /\ sc2[Len(front) + 1] = t
    BY ONLY <1>1, <1>24, AppendedTo
  <2>2. Len(front) + 1 = n - 1
    BY ONLY <1>5, <1>24
  <2>. QED BY <1>24, <2>1, <2>2
<1>26. /\ c2[1].numDefinitions = G /\ LocalsAt(c2, n - 1) = L1 /\ FreeAt(c2, n - 1) = F1
       /\ Wider(symbolTable, c2, n - 1)
  <2>1. \A k \in 1..n - 1 : symbolTable[k].numDefinitions \in Nat /\ FreeAt(symbolTable, k) \in Nat
    BY <1>5, <1>7, RoomNumbers
  <2>2. \A x \in Nat : x <= x
    OBVIOUS
  <2>3. Wider(symbolTable, c2, n - 1)
    BY <1>8, <2>1, <2>2 DEF Wider, FreeAt
  <2>. QED BY <1>7, <1>8, <1>9, <2>3 DEF FreeAt, LocalsAt
<1>27. Coded(sc2, c2, pool2)
  <2>1. ASSUME NEW j \in 1..n - 1
        PROVE  Named(sc2[j].instructions, LocalsAt(c2, j), c2[1].numDefinitions, FreeAt(c2, j), pool2)
    <3>1. CASE j = n - 1
      BY <1>23, <1>25, <1>26, <3>1
    <3>2. CASE j # n - 1
      <4>1. j \in 1..n - 2 /\ j \in 1..n
        BY ONLY <1>5, <1>6, <3>2, j \in 1..n - 1
      <4>2. PICK s : s = scopes[j]
        OBVIOUS
      <4>3. /\ GoodScope(s) /\ sc2[j] = s
            /\ Named(s.instructions, LocalsAt(symbolTable, j), symbolTable[1].numDefinitions,
                     FreeAt(symbolTable, j), constants)
        BY <1>5, <1>25, <4>1, <4>2 DEF Coded, GoodScopes
      <4>4. n - 1 \in Nat /\ n - 1 <= Len(symbolTable) /\ n - 1 <= Len(c2)
        BY <1>5, <1>7, <1>8
      <4>5. Named(s.instructions, LocalsAt(c2, j), c2[1].numDefinitions, FreeAt(c2, j), pool2)
        BY <1>5, <1>8, <1>14, <1>26, <4>3, <4>4, CodeMore
      <4>. QED BY <4>3, <4>5
    <3>. QED BY <3>1, <3>2
  <2>. QED BY <1>25, <2>1 DEF Coded
<1>28. Pending(<<>> \o Tail(todo), n - 1, c2)
  <2>1. PICK e, items : e = <<n - 1>> /\ items = <<>>
    OBVIOUS
  <2>2. Sequence(items) /\ Len(items) = 0
    BY ONLY <2>1, Tuples
  <2>3. e \in [1..Len(items) + 1 -> 1..n - 1] /\ e[1] = n - 1 /\ Len(items) + 1 = 1
    BY ONLY <1>7, <2>1, <2>2
  <2>4. \A k \in 1..Len(items) : e[k + 1] = Below(items[k], e[k]) /\ Due(items[k], e[k], c2)
    BY <2>2
  <2>5. Below(todo[1], n) = n - 1
    BY <1>4, BelowOne
  <2>6. Sequence(todo) /\ \A k \in 1..Len(todo) : Item(trees, todo[k])
    BY <1>3, TodoItems
  <2>7. e[Len(items) + 1] = Below(todo[1], n) /\ Wider(symbolTable, c2, Below(todo[1], n)) /\ n \in Nat
    BY <1>5, <1>26, <2>3, <2>5
  <2>8. Pending(items \o Tail(todo), n - 1, c2)
    BY <1>3, <1>5, <1>7, <1>8, <2>2, <2>3, <2>4, <2>6, <2>7, PendingContinues
  <2>. QED BY <2>1, <2>8
<1>. QED BY <1>2, <1>8, <1>16, <1>25, <1>26, <1>27, <1>28 DEF RoomInv

(* An error leaves no work.                                                *)
LEMMA FailRooms ==
  ASSUME NEW trees, CInv(trees), RoomInv, Fail
  PROVE  RoomInv'
<1>1. todo' = <<>> /\ constants' = constants /\ symbolTable' = symbolTable /\ scopes' = scopes
  BY DEF Fail
<1>2. PICK n : n = Len(scopes) /\ n \in Nat \ {0}
  BY DEF CInv, GoodScopes
<1>3. PICK d : d = [k \in 1..1 |-> n]
  OBVIOUS
<1>4. Len(<<>>) = 0 /\ d \in [1..0 + 1 -> 1..n] /\ d[1] = n /\ \A k \in 1..0 : FALSE
  BY <1>2, <1>3
<1>5. Pending(<<>>, n, symbolTable)
  BY <1>4 DEF Pending, Depth
<1>. QED BY <1>1, <1>2, <1>5 DEF RoomInv

(* A compiler that is given a table and a pool names nothing yet.          *)
LEMMA FreshRooms ==
  ASSUME NEW g, Rooms(<<g>>), NEW pool, Furnished(pool, g.numDefinitions), NEW program
  PROVE  /\ Coded(<<NewScope>>, <<g>>, pool) /\ Furnished(pool, <<g>>[1].numDefinitions)
         /\ Pending(<<Visit(program)>>, Len(<<NewScope>>), <<g>>)
<1>1. PICK sc, c, w, it : sc = <<NewScope>> /\ c = <<g>> /\ w = <<it>> /\ it = Visit(program)
  OBVIOUS
<1>2. /\ Len(sc) = 1 /\ sc[1] = NewScope /\ c[1] = g /\ Len(w) = 1 /\ w[1] = it
      /\ \A k \in 1..1 : k = 1 /\ k + 1 = 2
  BY <1>1, Tuples
<1>3. Coded(sc, c, pool)
  BY <1>2, NewScopeNamed DEF Coded
<1>4. Due(it, 1, c) /\ ~Ending(it)
  BY <1>1, PlainItems, PlainDue DEF Plain
<1>5. PICK d : d = [k \in 1..2 |-> 1]
  OBVIOUS
<1>6. d \in [1..1 + 1 -> 1..1] /\ d[1] = 1 /\ d[2] = 1
  BY <1>5
<1>7. Below(it, 1) = 1
  BY <1>4, BelowOne
<1>8. Pending(w, 1, c)
  BY <1>2, <1>4, <1>6, <1>7 DEF Pending, Depth
<1>. QED BY <1>1, <1>2, <1>3, <1>8

(* So it is when a compiler is new.                                        *)
LEMMA InitRooms ==
  ASSUME Init
  PROVE  RoomInv
<1>1. PICK program \in Programs : Start(Symbols!DefineBuiltins, <<>>, program)
  BY DEF Init
<1>2. PICK g : g = Symbols!DefineBuiltins
  OBVIOUS
<1>3. /\ constants = <<>> /\ symbolTable = <<g>> /\ scopes = <<NewScope>>
      /\ todo = <<Visit(program)>>
  BY <1>1, <1>2 DEF Start
<1>4. Rooms(<<g>>) /\ Furnished(<<>>, g.numDefinitions)
  BY <1>2, BuiltinsRooms DEF Furnished
<1>5. /\ Coded(<<NewScope>>, <<g>>, <<>>) /\ Furnished(<<>>, <<g>>[1].numDefinitions)
      /\ Pending(<<Visit(program)>>, Len(<<NewScope>>), <<g>>)
  BY <1>4, FreshRooms
<1>. QED BY ONLY <1>3, <1>4, <1>5 DEF RoomInv

(* Every step of Compile keeps what is named within what there is.         *)
LEMMA NextRooms ==
  ASSUME NEW trees, Grammar(trees), CInv(trees), RoomInv, [Next]_vars, SizesFit, SizesFit'
  PROVE  RoomInv'
<1>1. CASE Next
  <2>1. \/ CompileStatements \/ CompileExpressionStatement \/ CompileReturnStatement
        \/ CompileInfixExpression \/ CompilePrefixExpression \/ CompileIndexExpression
        \/ CompileArrayLiteral \/ CompileCallExpression \/ CompileHashLiteral
        \/ CompileIfExpression \/ CompileConsequence \/ CompileAlternative \/ EndIfExpression
        \/ CompileLetStatement \/ CompileIdentifier \/ CompileLiteral \/ CompileBoolean
        \/ CompileFunctionLiteral \/ CompileFunctionEnd \/ EmitAfter \/ Fail
    BY <1>1 DEF Next
  <2>. QED BY <2>1, OnlyVisitsRooms, ListRooms, ConsequenceRooms, AlternativeRooms, EndIfRooms,
              LetRooms, IdentifierRooms, LiteralRooms, EmitRooms, FunctionRooms, FunctionEndRooms,
              FailRooms
<1>2. CASE UNCHANGED vars
  BY <1>2 DEF vars, RoomInv
<1>. QED BY <1>1, <1>2

(* The first table alone.                                                  *)
LEMMA FirstRooms ==
  ASSUME NEW c, Chain(c), Rooms(c)
  PROVE  Rooms(<<c[1]>>)
<1>1. PICK c2 : c2 = <<c[1]>>
  OBVIOUS
<1>2. Len(c2) = 1 /\ c2[1] = c[1]
  BY <1>1, Tuples
<1>3. /\ 1 \in 1..Len(c) /\ \A k \in 1..Len(c2) : k = 1
      /\ \A k \in 2..Len(c2) : FALSE
  BY <1>2 DEF Chain
<1>4. \A s : SlotAt(c, 1, s) => SlotAt(c2, 1, s)
  BY <1>2 DEF SlotAt, LocalsAt, FreeAt
<1>5. \A x \in DOMAIN c2[1].store : SlotAt(c2, 1, c2[1].store[x])
  BY <1>2, <1>3, <1>4 DEF Rooms
<1>. QED BY <1>1, <1>3, <1>5 DEF Rooms

(* Globals are never taken back while a program compiles, not even if it   *)
(* fails (symbol_table.go:40-49).                                          *)
LEMMA GlobalsGrow ==
  ASSUME NEW trees, Grammar(trees), CInv(trees), RoomInv, Next
  PROVE  symbolTable[1].numDefinitions <= symbolTable'[1].numDefinitions
<1>. DEFINE n == Len(symbolTable)
<1>1. Chain(symbolTable) /\ Rooms(symbolTable) /\ Len(scopes) = n
  BY DEF CInv, RoomInv
<1>2. 1 \in 1..n /\ symbolTable[1].numDefinitions \in Nat /\ n \in Nat
  BY <1>1, RoomNumbers DEF Chain
<1>3. CASE symbolTable' = symbolTable
  BY <1>2, <1>3
<1>4. CASE CompileLetStatement
  <2>1. symbolTable' = Symbols!Define(symbolTable, Node.Name)
    BY <1>4 DEF CompileLetStatement
  <2>2. Wider(symbolTable, symbolTable', n)
    BY <1>1, <2>1, DefineRooms
  <2>. QED BY <1>2, <2>2 DEF Wider
<1>5. CASE CompileIdentifier /\ symbolTable' # symbolTable
  <2>1. symbolTable' = Symbols!Resolve(symbolTable, Node.Name) /\ Symbols!Resolvable(symbolTable, Node.Name)
    BY <1>5 DEF CompileIdentifier
  <2>2. Wider(symbolTable, symbolTable', n)
    BY <1>1, <2>1, ResolveRooms
  <2>. QED BY <1>2, <2>2 DEF Wider
<1>6. CASE CompileFunctionLiteral
  <2>1. PICK c, names : /\ c = Symbols!NewEnclosedSymbolTable(symbolTable) /\ names = Node.Parameters
                        /\ symbolTable' = DefineAll(c, names)
    BY <1>6 DEF CompileFunctionLiteral
  <2>2. Chain(c) /\ Len(c) = n + 1 /\ Rooms(c) /\ \A k \in 1..n : c[k] = symbolTable[k]
    BY <1>1, <2>1, EnclosedChain, EnclosedRooms
  <2>3. Len(names) \in Nat
    <3>1. At({"FunctionLiteral"})
      BY <1>6 DEF CompileFunctionLiteral
    <3>2. Node \in trees /\ Node.kind = "FunctionLiteral"
      BY <3>1, AtNode
    <3>. QED BY <2>1, <3>2 DEF Grammar, Of
  <2>4. \A k \in 1..Len(c) : k # Len(c) => symbolTable'[k] = c[k]
    BY <2>1, <2>2, <2>3, DefineAllRooms
  <2>5. 1 \in 1..n + 1 /\ 1 # n + 1
    BY ONLY <1>2
  <2>6. symbolTable'[1] = symbolTable[1]
    BY <1>2, <2>2, <2>4, <2>5
  <2>. QED BY <1>2, <2>6
<1>7. CASE CompileFunctionEnd
  <2>1. Doing("end function") /\ symbolTable' = Symbols!Outer(symbolTable)
    BY <1>7 DEF CompileFunctionEnd
  <2>2. todo # <<>> /\ todo[1].do = "end function"
    BY <2>1, AtHead DEF Doing
  <2>3. Ending(todo[1])
    BY <2>2 DEF Ending
  <2>4. n > 1
    BY <1>1, <2>2, <2>3, HeadDue
  <2>5. 1 \in 1..n - 1
    BY <1>2, <2>4
  <2>6. symbolTable'[1] = symbolTable[1]
    BY <1>1, <2>1, <2>4, <2>5, OuterRooms
  <2>. QED BY <1>2, <2>6
<1>8. \/ symbolTable' = symbolTable \/ CompileLetStatement \/ CompileIdentifier \/ CompileFunctionLiteral
      \/ CompileFunctionEnd
  BY DEF Next, OnlyVisits, EmitAction, CompileStatements, CompileExpressionStatement, CompileReturnStatement,
       CompileInfixExpression, CompilePrefixExpression, CompileIndexExpression,
       CompileArrayLiteral, CompileCallExpression, CompileHashLiteral, CompileIfExpression,
       CompileConsequence, CompileAlternative, EndIfExpression, CompileLiteral, CompileBoolean,
       EmitAfter, Fail
<1>. QED BY <1>3, <1>4, <1>5, <1>6, <1>7, <1>8

(* What finished code names is there.                                      *)
LEMMA FinishedNamed ==
  ASSUME NEW trees, CInv(trees), RoomInv, NEW fn \in Finished
  PROVE  /\ \E F \in Nat : Named(fn.Instructions, fn.NumLocals, symbolTable[1].numDefinitions, F, constants)
         /\ fn.NumParameters <= fn.NumLocals
<1>1. CASE fn \in Functions
  <2>1. PICK k \in DOMAIN constants : fn = constants[k] /\ constants[k].type = COMPILED_FUNCTION_OBJ
    BY <1>1 DEF Functions
  <2>2. k \in 1..Len(constants)
    BY SequenceIsFunction DEF CInv, Pool
  <2>. QED BY <2>1, <2>2 DEF RoomInv, Furnished, Furnishes
<1>2. CASE Compiled /\ fn = CompiledFunction(Scope.instructions, 0, 0)
  <2>1. /\ fn.Instructions = Scope.instructions /\ fn.NumLocals = 0 /\ fn.NumParameters = 0
    BY <1>2 DEF CompiledFunction
  <2>2. todo = <<>> /\ ~failed
    BY <1>2 DEF Compiled
  <2>3. PICK d : Todo(trees, todo, d, scopes)
    BY <2>2 DEF CInv
  <2>4. d[1] = Len(scopes) /\ d[Len(todo) + 1] = 1
    BY <2>3 DEF Todo
  <2>5. Len(todo) + 1 = 1
    BY <2>2
  <2>6. Len(scopes) = 1
    BY <2>4, <2>5
  <2>7. LocalsAt(symbolTable, Len(scopes)) = 0
    BY <2>6 DEF LocalsAt
  <2>8. PICK F : F = FreeAt(symbolTable, Len(scopes)) /\ F \in Nat
    BY ScopeNamed
  <2>9. Named(fn.Instructions, fn.NumLocals, symbolTable[1].numDefinitions, F, constants)
    BY <2>1, <2>7, <2>8, ScopeNamed
  <2>10. fn.NumParameters <= fn.NumLocals
    BY <2>1
  <2>. QED BY <2>8, <2>9, <2>10
<1>. QED BY <1>1, <1>2 DEF Finished

(* The code of the program captures nothing, and returns only with a value *)
(* (compiler.go:104).                                                      *)
LEMMA ProgramCode ==
  ASSUME NEW trees, CInv(trees), RoomInv, Compiled
  PROVE  \A p \in Starts(Scope.instructions) : Scope.instructions[p + 1] \notin {OpGetFree, OpReturn}
<1>. DEFINE ins == Scope.instructions
<1>1. PICK d : Todo(trees, todo, d, scopes)
  BY DEF Compiled, CInv
<1>2. d[1] = Len(scopes) /\ d[Len(todo) + 1] = 1
  BY <1>1 DEF Todo
<1>3. Len(todo) + 1 = 1
  BY DEF Compiled
<1>4. Len(scopes) = 1
  BY <1>2, <1>3
<1>5. GoodScope(Scope)
  BY <1>4 DEF CInv, GoodScopes, Scope
<1>6. \A p \in Starts(ins) : ins[p + 1] # OpReturn
  BY <1>5 DEF GoodScope, Ongoing
<1>7. FreeAt(symbolTable, Len(scopes)) = 0
  BY <1>4 DEF FreeAt
<1>8. PICK L, G, F : F = 0 /\ Named(ins, L, G, F, constants)
  BY <1>7, ScopeNamed
<1>9. ASSUME NEW p \in Starts(ins), ins[p + 1] = OpGetFree PROVE FALSE
  <2>1. ReadUint8(ins, p + 1) < 0
    BY <1>8, <1>9 DEF Named, RefersAt, Refers
  <2>2. Whole(ins) /\ ins \in Seq(Bytes) /\ Len(ins) \in Nat
    BY <1>5, GoodScopeWhole, LenProperties DEF GoodScope, Formed
  <2>3. p \in 0..Len(ins) - 1 /\ p + 2 <= Len(ins)
    <3>1. Width(OpGetFree) = 2
      BY OperandTable DEF Narrow
    <3>. QED BY <1>9, <2>2, <3>1, StartsClosed DEF Whole
  <2>4. ins[p + 2] \in Nat
    <3>1. p + 2 \in 1..Len(ins)
      BY <2>2, <2>3
    <3>. QED BY <2>2, <3>1, ElementOfSeq, ByteSizeAssumption DEF Bytes
  <2>5. p + 1 + 1 = p + 2
    BY <2>3
  <2>. QED BY <2>1, <2>4, <2>5 DEF ReadUint8
<1>. QED BY <1>6, <1>9

(* What the run checks follows.                                            *)
LEMMA RoomsSlots ==
  ASSUME NEW trees, CInv(trees), RoomInv
  PROVE  SlotsExist
<1>. SUFFICES ASSUME NEW fn \in Finished
              PROVE  LET ins == fn.Instructions
                     IN  /\ \A p \in Uses(fn, {OpGetLocal, OpSetLocal}) : ReadUint8(ins, p + 1) < fn.NumLocals
                         /\ \A p \in Uses(fn, {OpGetGlobal, OpSetGlobal}) :
                              ReadUint16(ins, p + 1) < symbolTable[1].numDefinitions
                         /\ \A p \in Uses(fn, {OpGetBuiltin}) : ReadUint8(ins, p + 1) < Len(Builtins)
                         /\ \A p \in Uses(fn, {OpConstant}) :
                              /\ ReadUint16(ins, p + 1) < Len(constants)
                              /\ constants[ReadUint16(ins, p + 1) + 1].type # COMPILED_FUNCTION_OBJ
                         /\ \A p \in Uses(fn, {OpClosure}) :
                              LET made == constants[ReadUint16(ins, p + 1) + 1]
                              IN  /\ ReadUint16(ins, p + 1) < Len(constants)
                                  /\ made.type = COMPILED_FUNCTION_OBJ
                                  /\ \A q \in Uses(made, {OpGetFree}) :
                                       ReadUint8(made.Instructions, q + 1) < ReadUint8(ins, p + 3)
                         /\ fn.NumParameters <= fn.NumLocals
  BY DEF SlotsExist
<1>. DEFINE ins == fn.Instructions
<1>1. PICK F \in Nat : Named(ins, fn.NumLocals, symbolTable[1].numDefinitions, F, constants)
  BY FinishedNamed
<1>2. fn.NumParameters <= fn.NumLocals
  BY FinishedNamed
<1>3. ASSUME NEW p \in Starts(ins)
      PROVE  /\ ins[p + 1] \in {OpGetLocal, OpSetLocal} => ReadUint8(ins, p + 1) < fn.NumLocals
             /\ ins[p + 1] \in {OpGetGlobal, OpSetGlobal} => ReadUint16(ins, p + 1) < symbolTable[1].numDefinitions
             /\ ins[p + 1] = OpGetBuiltin => ReadUint8(ins, p + 1) < Len(Builtins)
             /\ ins[p + 1] = OpConstant =>
                  /\ ReadUint16(ins, p + 1) < Len(constants)
                  /\ constants[ReadUint16(ins, p + 1) + 1].type # COMPILED_FUNCTION_OBJ
             /\ ins[p + 1] = OpClosure =>
                  /\ ReadUint16(ins, p + 1) < Len(constants)
                  /\ constants[ReadUint16(ins, p + 1) + 1].type = COMPILED_FUNCTION_OBJ
                  /\ Gathers(constants[ReadUint16(ins, p + 1) + 1], ReadUint8(ins, p + 3))
  BY <1>1 DEF Named, RefersAt, Refers
<1>. QED BY <1>2, <1>3 DEF Uses, Gathers

(* Every OpHash of finished code takes whole pairs (compiler.go:237-262).  *)
PairsWhole ==
  \A fn \in Finished : \A p \in Uses(fn, {OpHash}) : ReadUint16(fn.Instructions, p + 1) % 2 = 0

(* A byte holds an even number of values, so that a cut operand of OpHash  *)
(* is even too.                                                            *)
LEMMA RoomsPairs ==
  ASSUME NEW trees, CInv(trees), RoomInv, ByteSize % 2 = 0
  PROVE  PairsWhole
<1>. SUFFICES ASSUME NEW fn \in Finished, NEW p \in Uses(fn, {OpHash})
              PROVE  ReadUint16(fn.Instructions, p + 1) % 2 = 0
  BY DEF PairsWhole
<1>1. PICK F \in Nat : Named(fn.Instructions, fn.NumLocals, symbolTable[1].numDefinitions, F, constants)
  BY FinishedNamed
<1>2. p \in Starts(fn.Instructions) /\ fn.Instructions[p + 1] = OpHash
  BY DEF Uses
<1>3. Even(ReadUint16(fn.Instructions, p + 1))
  BY <1>1, <1>2 DEF Named, RefersAt, Refers
<1>. QED BY <1>3 DEF Even

(* loadSymbol puts one value on the stack.                                 *)
LEMMA LoadSymbolLevels ==
  ASSUME NEW s, GoodScope(s), NEW symbol, Known(symbol), NEW P, NEW h, Steady(s, P, h),
         h[Len(s.instructions)] >= 0
  PROVE  \E g : /\ Steady(LoadSymbol(s, symbol), P, g) /\ SameJumps(s, h, g)
                /\ Confined(LoadSymbol(s, symbol).instructions, g, P)
                /\ g[Len(LoadSymbol(s, symbol).instructions)] = h[Len(s.instructions)] + 1
<1>. DEFINE op == CASE symbol.Scope = Symbols!GlobalScope  -> OpGetGlobal
                    [] symbol.Scope = Symbols!LocalScope   -> OpGetLocal
                    [] symbol.Scope = Symbols!BuiltinScope -> OpGetBuiltin
                    [] symbol.Scope = Symbols!FreeScope    -> OpGetFree
            n == <<symbol.Index>>
<1>1. op \in {OpGetGlobal, OpGetLocal, OpGetBuiltin, OpGetFree}
  BY DEF Known
<1>2. LoadSymbol(s, symbol) = Emit(s, op, n)
  BY DEF LoadSymbol
<1>. HIDE DEF op
<1>3. op \in Opcodes /\ op # OpPop /\ op \notin JumpOps /\ n \in [1..Len(OperandWidths(op)) -> Nat]
  <2>1. op \in Wide \cup Narrow /\ op \notin JumpOps
    BY <1>1 DEF Wide, Narrow, JumpOps, OpJump, OpJumpNotTruthy, OpGetGlobal, OpGetLocal, OpGetBuiltin, OpGetFree
  <2>. QED BY <2>1, OneOperand DEF Known
<1>4. Takes(op, n) = 0 /\ Counts(op, n) /\ Pushes(op) = 1
  BY <1>1 DEF Takes, Taken, Counts, Pushes, OpAdd, OpSub, OpMul, OpDiv, OpEqual, OpNotEqual, OpGreaterThan, OpIndex,
     OpPop, OpReturnValue, OpReturn, OpJump, OpJumpNotTruthy, OpMinus, OpBang, OpSetGlobal, OpSetLocal, OpArray, OpHash,
     OpCall, OpClosure, OpGetGlobal, OpGetLocal, OpGetBuiltin, OpGetFree
<1>. HIDE DEF n
<1>5. \E g : /\ Steady(Emit(s, op, n), P, g) /\ Confined(Emit(s, op, n).instructions, g, P) /\ SameJumps(s, h, g)
             /\ g[Len(Emit(s, op, n).instructions)] = h[Len(s.instructions)] + (Pushes(op) - Takes(op, n))
  BY <1>3, <1>4, EmitRaises
<1>6. Pushes(op) - Takes(op, n) = 1
  BY <1>4
<1>. QED BY ONLY <1>2, <1>5, <1>6

(* The loop over what a function captures puts as many as there are.       *)
LEMMA LoadAllLevels ==
  ASSUME NEW s, GoodScope(s), NEW symbols, Len(symbols) \in Nat,
         \A k \in 1..Len(symbols) : Known(symbols[k]), NEW P, NEW h, Steady(s, P, h),
         h[Len(s.instructions)] >= 0
  PROVE  \E g : /\ Steady(LoadAll(s, symbols), P, g) /\ SameJumps(s, h, g)
                /\ g[Len(LoadAll(s, symbols).instructions)] = h[Len(s.instructions)] + Len(symbols)
<1>. DEFINE n == Len(symbols)
            c == CHOOSE f : Loads(f, s, symbols, n)
            x == h[Len(s.instructions)]
            Good(t, k) == /\ GoodScope(t) /\ CodeKept(s, t)
                          /\ \E g : Steady(t, P, g) /\ SameJumps(s, h, g) /\ g[Len(t.instructions)] = x + k
            T == {k \in Nat : k <= n => Good(c[k], k)}
<1>0. x \in Int
  <2>1. Len(s.instructions) \in Nat
    BY LenProperties DEF GoodScope, Formed
  <2>. QED BY <2>1 DEF Steady, Follows, Level
<1>1. LoadAll(s, symbols) = c[n]
  BY DEF LoadAll, Loads
<1>2. Loads(c, s, symbols, n)
  BY LoadsExists
<1>. HIDE DEF c
<1>3. 0 \in T
  <2>1. c[0] = s
    BY <1>2 DEF Loads
  <2>2. x = x + 0
    BY ONLY <1>0
  <2>3. Good(c[0], 0)
    BY <2>1, <2>2 DEF CodeKept, SameJumps
  <2>. QED BY <2>3
<1>4. ASSUME NEW k \in Nat, k \in T PROVE k + 1 \in T
  <2>. SUFFICES ASSUME k + 1 <= n PROVE Good(c[k + 1], k + 1)
    OBVIOUS
  <2>1. k + 1 \in 0..n /\ k + 1 # 0 /\ (k + 1) - 1 = k /\ k <= n /\ k + 1 \in 1..n
    OBVIOUS
  <2>2. c[k + 1] = LoadSymbol(c[k], symbols[k + 1])
    BY <1>2, <2>1 DEF Loads
  <2>3. GoodScope(c[k]) /\ CodeKept(s, c[k]) /\ Known(symbols[k + 1])
    BY <1>4, <2>1
  <2>4. PICK g : Steady(c[k], P, g) /\ SameJumps(s, h, g) /\ g[Len(c[k].instructions)] = x + k
    BY <1>4, <2>1
  <2>5. g[Len(c[k].instructions)] >= 0
    <3>1. x >= 0
      OBVIOUS
    <3>2. x + k >= 0
      <4>. HIDE DEF x
      <4>. QED BY ONLY <1>0, <3>1, k \in Nat
    <3>. QED BY ONLY <2>4, <3>2
  <2>6. PICK f : /\ Steady(c[k + 1], P, f) /\ SameJumps(c[k], g, f)
                 /\ f[Len(c[k + 1].instructions)] = g[Len(c[k].instructions)] + 1
    BY <2>2, <2>3, <2>4, <2>5, LoadSymbolLevels
  <2>7. SameJumps(s, h, f)
    BY <2>3, <2>4, <2>6, SameJumpsTransitive
  <2>8. f[Len(c[k + 1].instructions)] = x + (k + 1)
    <3>. HIDE DEF x
    <3>1. (x + k) + 1 = x + (k + 1)
      BY ONLY <1>0, k \in Nat
    <3>. QED BY ONLY <2>4, <2>6, <3>1
  <2>9. GoodScope(c[k + 1]) /\ CodeKept(s, c[k + 1])
    BY <2>2, <2>3, LoadSymbolGood, CodeKeptTransitive
  <2>. QED BY <2>6, <2>7, <2>8, <2>9
<1>. HIDE DEF Good
<1>5. n \in T
  BY <1>3, <1>4, SetInduction
<1>6. Good(LoadAll(s, symbols), n)
  BY <1>1, <1>5
<1>. QED BY <1>6 DEF Good

-----------------------------------------------------------------------------
(* The depths that the work left starts from and leaves.                   *)
(* An item that takes the pop off the end of a block, and what leaves the  *)
(* code so that there is a pop or a return to find.                        *)
Closer(it) == it.do = "else" \/ (it.do = "join" /\ it.node.Alternative.kind # "nil")

Shuts(it) ==
  \/ it.do = "emit" /\ it.op \in {OpPop, OpReturnValue}
  \/ it.do = "visit" /\ it.node.kind \in {"ExpressionStatement", "ReturnStatement"}
  \/ Block(it) /\ EndsInValue(it.node)

(* How many values more there are behind an item.                          *)
Rise(it) ==
  IF it.do = "visit" THEN (IF it.node.kind \in ExpressionKinds THEN 1 ELSE 0)
  ELSE IF it.do = "emit" THEN Pushes(it.op) - Takes(it.op, it.operands)
  ELSE IF Closer(it) THEN 1 ELSE 0

Needs(it) == IF it.do = "emit" THEN Takes(it.op, it.operands) ELSE IF it.do = "then" THEN 1 ELSE 0

(* An item that starts at depth x in code of levels h leaves depth y.  The *)
(* end of a function leaves a closure on the stack of the function around  *)
(* it, which has base values there.                                        *)
Flows(it, x, y, h, base) ==
  /\ x >= 0 /\ x >= Needs(it)
  /\ it.do = "emit" => Counts(it.op, it.operands)
  /\ Patching(it) => h[it.pos] = x + Rise(it)
  /\ IF Ending(it) THEN base >= 0 /\ y = base + 1 ELSE it.do = "abort" \/ y = x + Rise(it)

Flow(w, sc, d, e, H) ==
  /\ Depth(w, Len(sc), d) /\ e \in [1..Len(w) + 1 -> Int]
  /\ e[1] = End(sc[Len(sc)], H[Len(sc)]) /\ e[Len(w) + 1] = 0
  /\ \A k \in 1..Len(w) : Flows(w[k], e[k], e[k + 1], H[d[k]], End(sc[d[k + 1]], H[d[k + 1]]))
  /\ \A k \in 1..Len(w) - 1 : Closer(w[k + 1]) => Shuts(w[k])
  /\ w # <<>> /\ Closer(w[1]) => Shut(sc[Len(sc)], WaitsIn(w, d, Len(sc)), H[Len(sc)])
  /\ \A j \in 1..Len(sc) : Steady(sc[j], WaitsIn(w, d, j), H[j])

(* Each item has one depth in the scopes.                                  *)
LEMMA DepthUnique ==
  ASSUME NEW w, Len(w) \in Nat, NEW n, NEW d, Depth(w, n, d), NEW f, Depth(w, n, f)
  PROVE  d = f
<1>. DEFINE L == Len(w)  T == {k \in Nat : k + 1 <= L + 1 => d[k + 1] = f[k + 1]}
<1>1. 0 \in T
  BY DEF Depth
<1>2. ASSUME NEW k \in Nat, k \in T PROVE k + 1 \in T
  <2>. SUFFICES ASSUME (k + 1) + 1 <= L + 1 PROVE d[(k + 1) + 1] = f[(k + 1) + 1]
    OBVIOUS
  <2>1. k + 1 \in 1..L /\ k + 1 <= L + 1
    OBVIOUS
  <2>2. d[k + 1] = f[k + 1]
    BY <1>2, <2>1
  <2>. QED BY <2>1, <2>2 DEF Depth
<1>3. \A k \in Nat : k \in T
  BY <1>1, <1>2, SetInduction
<1>4. ASSUME NEW k \in 1..L + 1 PROVE d[k] = f[k]
  <2>1. k - 1 \in Nat /\ (k - 1) + 1 = k /\ (k - 1) + 1 <= L + 1
    OBVIOUS
  <2>. QED BY <1>3, <2>1
<1>5. d = [k \in 1..L + 1 |-> d[k]] /\ f = [k \in 1..L + 1 |-> f[k]]
  BY DEF Depth
<1>. QED BY <1>4, <1>5

(* What is given to the items, and what was given to the work behind the   *)
(* first item, is given to both when the items replace it.                 *)
Splices(h, f, items, g, w) ==
  /\ \A k \in 1..Len(items) + 1 : h[k] = f[k]
  /\ \A k \in 1..Len(w) : h[Len(items) + k] = g[k + 1]

LEMMA SpliceExists ==
  ASSUME NEW w, Sequence(w), w # <<>>, NEW items, Sequence(items), NEW S,
         NEW f \in [1..Len(items) + 1 -> S], NEW g, \A k \in 2..Len(w) + 1 : g[k] \in S,
         f[Len(items) + 1] = g[2]
  PROVE  \E h \in [1..Len(items \o Tail(w)) + 1 -> S] : Splices(h, f, items, g, w)
<1>. DEFINE m == Len(items)  L == Len(w)  t == L - 1  new == items \o Tail(w)
<1>1. m \in Nat /\ L \in Nat \ {0} /\ Len(new) = m + t
  BY ONLY Sequence(w), w # <<>>, Sequence(items), Replaced
<1>. HIDE DEF new
<1>. DEFINE h == [k \in 1..(m + t) + 1 |-> IF k <= m THEN f[k] ELSE g[(k - m) + 1]]
<1>2. m \in Nat /\ t \in Nat /\ L \in Nat /\ t + 1 = L
  BY <1>1
<1>3. \A k \in 1..(m + t) + 1 : k \in 1..m + 1 \/ (k - m) + 1 \in 2..L + 1
  BY <1>2
<1>4. \A k \in 1..(m + t) + 1 : /\ k <= m => k \in 1..m + 1
                                /\ ~(k <= m) => (k - m) + 1 \in 2..L + 1
  BY <1>2
<1>5. h \in [1..Len(new) + 1 -> S]
  BY <1>1, <1>4
<1>6. \A k \in 1..m : h[k] = f[k]
  <2>1. \A k \in 1..m : k \in 1..(m + t) + 1 /\ k <= m
    BY <1>2
  <2>. QED BY <2>1
<1>7. \A k \in 1..L : h[m + k] = g[k + 1]
  <2>1. \A k \in 1..L : m + k \in 1..(m + t) + 1 /\ ~(m + k <= m) /\ (m + k) - m = k
    BY <1>2
  <2>. QED BY <2>1
<1>. HIDE DEF h
<1>8. h[m + 1] = f[m + 1]
  <2>1. 1 \in 1..L /\ 1 + 1 = 2
    BY <1>1
  <2>. QED BY <1>7, <2>1
<1>9. \A k \in 1..m + 1 : k \in 1..m \/ k = m + 1
  BY <1>2
<1>10. Splices(h, f, items, g, w)
  BY <1>6, <1>7, <1>8, <1>9 DEF Splices
<1>. QED BY <1>5, <1>10 DEF new

(* The items of the new work, one by one.                                  *)
LEMMA SplicedItem ==
  ASSUME NEW w, Sequence(w), w # <<>>, NEW items, Sequence(items), NEW k \in 1..Len(items \o Tail(w))
  PROVE  \/ /\ k \in 1..Len(items) /\ (items \o Tail(w))[k] = items[k]
            /\ k \in 1..Len(items) + 1 /\ k + 1 \in 1..Len(items) + 1
         \/ \E j \in 1..Len(w) - 1 :
              /\ k = Len(items) + j /\ k + 1 = Len(items) + (j + 1)
              /\ j \in 1..Len(w) /\ j + 1 \in 1..Len(w) /\ j + 1 \in 2..Len(w) + 1 /\ (j + 1) + 1 \in 2..Len(w) + 1
              /\ (items \o Tail(w))[k] = w[j + 1]
<1>. DEFINE m == Len(items)  L == Len(w)  new == items \o Tail(w)
<1>1. /\ m \in Nat /\ L \in Nat \ {0} /\ Len(new) = m + (L - 1)
      /\ \A i \in 1..m : new[i] = items[i]
      /\ \A i \in 1..L - 1 : new[m + i] = w[i + 1]
  BY ONLY Sequence(w), w # <<>>, Sequence(items), Replaced
<1>. HIDE DEF new, m, L
<1>2. k \in 1..Len(new)
  BY DEF new
<1>3. CASE k <= m
  <2>1. k \in 1..m /\ k \in 1..m + 1 /\ k + 1 \in 1..m + 1
    BY ONLY <1>1, <1>2, <1>3
  <2>. QED BY <1>1, <2>1 DEF new, m
<1>4. CASE ~(k <= m)
  <2>1. PICK j : j = k - m
    OBVIOUS
  <2>2. /\ j \in 1..L - 1 /\ k = m + j /\ k + 1 = m + (j + 1)
        /\ j \in 1..L /\ j + 1 \in 1..L /\ j + 1 \in 2..L + 1 /\ (j + 1) + 1 \in 2..L + 1
    BY ONLY <1>1, <1>2, <1>4, <2>1
  <2>3. new[k] = w[j + 1]
    BY ONLY <1>1, <2>2
  <2>. QED BY <2>2, <2>3 DEF new, m, L
<1>. QED BY <1>3, <1>4 DEF m

(* An item looks at the level of its jump, or at what is around it.        *)
LEMMA FlowsSame ==
  ASSUME NEW it, NEW x, NEW y, NEW h, NEW base, Flows(it, x, y, h, base), NEW g, NEW base2,
         Patching(it) => g[it.pos] = h[it.pos], Ending(it) => base2 = base
  PROVE  Flows(it, x, y, g, base2)
BY DEF Flows

(* What replaces an item takes no pop off unless one is there.             *)
Orderly(it, items) ==
  /\ items # <<>> => ~Closer(items[1])
  /\ \A k \in 1..Len(items) - 1 : Closer(items[k + 1]) => Shuts(items[k])
  /\ items # <<>> /\ Shuts(it) => Shuts(items[Len(items)])

(* The new code follows the levels H2, and so does what comes behind it.   *)
Given(w, sc, H, items, f, x, y, sc2, H2) ==
  /\ f \in [1..Len(items) + 1 -> 1..Len(sc2)] /\ f[1] = Len(sc2) /\ f[Len(items) + 1] = Below(w[1], Len(sc))
  /\ x \in [1..Len(items) + 1 -> Int] /\ x[1] = End(sc2[Len(sc2)], H2[Len(sc2)]) /\ x[Len(items) + 1] = y
  /\ \A k \in 1..Len(items) :
       /\ f[k + 1] = Below(items[k], f[k])
       /\ Flows(items[k], x[k], x[k + 1], H2[f[k]], End(sc2[f[k + 1]], H2[f[k + 1]]))
  /\ PatchIn(items, f, Len(sc2))
  /\ \A j \in 1..Len(sc2) : j # Len(sc2) => j \in 1..Len(sc) /\ sc2[j] = sc[j] /\ H2[j] = H[j]
  /\ Below(w[1], Len(sc)) = Len(sc2) => SameJumps(sc[Len(sc2)], H[Len(sc2)], H2[Len(sc2)])
  /\ Patching(w[1]) => Len(sc2) = Len(sc)

LEMMA FlowContinues ==
  ASSUME NEW w, Sequence(w), w # <<>>, NEW sc, Len(sc) \in Nat \ {0}, NEW d, NEW e, NEW H,
         Flow(w, sc, d, e, H),
         \A k \in 1..Len(w) : Patching(w[k]) => w[k].pos \in Jumps(sc[d[k]].instructions),
         NEW items, Sequence(items), Orderly(w[1], items), NEW sc2, Len(sc2) \in Nat \ {0}, NEW H2,
         NEW f, NEW x, Given(w, sc, H, items, f, x, e[2], sc2, H2),
         Steady(sc2[Len(sc2)], WaitsBehind(w, d, Len(sc2)) \cup WaitsOf(items), H2[Len(sc2)]),
         items = <<>> /\ Shuts(w[1]) =>
           Shut(sc2[Len(sc2)], WaitsBehind(w, d, Len(sc2)) \cup WaitsOf(items), H2[Len(sc2)])
  PROVE  \E d2, e2 : Flow(items \o Tail(w), sc2, d2, e2, H2)
<1>. DEFINE m == Len(items)  L == Len(w)  new == items \o Tail(w)  n == Len(sc)  n2 == Len(sc2)
            b == Below(w[1], n)  R == WaitsBehind(w, d, n2) \cup WaitsOf(items)
<1>1. /\ m \in Nat /\ L \in Nat \ {0} /\ Len(new) = m + (L - 1)
      /\ \A k \in 1..m : new[k] = items[k]
      /\ \A k \in 1..L - 1 : new[m + k] = w[k + 1]
  BY ONLY Sequence(w), w # <<>>, Sequence(items), Replaced
<1>2. /\ Depth(w, n, d) /\ e \in [1..L + 1 -> Int] /\ e[L + 1] = 0
      /\ \A k \in 1..L : Flows(w[k], e[k], e[k + 1], H[d[k]], End(sc[d[k + 1]], H[d[k + 1]]))
      /\ \A k \in 1..L - 1 : Closer(w[k + 1]) => Shuts(w[k])
      /\ \A j \in 1..n : Steady(sc[j], WaitsIn(w, d, j), H[j])
  BY DEF Flow
<1>3. /\ f \in [1..m + 1 -> 1..n2] /\ f[1] = n2 /\ f[m + 1] = b
      /\ x \in [1..m + 1 -> Int] /\ x[1] = End(sc2[n2], H2[n2]) /\ x[m + 1] = e[2]
      /\ \A k \in 1..m : /\ f[k + 1] = Below(items[k], f[k])
                         /\ Flows(items[k], x[k], x[k + 1], H2[f[k]], End(sc2[f[k + 1]], H2[f[k + 1]]))
      /\ PatchIn(items, f, n2)
      /\ \A j \in 1..n2 : j # n2 => j \in 1..n /\ sc2[j] = sc[j] /\ H2[j] = H[j]
      /\ b = n2 => SameJumps(sc[n2], H[n2], H2[n2])
      /\ Patching(w[1]) => n2 = n
  BY DEF Given
<1>4. d[1] = n /\ d[2] = b /\ b \in 1..n2 /\ n \in Nat \ {0} /\ n2 \in Nat \ {0}
  <2>1. 1 \in 1..L /\ 1 + 1 = 2 /\ m + 1 \in 1..m + 1
    BY <1>1
  <2>2. d[1] = n /\ d[1 + 1] = Below(w[1], d[1])
    BY <1>2, <2>1 DEF Depth
  <2>. QED BY <1>3, <2>1, <2>2
<1>5. \A k \in 2..L + 1 : d[k] \in 1..n2 /\ d[k] <= b /\ k \in 1..L + 1
  <2>1. \A k \in 2..L + 1 : k \in 1..L + 1
    BY <1>1
  <2>2. \A k \in 2..L + 1 : d[k] \in 1..n
    BY <1>2, <2>1 DEF Depth
  <2>3. \A k \in 2..L + 1 : d[k] <= d[2]
    BY <1>1, <1>2, DepthFalls
  <2>. HIDE DEF b, n, n2, L
  <2>. QED BY <1>4, <2>1, <2>2, <2>3
<1>. HIDE DEF new, b, n, n2, m, L, R
<1>6. PICK d2 \in [1..Len(new) + 1 -> 1..n2] : Splices(d2, f, items, d, w)
  <2>1. \A k \in 2..Len(w) + 1 : d[k] \in 1..n2
    BY <1>5 DEF L
  <2>2. f \in [1..Len(items) + 1 -> 1..n2] /\ f[Len(items) + 1] = d[2]
    BY <1>3, <1>4 DEF m
  <2>. QED BY <2>1, <2>2, SpliceExists DEF new
<1>7. PICK e2 \in [1..Len(new) + 1 -> Int] : Splices(e2, x, items, e, w)
  <2>1. \A k \in 2..Len(w) + 1 : e[k] \in Int
    BY <1>2, <1>5 DEF L
  <2>2. x \in [1..Len(items) + 1 -> Int] /\ x[Len(items) + 1] = e[2]
    BY <1>3 DEF m
  <2>. QED BY <2>1, <2>2, SpliceExists DEF new
<1>8. /\ \A k \in 1..m + 1 : d2[k] = f[k] /\ e2[k] = x[k]
      /\ \A k \in 1..L : d2[m + k] = d[k + 1] /\ e2[m + k] = e[k + 1]
  BY <1>6, <1>7 DEF Splices, m, L
<1>9. ASSUME NEW k \in 1..Len(new)
      PROVE  \/ /\ k \in 1..m /\ new[k] = items[k] /\ k \in 1..m + 1 /\ k + 1 \in 1..m + 1
             \/ \E j \in 1..L - 1 :
                  /\ k = m + j /\ k + 1 = m + (j + 1)
                  /\ j \in 1..L /\ j + 1 \in 1..L /\ j + 1 \in 2..L + 1 /\ (j + 1) + 1 \in 2..L + 1
                  /\ new[k] = w[j + 1]
  BY SplicedItem DEF new, m, L
<1>10. ASSUME NEW k \in 1..Len(new)
       PROVE  /\ d2[k + 1] = Below(new[k], d2[k])
              /\ Flows(new[k], e2[k], e2[k + 1], H2[d2[k]], End(sc2[d2[k + 1]], H2[d2[k + 1]]))
  <2>1. CASE k \in 1..m /\ new[k] = items[k] /\ k \in 1..m + 1 /\ k + 1 \in 1..m + 1
    BY <1>3, <1>8, <2>1
  <2>2. ASSUME NEW j \in 1..L - 1, k = m + j, k + 1 = m + (j + 1), j \in 1..L, j + 1 \in 1..L,
               j + 1 \in 2..L + 1, (j + 1) + 1 \in 2..L + 1, new[k] = w[j + 1]
        PROVE  /\ d2[k + 1] = Below(new[k], d2[k])
               /\ Flows(new[k], e2[k], e2[k + 1], H2[d2[k]], End(sc2[d2[k + 1]], H2[d2[k + 1]]))
    <3>1. PICK i : i = j + 1
      OBVIOUS
    <3>2. i \in 1..L /\ i \in 2..L + 1 /\ i + 1 \in 2..L + 1 /\ new[k] = w[i]
      BY ONLY <2>2, <3>1
    <3>3. d2[k] = d[i] /\ d2[k + 1] = d[i + 1] /\ e2[k] = e[i] /\ e2[k + 1] = e[i + 1]
      BY ONLY <1>8, <2>2, <3>1
    <3>4. d[i + 1] = Below(w[i], d[i])
      BY <1>2, <3>2 DEF Depth, L
    <3>5. Flows(w[i], e[i], e[i + 1], H[d[i]], End(sc[d[i + 1]], H[d[i + 1]]))
      BY ONLY <1>2, <3>2
    <3>6. d[i] \in 1..n2 /\ d[i] <= b /\ d[i + 1] \in 1..n2
      BY ONLY <1>5, <3>2
    <3>7. Patching(w[i]) => H2[d[i]][w[i].pos] = H[d[i]][w[i].pos]
      <4>1. CASE d[i] # n2
        BY ONLY <1>3, <3>6, <4>1
      <4>2. CASE d[i] = n2
        <5>1. b = n2
          BY ONLY <1>4, <3>6, <4>2
        <5>2. Patching(w[i]) => w[i].pos \in Jumps(sc[d[i]].instructions)
          BY <3>2 DEF L
        <5>. QED BY ONLY <1>3, <4>2, <5>1, <5>2 DEF SameJumps
      <4>. QED BY ONLY <4>1, <4>2
    <3>8. Ending(w[i]) => End(sc2[d[i + 1]], H2[d[i + 1]]) = End(sc[d[i + 1]], H[d[i + 1]])
      <4>1. Ending(w[i]) => d[i + 1] = d[i] - 1
        BY <3>4, BelowOne
      <4>2. Ending(w[i]) => d[i + 1] # n2
        BY ONLY <1>4, <3>6, <4>1
      <4>. QED BY ONLY <1>3, <3>6, <4>2
    <3>9. Flows(w[i], e[i], e[i + 1], H2[d[i]], End(sc2[d[i + 1]], H2[d[i + 1]]))
      BY ONLY <3>5, <3>7, <3>8, FlowsSame
    <3>. QED BY ONLY <3>2, <3>3, <3>4, <3>9
  <2>. QED BY ONLY <1>9, <2>1, <2>2, k \in 1..Len(new)
<1>11. Depth(new, n2, d2)
  <2>1. d2[1] = n2
    <3>1. 1 \in 1..m + 1
      BY ONLY <1>1
    <3>. QED BY ONLY <1>3, <1>8, <3>1
  <2>. QED BY <1>10, <2>1 DEF Depth
<1>12. e2[1] = End(sc2[n2], H2[n2]) /\ e2[Len(new) + 1] = 0
  <2>1. 1 \in 1..m + 1 /\ L \in 1..L /\ Len(new) + 1 = m + L
    BY ONLY <1>1
  <2>. QED BY ONLY <1>2, <1>3, <1>8, <2>1
<1>13. ASSUME NEW j
       PROVE  /\ WaitsBehind(w, d, j) \subseteq WaitsIn(new, d2, j)
              /\ WaitsOf(items) \subseteq WaitsIn(new, d2, n2)
              /\ ~Patching(w[1]) \/ d[1] # j => WaitsIn(w, d, j) \subseteq WaitsBehind(w, d, j)
  <2>1. Spliced(d2, f, items, d, w)
    <3>1. \A k \in 1..m : k \in 1..m + 1
      BY ONLY <1>1
    <3>. QED BY <1>8, <3>1 DEF Spliced, m, L
  <2>2. Sequence(w) /\ w # <<>> /\ Sequence(items) /\ PatchIn(items, f, n2)
    BY <1>3
  <2>. QED BY ONLY <2>1, <2>2, WaitsContinue DEF new
<1>14. R \subseteq WaitsIn(new, d2, n2)
  BY <1>13 DEF R
<1>15. ASSUME NEW j \in 1..n2 PROVE Steady(sc2[j], WaitsIn(new, d2, j), H2[j])
  <2>1. CASE j = n2
    <3>1. Steady(sc2[n2], R, H2[n2])
      BY DEF R, n2
    <3>. QED BY ONLY <1>14, <2>1, <3>1, SteadyWait
  <2>2. CASE j # n2
    <3>1. j \in 1..n /\ sc2[j] = sc[j] /\ H2[j] = H[j]
      BY ONLY <1>3, <2>2, j \in 1..n2
    <3>2. ~Patching(w[1]) \/ d[1] # j
      BY ONLY <1>3, <1>4, <2>2
    <3>3. WaitsIn(w, d, j) \subseteq WaitsIn(new, d2, j)
      <4>1. WaitsIn(w, d, j) \subseteq WaitsBehind(w, d, j) /\ WaitsBehind(w, d, j) \subseteq WaitsIn(new, d2, j)
        BY <1>13, <3>2
      <4>. QED BY ONLY <4>1
    <3>4. Steady(sc2[j], WaitsIn(w, d, j), H2[j])
      BY ONLY <1>2, <3>1
    <3>. QED BY ONLY <3>3, <3>4, SteadyWait
  <2>. QED BY ONLY <2>1, <2>2
<1>16. items = <<>> <=> m = 0
  BY EmptySeq DEF Sequence, m
<1>17. /\ items # <<>> => ~Closer(items[1])
       /\ \A k \in 1..m - 1 : Closer(items[k + 1]) => Shuts(items[k])
       /\ items # <<>> /\ Shuts(w[1]) => Shuts(items[m])
  BY DEF Orderly, m
<1>18. ASSUME NEW k \in 1..Len(new) - 1, Closer(new[k + 1]) PROVE Shuts(new[k])
  <2>0. k \in Nat /\ k >= 1 /\ k <= m + (L - 1) - 1 /\ m \in Nat /\ L \in Nat
    BY ONLY <1>1, k \in 1..Len(new) - 1
  <2>1. CASE k < m
    <3>1. k \in 1..m /\ k + 1 \in 1..m /\ k \in 1..m - 1
      BY ONLY <2>0, <2>1
    <3>. QED BY ONLY <1>1, <1>17, <1>18, <3>1
  <2>2. CASE k = m
    <3>1. k \in 1..m /\ 1 \in 1..L - 1 /\ m # 0
      BY ONLY <2>0, <2>2
    <3>2. new[k + 1] = w[1 + 1] /\ new[k] = items[m]
      BY ONLY <1>1, <2>2, <3>1
    <3>3. Shuts(w[1])
      BY ONLY <1>2, <1>18, <3>1, <3>2
    <3>. QED BY ONLY <1>16, <1>17, <3>1, <3>2, <3>3
  <2>3. CASE k > m
    <3>1. PICK j : j = k - m
      OBVIOUS
    <3>2. j \in 1..L - 1 /\ j + 1 \in 1..L - 1 /\ k = m + j /\ k + 1 = m + (j + 1)
      BY ONLY <2>0, <2>3, <3>1
    <3>3. new[k] = w[j + 1] /\ new[k + 1] = w[(j + 1) + 1]
      BY ONLY <1>1, <3>2
    <3>. QED BY ONLY <1>2, <1>18, <3>2, <3>3
  <2>. QED BY ONLY <2>0, <2>1, <2>2, <2>3
<1>19. ASSUME new # <<>>, Closer(new[1]) PROVE Shut(sc2[n2], WaitsIn(new, d2, n2), H2[n2])
  <2>1. m = 0
    <3>1. ASSUME m # 0 PROVE FALSE
      <4>1. 1 \in 1..m
        BY ONLY <1>1, <3>1
      <4>. QED BY ONLY <1>1, <1>16, <1>17, <1>19, <3>1, <4>1
    <3>. QED BY <3>1
  <2>2. Len(new) # 0
    <3>1. Sequence(new)
      BY Replaced DEF new
    <3>. QED BY <1>19, <3>1, EmptySeq DEF Sequence
  <2>3. 1 \in 1..L - 1 /\ m + 1 = 1
    BY ONLY <1>1, <2>1, <2>2
  <2>4. new[1] = w[1 + 1]
    BY ONLY <1>1, <2>3
  <2>5. Shuts(w[1]) /\ items = <<>>
    BY ONLY <1>2, <1>16, <1>19, <2>1, <2>3, <2>4
  <2>6. Shut(sc2[n2], R, H2[n2])
    BY <2>5 DEF R, n2
  <2>. QED BY ONLY <1>14, <2>6, LevelWait DEF Shut
<1>20. Flow(new, sc2, d2, e2, H2)
  BY <1>10, <1>11, <1>12, <1>15, <1>18, <1>19 DEF Flow, n2
<1>. QED BY <1>20 DEF new

-----------------------------------------------------------------------------
(* The invariant: all code follows its levels, and so will the work left.  *)
Leveled(x) ==
  x.type = COMPILED_FUNCTION_OBJ => (\E h : Follows(x.Instructions, h, {})) /\ CodeReturns(x.Instructions)

LevelPool(pool) == \A k \in 1..Len(pool) : Leveled(pool[k])

LevelInv == LevelPool(constants) /\ (failed \/ \E d, e, H : Flow(todo, scopes, d, e, H))

(* The jumps that the work left will patch are there.                      *)
LEMMA FlowPlaced ==
  ASSUME NEW trees, CInv(trees), ~failed, NEW d, NEW e, NEW H, Flow(todo, scopes, d, e, H)
  PROVE  \A k \in 1..Len(todo) : Patching(todo[k]) => todo[k].pos \in Jumps(scopes[d[k]].instructions)
<1>1. PICK f : Todo(trees, todo, f, scopes)
  BY DEF CInv
<1>2. Len(todo) \in Nat
  BY <1>1, SequenceIsFunction DEF Todo
<1>3. Depth(todo, Len(scopes), f)
  BY <1>1 DEF Todo, Depth
<1>4. Depth(todo, Len(scopes), d)
  BY DEF Flow
<1>5. d = f
  BY <1>2, <1>3, <1>4, DepthUnique
<1>6. \A k \in 1..Len(todo) : Placed(todo[k], scopes[d[k]])
  BY <1>1, <1>5 DEF Todo
<1>. QED BY <1>6 DEF Placed, Patching, Jumps, JumpOps

(* The levels of the items when they are done one after the other.         *)
Path(items, x, y, h) ==
  \E f \in [1..Len(items) + 1 -> Int] :
    /\ f[1] = x /\ f[Len(items) + 1] = y
    /\ \A k \in 1..Len(items) : Flows(items[k], f[k], f[k + 1], h, 0)

(* A stretch of Compile that takes the scope s to t and leaves the items:  *)
(* it and they raise the stack as the item does that they stand for.       *)
Starting(it, s, P, h, y) ==
  /\ Steady(s, P \cup Waits(it), h)
  /\ Flows(it, End(s, h), y, h, 0) /\ End(s, h) \in Int /\ y \in Int
  /\ Closer(it) => Shut(s, P \cup Waits(it), h)

Reaches(it, s, items, t, P, h, y) ==
  \E g : /\ Steady(t, P \cup WaitsOf(items), g) /\ SameJumps(s, h, g) /\ Path(items, End(t, g), y, g)
         /\ items = <<>> /\ Shuts(it) => Shut(t, P \cup WaitsOf(items), g)

Advances(it, s, items, t) == \A P, h, y : Starting(it, s, P, h, y) => Reaches(it, s, items, t, P, h, y)

(* A jump that waits does so for the first item or for a later one.        *)
LEMMA WaitsFirst ==
  ASSUME NEW w, Sequence(w), NEW d, NEW j
  PROVE  /\ WaitsIn(w, d, j) \subseteq WaitsBehind(w, d, j) \cup Waits(w[1])
         /\ d[1] # j => WaitsIn(w, d, j) \subseteq WaitsBehind(w, d, j)
<1>1. Len(w) \in Nat
  BY SequenceIsFunction
<1>2. \A k \in 1..Len(w) : k = 1 \/ k \in 2..Len(w)
  BY <1>1
<1>. QED BY <1>2 DEF WaitsIn, WaitsBehind

(* Such a stretch keeps the levels.                                        *)
LEMMA StretchLevels ==
  ASSUME NEW trees, CInv(trees), LevelInv, ~failed, todo # <<>>, ~Ending(todo[1]),
         NEW items, Sequence(items), \A k \in 1..Len(items) : ~Ending(items[k]), Orderly(todo[1], items),
         NEW t, GoodScope(t), Advances(todo[1], Scope, items, t),
         scopes' = Changed(t), todo' = items \o Tail(todo), LevelPool(constants')
  PROVE  LevelInv'
<1>. DEFINE n == Len(scopes)  m == Len(items)  it == todo[1]  s == scopes[n]
<1>1. GoodScopes(scopes) /\ n \in Nat \ {0} /\ Sequence(todo)
  BY DEF CInv, GoodScopes, Todo
<1>2. PICK sc2 : sc2 = [scopes EXCEPT ![n] = t]
  OBVIOUS
<1>3. scopes' = sc2
  BY <1>2 DEF Changed
<1>4. Len(sc2) = n /\ sc2[n] = t /\ \A k \in 1..n : k # n => sc2[k] = scopes[k]
  <2>1. GoodScopes(scopes) /\ GoodScope(t)
    BY <1>1
  <2>2. LET x == [scopes EXCEPT ![Len(scopes)] = t]
        IN  /\ Len(x) = Len(scopes) /\ x[Len(scopes)] = t
            /\ \A k \in 1..Len(scopes) : k # Len(scopes) => x[k] = scopes[k]
    BY ONLY <2>1, InnermostChanged
  <2>. QED BY <1>2, <2>2
<1>5. PICK d, e, H : Flow(todo, scopes, d, e, H)
  BY DEF LevelInv
<1>6. \A k \in 1..Len(todo) : Patching(todo[k]) => todo[k].pos \in Jumps(scopes[d[k]].instructions)
  BY <1>5, FlowPlaced
<1>7. 1 \in 1..Len(todo) /\ 1 + 1 = 2 /\ 1 \in 1..Len(todo) + 1 /\ 2 \in 1..Len(todo) + 1 /\ n \in 1..n /\ m \in Nat
  BY <1>1, TailOf, SequenceIsFunction
<1>8. Below(it, n) = n /\ d[1] = n
  BY <1>5, BelowOne DEF Flow, Depth
<1>9. /\ e[1] = End(s, H[n]) /\ Flows(it, e[1], e[2], H[n], End(scopes[d[2]], H[d[2]]))
      /\ Closer(it) => Shut(s, WaitsIn(todo, d, n), H[n])
      /\ Steady(s, WaitsIn(todo, d, n), H[n]) /\ e[1] \in Int /\ e[2] \in Int
  BY <1>5, <1>7, <1>8 DEF Flow
<1>10. PICK P, h, y : P = WaitsBehind(todo, d, n) /\ h = H[n] /\ y = e[2]
  OBVIOUS
<1>. DEFINE f == [k \in 1..m + 1 |-> n]
<1>11. f \in [1..m + 1 -> 1..n] /\ \A k \in 1..m + 1 : f[k] = n
  BY <1>1
<1>. HIDE DEF f
<1>12. WaitsIn(todo, d, n) \subseteq P \cup Waits(it)
  BY <1>1, <1>10, WaitsFirst
<1>13. Starting(it, s, P, h, y)
  <2>1. Steady(s, P \cup Waits(it), h)
    BY ONLY <1>9, <1>10, <1>12, SteadyWait
  <2>2. Closer(it) => Shut(s, P \cup Waits(it), h)
    BY ONLY <1>9, <1>10, <1>12, LevelWait DEF Shut
  <2>3. Flows(it, e[1], e[2], H[n], 0)
    <3>1. ~Ending(it)
      OBVIOUS
    <3>. QED BY ONLY <1>9, <3>1, FlowsSame
  <2>4. Flows(it, End(s, h), y, h, 0) /\ End(s, h) \in Int /\ y \in Int
    BY ONLY <1>9, <1>10, <2>3
  <2>. QED BY ONLY <2>1, <2>2, <2>4 DEF Starting
<1>14. Reaches(it, s, items, t, P, h, y)
  BY <1>13 DEF Advances, Scope
<1>15. PICK g : /\ Steady(t, P \cup WaitsOf(items), g) /\ SameJumps(s, h, g) /\ Path(items, End(t, g), y, g)
                /\ items = <<>> /\ Shuts(it) => Shut(t, P \cup WaitsOf(items), g)
  BY ONLY <1>14 DEF Reaches
<1>16. PICK x \in [1..m + 1 -> Int] : /\ x[1] = End(t, g) /\ x[m + 1] = y
                                      /\ \A k \in 1..m : Flows(items[k], x[k], x[k + 1], g, 0)
  BY ONLY <1>15 DEF Path
<1>17. PICK H2 : H2 = [j \in 1..n |-> IF j = n THEN g ELSE H[j]]
  OBVIOUS
<1>18. H2[n] = g /\ \A j \in 1..n : j # n => H2[j] = H[j]
  BY ONLY <1>7, <1>17
<1>19. Given(todo, scopes, H, items, f, x, e[2], sc2, H2)
  <2>1. \A k \in 1..m : k \in 1..m + 1 /\ k + 1 \in 1..m + 1
    BY ONLY <1>7
  <2>1a. 1 \in 1..m + 1 /\ m + 1 \in 1..m + 1
    BY ONLY <1>7
  <2>2. ASSUME NEW k \in 1..m
        PROVE  /\ f[k + 1] = Below(items[k], f[k])
               /\ Flows(items[k], x[k], x[k + 1], H2[f[k]], End(sc2[f[k + 1]], H2[f[k + 1]]))
    <3>1. ~Ending(items[k]) /\ f[k] = n /\ f[k + 1] = n
      BY <1>11, <2>1
    <3>2. Flows(items[k], x[k], x[k + 1], H2[f[k]], 0)
      BY ONLY <1>16, <1>18, <3>1, k \in 1..m
    <3>3. Flows(items[k], x[k], x[k + 1], H2[f[k]], End(sc2[f[k + 1]], H2[f[k + 1]]))
      BY ONLY <3>1, <3>2, FlowsSame
    <3>. QED BY <3>1, <3>3, BelowOne
  <2>3. PatchIn(items, f, n)
    BY <1>11, <2>1 DEF PatchIn
  <2>4. /\ f \in [1..m + 1 -> 1..n] /\ f[1] = n /\ f[m + 1] = Below(it, n)
        /\ x[1] = End(sc2[n], H2[n]) /\ x[m + 1] = e[2] /\ SameJumps(scopes[n], H[n], H2[n])
    BY ONLY <1>4, <1>8, <1>10, <1>11, <1>15, <1>16, <1>18, <2>1a
  <2>. QED BY <1>4, <1>16, <1>18, <2>2, <2>3, <2>4 DEF Given
<1>20. /\ Steady(sc2[n], WaitsBehind(todo, d, n) \cup WaitsOf(items), H2[n])
       /\ items = <<>> /\ Shuts(it) => Shut(sc2[n], WaitsBehind(todo, d, n) \cup WaitsOf(items), H2[n])
  BY ONLY <1>4, <1>10, <1>15, <1>18
<1>21. \E d2, e2 : Flow(items \o Tail(todo), sc2, d2, e2, H2)
  <2>1. /\ Sequence(todo) /\ todo # <<>> /\ Len(scopes) \in Nat \ {0} /\ Sequence(items) /\ Orderly(todo[1], items)
        /\ Len(sc2) \in Nat \ {0} /\ Len(sc2) = n
    BY <1>1, <1>4
  <2>2. /\ Steady(sc2[Len(sc2)], WaitsBehind(todo, d, Len(sc2)) \cup WaitsOf(items), H2[Len(sc2)])
        /\ items = <<>> /\ Shuts(todo[1]) =>
             Shut(sc2[Len(sc2)], WaitsBehind(todo, d, Len(sc2)) \cup WaitsOf(items), H2[Len(sc2)])
    BY ONLY <1>20, <2>1
  <2>. QED BY ONLY <1>5, <1>6, <1>19, <2>1, <2>2, FlowContinues
<1>. QED BY <1>3, <1>21 DEF LevelInv

-----------------------------------------------------------------------------
(* The items raise the stack as the item does.                             *)
StandsFor(items, it) == \A x \in Int, y \in Int : \A h : Flows(it, x, y, h, 0) => Path(items, x, y, h)

(* The calls that only leave work.                                         *)
LEMMA VisitLevels ==
  ASSUME NEW trees, CInv(trees), LevelInv, NEW kinds, At(kinds),
         NEW items, Sequence(items), \A k \in 1..Len(items) : ~Ending(items[k]), Orderly(todo[1], items),
         Shuts(todo[1]) => items # <<>>, StandsFor(items, todo[1]),
         scopes' = scopes, todo' = items \o Tail(todo), constants' = constants
  PROVE  LevelInv'
<1>1. todo # <<>> /\ todo[1].do = "visit" /\ ~failed /\ Waits(todo[1]) = {} /\ GoodScope(Scope)
  BY AtNode, AtHead
<1>2. ~Ending(todo[1]) /\ ~Closer(todo[1])
  BY <1>1 DEF Ending, Closer
<1>3. scopes' = Changed(Scope)
  <2>1. GoodScopes(scopes)
    BY DEF CInv
  <2>2. scopes = [k \in 1..Len(scopes) |-> scopes[k]]
    BY <2>1, SequenceIsFunction DEF GoodScopes
  <2>. QED BY <2>2 DEF Changed, Scope
<1>4. Advances(todo[1], Scope, items, Scope)
  <2>. SUFFICES ASSUME NEW P, NEW h, NEW y, Starting(todo[1], Scope, P, h, y)
                PROVE  Reaches(todo[1], Scope, items, Scope, P, h, y)
    BY DEF Advances
  <2>1. Steady(Scope, P \cup WaitsOf(items), h)
    <3>1. P \cup Waits(todo[1]) \subseteq P \cup WaitsOf(items) /\ Steady(Scope, P \cup Waits(todo[1]), h)
      BY <1>1 DEF Starting
    <3>. QED BY ONLY <3>1, SteadyWait
  <2>2. Path(items, End(Scope, h), y, h)
    BY DEF Starting, StandsFor
  <2>3. SameJumps(Scope, h, h)
    BY DEF SameJumps
  <2>. QED BY <2>1, <2>2, <2>3 DEF Reaches
<1>5. LevelPool(constants')
  BY DEF LevelInv
<1>. QED BY <1>1, <1>2, <1>3, <1>4, <1>5, StretchLevels

(* n expressions and an item that takes their values.                      *)
Operand(it) == it.do = "visit" /\ it.node.kind \in ExpressionKinds

Collects(items, n, last) ==
  /\ Sequence(items) /\ n \in Nat /\ Len(items) = n + 1 /\ items[n + 1] = last
  /\ \A k \in 1..n : Operand(items[k])

Finishes(last, n, r) ==
  /\ last.do \in {"emit", "then", "abort"} /\ Needs(last) \in Int /\ Needs(last) <= n /\ Rise(last) \in Int
  /\ last.do = "emit" => Counts(last.op, last.operands)
  /\ last.do = "abort" \/ n + Rise(last) = r

(* An expression raises the stack by one.                                  *)
LEMMA OperandFlows ==
  ASSUME NEW it, Operand(it), NEW x \in Int, x >= 0, NEW h, NEW base
  PROVE  Flows(it, x, x + 1, h, base) /\ ~Ending(it) /\ ~Closer(it)
<1>1. Rise(it) = 1 /\ Needs(it) = 0 /\ it.do # "emit" /\ ~Patching(it) /\ ~Closer(it)
  BY DEF Operand, Rise, Needs, Patching, Closer
<1>2. ~Ending(it)
  BY DEF Operand, Ending
<1>. QED BY <1>1, <1>2 DEF Flows

(* Their levels.                                                           *)
LEMMA CollectPath ==
  ASSUME NEW items, NEW n, NEW last, Collects(items, n, last), NEW r \in Int, Finishes(last, n, r),
         NEW x \in Int, x >= 0, NEW y \in Int, NEW h, y = x + r
  PROVE  Path(items, x, y, h)
<1>1. n \in Nat /\ Len(items) = n + 1 /\ items[n + 1] = last /\ \A k \in 1..n : Operand(items[k])
  BY DEF Collects
<1>2. PICK f : f = [k \in 1..(n + 1) + 1 |-> IF k <= n + 1 THEN x + (k - 1) ELSE y]
  OBVIOUS
<1>3. f \in [1..(n + 1) + 1 -> Int] /\ f[1] = x /\ f[(n + 1) + 1] = y /\ f[n + 1] = x + n
  BY <1>1, <1>2
<1>4. ASSUME NEW k \in 1..n PROVE Flows(items[k], f[k], f[k + 1], h, 0)
  <2>1. f[k] = x + (k - 1) /\ f[k + 1] = x + ((k + 1) - 1)
    BY <1>1, <1>2
  <2>2. f[k] \in Int /\ f[k] >= 0 /\ f[k + 1] = f[k] + 1
    BY <1>1, <2>1
  <2>3. Operand(items[k])
    BY <1>1
  <2>. QED BY ONLY <2>2, <2>3, OperandFlows
<1>5. Flows(last, x + n, y, h, 0)
  <2>1. /\ Needs(last) \in Int /\ Needs(last) <= n /\ Rise(last) \in Int
        /\ last.do = "emit" => Counts(last.op, last.operands)
        /\ last.do = "abort" \/ n + Rise(last) = r
    BY DEF Finishes
  <2>2. ~Patching(last)
    BY DEF Finishes, Patching
  <2>3. ~Ending(last)
    BY DEF Finishes, Ending
  <2>5. x + n >= 0 /\ x + n >= Needs(last)
    BY <1>1, <2>1
  <2>6. last.do = "abort" \/ y = (x + n) + Rise(last)
    BY <1>1, <2>1
  <2>. QED BY <2>1, <2>2, <2>3, <2>5, <2>6 DEF Flows
<1>6. ASSUME NEW k \in 1..Len(items) PROVE Flows(items[k], f[k], f[k + 1], h, 0)
  <2>1. k \in 1..n \/ k = n + 1
    BY <1>1
  <2>. QED BY <1>1, <1>3, <1>4, <1>5, <2>1
<1>. QED BY <1>1, <1>3, <1>6 DEF Path

(* Its levels, in the invariant.                                           *)
LEMMA CollectLevels ==
  ASSUME NEW trees, CInv(trees), LevelInv, NEW kinds, At(kinds),
         NEW items, NEW n, NEW last, Collects(items, n, last), NEW r \in Int, Rise(todo[1]) = r,
         Finishes(last, n, r), Shuts(todo[1]) => Shuts(last),
         scopes' = scopes, todo' = items \o Tail(todo), constants' = constants
  PROVE  LevelInv'
<1>1. /\ n \in Nat /\ Len(items) = n + 1 /\ items[n + 1] = last /\ Sequence(items)
      /\ \A k \in 1..n : Operand(items[k])
  BY DEF Collects
<1>2. ~Ending(last) /\ ~Closer(last)
  BY DEF Finishes, Ending, Closer
<1>3. \A k \in 1..n : ~Ending(items[k]) /\ ~Closer(items[k])
  <2>1. 0 \in Int /\ 0 >= 0
    OBVIOUS
  <2>. QED BY <1>1, <2>1, OperandFlows
<1>4. \A k \in 1..Len(items) : k \in 1..n \/ k = n + 1
  BY <1>1
<1>5. \A k \in 1..Len(items) : ~Ending(items[k]) /\ ~Closer(items[k])
  BY <1>1, <1>2, <1>3, <1>4
<1>6. Len(items) # 0 /\ 1 \in 1..Len(items) /\ \A k \in 1..Len(items) - 1 : k + 1 \in 1..Len(items)
  BY <1>1
<1>7. items # <<>>
  BY <1>6
<1>8. Orderly(todo[1], items)
  BY <1>1, <1>5, <1>6 DEF Orderly
<1>9. todo[1].do = "visit"
  BY AtNode
<1>10. ~Ending(todo[1])
  BY <1>9 DEF Ending
<1>11. ASSUME NEW x \in Int, NEW y \in Int, NEW h, Flows(todo[1], x, y, h, 0) PROVE Path(items, x, y, h)
  <2>1. x >= 0 /\ y = x + r
    BY <1>9, <1>10, <1>11 DEF Flows
  <2>. QED BY <2>1, CollectPath
<1>12. StandsFor(items, todo[1])
  BY <1>11 DEF StandsFor
<1>13. \A k \in 1..Len(items) : ~Ending(items[k])
  BY <1>5
<1>. QED BY <1>1, <1>7, <1>8, <1>12, <1>13, VisitLevels

(* What a call of Compile raises, and when it ends in a pop or a return.   *)
LEMMA CallRaises ==
  ASSUME NEW trees, CInv(trees), NEW kinds, At(kinds)
  PROVE  /\ Node.kind \in ExpressionKinds => Rise(todo[1]) = 1
         /\ Node.kind \notin ExpressionKinds => Rise(todo[1]) = 0
         /\ Shuts(todo[1]) => \/ Node.kind \in {"ExpressionStatement", "ReturnStatement"}
                              \/ Node.kind \in BlockKinds /\ EndsInValue(Node)
<1>1. todo[1].do = "visit" /\ todo[1].node = Node
  BY AtNode
<1>. QED BY <1>1 DEF Rise, Shuts, Block

(* n values, i less, j more, are r.                                        *)
Nets(n, i, j, r) == n \in Int /\ i \in Int /\ j \in Int /\ i <= n /\ (n - i) + j = r

(* An emit that takes the values of the calls before it.                   *)
LEMMA EmitFinishes ==
  ASSUME NEW op, NEW operands, NEW n, NEW r, Nets(n, Takes(op, operands), Pushes(op), r), Counts(op, operands)
  PROVE  Finishes(Emits(op, operands), n, r) /\ (op \in {OpPop, OpReturnValue} => Shuts(Emits(op, operands)))
<1>1. PICK it, i, j : it = Emits(op, operands) /\ i = Takes(op, operands) /\ j = Pushes(op)
  OBVIOUS
<1>2. it.do = "emit" /\ it.op = op /\ it.operands = operands
  BY <1>1 DEF Emits
<1>3. Needs(it) = i /\ Rise(it) = j - i
  BY <1>1, <1>2 DEF Needs, Rise
<1>4. n + (j - i) = r /\ j - i \in Int /\ i \in Int /\ i <= n
  BY <1>1 DEF Nets
<1>. QED BY <1>1, <1>2, <1>3, <1>4 DEF Finishes, Shuts

(* An operator, or the error that there is none.                           *)
LEMMA OperatorFinishes ==
  ASSUME NEW o
  PROVE  /\ Finishes(EmitsOperator(InfixOpcode, o), 2, 1)
         /\ Finishes(EmitsOperator(PrefixOpcode, o), 1, 1)
<1>1. Finishes(Abort, 2, 1) /\ Finishes(Abort, 1, 1)
  BY DEF Finishes, Abort, Needs, Rise, Closer
<1>2. ASSUME o \in DOMAIN InfixOpcode PROVE Finishes(EmitsOperator(InfixOpcode, o), 2, 1)
  <2>1. InfixOpcode[o] \in {OpAdd, OpSub, OpMul, OpDiv, OpEqual, OpNotEqual, OpGreaterThan, OpIndex}
    BY <1>2 DEF InfixOpcode
  <2>2. PICK op : op = InfixOpcode[o]
    OBVIOUS
  <2>3. Takes(op, <<>>) = 2 /\ Pushes(op) = 1 /\ Counts(op, <<>>)
    BY <2>1, <2>2, TakesTable
  <2>4. Nets(2, Takes(op, <<>>), Pushes(op), 1)
    BY <2>3 DEF Nets
  <2>5. Finishes(Emits(op, <<>>), 2, 1)
    BY ONLY <2>3, <2>4, EmitFinishes
  <2>. QED BY <1>2, <2>2, <2>5 DEF EmitsOperator
<1>3. ASSUME o \in DOMAIN PrefixOpcode PROVE Finishes(EmitsOperator(PrefixOpcode, o), 1, 1)
  <2>1. PrefixOpcode[o] \in {OpMinus, OpBang}
    BY <1>3 DEF PrefixOpcode
  <2>2. PICK op : op = PrefixOpcode[o]
    OBVIOUS
  <2>3. Takes(op, <<>>) = 1 /\ Pushes(op) = 1 /\ Counts(op, <<>>)
    BY <2>1, <2>2, TakesTable
  <2>4. Nets(1, Takes(op, <<>>), Pushes(op), 1)
    BY <2>3 DEF Nets
  <2>5. Finishes(Emits(op, <<>>), 1, 1)
    BY ONLY <2>3, <2>4, EmitFinishes
  <2>. QED BY <1>3, <2>2, <2>5 DEF EmitsOperator
<1>4. /\ o \notin DOMAIN InfixOpcode => EmitsOperator(InfixOpcode, o) = Abort
      /\ o \notin DOMAIN PrefixOpcode => EmitsOperator(PrefixOpcode, o) = Abort
  BY DEF EmitsOperator
<1>. QED BY ONLY <1>1, <1>2, <1>3, <1>4

(* One or two calls and what comes behind them.                            *)
LEMMA CollectFew ==
  ASSUME NEW a, Operand(a), NEW b, Operand(b), NEW last
  PROVE  Collects(<<a, last>>, 1, last) /\ Collects(<<a, b, last>>, 2, last)
<1>1. Collects(<<a, last>>, 1, last)
  <2>1. PICK w : w = <<a, last>>
    OBVIOUS
  <2>2. Sequence(w) /\ Len(w) = 2 /\ w[1] = a /\ w[2] = last
    BY ONLY <2>1, Tuples
  <2>3. \A k \in 1..1 : k = 1
    OBVIOUS
  <2>. QED BY <2>1, <2>2, <2>3 DEF Collects
<1>2. Collects(<<a, b, last>>, 2, last)
  <2>1. PICK w : w = <<a, b, last>>
    OBVIOUS
  <2>2. Sequence(w) /\ Len(w) = 3 /\ w[1] = a /\ w[2] = b /\ w[3] = last
    BY ONLY <2>1, Tuples
  <2>3. \A k \in 1..2 : k = 1 \/ k = 2
    OBVIOUS
  <2>. QED BY <2>1, <2>2, <2>3 DEF Collects
<1>. QED BY <1>1, <1>2

(* A call for an expression.                                               *)
LEMMA OperandOf ==
  ASSUME NEW trees, NEW n \in Of(trees, ExpressionKinds)
  PROVE  Operand(Visit(n))
BY DEF Operand, Visit, Of

(* The calls with a fixed number of parts (compiler.go:72-147, 305-326).   *)
LEMMA PartsLevels ==
  ASSUME NEW trees, Grammar(trees), CInv(trees), LevelInv,
         \/ CompileExpressionStatement \/ CompileReturnStatement \/ CompileInfixExpression
         \/ CompilePrefixExpression \/ CompileIndexExpression \/ CompileIfExpression
  PROVE  LevelInv'
<1>. DEFINE E == Of(trees, ExpressionKinds)
<1>0. /\ "ExpressionStatement" \notin ExpressionKinds /\ "ReturnStatement" \notin ExpressionKinds
      /\ "ExpressionStatement" \in StatementKinds /\ "ReturnStatement" \in StatementKinds
      /\ {"InfixExpression", "PrefixExpression", "IndexExpression", "IfExpression"} \subseteq ExpressionKinds
      /\ \A k \in {"InfixExpression", "PrefixExpression", "IndexExpression", "IfExpression"} :
           k \notin {"ExpressionStatement", "ReturnStatement"} /\ k \notin BlockKinds
      /\ 0 \in Int /\ 1 \in Int
  BY DEF ExpressionKinds, StatementKinds, BlockKinds
<1>1. CASE CompileExpressionStatement
  <2>1. PICK a, b, items : a = Visit(Node.Expr) /\ b = Emits(OpPop, <<>>) /\ items = <<a, b>>
    OBVIOUS
  <2>2. At({"ExpressionStatement"}) /\ todo' = items \o Tail(todo) /\ scopes' = scopes /\ constants' = constants
    BY <1>1, <2>1 DEF CompileExpressionStatement, OnlyVisits, Continue
  <2>3. Node \in trees /\ Node.kind = "ExpressionStatement"
    BY <2>2, AtNode
  <2>4. Node.Expr \in E
    BY <1>0, <2>3 DEF Grammar
  <2>5. Collects(items, 1, b)
    BY <2>1, <2>4, OperandOf, CollectFew
  <2>6. Rise(todo[1]) = 0
    BY <1>0, <2>2, <2>3, CallRaises
  <2>7. Nets(1, Takes(OpPop, <<>>), Pushes(OpPop), 0) /\ Counts(OpPop, <<>>)
    BY TakesTable DEF Nets
  <2>8. Finishes(b, 1, 0) /\ Shuts(b)
    BY <2>1, <2>7, EmitFinishes
  <2>. QED BY <1>0, <2>2, <2>5, <2>6, <2>8, CollectLevels
<1>2. CASE CompileReturnStatement
  <2>1. PICK a, b, items : a = Visit(Node.Expr) /\ b = Emits(OpReturnValue, <<>>) /\ items = <<a, b>>
    OBVIOUS
  <2>2. At({"ReturnStatement"}) /\ todo' = items \o Tail(todo) /\ scopes' = scopes /\ constants' = constants
    BY <1>2, <2>1 DEF CompileReturnStatement, OnlyVisits, Continue
  <2>3. Node \in trees /\ Node.kind = "ReturnStatement"
    BY <2>2, AtNode
  <2>4. Node.Expr \in E
    BY <1>0, <2>3 DEF Grammar
  <2>5. Collects(items, 1, b)
    BY <2>1, <2>4, OperandOf, CollectFew
  <2>6. Rise(todo[1]) = 0
    BY <1>0, <2>2, <2>3, CallRaises
  <2>7. Nets(1, Takes(OpReturnValue, <<>>), Pushes(OpReturnValue), 0) /\ Counts(OpReturnValue, <<>>)
    BY TakesTable DEF Nets
  <2>8. Finishes(b, 1, 0) /\ Shuts(b)
    BY <2>1, <2>7, EmitFinishes
  <2>. QED BY <1>0, <2>2, <2>5, <2>6, <2>8, CollectLevels
<1>3. ASSUME NEW kinds, At(kinds), kinds \subseteq {"InfixExpression", "PrefixExpression", "IndexExpression", "IfExpression"}
      PROVE  Rise(todo[1]) = 1 /\ ~Shuts(todo[1]) /\ Node \in trees /\ Node.kind \in kinds
  BY <1>0, <1>3, AtNode, CallRaises
<1>4. CASE CompileInfixExpression
  <2>1. PICK l, r, g, o, items :
          /\ l = Visit(Node.Left) /\ r = Visit(Node.Right) /\ g = Emits(OpGreaterThan, <<>>)
          /\ o = EmitsOperator(InfixOpcode, Node.Operator)
          /\ items = IF Node.Operator = "<" THEN <<r, l, g>> ELSE <<l, r, o>>
    OBVIOUS
  <2>2. At({"InfixExpression"}) /\ todo' = items \o Tail(todo) /\ scopes' = scopes /\ constants' = constants
    BY <1>4, <2>1 DEF CompileInfixExpression, OnlyVisits, Continue
  <2>3. Rise(todo[1]) = 1 /\ ~Shuts(todo[1]) /\ Node \in trees /\ Node.kind = "InfixExpression"
    BY <1>3, <2>2
  <2>4. Node.Left \in E /\ Node.Right \in E
    BY <2>3 DEF Grammar
  <2>5. Operand(l) /\ Operand(r)
    BY <2>1, <2>4, OperandOf
  <2>6. Finishes(g, 2, 1) /\ Finishes(o, 2, 1)
    <3>1. Nets(2, Takes(OpGreaterThan, <<>>), Pushes(OpGreaterThan), 1) /\ Counts(OpGreaterThan, <<>>)
      BY TakesTable DEF Nets
    <3>. QED BY <2>1, <3>1, EmitFinishes, OperatorFinishes
  <2>7. PICK last : Collects(items, 2, last) /\ Finishes(last, 2, 1)
    <3>1. Collects(<<r, l, g>>, 2, g) /\ Collects(<<l, r, o>>, 2, o)
      BY <2>5, CollectFew
    <3>2. items = <<r, l, g>> \/ items = <<l, r, o>>
      BY <2>1
    <3>. QED BY ONLY <2>6, <3>1, <3>2
  <2>. QED BY <1>0, <2>2, <2>3, <2>7, CollectLevels
<1>5. CASE CompilePrefixExpression
  <2>1. PICK a, b, items : /\ a = Visit(Node.Right) /\ b = EmitsOperator(PrefixOpcode, Node.Operator)
                           /\ items = <<a, b>>
    OBVIOUS
  <2>2. At({"PrefixExpression"}) /\ todo' = items \o Tail(todo) /\ scopes' = scopes /\ constants' = constants
    BY <1>5, <2>1 DEF CompilePrefixExpression, OnlyVisits, Continue
  <2>3. Rise(todo[1]) = 1 /\ ~Shuts(todo[1]) /\ Node \in trees /\ Node.kind = "PrefixExpression"
    BY <1>3, <2>2
  <2>4. Node.Right \in E
    BY <2>3 DEF Grammar
  <2>5. Collects(items, 1, b) /\ Finishes(b, 1, 1)
    BY <2>1, <2>4, OperandOf, CollectFew, OperatorFinishes
  <2>. QED BY <1>0, <2>2, <2>3, <2>5, CollectLevels
<1>6. CASE CompileIndexExpression
  <2>1. PICK a, b, c, items : /\ a = Visit(Node.Left) /\ b = Visit(Node.Index) /\ c = Emits(OpIndex, <<>>)
                              /\ items = <<a, b, c>>
    OBVIOUS
  <2>2. At({"IndexExpression"}) /\ todo' = items \o Tail(todo) /\ scopes' = scopes /\ constants' = constants
    BY <1>6, <2>1 DEF CompileIndexExpression, OnlyVisits, Continue
  <2>3. Rise(todo[1]) = 1 /\ ~Shuts(todo[1]) /\ Node \in trees /\ Node.kind = "IndexExpression"
    BY <1>3, <2>2
  <2>4. Node.Left \in E /\ Node.Index \in E
    BY <2>3 DEF Grammar
  <2>5. Collects(items, 2, c)
    BY <2>1, <2>4, OperandOf, CollectFew
  <2>6. Nets(2, Takes(OpIndex, <<>>), Pushes(OpIndex), 1) /\ Counts(OpIndex, <<>>)
    BY TakesTable DEF Nets
  <2>7. Finishes(c, 2, 1)
    BY <2>1, <2>6, EmitFinishes
  <2>. QED BY <1>0, <2>2, <2>3, <2>5, <2>7, CollectLevels
<1>7. CASE CompileIfExpression
  <2>1. PICK a, b, items : a = Visit(Node.Condition) /\ b = Then(Node) /\ items = <<a, b>>
    OBVIOUS
  <2>2. At({"IfExpression"}) /\ todo' = items \o Tail(todo) /\ scopes' = scopes /\ constants' = constants
    BY <1>7, <2>1 DEF CompileIfExpression, OnlyVisits, Continue
  <2>3. Rise(todo[1]) = 1 /\ ~Shuts(todo[1]) /\ Node \in trees /\ Node.kind = "IfExpression"
    BY <1>3, <2>2
  <2>4. Node.Condition \in E
    BY <2>3 DEF Grammar
  <2>5. Collects(items, 1, b)
    BY <2>1, <2>4, OperandOf, CollectFew
  <2>6. Finishes(b, 1, 1)
    BY <2>1 DEF Finishes, Then, Needs, Rise, Closer
  <2>. QED BY <1>0, <2>2, <2>3, <2>5, <2>6, CollectLevels
<1>. QED BY <1>1, <1>2, <1>4, <1>5, <1>6, <1>7

(* LetStatement (compiler.go:186-197).                                     *)
LEMMA LetLevels ==
  ASSUME NEW trees, Grammar(trees), CInv(trees), LevelInv, CompileLetStatement
  PROVE  LevelInv'
<1>1. PICK op, o, a, b, items :
        /\ op \in {OpSetGlobal, OpSetLocal} /\ o = Symbols!DefinedSymbol(symbolTable, Node.Name).Index
        /\ a = Visit(Node.Expr) /\ b = Emits(op, <<o>>) /\ items = <<a, b>>
        /\ At({"LetStatement"}) /\ todo' = items \o Tail(todo) /\ scopes' = scopes /\ constants' = constants
  BY DEF CompileLetStatement, Continue
<1>2. Node \in trees /\ Node.kind = "LetStatement"
  BY <1>1, AtNode
<1>3. /\ "LetStatement" \in StatementKinds /\ "LetStatement" \notin ExpressionKinds
      /\ "LetStatement" \notin BlockKinds /\ "LetStatement" \notin {"ExpressionStatement", "ReturnStatement"}
      /\ 0 \in Int
  BY DEF StatementKinds, ExpressionKinds, BlockKinds
<1>4. Rise(todo[1]) = 0 /\ ~Shuts(todo[1])
  BY <1>1, <1>2, <1>3, CallRaises
<1>5. Node.Expr \in Of(trees, ExpressionKinds)
  BY <1>2, <1>3 DEF Grammar
<1>6. Collects(items, 1, b)
  BY <1>1, <1>5, OperandOf, CollectFew
<1>7. Takes(op, <<o>>) = 1 /\ Pushes(op) = 0 /\ Counts(op, <<o>>)
  <2>1. op \in {OpPop, OpReturnValue, OpSetGlobal, OpSetLocal}
    BY <1>1
  <2>. QED BY ONLY <2>1, TakesTable
<1>8. Nets(1, Takes(op, <<o>>), Pushes(op), 0)
  BY <1>7 DEF Nets
<1>9. Finishes(b, 1, 0)
  BY <1>1, <1>7, <1>8, EmitFinishes
<1>. QED BY <1>1, <1>3, <1>4, <1>6, <1>9, CollectLevels

(* A list of calls and what comes behind it.                               *)
LEMMA CollectMany ==
  ASSUME NEW v, Sequence(v), \A k \in 1..Len(v) : Operand(v[k]), NEW last
  PROVE  Collects(Append(v, last), Len(v), last)
<1>1. PICK a, n : a = Append(v, last) /\ n = Len(v)
  OBVIOUS
<1>2. /\ Sequence(a) /\ Len(a) = n + 1 /\ n \in Nat /\ \A k \in 1..n : a[k] = v[k]
      /\ a[n + 1] = last
  BY <1>1, AppendedTo
<1>. QED BY <1>1, <1>2 DEF Collects

(* A call and a list of calls.                                             *)
LEMMA OneInFront ==
  ASSUME NEW v, Sequence(v), \A k \in 1..Len(v) : Operand(v[k]), NEW x, Operand(x)
  PROVE  /\ Sequence(<<x>> \o v) /\ Len(<<x>> \o v) = Len(v) + 1
         /\ \A k \in 1..Len(<<x>> \o v) : Operand((<<x>> \o v)[k])
<1>1. PICK one : one = <<x>>
  OBVIOUS
<1>2. Sequence(one) /\ Len(one) = 1 /\ one[1] = x /\ Len(one) \in Nat
  BY <1>1, Tuples
<1>3. PICK both : both = one \o v
  OBVIOUS
<1>4. /\ Sequence(both) /\ Len(v) \in Nat /\ DOMAIN both = 1..(Len(one) + Len(v))
      /\ \A k \in 1..Len(one) : both[k] = one[k]
      /\ \A k \in 1..Len(v) : both[Len(one) + k] = v[k]
  <2>1. Sequence(v) /\ Sequence(one) /\ Len(one) \in Nat
    BY <1>2
  <2>2. /\ Sequence(one \o v) /\ Len(v) \in Nat /\ DOMAIN (one \o v) = 1..(Len(one) + Len(v))
        /\ \A k \in 1..Len(one) : (one \o v)[k] = one[k]
        /\ \A k \in 1..Len(v) : (one \o v)[Len(one) + k] = v[k]
    BY ONLY <2>1, Pushed
  <2>. QED BY ONLY <1>3, <2>2
<1>5. Len(both) = Len(v) + 1
  <2>1. both = [k \in 1..1 + Len(v) |-> both[k]]
    BY <1>2, <1>4, SequenceIsFunction
  <2>2. Len(both) = 1 + Len(v)
    BY <1>4, <2>1, FunctionIsSequence
  <2>. QED BY <1>4, <2>2
<1>6. ASSUME NEW k \in 1..Len(both) PROVE Operand(both[k])
  <2>1. k = 1 \/ (k - 1 \in 1..Len(v) /\ k = 1 + (k - 1))
    BY <1>4, <1>5
  <2>2. both[1] = x /\ \A j \in 1..Len(v) : both[1 + j] = v[j]
    BY <1>2, <1>4
  <2>. QED BY <2>1, <2>2
<1>. QED BY <1>1, <1>3, <1>4, <1>5, <1>6

(* The calls for a list of expressions.                                    *)
LEMMA OperandsOf ==
  ASSUME NEW trees, NEW nodes \in Seq(Of(trees, ExpressionKinds))
  PROVE  /\ Sequence(Visits(nodes)) /\ Len(Visits(nodes)) = Len(nodes) /\ Len(nodes) \in Nat
         /\ \A k \in 1..Len(Visits(nodes)) : Operand(Visits(nodes)[k])
<1>1. PICK S : S = Of(trees, ExpressionKinds)
  OBVIOUS
<1>2. S \subseteq Of(trees, StatementKinds \cup ExpressionKinds)
  BY <1>1 DEF Of
<1>3. /\ Sequence(Visits(nodes)) /\ Len(Visits(nodes)) = Len(nodes) /\ Len(nodes) \in Nat
      /\ \A k \in 1..Len(nodes) : /\ Visits(nodes)[k] = Visit(nodes[k]) /\ nodes[k] \in S
                                  /\ Calm(trees, Visits(nodes)[k]) /\ ~Demands(Visits(nodes)[k])
  <2>1. nodes \in Seq(S)
    BY <1>1
  <2>. QED BY ONLY <1>2, <2>1, VisitsItems
<1>4. \A k \in 1..Len(nodes) : Operand(Visits(nodes)[k])
  BY <1>1, <1>3, OperandOf
<1>. QED BY <1>3, <1>4

(* The literals and calls with a list of parts (compiler.go:222-266,       *)
(* 312-326): their operand can count the parts.                            *)
LEMMA ListLevels ==
  ASSUME NEW trees, Grammar(trees), Valued(trees), CInv(trees), LevelInv,
         CompileArrayLiteral \/ CompileCallExpression \/ CompileHashLiteral
  PROVE  LevelInv'
<1>. DEFINE E == Of(trees, ExpressionKinds)
<1>0. /\ {"ArrayLiteral", "CallExpression", "HashLiteral"} \subseteq ExpressionKinds
      /\ \A k \in {"ArrayLiteral", "CallExpression", "HashLiteral"} :
           k \notin {"ExpressionStatement", "ReturnStatement"} /\ k \notin BlockKinds
      /\ 1 \in Int
  BY DEF ExpressionKinds, BlockKinds
<1>1. ASSUME NEW kinds, At(kinds), kinds \subseteq {"ArrayLiteral", "CallExpression", "HashLiteral"}
      PROVE  Rise(todo[1]) = 1 /\ ~Shuts(todo[1]) /\ Node \in trees /\ Node.kind \in kinds
  BY <1>0, <1>1, AtNode, CallRaises
<1>2. ASSUME NEW i \in Nat PROVE Nets(i, i, 1, 1)
  BY DEF Nets
<1>3. CASE CompileArrayLiteral
  <2>1. PICK v, n, x, items : /\ v = Visits(Node.Elements) /\ n = Len(Node.Elements) /\ x = Emits(OpArray, <<n>>)
                              /\ items = Append(v, x)
    OBVIOUS
  <2>2. At({"ArrayLiteral"}) /\ todo' = items \o Tail(todo) /\ scopes' = scopes /\ constants' = constants
    BY <1>3, <2>1 DEF CompileArrayLiteral, OnlyVisits, Continue
  <2>3. Rise(todo[1]) = 1 /\ ~Shuts(todo[1]) /\ Node \in trees /\ Node.kind = "ArrayLiteral"
    BY <1>1, <2>2
  <2>4. Node.Elements \in Seq(E) /\ n < ByteSize * ByteSize
    BY <2>1, <2>3 DEF Grammar, Valued
  <2>5. Sequence(v) /\ Len(v) = n /\ n \in Nat /\ \A k \in 1..Len(v) : Operand(v[k])
    BY <2>1, <2>4, OperandsOf
  <2>6. Collects(items, n, x)
    BY <2>1, <2>5, CollectMany
  <2>7. Takes(OpArray, <<n>>) = n /\ Pushes(OpArray) = 1 /\ Counts(OpArray, <<n>>)
    <3>1. OpArray \notin {OpCall, OpClosure} /\ <<n>>[1] = n
      BY DEF OpArray, OpCall, OpClosure
    <3>. QED BY <2>4, <3>1, TakesTable DEF Counts
  <2>8. Finishes(x, n, 1)
    BY <1>2, <2>1, <2>5, <2>7, EmitFinishes
  <2>. QED BY <1>0, <2>2, <2>3, <2>6, <2>8, CollectLevels
<1>4. CASE CompileCallExpression
  <2>1. PICK f, v, n, x, both, items :
          /\ f = Visit(Node.Function) /\ v = Visits(Node.Arguments) /\ n = Len(Node.Arguments)
          /\ x = Emits(OpCall, <<n>>) /\ both = <<f>> \o v /\ items = Append(both, x)
    OBVIOUS
  <2>2. At({"CallExpression"}) /\ todo' = items \o Tail(todo) /\ scopes' = scopes /\ constants' = constants
    BY <1>4, <2>1 DEF CompileCallExpression, OnlyVisits, Continue
  <2>3. Rise(todo[1]) = 1 /\ ~Shuts(todo[1]) /\ Node \in trees /\ Node.kind = "CallExpression"
    BY <1>1, <2>2
  <2>4. Node.Function \in E /\ Node.Arguments \in Seq(E) /\ n < ByteSize
    BY <2>1, <2>3 DEF Grammar, Valued
  <2>5. /\ Sequence(v) /\ Len(v) = n /\ n \in Nat /\ \A k \in 1..Len(v) : Operand(v[k])
        /\ Operand(f)
    BY <2>1, <2>4, OperandsOf, OperandOf
  <2>6. Sequence(both) /\ Len(both) = n + 1 /\ \A k \in 1..Len(both) : Operand(both[k])
    BY <2>1, <2>5, OneInFront
  <2>7. Collects(items, n + 1, x)
    <3>1. Collects(items, Len(both), x)
      BY <2>1, <2>6, CollectMany
    <3>. QED BY <2>6, <3>1
  <2>8. Takes(OpCall, <<n>>) = n + 1 /\ Pushes(OpCall) = 1 /\ Counts(OpCall, <<n>>)
    <3>1. OpCall \notin {OpArray, OpHash, OpClosure} /\ <<n>>[1] = n
      BY DEF OpArray, OpHash, OpCall, OpClosure
    <3>. QED BY <2>4, <3>1, TakesTable DEF Counts
  <2>9. n + 1 \in Nat
    BY <2>5
  <2>10. Finishes(x, n + 1, 1)
    <3>1. PICK i : i = n + 1
      OBVIOUS
    <3>2. Nets(i, Takes(OpCall, <<n>>), Pushes(OpCall), 1)
      BY <1>2, <2>8, <2>9, <3>1
    <3>. QED BY <2>1, <2>8, <3>1, <3>2, EmitFinishes
  <2>. QED BY <1>0, <2>2, <2>3, <2>7, <2>10, CollectLevels
<1>5. CASE CompileHashLiteral
  <2>1. PICK n, m, x : n = Len(Node.Pairs) /\ m = n * 2 /\ x = Emits(OpHash, <<m>>)
    OBVIOUS
  <2>2. At({"HashLiteral"})
    BY <1>5 DEF CompileHashLiteral
  <2>3. Rise(todo[1]) = 1 /\ ~Shuts(todo[1]) /\ Node \in trees /\ Node.kind = "HashLiteral"
    BY <1>1, <2>2
  <2>4. Node.Pairs \in Seq(E \X E) /\ m < ByteSize * ByteSize
    BY <2>1, <2>3 DEF Grammar, Valued
  <2>5. n \in Nat /\ \A k \in 1..n : Node.Pairs[k] \in E \X E
    BY <2>1, <2>4, LenProperties, ElementOfSeq
  <2>6. PICK keys \in [1..n -> 1..n] :
          OnlyVisits(Append([k \in 1..n * 2 |->
                               Visit(Node.Pairs[keys[(k + 1) \div 2]][2 - (k % 2)])], x))
    BY <1>5, <2>1 DEF CompileHashLiteral
  <2>7. PICK v, items : /\ v = [k \in 1..n * 2 |-> Visit(Node.Pairs[keys[(k + 1) \div 2]][2 - (k % 2)])]
                        /\ items = Append(v, x)
    OBVIOUS
  <2>8. todo' = items \o Tail(todo) /\ scopes' = scopes /\ constants' = constants
    BY <2>6, <2>7 DEF OnlyVisits, Continue
  <2>9. m \in Nat
    BY <2>1, <2>5
  <2>10. ASSUME NEW k \in 1..n * 2 PROVE Operand(v[k])
    <3>1. (k + 1) \div 2 \in 1..n /\ 2 - (k % 2) \in {1, 2}
      BY <2>5, <2>10
    <3>2. Node.Pairs[keys[(k + 1) \div 2]] \in E \X E
      BY <2>5, <3>1
    <3>3. Node.Pairs[keys[(k + 1) \div 2]][2 - (k % 2)] \in E
      BY <3>1, <3>2
    <3>4. v[k] = Visit(Node.Pairs[keys[(k + 1) \div 2]][2 - (k % 2)])
      BY <2>7
    <3>. QED BY <3>3, <3>4, OperandOf
  <2>11. Sequence(v) /\ Len(v) = m
    <3>1. v = [k \in 1..m |-> v[k]]
      BY <2>1, <2>7
    <3>. QED BY ONLY <2>9, <3>1, FunctionIsSequence
  <2>12. Collects(items, m, x)
    <3>1. \A k \in 1..Len(v) : Operand(v[k])
      BY <2>1, <2>10, <2>11
    <3>2. Collects(items, Len(v), x)
      BY ONLY <2>7, <2>11, <3>1, CollectMany
    <3>. QED BY <2>11, <3>2
  <2>13. Takes(OpHash, <<m>>) = m /\ Pushes(OpHash) = 1 /\ Counts(OpHash, <<m>>)
    <3>1. OpHash \notin {OpCall, OpClosure} /\ <<m>>[1] = m
      BY DEF OpHash, OpCall, OpClosure
    <3>. QED BY <2>4, <3>1, TakesTable DEF Counts
  <2>14. Finishes(x, m, 1)
    BY <1>2, <2>1, <2>9, <2>13, EmitFinishes
  <2>. QED BY <1>0, <2>2, <2>3, <2>8, <2>12, <2>14, CollectLevels
<1>. QED BY <1>3, <1>4, <1>5

(* Program and BlockStatement (compiler.go:64-70, 178-184).                *)
LEMMA StatementsLevels ==
  ASSUME NEW trees, Grammar(trees), CInv(trees), LevelInv, CompileStatements
  PROVE  LevelInv'
<1>. DEFINE S == Of(trees, StatementKinds)
<1>1. PICK nodes, v : nodes = Node.Statements /\ v = Visits(nodes)
  OBVIOUS
<1>2. /\ At({"Program", "BlockStatement"}) /\ todo' = v \o Tail(todo) /\ scopes' = scopes
      /\ constants' = constants
  BY <1>1 DEF CompileStatements, OnlyVisits, Continue
<1>3. Node \in trees /\ Node.kind \in BlockKinds /\ todo[1].do = "visit"
  BY <1>2, AtNode DEF BlockKinds
<1>4. nodes \in Seq(S) /\ Node.kind \notin ExpressionKinds
  BY <1>1, <1>3, KindsApart DEF Grammar
<1>5. /\ Sequence(v) /\ Len(v) = Len(nodes) /\ Len(v) \in Nat
      /\ \A k \in 1..Len(v) : v[k] = Visit(nodes[k]) /\ nodes[k] \in S
  <2>1. S \subseteq Of(trees, StatementKinds \cup ExpressionKinds)
    BY DEF Of
  <2>. HIDE DEF S
  <2>2. /\ Sequence(Visits(nodes)) /\ Len(Visits(nodes)) = Len(nodes) /\ Len(nodes) \in Nat
        /\ \A k \in 1..Len(nodes) : /\ Visits(nodes)[k] = Visit(nodes[k]) /\ nodes[k] \in S
                                    /\ Calm(trees, Visits(nodes)[k]) /\ ~Demands(Visits(nodes)[k])
    BY ONLY <1>4, <2>1, VisitsItems
  <2>. QED BY ONLY <1>1, <2>2
<1>6. \A k \in 1..Len(v) : v[k].do = "visit" /\ v[k].node = nodes[k] /\ nodes[k].kind \in StatementKinds
  <2>1. \A n \in S : n.kind \in StatementKinds
    BY DEF Of
  <2>. HIDE DEF S
  <2>2. \A n : Visit(n).do = "visit" /\ Visit(n).node = n
    BY DEF Visit
  <2>. QED BY <1>5, <2>1, <2>2
<1>7. \A k \in 1..Len(v) : ~Closer(v[k]) /\ ~Patching(v[k]) /\ Rise(v[k]) = 0 /\ Needs(v[k]) = 0
  BY <1>6, KindsApart DEF Closer, Patching, Rise, Needs
<1>8. (\A k \in 1..Len(v) : ~Ending(v[k])) /\ ~Ending(todo[1])
  BY <1>3, <1>6 DEF Ending
<1>9. Rise(todo[1]) = 0
  BY <1>2, <1>4, CallRaises
<1>10. StandsFor(v, todo[1])
  <2>. SUFFICES ASSUME NEW x \in Int, NEW y \in Int, NEW h, Flows(todo[1], x, y, h, 0) PROVE Path(v, x, y, h)
    BY DEF StandsFor
  <2>1. x >= 0 /\ y = x
    BY <1>3, <1>8, <1>9 DEF Flows
  <2>2. PICK f : f = [k \in 1..Len(v) + 1 |-> x]
    OBVIOUS
  <2>3. f \in [1..Len(v) + 1 -> Int] /\ f[1] = x /\ f[Len(v) + 1] = y
    BY <1>5, <2>1, <2>2
  <2>4. ASSUME NEW k \in 1..Len(v) PROVE Flows(v[k], f[k], f[k + 1], h, 0)
    <3>1. f[k] = x /\ f[k + 1] = x
      BY <1>5, <2>2
    <3>2. x = x + 0
      OBVIOUS
    <3>. QED BY <1>6, <1>7, <1>8, <2>1, <3>1, <3>2 DEF Flows
  <2>. QED BY <2>3, <2>4 DEF Path
<1>11. Shuts(todo[1]) => v # <<>> /\ Shuts(v[Len(v)])
  <2>. SUFFICES ASSUME Shuts(todo[1]) PROVE v # <<>> /\ Shuts(v[Len(v)])
    OBVIOUS
  <2>0. \A k \in BlockKinds : k \notin {"ExpressionStatement", "ReturnStatement"}
    BY DEF BlockKinds
  <2>1. EndsInValue(Node)
    BY <1>2, <1>3, <2>0, CallRaises
  <2>2. nodes # <<>> /\ nodes[Len(nodes)].kind \in {"ExpressionStatement", "ReturnStatement"}
    BY <1>1, <2>1 DEF EndsInValue
  <2>3. Len(nodes) # 0
    BY <1>4, <2>2, EmptySeq
  <2>4. Len(v) \in 1..Len(v) /\ Len(v) # 0
    BY <1>5, <2>3
  <2>. QED BY <1>5, <1>6, <2>2, <2>4 DEF Shuts
<1>12. Orderly(todo[1], v)
  <2>1. v # <<>> => 1 \in 1..Len(v)
    <3>1. v # <<>> => Len(v) # 0
      BY <1>5, EmptySeq DEF Sequence
    <3>. QED BY <1>5, <3>1
  <2>2. \A k \in 1..Len(v) - 1 : k + 1 \in 1..Len(v)
    BY <1>5
  <2>. QED BY <1>7, <1>11, <2>1, <2>2 DEF Orderly
<1>. QED BY <1>2, <1>5, <1>8, <1>10, <1>11, <1>12, VisitLevels

(* No items and one item.                                                  *)
LEMMA PathFew ==
  ASSUME NEW x \in Int, NEW h
  PROVE  /\ Path(<<>>, x, x, h)
         /\ \A it : \A y \in Int : Flows(it, x, y, h, 0) => Path(<<it>>, x, y, h)
<1>1. Path(<<>>, x, x, h)
  <2>1. PICK f, w : f = [k \in 1..1 |-> x] /\ w = <<>>
    OBVIOUS
  <2>2. Len(w) = 0 /\ f \in [1..0 + 1 -> Int] /\ f[1] = x /\ f[0 + 1] = x /\ \A k \in 1..0 : FALSE
    BY <2>1, Tuples
  <2>3. Path(w, x, x, h)
    BY <2>2 DEF Path
  <2>. QED BY <2>1, <2>3
<1>2. ASSUME NEW it, NEW y \in Int, Flows(it, x, y, h, 0) PROVE Path(<<it>>, x, y, h)
  <2>1. PICK f, w : f = [k \in 1..2 |-> IF k = 1 THEN x ELSE y] /\ w = <<it>>
    OBVIOUS
  <2>2. Len(w) = 1 /\ w[1] = it /\ f \in [1..1 + 1 -> Int] /\ f[1] = x /\ f[1 + 1] = y /\ \A k \in 1..1 : k = 1
    BY <2>1, Tuples
  <2>3. Path(w, x, y, h)
    BY <1>2, <2>2 DEF Path
  <2>. QED BY <2>1, <2>3
<1>. QED BY <1>1, <1>2

(* Two items.                                                              *)
LEMMA PathTwo ==
  ASSUME NEW x \in Int, NEW y \in Int, NEW z \in Int, NEW h, NEW a, NEW b,
         Flows(a, x, y, h, 0), Flows(b, y, z, h, 0)
  PROVE  Path(<<a, b>>, x, z, h)
<1>1. PICK f, w : f = [k \in 1..3 |-> IF k = 1 THEN x ELSE IF k = 2 THEN y ELSE z] /\ w = <<a, b>>
  OBVIOUS
<1>2. Len(w) = 2 /\ w[1] = a /\ w[2] = b
  BY <1>1, Tuples
<1>3. f \in [1..2 + 1 -> Int] /\ f[1] = x /\ f[2] = y /\ f[2 + 1] = z /\ f[1 + 1] = y
  BY <1>1
<1>4. \A k \in 1..2 : k = 1 \/ k = 2
  OBVIOUS
<1>5. \A k \in 1..2 : Flows(w[k], f[k], f[k + 1], h, 0)
  BY <1>2, <1>3, <1>4
<1>6. Path(w, x, z, h)
  BY <1>2, <1>3, <1>5 DEF Path
<1>. QED BY <1>1, <1>6

(* A stretch that emits and leaves nothing.                                *)
Raises(it, s, t) ==
  \A P, h : Starting(it, s, P, h, End(s, h) + Rise(it)) =>
    \E g : /\ Steady(t, P, g) /\ SameJumps(s, h, g) /\ End(t, g) = End(s, h) + Rise(it)
           /\ Shuts(it) => Shut(t, P, g)

LEMMA RaiseLevels ==
  ASSUME NEW trees, CInv(trees), LevelInv, todo # <<>>, ~Ending(todo[1]), todo[1].do # "abort",
         NEW t, GoodScope(t), Raises(todo[1], Scope, t),
         scopes' = Changed(t), todo' = <<>> \o Tail(todo), LevelPool(constants')
  PROVE  LevelInv'
<1>1. PICK items : items = <<>>
  OBVIOUS
<1>2. /\ Sequence(items) /\ Len(items) = 0 /\ (\A k \in 1..Len(items) : FALSE)
      /\ \A k \in 1..Len(items) - 1 : FALSE
  <2>1. Sequence(items) /\ Len(items) = 0
    BY <1>1, Tuples
  <2>2. (\A k \in 1..0 : FALSE) /\ (\A k \in 1..0 - 1 : FALSE)
    OBVIOUS
  <2>. QED BY <2>1, <2>2
<1>3. Orderly(todo[1], items) /\ WaitsOf(items) = {}
  BY <1>1, <1>2 DEF Orderly, WaitsOf
<1>4. Advances(todo[1], Scope, items, t)
  <2>. SUFFICES ASSUME NEW P, NEW h, NEW y, Starting(todo[1], Scope, P, h, y)
                PROVE  Reaches(todo[1], Scope, items, t, P, h, y)
    BY DEF Advances
  <2>1. y = End(Scope, h) + Rise(todo[1]) /\ y \in Int
    BY DEF Starting, Flows
  <2>2. PICK g : /\ Steady(t, P, g) /\ SameJumps(Scope, h, g) /\ End(t, g) = y
                 /\ Shuts(todo[1]) => Shut(t, P, g)
    BY <2>1 DEF Raises
  <2>3. P \cup WaitsOf(items) = P
    BY <1>3
  <2>4. Path(items, End(t, g), y, g)
    BY <1>1, <2>1, <2>2, PathFew
  <2>. QED BY <2>2, <2>3, <2>4 DEF Reaches
<1>5. ~failed
  BY AtHead
<1>. QED BY <1>1, <1>2, <1>3, <1>4, <1>5, StretchLevels

(* emit, wherever an item has it take what it finds.                       *)
LEMMA EmitStretch ==
  ASSUME NEW it, NEW s, GoodScope(s), NEW op \in Opcodes, op \notin JumpOps, op = OpPop => NoPop(s),
         NEW operands \in [1..Len(OperandWidths(op)) -> Nat], Counts(op, operands),
         Waits(it) = {}, Rise(it) = Pushes(op) - Takes(op, operands),
         Takes(op, operands) = 0 \/ Needs(it) = Takes(op, operands),
         Shuts(it) => op \in {OpPop, OpReturnValue}
  PROVE  Raises(it, s, Emit(s, op, operands))
<1>. SUFFICES ASSUME NEW P, NEW h, Starting(it, s, P, h, End(s, h) + Rise(it))
              PROVE  LET t == Emit(s, op, operands)
                     IN  \E g : /\ Steady(t, P, g) /\ SameJumps(s, h, g) /\ End(t, g) = End(s, h) + Rise(it)
                                /\ Shuts(it) => Shut(t, P, g)
  BY DEF Raises
<1>1. PICK t : t = Emit(s, op, operands)
  OBVIOUS
<1>2. Steady(s, P, h) /\ End(s, h) >= 0 /\ End(s, h) >= Needs(it)
  <2>1. P \cup Waits(it) = P
    OBVIOUS
  <2>. QED BY <2>1 DEF Starting, Flows
<1>3. h[Len(s.instructions)] >= Takes(op, operands)
  BY <1>2 DEF End
<1>4. PICK g : /\ Steady(t, P, g) /\ Confined(t.instructions, g, P) /\ SameJumps(s, h, g)
               /\ g[Len(t.instructions)] = h[Len(s.instructions)] + (Pushes(op) - Takes(op, operands))
  BY <1>1, <1>2, <1>3, EmitRaises
<1>5. End(t, g) = End(s, h) + Rise(it)
  BY <1>4 DEF End
<1>6. Shuts(it) => Shut(t, P, g)
  <2>1. t.lastInstruction.Opcode = op
    BY <1>1 DEF Emit, CompilationScope, EmittedInstruction
  <2>2. t.instructions # <<>>
    <3>0. OneMore(s.instructions, t.instructions)
      BY <1>1, EmitGood
    <3>1. Len(s.instructions) \in Nat /\ Len(s.instructions) \in Starts(t.instructions) /\ Len(t.instructions) \in Nat
      BY <3>0, LenProperties DEF OneMore
    <3>2. Starts(t.instructions) \subseteq 0..Len(t.instructions) - 1
      BY <3>0, <3>1, StartsClosed DEF OneMore
    <3>. QED BY <3>1, <3>2
  <2>. QED BY <1>4, <2>1, <2>2 DEF Shut
<1>. QED BY <1>1, <1>4, <1>5, <1>6

(* The operand of an emit that comes next can count.                       *)
LEMMA HeadCounts ==
  ASSUME NEW trees, CInv(trees), LevelInv, todo # <<>>, todo[1].do = "emit"
  PROVE  Counts(todo[1].op, todo[1].operands)
<1>1. ~failed
  BY AtHead
<1>2. PICK d, e, H : Flow(todo, scopes, d, e, H)
  BY <1>1 DEF LevelInv
<1>3. Sequence(todo)
  BY <1>1 DEF CInv, Todo
<1>4. 1 \in 1..Len(todo)
  BY <1>3, TailOf
<1>. QED BY <1>2, <1>4 DEF Flow, Flows

(* What a call emits behind the calls it made, and the booleans.           *)
LEMMA EmitAfterLevels ==
  ASSUME NEW trees, Grammar(trees), CInv(trees), LevelInv, EmitAfter \/ CompileBoolean
  PROVE  LevelInv'
<1>1. PICK op, operands :
        /\ EmitAction(op, operands) /\ constants' = constants /\ todo # <<>> /\ ~Ending(todo[1])
        /\ op \in Opcodes /\ op \notin JumpOps /\ (op = OpPop => NoPop(Scope)) /\ op # OpReturn
        /\ operands \in [1..Len(OperandWidths(op)) -> Nat] /\ Counts(op, operands)
        /\ todo[1].do # "abort" /\ Waits(todo[1]) = {} /\ Rise(todo[1]) = Pushes(op) - Takes(op, operands)
        /\ Takes(op, operands) = 0 \/ Needs(todo[1]) = Takes(op, operands)
        /\ Shuts(todo[1]) => op \in {OpPop, OpReturnValue}
  <2>1. CASE EmitAfter
    <3>. DEFINE it == todo[1]
    <3>1. Doing("emit") /\ constants' = constants /\ EmitAction(Head(todo).op, Head(todo).operands)
      BY <2>1 DEF EmitAfter
    <3>2. /\ todo # <<>> /\ it = Head(todo) /\ it.do = "emit" /\ Item(trees, it)
          /\ (Demands(it) => NoPop(Scope))
      BY <3>1, AtHead DEF Doing
    <3>3. /\ it.op \in Opcodes /\ it.operands \in [1..Len(OperandWidths(it.op)) -> Nat] /\ ~Ending(it)
          /\ it.op \notin JumpOps /\ it.op # OpReturn
      BY <3>2 DEF Item, Ending
    <3>4. it.op = OpPop => NoPop(Scope)
      BY <3>2 DEF Demands
    <3>5. Counts(it.op, it.operands)
      BY <3>2, HeadCounts
    <3>6. Waits(it) = {}
      BY <3>2 DEF Waits, Patching
    <3>7. Rise(it) = Pushes(it.op) - Takes(it.op, it.operands) /\ Needs(it) = Takes(it.op, it.operands)
      BY <3>2 DEF Rise, Needs
    <3>8. Shuts(it) => it.op \in {OpPop, OpReturnValue}
      BY <3>2 DEF Shuts, Block
    <3>9. EmitAction(it.op, it.operands) /\ it.do # "abort"
      BY <3>1, <3>2
    <3>. HIDE DEF it
    <3>10. PICK op, operands : op = it.op /\ operands = it.operands
      OBVIOUS
    <3>. QED BY <3>1, <3>2, <3>3, <3>4, <3>5, <3>6, <3>7, <3>8, <3>9, <3>10 DEF it
  <2>2. CASE CompileBoolean
    <3>0. PICK op : op = IF Node.Bool THEN OpTrue ELSE OpFalse
      OBVIOUS
    <3>1. At({"Boolean"}) /\ constants' = constants /\ EmitAction(op, <<>>)
      BY <2>2, <3>0 DEF CompileBoolean
    <3>2. op \in {OpTrue, OpFalse}
      BY <3>0
    <3>3. op \in Opcodes /\ op # OpPop /\ op # OpReturn /\ <<>> \in [1..Len(OperandWidths(op)) -> Nat] /\ op \notin JumpOps
      BY <3>2, PlainOpcodes
    <3>4. Takes(op, <<>>) = 0 /\ Pushes(op) = 1 /\ Counts(op, <<>>)
      BY <3>2, TakesTable
    <3>5. todo # <<>> /\ todo[1].do = "visit" /\ Node.kind = "Boolean" /\ Waits(todo[1]) = {}
      BY <3>1, AtNode
    <3>6. ~Ending(todo[1]) /\ todo[1].do # "abort"
      BY <3>5 DEF Ending
    <3>7. /\ "Boolean" \in ExpressionKinds /\ "Boolean" \notin {"ExpressionStatement", "ReturnStatement"}
          /\ "Boolean" \notin BlockKinds
      BY DEF ExpressionKinds, BlockKinds
    <3>8. Rise(todo[1]) = 1 /\ ~Shuts(todo[1])
      BY <3>1, <3>5, <3>7, CallRaises
    <3>9. Rise(todo[1]) = Pushes(op) - Takes(op, <<>>)
      BY <3>4, <3>8
    <3>. QED BY <3>1, <3>3, <3>4, <3>5, <3>6, <3>8, <3>9
  <2>. QED BY <2>1, <2>2
<1>2. PICK t : t = Emit(Scope, op, operands)
  OBVIOUS
<1>3. scopes' = Changed(t) /\ todo' = <<>> \o Tail(todo)
  BY <1>1, <1>2 DEF EmitAction, Continue
<1>4. GoodScope(Scope)
  BY <1>1, AtHead
<1>5. GoodScope(t)
  BY <1>1, <1>2, <1>4, EmitGood
<1>6. Raises(todo[1], Scope, t)
  BY <1>1, <1>2, <1>4, EmitStretch
<1>7. LevelPool(constants')
  BY <1>1 DEF LevelInv
<1>. QED BY <1>1, <1>3, <1>5, <1>6, <1>7, RaiseLevels

(* The pool is one longer.                                                 *)
LEMMA OneMoreLeveled ==
  ASSUME NEW pool, Pool(pool), LevelPool(pool), NEW x, Leveled(x)
  PROVE  LevelPool(Append(pool, x))
<1>1. PICK pool2 : pool2 = Append(pool, x)
  OBVIOUS
<1>2. /\ Len(pool2) = Len(pool) + 1 /\ Len(pool) \in Nat /\ \A k \in 1..Len(pool) : pool2[k] = pool[k]
      /\ pool2[Len(pool) + 1] = x
  BY <1>1, AppendedTo DEF Pool
<1>3. \A k \in 1..Len(pool2) : k \in 1..Len(pool) \/ k = Len(pool) + 1
  BY <1>2
<1>. QED BY <1>1, <1>2, <1>3 DEF LevelPool

(* IntegerLiteral and StringLiteral (compiler.go:207-213).                 *)
LEMMA LiteralLevels ==
  ASSUME NEW trees, Grammar(trees), CInv(trees), LevelInv, CompileLiteral
  PROVE  LevelInv'
<1>. DEFINE m == Len(constants)
<1>1. PICK x, t : x = Constant /\ t = Emit(Scope, OpConstant, <<m>>)
  OBVIOUS
<1>2. /\ At({"IntegerLiteral", "StringLiteral"}) /\ constants' = Append(constants, x)
      /\ scopes' = Changed(t) /\ todo' = <<>> \o Tail(todo)
  BY <1>1 DEF CompileLiteral, EmitAction, Continue
<1>3. /\ todo # <<>> /\ todo[1].do = "visit" /\ Node.kind \in {"IntegerLiteral", "StringLiteral"}
      /\ Waits(todo[1]) = {} /\ GoodScope(Scope)
  BY <1>2, AtNode, AtHead
<1>4. ~Ending(todo[1]) /\ todo[1].do # "abort"
  BY <1>3 DEF Ending
<1>5. x.type # COMPILED_FUNCTION_OBJ
  BY <1>1 DEF Constant, Integer, String, INTEGER_OBJ, STRING_OBJ, COMPILED_FUNCTION_OBJ
<1>6. LevelPool(constants')
  <2>1. Pool(constants) /\ LevelPool(constants) /\ Leveled(x)
    BY <1>5 DEF CInv, LevelInv, Leveled
  <2>. QED BY <1>2, <2>1, OneMoreLeveled
<1>7. m \in Nat
  BY SequenceIsFunction DEF CInv, Pool
<1>8. /\ OpConstant \in Opcodes /\ OpConstant # OpPop /\ OpConstant # OpReturn /\ OpConstant \notin JumpOps
      /\ <<m>> \in [1..Len(OperandWidths(OpConstant)) -> Nat]
  BY <1>7, OneOperand, NoJumps DEF Wide
<1>9. Takes(OpConstant, <<m>>) = 0 /\ Pushes(OpConstant) = 1 /\ Counts(OpConstant, <<m>>)
  BY TakesTable
<1>10. /\ {"IntegerLiteral", "StringLiteral"} \subseteq ExpressionKinds
       /\ \A k \in {"IntegerLiteral", "StringLiteral"} :
            k \notin {"ExpressionStatement", "ReturnStatement"} /\ k \notin BlockKinds
  BY DEF ExpressionKinds, BlockKinds
<1>11. Rise(todo[1]) = 1 /\ ~Shuts(todo[1])
  BY <1>2, <1>3, <1>10, CallRaises
<1>12. Rise(todo[1]) = Pushes(OpConstant) - Takes(OpConstant, <<m>>)
  BY <1>9, <1>11
<1>13. GoodScope(t) /\ Raises(todo[1], Scope, t)
  BY <1>1, <1>3, <1>8, <1>9, <1>11, <1>12, EmitGood, EmitStretch
<1>. QED BY <1>2, <1>3, <1>4, <1>6, <1>13, RaiseLevels

(* Identifier (compiler.go:199-205).                                       *)
LEMMA IdentifierLevels ==
  ASSUME NEW trees, Grammar(trees), CInv(trees), LevelInv, CompileIdentifier
  PROVE  LevelInv'
<1>1. At({"Identifier"}) /\ constants' = constants
  BY DEF CompileIdentifier
<1>2. /\ todo # <<>> /\ todo[1].do = "visit" /\ Node.kind = "Identifier"
      /\ Waits(todo[1]) = {} /\ GoodScope(Scope)
  BY <1>1, AtNode, AtHead
<1>3. ~Ending(todo[1]) /\ todo[1].do # "abort"
  BY <1>2 DEF Ending
<1>4. /\ "Identifier" \in ExpressionKinds /\ "Identifier" \notin {"ExpressionStatement", "ReturnStatement"}
      /\ "Identifier" \notin BlockKinds
  BY DEF ExpressionKinds, BlockKinds
<1>5. Rise(todo[1]) = 1 /\ ~Shuts(todo[1])
  BY <1>1, <1>2, <1>4, CallRaises
<1>6. CASE ~Symbols!Resolvable(symbolTable, Node.Name)
  <2>1. PICK items : items = <<Abort>>
    OBVIOUS
  <2>2. todo' = items \o Tail(todo) /\ scopes' = scopes
    BY <1>6, <2>1 DEF CompileIdentifier, Continue
  <2>3. Sequence(items) /\ Len(items) = 1 /\ items[1] = Abort
    BY <2>1, Tuples
  <2>4. ~Ending(Abort) /\ ~Closer(Abort) /\ ~Patching(Abort) /\ Needs(Abort) = 0 /\ Abort.do = "abort"
    BY DEF Abort, Ending, Closer, Patching, Needs
  <2>5. (\A k \in 1..Len(items) : ~Ending(items[k])) /\ Orderly(todo[1], items)
    <3>1. (\A k \in 1..Len(items) : k = 1) /\ \A k \in 1..Len(items) - 1 : FALSE
      BY ONLY <2>3
    <3>. QED BY <1>5, <2>3, <2>4, <3>1 DEF Orderly
  <2>6. StandsFor(items, todo[1])
    <3>1. ASSUME NEW x \in Int, NEW y \in Int, NEW h, Flows(todo[1], x, y, h, 0) PROVE Path(items, x, y, h)
      <4>1. Flows(Abort, x, y, h, 0)
        BY <2>4, <3>1 DEF Flows
      <4>. QED BY <2>1, <4>1, PathFew
    <3>. QED BY <3>1 DEF StandsFor
  <2>. QED BY <1>1, <1>5, <2>2, <2>3, <2>5, <2>6, VisitLevels
<1>7. CASE Symbols!Resolvable(symbolTable, Node.Name)
  <2>1. PICK s, t : s = Symbols!Resolved(symbolTable, Node.Name) /\ t = LoadSymbol(Scope, s)
    OBVIOUS
  <2>2. scopes' = Changed(t) /\ todo' = <<>> \o Tail(todo)
    BY <1>7, <2>1 DEF CompileIdentifier, Continue
  <2>3. Chain(symbolTable)
    BY DEF CInv
  <2>4. Known(s)
    BY <1>7, <2>1, <2>3, ResolveChain
  <2>5. GoodScope(t)
    BY <1>2, <2>1, <2>4, LoadSymbolGood
  <2>6. Raises(todo[1], Scope, t)
    <3>. SUFFICES ASSUME NEW P, NEW h, Starting(todo[1], Scope, P, h, End(Scope, h) + Rise(todo[1]))
                  PROVE  \E g : /\ Steady(t, P, g) /\ SameJumps(Scope, h, g)
                                /\ End(t, g) = End(Scope, h) + Rise(todo[1])
                                /\ Shuts(todo[1]) => Shut(t, P, g)
      BY DEF Raises
    <3>1. P \cup Waits(todo[1]) = P
      BY <1>2
    <3>2. Steady(Scope, P, h) /\ h[Len(Scope.instructions)] >= 0
      BY <3>1 DEF Starting, Flows, End
    <3>. QED BY <1>2, <1>5, <2>1, <2>4, <3>2, LoadSymbolLevels DEF End
  <2>7. LevelPool(constants')
    BY <1>1 DEF LevelInv
  <2>. QED BY <1>2, <1>3, <2>2, <2>5, <2>6, <2>7, RaiseLevels
<1>. QED BY <1>6, <1>7

(* A stretch that leaves two items, the second of which may patch a jump.  *)
Splits(it, s, a, b, t) ==
  \A P, h, y : Starting(it, s, P, h, y) =>
    \E g : \E z \in Int :
      /\ Steady(t, P \cup Waits(b), g) /\ SameJumps(s, h, g) /\ End(t, g) \in Int
      /\ Flows(a, End(t, g), z, g, 0) /\ Flows(b, z, y, g, 0)

LEMMA SplitLevels ==
  ASSUME NEW trees, CInv(trees), LevelInv, todo # <<>>, ~Ending(todo[1]), ~Shuts(todo[1]),
         NEW a, NEW b, ~Ending(a), ~Ending(b), ~Closer(a), Closer(b) => Shuts(a),
         NEW t, GoodScope(t), Splits(todo[1], Scope, a, b, t),
         scopes' = Changed(t), todo' = <<a, b>> \o Tail(todo), constants' = constants
  PROVE  LevelInv'
<1>1. PICK items : items = <<a, b>>
  OBVIOUS
<1>2. Sequence(items) /\ Len(items) = 2 /\ items[1] = a /\ items[2] = b
  BY <1>1, Tuples
<1>3. /\ \A k \in 1..Len(items) : k = 1 \/ k = 2
      /\ \A k \in 1..Len(items) - 1 : k = 1 /\ k + 1 = 2
      /\ 2 \in 1..Len(items)
  BY ONLY <1>2
<1>4. (\A k \in 1..Len(items) : ~Ending(items[k])) /\ Orderly(todo[1], items)
  BY <1>2, <1>3 DEF Orderly
<1>5. Waits(b) \subseteq WaitsOf(items)
  <2>1. \A p \in Waits(b) : p \in Nat
    BY DEF Waits
  <2>. QED BY <1>2, <1>3, <2>1 DEF WaitsOf
<1>6. Advances(todo[1], Scope, items, t)
  <2>. SUFFICES ASSUME NEW P, NEW h, NEW y, Starting(todo[1], Scope, P, h, y)
                PROVE  Reaches(todo[1], Scope, items, t, P, h, y)
    BY DEF Advances
  <2>1. PICK g : \E z \in Int :
          /\ Steady(t, P \cup Waits(b), g) /\ SameJumps(Scope, h, g) /\ End(t, g) \in Int
          /\ Flows(a, End(t, g), z, g, 0) /\ Flows(b, z, y, g, 0)
    BY DEF Splits
  <2>2. PICK z \in Int :
          /\ Steady(t, P \cup Waits(b), g) /\ SameJumps(Scope, h, g) /\ End(t, g) \in Int
          /\ Flows(a, End(t, g), z, g, 0) /\ Flows(b, z, y, g, 0)
    BY <2>1
  <2>3. y \in Int
    BY DEF Starting
  <2>4. Path(items, End(t, g), y, g)
    BY <1>1, <2>2, <2>3, PathTwo
  <2>5. Steady(t, P \cup WaitsOf(items), g)
    <3>1. P \cup Waits(b) \subseteq P \cup WaitsOf(items)
      BY <1>5
    <3>. QED BY <2>2, <3>1, SteadyWait
  <2>. QED BY <2>2, <2>4, <2>5 DEF Reaches
<1>7. ~failed /\ LevelPool(constants')
  BY AtHead DEF LevelInv
<1>8. todo' = items \o Tail(todo)
  BY <1>1
<1>. QED BY <1>2, <1>4, <1>6, <1>7, <1>8, StretchLevels

(* A block leaves the depth it finds.                                      *)
LEMMA BlockFlows ==
  ASSUME NEW n, n.kind \in BlockKinds
  PROVE  /\ \A x \in Int : \A h : x >= 0 => Flows(Visit(n), x, x, h, 0)
         /\ ~Ending(Visit(n)) /\ ~Closer(Visit(n)) /\ (EndsInValue(n) => Shuts(Visit(n)))
<1>1. PICK it : it = Visit(n)
  OBVIOUS
<1>2. it.do = "visit" /\ it.node = n
  BY <1>1 DEF Visit
<1>3. n.kind \notin ExpressionKinds
  BY KindsApart
<1>4. Rise(it) = 0 /\ Needs(it) = 0 /\ ~Patching(it) /\ ~Closer(it) /\ (EndsInValue(n) => Shuts(it))
  BY <1>2, <1>3 DEF Rise, Needs, Patching, Closer, Shuts, Block
<1>5. ~Ending(it)
  BY <1>2 DEF Ending
<1>6. \A x \in Int : x = x + 0
  OBVIOUS
<1>7. \A x \in Int : \A h : x >= 0 => Flows(it, x, x, h, 0)
  BY <1>2, <1>4, <1>5, <1>6 DEF Flows
<1>. QED BY <1>1, <1>4, <1>5, <1>7

(* A jump that is emitted with a bogus target.                             *)
LEMMA JumpTakes ==
  /\ Takes(OpJumpNotTruthy, <<Bogus>>) = 1 /\ Pushes(OpJumpNotTruthy) = 0
  /\ Counts(OpJumpNotTruthy, <<Bogus>>) /\ OpJumpNotTruthy \notin Leaving
  /\ Takes(OpJump, <<Bogus>>) = 0 /\ Counts(OpJump, <<Bogus>>) /\ OpJump \in Leaving
BY DEF Takes, Taken, Counts, Pushes, Leaving, OpAdd, OpSub, OpMul, OpDiv, OpPop, OpEqual,
       OpNotEqual, OpGreaterThan, OpMinus, OpBang, OpJumpNotTruthy, OpJump, OpSetGlobal,
       OpArray, OpHash, OpIndex, OpCall, OpReturnValue, OpReturn, OpSetLocal, OpClosure

LEMMA BogusLevels ==
  ASSUME NEW s, GoodScope(s), NEW op \in JumpOps, NEW P, NEW h, Steady(s, P, h),
         NEW z, Leads(op, <<Bogus>>, h[Len(s.instructions)], z)
  PROVE  \E g : Jumped(s, Emit(s, op, <<Bogus>>), P, h, z, g)
<1>1. PICK e, L, Q, o : /\ e = Emit(s, op, o) /\ L = Len(s.instructions) /\ Q = P \cup {L} /\ o = <<Bogus>>
  OBVIOUS
<1>2. op \in Opcodes /\ o \in [1..Len(OperandWidths(op)) -> Nat] /\ op # OpPop
  BY <1>1, OneOperand DEF Wide, Bogus, JumpOps
<1>3. Counts(op, o)
  BY <1>1, JumpTakes DEF JumpOps
<1>4. Steady(s, Q, h)
  <2>1. P \subseteq Q
    BY <1>1
  <2>. QED BY <2>1, SteadyWait
<1>5. Leads(op, o, h[Len(s.instructions)], z)
  BY <1>1
<1>6. Len(s.instructions) \in Q /\ L \in Nat
  BY <1>1, LenProperties DEF GoodScope, Formed
<1>7. PICK g : Steady(e, Q, g) /\ g[Len(e.instructions)] = z /\ Agree(h, g, Len(s.instructions))
  <2>1. (op = OpPop => NoPop(s)) /\ (op \in JumpOps => Len(s.instructions) \in Q)
    BY <1>2, <1>6
  <2>2. PICK g : Chosen(h, g, Len(Emit(s, op, o).instructions), z)
    BY DEF Chosen
  <2>3. /\ Steady(Emit(s, op, o), Q, g) /\ Confined(Emit(s, op, o).instructions, g, Q)
        /\ g[Len(Emit(s, op, o).instructions)] = z /\ Agree(h, g, Len(s.instructions))
    BY ONLY <1>2, <1>3, <1>4, <1>5, <2>1, <2>2, EmitLevels, GoodScope(s)
  <2>. QED BY <1>1, <2>3
<1>8. g[L] = h[L]
  <2>1. L \in 0..L
    BY <1>6
  <2>. QED BY <1>1, <1>7, <2>1 DEF Agree
<1>. QED BY <1>1, <1>7, <1>8, AgreeJumps DEF Jumped

(* An item that patches a jump waits for it alone.                         *)
LEMMA WaitsOne ==
  ASSUME NEW it, it.do \in {"else", "join"}, it.pos \in Nat
  PROVE  Waits(it) = {it.pos}
BY DEF Waits, Patching

(* The condition is compiled: the conditional jump takes its value, and    *)
(* the consequence starts without it (compiler.go:145-147).                *)
LEMMA ConsequenceLevels ==
  ASSUME NEW trees, Grammar(trees), Valued(trees), CInv(trees), LevelInv, CompileConsequence
  PROVE  LevelInv'
<1>1. PICK pos, t, a, b : /\ pos = Len(Scope.instructions) /\ t = Emit(Scope, OpJumpNotTruthy, <<Bogus>>)
                          /\ a = Visit(Node.Consequence) /\ b = Else(Node, pos)
  OBVIOUS
<1>2. Doing("then") /\ scopes' = Changed(t) /\ todo' = <<a, b>> \o Tail(todo) /\ constants' = constants
  BY <1>1 DEF CompileConsequence, Continue
<1>3. /\ todo # <<>> /\ todo[1] = Head(todo) /\ todo[1].do = "then" /\ Item(trees, todo[1]) /\ GoodScope(Scope)
  BY <1>2, AtHead DEF Doing
<1>4. Node \in trees /\ Node.kind = "IfExpression"
  BY <1>3 DEF Item, Of, Node
<1>5. Node.Consequence.kind \in BlockKinds /\ EndsInValue(Node.Consequence)
  BY <1>4 DEF Grammar, Valued, Of
<1>6. ~Ending(todo[1]) /\ ~Shuts(todo[1]) /\ ~Closer(todo[1]) /\ Rise(todo[1]) = 0 /\ Needs(todo[1]) = 1
      /\ todo[1].do # "abort" /\ Waits(todo[1]) = {}
  BY <1>3 DEF Ending, Shuts, Block, Closer, Rise, Needs, Waits, Patching
<1>7. /\ (\A x \in Int : \A h : x >= 0 => Flows(a, x, x, h, 0))
      /\ ~Ending(a) /\ ~Closer(a) /\ Shuts(a)
  BY <1>1, <1>5, BlockFlows
<1>8. b.do = "else" /\ b.pos = pos
  BY <1>1 DEF Else
<1>9. ~Ending(b) /\ Rise(b) = 1 /\ Needs(b) = 0
  BY <1>8 DEF Ending, Rise, Needs, Closer
<1>10. pos \in Nat /\ Waits(b) = {pos}
  <2>1. pos \in Nat
    BY <1>1, <1>3, LenProperties DEF GoodScope, Formed
  <2>. QED BY <1>8, <2>1, WaitsOne
<1>11. /\ OpJumpNotTruthy \in Opcodes /\ <<Bogus>> \in [1..Len(OperandWidths(OpJumpNotTruthy)) -> Nat]
       /\ OpJumpNotTruthy # OpPop /\ OpJumpNotTruthy # OpReturn
  BY OneOperand DEF Wide, Bogus
<1>12. GoodScope(t)
  BY <1>1, <1>3, <1>11, EmitGood
<1>13. Splits(todo[1], Scope, a, b, t)
  <2>. SUFFICES ASSUME NEW P, NEW h, NEW y, Starting(todo[1], Scope, P, h, y)
                PROVE  \E g : \E z \in Int :
                         /\ Steady(t, P \cup Waits(b), g) /\ SameJumps(Scope, h, g) /\ End(t, g) \in Int
                         /\ Flows(a, End(t, g), z, g, 0) /\ Flows(b, z, y, g, 0)
    BY DEF Splits
  <2>1. /\ Steady(Scope, P \cup Waits(todo[1]), h) /\ h[pos] \in Int /\ h[pos] >= 1 /\ y = h[pos]
    BY <1>1, <1>6 DEF Starting, Flows, End
  <2>2. Steady(Scope, P, h)
    <3>1. P \cup Waits(todo[1]) = P
      BY <1>6
    <3>. QED BY <2>1, <3>1
  <2>3. PICK z : z = h[pos] - 1
    OBVIOUS
  <2>4. z \in Int /\ z >= 0 /\ z + 1 = h[pos] /\ (h[pos] - 1) + 0 = z
    BY <2>1, <2>3
  <2>5. Leads(OpJumpNotTruthy, <<Bogus>>, h[Len(Scope.instructions)], z)
    BY <1>1, <2>1, <2>4, JumpTakes DEF Leads
  <2>9. PICK g : /\ Steady(t, P \cup {pos}, g) /\ g[Len(t.instructions)] = z
                 /\ g[pos] = h[pos] /\ SameJumps(Scope, h, g)
    <3>1. PICK op : op = OpJumpNotTruthy /\ op \in JumpOps
      BY DEF JumpOps
    <3>2. Leads(op, <<Bogus>>, h[Len(Scope.instructions)], z) /\ GoodScope(Scope)
      BY <1>3, <2>5, <3>1
    <3>3. PICK g : Jumped(Scope, Emit(Scope, op, <<Bogus>>), P, h, z, g)
      BY ONLY <2>2, <3>1, <3>2, BogusLevels
    <3>. QED BY <1>1, <3>1, <3>3 DEF Jumped
  <2>12. Flows(b, z, y, g, 0)
    BY <1>8, <1>9, <2>1, <2>4, <2>9 DEF Flows
  <2>13. Flows(a, End(t, g), z, g, 0) /\ End(t, g) \in Int
    BY <1>7, <2>4, <2>9 DEF End
  <2>. QED BY <1>10, <2>4, <2>9, <2>12, <2>13
<1>. QED BY <1>2, <1>3, <1>6, <1>7, <1>9, <1>12, <1>13, SplitLevels

(* What the consequence leaves is kept, and the jump over the alternative  *)
(* comes behind it: the alternative starts as deep as the consequence did  *)
(* (compiler.go:152-162).                                                  *)
LEMMA AlternativeLevels ==
  ASSUME NEW trees, Grammar(trees), Valued(trees), CInv(trees), LevelInv, CompileAlternative
  PROVE  LevelInv'
<1>1. PICK pos, value, L, jump, size, t, a, b :
        /\ pos = Head(todo).pos /\ value = KeepValue(Scope) /\ L = Len(value.instructions)
        /\ jump = Emit(value, OpJump, <<Bogus>>) /\ size = Len(jump.instructions)
        /\ t = ChangeOperand(jump, pos, size)
        /\ a = (IF Node.Alternative.kind = "nil" THEN Emits(OpNull, <<>>) ELSE Visit(Node.Alternative))
        /\ b = Join(Node, L)
  OBVIOUS
<1>2. Doing("else") /\ scopes' = Changed(t) /\ todo' = <<a, b>> \o Tail(todo) /\ constants' = constants
  BY <1>1 DEF CompileAlternative, Continue
<1>3. /\ todo # <<>> /\ todo[1] = Head(todo) /\ todo[1].do = "else" /\ Item(trees, todo[1])
      /\ GoodScope(Scope) /\ Placed(todo[1], Scope)
  BY <1>2, AtHead DEF Doing
<1>4. Node \in trees /\ Node.kind = "IfExpression"
  BY <1>3 DEF Item, Of, Node
<1>5. /\ Node.Alternative.kind = "nil" \/ Node.Alternative.kind \in BlockKinds
      /\ Node.Alternative.kind = "nil" \/ EndsInValue(Node.Alternative)
  BY <1>4 DEF Grammar, Valued, Of
<1>6. /\ ~Ending(todo[1]) /\ ~Shuts(todo[1]) /\ Closer(todo[1]) /\ Rise(todo[1]) = 1
      /\ todo[1].do # "abort" /\ Patching(todo[1])
  BY <1>3 DEF Ending, Shuts, Block, Closer, Rise, Patching
<1>7. /\ OpJump \in Opcodes /\ <<Bogus>> \in [1..Len(OperandWidths(OpJump)) -> Nat]
      /\ OpJump # OpPop /\ OpJump # OpReturn /\ OpJump \in JumpOps
  BY OneOperand DEF Wide, Bogus, JumpOps
<1>8. GoodScope(value) /\ CodeKept(Scope, value) /\ NoPop(value)
  BY <1>1, <1>3, KeepValueGood
<1>9. /\ GoodScope(jump) /\ CodeKept(value, jump) /\ NoPop(jump)
      /\ L \in Starts(jump.instructions) /\ jump.instructions[L + 1] = OpJump
      /\ size = L + Width(jump.instructions[L + 1])
  BY <1>1, <1>7, <1>8, EmitGood DEF OneMore
<1>10. size \in Nat
  BY <1>1, <1>9, LenProperties DEF GoodScope, Formed
<1>11. pos \in Starts(jump.instructions) /\ jump.instructions[pos + 1] = OpJumpNotTruthy
  <2>1. Placed(todo[1], jump)
    BY <1>3, <1>8, <1>9, PlacedKept
  <2>. QED BY <1>1, <1>3, <2>1 DEF Placed
<1>12. /\ size > pos /\ size - 3 = L /\ L \in Nat /\ pos \in Nat
  <2>1. Starts(jump.instructions) \subseteq 0..size - 1
    BY <1>1, <1>10, StartsClosed
  <2>2. Width(jump.instructions[L + 1]) = 3
    BY <1>9, JumpWidth DEF JumpOps
  <2>3. L \in Nat /\ pos \in Nat /\ pos < size
    BY ONLY <1>9, <1>10, <1>11, <2>1
  <2>. QED BY ONLY <1>9, <1>10, <2>2, <2>3
<1>13. /\ size \in Starts(jump.instructions) \cup {Len(jump.instructions)}
       /\ size - 3 \in Starts(jump.instructions) /\ jump.instructions[(size - 3) + 1] = OpJump
       /\ jump.instructions[pos + 1] \in JumpOps
  BY <1>1, <1>9, <1>11, <1>12 DEF JumpOps
<1>14. GoodScope(t) /\ Patched(jump.instructions, t.instructions, pos, size)
  BY <1>1, <1>9, <1>10, <1>11, ChangeOperandGood
<1>15. Len(t.instructions) = size
  BY <1>1, <1>14 DEF Patched
<1>16. Waits(todo[1]) = {pos} /\ pos \in Jumps(Scope.instructions)
  <2>1. todo[1].do \in {"else", "join"} /\ todo[1].pos \in Nat
    BY <1>1, <1>3, <1>12
  <2>. QED BY <1>1, <1>3, <2>1, WaitsOne DEF Placed, Jumps, JumpOps
<1>17. b.do = "join" /\ b.pos = L /\ b.node = Node
  BY <1>1 DEF Join
<1>18. Waits(b) = {L} /\ ~Ending(b) /\ Needs(b) = 0 /\ Patching(b)
  BY <1>12, <1>17, WaitsOne DEF Ending, Needs, Patching
<1>19. /\ ~Ending(a) /\ ~Closer(a) /\ (Closer(b) => Shuts(a))
       /\ \A x \in Int : \A h : x >= 0 /\ h[L] = x + 1 =>
            \E z \in Int : Flows(a, x, z, h, 0) /\ Flows(b, z, x + 1, h, 0)
  <2>1. ASSUME Node.Alternative.kind = "nil"
        PROVE  /\ ~Ending(a) /\ ~Closer(a) /\ ~Closer(b)
               /\ \A x \in Int : \A h : x >= 0 /\ h[L] = x + 1 =>
                    Flows(a, x, x + 1, h, 0) /\ Flows(b, x + 1, x + 1, h, 0)
    <3>1. a.do = "emit" /\ a.op = OpNull /\ a.operands = <<>>
      BY <1>1, <2>1 DEF Emits
    <3>2. Takes(OpNull, <<>>) = 0 /\ Pushes(OpNull) = 1 /\ Counts(OpNull, <<>>)
      BY DEF Takes, Taken, Counts, Pushes, OpNull, OpAdd, OpSub, OpMul, OpDiv, OpPop, OpEqual,
             OpNotEqual, OpGreaterThan, OpMinus, OpBang, OpJumpNotTruthy, OpJump, OpSetGlobal,
             OpArray, OpHash, OpIndex, OpCall, OpReturnValue, OpReturn, OpSetLocal, OpClosure
    <3>3. Rise(a) = 1 /\ Needs(a) = 0 /\ ~Patching(a) /\ ~Ending(a) /\ ~Closer(a)
      <4>1. Rise(a) = 1 - 0 /\ Needs(a) = 0 /\ ~Patching(a) /\ ~Closer(a)
        BY <3>1, <3>2 DEF Rise, Needs, Patching, Closer
      <4>2. ~Ending(a)
        BY <3>1 DEF Ending
      <4>. QED BY <4>1, <4>2
    <3>4. ~Closer(b) /\ Rise(b) = 0
      BY <1>17, <2>1 DEF Closer, Rise
    <3>5. \A x \in Int : x + 1 = (x + 1) + 0 /\ x + 1 \in Int /\ (x >= 0 => x + 1 >= 0)
      OBVIOUS
    <3>6. \A x \in Int : \A h : x >= 0 => Flows(a, x, x + 1, h, 0)
      BY <3>1, <3>2, <3>3 DEF Flows
    <3>7. \A x \in Int : \A h : x >= 0 /\ h[L] = x + 1 => Flows(b, x + 1, x + 1, h, 0)
      BY <1>17, <1>18, <3>4, <3>5 DEF Flows
    <3>. QED BY <3>3, <3>4, <3>6, <3>7
  <2>2. ASSUME Node.Alternative.kind # "nil"
        PROVE  /\ ~Ending(a) /\ ~Closer(a) /\ Shuts(a)
               /\ \A x \in Int : \A h : x >= 0 /\ h[L] = x + 1 =>
                    Flows(a, x, x, h, 0) /\ Flows(b, x, x + 1, h, 0)
    <3>1. a = Visit(Node.Alternative) /\ Node.Alternative.kind \in BlockKinds /\ EndsInValue(Node.Alternative)
      BY <1>1, <1>5, <2>2
    <3>2. /\ (\A x \in Int : \A h : x >= 0 => Flows(a, x, x, h, 0))
          /\ ~Ending(a) /\ ~Closer(a) /\ Shuts(a)
      BY <3>1, BlockFlows
    <3>3. Rise(b) = 1
      BY <1>17, <2>2 DEF Closer, Rise
    <3>4. \A x \in Int : \A h : x >= 0 /\ h[L] = x + 1 => Flows(b, x, x + 1, h, 0)
      BY <1>17, <1>18, <3>3 DEF Flows
    <3>. QED BY <3>2, <3>4
  <2>3. \A x \in Int : x + 1 \in Int
    OBVIOUS
  <2>. QED BY <2>1, <2>2, <2>3
<1>20. Splits(todo[1], Scope, a, b, t)
  <2>. SUFFICES ASSUME NEW P, NEW h, NEW y, Starting(todo[1], Scope, P, h, y)
                PROVE  \E g : \E z \in Int :
                         /\ Steady(t, P \cup Waits(b), g) /\ SameJumps(Scope, h, g) /\ End(t, g) \in Int
                         /\ Flows(a, End(t, g), z, g, 0) /\ Flows(b, z, y, g, 0)
    BY DEF Splits
  <2>1. PICK x : x = h[Len(Scope.instructions)]
    OBVIOUS
  <2>2. /\ Shut(Scope, P \cup {pos}, h) /\ x \in Int /\ x >= 0 /\ y = x + 1 /\ h[pos] = x + 1
    BY <1>1, <1>3, <1>6, <1>16, <2>1 DEF Starting, Flows, End
  <2>3. PICK f : /\ Steady(value, P \cup {pos}, f) /\ SameJumps(Scope, h, f)
                 /\ f[Len(value.instructions)] = x + 1
    BY <1>1, <1>3, <2>1, <2>2, KeepValueLevels
  <2>4. Leads(OpJump, <<Bogus>>, f[Len(value.instructions)], x)
    <3>1. x + 1 >= 0
      BY <2>2
    <3>. QED BY <2>2, <2>3, <3>1, JumpTakes DEF Leads
  <2>5. PICK g : /\ Steady(jump, (P \cup {pos}) \cup {L}, g) /\ g[size] = x /\ g[L] = x + 1
                 /\ SameJumps(value, f, g)
    <3>1. PICK Q, op : Q = P \cup {pos} /\ op = OpJump /\ op \in JumpOps
      BY <1>7
    <3>2. /\ GoodScope(value) /\ Steady(value, Q, f) /\ Leads(op, <<Bogus>>, f[Len(value.instructions)], x)
      BY <1>8, <2>3, <2>4, <3>1
    <3>3. PICK g : Jumped(value, Emit(value, op, <<Bogus>>), Q, f, x, g)
      BY ONLY <3>1, <3>2, BogusLevels
    <3>4. Emit(value, op, <<Bogus>>) = jump /\ Q \cup {Len(value.instructions)} = (P \cup {pos}) \cup {L}
      BY <1>1, <3>1
    <3>5. g[size] = x /\ g[L] = x + 1
      BY <1>1, <2>3, <3>3, <3>4 DEF Jumped
    <3>6. Steady(jump, (P \cup {pos}) \cup {L}, g) /\ SameJumps(value, f, g)
      BY ONLY <3>3, <3>4 DEF Jumped
    <3>. QED BY <3>5, <3>6
  <2>6. SameJumps(Scope, h, g)
    BY <1>8, <2>3, <2>5, SameJumpsTransitive
  <2>7. g[pos] = x + 1
    BY <1>16, <2>2, <2>6 DEF SameJumps
  <2>8. Pops(jump.instructions, pos) = 1
    <3>1. jump.instructions[pos + 1] \in {OpPop, OpReturnValue, OpJumpNotTruthy}
      BY <1>11
    <3>. QED BY ONLY <3>1, OneTaken
  <2>9. g[size] = g[pos] - Pops(jump.instructions, pos)
    BY <2>2, <2>5, <2>7, <2>8
  <2>10. Steady(jump, (P \cup {L}) \cup {pos}, g)
    <3>1. (P \cup {pos}) \cup {L} = (P \cup {L}) \cup {pos}
      OBVIOUS
    <3>. QED BY ONLY <2>5, <3>1
  <2>11. Steady(ChangeOperand(jump, pos, size), P \cup {L}, g)
    BY ONLY <1>9, <1>11, <1>12, <1>13, <2>9, <2>10, ChangeOperandLevels
  <2>12. End(t, g) = x /\ Steady(t, P \cup Waits(b), g)
    BY <1>1, <1>15, <1>18, <2>5, <2>11 DEF End
  <2>13. \E z \in Int : Flows(a, x, z, g, 0) /\ Flows(b, z, y, g, 0)
    BY <1>19, <2>2, <2>5
  <2>. QED BY <2>2, <2>6, <2>12, <2>13
<1>. QED BY <1>2, <1>3, <1>6, <1>14, <1>18, <1>19, <1>20, SplitLevels

(* The second jump gets its target behind the value of the alternative     *)
(* (compiler.go:169-175).                                                  *)
LEMMA EndIfLevels ==
  ASSUME NEW trees, Grammar(trees), CInv(trees), LevelInv, EndIfExpression
  PROVE  LevelInv'
<1>1. PICK pos, value, L, t :
        /\ pos = Head(todo).pos /\ value = (IF Node.Alternative.kind = "nil" THEN Scope ELSE KeepValue(Scope))
        /\ L = Len(value.instructions) /\ t = ChangeOperand(value, pos, L)
  OBVIOUS
<1>2. Doing("join") /\ scopes' = Changed(t) /\ todo' = <<>> \o Tail(todo) /\ constants' = constants
  BY <1>1 DEF EndIfExpression, Continue
<1>3. /\ todo # <<>> /\ todo[1] = Head(todo) /\ todo[1].do = "join"
      /\ GoodScope(Scope) /\ Placed(todo[1], Scope) /\ (Demands(todo[1]) => NoPop(Scope))
  BY <1>2, AtHead DEF Doing
<1>4. /\ ~Ending(todo[1]) /\ ~Shuts(todo[1]) /\ todo[1].do # "abort" /\ Patching(todo[1]) /\ todo[1].node = Node
      /\ Rise(todo[1]) = IF Node.Alternative.kind = "nil" THEN 0 ELSE 1
      /\ Closer(todo[1]) <=> Node.Alternative.kind # "nil"
  BY <1>3 DEF Ending, Shuts, Block, Closer, Rise, Patching, Node
<1>5. GoodScope(value) /\ CodeKept(Scope, value) /\ NoPop(value)
  <2>1. ASSUME Node.Alternative.kind = "nil" PROVE GoodScope(value) /\ CodeKept(Scope, value) /\ NoPop(value)
    BY <1>1, <1>3, <2>1 DEF Demands, Node, CodeKept
  <2>2. ASSUME Node.Alternative.kind # "nil" PROVE GoodScope(value) /\ CodeKept(Scope, value) /\ NoPop(value)
    BY <1>1, <1>3, <2>2, KeepValueGood
  <2>. QED BY <2>1, <2>2
<1>6. L \in Nat
  BY <1>1, <1>5, LenProperties DEF GoodScope, Formed
<1>7. pos \in Starts(value.instructions) /\ value.instructions[pos + 1] = OpJump
  <2>1. Placed(todo[1], value)
    BY <1>3, <1>5, PlacedKept
  <2>. QED BY <1>1, <1>3, <2>1 DEF Placed
<1>8. L > pos /\ pos \in Nat
  <2>1. Starts(value.instructions) \subseteq 0..L - 1
    BY <1>1, <1>6, StartsClosed
  <2>. QED BY ONLY <1>6, <1>7, <2>1
<1>9. /\ L \in Starts(value.instructions) \cup {Len(value.instructions)}
      /\ value.instructions[pos + 1] \in JumpOps /\ value.instructions[pos + 1] # OpJumpNotTruthy
  BY <1>1, <1>7 DEF JumpOps, OpJump, OpJumpNotTruthy
<1>10. GoodScope(t) /\ Patched(value.instructions, t.instructions, pos, L)
  BY <1>1, <1>5, <1>6, <1>7, ChangeOperandGood
<1>11. Len(t.instructions) = L
  BY <1>1, <1>10 DEF Patched
<1>12. Waits(todo[1]) = {pos} /\ pos \in Jumps(Scope.instructions)
  <2>1. todo[1].do \in {"else", "join"} /\ todo[1].pos \in Nat
    BY <1>1, <1>3, <1>8
  <2>. QED BY <1>1, <1>3, <2>1, WaitsOne DEF Placed, Jumps, JumpOps
<1>13. Pops(value.instructions, pos) = 0
  BY <1>7, NoneTaken
<1>14. Raises(todo[1], Scope, t)
  <2>. SUFFICES ASSUME NEW P, NEW h, Starting(todo[1], Scope, P, h, End(Scope, h) + Rise(todo[1]))
                PROVE  \E g : /\ Steady(t, P, g) /\ SameJumps(Scope, h, g)
                              /\ End(t, g) = End(Scope, h) + Rise(todo[1])
    BY <1>4 DEF Raises
  <2>1. PICK x, y : x = h[Len(Scope.instructions)] /\ y = x + Rise(todo[1])
    OBVIOUS
  <2>2. /\ Steady(Scope, P \cup {pos}, h) /\ (Closer(todo[1]) => Shut(Scope, P \cup {pos}, h))
        /\ x \in Int /\ y \in Int /\ h[pos] = y
    BY <1>1, <1>3, <1>4, <1>12, <2>1 DEF Starting, Flows, End
  <2>3. PICK g : Steady(value, P \cup {pos}, g) /\ SameJumps(Scope, h, g) /\ g[L] = y
    <3>1. ASSUME Node.Alternative.kind = "nil"
          PROVE  Steady(value, P \cup {pos}, h) /\ SameJumps(Scope, h, h) /\ h[L] = y
      <4>1. value = Scope /\ y = x + 0
        BY <1>1, <1>4, <2>1, <3>1
      <4>. QED BY <1>1, <2>1, <2>2, <4>1 DEF SameJumps
    <3>2. ASSUME Node.Alternative.kind # "nil"
          PROVE  \E g : Steady(value, P \cup {pos}, g) /\ SameJumps(Scope, h, g) /\ g[L] = y
      <4>1. value = KeepValue(Scope) /\ y = x + 1 /\ Shut(Scope, P \cup {pos}, h)
        BY <1>1, <1>4, <2>1, <2>2, <3>2
      <4>. QED BY <1>1, <1>3, <2>1, <4>1, KeepValueLevels
    <3>. QED BY <3>1, <3>2
  <2>4. g[L] = g[pos] - Pops(value.instructions, pos)
    <3>1. g[pos] = y
      BY <1>12, <2>2, <2>3 DEF SameJumps
    <3>2. y = y - 0
      BY <2>2
    <3>. QED BY <1>13, <2>3, <3>1, <3>2
  <2>5. Steady(ChangeOperand(value, pos, L), P, g)
    BY ONLY <1>5, <1>7, <1>8, <1>9, <2>3, <2>4, ChangeOperandLevels
  <2>. QED BY <1>1, <1>11, <2>1, <2>3, <2>5 DEF End
<1>15. LevelPool(constants')
  BY <1>2 DEF LevelInv
<1>. QED BY <1>2, <1>3, <1>4, <1>10, <1>14, <1>15, RaiseLevels

(* A function starts with an empty stack of its own, above what the        *)
(* function around it has there (compiler.go:268-273).                     *)
LEMMA FunctionLevels ==
  ASSUME NEW trees, Grammar(trees), CInv(trees), LevelInv, CompileFunctionLiteral
  PROVE  LevelInv'
<1>. DEFINE n == Len(scopes)
<1>1. PICK sc2, a, b, items :
        /\ sc2 = Append(scopes, NewScope) /\ a = Visit(Node.Body) /\ b = EndFunction(Node) /\ items = <<a, b>>
  OBVIOUS
<1>2. At({"FunctionLiteral"}) /\ scopes' = sc2 /\ todo' = items \o Tail(todo) /\ constants' = constants
  BY <1>1 DEF CompileFunctionLiteral, Continue
<1>3. /\ Node \in trees /\ Node.kind = "FunctionLiteral" /\ todo # <<>> /\ todo[1].do = "visit"
      /\ todo[1].node = Node /\ ~failed
  BY <1>2, AtNode, AtHead DEF At, Doing
<1>4. Node.Body.kind \in BlockKinds
  BY <1>3 DEF Grammar, Of
<1>5. n \in Nat \ {0} /\ Sequence(scopes) /\ Sequence(todo)
  BY <1>3 DEF CInv, GoodScopes, Todo
<1>6. /\ Sequence(sc2) /\ Len(sc2) = n + 1 /\ (\A k \in 1..n : sc2[k] = scopes[k])
      /\ sc2[n + 1] = NewScope
  BY ONLY <1>1, <1>5, AppendedTo
<1>7. PICK d, e, H : Flow(todo, scopes, d, e, H)
  BY <1>3 DEF LevelInv
<1>8. \A k \in 1..Len(todo) : Patching(todo[k]) => todo[k].pos \in Jumps(scopes[d[k]].instructions)
  BY <1>3, <1>7, FlowPlaced
<1>9. /\ 1 \in 1..Len(todo) /\ 1 + 1 = 2 /\ 1 \in 1..Len(todo) + 1 /\ 2 \in 1..Len(todo) + 1
      /\ n \in 1..n /\ n + 1 \in 1..n + 1 /\ n \in 1..n + 1 /\ n # n + 1 /\ n + 1 \in Nat \ {0} /\ (n + 1) - 1 = n
      /\ \A j \in 1..n + 1 : j # n + 1 => j \in 1..n
  <2>1. Len(todo) \in Nat \ {0}
    BY <1>3, <1>5, TailOf
  <2>. QED BY ONLY <1>5, <2>1
<1>10. /\ ~Ending(todo[1]) /\ ~Shuts(todo[1]) /\ ~Patching(todo[1]) /\ todo[1].do # "abort" /\ Rise(todo[1]) = 1
  <2>1. ~Ending(todo[1]) /\ ~Patching(todo[1]) /\ todo[1].do # "abort"
    BY <1>3 DEF Ending, Patching
  <2>2. Rise(todo[1]) = 1 /\ ~Shuts(todo[1])
    BY <1>3 DEF Rise, Shuts, Block, ExpressionKinds, BlockKinds
  <2>. QED BY <2>1, <2>2
<1>11. PICK base : base = End(scopes[n], H[n])
  OBVIOUS
<1>12. base \in Int /\ base >= 0 /\ e[2] = base + 1 /\ e[2] \in Int
  <2>1. /\ e[1] = base /\ Flows(todo[1], e[1], e[1 + 1], H[d[1]], End(scopes[d[1 + 1]], H[d[1 + 1]]))
        /\ e[1] \in Int /\ e[2] \in Int
    BY <1>7, <1>9, <1>11 DEF Flow
  <2>. QED BY <1>9, <1>10, <2>1 DEF Flows
<1>13. PICK h : (\A P : Steady(NewScope, P, h)) /\ h[Len(NewScope.instructions)] = 0
  <2>1. PICK h : Steady(NewScope, {}, h) /\ h[Len(NewScope.instructions)] = 0
    BY NewScopeLevels
  <2>2. \A P : {} \subseteq P
    OBVIOUS
  <2>. QED BY <2>1, <2>2, SteadyWait
<1>14. PICK H2 : H2 = [j \in 1..n + 1 |-> IF j = n + 1 THEN h ELSE H[j]]
  OBVIOUS
<1>15. H2[n + 1] = h /\ \A j \in 1..n + 1 : j # n + 1 => H2[j] = H[j]
  BY ONLY <1>9, <1>14
<1>16. PICK f, x : f = <<n + 1, n + 1, n>> /\ x = <<0, 0, e[2]>>
  OBVIOUS
<1>17. Sequence(items) /\ Len(items) = 2 /\ items[1] = a /\ items[2] = b
  BY ONLY <1>1, Tuples
<1>18. /\ f \in [1..Len(items) + 1 -> 1..n + 1] /\ f[1] = n + 1 /\ f[2] = n + 1 /\ f[3] = n
       /\ x \in [1..Len(items) + 1 -> Int] /\ x[1] = 0 /\ x[2] = 0 /\ x[3] = e[2]
  <2>1. f \in [1..Len(items) + 1 -> 1..n + 1] /\ f[1] = n + 1 /\ f[2] = n + 1 /\ f[3] = n
    BY ONLY <1>5, <1>16, <1>17
  <2>2. x \in [1..Len(items) + 1 -> Int] /\ x[1] = 0 /\ x[2] = 0 /\ x[3] = e[2]
    BY ONLY <1>12, <1>16, <1>17
  <2>. QED BY <2>1, <2>2
<1>19. /\ \A k \in 1..Len(items) : (k = 1 /\ k + 1 = 2) \/ (k = 2 /\ k + 1 = 3)
       /\ \A k \in 1..Len(items) - 1 : k = 1 /\ k + 1 = 2
       /\ Len(items) + 1 = 3
  BY ONLY <1>17
<1>20. /\ (\A y \in Int : \A g : y >= 0 => Flows(a, y, y, g, 0)) /\ ~Ending(a) /\ ~Closer(a)
  BY <1>1, <1>4, BlockFlows
<1>21. Ending(b) /\ ~Patching(b) /\ ~Closer(b) /\ Needs(b) = 0 /\ b.do # "emit"
  <2>1. Ending(b) /\ b.do \notin {"emit", "then", "else", "join"}
    BY <1>1 DEF EndFunction, Ending
  <2>. QED BY <2>1 DEF Patching, Closer, Needs
<1>22. ~Patching(a)
  BY <1>1 DEF Visit, Patching
<1>23. Orderly(todo[1], items)
  BY <1>10, <1>17, <1>19, <1>20, <1>21 DEF Orderly
<1>24. Below(a, n + 1) = n + 1 /\ Below(b, n + 1) = n /\ Below(todo[1], n) = n
  BY <1>9, <1>10, <1>20, <1>21, BelowOne
<1>25. End(sc2[n], H2[n]) = base /\ End(sc2[n + 1], H2[n + 1]) = 0
  BY <1>6, <1>9, <1>11, <1>13, <1>15 DEF End
<1>26. Flows(a, 0, 0, H2[n + 1], End(sc2[n + 1], H2[n + 1]))
  <2>1. Flows(a, 0, 0, H2[n + 1], 0)
    BY <1>20
  <2>. QED BY ONLY <1>25, <2>1
<1>27. Flows(b, 0, e[2], H2[n + 1], End(sc2[n], H2[n]))
  BY <1>12, <1>21, <1>25 DEF Flows
<1>28. Given(todo, scopes, H, items, f, x, e[2], sc2, H2)
  <2>1. \A k \in 1..Len(items) :
          /\ f[k + 1] = Below(items[k], f[k])
          /\ Flows(items[k], x[k], x[k + 1], H2[f[k]], End(sc2[f[k + 1]], H2[f[k + 1]]))
    BY <1>17, <1>18, <1>19, <1>24, <1>26, <1>27
  <2>2. PatchIn(items, f, n + 1)
    BY <1>17, <1>19, <1>21, <1>22 DEF PatchIn
  <2>3. \A j \in 1..n + 1 : j # n + 1 => j \in 1..n /\ sc2[j] = scopes[j] /\ H2[j] = H[j]
    BY <1>6, <1>9, <1>15
  <2>4. Below(todo[1], n) # Len(sc2)
    BY <1>6, <1>9, <1>24
  <2>5. /\ f \in [1..Len(items) + 1 -> 1..Len(sc2)] /\ f[1] = Len(sc2) /\ f[Len(items) + 1] = Below(todo[1], n)
        /\ x[1] = End(sc2[Len(sc2)], H2[Len(sc2)]) /\ x[Len(items) + 1] = e[2]
    BY <1>6, <1>18, <1>19, <1>24, <1>25
  <2>. QED BY <1>6, <1>10, <1>18, <2>1, <2>2, <2>3, <2>4, <2>5 DEF Given
<1>29. /\ Steady(sc2[Len(sc2)], WaitsBehind(todo, d, Len(sc2)) \cup WaitsOf(items), H2[Len(sc2)])
       /\ ~(items = <<>> /\ Shuts(todo[1])) /\ Len(sc2) \in Nat \ {0} /\ Len(scopes) \in Nat \ {0}
  BY <1>5, <1>6, <1>9, <1>10, <1>13, <1>15
<1>30. \E d2, e2 : Flow(items \o Tail(todo), sc2, d2, e2, H2)
  BY ONLY <1>3, <1>5, <1>7, <1>8, <1>17, <1>23, <1>28, <1>29, FlowContinues
<1>. QED BY <1>2, <1>30 DEF LevelInv

(* No jump of a function waits when its body is done.                      *)
LEMMA NoneWaits ==
  ASSUME NEW w, Sequence(w), w # <<>>, Ending(w[1]), NEW n \in Nat, NEW d, Depth(w, n, d)
  PROVE  WaitsIn(w, d, n) = {} /\ d[1] = n /\ d[2] = n - 1 /\ n > 1
<1>1. Len(w) \in Nat \ {0}
  BY TailOf
<1>2. /\ 1 \in 1..Len(w) /\ 1 + 1 = 2 /\ 2 \in 1..Len(w) + 1
      /\ \A k \in 1..Len(w) : k = 1 \/ k \in 2..Len(w) + 1
  BY ONLY <1>1
<1>3. d[1] = n /\ d[2] = n - 1 /\ d[2] \in 1..n
  <2>1. d[1] = n /\ d[1 + 1] = Below(w[1], d[1]) /\ d[2] \in 1..n
    BY <1>2 DEF Depth
  <2>. QED BY <1>2, <2>1, BelowOne
<1>4. \A k \in 2..Len(w) + 1 : d[k] # n
  <2>1. \A k \in 2..Len(w) + 1 : d[k] <= d[2]
    BY <1>1, DepthFalls
  <2>. QED BY <1>3, <2>1
<1>5. Waits(w[1]) = {}
  BY DEF Ending, Waits, Patching
<1>6. WaitsIn(w, d, n) = {}
  BY <1>2, <1>4, <1>5 DEF WaitsIn
<1>7. n > 1
  BY <1>3
<1>. QED BY <1>3, <1>6, <1>7

(* The function around a finished one loads what it captures and makes a   *)
(* closure of it (compiler.go:280-303): one value more.                    *)
LEMMA ClosureLevels ==
  ASSUME NEW s, GoodScope(s), NEW free, Len(free) \in Nat, Len(free) < ByteSize,
         \A k \in 1..Len(free) : Known(free[k]), NEW m \in Nat, NEW P, NEW h, Steady(s, P, h),
         End(s, h) >= 0
  PROVE  LET t == Emit(LoadAll(s, free), OpClosure, <<m, Len(free)>>)
         IN  \E g : Steady(t, P, g) /\ SameJumps(s, h, g) /\ End(t, g) = End(s, h) + 1
<1>1. PICK loaded, o, op, F : loaded = LoadAll(s, free) /\ o = <<m, Len(free)>> /\ op = OpClosure /\ F = Len(free)
  OBVIOUS
<1>2. GoodScope(loaded) /\ CodeKept(s, loaded)
  BY <1>1, LoadAllGood
<1>3. h[Len(s.instructions)] >= 0
  BY DEF End
<1>4. PICK f : /\ Steady(loaded, P, f) /\ SameJumps(s, h, f)
               /\ f[Len(loaded.instructions)] = h[Len(s.instructions)] + F
  BY ONLY <1>1, <1>3, GoodScope(s), Len(free) \in Nat, \A k \in 1..Len(free) : Known(free[k]), Steady(s, P, h),
     LoadAllLevels
<1>5. op \in Opcodes /\ op # OpPop /\ op \notin JumpOps /\ o \in [1..Len(OperandWidths(op)) -> Nat]
  <2>1. OpClosure \in Opcodes /\ OpClosure # OpPop
    BY DEF OpClosure, OpPop, Opcodes
  <2>2. Len(OperandWidths(OpClosure)) = 2
    BY OperandTable
  <2>. QED BY <1>1, <2>1, <2>2, NoJumps
<1>6. Takes(op, o) = F /\ Pushes(op) = 1 /\ Counts(op, o) /\ F \in Nat
  <2>1. o[2] = F
    BY <1>1
  <2>2. Counts(op, o)
    BY <1>1, <2>1 DEF Counts, OpArray, OpHash, OpCall, OpClosure
  <2>. QED BY <1>1, <2>1, <2>2, TakesTable
<1>7. PICK x : x = h[Len(s.instructions)] /\ x \in Int /\ x >= 0
  <2>1. Len(s.instructions) \in Nat
    BY LenProperties DEF GoodScope, Formed
  <2>. QED BY <1>3, <2>1 DEF Steady, Follows, Level
<1>8. x + F >= F /\ (x + F) + (1 - F) = x + 1
  BY ONLY <1>6, <1>7
<1>9. f[Len(loaded.instructions)] >= Takes(op, o) /\ (op = OpPop => NoPop(loaded))
  BY <1>4, <1>5, <1>6, <1>7, <1>8
<1>10. PICK g : /\ Steady(Emit(loaded, op, o), P, g) /\ SameJumps(loaded, f, g)
                /\ g[Len(Emit(loaded, op, o).instructions)] = f[Len(loaded.instructions)] + (Pushes(op) - Takes(op, o))
  BY ONLY <1>2, <1>4, <1>5, <1>6, <1>9, EmitRaises
<1>11. SameJumps(s, h, g)
  BY <1>2, <1>4, <1>10, SameJumpsTransitive
<1>12. g[Len(Emit(loaded, op, o).instructions)] = x + 1
  BY ONLY <1>4, <1>6, <1>7, <1>8, <1>10
<1>. QED BY <1>1, <1>7, <1>10, <1>11, <1>12 DEF End

(* FunctionLiteral after its body: the function is finished, and its       *)
(* closure is one value more (compiler.go:274-303).                        *)
LEMMA FunctionEndLevels ==
  ASSUME NEW trees, Grammar(trees), CInv(trees), LevelInv, CompileFunctionEnd, SizesFit
  PROVE  LevelInv'
<1>. DEFINE n == Len(scopes)
            table == symbolTable[Len(symbolTable)]
<1>1. PICK ins, free, fn, t, front, sc2, m, items :
        /\ ins = EndBody(Scope).instructions /\ free = table.FreeSymbols
        /\ fn = CompiledFunction(ins, table.numDefinitions, Len(Node.Parameters))
        /\ t = Emit(LoadAll(scopes[n - 1], free), OpClosure, <<m, Len(free)>>)
        /\ front = SubSeq(scopes, 1, n - 2) /\ sc2 = Append(front, t) /\ m = Len(constants) /\ items = <<>>
  OBVIOUS
<1>2. /\ Doing("end function") /\ scopes' = sc2 /\ todo' = items \o Tail(todo)
      /\ constants' = Append(constants, fn)
  BY <1>1 DEF CompileFunctionEnd, Continue
<1>3. todo # <<>> /\ todo[1] = Head(todo) /\ todo[1].do = "end function" /\ ~failed
  BY <1>2, AtHead DEF Doing
<1>4. Ending(todo[1])
  BY <1>3 DEF Ending
<1>5. /\ GoodScopes(scopes) /\ Chain(symbolTable) /\ Len(symbolTable) = n /\ Pool(constants)
      /\ n \in Nat \ {0} /\ Sequence(scopes) /\ Sequence(todo)
  BY <1>3 DEF CInv, GoodScopes, Todo
<1>6. PICK d, e, H : Flow(todo, scopes, d, e, H)
  BY <1>3 DEF LevelInv
<1>7. \A k \in 1..Len(todo) : Patching(todo[k]) => todo[k].pos \in Jumps(scopes[d[k]].instructions)
  BY <1>3, <1>6, FlowPlaced
<1>8. WaitsIn(todo, d, n) = {} /\ d[1] = n /\ d[2] = n - 1 /\ n > 1
  BY <1>3, <1>4, <1>5, <1>6, NoneWaits DEF Flow
<1>9. /\ n - 1 \in 1..n /\ n - 2 \in Nat /\ n \in 1..n /\ n # n - 1 /\ n - 1 \in Nat \ {0} /\ n - 1 \in 1..n - 1
      /\ (\A j \in 1..n - 1 : j # n - 1 => j \in 1..n /\ j \in 1..n - 2)
      /\ 1 + 1 = 2
  BY ONLY <1>5, <1>8
<1>10. 1 \in 1..Len(todo) /\ 1 \in 1..Len(todo) + 1 /\ 2 \in 1..Len(todo) + 1
  <2>1. Len(todo) \in Nat \ {0}
    BY <1>3, <1>5, TailOf
  <2>. QED BY ONLY <2>1
<1>11. /\ Steady(scopes[n], {}, H[n]) /\ End(scopes[n], H[n]) >= 0
       /\ End(scopes[n - 1], H[n - 1]) >= 0 /\ e[2] = End(scopes[n - 1], H[n - 1]) + 1 /\ e[2] \in Int
       /\ Steady(scopes[n - 1], WaitsIn(todo, d, n - 1), H[n - 1])
  <2>1. /\ e[1] = End(scopes[n], H[n]) /\ Flows(todo[1], e[1], e[2], H[n], End(scopes[n - 1], H[n - 1]))
        /\ e[2] \in Int /\ Steady(scopes[n], {}, H[n]) /\ Steady(scopes[n - 1], WaitsIn(todo, d, n - 1), H[n - 1])
    <3>1. Flows(todo[1], e[1], e[1 + 1], H[d[1]], End(scopes[d[1 + 1]], H[d[1 + 1]]))
      BY <1>6, <1>10 DEF Flow
    <3>. QED BY <1>6, <1>8, <1>9, <1>10, <3>1 DEF Flow
  <2>. QED BY <1>4, <2>1 DEF Flows
<1>12. Len(free) \in Nat /\ Len(free) < ByteSize /\ (\A k \in 1..Len(free) : Known(free[k])) /\ m \in Nat
  <2>1. Table(table)
    BY <1>5, <1>9 DEF Chain
  <2>2. Len(free) \in Nat /\ \A k \in 1..Len(free) : Known(free[k])
    BY <1>1, <2>1, SequenceIsFunction DEF Table
  <2>3. Len(free) < ByteSize
    BY <1>1, <1>5, <1>9 DEF SizesFit
  <2>4. m \in Nat
    BY <1>1, <1>5, SequenceIsFunction DEF Pool
  <2>. QED BY <2>2, <2>3, <2>4
<1>13. GoodScope(scopes[n - 1]) /\ GoodScope(scopes[n]) /\ Scope = scopes[n]
  BY <1>5, <1>9 DEF GoodScopes, Scope
<1>14. Leveled(fn)
  <2>1. PICK s, h : s = scopes[n] /\ h = H[n]
    OBVIOUS
  <2>2. GoodScope(s) /\ Steady(s, {}, h) /\ h[Len(s.instructions)] >= 0
    BY <1>11, <1>13, <2>1 DEF End
  <2>3. (\E g : Follows(EndBody(s).instructions, g, {})) /\ CodeReturns(EndBody(s).instructions)
    BY ONLY <2>2, EndBodyLevels
  <2>4. fn.Instructions = EndBody(s).instructions
    BY <1>1, <1>13, <2>1 DEF CompiledFunction
  <2>. QED BY <2>3, <2>4 DEF Leveled
<1>15. LevelPool(constants')
  <2>1. LevelPool(constants)
    BY DEF LevelInv
  <2>. QED BY <1>2, <1>5, <1>14, <2>1, OneMoreLeveled
<1>16. Sequence(front) /\ Len(front) = n - 2 /\ \A k \in 1..n - 2 : front[k] = scopes[k]
  <2>1. PICK S : scopes \in Seq(S)
    BY <1>5 DEF Sequence
  <2>2. 1 \in 1..n + 1 /\ n - 2 \in 0..n
    BY ONLY <1>5, <1>8
  <2>3. front = [k \in 1..n - 2 |-> scopes[k]]
    BY <1>1, <2>1, <2>2
  <2>4. front = [k \in 1..n - 2 |-> front[k]]
    BY <2>3
  <2>5. Sequence(front) /\ Len(front) = n - 2
    BY ONLY <1>9, <2>4, FunctionIsSequence
  <2>. QED BY <2>3, <2>5
<1>17. Len(sc2) = n - 1 /\ sc2[n - 1] = t /\ \A k \in 1..n - 2 : sc2[k] = scopes[k]
  <2>1. /\ Len(sc2) = Len(front) + 1 /\ \A k \in 1..Len(front) : sc2[k] = front[k]
        /\ sc2[Len(front) + 1] = t
    BY ONLY <1>1, <1>16, AppendedTo
  <2>2. Len(front) + 1 = n - 1
    BY ONLY <1>5, <1>16
  <2>. QED BY <1>16, <2>1, <2>2
<1>18. PICK s, h, P : s = scopes[n - 1] /\ h = H[n - 1] /\ P = WaitsBehind(todo, d, n - 1)
  OBVIOUS
<1>19. Steady(s, P, h)
  <2>1. WaitsIn(todo, d, n - 1) \subseteq P
    BY <1>5, <1>8, <1>9, <1>18, WaitsFirst
  <2>. QED BY <1>11, <1>18, <2>1, SteadyWait
<1>20. PICK g : Steady(t, P, g) /\ SameJumps(s, h, g) /\ End(t, g) = End(s, h) + 1
  <2>1. GoodScope(s) /\ End(s, h) >= 0 /\ t = Emit(LoadAll(s, free), OpClosure, <<m, Len(free)>>)
    BY <1>1, <1>11, <1>13, <1>18
  <2>. QED BY ONLY <1>12, <1>19, <2>1, ClosureLevels
<1>21. PICK H2 : H2 = [j \in 1..n - 1 |-> IF j = n - 1 THEN g ELSE H[j]]
  OBVIOUS
<1>22. H2[n - 1] = g /\ \A j \in 1..n - 1 : j # n - 1 => H2[j] = H[j]
  BY ONLY <1>9, <1>21
<1>23. Sequence(items) /\ Len(items) = 0 /\ WaitsOf(items) = {}
  <2>1. Sequence(items) /\ Len(items) = 0
    BY ONLY <1>1, Tuples
  <2>. QED BY <2>1 DEF WaitsOf
<1>24. (\A k \in 1..Len(items) : FALSE) /\ (\A k \in 1..Len(items) - 1 : FALSE) /\ Len(items) + 1 = 1
  BY ONLY <1>23
<1>25. PICK f, x : f = <<n - 1>> /\ x = <<e[2]>>
  OBVIOUS
<1>26. /\ f \in [1..Len(items) + 1 -> 1..n - 1] /\ f[1] = n - 1
       /\ x \in [1..Len(items) + 1 -> Int] /\ x[1] = e[2]
  <2>1. f \in [1..Len(items) + 1 -> 1..n - 1] /\ f[1] = n - 1
    BY ONLY <1>9, <1>23, <1>25
  <2>2. x \in [1..Len(items) + 1 -> Int] /\ x[1] = e[2]
    BY ONLY <1>11, <1>23, <1>25
  <2>. QED BY <2>1, <2>2
<1>27. ~Patching(todo[1]) /\ ~Shuts(todo[1])
  BY <1>3 DEF Patching, Shuts, Block
<1>28. Below(todo[1], n) = n - 1
  BY <1>4, BelowOne
<1>29. Orderly(todo[1], items)
  BY <1>1, <1>24 DEF Orderly
<1>30. Given(todo, scopes, H, items, f, x, e[2], sc2, H2)
  <2>1. PatchIn(items, f, Len(sc2))
    BY <1>24 DEF PatchIn
  <2>2. \A j \in 1..Len(sc2) : j # Len(sc2) => j \in 1..n /\ sc2[j] = scopes[j] /\ H2[j] = H[j]
    BY <1>9, <1>17, <1>22
  <2>3. SameJumps(scopes[Len(sc2)], H[Len(sc2)], H2[Len(sc2)])
    BY <1>17, <1>18, <1>20, <1>22
  <2>4. /\ f \in [1..Len(items) + 1 -> 1..Len(sc2)] /\ f[1] = Len(sc2) /\ f[Len(items) + 1] = Below(todo[1], n)
        /\ x[1] = End(sc2[Len(sc2)], H2[Len(sc2)]) /\ x[Len(items) + 1] = e[2]
    BY <1>11, <1>17, <1>18, <1>20, <1>22, <1>24, <1>26, <1>28
  <2>. QED BY <1>24, <1>26, <1>27, <2>1, <2>2, <2>3, <2>4 DEF Given
<1>31. /\ Steady(sc2[Len(sc2)], WaitsBehind(todo, d, Len(sc2)) \cup WaitsOf(items), H2[Len(sc2)])
       /\ ~(items = <<>> /\ Shuts(todo[1])) /\ Len(sc2) \in Nat \ {0} /\ Len(scopes) \in Nat \ {0}
  <2>1. P \cup WaitsOf(items) = P
    BY <1>23
  <2>. QED BY <1>5, <1>9, <1>17, <1>18, <1>20, <1>22, <1>27, <2>1
<1>32. \E d2, e2 : Flow(items \o Tail(todo), sc2, d2, e2, H2)
  BY ONLY <1>3, <1>5, <1>6, <1>7, <1>23, <1>29, <1>30, <1>31, FlowContinues
<1>. QED BY <1>2, <1>15, <1>32 DEF LevelInv

(* An error leaves no work.                                                *)
LEMMA FailLevels ==
  ASSUME LevelInv, Fail
  PROVE  LevelInv'
BY DEF Fail, LevelInv

(* A compiler that is given a pool starts at depth 0, and a program leaves *)
(* none behind.                                                            *)
LEMMA FreshLevels ==
  ASSUME NEW program, program.kind \in BlockKinds
  PROVE  \E d, e, H : Flow(<<Visit(program)>>, <<NewScope>>, d, e, H)
<1>1. PICK sc, w, it : sc = <<NewScope>> /\ it = Visit(program) /\ w = <<it>>
  OBVIOUS
<1>2. /\ Len(sc) = 1 /\ sc[1] = NewScope /\ Len(w) = 1 /\ w[1] = it /\ 1 + 1 = 2
      /\ (\A k \in 1..1 : k = 1) /\ (\A k \in 1..1 - 1 : FALSE) /\ 1 \in 1..1
  BY <1>1, Tuples
<1>3. /\ (\A x \in Int : \A h : x >= 0 => Flows(it, x, x, h, 0)) /\ ~Ending(it) /\ ~Closer(it)
  BY <1>1, BlockFlows
<1>4. PICK d, e : d = [k \in 1..2 |-> 1] /\ e = [k \in 1..2 |-> 0]
  OBVIOUS
<1>5. d \in [1..1 + 1 -> 1..1] /\ d[1] = 1 /\ d[2] = 1 /\ e \in [1..1 + 1 -> Int] /\ e[1] = 0 /\ e[2] = 0
  BY <1>4
<1>6. Below(it, 1) = 1
  BY <1>3, BelowOne
<1>7. Depth(w, 1, d)
  BY <1>2, <1>5, <1>6 DEF Depth
<1>8. PICK h : Steady(NewScope, WaitsIn(w, d, 1), h) /\ h[Len(NewScope.instructions)] = 0
  BY NewScopeLevels
<1>9. PICK H : H = [k \in 1..1 |-> h]
  OBVIOUS
<1>10. H[1] = h
  BY <1>2, <1>9
<1>11. Flows(it, 0, 0, h, 0) /\ End(NewScope, h) = 0
  BY <1>3, <1>8 DEF End
<1>12. Flow(w, sc, d, e, H)
  BY <1>2, <1>3, <1>5, <1>7, <1>8, <1>10, <1>11 DEF Flow
<1>. QED BY <1>1, <1>12

(* So it is when a compiler is new.                                        *)
LEMMA InitLevels ==
  ASSUME NEW trees, Programs \subseteq Of(trees, {"Program"}), Init
  PROVE  LevelInv
<1>1. PICK program \in Programs : Start(Symbols!DefineBuiltins, <<>>, program)
  BY DEF Init
<1>2. program.kind \in BlockKinds
  BY <1>1 DEF Of, BlockKinds
<1>3. constants = <<>> /\ scopes = <<NewScope>> /\ todo = <<Visit(program)>>
  BY <1>1 DEF Start
<1>4. LevelPool(<<>>)
  BY DEF LevelPool
<1>. QED BY <1>2, <1>3, <1>4, FreshLevels DEF LevelInv

(* Every step of Compile keeps the levels.                                 *)
LEMMA NextLevels ==
  ASSUME NEW trees, Grammar(trees), Valued(trees), CInv(trees), LevelInv, [Next]_vars, SizesFit
  PROVE  LevelInv'
<1>1. CASE Next
  <2>1. \/ CompileStatements \/ CompileExpressionStatement \/ CompileReturnStatement
        \/ CompileInfixExpression \/ CompilePrefixExpression \/ CompileIndexExpression
        \/ CompileArrayLiteral \/ CompileCallExpression \/ CompileHashLiteral
        \/ CompileIfExpression \/ CompileConsequence \/ CompileAlternative \/ EndIfExpression
        \/ CompileLetStatement \/ CompileIdentifier \/ CompileLiteral \/ CompileBoolean
        \/ CompileFunctionLiteral \/ CompileFunctionEnd \/ EmitAfter \/ Fail
    BY <1>1 DEF Next
  <2>. QED BY <2>1, StatementsLevels, PartsLevels, ListLevels, ConsequenceLevels, AlternativeLevels,
              EndIfLevels, LetLevels, IdentifierLevels, LiteralLevels, EmitAfterLevels, FunctionLevels,
              FunctionEndLevels, FailLevels
<1>2. CASE UNCHANGED vars
  BY <1>2 DEF vars, LevelInv
<1>. QED BY <1>1, <1>2

(* A set without two members is a singleton or empty.                      *)
LEMMA AtMostOne ==
  ASSUME NEW S, NEW x, \A d \in S : d = x
  PROVE  Cardinality(S) <= 1
<1>1. CASE S = {}
  BY <1>1, FS_EmptySet
<1>2. CASE S # {}
  <2>1. S = {x}
    BY <1>2
  <2>. QED BY <2>1, FS_Singleton
<1>. QED BY <1>1, <1>2

(* Finished code has levels; a function returns and the program ends with  *)
(* nothing on the stack.                                                   *)
LEMMA FinishedLevels ==
  ASSUME NEW trees, CInv(trees), LevelInv, NEW fn \in Finished
  PROVE  \E h : /\ Follows(fn.Instructions, h, {})
                /\ fn \in Functions => CodeReturns(fn.Instructions)
                /\ fn \notin Functions => h[Len(fn.Instructions)] = 0
<1>1. CASE fn \in Functions
  <2>1. PICK k \in DOMAIN constants : fn = constants[k] /\ constants[k].type = COMPILED_FUNCTION_OBJ
    BY <1>1 DEF Functions
  <2>2. k \in 1..Len(constants)
    BY SequenceIsFunction DEF CInv, Pool
  <2>3. Leveled(fn)
    BY <2>1, <2>2 DEF LevelInv, LevelPool
  <2>. QED BY <1>1, <2>1, <2>3 DEF Leveled
<1>2. CASE fn \notin Functions /\ Compiled /\ fn = CompiledFunction(Scope.instructions, 0, 0)
  <2>1. fn.Instructions = Scope.instructions
    BY <1>2 DEF CompiledFunction
  <2>2. todo = <<>> /\ ~failed
    BY <1>2 DEF Compiled
  <2>3. PICK d, e, H : Flow(todo, scopes, d, e, H)
    BY <2>2 DEF LevelInv
  <2>4. Len(todo) = 0 /\ \A k \in 1..Len(todo) : FALSE
    BY <2>2
  <2>5. WaitsIn(todo, d, Len(scopes)) = {}
    BY <2>4 DEF WaitsIn
  <2>6. Len(scopes) \in 1..Len(scopes)
    BY DEF CInv, GoodScopes
  <2>7. Steady(Scope, {}, H[Len(scopes)]) /\ End(Scope, H[Len(scopes)]) = 0
    <3>1. e[1] = End(Scope, H[Len(scopes)]) /\ e[0 + 1] = 0 /\ Steady(Scope, {}, H[Len(scopes)])
      BY <2>3, <2>4, <2>5, <2>6 DEF Flow, Scope
    <3>. QED BY <3>1
  <2>. QED BY <1>2, <2>1, <2>7 DEF Steady, End
<1>. QED BY <1>1, <1>2 DEF Finished

(* Code that keeps to its levels is balanced.                              *)
LEMMA LevelsBalanced ==
  ASSUME NEW trees, CInv(trees), LevelInv, CodeFits
  PROVE  StackBalanced
<1>. SUFFICES ASSUME NEW fn \in Finished
              PROVE  LET ins == fn.Instructions  depths == Depths(ins)
                     IN  /\ \A p \in 0..Len(ins) : Cardinality(depths[p]) <= 1
                         /\ \A p \in 0..Len(ins) - 1 : \A d \in depths[p] : d >= Pops(ins, p)
                         /\ depths[Len(ins)] \subseteq (IF fn \in Functions THEN {} ELSE {0})
  BY DEF StackBalanced
<1>1. PICK ins, depths : ins = fn.Instructions /\ depths = Depths(ins)
  OBVIOUS
<1>2. PICK h : /\ Follows(ins, h, {}) /\ (fn \in Functions => CodeReturns(ins))
               /\ fn \notin Functions => h[Len(ins)] = 0
  BY <1>1, FinishedLevels
<1>3. Len(ins) \in Nat /\ Len(ins) <= ByteSize * ByteSize /\ Whole(ins) /\ Tight(ins, {})
  BY <1>1, FinishedTight DEF CodeFits, Linked
<1>4. /\ Steers(ins, h)
      /\ CodeReturns(ins) => \A p \in Starts(ins) : Len(ins) \notin Successors(ins, p)
  BY ONLY <1>2, <1>3, FollowsSteers
<1>5. Within(depths, ins, h) /\ Arrives(depths, ins)
  BY <1>1, <1>4, DepthsWithin
<1>6. ASSUME NEW p \in 0..Len(ins) PROVE Cardinality(depths[p]) <= 1
  <2>1. \A d \in depths[p] : d = h[p]
    BY <1>5 DEF Within
  <2>. QED BY ONLY <2>1, AtMostOne
<1>7. ASSUME NEW p \in 0..Len(ins) - 1, NEW d \in depths[p] PROVE d >= Pops(ins, p)
  <2>1. p \in 0..Len(ins) /\ p # Len(ins)
    BY <1>3
  <2>2. d = h[p] /\ p \in Starts(ins)
    BY <1>5, <1>7, <2>1 DEF Within
  <2>. QED BY <1>2, <2>2 DEF Follows, Level, LevelAt
<1>8. depths[Len(ins)] \subseteq (IF fn \in Functions THEN {} ELSE {0})
  <2>1. Len(ins) \in 0..Len(ins)
    BY <1>3
  <2>2. CASE fn \in Functions
    <3>1. CodeReturns(ins) /\ Len(ins) # 0
      <4>1. CodeReturns(ins)
        BY <1>2, <2>2
      <4>2. ins \in Seq(Bytes)
        BY <1>1, FinishedTight DEF Linked
      <4>. QED BY <4>1, <4>2, LenProperties DEF CodeReturns
    <3>. QED BY <1>4, <1>5, <2>2, <3>1 DEF Arrives
  <2>3. CASE fn \notin Functions
    BY <1>2, <1>5, <2>1, <2>3 DEF Within
  <2>. QED BY <2>2, <2>3
<1>. QED BY <1>1, <1>6, <1>7, <1>8

-----------------------------------------------------------------------------
(* The theorems.                                                           *)

(* Whatever programs of the grammar are compiled, the compiler's state is  *)
(* well formed: opcodes and operands are bytes, scopes and symbol tables   *)
(* are entered and left together, and every function that is open will be  *)
(* left (enterScope and leaveScope, compiler.go:408-430).                  *)
THEOREM CompilerTypes ==
  ASSUME NEW CONSTANT trees, Grammar(trees), Programs \subseteq Of(trees, {"Program"})
  PROVE  Spec => []TypeOK
<1>1. Init => CInv(trees)
  BY InitCInv
<1>2. CInv(trees) /\ [Next]_vars => CInv(trees)'
  BY NextCInv
<1>3. CInv(trees) => TypeOK
  BY CInvTypeOK
<1>. QED BY <1>1, <1>2, <1>3, PTL DEF Spec

(* Whatever programs of the grammar are compiled, lastInstruction is the   *)
(* last instruction of its scope, so removeLastPop and                     *)
(* replaceLastPopWithReturn cut and overwrite a whole instruction          *)
(* (compiler.go:382, compiler.go:432).                                     *)
THEOREM LastIsLast ==
  ASSUME NEW CONSTANT trees, Grammar(trees), Programs \subseteq Of(trees, {"Program"})
  PROVE  Spec => []LastInstructionTracked
<1>1. Init => CInv(trees)
  BY InitCInv
<1>2. CInv(trees) /\ [Next]_vars => CInv(trees)'
  BY NextCInv
<1>3. CInv(trees) => LastInstructionTracked
  BY CInvTracked
<1>. QED BY <1>1, <1>2, <1>3, PTL DEF Spec

(* Whatever programs of the grammar are compiled, as long as two bytes hold *)
(* the positions of the code, every jump of finished code goes forward to   *)
(* an instruction of the same function, and a conditional one behind the    *)
(* jump that ends its consequence: no bogus operand is left, and the pops   *)
(* that are taken off shift no target (compiler.go:139-176).                *)
THEOREM JumpsReachInstructions ==
  ASSUME NEW CONSTANT trees, Grammar(trees), Programs \subseteq Of(trees, {"Program"})
  PROVE  Spec => [](CodeFits => JumpsLand)
<1>1. Init => CInv(trees)
  BY InitCInv
<1>2. CInv(trees) /\ [Next]_vars => CInv(trees)'
  BY NextCInv
<1>3. CInv(trees) => (CodeFits => JumpsLand)
  BY CInvJumpsLand
<1>. QED BY <1>1, <1>2, <1>3, PTL DEF Spec

(* Whatever programs of the grammar are compiled, as long as two bytes     *)
(* hold the indexes of the constants and one byte the number of captured   *)
(* values, finished code only names what exists: locals and globals that   *)
(* are defined, constants of the pool, and captured values that the        *)
(* OpClosure for the function gathers (compiler.go:186-205,                *)
(* compiler.go:268-303, symbol_table.go:51-87).                            *)
THEOREM NamedSlotsExist ==
  ASSUME NEW CONSTANT trees, Grammar(trees), Programs \subseteq Of(trees, {"Program"})
  PROVE  Spec /\ []SizesFit => []SlotsExist
<1>1. Init => CInv(trees) /\ RoomInv
  BY InitCInv, InitRooms
<1>2. CInv(trees) /\ [Next]_vars => CInv(trees)'
  BY NextCInv
<1>3. CInv(trees) /\ RoomInv /\ SizesFit /\ SizesFit' /\ [Next]_vars => RoomInv'
  BY NextRooms
<1>4. CInv(trees) /\ RoomInv => SlotsExist
  BY RoomsSlots
<1>. QED BY <1>1, <1>2, <1>3, <1>4, PTL DEF Spec

(* Whatever programs of the grammar are compiled whose ifs end in a value  *)
(* and whose lists an operand can count, the finished code keeps the stack *)
(* balanced whatever path is taken: an instruction finds what it takes,    *)
(* two paths that meet leave the same depth, a function returns before its *)
(* end and a program leaves nothing (compiler.go:139-176,                  *)
(* compiler.go:268-303, compiler.go:382-443).                              *)
THEOREM CodeBalanced ==
  ASSUME NEW CONSTANT trees, Grammar(trees), Valued(trees), Programs \subseteq Of(trees, {"Program"})
  PROVE  Spec /\ []SizesFit => [](CodeFits => StackBalanced)
<1>1. Init => CInv(trees) /\ LevelInv
  BY InitCInv, InitLevels
<1>2. CInv(trees) /\ [Next]_vars => CInv(trees)'
  BY NextCInv
<1>3. CInv(trees) /\ LevelInv /\ SizesFit /\ [Next]_vars => LevelInv'
  BY NextLevels
<1>4. CInv(trees) /\ LevelInv => (CodeFits => StackBalanced)
  BY LevelsBalanced
<1>. QED BY <1>1, <1>2, <1>3, <1>4, PTL DEF Spec
==============================================================================
