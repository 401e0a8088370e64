-------------------------- MODULE SymbolTableProofs --------------------------
(***************************************************************************)
(* The symbol table's invariants, for all names, all built-ins and all     *)
(* bounds.                                                                 *)
(***************************************************************************)
EXTENDS SymbolTable, ProofBasics

(* The tables as one set, for the theorems about sequences.                *)
Tables == [store : UNION {[D -> Symbols] : D \in SUBSET Names},
           numDefinitions : Nat, FreeSymbols : Seq(Symbols)]

(* IsTable characterises the tables.                                       *)
LEMMA TableIsRecord ==
  ASSUME NEW t
  PROVE  IsTable(t) <=> t \in Tables
<1>1. ASSUME IsTable(t) PROVE t \in Tables
  BY <1>1 DEF IsTable, Tables
<1>2. ASSUME t \in Tables PROVE IsTable(t)
  <2>1. PICK D \in SUBSET Names : t.store \in [D -> Symbols]
    BY <1>2 DEF Tables
  <2>. QED BY <1>2, <2>1 DEF IsTable, Tables
<1>. QED BY <1>1, <1>2

(* TypeOK says that the chain is a non-empty sequence of tables.           *)
LEMMA TypeIsSequence ==
  TypeOK <=> /\ tables \in Seq(Tables) /\ Len(tables) \in Nat \ {0}
             /\ resolved \in Seq(SUBSET Symbols)
<1>. DEFINE R == {tables[k] : k \in DOMAIN tables}
<1>1. ASSUME TypeOK PROVE tables \in Seq(Tables)
  <2>1. R \subseteq Tables
    BY <1>1, TableIsRecord DEF TypeOK
  <2>2. tables \in Seq(R)
    BY <1>1 DEF TypeOK
  <2>. QED BY <2>1, <2>2, SeqMonotonic
<1>2. ASSUME tables \in Seq(Tables) PROVE tables \in Seq(R) /\ \A k \in DOMAIN tables : IsTable(tables[k])
  BY <1>2, TableIsRecord, SeqDef, LenProperties
<1>3. ASSUME tables \in Seq(Tables) PROVE tables # <<>> <=> Len(tables) \in Nat \ {0}
  BY <1>3, EmptySeq
<1>. QED BY <1>1, <1>2, <1>3 DEF TypeOK

-----------------------------------------------------------------------------
(* Binding a name changes that name only.                                  *)
LEMMA BindStores ==
  ASSUME NEW t, IsTable(t), NEW s \in Symbols
  PROVE  /\ DOMAIN Bind(t.store, s) = DOMAIN t.store \cup {s.Name}
         /\ DOMAIN Bind(t.store, s) \subseteq Names
         /\ Bind(t.store, s) \in [DOMAIN Bind(t.store, s) -> Symbols]
         /\ Bind(t.store, s)[s.Name] = s
         /\ \A n \in DOMAIN t.store : n # s.Name => Bind(t.store, s)[n] = t.store[n]
BY DEF IsTable, Bind, Symbols

(* The table after a definition.                                           *)
Defined(k, t, name) ==
  LET s == Symbol(name, IF k = 1 THEN GlobalScope ELSE LocalScope, t.numDefinitions)
  IN  [store |-> Bind(t.store, s), numDefinitions |-> t.numDefinitions + 1,
       FreeSymbols |-> t.FreeSymbols]

(* A definition keeps what held of the table, and loads what it loaded.    *)
LEMMA DefinedTable ==
  ASSUME NEW k \in Nat \ {0}, NEW t, IsTable(t), NEW name \in Names,
         LoadsItsNames(k, t), SlotsDistinct(t)
  PROVE  LET d == Defined(k, t, name)
         IN  /\ IsTable(d)
             /\ d.FreeSymbols = t.FreeSymbols
             /\ \A s \in Symbols : Loadable(k, t, s) => Loadable(k, d, s)
             /\ LoadsItsNames(k, d)
             /\ SlotsDistinct(d)
<1>. DEFINE sym == Symbol(name, IF k = 1 THEN GlobalScope ELSE LocalScope, t.numDefinitions)
            d == Defined(k, t, name)
<1>1. sym \in Symbols /\ sym.Name = name
  BY DEF IsTable, Symbol, Symbols, GlobalScope, LocalScope
<1>2. /\ d = [store |-> Bind(t.store, sym), numDefinitions |-> t.numDefinitions + 1,
              FreeSymbols |-> t.FreeSymbols]
      /\ t.numDefinitions \in Nat
      /\ t.FreeSymbols \in Seq(Symbols)
  BY DEF Defined, IsTable
<1>. HIDE DEF d
<1>3. /\ DOMAIN d.store = DOMAIN t.store \cup {name}
      /\ DOMAIN d.store \subseteq Names
      /\ d.store \in [DOMAIN d.store -> Symbols]
      /\ d.store[name] = sym
      /\ \A n \in DOMAIN t.store : n # name => d.store[n] = t.store[n]
  <2>1. d.store = Bind(t.store, sym)
    BY <1>2
  <2>. HIDE DEF sym
  <2>2. sym \in Symbols
    BY <1>1
  <2>3. /\ DOMAIN Bind(t.store, sym) = DOMAIN t.store \cup {sym.Name}
        /\ DOMAIN Bind(t.store, sym) \subseteq Names
        /\ Bind(t.store, sym) \in [DOMAIN Bind(t.store, sym) -> Symbols]
        /\ Bind(t.store, sym)[sym.Name] = sym
        /\ \A n \in DOMAIN t.store : n # sym.Name => Bind(t.store, sym)[n] = t.store[n]
    BY <2>2, BindStores
  <2>. QED BY <1>1, <2>1, <2>3
<1>4. IsTable(d)
  BY <1>2, <1>3 DEF IsTable
<1>5. ASSUME NEW s \in Symbols, Loadable(k, t, s) PROVE Loadable(k, d, s)
  BY <1>2, <1>5 DEF Loadable, Symbols
<1>6. Loadable(k, d, sym)
  BY <1>2 DEF Loadable, Symbol, GlobalScope, LocalScope
<1>7. LoadsItsNames(k, d)
  BY <1>1, <1>3, <1>5, <1>6 DEF LoadsItsNames, IsTable
<1>8. ASSUME NEW n \in DOMAIN t.store, t.store[n].Scope = sym.Scope
      PROVE  t.store[n].Index < sym.Index
  BY <1>8 DEF LoadsItsNames, Loadable, Symbol, GlobalScope, LocalScope, FreeScope, BuiltinScope
<1>9. SlotsDistinct(d)
  <2>. SUFFICES ASSUME NEW m \in DOMAIN d.store, NEW n \in DOMAIN d.store,
                       d.store[m].Scope = d.store[n].Scope,
                       d.store[m].Index = d.store[n].Index
                PROVE  m = n
    BY DEF SlotsDistinct
  <2>0. /\ \A x \in DOMAIN t.store : t.store[x].Index \in Nat
        /\ sym.Index \in Nat
    BY <1>1 DEF IsTable, Symbols
  <2>1. CASE m # name /\ n # name
    BY <1>3, <2>1 DEF SlotsDistinct
  <2>2. CASE m = name /\ n # name
    BY <1>3, <1>8, <2>0, <2>2
  <2>3. CASE m # name /\ n = name
    BY <1>3, <1>8, <2>0, <2>3
  <2>. QED BY <2>1, <2>2, <2>3
<1>. QED BY <1>2, <1>4, <1>5, <1>7, <1>9 DEF d

(* The table after a capture: the same, and the captured name stands for   *)
(* the new end of FreeSymbols.                                             *)
LEMMA CapturingTable ==
  ASSUME NEW k \in Nat, k > 1, NEW t, IsTable(t), NEW o \in Symbols,
         LoadsItsNames(k, t), SlotsDistinct(t)
  PROVE  LET d == DefineFree(t, o)
         IN  /\ IsTable(d)
             /\ d.FreeSymbols = Append(t.FreeSymbols, o)
             /\ \A s \in Symbols : Loadable(k, t, s) => Loadable(k, d, s)
             /\ Loadable(k, d, FreeSymbol(t, o.Name))
             /\ LoadsItsNames(k, d)
             /\ SlotsDistinct(d)
<1>. DEFINE sym == FreeSymbol(t, o.Name)
            d == DefineFree(t, o)
<1>0. t.FreeSymbols \in Seq(Symbols) /\ Len(t.FreeSymbols) \in Nat
      /\ DOMAIN t.FreeSymbols = 1..Len(t.FreeSymbols)
  BY LenProperties DEF IsTable
<1>1. sym \in Symbols /\ sym.Name = o.Name
  BY <1>0 DEF FreeSymbol, Symbol, Symbols, FreeScope
<1>2. d = [store |-> Bind(t.store, sym), numDefinitions |-> t.numDefinitions,
           FreeSymbols |-> Append(t.FreeSymbols, o)]
  BY DEF DefineFree
<1>. HIDE DEF d
<1>a. /\ d.FreeSymbols \in Seq(Symbols)
      /\ Len(d.FreeSymbols) = Len(t.FreeSymbols) + 1
      /\ \A i \in 1..Len(t.FreeSymbols) : d.FreeSymbols[i] = t.FreeSymbols[i]
      /\ d.FreeSymbols[Len(t.FreeSymbols) + 1] = o
      /\ DOMAIN d.FreeSymbols = 1..Len(d.FreeSymbols)
  BY <1>0, <1>2, AppendProperties, LenProperties
<1>3. /\ DOMAIN d.store = DOMAIN t.store \cup {o.Name}
      /\ DOMAIN d.store \subseteq Names
      /\ d.store \in [DOMAIN d.store -> Symbols]
      /\ d.store[o.Name] = sym
      /\ \A n \in DOMAIN t.store : n # o.Name => d.store[n] = t.store[n]
  <2>1. d.store = Bind(t.store, sym)
    BY <1>2
  <2>. HIDE DEF sym
  <2>. QED BY <1>1, <2>1, BindStores
<1>4. IsTable(d)
  BY <1>2, <1>3, <1>a DEF IsTable
<1>5. ASSUME NEW s \in Symbols, Loadable(k, t, s) PROVE Loadable(k, d, s)
  BY <1>0, <1>2, <1>a, <1>5 DEF Loadable, Symbols
<1>6. Loadable(k, d, sym)
  BY <1>0, <1>a DEF Loadable, FreeSymbol, Symbol
<1>7. LoadsItsNames(k, d)
  BY <1>1, <1>3, <1>5, <1>6 DEF LoadsItsNames, IsTable
<1>8. ASSUME NEW n \in DOMAIN t.store, t.store[n].Scope = FreeScope
      PROVE  t.store[n].Index < sym.Index
  <2>1. t.store[n] \in Symbols
    BY DEF IsTable
  <2>2. t.store[n].Index + 1 \in 1..Len(t.FreeSymbols)
    BY <1>0, <1>8 DEF LoadsItsNames, Loadable, LocalScope, FreeScope
  <2>. QED BY <1>0, <2>1, <2>2 DEF Symbols, FreeSymbol, Symbol
<1>9. SlotsDistinct(d)
  <2>. SUFFICES ASSUME NEW m \in DOMAIN d.store, NEW n \in DOMAIN d.store,
                       d.store[m].Scope = d.store[n].Scope,
                       d.store[m].Index = d.store[n].Index
                PROVE  m = n
    BY DEF SlotsDistinct
  <2>0. /\ \A x \in DOMAIN t.store : t.store[x].Index \in Nat
        /\ sym.Index \in Nat
        /\ sym.Scope = FreeScope
    BY <1>1 DEF IsTable, Symbols, FreeSymbol, Symbol
  <2>1. CASE m # o.Name /\ n # o.Name
    BY <1>3, <2>1 DEF SlotsDistinct
  <2>2. CASE m = o.Name /\ n # o.Name
    BY <1>3, <1>8, <2>0, <2>2
  <2>3. CASE m # o.Name /\ n = o.Name
    BY <1>3, <1>8, <2>0, <2>3
  <2>. QED BY <2>1, <2>2, <2>3
<1>10. d.FreeSymbols = Append(t.FreeSymbols, o)
  BY <1>2
<1>. QED BY <1>4, <1>5, <1>6, <1>7, <1>9, <1>10 DEF d

-----------------------------------------------------------------------------
(* The invariants imply each other's preservation: that indexes are new    *)
(* (NoSharedSlot) rests on old ones being in range (StoredLoadable), and   *)
(* that captures can be loaded on both.                                    *)
IInv == TypeOK /\ StoredLoadable /\ CapturesLoadable /\ NoSharedSlot

(* What IInv says of a chain that is known to be a sequence of tables.     *)
LEMMA IInvOfTables ==
  ASSUME IInv
  PROVE  /\ tables \in Seq(Tables) /\ Len(tables) \in Nat \ {0}
         /\ DOMAIN tables = 1..Len(tables)
         /\ \A k \in 1..Len(tables) :
              /\ tables[k] \in Tables /\ IsTable(tables[k])
              /\ LoadsItsNames(k, tables[k])
              /\ SlotsDistinct(tables[k])
              /\ \A i \in DOMAIN tables[k].FreeSymbols :
                   k > 1 /\ Loadable(k - 1, tables[k - 1], tables[k].FreeSymbols[i])
<1>1. tables \in Seq(Tables) /\ Len(tables) \in Nat \ {0}
  BY TypeIsSequence DEF IInv
<1>2. DOMAIN tables = 1..Len(tables)
  BY <1>1, LenProperties
<1>3. \A k \in 1..Len(tables) : tables[k] \in Tables /\ IsTable(tables[k])
  BY <1>1, ElementOfSeq, TableIsRecord
<1>. QED BY <1>1, <1>2, <1>3 DEF IInv, StoredLoadable, CapturesLoadable, NoSharedSlot

(* How to show IInv of the next state.                                     *)
LEMMA TablesMakeIInv ==
  ASSUME tables' \in Seq(Tables), Len(tables') \in Nat \ {0},
         resolved' \in Seq(SUBSET Symbols),
         \A k \in 1..Len(tables') :
           /\ LoadsItsNames(k, tables'[k])
           /\ SlotsDistinct(tables'[k])
           /\ \A i \in DOMAIN tables'[k].FreeSymbols :
                k > 1 /\ Loadable(k - 1, tables'[k - 1], tables'[k].FreeSymbols[i])
  PROVE  IInv'
<1>1. DOMAIN tables' = 1..Len(tables')
  BY LenProperties
<1>2. TypeOK'
  <2>. DEFINE R == {tables'[k] : k \in DOMAIN tables'}
  <2>1. tables' \in Seq(R) /\ \A k \in DOMAIN tables' : IsTable(tables'[k])
    BY TableIsRecord, SeqDef, LenProperties
  <2>2. tables' # <<>>
    BY EmptySeq
  <2>. QED BY <2>1, <2>2 DEF TypeOK
<1>3. StoredLoadable' /\ CapturesLoadable' /\ NoSharedSlot'
  BY <1>1 DEF StoredLoadable, CapturesLoadable, NoSharedSlot
<1>. QED BY <1>2, <1>3 DEF IInv

(* The chain starts with the built-ins in the global table.                *)
LEMMA InitEstablishes == Init => IInv
<1>. SUFFICES ASSUME Init PROVE IInv
  OBVIOUS
<1>. DEFINE g == DefineBuiltins
            N == {BuiltinNames[i] : i \in DOMAIN BuiltinNames}
            idx(n) == CHOOSE i \in DOMAIN BuiltinNames : BuiltinNames[i] = n
<1>1. tables = <<g>> /\ resolved = <<>>
  BY DEF Init
<1>2. g = [store |-> [n \in N |-> Symbol(n, BuiltinScope, idx(n) - 1)],
           numDefinitions |-> 0, FreeSymbols |-> <<>>]
  BY DEF DefineBuiltins
<1>3. \A n \in N : idx(n) \in DOMAIN BuiltinNames /\ BuiltinNames[idx(n)] = n
  OBVIOUS
<1>4. DOMAIN BuiltinNames \subseteq Nat \ {0} /\ N \subseteq Names
  BY SymbolTableAssumption, LenProperties, ElementOfSeq
<1>. HIDE DEF g, N, idx
<1>5. \A n \in N : /\ Symbol(n, BuiltinScope, idx(n) - 1) \in Symbols
                   /\ idx(n) - 1 + 1 = idx(n)
  BY <1>3, <1>4 DEF Symbol, Symbols, BuiltinScope
<1>6. IsTable(g)
  BY <1>2, <1>4, <1>5 DEF IsTable
<1>7. LoadsItsNames(1, g)
  BY <1>2, <1>3, <1>5 DEF LoadsItsNames, Loadable, Symbol
<1>8. SlotsDistinct(g)
  <2>. SUFFICES ASSUME NEW m \in N, NEW n \in N, idx(m) - 1 = idx(n) - 1 PROVE m = n
    BY <1>2 DEF SlotsDistinct, Symbol
  <2>1. idx(m) = idx(n)
    BY <1>3, <1>4
  <2>. QED BY <1>3, <2>1
<1>9. tables \in Seq({tables[k] : k \in DOMAIN tables}) /\ tables # <<>> /\ DOMAIN tables = {1}
  BY <1>1
<1>10. TypeOK
  BY <1>1, <1>6, <1>9 DEF TypeOK
<1>. QED BY <1>1, <1>2, <1>7, <1>8, <1>9, <1>10
       DEF IInv, StoredLoadable, CapturesLoadable, NoSharedSlot

-----------------------------------------------------------------------------
(* One lemma per action.  Define changes the innermost table only, and     *)
(* what other tables captured is not in it.                                *)
LEMMA DefinePreserves ==
  ASSUME IInv, NEW name \in Names, DefineName(name)
  PROVE  IInv'
<1>. DEFINE n == Len(tables)
            d == Defined(n, tables[n], name)
<1>1. /\ tables \in Seq(Tables) /\ n \in Nat \ {0} /\ DOMAIN tables = 1..n
      /\ \A k \in 1..n :
           /\ IsTable(tables[k]) /\ LoadsItsNames(k, tables[k]) /\ SlotsDistinct(tables[k])
           /\ \A i \in DOMAIN tables[k].FreeSymbols :
                k > 1 /\ Loadable(k - 1, tables[k - 1], tables[k].FreeSymbols[i])
  BY IInvOfTables
<1>2. tables' = [tables EXCEPT ![n] = d]
  BY <1>1 DEF DefineName, Define, DefinedSymbol, Defined
<1>3. /\ IsTable(d)
      /\ d.FreeSymbols = tables[n].FreeSymbols
      /\ \A s \in Symbols : Loadable(n, tables[n], s) => Loadable(n, d, s)
      /\ LoadsItsNames(n, d)
      /\ SlotsDistinct(d)
  BY <1>1, DefinedTable
<1>. HIDE DEF d
<1>4. d \in Tables
  BY <1>3, TableIsRecord
<1>5. /\ tables' \in Seq(Tables)
      /\ Len(tables') = n
      /\ \A j \in 1..n : tables'[j] = IF j = n THEN d ELSE tables[j]
  BY <1>1, <1>2, <1>4, ExceptSeq
<1>6. resolved' \in Seq(SUBSET Symbols)
  BY EmptySeq DEF DefineName
<1>7. ASSUME NEW k \in 1..n
      PROVE  /\ LoadsItsNames(k, tables'[k]) /\ SlotsDistinct(tables'[k])
             /\ \A i \in DOMAIN tables'[k].FreeSymbols :
                  k > 1 /\ Loadable(k - 1, tables'[k - 1], tables'[k].FreeSymbols[i])
  <2>1. LoadsItsNames(k, tables'[k]) /\ SlotsDistinct(tables'[k])
    BY <1>1, <1>3, <1>5
  <2>2. tables'[k].FreeSymbols = tables[k].FreeSymbols
    BY <1>3, <1>5
  <2>3. ASSUME k > 1 PROVE tables'[k - 1] = tables[k - 1]
    <3>1. k - 1 \in 1..n /\ k - 1 # n
      BY <1>1, <2>3
    <3>. QED BY <1>5, <3>1
  <2>. QED BY <1>1, <2>1, <2>2, <2>3
<1>. QED BY <1>1, <1>5, <1>6, <1>7, TablesMakeIInv

(* A new table is empty and changes no other.                              *)
LEMMA EnterPreserves ==
  ASSUME IInv, EnterScope
  PROVE  IInv'
<1>. DEFINE n == Len(tables)
            e == NewSymbolTable
<1>1. /\ tables \in Seq(Tables) /\ n \in Nat \ {0} /\ DOMAIN tables = 1..n
      /\ \A k \in 1..n :
           /\ LoadsItsNames(k, tables[k]) /\ SlotsDistinct(tables[k])
           /\ \A i \in DOMAIN tables[k].FreeSymbols :
                k > 1 /\ Loadable(k - 1, tables[k - 1], tables[k].FreeSymbols[i])
  BY IInvOfTables
<1>2. /\ DOMAIN e.store = {} /\ e.FreeSymbols = <<>> /\ IsTable(e)
  BY DEF NewSymbolTable, IsTable
<1>3. tables' = Append(tables, e) /\ resolved' = <<>>
  BY DEF EnterScope, NewEnclosedSymbolTable
<1>4. e \in Tables
  BY <1>2, TableIsRecord
<1>. HIDE DEF e
<1>5. /\ tables' \in Seq(Tables) /\ Len(tables') = n + 1
      /\ \A j \in 1..n : tables'[j] = tables[j]
      /\ tables'[n + 1] = e
  BY <1>3, <1>1, <1>4, AppendProperties
<1>6. resolved' \in Seq(SUBSET Symbols)
  BY <1>3, EmptySeq
<1>7. LoadsItsNames(n + 1, e) /\ SlotsDistinct(e) /\ DOMAIN e.FreeSymbols = {}
  BY <1>2 DEF LoadsItsNames, SlotsDistinct
<1>8. ASSUME NEW k \in 1..n + 1
      PROVE  /\ LoadsItsNames(k, tables'[k]) /\ SlotsDistinct(tables'[k])
             /\ \A i \in DOMAIN tables'[k].FreeSymbols :
                  k > 1 /\ Loadable(k - 1, tables'[k - 1], tables'[k].FreeSymbols[i])
  <2>1. CASE k = n + 1
    BY <1>5, <1>7, <2>1
  <2>2. CASE k \in 1..n
    <3>1. tables'[k] = tables[k] /\ (k > 1 => tables'[k - 1] = tables[k - 1])
      BY <1>1, <1>5, <2>2
    <3>. QED BY <1>1, <2>2, <3>1
  <2>. QED BY <1>1, <2>1, <2>2
<1>. QED BY <1>1, <1>5, <1>6, <1>8, TablesMakeIInv

(* What is left of the chain was there before.                             *)
LEMMA LeavePreserves ==
  ASSUME IInv, LeaveScope
  PROVE  IInv'
<1>. DEFINE n == Len(tables)
<1>1. /\ tables \in Seq(Tables) /\ n \in Nat \ {0} /\ DOMAIN tables = 1..n
      /\ \A k \in 1..n :
           /\ tables[k] \in Tables
           /\ LoadsItsNames(k, tables[k]) /\ SlotsDistinct(tables[k])
           /\ \A i \in DOMAIN tables[k].FreeSymbols :
                k > 1 /\ Loadable(k - 1, tables[k - 1], tables[k].FreeSymbols[i])
  BY IInvOfTables
<1>2. n > 1 /\ tables' = SubSeq(tables, 1, n - 1) /\ resolved' = <<>>
  BY DEF LeaveScope, Outer
<1>3. /\ tables' \in Seq(Tables) /\ Len(tables') = n - 1
      /\ \A j \in 1..n - 1 : tables'[j] = tables[j]
  BY <1>1, <1>2, SubSeqProperties
<1>4. resolved' \in Seq(SUBSET Symbols)
  BY <1>2, EmptySeq
<1>5. ASSUME NEW k \in 1..n - 1
      PROVE  /\ LoadsItsNames(k, tables'[k]) /\ SlotsDistinct(tables'[k])
             /\ \A i \in DOMAIN tables'[k].FreeSymbols :
                  k > 1 /\ Loadable(k - 1, tables'[k - 1], tables'[k].FreeSymbols[i])
  <2>1. k \in 1..n /\ tables'[k] = tables[k] /\ (k > 1 => tables'[k - 1] = tables[k - 1])
    BY <1>1, <1>3
  <2>. QED BY <1>1, <2>1
<1>. QED BY <1>1, <1>2, <1>3, <1>4, <1>5, TablesMakeIInv

(* Resolve finds a home: a non-empty set of depths has a largest one.      *)
LEMMA HomeExists ==
  ASSUME NEW S, NEW chain \in Seq(S), NEW name, Resolvable(chain, name)
  PROVE  /\ Home(chain, name) \in 1..Len(chain)
         /\ name \in DOMAIN chain[Home(chain, name)].store
         /\ \A j \in 1..Len(chain) :
              name \in DOMAIN chain[j].store => j <= Home(chain, name)
<1>. DEFINE D == Storing(chain, name)
            n == Len(chain)
            T == {n - k : k \in D}
<1>1. n \in Nat /\ D \subseteq 1..n /\ D # {}
  BY LenProperties DEF Storing, Resolvable
<1>2. T \subseteq Nat /\ T # {}
  BY <1>1
<1>3. PICK x \in T : \A y \in T : x <= y
  BY <1>2, LeastNumber
<1>4. PICK k \in D : x = n - k
  OBVIOUS
<1>5. \A j \in D : j <= k
  <2>. SUFFICES ASSUME NEW j \in D PROVE j <= k
    OBVIOUS
  <2>1. n - k <= n - j
    BY <1>3, <1>4
  <2>. QED BY <1>1, <2>1
<1>6. Home(chain, name) \in D /\ \A j \in D : j <= Home(chain, name)
  BY <1>5 DEF Home
<1>. QED BY <1>1, <1>6, LenProperties DEF Storing

(* What a successful Resolve answers in a table at or inside the home.     *)
LEMMA AnswerIsSymbol ==
  ASSUME IInv, NEW name \in Names, Resolvable(tables, name), NEW k \in 1..Len(tables)
  PROVE  ResolvedAt(tables, name, k) \in Symbols /\ ResolvedAt(tables, name, k).Name = name
<1>. DEFINE h == Home(tables, name)
<1>1. /\ tables \in Seq(Tables)
      /\ \A j \in 1..Len(tables) : IsTable(tables[j]) /\ LoadsItsNames(j, tables[j])
  BY IInvOfTables
<1>2. h \in 1..Len(tables) /\ name \in DOMAIN tables[h].store
  BY <1>1, HomeExists
<1>3. Found(tables, name) \in Symbols /\ Found(tables, name).Name = name
  BY <1>1, <1>2 DEF Found, LoadsItsNames, IsTable
<1>4. Len(tables[k].FreeSymbols) \in Nat
  BY <1>1, LenProperties DEF IsTable
<1>5. FreeSymbol(tables[k], name) \in Symbols /\ FreeSymbol(tables[k], name).Name = name
  BY <1>4 DEF FreeSymbol, Symbol, Symbols, FreeScope
<1>. QED BY <1>3, <1>5 DEF ResolvedAt

(* Each table inside the home captures what the one outside it resolved,   *)
(* which that table can load once its own capture is made.                 *)
LEMMA ResolvePreserves ==
  ASSUME IInv, NEW name \in Names, ResolveName(name)
  PROVE  IInv'
<1>. DEFINE n == Len(tables)
            h == Home(tables, name)
            At(k) == ResolvedAt(tables, name, k)
<1>1. /\ tables \in Seq(Tables) /\ n \in Nat \ {0} /\ DOMAIN tables = 1..n
      /\ \A k \in 1..n :
           /\ tables[k] \in Tables /\ IsTable(tables[k])
           /\ LoadsItsNames(k, tables[k]) /\ SlotsDistinct(tables[k])
           /\ \A i \in DOMAIN tables[k].FreeSymbols :
                k > 1 /\ Loadable(k - 1, tables[k - 1], tables[k].FreeSymbols[i])
  BY IInvOfTables
<1>2. resolved' \in Seq(SUBSET Symbols)
  <2>1. CASE Resolvable(tables, name)
    <3>1. At(n) \in Symbols
      BY <1>1, <2>1, AnswerIsSymbol
    <3>2. resolved' = <<{At(n)}>>
      BY <2>1 DEF ResolveName, Resolved
    <3>. QED BY <3>1, <3>2
  <2>2. CASE ~Resolvable(tables, name)
    <3>1. resolved' = <<{}>>
      BY <2>2 DEF ResolveName
    <3>. QED BY <3>1
  <2>. QED BY <2>1, <2>2
<1>3. CASE ~(Resolvable(tables, name) /\ Captured(tables, name))
  <2>1. tables' = tables
    BY <1>3 DEF ResolveName, Resolve
  <2>. QED BY <1>1, <1>2, <2>1, TablesMakeIInv
<1>4. CASE Resolvable(tables, name) /\ Captured(tables, name)
  <2>1. tables' = [k \in 1..n |-> IF k > h THEN DefineFree(tables[k], At(k - 1))
                                            ELSE tables[k]]
    BY <1>1, <1>4 DEF ResolveName, Resolve
  <2>2. h \in 1..n /\ name \in DOMAIN tables[h].store
    BY <1>1, <1>4, HomeExists
  <2>3. \A k \in 1..n : At(k) \in Symbols /\ At(k).Name = name
    BY <1>4, AnswerIsSymbol
  <2>4. /\ At(h) = tables[h].store[name]
        /\ \A k \in 1..n : k > h => At(k) = FreeSymbol(tables[k], name)
    BY <1>4, <2>2 DEF ResolvedAt, Found
  <2>. HIDE DEF At, h
  <2>5. ASSUME NEW k \in 1..n, k > h
        PROVE  /\ k > 1 /\ k - 1 \in 1..n /\ k - 1 >= h
               /\ IsTable(tables'[k])
               /\ tables'[k].FreeSymbols = Append(tables[k].FreeSymbols, At(k - 1))
               /\ \A s \in Symbols : Loadable(k, tables[k], s) => Loadable(k, tables'[k], s)
               /\ Loadable(k, tables'[k], At(k))
               /\ LoadsItsNames(k, tables'[k])
               /\ SlotsDistinct(tables'[k])
    <3>1. k \in Nat /\ k > 1 /\ k - 1 \in 1..n /\ k - 1 >= h
      BY <1>1, <2>2, <2>5
    <3>2. tables'[k] = DefineFree(tables[k], At(k - 1))
      BY <2>1, <2>5
    <3>3. At(k - 1) \in Symbols /\ At(k - 1).Name = name
      BY <2>3, <3>1
    <3>4. At(k) = FreeSymbol(tables[k], name)
      BY <2>4, <2>5
    <3>. QED BY <1>1, <3>1, <3>2, <3>3, <3>4, CapturingTable
  <2>6. ASSUME NEW k \in 1..n, ~(k > h) PROVE tables'[k] = tables[k]
    BY <2>1, <2>6
  <2>7. Loadable(h, tables'[h], At(h))
    BY <1>1, <2>2, <2>4, <2>6 DEF LoadsItsNames
  <2>8. ASSUME NEW k \in 1..n
        PROVE  /\ tables'[k] \in Tables
               /\ LoadsItsNames(k, tables'[k]) /\ SlotsDistinct(tables'[k])
               /\ \A s \in Symbols : Loadable(k, tables[k], s) => Loadable(k, tables'[k], s)
    BY <1>1, <2>5, <2>6, TableIsRecord
  <2>9. tables' \in Seq(Tables) /\ Len(tables') = n
    <3>1. tables' \in [1..n -> Tables]
      BY <2>1, <2>8
    <3>. QED BY <1>1, <3>1, SeqDef, LenProperties
  <2>10. ASSUME NEW k \in 1..n, NEW i \in DOMAIN tables'[k].FreeSymbols
         PROVE  k > 1 /\ Loadable(k - 1, tables'[k - 1], tables'[k].FreeSymbols[i])
    <3>. DEFINE F == tables[k].FreeSymbols
    <3>0. F \in Seq(Symbols) /\ Len(F) \in Nat /\ DOMAIN F = 1..Len(F)
      BY <1>1, LenProperties DEF IsTable
    <3>1. ASSUME i \in DOMAIN F, tables'[k].FreeSymbols[i] = F[i]
          PROVE  k > 1 /\ Loadable(k - 1, tables'[k - 1], F[i])
      <4>1. k > 1 /\ Loadable(k - 1, tables[k - 1], F[i])
        BY <1>1, <3>1
      <4>2. F[i] \in Symbols /\ k - 1 \in 1..n
        BY <1>1, <3>0, <3>1, <4>1, ElementOfSeq
      <4>. QED BY <2>8, <4>1, <4>2
    <3>2. CASE ~(k > h)
      BY <2>6, <2>10, <3>1, <3>2
    <3>3. CASE k > h
      <4>1. tables'[k].FreeSymbols = Append(F, At(k - 1)) /\ k > 1 /\ k - 1 \in 1..n /\ k - 1 >= h
        BY <2>5, <3>3
      <4>2. /\ \A j \in 1..Len(F) : Append(F, At(k - 1))[j] = F[j]
            /\ Append(F, At(k - 1))[Len(F) + 1] = At(k - 1)
            /\ DOMAIN Append(F, At(k - 1)) = 1..Len(F) + 1
        BY <2>3, <3>0, <4>1, AppendProperties, LenProperties
      <4>3. CASE i \in 1..Len(F)
        BY <3>0, <3>1, <4>1, <4>2, <4>3
      <4>4. CASE i = Len(F) + 1
        <5>1. tables'[k].FreeSymbols[i] = At(k - 1)
          BY <4>1, <4>2, <4>4
        <5>2. Loadable(k - 1, tables'[k - 1], At(k - 1))
          <6>1. CASE k - 1 = h
            BY <2>7, <6>1
          <6>2. CASE k - 1 > h
            BY <2>5, <4>1, <6>2
          <6>. QED BY <1>1, <2>2, <4>1, <6>1, <6>2
        <5>. QED BY <4>1, <5>1, <5>2
      <4>. QED BY <2>10, <3>0, <4>1, <4>2, <4>3, <4>4
    <3>. QED BY <3>2, <3>3
  <2>. QED BY <1>1, <1>2, <2>8, <2>9, <2>10, TablesMakeIInv
<1>. QED BY <1>3, <1>4

-----------------------------------------------------------------------------
(* The symbol table is well typed after every sequence of calls of Define, *)
(* Resolve, NewEnclosedSymbolTable and leaveScope; IInv is inductive.      *)
LEMMA Invariance == Spec => []IInv
<1>1. IInv /\ UNCHANGED vars => IInv'
  BY DEF IInv, vars, TypeOK, StoredLoadable, CapturesLoadable, NoSharedSlot
<1>2. IInv /\ [Next]_vars => IInv'
  BY <1>1, DefinePreserves, ResolvePreserves, EnterPreserves, LeavePreserves DEF Next
<1>. QED BY InitEstablishes, <1>2, PTL DEF Spec

(* The chain of tables always has its type (symbol_table.go:12-24).        *)
THEOREM TypeCorrect == Spec => []TypeOK
BY Invariance, PTL DEF IInv

(* Whatever is defined, captured, entered and left, every name a table     *)
(* stores denotes a slot of that table that holds it.                      *)
THEOREM NamesLoadable == Spec => []StoredLoadable
BY Invariance, PTL DEF IInv

(* What a function captures, the function around it can load when the      *)
(* compiler emits the loads before OpClosure (compiler.go:291-293).        *)
THEOREM FreeSymbolsLoadable == Spec => []CapturesLoadable
BY Invariance, PTL DEF IInv

(* No two names of a table share a slot.                                   *)
THEOREM SlotsNeverShared == Spec => []NoSharedSlot
BY Invariance, PTL DEF IInv

-----------------------------------------------------------------------------
(* What a symbol stands for.  Declaration is defined by recursion over the *)
(* depth; f is a solution of that recursion up to depth k.                 *)
Solves(f, chain, k) ==
  f = [j \in 0..k |-> Meanings(chain, j, IF j = 0 THEN <<>> ELSE f[j - 1])]

(* The walk outwards through FreeSymbols ends: the recursion has a         *)
(* solution for every depth.                                               *)
LEMMA FollowExists ==
  ASSUME NEW chain, NEW k \in Nat
  PROVE  \E f : Solves(f, chain, k)
<1>. DEFINE T == {m \in Nat : \E f : Solves(f, chain, m)}
<1>1. 0 \in T
  <2>1. Solves([j \in 0..0 |-> Meanings(chain, j, <<>>)], chain, 0)
    BY DEF Solves
  <2>. QED BY <2>1
<1>2. ASSUME NEW m \in Nat, m \in T PROVE m + 1 \in T
  <2>1. PICK f : Solves(f, chain, m)
    BY <1>2
  <2>. DEFINE g == [j \in 0..m + 1 |-> IF j = m + 1 THEN Meanings(chain, j, f[m]) ELSE f[j]]
  <2>2. ASSUME NEW j \in 0..m + 1
        PROVE  g[j] = Meanings(chain, j, IF j = 0 THEN <<>> ELSE g[j - 1])
    <3>1. CASE j = m + 1
      <4>1. j # 0 /\ j - 1 = m /\ m \in 0..m + 1 /\ m # m + 1
        BY <3>1
      <4>2. g[j - 1] = f[m]
        BY <4>1
      <4>. QED BY <3>1, <4>1, <4>2
    <3>2. CASE j # m + 1
      <4>1. j \in 0..m /\ (j # 0 => j - 1 \in 0..m + 1 /\ j - 1 # m + 1)
        BY <3>2
      <4>2. g[j] = f[j] /\ (j # 0 => g[j - 1] = f[j - 1])
        BY <3>2, <4>1
      <4>. QED BY <2>1, <4>1, <4>2 DEF Solves
    <3>. QED BY <3>1, <3>2
  <2>3. Solves(g, chain, m + 1)
    BY <2>2 DEF Solves
  <2>. QED BY <2>3
<1>3. \A m \in Nat : m \in T
  BY <1>1, <1>2, SetInduction
<1>. QED BY <1>3

(* Solutions for two depths agree as far as both go.                       *)
LEMMA FollowAgrees ==
  ASSUME NEW chain, NEW k \in Nat, NEW m \in Nat, NEW f, NEW g,
         Solves(f, chain, k), Solves(g, chain, m), NEW i \in Nat, i <= k, i <= m
  PROVE  f[i] = g[i]
<1>. DEFINE T == {j \in Nat : j <= k /\ j <= m => f[j] = g[j]}
<1>1. 0 \in T
  BY DEF Solves
<1>2. ASSUME NEW j \in Nat, j \in T PROVE j + 1 \in T
  <2>. SUFFICES ASSUME j + 1 <= k, j + 1 <= m PROVE f[j + 1] = g[j + 1]
    OBVIOUS
  <2>1. f[j] = g[j] /\ (j + 1) - 1 = j /\ j + 1 # 0 /\ j + 1 \in 0..k /\ j + 1 \in 0..m
    BY <1>2
  <2>2. /\ f[j + 1] = Meanings(chain, j + 1, f[(j + 1) - 1])
        /\ g[j + 1] = Meanings(chain, j + 1, g[(j + 1) - 1])
    BY <2>1 DEF Solves
  <2>. QED BY <2>1, <2>2
<1>3. \A j \in Nat : j \in T
  BY <1>1, <1>2, SetInduction
<1>. QED BY <1>3

(* What Declaration says of each kind of symbol (symbol_table.go:3-10).    *)
LEMMA DeclarationIs ==
  ASSUME NEW chain, NEW k \in Nat \ {0}, NEW s \in Symbols
  PROVE  /\ s.Scope = LocalScope   => Declaration(chain, k, s) = <<k, s.Index>>
         /\ s.Scope = GlobalScope  => Declaration(chain, k, s) = <<1, s.Index>>
         /\ s.Scope = BuiltinScope => Declaration(chain, k, s) = <<0, s.Index>>
         /\ (/\ s.Scope = FreeScope /\ k > 1 /\ s.Index < Len(chain[k].FreeSymbols)
             /\ chain[k].FreeSymbols[s.Index + 1] \in Symbols)
            => Declaration(chain, k, s) = Declaration(chain, k - 1, chain[k].FreeSymbols[s.Index + 1])
<1>. DEFINE follow(m) == CHOOSE f : Solves(f, chain, m)
<1>1. \A m \in Nat : Solves(follow(m), chain, m)
  BY FollowExists
<1>2. \A m \in Nat : \A t : Declaration(chain, m, t) = follow(m)[m][t]
  BY DEF Declaration, Solves
<1>. HIDE DEF follow
<1>3. k - 1 \in Nat /\ k \in 0..k /\ k # 0 /\ k > 0 /\ k - 1 <= k
  OBVIOUS
<1>4. follow(k)[k] = Meanings(chain, k, follow(k)[k - 1])
  <2>1. Solves(follow(k), chain, k)
    BY <1>1
  <2>. QED BY <1>3, <2>1 DEF Solves
<1>5. follow(k)[k - 1] = follow(k - 1)[k - 1]
  BY <1>1, <1>3, FollowAgrees
<1>6. Declaration(chain, k, s) = Meanings(chain, k, follow(k - 1)[k - 1])[s]
  BY <1>2, <1>4, <1>5
<1>7. \A t : Declaration(chain, k - 1, t) = follow(k - 1)[k - 1][t]
  BY <1>2, <1>3
<1>. QED BY <1>3, <1>6, <1>7 DEF Meanings, LocalScope, GlobalScope, BuiltinScope, FreeScope

(* What IInv says of a chain, wherever the chain comes from.               *)
Sound(chain) ==
  /\ chain \in Seq(Tables) /\ Len(chain) \in Nat \ {0} /\ DOMAIN chain = 1..Len(chain)
  /\ \A k \in 1..Len(chain) :
       /\ IsTable(chain[k])
       /\ LoadsItsNames(k, chain[k])
       /\ \A i \in DOMAIN chain[k].FreeSymbols :
            k > 1 /\ Loadable(k - 1, chain[k - 1], chain[k].FreeSymbols[i])

(* The live tables are such a chain.                                       *)
LEMMA TablesSound == IInv => Sound(tables)
BY IInvOfTables DEF Sound

(* The second chain captures at least what the first does, up to depth m.  *)
CapturesMore(chain, later, m) ==
  \A j \in 1..m :
    /\ Len(chain[j].FreeSymbols) <= Len(later[j].FreeSymbols)
    /\ \A i \in 1..Len(chain[j].FreeSymbols) :
         later[j].FreeSymbols[i] = chain[j].FreeSymbols[i]

(* A table loads a free symbol only if it has captured it.                 *)
LEMMA LoadableSymbol ==
  ASSUME NEW chain, Sound(chain), NEW k \in 1..Len(chain), NEW s \in Symbols,
         Loadable(k, chain[k], s)
  PROVE  \/ s.Scope \in {LocalScope, GlobalScope, BuiltinScope}
         \/ /\ s.Scope = FreeScope /\ k > 1
            /\ s.Index < Len(chain[k].FreeSymbols)
            /\ s.Index + 1 \in 1..Len(chain[k].FreeSymbols)
            /\ chain[k].FreeSymbols[s.Index + 1] \in Symbols
            /\ Loadable(k - 1, chain[k - 1], chain[k].FreeSymbols[s.Index + 1])
<1>. DEFINE F == chain[k].FreeSymbols
<1>1. F \in Seq(Symbols) /\ Len(F) \in Nat /\ DOMAIN F = 1..Len(F)
  BY LenProperties DEF Sound, IsTable
<1>2. k \in Nat /\ k >= 1 /\ s.Index \in Nat
  BY DEF Sound, Symbols
<1>3. CASE s.Scope = FreeScope
  <2>1. k > 1 /\ s.Index + 1 \in DOMAIN F
    BY <1>2, <1>3 DEF Loadable, FreeScope, GlobalScope, LocalScope, BuiltinScope
  <2>2. Loadable(k - 1, chain[k - 1], F[s.Index + 1])
    BY <2>1 DEF Sound
  <2>3. F[s.Index + 1] \in Symbols
    BY <1>1, <2>1, ElementOfSeq
  <2>4. s.Index < Len(F) /\ s.Index + 1 \in 1..Len(F)
    BY <1>1, <1>2, <2>1
  <2>. QED BY <1>3, <2>1, <2>2, <2>3, <2>4
<1>4. CASE s.Scope # FreeScope
  BY <1>4 DEF Symbols
<1>. QED BY <1>3, <1>4

(* Later captures leave what a loadable symbol stands for alone: the       *)
(* entries of FreeSymbols are never moved.                                 *)
LEMMA DeclarationStable ==
  ASSUME NEW chain, NEW later, Sound(chain), Sound(later),
         NEW m \in Nat, m <= Len(chain), m <= Len(later), CapturesMore(chain, later, m),
         NEW k \in Nat, k \in 1..m, NEW s \in Symbols, Loadable(k, chain[k], s)
  PROVE  Declaration(later, k, s) = Declaration(chain, k, s)
<1>. DEFINE T == {j \in Nat : j \in 1..m =>
                    \A t \in Symbols : Loadable(j, chain[j], t) =>
                      Declaration(later, j, t) = Declaration(chain, j, t)}
<1>1. 0 \in T
  OBVIOUS
<1>2. ASSUME NEW j \in Nat, j \in T PROVE j + 1 \in T
  <2>. SUFFICES ASSUME j + 1 \in 1..m, NEW t \in Symbols, Loadable(j + 1, chain[j + 1], t)
                PROVE  Declaration(later, j + 1, t) = Declaration(chain, j + 1, t)
    OBVIOUS
  <2>. DEFINE F == chain[j + 1].FreeSymbols
              G == later[j + 1].FreeSymbols
  <2>1. /\ j + 1 \in Nat \ {0} /\ (j + 1) - 1 = j
        /\ j + 1 \in 1..Len(chain) /\ j + 1 \in 1..Len(later)
    BY DEF Sound
  <2>2. CASE t.Scope \in {LocalScope, GlobalScope, BuiltinScope}
    <3>1. \A c : /\ t.Scope = LocalScope   => Declaration(c, j + 1, t) = <<j + 1, t.Index>>
                 /\ t.Scope = GlobalScope  => Declaration(c, j + 1, t) = <<1, t.Index>>
                 /\ t.Scope = BuiltinScope => Declaration(c, j + 1, t) = <<0, t.Index>>
      BY <2>1, DeclarationIs
    <3>. QED BY <2>2, <3>1
  <2>3. CASE t.Scope \notin {LocalScope, GlobalScope, BuiltinScope}
    <3>1. /\ t.Scope = FreeScope /\ j + 1 > 1
          /\ t.Index < Len(F) /\ t.Index + 1 \in 1..Len(F)
          /\ F[t.Index + 1] \in Symbols
          /\ Loadable((j + 1) - 1, chain[(j + 1) - 1], F[t.Index + 1])
      BY <2>1, <2>3, LoadableSymbol
    <3>2. Declaration(chain, j + 1, t) = Declaration(chain, j, F[t.Index + 1])
      BY <2>1, <3>1, DeclarationIs
    <3>3. Len(F) \in Nat /\ Len(G) \in Nat /\ t.Index \in Nat
      BY <2>1, LenProperties DEF Sound, IsTable, Symbols
    <3>4. Len(F) <= Len(G) /\ G[t.Index + 1] = F[t.Index + 1]
      BY <3>1 DEF CapturesMore
    <3>5. t.Index < Len(G) /\ G[t.Index + 1] \in Symbols
      BY <3>1, <3>3, <3>4
    <3>6. Declaration(later, j + 1, t) = Declaration(later, j, F[t.Index + 1])
      BY <2>1, <3>1, <3>4, <3>5, DeclarationIs
    <3>7. j \in 1..m
      BY <2>1, <3>1
    <3>8. Declaration(later, j, F[t.Index + 1]) = Declaration(chain, j, F[t.Index + 1])
      BY <1>2, <2>1, <3>1, <3>7
    <3>. QED BY <3>2, <3>6, <3>8
  <2>. QED BY <2>2, <2>3
<1>3. \A j \in Nat : j \in T
  BY <1>1, <1>2, SetInduction
<1>. QED BY <1>3

-----------------------------------------------------------------------------
(* The j-th table is the nearest to the k-th, outwards, to declare n.      *)
Nearest(chain, k, n, j) ==
  /\ j \in 1..k
  /\ n \in Own(chain[j])
  /\ \A i \in 1..k : i > j => n \notin Own(chain[i])

MeansNearest(chain, k, n, s) ==
  \E j \in 1..k : /\ Nearest(chain, k, n, j)
                  /\ Declaration(chain, k, s) = Declaration(chain, j, chain[j].store[n])

(* A stored name, captured or not, stands for the nearest declaration.     *)
StoredMeansNearest(chain) ==
  \A k \in 1..Len(chain) : \A n \in DOMAIN chain[k].store :
    MeansNearest(chain, k, n, chain[k].store[n])

(* How a later chain inherits the nearest declaration: it owns the same    *)
(* names up to depth k, and has the same symbols for them.                 *)
LEMMA NearestKept ==
  ASSUME NEW chain, NEW later, Sound(chain), Sound(later),
         NEW k \in 1..Len(chain), k \in 1..Len(later), CapturesMore(chain, later, k),
         NEW n, NEW s \in Symbols, Loadable(k, chain[k], s), MeansNearest(chain, k, n, s),
         \A i \in 1..k : /\ n \in Own(later[i]) <=> n \in Own(chain[i])
                         /\ n \in Own(chain[i]) => later[i].store[n] = chain[i].store[n]
  PROVE  MeansNearest(later, k, n, s)
<1>1. PICK j \in 1..k : /\ Nearest(chain, k, n, j)
                        /\ Declaration(chain, k, s) = Declaration(chain, j, chain[j].store[n])
  BY DEF MeansNearest
<1>2. k \in Nat /\ k <= Len(chain) /\ k <= Len(later) /\ k \in 1..k /\ j \in Nat /\ j \in 1..Len(chain)
  BY DEF Sound
<1>3. Declaration(later, k, s) = Declaration(chain, k, s)
  BY <1>2, DeclarationStable
<1>4. /\ chain[j].store[n] \in Symbols /\ Loadable(j, chain[j], chain[j].store[n])
      /\ later[j].store[n] = chain[j].store[n]
  BY <1>1, <1>2 DEF Sound, IsTable, LoadsItsNames, Nearest, Own
<1>5. Declaration(later, j, later[j].store[n]) = Declaration(chain, j, chain[j].store[n])
  BY <1>2, <1>4, DeclarationStable
<1>6. Nearest(later, k, n, j)
  BY <1>1 DEF Nearest
<1>. QED BY <1>1, <1>3, <1>5, <1>6 DEF MeansNearest

(* A table that declares the name itself is the nearest.                   *)
LEMMA OwnIsNearest ==
  ASSUME NEW chain, NEW k \in Nat \ {0}, NEW n \in Own(chain[k])
  PROVE  MeansNearest(chain, k, n, chain[k].store[n])
<1>1. k \in 1..k /\ Nearest(chain, k, n, k)
  BY DEF Nearest
<1>. QED BY <1>1 DEF MeansNearest

(* The next four lemmas: StoredMeansNearest survives each call.            *)
LEMMA InitNearest == Init => StoredMeansNearest(tables)
<1>. SUFFICES ASSUME Init PROVE StoredMeansNearest(tables)
  OBVIOUS
<1>1. tables = <<DefineBuiltins>> /\ Len(tables) = 1 /\ tables[1] = DefineBuiltins
  BY DEF Init
<1>2. \A n \in DOMAIN tables[1].store : n \in Own(tables[1])
  BY <1>1 DEF Own, DefineBuiltins, Symbol, BuiltinScope, FreeScope
<1>3. \A n \in DOMAIN tables[1].store : MeansNearest(tables, 1, n, tables[1].store[n])
  BY <1>2, OwnIsNearest
<1>. QED BY <1>1, <1>3 DEF StoredMeansNearest

(* A definition adds a declaration to the innermost table, from where no   *)
(* table has captured anything yet.                                        *)
LEMMA DefineNearest ==
  ASSUME IInv, Sound(tables), Sound(tables'), StoredMeansNearest(tables),
         NEW name \in Names, DefineName(name)
  PROVE  StoredMeansNearest(tables')
<1>. DEFINE n == Len(tables)
            d == Defined(n, tables[n], name)
<1>1. n \in Nat \ {0} /\ DOMAIN tables = 1..n /\ tables \in Seq(Tables)
      /\ \A k \in 1..n : IsTable(tables[k]) /\ LoadsItsNames(k, tables[k])
  BY DEF Sound
<1>2. tables' = [tables EXCEPT ![n] = d]
  BY <1>1 DEF DefineName, Define, DefinedSymbol, Defined
<1>3. /\ d.FreeSymbols = tables[n].FreeSymbols
      /\ DOMAIN d.store = DOMAIN tables[n].store \cup {name}
      /\ d.store[name].Scope # FreeScope
      /\ \A m \in DOMAIN tables[n].store : m # name => d.store[m] = tables[n].store[m]
  BY <1>1 DEF Defined, Bind, Symbol, LocalScope, GlobalScope, FreeScope
<1>. HIDE DEF d
<1>4. Len(tables') = n /\ \A j \in 1..n : tables'[j] = IF j = n THEN d ELSE tables[j]
  BY <1>1, <1>2, LenProperties DEF Sound
<1>5. \A k \in 1..n : CapturesMore(tables, tables', k)
  <2>1. \A j \in 1..n : tables'[j].FreeSymbols = tables[j].FreeSymbols /\ Len(tables[j].FreeSymbols) \in Nat
    BY <1>1, <1>3, <1>4, LenProperties DEF IsTable
  <2>. QED BY <1>1, <2>1 DEF CapturesMore
<1>6. ASSUME NEW k \in 1..n, NEW m \in DOMAIN tables'[k].store
      PROVE  MeansNearest(tables', k, m, tables'[k].store[m])
  <2>1. CASE k = n /\ m = name
    BY <1>1, <1>3, <1>4, <2>1, OwnIsNearest DEF Own
  <2>2. CASE k # n \/ m # name
    <3>1. m \in DOMAIN tables[k].store /\ tables'[k].store[m] = tables[k].store[m]
      BY <1>3, <1>4, <1>6, <2>2
    <3>2. MeansNearest(tables, k, m, tables[k].store[m])
      BY <3>1 DEF StoredMeansNearest
    <3>3. tables[k].store[m] \in Symbols /\ Loadable(k, tables[k], tables[k].store[m])
      BY <1>1, <3>1 DEF IsTable, LoadsItsNames
    <3>4. \A i \in 1..k : /\ m \in Own(tables'[i]) <=> m \in Own(tables[i])
                          /\ m \in Own(tables[i]) => tables'[i].store[m] = tables[i].store[m]
      <4>. SUFFICES ASSUME NEW i \in 1..k
                    PROVE  /\ m \in Own(tables'[i]) <=> m \in Own(tables[i])
                           /\ m \in Own(tables[i]) => tables'[i].store[m] = tables[i].store[m]
        OBVIOUS
      <4>0. n \in Nat /\ k \in Nat /\ i \in Nat /\ 1 <= i /\ i <= k /\ k <= n
        BY <1>1
      <4>1. i \in 1..n /\ (i # n \/ m # name)
        BY <2>2, <4>0
      <4>. QED BY <1>3, <1>4, <4>1 DEF Own
    <3>. QED BY <1>1, <1>4, <1>5, <3>1, <3>2, <3>3, <3>4, NearestKept
  <2>. QED BY <2>1, <2>2
<1>. QED BY <1>4, <1>6 DEF StoredMeansNearest

(* Entering and leaving a function leave the tables that stay alone.       *)
LEMMA ScopeNearest ==
  ASSUME Sound(tables), Sound(tables'), StoredMeansNearest(tables),
         EnterScope \/ LeaveScope
  PROVE  StoredMeansNearest(tables')
<1>. DEFINE n == Len(tables)
            n2 == Len(tables')
<1>1. /\ n \in Nat \ {0} /\ n2 \in Nat \ {0}
      /\ \A k \in 1..n : IsTable(tables[k]) /\ LoadsItsNames(k, tables[k])
  BY DEF Sound
<1>2. /\ \A k \in 1..n2 : k \in 1..n => tables'[k] = tables[k]
      /\ \A k \in 1..n2 : k \notin 1..n => DOMAIN tables'[k].store = {}
  <2>1. CASE EnterScope
    <3>1. tables' = Append(tables, NewSymbolTable) /\ DOMAIN NewSymbolTable.store = {}
      BY <2>1 DEF EnterScope, NewEnclosedSymbolTable, NewSymbolTable
    <3>2. /\ n2 = n + 1 /\ tables'[n + 1] = NewSymbolTable
          /\ \A j \in 1..n : tables'[j] = tables[j]
      BY <3>1 DEF Sound
    <3>. QED BY <1>1, <3>1, <3>2
  <2>2. CASE LeaveScope
    <3>1. n > 1 /\ tables' = SubSeq(tables, 1, n - 1)
      BY <2>2 DEF LeaveScope, Outer
    <3>2. n2 = n - 1 /\ \A j \in 1..n - 1 : tables'[j] = tables[j]
      BY <3>1, SubSeqProperties DEF Sound
    <3>. QED BY <1>1, <3>2
  <2>. QED BY <2>1, <2>2
<1>3. ASSUME NEW k \in 1..n2, NEW m \in DOMAIN tables'[k].store
      PROVE  MeansNearest(tables', k, m, tables'[k].store[m])
  <2>1. k \in 1..n /\ tables'[k] = tables[k]
    BY <1>2, <1>3
  <2>2. \A i \in 1..k : tables'[i] = tables[i] /\ Len(tables[i].FreeSymbols) \in Nat
    <3>1. \A i \in 1..k : i \in 1..n /\ i \in 1..n2
      BY <1>1, <2>1
    <3>. QED BY <1>1, <1>2, <3>1, LenProperties DEF IsTable
  <2>3. CapturesMore(tables, tables', k)
    BY <2>2 DEF CapturesMore
  <2>4. MeansNearest(tables, k, m, tables[k].store[m])
    BY <2>1 DEF StoredMeansNearest
  <2>5. tables[k].store[m] \in Symbols /\ Loadable(k, tables[k], tables[k].store[m])
    BY <1>1, <2>1 DEF IsTable, LoadsItsNames
  <2>. QED BY <2>1, <2>2, <2>3, <2>4, <2>5, NearestKept
<1>. QED BY <1>3 DEF StoredMeansNearest

(* The chain after a Resolve that captures: the tables inside the home     *)
(* have one more free symbol each, and what each name they declare stands  *)
(* for is as it was.                                                       *)
LEMMA ResolveChanges ==
  ASSUME IInv, Sound(tables), Sound(tables'), NEW name \in Names, ResolveName(name),
         Resolvable(tables, name), Captured(tables, name)
  PROVE  LET n == Len(tables)
             h == Home(tables, name)
         IN  /\ Len(tables') = n /\ h \in 1..n
             /\ \A k \in 1..n :
                  /\ Own(tables'[k]) = Own(tables[k])
                  /\ tables'[k].numDefinitions = tables[k].numDefinitions
                  /\ \A m \in DOMAIN tables[k].store :
                       m \in DOMAIN tables'[k].store /\ tables'[k].store[m] = tables[k].store[m]
                  /\ CapturesMore(tables, tables', k)
                  /\ k <= h => tables'[k] = tables[k]
                  /\ k > h =>
                       /\ name \notin DOMAIN tables[k].store
                       /\ DOMAIN tables'[k].store = DOMAIN tables[k].store \cup {name}
                       /\ tables'[k].store[name] = FreeSymbol(tables[k], name)
                       /\ Len(tables'[k].FreeSymbols) = Len(tables[k].FreeSymbols) + 1
                       /\ tables'[k].FreeSymbols[Len(tables[k].FreeSymbols) + 1]
                            = ResolvedAt(tables, name, k - 1)
<1>. DEFINE n == Len(tables)
            h == Home(tables, name)
            At(k) == ResolvedAt(tables, name, k)
<1>1. /\ n \in Nat \ {0} /\ DOMAIN tables = 1..n /\ tables \in Seq(Tables)
      /\ \A k \in 1..n : IsTable(tables[k])
  BY DEF Sound
<1>2. /\ h \in 1..n
      /\ \A j \in 1..n : name \in DOMAIN tables[j].store => j <= h
  BY <1>1, HomeExists
<1>3. tables' = [k \in 1..n |-> IF k > h THEN DefineFree(tables[k], At(k - 1)) ELSE tables[k]]
  BY <1>1 DEF ResolveName, Resolve
<1>4. Len(tables') = n
  BY <1>1, <1>3, LenProperties DEF Sound
<1>5. \A k \in 1..n : At(k) \in Symbols /\ At(k).Name = name
  BY AnswerIsSymbol
<1>. HIDE DEF h, At
<1>6. ASSUME NEW k \in 1..n, k > h
      PROVE  /\ name \notin DOMAIN tables[k].store
             /\ DOMAIN tables'[k].store = DOMAIN tables[k].store \cup {name}
             /\ tables'[k].store[name] = FreeSymbol(tables[k], name)
             /\ \A m \in DOMAIN tables[k].store : tables'[k].store[m] = tables[k].store[m]
             /\ tables'[k].numDefinitions = tables[k].numDefinitions
             /\ Len(tables[k].FreeSymbols) \in Nat
             /\ Len(tables'[k].FreeSymbols) = Len(tables[k].FreeSymbols) + 1
             /\ \A i \in 1..Len(tables[k].FreeSymbols) :
                  tables'[k].FreeSymbols[i] = tables[k].FreeSymbols[i]
             /\ tables'[k].FreeSymbols[Len(tables[k].FreeSymbols) + 1] = At(k - 1)
  <2>. DEFINE F == tables[k].FreeSymbols
              o == At(k - 1)
  <2>1. k - 1 \in 1..n /\ ~(k <= h)
    BY <1>1, <1>2, <1>6
  <2>2. o \in Symbols /\ o.Name = name
    BY <1>5, <2>1
  <2>3. F \in Seq(Symbols) /\ Len(F) \in Nat
    BY <1>1, LenProperties DEF IsTable
  <2>4. name \notin DOMAIN tables[k].store
    BY <1>2, <2>1
  <2>. HIDE DEF o
  <2>5. tables'[k] = [store |-> Bind(tables[k].store, FreeSymbol(tables[k], name)),
                      numDefinitions |-> tables[k].numDefinitions,
                      FreeSymbols |-> Append(F, o)]
    BY <1>3, <1>6, <2>2 DEF DefineFree, o
  <2>6. /\ tables'[k].store = Bind(tables[k].store, FreeSymbol(tables[k], name))
        /\ tables'[k].numDefinitions = tables[k].numDefinitions
        /\ tables'[k].FreeSymbols = Append(F, o)
    BY <2>5
  <2>7. /\ Len(Append(F, o)) = Len(F) + 1
        /\ \A i \in 1..Len(F) : Append(F, o)[i] = F[i]
        /\ Append(F, o)[Len(F) + 1] = o
    BY <2>2, <2>3, AppendProperties
  <2>8. /\ DOMAIN tables'[k].store = DOMAIN tables[k].store \cup {name}
        /\ tables'[k].store[name] = FreeSymbol(tables[k], name)
        /\ \A m \in DOMAIN tables[k].store : m # name => tables'[k].store[m] = tables[k].store[m]
    <3>1. FreeSymbol(tables[k], name).Name = name
      BY DEF FreeSymbol, Symbol
    <3>. QED BY <2>6, <3>1 DEF Bind
  <2>. QED BY <2>3, <2>4, <2>6, <2>7, <2>8 DEF o
<1>7. \A k \in 1..n : k <= h => tables'[k] = tables[k]
  BY <1>1, <1>2, <1>3
<1>8. \A k \in 1..n : k <= h \/ k > h
  BY <1>1, <1>2
<1>9. \A k \in 1..n : Own(tables'[k]) = Own(tables[k])
  <2>. SUFFICES ASSUME NEW k \in 1..n, k > h PROVE Own(tables'[k]) = Own(tables[k])
    BY <1>7, <1>8
  <2>1. FreeSymbol(tables[k], name).Scope = FreeScope
    BY DEF FreeSymbol, Symbol
  <2>2. /\ name \notin DOMAIN tables[k].store
        /\ DOMAIN tables'[k].store = DOMAIN tables[k].store \cup {name}
        /\ tables'[k].store[name] = FreeSymbol(tables[k], name)
        /\ \A m \in DOMAIN tables[k].store : tables'[k].store[m] = tables[k].store[m]
    BY <1>6
  <2>. QED BY <2>1, <2>2 DEF Own
<1>10. \A k \in 1..n : CapturesMore(tables, tables', k)
  <2>1. ASSUME NEW j \in 1..n
        PROVE  /\ Len(tables[j].FreeSymbols) <= Len(tables'[j].FreeSymbols)
               /\ \A i \in 1..Len(tables[j].FreeSymbols) :
                    tables'[j].FreeSymbols[i] = tables[j].FreeSymbols[i]
    <3>1. CASE j > h
      BY <1>6, <3>1
    <3>2. CASE j <= h
      <4>1. tables'[j] = tables[j] /\ Len(tables[j].FreeSymbols) \in Nat
        BY <1>1, <1>7, <3>2, LenProperties DEF IsTable
      <4>. QED BY <4>1
    <3>. QED BY <1>8, <3>1, <3>2
  <2>. QED BY <1>1, <2>1 DEF CapturesMore
<1>. QED BY <1>2, <1>4, <1>6, <1>7, <1>8, <1>9, <1>10 DEF h, At

(* A capture stands for what the symbol in the home table stands for: each *)
(* table on the way in captures what the one outside it answered.          *)
LEMMA CaptureMeansFound ==
  ASSUME IInv, Sound(tables), Sound(tables'), NEW name \in Names, ResolveName(name),
         Resolvable(tables, name), Captured(tables, name),
         NEW k \in Nat, k \in 1..Len(tables), k >= Home(tables, name)
  PROVE  /\ name \in DOMAIN tables'[k].store
         /\ tables'[k].store[name] = ResolvedAt(tables, name, k)
         /\ Declaration(tables', k, ResolvedAt(tables, name, k))
              = Declaration(tables, Home(tables, name), Found(tables, name))
<1>. DEFINE n == Len(tables)
            h == Home(tables, name)
            At(j) == ResolvedAt(tables, name, j)
            D == Declaration(tables, h, Found(tables, name))
            T == {j \in Nat : j \in 1..n /\ j >= h => Declaration(tables', j, At(j)) = D}
<1>a. /\ h \in 1..n /\ Len(tables') = n
      /\ \A j \in 1..n :
           /\ CapturesMore(tables, tables', j)
           /\ j <= h => tables'[j] = tables[j]
           /\ j > h =>
                /\ DOMAIN tables'[j].store = DOMAIN tables[j].store \cup {name}
                /\ tables'[j].store[name] = FreeSymbol(tables[j], name)
                /\ Len(tables'[j].FreeSymbols) = Len(tables[j].FreeSymbols) + 1
                /\ tables'[j].FreeSymbols[Len(tables[j].FreeSymbols) + 1] = At(j - 1)
  <2>. HIDE DEF At
  <2>. QED BY ResolveChanges DEF At
<1>b. n \in Nat /\ h <= h
  BY <1>a DEF Sound
<1>1. /\ n \in Nat /\ h \in 1..n /\ Len(tables') = n
      /\ CapturesMore(tables, tables', h) /\ tables'[h] = tables[h]
      /\ \A j \in 1..n : j > h =>
           /\ name \in DOMAIN tables'[j].store
           /\ tables'[j].store[name] = FreeSymbol(tables[j], name)
           /\ Len(tables'[j].FreeSymbols) = Len(tables[j].FreeSymbols) + 1
           /\ tables'[j].FreeSymbols[Len(tables[j].FreeSymbols) + 1] = At(j - 1)
  <2>. HIDE DEF At, h
  <2>. QED BY <1>a, <1>b
<1>2. h \in Nat \ {0} /\ h <= n /\ h \in 1..h
  BY <1>1
<1>3. \A j \in 1..n : At(j) \in Symbols
  BY AnswerIsSymbol
<1>4. /\ At(h) = Found(tables, name)
      /\ \A j \in 1..n : j > h => At(j) = FreeSymbol(tables[j], name)
  BY <1>2 DEF ResolvedAt
<1>5. name \in DOMAIN tables[h].store /\ Found(tables, name) = tables[h].store[name]
  BY HomeExists DEF Found, Sound
<1>6. Found(tables, name) \in Symbols /\ Loadable(h, tables[h], Found(tables, name))
  BY <1>1, <1>5 DEF Sound, IsTable, LoadsItsNames
<1>7. Declaration(tables', h, Found(tables, name)) = D
  BY <1>1, <1>2, <1>6, DeclarationStable
<1>. HIDE DEF h, At, D
<1>8. 0 \in T
  BY <1>2
<1>9. ASSUME NEW j \in Nat, j \in T PROVE j + 1 \in T
  <2>. SUFFICES ASSUME j + 1 \in 1..n, j + 1 >= h PROVE Declaration(tables', j + 1, At(j + 1)) = D
    OBVIOUS
  <2>1. CASE j + 1 = h
    BY <1>4, <1>7, <2>1
  <2>2. CASE j + 1 # h
    <3>. DEFINE s == FreeSymbol(tables[j + 1], name)
    <3>1. /\ j + 1 > h /\ j \in 1..n /\ j >= h /\ (j + 1) - 1 = j
          /\ j + 1 > 1 /\ j + 1 \in Nat \ {0}
      BY <1>1, <1>2, <2>2
    <3>2. /\ At(j + 1) = s /\ At(j + 1) \in Symbols
          /\ Len(tables'[j + 1].FreeSymbols) = Len(tables[j + 1].FreeSymbols) + 1
          /\ tables'[j + 1].FreeSymbols[Len(tables[j + 1].FreeSymbols) + 1] = At(j)
          /\ At(j) \in Symbols
      BY <1>1, <1>3, <1>4, <3>1
    <3>3. /\ s.Scope = FreeScope /\ s.Index = Len(tables[j + 1].FreeSymbols)
      BY DEF FreeSymbol, Symbol
    <3>4. Len(tables[j + 1].FreeSymbols) \in Nat
      BY LenProperties DEF Sound, IsTable
    <3>. HIDE DEF s
    <3>a. /\ s \in Symbols /\ s.Index < Len(tables'[j + 1].FreeSymbols)
          /\ tables'[j + 1].FreeSymbols[s.Index + 1] = At(j)
      BY <3>2, <3>3, <3>4
    <3>b. Declaration(tables', j + 1, s)
            = Declaration(tables', (j + 1) - 1, tables'[j + 1].FreeSymbols[s.Index + 1])
      BY <3>1, <3>2, <3>3, <3>a, DeclarationIs
    <3>5. Declaration(tables', j + 1, s) = Declaration(tables', j, At(j))
      BY <3>1, <3>a, <3>b
    <3>. QED BY <1>9, <3>1, <3>2, <3>5
  <2>. QED BY <2>1, <2>2
<1>10. \A j \in Nat : j \in T
  BY <1>8, <1>9, SetInduction
<1>11. name \in DOMAIN tables'[k].store /\ tables'[k].store[name] = At(k)
  <2>1. CASE k = h
    BY <1>1, <1>4, <1>5, <2>1
  <2>2. CASE k > h
    BY <1>1, <1>4, <2>2
  <2>. QED BY <1>2, <2>1, <2>2 DEF h
<1>. QED BY <1>10, <1>11 DEF h, At, D

(* What Resolve answers, in every table from the home inwards, stands for  *)
(* the nearest declaration of the name (symbol_table.go:83-106).           *)
LEMMA AnswerMeansNearest ==
  ASSUME IInv, Sound(tables), Sound(tables'), StoredMeansNearest(tables),
         NEW name \in Names, ResolveName(name), Resolvable(tables, name),
         NEW k \in 1..Len(tables), k >= Home(tables, name)
  PROVE  MeansNearest(tables', k, name, ResolvedAt(tables, name, k))
<1>. DEFINE n == Len(tables)
            h == Home(tables, name)
            f == Found(tables, name)
            At == ResolvedAt(tables, name, k)
<1>1. /\ h \in 1..n /\ name \in DOMAIN tables[h].store /\ f = tables[h].store[name]
      /\ \A j \in 1..n : name \in DOMAIN tables[j].store => j <= h
  BY HomeExists DEF Found, Sound
<1>2. n \in Nat /\ k \in Nat \ {0} /\ h \in Nat \ {0} /\ k <= n /\ h \in 1..k
  BY <1>1 DEF Sound
<1>3. f \in Symbols /\ Loadable(h, tables[h], f)
  BY <1>1 DEF Sound, IsTable, LoadsItsNames
<1>4. \A i \in 1..k : i > h => name \notin Own(tables[i])
  <2>1. \A i \in 1..k : i > h => i \in 1..n /\ ~(i <= h)
    BY <1>2
  <2>. QED BY <1>1, <2>1 DEF Own
<1>5. CASE ~Captured(tables, name)
  <2>1. f.Scope = GlobalScope \/ f.Scope = BuiltinScope
    BY <1>5 DEF Captured
  <2>2. tables' = tables /\ At = f
    BY <1>5 DEF ResolveName, Resolve, ResolvedAt
  <2>3. Nearest(tables, k, name, h)
    BY <1>1, <1>2, <1>4, <2>1 DEF Nearest, Own, GlobalScope, BuiltinScope, FreeScope
  <2>. HIDE DEF h, f
  <2>4. Declaration(tables, k, f) = Declaration(tables, h, f)
    <3>1. \A i \in Nat \ {0} :
            /\ f.Scope = GlobalScope  => Declaration(tables, i, f) = <<1, f.Index>>
            /\ f.Scope = BuiltinScope => Declaration(tables, i, f) = <<0, f.Index>>
      BY <1>3, DeclarationIs
    <3>. QED BY <1>2, <2>1, <3>1
  <2>. QED BY <1>1, <1>2, <2>2, <2>3, <2>4 DEF MeansNearest
<1>6. CASE Captured(tables, name)
  <2>1. Declaration(tables', k, At) = Declaration(tables, h, f)
    BY <1>2, <1>6, CaptureMeansFound
  <2>2. PICK j \in 1..h : /\ Nearest(tables, h, name, j)
                          /\ Declaration(tables, h, f) = Declaration(tables, j, tables[j].store[name])
    BY <1>1 DEF StoredMeansNearest, MeansNearest
  <2>3. j \in Nat /\ j \in 1..k /\ j \in 1..n /\ j \in 1..j /\ j <= n
    BY <1>1, <1>2, <2>2
  <2>4. /\ Len(tables') = n
        /\ \A i \in 1..n :
             /\ Own(tables'[i]) = Own(tables[i])
             /\ \A m \in DOMAIN tables[i].store : tables'[i].store[m] = tables[i].store[m]
             /\ CapturesMore(tables, tables', i)
    BY <1>6, ResolveChanges
  <2>5. name \in DOMAIN tables[j].store
    BY <2>2 DEF Nearest, Own
  <2>. HIDE DEF h, f, At
  <2>6. tables[j].store[name] \in Symbols /\ Loadable(j, tables[j], tables[j].store[name])
    BY <2>3, <2>5 DEF Sound, IsTable, LoadsItsNames
  <2>7. tables'[j].store[name] = tables[j].store[name]
    BY <2>3, <2>4, <2>5
  <2>8. Declaration(tables', j, tables'[j].store[name]) = Declaration(tables, j, tables[j].store[name])
    BY <2>3, <2>4, <2>6, <2>7, DeclarationStable
  <2>9. Nearest(tables', k, name, j)
    <3>1. name \in Own(tables'[j])
      BY <2>2, <2>3, <2>4 DEF Nearest
    <3>2. ASSUME NEW i \in 1..k, i > j PROVE name \notin Own(tables'[i])
      <4>1. i \in 1..n /\ (i \in 1..h \/ i > h)
        BY <1>2
      <4>2. name \notin Own(tables[i])
        BY <1>4, <2>2, <3>2, <4>1 DEF Nearest
      <4>. QED BY <2>4, <4>1, <4>2
    <3>. QED BY <2>3, <3>1, <3>2 DEF Nearest
  <2>10. Declaration(tables', k, At) = Declaration(tables', j, tables'[j].store[name])
    BY <2>1, <2>2, <2>8
  <2>. QED BY <2>3, <2>9, <2>10 DEF MeansNearest, At
<1>. QED BY <1>5, <1>6

(* A capture gives each table the nearest declaration, and takes no other  *)
(* away.                                                                   *)
LEMMA ResolveNearest ==
  ASSUME IInv, Sound(tables), Sound(tables'), StoredMeansNearest(tables),
         NEW name \in Names, ResolveName(name)
  PROVE  StoredMeansNearest(tables')
<1>. DEFINE n == Len(tables)
            h == Home(tables, name)
<1>1. CASE ~(Resolvable(tables, name) /\ Captured(tables, name))
  <2>1. tables' = tables
    BY <1>1 DEF ResolveName, Resolve
  <2>. QED BY <2>1
<1>2. CASE Resolvable(tables, name) /\ Captured(tables, name)
  <2>1. /\ Len(tables') = n /\ h \in 1..n
        /\ \A k \in 1..n :
             /\ Own(tables'[k]) = Own(tables[k])
             /\ \A m \in DOMAIN tables[k].store : tables'[k].store[m] = tables[k].store[m]
             /\ CapturesMore(tables, tables', k)
             /\ k <= h => tables'[k] = tables[k]
             /\ k > h => DOMAIN tables'[k].store = DOMAIN tables[k].store \cup {name}
    BY <1>2, ResolveChanges
  <2>2. n \in Nat /\ h \in Nat
    BY <2>1 DEF Sound
  <2>. HIDE DEF h
  <2>3. ASSUME NEW k \in 1..n, NEW m \in DOMAIN tables'[k].store
        PROVE  MeansNearest(tables', k, m, tables'[k].store[m])
    <3>1. CASE m \in DOMAIN tables[k].store
      <4>1. tables'[k].store[m] = tables[k].store[m]
        BY <2>1, <3>1
      <4>2. MeansNearest(tables, k, m, tables[k].store[m])
        BY <3>1 DEF StoredMeansNearest
      <4>3. tables[k].store[m] \in Symbols /\ Loadable(k, tables[k], tables[k].store[m])
        BY <3>1 DEF Sound, IsTable, LoadsItsNames
      <4>4. \A i \in 1..k : /\ m \in Own(tables'[i]) <=> m \in Own(tables[i])
                            /\ m \in Own(tables[i]) => tables'[i].store[m] = tables[i].store[m]
        <5>1. \A i \in 1..k : i \in 1..n
          BY <2>2
        <5>. QED BY <2>1, <5>1 DEF Own
      <4>5. CapturesMore(tables, tables', k) /\ k \in 1..Len(tables')
        BY <2>1
      <4>. QED BY <4>1, <4>2, <4>3, <4>4, <4>5, NearestKept
    <3>2. CASE m \notin DOMAIN tables[k].store
      <4>1. k \in Nat /\ k > h /\ m = name
        BY <2>1, <2>2, <2>3, <3>2
      <4>2. k >= h
        BY <2>2, <4>1
      <4>3. tables'[k].store[name] = ResolvedAt(tables, name, k)
        BY <1>2, <4>1, <4>2, CaptureMeansFound DEF h
      <4>. QED BY <1>2, <4>1, <4>2, <4>3, AnswerMeansNearest DEF h
    <3>. QED BY <3>1, <3>2
  <2>. QED BY <2>1, <2>3 DEF StoredMeansNearest
<1>. QED BY <1>1, <1>2

-----------------------------------------------------------------------------
(* The refinement.  A name a table declares itself stands for a slot that  *)
(* no other table has a say in.                                            *)
OwnDeclaration(k, s) ==
  IF s.Scope = LocalScope THEN <<k, s.Index>>
  ELSE IF s.Scope = GlobalScope THEN <<1, s.Index>>
  ELSE <<0, s.Index>>

Body(k, table) ==
  [meaning  |-> [n \in Own(table) |-> OwnDeclaration(k, table.store[n])],
   declared |-> table.numDefinitions]

Bodies(chain) == [k \in DOMAIN chain |-> BodyOf(chain, k)]

(* The bodies a chain of tables stands for.                                *)
LEMMA BodiesAre ==
  ASSUME NEW chain, Sound(chain)
  PROVE  /\ DOMAIN Bodies(chain) = 1..Len(chain) /\ Len(Bodies(chain)) = Len(chain)
         /\ Bodies(chain) \in Seq({BodyOf(chain, k) : k \in 1..Len(chain)})
         /\ \A k \in 1..Len(chain) : /\ Bodies(chain)[k] = BodyOf(chain, k)
                                     /\ BodyOf(chain, k) = Body(k, chain[k])
<1>1. Len(chain) \in Nat /\ DOMAIN chain = 1..Len(chain)
  BY DEF Sound
<1>2. Bodies(chain) \in [1..Len(chain) -> {BodyOf(chain, k) : k \in 1..Len(chain)}]
  BY <1>1 DEF Bodies
<1>3. Bodies(chain) \in Seq({BodyOf(chain, k) : k \in 1..Len(chain)}) /\ Len(Bodies(chain)) = Len(chain)
  BY <1>1, <1>2, SeqDef, LenProperties
<1>4. ASSUME NEW k \in 1..Len(chain) PROVE BodyOf(chain, k) = Body(k, chain[k])
  <2>1. ASSUME NEW n \in Own(chain[k])
        PROVE  Declaration(chain, k, chain[k].store[n]) = OwnDeclaration(k, chain[k].store[n])
    <3>. DEFINE s == chain[k].store[n]
    <3>1. s \in Symbols /\ s.Scope # FreeScope /\ k \in Nat \ {0}
      BY <1>1 DEF Sound, IsTable, Own
    <3>. HIDE DEF s
    <3>2. /\ s.Scope = LocalScope   => Declaration(chain, k, s) = <<k, s.Index>>
          /\ s.Scope = GlobalScope  => Declaration(chain, k, s) = <<1, s.Index>>
          /\ s.Scope = BuiltinScope => Declaration(chain, k, s) = <<0, s.Index>>
      BY <3>1, DeclarationIs
    <3>3. s.Scope \in {LocalScope, GlobalScope, BuiltinScope}
      BY <3>1 DEF Symbols
    <3>4. Declaration(chain, k, s) = OwnDeclaration(k, s)
      BY <3>2, <3>3 DEF OwnDeclaration, LocalScope, GlobalScope, BuiltinScope
    <3>. QED BY <3>4 DEF s
  <2>. QED BY <2>1 DEF BodyOf, Body
<1>. QED BY <1>1, <1>2, <1>3, <1>4 DEF Bodies

(* A fresh chain is a fresh program: only the built-ins are declared.      *)
LEMMA InitSimulates == Init /\ Sound(tables) => Lexical!Init
<1>. SUFFICES ASSUME Init, Sound(tables) PROVE Lexical!Init
  OBVIOUS
<1>1. tables = <<DefineBuiltins>> /\ Len(tables) = 1 /\ tables[1] = DefineBuiltins
  BY DEF Init
<1>2. Body(1, DefineBuiltins) = Lexical!Language
  <2>. DEFINE N == {BuiltinNames[i] : i \in DOMAIN BuiltinNames}
              idx(n) == CHOOSE i \in DOMAIN BuiltinNames : BuiltinNames[i] = n
  <2>1. /\ DefineBuiltins.store = [n \in N |-> Symbol(n, BuiltinScope, idx(n) - 1)]
        /\ DefineBuiltins.numDefinitions = 0
    BY DEF DefineBuiltins
  <2>2. Lexical!Language = [meaning |-> [n \in N |-> <<0, idx(n) - 1>>], declared |-> 0]
    BY DEF Lexical!Language, Lexical!EmptyBody
  <2>. HIDE DEF idx, N
  <2>3. Own(DefineBuiltins) = N
    BY <2>1 DEF Own, Symbol, BuiltinScope, FreeScope
  <2>4. \A n \in N : OwnDeclaration(1, DefineBuiltins.store[n]) = <<0, idx(n) - 1>>
    BY <2>1 DEF OwnDeclaration, Symbol, BuiltinScope, LocalScope, GlobalScope
  <2>. QED BY <2>1, <2>2, <2>3, <2>4 DEF Body
<1>3. Bodies(tables) = <<Body(1, DefineBuiltins)>>
  <2>0. \A k \in 1..Len(tables) : BodyOf(tables, k) = Body(k, tables[k])
    BY BodiesAre
  <2>1. DOMAIN tables = 1..1 /\ BodyOf(tables, 1) = Body(1, DefineBuiltins)
    BY <1>1, <2>0 DEF Sound
  <2>. HIDE DEF Body
  <2>. QED BY <2>1 DEF Bodies
<1>4. resolved = <<>>
  BY DEF Init
<1>. QED BY <1>2, <1>3, <1>4 DEF Lexical!Init, Lexical!NoAnswer, Bodies

(* Define makes one more declaration in the innermost body.                *)
LEMMA DefineSimulates ==
  ASSUME IInv, Sound(tables), Sound(tables'), NEW name \in Names, DefineName(name)
  PROVE  Lexical!Declare(name)
<1>. DEFINE n == Len(tables)
            d == Defined(n, tables[n], name)
            old == Body(n, tables[n])
<1>1. n \in Nat \ {0} /\ DOMAIN tables = 1..n /\ tables \in Seq(Tables) /\ IsTable(tables[n])
  BY DEF Sound
<1>2. tables' = [tables EXCEPT ![n] = d] /\ resolved' = <<>>
  BY <1>1 DEF DefineName, Define, DefinedSymbol, Defined
<1>3. /\ d.numDefinitions = tables[n].numDefinitions + 1
      /\ DOMAIN d.store = DOMAIN tables[n].store \cup {name}
      /\ d.store[name] = Symbol(name, IF n = 1 THEN GlobalScope ELSE LocalScope, tables[n].numDefinitions)
      /\ \A m \in DOMAIN tables[n].store : m # name => d.store[m] = tables[n].store[m]
  BY <1>1 DEF Defined, Bind, Symbol
<1>. HIDE DEF d
<1>4. Len(tables') = n /\ \A j \in 1..n : tables'[j] = IF j = n THEN d ELSE tables[j]
  <2>1. DOMAIN tables' = 1..n /\ DOMAIN tables' = 1..Len(tables') /\ Len(tables') \in Nat
    BY <1>1, <1>2 DEF Sound
  <2>. QED BY <1>1, <1>2, <2>1
<1>5. /\ Own(d) = Own(tables[n]) \cup {name}
      /\ OwnDeclaration(n, d.store[name]) = <<n, tables[n].numDefinitions>>
      /\ \A m \in Own(tables[n]) : m # name => d.store[m] = tables[n].store[m]
  BY <1>1, <1>3 DEF Own, OwnDeclaration, Symbol, GlobalScope, LocalScope, FreeScope
<1>6. /\ DOMAIN old.meaning = Own(tables[n]) /\ old.declared = tables[n].numDefinitions
      /\ \A m \in Own(tables[n]) : old.meaning[m] = OwnDeclaration(n, tables[n].store[m])
  BY DEF Body
<1>7. Body(n, d) = [meaning |-> [m \in DOMAIN old.meaning \cup {name} |->
                                   IF m = name THEN <<n, old.declared>> ELSE old.meaning[m]],
                    declared |-> old.declared + 1]
  <2>1. \A m \in Own(d) : OwnDeclaration(n, d.store[m])
                            = IF m = name THEN <<n, old.declared>> ELSE old.meaning[m]
    BY <1>5, <1>6
  <2>2. DOMAIN old.meaning \cup {name} = Own(d) /\ d.numDefinitions = old.declared + 1
    BY <1>3, <1>5, <1>6
  <2>. HIDE DEF old
  <2>. QED BY <2>1, <2>2 DEF Body
<1>8. /\ DOMAIN Bodies(tables) = 1..n /\ Len(Bodies(tables)) = n
      /\ \A k \in 1..n : Bodies(tables)[k] = Body(k, tables[k])
  BY BodiesAre
<1>9. /\ DOMAIN Bodies(tables') = 1..n
      /\ \A k \in 1..n : Bodies(tables')[k] = Body(k, tables'[k])
  BY <1>4, BodiesAre
<1>10. Bodies(tables)[n] = old /\ Bodies(tables')[n] = Body(n, d)
  <2>1. n \in 1..n
    BY <1>1
  <2>. HIDE DEF n
  <2>2. tables'[n] = d
    BY <1>4, <2>1
  <2>. QED BY <1>8, <1>9, <2>1, <2>2 DEF old
<1>11. \A k \in 1..n : k # n => Bodies(tables')[k] = Bodies(tables)[k]
  BY <1>4, <1>8, <1>9
<1>. HIDE DEF old
<1>12. Bodies(tables') = [Bodies(tables) EXCEPT ![n] =
         [meaning  |-> [m \in DOMAIN @.meaning \cup {name} |->
                          IF m = name THEN <<n, @.declared>> ELSE @.meaning[m]],
          declared |-> @.declared + 1]]
  <2>. DEFINE B == Bodies(tables)
              B2 == Bodies(tables')
  <2>1. B = [k \in 1..n |-> B[k]] /\ B2 = [k \in 1..n |-> B2[k]]
    BY <1>8, <1>9 DEF Bodies
  <2>2. B2 = [B EXCEPT ![n] = Body(n, d)]
    BY <1>1, <1>10, <1>11, <2>1
  <2>. QED BY <1>7, <1>10, <2>2
<1>. QED BY <1>1, <1>2, <1>8, <1>12 DEF Lexical!Declare, Lexical!Here, Lexical!NoAnswer, Bodies

(* Resolve looks the name up: nothing is declared by it, whatever it       *)
(* captures, and it answers with the innermost declaration.                *)
LEMMA ResolveSimulates ==
  ASSUME IInv, Sound(tables), Sound(tables'), StoredMeansNearest(tables),
         NEW name \in Names, ResolveName(name)
  PROVE  Lexical!LookUp(name)
<1>. DEFINE n == Len(tables)
            B == Bodies(tables)
            knowing == {k \in 1..n : name \in DOMAIN B[k].meaning}
<1>1. n \in Nat \ {0} /\ DOMAIN tables = 1..n
  BY DEF Sound
<1>2. DOMAIN B = 1..n /\ Len(B) = n /\ \A k \in 1..n : B[k] = Body(k, tables[k])
  BY BodiesAre
<1>3. /\ Len(tables') = n
      /\ \A k \in 1..n : /\ Own(tables'[k]) = Own(tables[k])
                         /\ tables'[k].numDefinitions = tables[k].numDefinitions
                         /\ \A m \in Own(tables[k]) : tables'[k].store[m] = tables[k].store[m]
  <2>1. CASE ~(Resolvable(tables, name) /\ Captured(tables, name))
    BY <2>1 DEF ResolveName, Resolve
  <2>2. CASE Resolvable(tables, name) /\ Captured(tables, name)
    <3>1. /\ Len(tables') = n
          /\ \A k \in 1..n :
               /\ Own(tables'[k]) = Own(tables[k])
               /\ tables'[k].numDefinitions = tables[k].numDefinitions
               /\ \A m \in DOMAIN tables[k].store : tables'[k].store[m] = tables[k].store[m]
      BY <2>2, ResolveChanges
    <3>. QED BY <3>1 DEF Own
  <2>. QED BY <2>1, <2>2
<1>4. Bodies(tables') = B
  <2>1. \A k \in 1..n : Body(k, tables'[k]) = Body(k, tables[k])
    BY <1>3 DEF Body
  <2>2. DOMAIN Bodies(tables') = 1..n /\ \A k \in 1..n : Bodies(tables')[k] = Body(k, tables'[k])
    BY <1>3, BodiesAre
  <2>3. \A k \in 1..n : Bodies(tables')[k] = B[k]
    BY <1>2, <2>1, <2>2
  <2>4. B = [k \in 1..n |-> B[k]] /\ Bodies(tables') = [k \in 1..n |-> Bodies(tables')[k]]
    BY <1>2, <2>2 DEF Bodies
  <2>. QED BY <2>3, <2>4
<1>5. knowing = {k \in 1..n : name \in Own(tables[k])}
  BY <1>2 DEF Body
<1>6. CASE ~Resolvable(tables, name)
  <2>1. resolved' = <<{}>>
    BY <1>6 DEF ResolveName
  <2>2. knowing = {}
    BY <1>1, <1>5, <1>6 DEF Resolvable, Storing, Own
  <2>. HIDE DEF knowing
  <2>3. resolved' # <<>> /\ resolved'[1] = {}
    BY <2>1
  <2>. QED BY <1>2, <1>4, <2>2, <2>3
         DEF Lexical!LookUp, Lexical!Here, Lexical!NotFound, Bodies, knowing
<1>7. CASE Resolvable(tables, name)
  <2>. DEFINE At == ResolvedAt(tables, name, n)
              answer2 == Declaration(tables', n, At)
  <2>1. resolved' = <<{At}>>
    BY <1>7 DEF ResolveName, Resolved
  <2>2. resolved' # <<>> /\ resolved'[1] = {At} /\ (CHOOSE s \in resolved'[1] : TRUE) = At
    <3>. HIDE DEF At
    <3>. QED BY <2>1
  <2>3. n \in 1..n /\ n >= Home(tables, name)
    BY <1>1, <1>7, HomeExists DEF Sound
  <2>4. PICK j \in 1..n : /\ Nearest(tables', n, name, j)
                          /\ answer2 = Declaration(tables', j, tables'[j].store[name])
    BY <1>7, <2>3, AnswerMeansNearest DEF MeansNearest
  <2>. HIDE DEF answer2, At
  <2>5. j \in knowing /\ \A k \in knowing : j >= k
    <3>1. j \in Nat /\ name \in Own(tables'[j]) /\ \A i \in 1..n : i > j => name \notin Own(tables'[i])
      BY <2>4 DEF Nearest
    <3>2. \A i \in 1..n : i > j => i \notin knowing
      BY <1>3, <1>5, <3>1
    <3>. QED BY <1>1, <1>3, <1>5, <3>1, <3>2
  <2>6. knowing \subseteq Nat /\ knowing # {}
    BY <2>5
  <2>. HIDE DEF knowing
  <2>7. Lexical!Max(knowing) = j
    <3>. DEFINE max == Lexical!Max(knowing)
    <3>1. max \in knowing /\ \A k \in knowing : max >= k
      BY <2>5 DEF Lexical!Max
    <3>. HIDE DEF max
    <3>2. max \in Nat /\ j \in Nat /\ max >= j /\ j >= max
      BY <2>5, <2>6, <3>1
    <3>3. max = j
      BY <3>2
    <3>. QED BY <3>3 DEF max
  <2>8. B[j].meaning[name] = answer2
    <3>1. BodyOf(tables', j) = Bodies(tables')[j] /\ name \in Own(tables'[j])
      BY <1>3, <2>4, BodiesAre DEF Nearest
    <3>2. BodyOf(tables', j).meaning[name] = Declaration(tables', j, tables'[j].store[name])
      BY <3>1 DEF BodyOf
    <3>. QED BY <1>4, <2>4, <3>1, <3>2
  <2>9. (IF resolved = <<>> THEN <<>>
         ELSE IF resolved[1] = {} THEN <<"not found">>
         ELSE Declaration(tables, Len(tables), CHOOSE s \in resolved[1] : TRUE))' = answer2
    BY <1>3, <2>2 DEF answer2
  <2>. QED BY <1>2, <1>4, <2>6, <2>7, <2>8, <2>9 DEF Lexical!LookUp, Lexical!Here, Bodies, knowing
<1>. QED BY <1>6, <1>7

(* A new table is an empty body; the body that closes is forgotten.        *)
LEMMA ScopeSimulates ==
  ASSUME Sound(tables), Sound(tables')
  PROVE  /\ EnterScope => Lexical!Open
         /\ LeaveScope => Lexical!Close
<1>. DEFINE n == Len(tables)
            B == Bodies(tables)
            B2 == Bodies(tables')
<1>1. /\ n \in Nat \ {0} /\ DOMAIN tables = 1..n /\ tables \in Seq(Tables)
  BY DEF Sound
<1>2. DOMAIN B = 1..n /\ Len(B) = n /\ \A k \in 1..n : B[k] = Body(k, tables[k])
  BY BodiesAre
<1>3. DOMAIN B2 = 1..Len(tables') /\ \A k \in 1..Len(tables') : B2[k] = Body(k, tables'[k])
  BY BodiesAre
<1>4. B2 = [k \in 1..Len(tables') |-> B2[k]]
  BY <1>3 DEF Bodies
<1>5. ASSUME EnterScope PROVE Lexical!Open
  <2>1. tables' = Append(tables, NewSymbolTable) /\ resolved' = <<>>
    BY <1>5 DEF EnterScope, NewEnclosedSymbolTable
  <2>2. /\ Len(tables') = n + 1 /\ tables'[n + 1] = NewSymbolTable
        /\ \A j \in 1..n : tables'[j] = tables[j]
    BY <1>1, <2>1
  <2>3. Body(n + 1, NewSymbolTable) = Lexical!EmptyBody
    <3>1. DOMAIN NewSymbolTable.store = {} /\ NewSymbolTable.numDefinitions = 0
      BY DEF NewSymbolTable
    <3>2. Own(NewSymbolTable) = {}
      BY <3>1 DEF Own
    <3>3. Body(n + 1, NewSymbolTable).meaning = [m \in {} |-> <<>>]
      BY <3>2 DEF Body
    <3>. QED BY <3>1, <3>2, <3>3 DEF Body, Lexical!EmptyBody, Lexical!NoAnswer
  <2>4. \A k \in 1..n + 1 : B2[k] = IF k = n + 1 THEN Lexical!EmptyBody ELSE B[k]
    BY <1>1, <1>2, <1>3, <2>2, <2>3
  <2>. HIDE DEF B
  <2>5. Append(B, Lexical!EmptyBody) = [k \in 1..n + 1 |-> IF k = n + 1 THEN Lexical!EmptyBody ELSE B[k]]
    <3>. DEFINE R == {BodyOf(tables, k) : k \in 1..n}
                S == R \cup {Lexical!EmptyBody}
                e == Lexical!EmptyBody
    <3>1. B \in Seq(R)
      BY BodiesAre DEF B
    <3>. HIDE DEF R
    <3>2. B \in Seq(S) /\ e \in S
      BY <3>1, SeqMonotonic
    <3>. HIDE DEF S, e
    <3>3. /\ Append(B, e) \in Seq(S) /\ Len(Append(B, e)) = n + 1
          /\ \A k \in 1..n : Append(B, e)[k] = B[k]
          /\ Append(B, e)[n + 1] = e
      BY <1>2, <3>2, AppendProperties
    <3>4. Append(B, e) = [k \in 1..n + 1 |-> Append(B, e)[k]]
      BY <3>3, SeqDef, LenProperties
    <3>5. \A k \in 1..n + 1 : Append(B, e)[k] = IF k = n + 1 THEN e ELSE B[k]
      BY <1>1, <3>3
    <3>. QED BY <3>4, <3>5 DEF e
  <2>6. B2 = Append(B, Lexical!EmptyBody)
    BY <1>4, <2>2, <2>4, <2>5
  <2>. QED BY <2>1, <2>6 DEF Lexical!Open, Lexical!NoAnswer, B, Bodies
<1>6. ASSUME LeaveScope PROVE Lexical!Close
  <2>1. n > 1 /\ tables' = SubSeq(tables, 1, n - 1) /\ resolved' = <<>>
    BY <1>6 DEF LeaveScope, Outer
  <2>2. Len(tables') = n - 1 /\ \A j \in 1..n - 1 : tables'[j] = tables[j]
    BY <1>1, <2>1, SubSeqProperties
  <2>3. \A k \in 1..n - 1 : B2[k] = B[k]
    BY <1>1, <1>2, <1>3, <2>2
  <2>. HIDE DEF B
  <2>4. SubSeq(B, 1, n - 1) = [k \in 1..n - 1 |-> B[k]]
    <3>1. B \in Seq({BodyOf(tables, k) : k \in 1..n})
      BY BodiesAre DEF B
    <3>2. /\ SubSeq(B, 1, n - 1) \in Seq({BodyOf(tables, k) : k \in 1..n})
          /\ Len(SubSeq(B, 1, n - 1)) = n - 1
          /\ \A k \in 1..n - 1 : SubSeq(B, 1, n - 1)[k] = B[k]
      BY <1>1, <1>2, <2>1, <3>1, SubSeqProperties
    <3>3. SubSeq(B, 1, n - 1) = [k \in 1..n - 1 |-> SubSeq(B, 1, n - 1)[k]]
      BY <3>2, SeqDef, LenProperties
    <3>. QED BY <3>2, <3>3
  <2>5. B2 = SubSeq(B, 1, n - 1)
    BY <1>4, <2>2, <2>3, <2>4
  <2>. QED BY <1>2, <2>1, <2>5 DEF Lexical!Close, Lexical!Here, Lexical!NoAnswer, B, Bodies
<1>. QED BY <1>5, <1>6

(* The chain as the refinement sees it.                                    *)
Chain == Sound(tables) /\ StoredMeansNearest(tables)

(* Every call of the symbol table is a step of lexical scoping, and keeps  *)
(* stored names standing for the nearest declaration.                      *)
LEMMA StepSimulates ==
  ASSUME IInv, Sound(tables), Sound(tables'), StoredMeansNearest(tables), [Next]_vars
  PROVE  /\ StoredMeansNearest(tables')
         /\ [Lexical!Next]_(Lexical!vars)
<1>1. ASSUME NEW name \in Names, DefineName(name)
      PROVE  StoredMeansNearest(tables') /\ Lexical!Next
  BY <1>1, DefineNearest, DefineSimulates DEF Lexical!Next
<1>2. ASSUME NEW name \in Names, ResolveName(name)
      PROVE  StoredMeansNearest(tables') /\ Lexical!Next
  BY <1>2, ResolveNearest, ResolveSimulates DEF Lexical!Next
<1>3. ASSUME EnterScope \/ LeaveScope
      PROVE  StoredMeansNearest(tables') /\ Lexical!Next
  BY <1>3, ScopeNearest, ScopeSimulates DEF Lexical!Next
<1>4. ASSUME UNCHANGED vars
      PROVE  StoredMeansNearest(tables') /\ UNCHANGED Lexical!vars
  BY <1>4 DEF vars, Lexical!vars
<1>. QED BY <1>1, <1>2, <1>3, <1>4 DEF Next

(* The symbol table implements lexical scoping: for every sequence of      *)
(* definitions, look-ups and functions entered and left, Resolve answers   *)
(* with a symbol that leads, through whatever captures were made, to the   *)
(* declaration the innermost enclosing function makes of the name.         *)
THEOREM ImplementsLexicalScope == Spec => ResolvesLexically
<1>1. Init => IInv /\ Sound(tables) /\ StoredMeansNearest(tables) /\ Lexical!Init
  BY InitEstablishes, TablesSound, InitNearest, InitSimulates
<1>2. Init => Chain /\ Lexical!Init
  BY <1>1 DEF Chain
<1>3. IInv /\ Sound(tables)' /\ Chain /\ [Next]_vars => Chain' /\ [Lexical!Next]_(Lexical!vars)
  BY StepSimulates DEF Chain
<1>4. Spec => []IInv
  BY Invariance
<1>5. IInv => Sound(tables)
  BY TablesSound
<1>. QED BY <1>2, <1>3, <1>4, <1>5, PTL DEF Spec, ResolvesLexically, Lexical!Spec
=============================================================================
