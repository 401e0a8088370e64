----------------------------- MODULE SymbolTable -----------------------------
(***************************************************************************)
(* compiler/symbol_table.go.  The tables linked by Outer are a sequence,   *)
(* the global table first and the table of the function being compiled     *)
(* last: the compiler makes an inner table when it enters a function and   *)
(* drops it when it leaves, so the live tables always form one chain.      *)
(*                                                                         *)
(* The first part gives the methods as operators on a chain; the compiler  *)
(* uses them.  The second part is the chain as a state machine under every *)
(* sequence of calls the compiler may make.                                *)
(***************************************************************************)
EXTENDS Integers, Sequences

CONSTANTS
  Names,            (* The identifiers a program may use.                  *)
  BuiltinNames,     (* object.Builtins: the names, in order of their index *)
  MaxDepth,         (* Bound: functions open inside each other, plus one.  *)
  MaxDefinitions    (* Bound: definitions in one table.                    *)

ASSUME SymbolTableAssumption ==
  /\ BuiltinNames \in Seq(Names)
  /\ \A i, j \in DOMAIN BuiltinNames : BuiltinNames[i] = BuiltinNames[j] => i = j
  /\ MaxDepth \in Nat
  /\ MaxDefinitions \in Nat

GlobalScope  == "GLOBAL"
LocalScope   == "LOCAL"
BuiltinScope == "BUILTIN"
FreeScope    == "FREE"

Symbol(name, scope, index) == [Name |-> name, Scope |-> scope, Index |-> index]

Symbols == [Name : Names,
            Scope : {GlobalScope, LocalScope, BuiltinScope, FreeScope},
            Index : Nat]

NewSymbolTable == [store          |-> [n \in {} |-> 0],
                   numDefinitions |-> 0,
                   FreeSymbols    |-> <<>>]

(* s.store[symbol.Name] = symbol                                           *)
Bind(store, symbol) ==
  [n \in DOMAIN store \cup {symbol.Name} |->
     IF n = symbol.Name THEN symbol ELSE store[n]]

(* compiler.New and repl.Start: DefineBuiltin for each of object.Builtins. *)
DefineBuiltins ==
  [store          |-> [n \in {BuiltinNames[i] : i \in DOMAIN BuiltinNames} |->
                         Symbol(n, BuiltinScope,
                           (CHOOSE i \in DOMAIN BuiltinNames : BuiltinNames[i] = n) - 1)],
   numDefinitions |-> 0,
   FreeSymbols    |-> <<>>]

NewEnclosedSymbolTable(chain) == Append(chain, NewSymbolTable)

Outer(chain) == SubSeq(chain, 1, Len(chain) - 1)

(* Mutant: the count is raised before the index is taken.                  *)
DefinedSymbolCountedFirst(chain, name) ==
  Symbol(name,
         IF Len(chain) = 1 THEN GlobalScope ELSE LocalScope,
         chain[Len(chain)].numDefinitions + 1)

(* The symbol Define returns: only the outermost table has no Outer.       *)
DefinedSymbol(chain, name) ==
  Symbol(name,
         IF Len(chain) = 1 THEN GlobalScope ELSE LocalScope,
         chain[Len(chain)].numDefinitions)

(* Mutant: numDefinitions is not raised.                                   *)
DefineUncounted(chain, name) ==
  [chain EXCEPT ![Len(chain)].store = Bind(@, DefinedSymbol(chain, name))]

(* Mutant: a name that is defined again in its table keeps its slot.       *)
DefineInPlace(chain, name) ==
  IF name \in DOMAIN chain[Len(chain)].store
  THEN chain
  ELSE [chain EXCEPT ![Len(chain)] =
          [@ EXCEPT !.store = Bind(@, DefinedSymbol(chain, name)),
                    !.numDefinitions = @ + 1]]

Define(chain, name) ==
  [chain EXCEPT ![Len(chain)] =
     [store          |-> Bind(@.store, DefinedSymbol(chain, name)),
      numDefinitions |-> @.numDefinitions + 1,
      FreeSymbols    |-> @.FreeSymbols]]

(* defineFree: the captured symbol goes to the end of FreeSymbols and the  *)
(* name stands for that position from now on.                              *)
FreeSymbol(table, name) == Symbol(name, FreeScope, Len(table.FreeSymbols))

DefineFree(table, original) ==
  [store          |-> Bind(table.store, FreeSymbol(table, original.Name)),
   numDefinitions |-> table.numDefinitions,
   FreeSymbols    |-> Append(table.FreeSymbols, original)]

(* Resolve walks outwards to the nearest table that stores the name.       *)
Storing(chain, name) == {k \in DOMAIN chain : name \in DOMAIN chain[k].store}

Resolvable(chain, name) == Storing(chain, name) # {}

(* Mutant: the outermost table that stores the name.                       *)
HomeOutermost(chain, name) ==
  CHOOSE k \in Storing(chain, name) : \A j \in Storing(chain, name) : j >= k

Home(chain, name) ==
  CHOOSE k \in Storing(chain, name) : \A j \in Storing(chain, name) : j <= k

Found(chain, name) == chain[Home(chain, name)].store[name]

(* Globals and built-ins are visible everywhere as they are; a local or a  *)
(* free symbol of an outer table must be captured on the way back in.      *)
Captured(chain, name) == Found(chain, name).Scope \notin {GlobalScope, BuiltinScope}

(* What Resolve returns in the k-th table, at or inside the home table.    *)
ResolvedAt(chain, name, k) ==
  IF k > Home(chain, name) /\ Captured(chain, name)
  THEN FreeSymbol(chain[k], name)
  ELSE Found(chain, name)

Resolved(chain, name) == ResolvedAt(chain, name, Len(chain))

(* Mutant: every table captures the symbol of the home table itself.       *)
ResolveCapturingFound(chain, name) ==
  IF Resolvable(chain, name) /\ Captured(chain, name)
  THEN [k \in DOMAIN chain |->
          IF k > Home(chain, name) THEN DefineFree(chain[k], Found(chain, name)) ELSE chain[k]]
  ELSE chain

(* The chain after Resolve: each table between the home table and the      *)
(* innermost one captures what the table outside it resolved.              *)
Resolve(chain, name) ==
  IF Resolvable(chain, name) /\ Captured(chain, name)
  THEN [k \in DOMAIN chain |->
          IF k > Home(chain, name)
          THEN DefineFree(chain[k], ResolvedAt(chain, name, k - 1))
          ELSE chain[k]]
  ELSE chain

-----------------------------------------------------------------------------
VARIABLES
  tables,     (* The chain of live tables, the global one first.           *)
  resolved    (* <<{symbol}>> after a Resolve that found one, <<{}>> after *)
              (* one that found none, <<>> after any other call.           *)

vars == <<tables, resolved>>

Init == tables = <<DefineBuiltins>> /\ resolved = <<>>

(* A let statement or a parameter.                                         *)
DefineName(name) ==
  /\ tables[Len(tables)].numDefinitions < MaxDefinitions
  /\ tables' = Define(tables, name)
  /\ resolved' = <<>>

(* An identifier.                                                          *)
ResolveName(name) ==
  /\ tables' = Resolve(tables, name)
  /\ resolved' = IF Resolvable(tables, name) THEN <<{Resolved(tables, name)}>>
                                             ELSE <<{}>>

EnterScope ==
  /\ Len(tables) < MaxDepth
  /\ tables' = NewEnclosedSymbolTable(tables)
  /\ resolved' = <<>>

(* Mutant: the global table can be left too.                               *)
LeaveAnyScope ==
  /\ Len(tables) > 0
  /\ tables' = Outer(tables)
  /\ resolved' = <<>>

LeaveScope ==
  /\ Len(tables) > 1
  /\ tables' = Outer(tables)
  /\ resolved' = <<>>

Next ==
  \/ \E name \in Names : DefineName(name)
  \/ \E name \in Names : ResolveName(name)
  \/ EnterScope
  \/ LeaveScope

Spec == Init /\ [][Next]_vars

-----------------------------------------------------------------------------
(* Type invariant.                                                         *)
IsTable(t) ==
  /\ t = [store |-> t.store, numDefinitions |-> t.numDefinitions,
          FreeSymbols |-> t.FreeSymbols]
  /\ t.store \in [DOMAIN t.store -> Symbols] /\ DOMAIN t.store \subseteq Names
  /\ t.numDefinitions \in Nat
  /\ t.FreeSymbols \in Seq(Symbols)

TypeOK ==
  /\ tables \in Seq({tables[k] : k \in DOMAIN tables}) /\ tables # <<>>
  /\ \A k \in DOMAIN tables : IsTable(tables[k])
  /\ resolved \in Seq(SUBSET Symbols)

(* A table at depth k can load the symbol: the slot it names exists there  *)
(* and holds that very name.  Emitting OpGetLocal, OpGetFree, OpGetGlobal  *)
(* or OpGetBuiltin for any other symbol reads a slot out of range or       *)
(* another variable.                                                       *)
Loadable(k, table, s) ==
  IF k = 1
  THEN \/ s.Scope = GlobalScope /\ s.Index < table.numDefinitions
       \/ /\ s.Scope = BuiltinScope
          /\ s.Index + 1 \in DOMAIN BuiltinNames
          /\ BuiltinNames[s.Index + 1] = s.Name
  ELSE \/ s.Scope = LocalScope /\ s.Index < table.numDefinitions
       \/ /\ s.Scope = FreeScope
          /\ s.Index + 1 \in DOMAIN table.FreeSymbols
          /\ table.FreeSymbols[s.Index + 1].Name = s.Name

LoadsItsNames(k, table) ==
  \A n \in DOMAIN table.store :
    table.store[n].Name = n /\ Loadable(k, table, table.store[n])

(* Every name a table stores, it can load (symbol_table.go Define,         *)
(* defineFree, DefineBuiltin).                                             *)
StoredLoadable == \A k \in DOMAIN tables : LoadsItsNames(k, tables[k])

(* Every symbol a function captures can be loaded by the function around   *)
(* it, which is what the compiler does with FreeSymbols when it leaves the *)
(* function (compiler.go:292); the outermost table captures nothing.       *)
CapturesLoadable ==
  \A k \in DOMAIN tables : \A i \in DOMAIN tables[k].FreeSymbols :
    k > 1 /\ Loadable(k - 1, tables[k - 1], tables[k].FreeSymbols[i])

SlotsDistinct(table) ==
  \A m, n \in DOMAIN table.store :
    /\ table.store[m].Scope = table.store[n].Scope
    /\ table.store[m].Index = table.store[n].Index
    => m = n

(* Two names of one table never share a slot, however lets, parameters and *)
(* captures were interleaved (Define and defineFree number independently). *)
NoSharedSlot == \A k \in DOMAIN tables : SlotsDistinct(tables[k])

(* What the symbols of the j-th table of a chain stand for, given what     *)
(* those of the table outside it do: a captured one is followed outwards   *)
(* through FreeSymbols.                                                    *)
Meanings(chain, j, outer) ==
  [t \in Symbols |->
     CASE j > 0 /\ t.Scope = LocalScope -> <<j, t.Index>>
       [] t.Scope = GlobalScope         -> <<1, t.Index>>
       [] t.Scope = BuiltinScope        -> <<0, t.Index>>
       [] OTHER -> IF j > 1 /\ t.Index < Len(chain[j].FreeSymbols)
                   THEN outer[chain[j].FreeSymbols[t.Index + 1]]
                   ELSE <<"dangling">>]

(* The declaration a symbol of the k-th table stands for.                  *)
Declaration(chain, k, s) ==
  LET follow[j \in 0..k] == Meanings(chain, j, IF j = 0 THEN <<>> ELSE follow[j - 1])
  IN  follow[k][s]

(* The names a table declares itself; the others it has captured.          *)
Own(table) == {n \in DOMAIN table.store : table.store[n].Scope # FreeScope}

BodyOf(chain, k) ==
  [meaning  |-> [n \in Own(chain[k]) |-> Declaration(chain, k, chain[k].store[n])],
   declared |-> chain[k].numDefinitions]

(* The chain of tables implements lexical scoping: whatever was defined,   *)
(* captured, entered and left before, Resolve answers with the declaration *)
(* that the innermost enclosing function makes of the name.                *)
Lexical == INSTANCE LexicalScope WITH
  bodies <- [k \in DOMAIN tables |-> BodyOf(tables, k)],
  answer <- IF resolved = <<>> THEN <<>>
            ELSE IF resolved[1] = {} THEN <<"not found">>
            ELSE Declaration(tables, Len(tables), CHOOSE s \in resolved[1] : TRUE)

ResolvesLexically == Lexical!Spec
=============================================================================
