------------------------------- MODULE Objects -------------------------------
(***************************************************************************)
(* object/object.go and object/builtins.go: the values programs compute    *)
(* with, what their methods return, and the built-in functions.            *)
(*                                                                         *)
(* An object is a record.  Where Go's == on two objects is a comparison of *)
(* pointers, the record has a field ref that tells two allocations of      *)
(* equal contents apart; integers are only ever compared by value, and     *)
(* true, false, null and the built-ins exist once, so they have none.      *)
(* Nil is Go's nil interface value: what a slot holds before it is set.    *)
(***************************************************************************)
EXTENDS Integers, Sequences

CONSTANTS
  IntSize,        (* How many values an integer has: 2^64 for Go's int64.  *)
  StringHash(_)   (* The 64-bit FNV-1a hash of a string.                   *)

ASSUME ObjectsAssumption == IntSize \in Nat \ {0}

INTEGER_OBJ == "INTEGER"
BOOLEAN_OBJ == "BOOLEAN"
NULL_OBJ    == "NULL"
ERROR_OBJ   == "ERROR"
STRING_OBJ  == "STRING"
BUILTIN_OBJ == "BUILTIN"
ARRAY_OBJ   == "ARRAY"
HASH_OBJ    == "HASH"
COMPILED_FUNCTION_OBJ == "COMPILED_FUNCTION_OBJ"
CLOSURE_OBJ == "CLOSURE"
FUNCTION_OBJ == "FUNCTION"
RETURN_VALUE_OBJ == "RETURN_VALUE"

Nil == [type |-> "nil"]

(* Two's complement: what is left of a result in an integer's width.       *)
Wrap(v) == ((v + IntSize \div 2) % IntSize) - IntSize \div 2

(* Go's division truncates towards zero.                                   *)
Quotient(a, b) ==
  LET magnitude(x) == IF x < 0 THEN -x ELSE x
      q == magnitude(a) \div magnitude(b)
  IN  IF (a < 0) = (b < 0) THEN q ELSE -q

Integer(v)  == [type |-> INTEGER_OBJ, int |-> Wrap(v)]
True        == [type |-> BOOLEAN_OBJ, bool |-> TRUE]
False       == [type |-> BOOLEAN_OBJ, bool |-> FALSE]
Null        == [type |-> NULL_OBJ]
Error(ref)  == [type |-> ERROR_OBJ, ref |-> ref]
String(s, ref) == [type |-> STRING_OBJ, str |-> s, ref |-> ref]
Builtin(name)  == [type |-> BUILTIN_OBJ, Fn |-> name]

Function(parameters, body, env, ref) ==
  [type |-> FUNCTION_OBJ, Parameters |-> parameters, Body |-> body, Env |-> env, ref |-> ref]

CompiledFunction(ins, numLocals, numParameters) ==
  [type |-> COMPILED_FUNCTION_OBJ, Instructions |-> ins,
   NumLocals |-> numLocals, NumParameters |-> numParameters]

Closure(fn, free, ref) ==
  [type |-> CLOSURE_OBJ, Fn |-> fn, Free |-> free, ref |-> ref]

(* Inspect of an array, a hash or a return value inspects what is in it,   *)
(* so it panics when there is a nil somewhere inside: hole.                *)
HasHole(o) ==
  \/ o.type = "nil"
  \/ o.type \in {ARRAY_OBJ, HASH_OBJ, RETURN_VALUE_OBJ} /\ o.hole

ReturnValue(value, ref) ==
  [type |-> RETURN_VALUE_OBJ, Value |-> value, ref |-> ref, hole |-> HasHole(value)]

Array(elements, ref) ==
  [type |-> ARRAY_OBJ, Elements |-> elements, ref |-> ref,
   hole |-> \E k \in DOMAIN elements : HasHole(elements[k])]

Hash(pairs, ref) ==
  [type |-> HASH_OBJ, Pairs |-> pairs, ref |-> ref,
   hole |-> \E k \in DOMAIN pairs : HasHole(pairs[k].Value)]

NativeBoolToBooleanObject(b) == IF b THEN True ELSE False

(* obj.(object.Hashable), and HashKey: equal keys are one entry of a hash. *)
Hashable(o) == o.type \in {INTEGER_OBJ, BOOLEAN_OBJ, STRING_OBJ}

HashKey(o) ==
  <<o.type, CASE o.type = INTEGER_OBJ -> o.int
              [] o.type = BOOLEAN_OBJ -> IF o.bool THEN 1 ELSE 0
              [] o.type = STRING_OBJ  -> StringHash(o.str)>>

-----------------------------------------------------------------------------
(* object.Builtins.                                                        *)
Builtins == <<"len", "first", "last", "rest", "push", "puts">>

Arity(name) == IF name = "push" THEN 2 ELSE 1

(* A call reaches a method of nil: args[0].Type(), or Inspect in puts.     *)
BuiltinPanics(name, args) ==
  IF name = "puts" THEN \E k \in DOMAIN args : HasHole(args[k])
                   ELSE Len(args) = Arity(name) /\ args[1].type = "nil"

(* The object a built-in returns, Nil for Go's nil; an object it makes     *)
(* gets the identity ref.                                                  *)
CallBuiltin(name, args, ref) ==
  IF name = "puts" THEN Nil
  ELSE IF Len(args) # Arity(name) THEN Error(ref)
  ELSE IF name = "len" /\ args[1].type = STRING_OBJ THEN Integer(Len(args[1].str))
  ELSE IF args[1].type # ARRAY_OBJ THEN Error(ref)
  ELSE LET arr == args[1].Elements
       IN  IF name = "len" THEN Integer(Len(arr))
           ELSE IF name = "push" THEN Array(Append(arr, args[2]), ref)
           ELSE IF arr = <<>> THEN Nil
           ELSE CASE name = "first" -> arr[1]
                  [] name = "last"  -> arr[Len(arr)]
                  [] name = "rest"  -> Array(Tail(arr), ref)
=============================================================================
