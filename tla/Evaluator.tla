------------------------------ MODULE Evaluator ------------------------------
(***************************************************************************)
(* evaluator/evaluator.go and object/environment.go: the interpreter that  *)
(* walks the syntax tree.                                                  *)
(*                                                                         *)
(* Go's recursion is the variable work, what is still to be done, next     *)
(* first: Eval(node, env) is a call of Eval, the other items are what a    *)
(* function does with the value of a call it has made, val.  An action is  *)
(* the code between two calls.  An environment is a number, the index of   *)
(* its names and of the environment outside it.                            *)
(***************************************************************************)
EXTENDS Objects

CONSTANTS
  Programs,    (* The programs to evaluate.                                *)
  MaxCalls     (* Bound: calls of functions in one another, after which    *)
               (* Go's stack, limited to 1 GB, overflows.                  *)

VARIABLES
  envs,      (* The environments made so far; the first is the program's   *)
  work,      (* The calls that have not returned, the innermost first.     *)
  val,       (* What the last of them returned.                            *)
  panicked,  (* A Go run-time panic ended it all.                          *)
  made       (* The objects allocated, to give the next one its identity   *)

vars == <<envs, work, val, panicked, made>>

-----------------------------------------------------------------------------
(* Environments.                                                           *)
NewEnclosedEnvironment(outer) == [store |-> [n \in {} |-> Nil], outer |-> outer]

Bind(store, name, o) ==
  [n \in DOMAIN store \cup {name} |-> IF n = name THEN o ELSE store[n]]

(* Get: the innermost environment that has the name, 0 if none has.        *)
Holder(env, name) ==
  LET from[e \in 0..Len(envs)] ==
        IF e = 0 \/ name \in DOMAIN envs[e].store THEN e ELSE from[envs[e].outer]
  IN  from[env]

-----------------------------------------------------------------------------
(* The items of work.                                                      *)
Eval(node, env) == [do |-> "eval", node |-> node, env |-> env]
Then(what, node, env) == [do |-> what, node |-> node, env |-> env]
With(what, object)    == [do |-> what, object |-> object]

Running     == ~panicked /\ work # <<>>
item        == Head(work)
node        == item.node
At(kinds)   == Running /\ item.do = "eval" /\ node.kind \in kinds
Doing(what) == Running /\ item.do = what

NextRef == <<"eval", made>>
IsError(o) == o.type = ERROR_OBJ

Keeps == UNCHANGED <<envs, panicked, made>>

Calls(items) == work' = items \o Tail(work) /\ UNCHANGED val /\ Keeps
Returns(o)   == work' = Tail(work) /\ val' = o /\ Keeps
Makes(o)     == work' = Tail(work) /\ val' = o /\ made' = made + 1 /\ UNCHANGED <<envs, panicked>>
Panics       == panicked' = TRUE /\ UNCHANGED <<envs, work, val, made>>
NewError     == Makes(Error(NextRef))

-----------------------------------------------------------------------------
(* Statements.                                                             *)
Statements(kind, rest, env) ==
  [do |-> "statements", kind |-> kind, rest |-> rest, env |-> env]

Run(kind, rest, env) ==
  Calls(<<Eval(Head(rest), env), Statements(kind, Tail(rest), env)>>)

EvalStatements ==
  /\ At({"Program", "BlockStatement"})
  /\ IF node.Statements = <<>> THEN Returns(Nil)
     ELSE Run(node.kind, node.Statements, item.env)

(* A return or an error ends a program or a block; only the program takes  *)
(* the value out of the return.                                            *)
EndOfStatement ==
  /\ Doing("statements")
  /\ IF val.type = RETURN_VALUE_OBJ
     THEN Returns(IF item.kind = "Program" THEN val.Value ELSE val)
     ELSE IF IsError(val) \/ item.rest = <<>> THEN Returns(val)
     ELSE Run(item.kind, item.rest, item.env)

EvalExpressionStatement ==
  At({"ExpressionStatement"}) /\ Calls(<<Eval(node.Expr, item.env)>>)

EvalReturnStatement ==
  At({"ReturnStatement"}) /\ Calls(<<Eval(node.Expr, item.env), With("return", Nil)>>)

EndReturnStatement ==
  Doing("return") /\ IF IsError(val) THEN Returns(val) ELSE Makes(ReturnValue(val, NextRef))

EvalLetStatement ==
  At({"LetStatement"}) /\ Calls(<<Eval(node.Expr, item.env), Then("let", node, item.env)>>)

(* Mutant: the name is set in the outermost environment.                   *)
EndLetStatementGlobal ==
  /\ Doing("let")
  /\ IF IsError(val) THEN Returns(val)
     ELSE /\ envs' = [envs EXCEPT ![1].store = Bind(@, node.Name, val)]
          /\ work' = Tail(work) /\ val' = Nil /\ UNCHANGED <<panicked, made>>

EndLetStatement ==
  /\ Doing("let")
  /\ IF IsError(val) THEN Returns(val)
     ELSE /\ envs' = [envs EXCEPT ![item.env].store = Bind(@, node.Name, val)]
          /\ work' = Tail(work) /\ val' = Nil /\ UNCHANGED <<panicked, made>>

-----------------------------------------------------------------------------
(* Literals and names.                                                     *)
EvalIntegerLiteral == At({"IntegerLiteral"}) /\ Returns(Integer(node.Int))
EvalBoolean        == At({"Boolean"}) /\ Returns(NativeBoolToBooleanObject(node.Bool))
EvalStringLiteral  == At({"StringLiteral"}) /\ Makes(String(node.Str, NextRef))

EvalFunctionLiteral ==
  At({"FunctionLiteral"}) /\ Makes(Function(node.Parameters, node.Body, item.env, NextRef))

EvalIdentifier ==
  /\ At({"Identifier"})
  /\ LET e == Holder(item.env, node.Name)
     IN  IF e # 0 THEN Returns(envs[e].store[node.Name])
         ELSE IF \E k \in DOMAIN Builtins : Builtins[k] = node.Name THEN Returns(Builtin(node.Name))
         ELSE NewError

-----------------------------------------------------------------------------
(* Operators.                                                              *)
IsTruthy(o) == o # False /\ o # Null

EvalPrefixExpression ==
  At({"PrefixExpression"}) /\ Calls(<<Eval(node.Right, item.env), Then("prefix", node, item.env)>>)

EndPrefixExpression ==
  /\ Doing("prefix")
  /\ IF IsError(val) THEN Returns(val)
     ELSE IF node.Operator = "!" THEN Returns(NativeBoolToBooleanObject(~IsTruthy(val)))
     ELSE IF val = Nil THEN Panics
     ELSE IF val.type # INTEGER_OBJ THEN NewError
     ELSE Returns(Integer(-val.int))

(* Both operands are evaluated before either is looked at.                 *)
EvalInfixExpression ==
  At({"InfixExpression"}) /\ Calls(<<Eval(node.Left, item.env), Then("right operand", node, item.env)>>)

EvalRightOperand ==
  Doing("right operand") /\ Calls(<<Eval(node.Right, item.env),
                                    [do |-> "infix", operator |-> node.Operator, left |-> val]>>)

IntegerInfix(o, a, b) ==
  CASE o = "+" -> Integer(a + b) [] o = "-" -> Integer(a - b) [] o = "*" -> Integer(a * b)
    [] o = "/" -> Integer(Quotient(a, b))
    [] o = "<"  -> NativeBoolToBooleanObject(a < b)
    [] o = ">"  -> NativeBoolToBooleanObject(a > b)
    [] o = "==" -> NativeBoolToBooleanObject(a = b)
    [] o = "!=" -> NativeBoolToBooleanObject(a # b)

(* An error on the left is dropped: right is returned for it.              *)
EndInfixExpression ==
  /\ Doing("infix")
  /\ LET o == item.operator
         left == item.left
         both(type) == left.type = type /\ val.type = type
     IN  IF IsError(left) \/ IsError(val) THEN Returns(val)
         ELSE IF left = Nil \/ (val = Nil /\ (left.type \in {INTEGER_OBJ, STRING_OBJ}
                                              \/ o \notin {"==", "!="})) THEN Panics
         ELSE IF both(INTEGER_OBJ)
         THEN IF o = "/" /\ val.int = 0 THEN Panics ELSE Returns(IntegerInfix(o, left.int, val.int))
         ELSE IF both(STRING_OBJ)
         THEN IF o = "+" THEN Makes(String(left.str \o val.str, NextRef)) ELSE NewError
         ELSE IF o \in {"==", "!="}
         THEN Returns(NativeBoolToBooleanObject((left = val) = (o = "==")))
         ELSE NewError

EvalIfExpression ==
  At({"IfExpression"}) /\ Calls(<<Eval(node.Condition, item.env), Then("if", node, item.env)>>)

EvalArm ==
  /\ Doing("if")
  /\ IF IsError(val) THEN Returns(val)
     ELSE IF IsTruthy(val) THEN Calls(<<Eval(node.Consequence, item.env)>>)
     ELSE IF node.Alternative.kind # "nil" THEN Calls(<<Eval(node.Alternative, item.env)>>)
     ELSE Returns(Null)

-----------------------------------------------------------------------------
(* Lists, calls and indexes.                                               *)

(* evalExpressions: what is left of a list and what it came to so far, for *)
(* a call of function, or for an array.                                    *)
List(function, done, rest, env) ==
  [do |-> "list", function |-> function, done |-> done, rest |-> rest, env |-> env]

(* applyFunction, with extendFunctionEnv: arguments that are too many are  *)
(* ignored, one that is missing is an index out of range.                  *)
Parameterised(fn, args) ==
  LET names == {fn.Parameters[k] : k \in DOMAIN fn.Parameters}
      last(n) == CHOOSE k \in DOMAIN fn.Parameters :
                   fn.Parameters[k] = n /\ \A j \in DOMAIN fn.Parameters : fn.Parameters[j] = n => j <= k
  IN  [store |-> [n \in names |-> args[last(n)]], outer |-> fn.Env]

CallsInside == Len(SelectSeq(work, LAMBDA i : i.do = "unwrap"))

(* Mutant: a function runs in the environment of its caller.               *)
ApplyDynamically(fn, args, rest, env) ==
  /\ envs' = Append(envs, [Parameterised(fn, args) EXCEPT !.outer = env])
  /\ work' = <<Eval(fn.Body, Len(envs) + 1), With("unwrap", Nil)>> \o rest
  /\ UNCHANGED <<val, panicked, made>>

Apply(fn, args, rest, env) ==
  /\ envs' = Append(envs, Parameterised(fn, args))
  /\ work' = <<Eval(fn.Body, Len(envs) + 1), With("unwrap", Nil)>> \o rest
  /\ UNCHANGED <<val, panicked, made>>

ApplyFunction(fn, args, env) ==
  CASE fn.type = FUNCTION_OBJ ->
         IF Len(args) < Len(fn.Parameters) \/ CallsInside >= MaxCalls THEN Panics
         ELSE Apply(fn, args, Tail(work), env)
    [] fn.type = BUILTIN_OBJ ->
         IF BuiltinPanics(fn.Fn, args) THEN Panics
         ELSE LET result == CallBuiltin(fn.Fn, args, NextRef)
              IN  Makes(IF result = Nil THEN Null ELSE result)
    [] OTHER -> IF fn = Nil THEN Panics ELSE NewError

(* An array has no function: its list is what it is made of.               *)
NoFunction == [type |-> "no function"]

EndOfList(function, done, env) ==
  IF function = NoFunction THEN Makes(Array(done, NextRef))
                           ELSE ApplyFunction(function, done, env)

StartList(function, list, env) ==
  IF list = <<>> THEN EndOfList(function, <<>>, env)
  ELSE Calls(<<Eval(Head(list), env), List(function, <<>>, Tail(list), env)>>)

EvalArrayLiteral == At({"ArrayLiteral"}) /\ StartList(NoFunction, node.Elements, item.env)

EvalCallExpression ==
  At({"CallExpression"}) /\ Calls(<<Eval(node.Function, item.env), Then("arguments", node, item.env)>>)

EvalArguments ==
  /\ Doing("arguments")
  /\ IF IsError(val) THEN Returns(val) ELSE StartList(val, node.Arguments, item.env)

(* Mutant: an argument that is an error is passed on.                      *)
EvalExpressionsAnyway ==
  /\ Doing("list")
  /\ LET done == Append(item.done, val)
     IN  IF item.rest = <<>> THEN EndOfList(item.function, done, item.env)
         ELSE Calls(<<Eval(Head(item.rest), item.env),
                      List(item.function, done, Tail(item.rest), item.env)>>)

(* The first error is the whole list, and the caller returns it.           *)
EvalExpressions ==
  /\ Doing("list")
  /\ LET done == Append(item.done, val)
     IN  IF IsError(val) THEN Returns(val)
         ELSE IF item.rest = <<>> THEN EndOfList(item.function, done, item.env)
         ELSE Calls(<<Eval(Head(item.rest), item.env),
                      List(item.function, done, Tail(item.rest), item.env)>>)

UnwrapReturnValue ==
  Doing("unwrap") /\ Returns(IF val.type = RETURN_VALUE_OBJ THEN val.Value ELSE val)

EvalIndexExpression ==
  At({"IndexExpression"}) /\ Calls(<<Eval(node.Left, item.env), Then("index", node, item.env)>>)

EvalIndex ==
  /\ Doing("index")
  /\ IF IsError(val) THEN Returns(val)
     ELSE Calls(<<Eval(node.Index, item.env), With("index of", val)>>)

EndIndexExpression ==
  /\ Doing("index of")
  /\ LET left == item.object
     IN  IF IsError(val) THEN Returns(val)
         ELSE IF left = Nil \/ (val = Nil /\ left.type \in {ARRAY_OBJ, HASH_OBJ}) THEN Panics
         ELSE IF left.type = ARRAY_OBJ /\ val.type = INTEGER_OBJ
         THEN Returns(IF val.int + 1 \in DOMAIN left.Elements THEN left.Elements[val.int + 1] ELSE Null)
         ELSE IF left.type = HASH_OBJ /\ Hashable(val)
         THEN Returns(IF HashKey(val) \in DOMAIN left.Pairs THEN left.Pairs[HashKey(val)].Value ELSE Null)
         ELSE NewError

-----------------------------------------------------------------------------
(* Hashes.  The pairs come out of Go's map in any order.                   *)
Pairs(node_, left, pairs, env) ==
  [do |-> "pairs", node |-> node_, left |-> left, pairs |-> pairs, env |-> env]

EvalHashLiteral ==
  At({"HashLiteral"}) /\ Calls(<<Pairs(node, DOMAIN node.Pairs, [k \in {} |-> Nil], item.env)>>)

EvalPair ==
  /\ Doing("pairs")
  /\ IF item.left = {} THEN Makes(Hash(item.pairs, NextRef))
     ELSE \E k \in item.left :
            Calls(<<Eval(node.Pairs[k][1], item.env),
                    [do |-> "key", pair |-> k, of |-> [item EXCEPT !.left = @ \ {k}]]>>)

EvalValue ==
  /\ Doing("key")
  /\ IF IsError(val) THEN Returns(val)
     ELSE IF val = Nil THEN Panics
     ELSE IF ~Hashable(val) THEN NewError
     ELSE Calls(<<Eval(item.of.node.Pairs[item.pair][2], item.of.env),
                  [do |-> "value", key |-> val, of |-> item.of]>>)

EndOfPair ==
  /\ Doing("value")
  /\ IF IsError(val) THEN Returns(val)
     ELSE Calls(<<[item.of EXCEPT !.pairs =
                     Bind(@, HashKey(item.key), [Key |-> item.key, Value |-> val])]>>)

-----------------------------------------------------------------------------
Start(program) ==
  /\ envs = <<NewEnclosedEnvironment(0)>>
  /\ work = <<Eval(program, 1)>> /\ val = Nil
  /\ panicked = FALSE /\ made = 0

Init == \E program \in Programs : Start(program)

Next ==
  \/ EvalStatements
  \/ EndOfStatement
  \/ EvalExpressionStatement
  \/ EvalReturnStatement
  \/ EndReturnStatement
  \/ EvalLetStatement
  \/ EndLetStatement
  \/ EvalIntegerLiteral
  \/ EvalBoolean
  \/ EvalStringLiteral
  \/ EvalFunctionLiteral
  \/ EvalIdentifier
  \/ EvalPrefixExpression
  \/ EndPrefixExpression
  \/ EvalInfixExpression
  \/ EvalRightOperand
  \/ EndInfixExpression
  \/ EvalIfExpression
  \/ EvalArm
  \/ EvalArrayLiteral
  \/ EvalCallExpression
  \/ EvalArguments
  \/ EvalExpressions
  \/ UnwrapReturnValue
  \/ EvalIndexExpression
  \/ EvalIndex
  \/ EndIndexExpression
  \/ EvalHashLiteral
  \/ EvalPair
  \/ EvalValue
  \/ EndOfPair

Evaluated == ~panicked /\ work = <<>>

Spec == Init /\ [][Next]_vars /\ WF_vars(Next)
==============================================================================
