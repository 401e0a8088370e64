--------------------------- MODULE BenchmarkProofs ---------------------------
(***************************************************************************)
(* The evaluator never drops an error, for every program, as part of the   *)
(* benchmark's two invocations.                                            *)
(***************************************************************************)
EXTENDS Benchmark, ProofBasics

-----------------------------------------------------------------------------
(* Items that start something, and so can only be done next; all others    *)
(* wait for the value of the item before them.                             *)
Starting == {"eval", "pairs"}

(* An error on the left of an operator whose right side is being evaluated *)
(* (evaluator.go:47).                                                      *)
LeftBehind(w) == \E k \in DOMAIN w : w[k].do = "infix" /\ E!IsError(w[k].left)

(* What makes ErrorsKept inductive: only the next item starts something,   *)
(* and it does not while an error is being returned, unless that error was *)
(* left behind.                                                            *)
Waiting(w, v) ==
  /\ Sequence(w)
  /\ \A k \in DOMAIN w : k > 1 => w[k].do \notin Starting
  /\ E!IsError(v) /\ w # <<>> => w[1].do \notin Starting \/ LeftBehind(w)

EInv ==
  /\ Waiting(work, val)
  /\ phase \notin {"eval", "end"} => ~E!IsError(val)

(* A return: the caller was waiting.                                       *)
LEMMA AfterReturn ==
  ASSUME NEW w, NEW v, NEW v2, Waiting(w, v), w # <<>>
  PROVE  Waiting(Tail(w), v2)
<1>1. /\ Sequence(Tail(w)) /\ Len(w) \in Nat \ {0} /\ DOMAIN w = 1..Len(w)
      /\ DOMAIN Tail(w) = 1..(Len(w) - 1)
      /\ Len(Tail(w)) = Len(w) - 1
      /\ \A k \in 1..(Len(w) - 1) : Tail(w)[k] = w[k + 1]
  BY TailOf DEF Waiting
<1>2. \A k \in 1..(Len(w) - 1) : Tail(w)[k].do \notin Starting
  <2>1. ASSUME NEW k \in 1..(Len(w) - 1) PROVE k + 1 \in DOMAIN w /\ k + 1 > 1
    BY <1>1
  <2>. QED BY <1>1, <2>1 DEF Waiting
<1>3. ASSUME Tail(w) # <<>> PROVE 1 \in 1..(Len(w) - 1)
  <2>1. PICK S : Tail(w) \in Seq(S)
    BY <1>1 DEF Sequence
  <2>2. Len(Tail(w)) # 0
    BY <1>3, <2>1, EmptySeq
  <2>. QED BY <1>1, <2>2
<1>. QED BY <1>1, <1>2, <1>3 DEF Waiting

(* A call, or a call and what waits for it, in place of the next item.     *)
LEMMA AfterCall ==
  ASSUME NEW w, NEW v, Waiting(w, v), w # <<>>, NEW items, Sequence(items),
         Len(items) \in 1..2, Len(items) = 2 => items[2].do \notin Starting,
         E!IsError(v) => \/ w[1].do \in Starting
                         \/ /\ Len(items) = 2 /\ items[2].do = "infix" /\ E!IsError(items[2].left)
  PROVE  Waiting(items \o Tail(w), v)
<1>. DEFINE t == Tail(w)
            n == Len(items)
            r == items \o Tail(w)
<1>1. /\ Sequence(t) /\ Len(w) \in Nat \ {0} /\ DOMAIN w = 1..Len(w)
      /\ Len(t) = Len(w) - 1 /\ DOMAIN t = 1..(Len(w) - 1)
      /\ \A k \in 1..(Len(w) - 1) : t[k] = w[k + 1]
  BY TailOf DEF Waiting
<1>2. /\ Sequence(r) /\ DOMAIN r = 1..(n + Len(t))
      /\ \A k \in 1..n : r[k] = items[k]
      /\ \A k \in 1..Len(t) : r[n + k] = t[k]
  BY <1>1, Pushed
<1>. HIDE DEF r, t
<1>3. ASSUME NEW k \in DOMAIN r, k > 1 PROVE r[k].do \notin Starting
  <2>1. CASE k \in 1..n
    <3>0. n \in 1..2
      OBVIOUS
    <3>. HIDE DEF n
    <3>1. k = 2 /\ n = 2
      BY <1>3, <2>1, <3>0
    <3>. QED BY <1>2, <2>1, <3>1 DEF n
  <2>2. CASE k \notin 1..n
    <3>1. k - n \in 1..Len(t) /\ n + (k - n) = k /\ n \in Nat
      BY <1>1, <1>2, <1>3, <2>2
    <3>2. r[k] = t[k - n]
      BY <1>2, <3>1
    <3>3. t[k - n] = w[(k - n) + 1] /\ (k - n) + 1 \in DOMAIN w /\ (k - n) + 1 > 1
      BY <1>1, <3>1
    <3>. QED BY <3>2, <3>3 DEF Waiting
  <2>. QED BY <2>1, <2>2
<1>4. ASSUME E!IsError(v) PROVE LeftBehind(r)
  <2>1. CASE w[1].do \in Starting
    <3>1. PICK k \in DOMAIN w : w[k].do = "infix" /\ E!IsError(w[k].left)
      BY <1>4, <2>1 DEF Waiting, LeftBehind
    <3>2. k # 1
      BY <2>1, <3>1 DEF Starting
    <3>3. k - 1 \in 1..Len(t) /\ (k - 1) + 1 = k /\ n + (k - 1) \in DOMAIN r
      BY <1>1, <1>2, <3>2
    <3>4. r[n + (k - 1)] = w[k]
      BY <1>1, <1>2, <3>3
    <3>. QED BY <3>1, <3>3, <3>4 DEF LeftBehind
  <2>2. CASE n = 2 /\ items[2].do = "infix" /\ E!IsError(items[2].left)
    <3>1. 2 \in DOMAIN r /\ r[2] = items[2]
      BY <1>1, <1>2, <2>2
    <3>. QED BY <2>2, <3>1 DEF LeftBehind
  <2>. QED BY <1>4, <2>1, <2>2
<1>. QED BY <1>2, <1>3, <1>4 DEF Waiting, r

-----------------------------------------------------------------------------
(* The shapes of a step of the evaluator: a return, which hands an error   *)
(* on; a call, not made while an error is being returned except for the    *)
(* right operand; a panic.                                                 *)
EvalReturns ==
  /\ work' = Tail(work)
  /\ E!IsError(val) => work[1].do \in Starting \/ LeftBehind(work) \/ val' = val

EvalCalls(items) ==
  /\ Sequence(items) /\ Len(items) \in 1..2
  /\ Len(items) = 2 => items[2].do \notin Starting
  /\ E!IsError(val) => \/ work[1].do \in Starting
                       \/ Len(items) = 2 /\ items[2].do = "infix" /\ E!IsError(items[2].left)
  /\ work' = items \o Tail(work)
  /\ val' = val

Shaped == EvalReturns \/ (\E items : EvalCalls(items)) \/ UNCHANGED <<work, val>>

(* A function that calls Eval and returns what it returns.                 *)
LEMMA OneCall ==
  ASSUME NEW a, work' = <<a>> \o Tail(work), val' = val,
         E!IsError(val) => work[1].do \in Starting
  PROVE  Shaped
<1>. DEFINE items == <<a>>
<1>1. Sequence(items) /\ Len(items) = 1
  <2>1. items \in Seq({a})
    OBVIOUS
  <2>. QED BY <2>1 DEF Sequence
<1>. HIDE DEF items
<1>2. EvalCalls(items)
  BY <1>1 DEF EvalCalls, items
<1>. QED BY <1>2 DEF Shaped

(* A function that calls Eval and goes on with what it returns.            *)
LEMMA TwoCalls ==
  ASSUME NEW a, NEW b, work' = <<a, b>> \o Tail(work), val' = val, b.do \notin Starting,
         E!IsError(val) => \/ work[1].do \in Starting
                           \/ b.do = "infix" /\ E!IsError(b.left)
  PROVE  Shaped
<1>. DEFINE items == <<a, b>>
<1>1. Sequence(items) /\ Len(items) = 2 /\ items[2] = b
  <2>1. items \in Seq({a, b})
    OBVIOUS
  <2>. QED BY <2>1 DEF Sequence
<1>2. work' = items \o Tail(work)
  OBVIOUS
<1>. HIDE DEF items
<1>3. EvalCalls(items)
  BY <1>1, <1>2 DEF EvalCalls
<1>. QED BY <1>3 DEF Shaped

(* The next item, for the actions that look at it.                         *)
LEMMA NextItem ==
  ASSUME Waiting(work, val)
  PROVE  /\ \A kinds : E!At(kinds) => /\ work # <<>> /\ E!item = work[1]
                                      /\ work[1].do \in Starting
         /\ \A what : E!Doing(what) => work # <<>> /\ E!item = work[1] /\ work[1].do = what
<1>1. ASSUME work # <<>> PROVE Head(work) = work[1]
  BY <1>1, TailOf DEF Waiting
<1>. QED BY <1>1 DEF E!At, E!Doing, E!Running, E!item, Starting

(* The actions that start something: what is being returned does not       *)
(* matter to them.                                                         *)
StartingAction ==
  \/ E!EvalStatements
  \/ E!EvalExpressionStatement
  \/ E!EvalHashLiteral
  \/ E!EvalReturnStatement
  \/ E!EvalLetStatement
  \/ E!EvalPrefixExpression
  \/ E!EvalInfixExpression
  \/ E!EvalIfExpression
  \/ E!EvalCallExpression
  \/ E!EvalIndexExpression
  \/ E!EvalIntegerLiteral
  \/ E!EvalBoolean
  \/ E!EvalStringLiteral
  \/ E!EvalFunctionLiteral
  \/ E!EvalIdentifier
  \/ E!EvalArrayLiteral
  \/ E!EvalPair

(* Starting an evaluation is a call, a return or a panic.                  *)
LEMMA StartsAreShaped ==
  ASSUME Waiting(work, val), StartingAction
  PROVE  Shaped
<1>. USE DEF E!Calls, E!Keeps
<1>0. /\ \A kinds : E!At(kinds) => work[1].do \in Starting
      /\ \A what : E!Doing(what) => work[1].do = what
  BY NextItem
<1>1. ASSUME work[1].do \in Starting, work' = Tail(work) PROVE Shaped
  BY <1>1 DEF Shaped, EvalReturns
<1>2. CASE E!EvalIntegerLiteral
  BY <1>0, <1>1, <1>2 DEF E!EvalIntegerLiteral, E!Returns, E!Makes, E!NewError
<1>3. CASE E!EvalBoolean
  BY <1>0, <1>1, <1>3 DEF E!EvalBoolean, E!Returns, E!Makes, E!NewError
<1>4. CASE E!EvalStringLiteral
  BY <1>0, <1>1, <1>4 DEF E!EvalStringLiteral, E!Returns, E!Makes, E!NewError
<1>5. CASE E!EvalFunctionLiteral
  BY <1>0, <1>1, <1>5 DEF E!EvalFunctionLiteral, E!Returns, E!Makes, E!NewError
<1>6. CASE E!EvalIdentifier
  BY <1>0, <1>1, <1>6 DEF E!EvalIdentifier, E!Returns, E!Makes, E!NewError
<1>7. CASE E!EvalStatements
  <2>1. CASE work' = Tail(work)
    BY <1>0, <1>1, <1>7, <2>1 DEF E!EvalStatements
  <2>2. CASE work' # Tail(work)
    BY <1>0, <1>7, <2>2, TwoCalls DEF E!EvalStatements, E!Run, E!Returns, E!Statements, Starting
  <2>. QED BY <2>1, <2>2
<1>8. CASE E!EvalExpressionStatement
  BY <1>0, <1>8, OneCall DEF E!EvalExpressionStatement
<1>9. CASE E!EvalHashLiteral
  BY <1>0, <1>9, OneCall DEF E!EvalHashLiteral
<1>10. CASE E!EvalReturnStatement
  BY <1>0, <1>10, TwoCalls DEF E!EvalReturnStatement, E!With, Starting
<1>11. CASE E!EvalLetStatement
  BY <1>0, <1>11, TwoCalls DEF E!EvalLetStatement, E!Then, Starting
<1>12. CASE E!EvalPrefixExpression
  BY <1>0, <1>12, TwoCalls DEF E!EvalPrefixExpression, E!Then, Starting
<1>13. CASE E!EvalInfixExpression
  <2>. DEFINE b == E!Then("right operand", E!node, E!item.env)
  <2>1. b.do \notin Starting
    BY DEF E!Then, Starting
  <2>2. work' = <<E!Eval(E!node.Left, E!item.env), b>> \o Tail(work) /\ val' = val
    BY <1>13 DEF E!EvalInfixExpression
  <2>3. work[1].do \in Starting
    BY <1>0, <1>13 DEF E!EvalInfixExpression
  <2>. HIDE DEF b
  <2>. QED BY <2>1, <2>2, <2>3, TwoCalls
<1>14. CASE E!EvalIfExpression
  BY <1>0, <1>14, TwoCalls DEF E!EvalIfExpression, E!Then, Starting
<1>15. CASE E!EvalCallExpression
  BY <1>0, <1>15, TwoCalls DEF E!EvalCallExpression, E!Then, Starting
<1>16. CASE E!EvalIndexExpression
  BY <1>0, <1>16, TwoCalls DEF E!EvalIndexExpression, E!Then, Starting
<1>17. CASE E!EvalArrayLiteral
  <2>1. CASE work' = Tail(work)
    BY <1>0, <1>1, <1>17, <2>1 DEF E!EvalArrayLiteral
  <2>2. CASE work' # Tail(work)
    BY <1>0, <1>17, <2>2, TwoCalls
       DEF E!EvalArrayLiteral, E!StartList, E!EndOfList, E!Makes, E!List, Starting
  <2>. QED BY <2>1, <2>2
<1>18. CASE E!EvalPair
  <2>0. work[1].do \in Starting
    BY <1>0, <1>18 DEF E!EvalPair, Starting
  <2>1. CASE work' = Tail(work)
    BY <1>1, <2>0, <2>1
  <2>2. CASE work' # Tail(work)
    <3>. DEFINE b(k) == [do |-> "key", pair |-> k, of |-> [E!item EXCEPT !.left = @ \ {k}]]
    <3>1. PICK k \in E!item.left :
            work' = <<E!Eval(E!node.Pairs[k][1], E!item.env), b(k)>> \o Tail(work) /\ val' = val
      BY <1>18, <2>2 DEF E!EvalPair, E!Makes
    <3>2. b(k).do \notin Starting
      BY DEF Starting
    <3>. HIDE DEF b
    <3>. QED BY <2>0, <3>1, <3>2, TwoCalls
  <2>. QED BY <2>1, <2>2
<1>. QED BY <1>2, <1>3, <1>4, <1>5, <1>6, <1>7, <1>8, <1>9, <1>10, <1>11, <1>12, <1>13, <1>14, <1>15, <1>16, <1>17, <1>18
       DEF StartingAction

(* The end of a list, of arguments or elements, when no error is about.    *)
LEMMA ListEnds ==
  ASSUME NEW f, NEW done, NEW env, ~E!IsError(val), E!EndOfList(f, done, env)
  PROVE  Shaped
<1>1. CASE work' = Tail(work)
  BY <1>1 DEF Shaped, EvalReturns
<1>2. CASE UNCHANGED <<work, val>>
  BY <1>2 DEF Shaped
<1>3. CASE /\ work' = <<E!Eval(f.Body, Len(envs) + 1), E!With("unwrap", E!Nil)>> \o Tail(work)
           /\ val' = val
  BY <1>3, TwoCalls DEF E!With, Starting
<1>4. CASE f = E!NoFunction
  BY <1>1, <1>4 DEF E!EndOfList, E!Makes
<1>5. CASE f # E!NoFunction
  <2>1. E!ApplyFunction(f, done, env)
    BY <1>5 DEF E!EndOfList
  <2>2. CASE f.type = E!FUNCTION_OBJ
    <3>1. E!Panics \/ E!Apply(f, done, Tail(work), env)
      BY <2>1, <2>2 DEF E!ApplyFunction, E!FUNCTION_OBJ, E!BUILTIN_OBJ
    <3>2. CASE E!Panics
      BY <1>2, <3>2 DEF E!Panics
    <3>3. CASE E!Apply(f, done, Tail(work), env)
      BY <1>3, <3>3 DEF E!Apply
    <3>. QED BY <3>1, <3>2, <3>3
  <2>3. CASE f.type = E!BUILTIN_OBJ
    BY <1>1, <1>2, <2>1, <2>3 DEF E!ApplyFunction, E!Panics, E!Makes, E!FUNCTION_OBJ, E!BUILTIN_OBJ
  <2>4. CASE f.type \notin {E!FUNCTION_OBJ, E!BUILTIN_OBJ}
    BY <1>1, <1>2, <2>1, <2>4 DEF E!ApplyFunction, E!Panics, E!Makes, E!NewError
  <2>. QED BY <2>2, <2>3, <2>4
<1>. QED BY <1>4, <1>5

(* The actions that go on with the value of a call.                        *)
WaitingAction ==
  \/ E!EndOfStatement
  \/ E!EndReturnStatement
  \/ E!EndLetStatement
  \/ E!EndPrefixExpression
  \/ E!EvalRightOperand
  \/ E!EndInfixExpression
  \/ E!EvalArm
  \/ E!EvalArguments
  \/ E!EvalExpressions
  \/ E!UnwrapReturnValue
  \/ E!EvalIndex
  \/ E!EndIndexExpression
  \/ E!EvalValue
  \/ E!EndOfPair

(* Each of them returns an error it is given, but for the right operand.   *)
LEMMA WaitsAreShaped ==
  ASSUME Waiting(work, val), WaitingAction
  PROVE  Shaped
<1>. USE DEF E!Calls, E!Keeps, E!Returns
<1>0. \A what : E!Doing(what) => work # <<>> /\ E!item = work[1] /\ work[1].do = what
  BY NextItem
<1>1. ASSUME work' = Tail(work), val' = val PROVE Shaped
  BY <1>1 DEF Shaped, EvalReturns
<1>2. ASSUME ~E!IsError(val), work' = Tail(work) PROVE Shaped
  BY <1>2 DEF Shaped, EvalReturns
<1>3. ASSUME UNCHANGED <<work, val>> PROVE Shaped
  BY <1>3 DEF Shaped
<1>4. CASE E!EndOfStatement
  <2>1. CASE E!IsError(val)
    BY <1>1, <1>4, <2>1 DEF E!EndOfStatement, E!IsError, E!ERROR_OBJ, E!RETURN_VALUE_OBJ
  <2>2. CASE ~E!IsError(val)
    <3>1. CASE work' = Tail(work)
      BY <1>2, <2>2, <3>1
    <3>2. CASE work' # Tail(work)
      BY <1>4, <2>2, <3>2, TwoCalls DEF E!EndOfStatement, E!Run, E!Statements, Starting
    <3>. QED BY <3>1, <3>2
  <2>. QED BY <2>1, <2>2
<1>5. CASE E!EndReturnStatement
  BY <1>1, <1>2, <1>5 DEF E!EndReturnStatement, E!Makes
<1>6. CASE E!EndLetStatement
  BY <1>1, <1>2, <1>6 DEF E!EndLetStatement
<1>7. CASE E!EndPrefixExpression
  BY <1>1, <1>2, <1>3, <1>7 DEF E!EndPrefixExpression, E!Panics, E!NewError, E!Makes
<1>8. CASE E!EvalRightOperand
  <2>. DEFINE b == [do |-> "infix", operator |-> E!node.Operator, left |-> val]
  <2>1. b.do = "infix" /\ b.left = val /\ b.do \notin Starting
    BY DEF Starting
  <2>2. work' = <<E!Eval(E!node.Right, E!item.env), b>> \o Tail(work) /\ val' = val
    BY <1>8 DEF E!EvalRightOperand
  <2>. HIDE DEF b
  <2>. QED BY <2>1, <2>2, TwoCalls
<1>9. CASE E!EndInfixExpression
  <2>1. CASE E!IsError(val)
    BY <1>1, <1>9, <2>1 DEF E!EndInfixExpression
  <2>2. CASE ~E!IsError(val)
    BY <1>2, <1>3, <1>9, <2>2 DEF E!EndInfixExpression, E!Panics, E!Makes, E!NewError
  <2>. QED BY <2>1, <2>2
<1>10. CASE E!EvalArm
  <2>1. CASE work' = Tail(work)
    BY <1>1, <1>2, <1>10, <2>1 DEF E!EvalArm
  <2>2. CASE work' # Tail(work)
    BY <1>10, <2>2, OneCall DEF E!EvalArm
  <2>. QED BY <2>1, <2>2
<1>11. CASE E!EvalArguments
  <2>1. CASE E!IsError(val)
    BY <1>1, <1>11, <2>1 DEF E!EvalArguments
  <2>2. CASE ~E!IsError(val)
    <3>1. E!StartList(val, E!node.Arguments, E!item.env)
      BY <1>11, <2>2 DEF E!EvalArguments
    <3>2. CASE E!node.Arguments = <<>>
      BY <2>2, <3>1, <3>2, ListEnds DEF E!StartList
    <3>3. CASE E!node.Arguments # <<>>
      BY <2>2, <3>1, <3>3, TwoCalls DEF E!StartList, E!List, Starting
    <3>. QED BY <3>2, <3>3
  <2>. QED BY <2>1, <2>2
<1>12. CASE E!EvalExpressions
  <2>1. CASE E!IsError(val)
    BY <1>1, <1>12, <2>1 DEF E!EvalExpressions
  <2>2. CASE ~E!IsError(val)
    <3>1. CASE E!item.rest = <<>>
      BY <1>12, <2>2, <3>1, ListEnds DEF E!EvalExpressions
    <3>2. CASE E!item.rest # <<>>
      BY <1>12, <2>2, <3>2, TwoCalls DEF E!EvalExpressions, E!List, Starting
    <3>. QED BY <3>1, <3>2
  <2>. QED BY <2>1, <2>2
<1>13. CASE E!UnwrapReturnValue
  BY <1>1, <1>2, <1>13 DEF E!UnwrapReturnValue, E!IsError, E!ERROR_OBJ, E!RETURN_VALUE_OBJ
<1>14. CASE E!EvalIndex
  <2>1. CASE E!IsError(val)
    BY <1>1, <1>14, <2>1 DEF E!EvalIndex
  <2>2. CASE ~E!IsError(val)
    <3>. DEFINE b == E!With("index of", val)
    <3>1. b.do \notin Starting
      BY DEF E!With, Starting
    <3>2. work' = <<E!Eval(E!node.Index, E!item.env), b>> \o Tail(work) /\ val' = val
      BY <1>14, <2>2 DEF E!EvalIndex
    <3>. HIDE DEF b
    <3>. QED BY <2>2, <3>1, <3>2, TwoCalls
  <2>. QED BY <2>1, <2>2
<1>15. CASE E!EndIndexExpression
  <2>1. CASE E!IsError(val)
    BY <1>1, <1>15, <2>1 DEF E!EndIndexExpression
  <2>2. CASE ~E!IsError(val)
    BY <1>2, <1>3, <1>15, <2>2 DEF E!EndIndexExpression, E!Panics, E!Makes, E!NewError
  <2>. QED BY <2>1, <2>2
<1>16. CASE E!EvalValue
  <2>1. CASE E!IsError(val)
    BY <1>1, <1>16, <2>1 DEF E!EvalValue
  <2>2. CASE ~E!IsError(val)
    <3>. DEFINE b == [do |-> "value", key |-> val, of |-> E!item.of]
    <3>1. b.do \notin Starting
      BY DEF Starting
    <3>2. CASE work' = Tail(work) \/ UNCHANGED <<work, val>>
      BY <1>2, <1>3, <2>2, <3>2
    <3>3. CASE ~(work' = Tail(work) \/ UNCHANGED <<work, val>>)
      <4>1. work' = <<E!Eval(E!item.of.node.Pairs[E!item.pair][2], E!item.of.env), b>> \o Tail(work)
            /\ val' = val
        BY <1>16, <2>2, <3>3 DEF E!EvalValue, E!Panics, E!Makes, E!NewError
      <4>. HIDE DEF b
      <4>. QED BY <2>2, <3>1, <4>1, TwoCalls
    <3>. QED BY <3>2, <3>3
  <2>. QED BY <2>1, <2>2
<1>17. CASE E!EndOfPair
  <2>1. CASE E!IsError(val)
    BY <1>1, <1>17, <2>1 DEF E!EndOfPair
  <2>2. CASE ~E!IsError(val)
    BY <1>17, <2>2, OneCall DEF E!EndOfPair
  <2>. QED BY <2>1, <2>2
<1>. QED BY <1>4, <1>5, <1>6, <1>7, <1>8, <1>9, <1>10, <1>11, <1>12, <1>13, <1>14, <1>15, <1>16, <1>17
       DEF WaitingAction

(* A step of the right shape keeps what waits waiting, and keeps errors.   *)
LEMMA ShapedKeeps ==
  ASSUME Waiting(work, val), work # <<>>, Shaped
  PROVE  /\ Waiting(work', val')
         /\ E!IsError(val) /\ ~LeftBehind(work) => E!IsError(val')
<1>1. CASE EvalReturns
  <2>1. Waiting(work', val')
    BY <1>1, AfterReturn DEF EvalReturns
  <2>2. ASSUME E!IsError(val), ~LeftBehind(work) PROVE val' = val
    BY <1>1, <2>2 DEF EvalReturns, Waiting
  <2>. QED BY <2>1, <2>2
<1>2. ASSUME NEW items, EvalCalls(items) PROVE Waiting(work', val') /\ val' = val
  BY <1>2, AfterCall DEF EvalCalls
<1>3. CASE UNCHANGED <<work, val>>
  BY <1>3
<1>. QED BY <1>1, <1>2, <1>3 DEF Shaped

(* Every step of the evaluator is one of those.                            *)
LEMMA EvaluatorKeeps ==
  ASSUME Waiting(work, val), E!Next
  PROVE  /\ Waiting(work', val')
         /\ E!IsError(val) /\ ~LeftBehind(work) => E!IsError(val')
<1>1. StartingAction \/ WaitingAction
  BY DEF E!Next, StartingAction, WaitingAction
<1>2. Shaped
  BY <1>1, StartsAreShaped, WaitsAreShaped
<1>3. work # <<>>
  BY DEF E!Next, E!At, E!Doing, E!Running, E!EvalStatements, E!EvalExpressionStatement, E!EvalHashLiteral, E!EvalReturnStatement, E!EvalLetStatement, E!EvalPrefixExpression, E!EvalInfixExpression, E!EvalIfExpression, E!EvalCallExpression, E!EvalIndexExpression, E!EvalIntegerLiteral, E!EvalBoolean, E!EvalStringLiteral, E!EvalFunctionLiteral, E!EvalIdentifier, E!EvalArrayLiteral, E!EvalPair, E!EndOfStatement, E!EndReturnStatement, E!EndLetStatement, E!EndPrefixExpression, E!EvalRightOperand, E!EndInfixExpression, E!EvalArm, E!EvalArguments, E!EvalExpressions, E!UnwrapReturnValue, E!EvalIndex, E!EndIndexExpression, E!EvalValue, E!EndOfPair
<1>. QED BY <1>2, <1>3, ShapedKeeps

-----------------------------------------------------------------------------
(* Nothing is in error when the evaluator is started.                      *)
LEMMA InitWaits == Init => EInv
<1>. SUFFICES ASSUME Init PROVE EInv
  OBVIOUS
<1>1. work = <<>> /\ val = Nil
  BY DEF Init
<1>2. Sequence(work) /\ DOMAIN work = {}
  BY <1>1, EmptySeq DEF Sequence
<1>3. ~E!IsError(val)
  BY <1>1 DEF E!IsError, Nil, E!ERROR_OBJ
<1>. QED BY <1>1, <1>2, <1>3 DEF EInv, Waiting

(* The other steps of the benchmark leave the evaluator alone.             *)
LEMMA StepWaits ==
  ASSUME EInv, [Next]_vars
  PROVE  /\ EInv'
         /\ E!IsError(val) /\ ~LeftBehind(work) => E!IsError(val')
<1>1. CASE UNCHANGED <<work, val, phase>>
  BY <1>1 DEF EInv
<1>2. CASE EvalStep
  <2>1. phase = "eval" /\ phase' = phase /\ E!Next
    BY <1>2 DEF EvalStep
  <2>2. Waiting(work, val)
    BY DEF EInv
  <2>. QED BY <2>1, <2>2, EvaluatorKeeps DEF EInv
<1>3. CASE StartEvaluator
  <2>1. work' = <<E!Eval(tree, 1)>> /\ val' = val /\ phase' = "eval" /\ phase \in {"compile", "run"}
    BY <1>3 DEF StartEvaluator
  <2>2. ~E!IsError(val)
    BY <2>1 DEF EInv
  <2>3. Sequence(work') /\ DOMAIN work' = {1}
    <3>1. work' \in Seq({E!Eval(tree, 1)})
      BY <2>1
    <3>2. DOMAIN work' = {1}
      BY <2>1
    <3>. QED BY <3>1, <3>2 DEF Sequence
  <2>. QED BY <2>1, <2>2, <2>3 DEF EInv, Waiting
<1>4. CASE EvalEnds
  BY <1>4 DEF EvalEnds, evaluatorVars, EInv
<1>5. CASE StartCompiler \/ StartMachine
  BY <1>5 DEF StartCompiler, StartMachine, evaluatorVars, EInv
<1>6. CASE ParseStep \/ CompileStep \/ RunStep \/ UNCHANGED vars
  BY <1>1, <1>6 DEF ParseStep, CompileStep, RunStep, vars, evaluatorVars
<1>. QED BY <1>2, <1>3, <1>4, <1>5, <1>6 DEF Next

(* Wherever in a program an error arises, everything that waits for the    *)
(* value hands it on, up to the result, save for an operator that waits    *)
(* for its right side (evaluator.go:28-118, the isError after each call).  *)
THEOREM ErrorsArrive == Spec => ErrorsKept
<1>1. EInv /\ [Next]_vars =>
        /\ EInv'
        /\ E!IsError(val) /\ ~LeftBehind(work) => E!IsError(val')
  BY StepWaits
<1>2. EInv /\ [Next]_vars =>
        [E!Running /\ E!IsError(val)
           /\ ~E!Doing("right operand")
           /\ ~(\E k \in DOMAIN work : work[k].do = "infix" /\ E!IsError(work[k].left))
         => E!IsError(val')]_vars
  BY <1>1 DEF LeftBehind
<1>3. EInv /\ [Next]_vars => EInv'
  BY <1>1
<1>. QED BY InitWaits, <1>2, <1>3, PTL DEF Spec, ErrorsKept
==============================================================================
