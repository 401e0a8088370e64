---------------------------- MODULE ParserProofs ----------------------------
(***************************************************************************)
(* Nothing is missing from the tree of a text without errors, for every    *)
(* text.                                                                   *)
(***************************************************************************)
EXTENDS Parser, ProofBasics

(* The fields of a node that the compiler and the evaluator follow.        *)
Parts == {"Expr", "Left", "Right", "Index", "Condition", "Consequence", "Body", "Function"}

Present(v) == v.kind \notin {"nil", "nil LetStatement"}

(* NoHoles, of any node.                                                   *)
Solid(v) == Present(v) /\ \A f \in DOMAIN v \cap Parts : v[f] # nil

(* A node that waits for one of its fields.                                *)
SolidBut(v, field) ==
  /\ Present(v) /\ field # "kind" /\ "kind" \in DOMAIN v /\ field \in DOMAIN v
  /\ \A f \in DOMAIN v \cap Parts : f # field => v[f] # nil

(* What NoHoles needs of each item of todo: the nodes it carries are there *)
(* but for the field that it waits for.                                    *)
Carries(i) ==
  /\ i.do \in {"operator", "index", "consequence"} => Present(i.node)
  /\ i.do = "fill" => SolidBut(i.node, i.field)
  /\ i.do = "end statement" => SolidBut(i.node, "Expr")
  /\ i.do = "list" => SolidBut(i.node, i.field) /\ i.field \notin Parts
  /\ i.do \in {"program", "block"} => "do" \in DOMAIN i
  /\ i.do = "append" => "do" \in DOMAIN i.node /\ i.node.do \in {"program", "block"}

Carried(w) == Sequence(w) /\ \A k \in DOMAIN w : Carries(w[k])

PInv == ~failed => Solid(value) /\ Carried(todo)

(* What is there is not nil.                                               *)
LEMMA PresentIsNotNil ==
  ASSUME NEW v, Present(v)
  PROVE  v # nil
<1>1. nil.kind = "nil"
  BY DEF nil, NoAlternative
<1>. QED BY <1>1 DEF Present

(* The missing field comes in.                                             *)
LEMMA Filled ==
  ASSUME NEW v, NEW field, NEW x, SolidBut(v, field), field \in Parts => x # nil
  PROVE  Solid([v EXCEPT ![field] = x])
<1>. DEFINE w == [v EXCEPT ![field] = x]
<1>1. DOMAIN w = DOMAIN v /\ w["kind"] = v["kind"] /\ w[field] = x
      /\ \A f \in DOMAIN v : f # field => w[f] = v[f]
  BY DEF SolidBut
<1>. HIDE DEF w
<1>2. Present(w)
  BY <1>1 DEF SolidBut, Present
<1>3. \A f \in DOMAIN w \cap Parts : w[f] # nil
  BY <1>1 DEF SolidBut
<1>. QED BY <1>2, <1>3 DEF Solid, w

-----------------------------------------------------------------------------
(* The shapes of a step: a return of a solid node, calls that carry what   *)
(* they should, or an error.                                               *)
Call(items) ==
  /\ Sequence(items) /\ Len(items) \in 0..2
  /\ \A k \in 1..Len(items) : Carries(items[k])
  /\ todo' = items \o Tail(todo)
  /\ value' = value

Shaped ==
  \/ failed'
  \/ todo' = Tail(todo) /\ Solid(value')
  \/ \E items : Call(items)

(* The end of the loop over operators: what it came to is returned.        *)
LEMMA NoCalls ==
  ASSUME todo' = <<>> \o Tail(todo), value' = value
  PROVE  Shaped
<1>. DEFINE items == <<>>
<1>1. Sequence(items) /\ Len(items) = 0
  BY EmptySeq DEF Sequence
<1>2. Call(items)
  BY <1>1 DEF Call
<1>. QED BY <1>2 DEF Shaped

(* One call is to be made.                                                 *)
LEMMA OneCall ==
  ASSUME NEW a, todo' = <<a>> \o Tail(todo), value' = value, Carries(a)
  PROVE  Shaped
<1>. DEFINE items == <<a>>
<1>1. Sequence(items) /\ Len(items) = 1 /\ items[1] = a
  <2>1. items \in Seq({a})
    OBVIOUS
  <2>. QED BY <2>1 DEF Sequence
<1>2. todo' = items \o Tail(todo)
  OBVIOUS
<1>. HIDE DEF items
<1>3. Call(items)
  BY <1>1, <1>2 DEF Call
<1>. QED BY <1>3 DEF Shaped

(* A call is to be made and something is to be done with its value.        *)
LEMMA TwoCalls ==
  ASSUME NEW a, NEW b, todo' = <<a, b>> \o Tail(todo), value' = value, Carries(a), Carries(b)
  PROVE  Shaped
<1>. DEFINE items == <<a, b>>
<1>1. Sequence(items) /\ Len(items) = 2 /\ items[1] = a /\ items[2] = b
  <2>1. items \in Seq({a, b})
    OBVIOUS
  <2>. QED BY <2>1 DEF Sequence
<1>2. todo' = items \o Tail(todo)
  OBVIOUS
<1>. HIDE DEF items
<1>3. \A k \in 1..2 : k = 1 \/ k = 2
  OBVIOUS
<1>4. Call(items)
  BY <1>1, <1>2, <1>3 DEF Call
<1>. QED BY <1>4 DEF Shaped

(* A step of one of the shapes keeps the tree whole.                       *)
LEMMA ShapedKeeps ==
  ASSUME ~failed, Solid(value), Carried(todo), todo # <<>>, Shaped
  PROVE  failed' \/ (Solid(value') /\ Carried(todo'))
<1>. DEFINE t == Tail(todo)
<1>1. /\ Sequence(t) /\ Len(todo) \in Nat \ {0} /\ DOMAIN todo = 1..Len(todo)
      /\ Len(t) = Len(todo) - 1 /\ DOMAIN t = 1..(Len(todo) - 1)
      /\ \A k \in 1..(Len(todo) - 1) : t[k] = todo[k + 1]
  BY TailOf DEF Carried
<1>. HIDE DEF t
<1>2. \A k \in 1..Len(t) : Carries(t[k])
  BY <1>1 DEF Carried
<1>3. ASSUME NEW items, Call(items) PROVE Carried(todo')
  <2>. DEFINE n == Len(items)
  <2>1. /\ Sequence(items \o t) /\ DOMAIN (items \o t) = 1..(n + Len(t))
        /\ \A k \in 1..n : (items \o t)[k] = items[k]
        /\ \A k \in 1..Len(t) : (items \o t)[n + k] = t[k]
    <3>1. Sequence(items) /\ Len(items) \in Nat
      BY <1>3 DEF Call
    <3>2. Sequence(t)
      BY <1>1
    <3>. QED BY <3>1, <3>2, Pushed
  <2>2. n \in 0..2 /\ \A k \in 1..n : Carries(items[k])
    BY <1>3 DEF Call
  <2>. HIDE DEF n
  <2>3. ASSUME NEW k \in 1..(n + Len(t)) PROVE Carries((items \o t)[k])
    <3>1. CASE k \in 1..n
      BY <2>1, <2>2, <3>1
    <3>2. CASE k \notin 1..n
      <4>1. k - n \in 1..Len(t) /\ n + (k - n) = k
        BY <1>1, <2>2, <3>2
      <4>2. (items \o t)[k] = t[k - n]
        BY <2>1, <4>1
      <4>. QED BY <1>2, <4>1, <4>2
    <3>. QED BY <3>1, <3>2
  <2>4. todo' = items \o t
    BY <1>3 DEF Call, t
  <2>. QED BY <2>1, <2>3, <2>4 DEF Carried
<1>4. ASSUME todo' = Tail(todo) PROVE Carried(todo')
  BY <1>1, <1>2, <1>4 DEF Carried, t
<1>. QED BY <1>3, <1>4 DEF Shaped, Call

(* The next item, for the actions that look at it.                         *)
LEMMA NextItem ==
  ASSUME Carried(todo), todo # <<>>
  PROVE  Carries(item)
<1>1. Head(todo) = todo[1] /\ 1 \in DOMAIN todo
  BY TailOf DEF Carried
<1>. QED BY <1>1 DEF Carried, item

(* Items that carry no node.                                               *)
LEMMA PlainItems ==
  /\ \A precedence : Carries(Expression(precedence)) /\ Carries(Infix(precedence))
  /\ Carries(Item("statement")) /\ Carries(Item("prefix"))
  /\ Carries(Item("grouped")) /\ Carries(Item("condition"))
  /\ \A done : /\ Carries(Loop("block", done)) /\ Carries(Loop("pairs", done))
               /\ Carries(Loop("key", done)) /\ Carries(Loop("pair", done))
               /\ Carries(Loop("parameters", done)) /\ Carries(Loop("body", done))
BY DEF Carries, Expression, Infix, Item, Loop

(* Nodes that have all their parts, and nodes that wait for one.           *)
LEMMA Nodes ==
  /\ \A a : /\ Solid(Program(a)) /\ Solid(BlockStatement(a)) /\ Solid(Identifier(a))
            /\ Solid(IntegerLiteral(a)) /\ Solid(StringLiteral(a)) /\ Solid(Boolean(a))
            /\ Solid(HashLiteral(a))
            /\ SolidBut(LetStatement(a, nil), "Expr")
            /\ SolidBut(PrefixExpression(a, nil), "Right")
            /\ SolidBut(ArrayLiteral(a), "Elements")
            /\ SolidBut(FunctionLiteral(a, nil), "Body")
  /\ SolidBut(ReturnStatement(nil), "Expr")
  /\ SolidBut(ExpressionStatement(nil), "Expr")
BY DEF Solid, SolidBut, Present, Parts, Program, BlockStatement, Identifier, IntegerLiteral,
       StringLiteral, Boolean, HashLiteral, LetStatement, PrefixExpression, ArrayLiteral,
       FunctionLiteral, ReturnStatement, ExpressionStatement

(* Nodes around a node that is there.                                      *)
LEMMA NodesAround ==
  ASSUME NEW a, a # nil
  PROVE  /\ \A o : SolidBut(InfixExpression(a, o, nil), "Right")
         /\ \A b : b # nil => Solid(IndexExpression(a, b))
         /\ \A b : SolidBut(CallExpression(a, b), "Arguments")
         /\ \A b : b # nil => /\ Solid(IfExpression(a, b, NoAlternative))
                              /\ SolidBut(IfExpression(a, b, NoAlternative), "Alternative")
BY DEF Solid, SolidBut, Present, Parts, InfixExpression, IndexExpression, CallExpression,
       IfExpression

(* A node with a list in it that no part of the tree hangs on.             *)
LEMMA ListSolid ==
  ASSUME NEW v, NEW field, SolidBut(v, field), field \notin Parts
  PROVE  Solid(v)
BY DEF Solid, SolidBut

(* Every call of the parser has one of the shapes.                         *)
LEMMA ActionsShaped ==
  ASSUME ~failed, Solid(value), Carried(todo), todo # <<>>, Next
  PROVE  Shaped
<1>. USE PlainItems DEF Calls, Returns, Fails
<1>1. Carries(item)
  BY NextItem
<1>2. value # nil /\ Present(value)
  BY PresentIsNotNil DEF Solid
<1>3. ASSUME failed' PROVE Shaped
  BY <1>3 DEF Shaped
<1>4. ASSUME todo' = Tail(todo), Solid(value') PROVE Shaped
  BY <1>4 DEF Shaped
<1>5. ASSUME NEW end, NEW node, Solid(node), item.do \in {"program", "block"}, "do" \in DOMAIN item,
             Statements(end, node)
      PROVE  Shaped
  <2>1. Carries(With("append", item))
    BY <1>5 DEF Carries, With
  <2>. QED BY <1>4, <1>5, <2>1, TwoCalls DEF Statements
<1>6. CASE ParseProgram
  BY <1>1, <1>5, <1>6, Nodes DEF ParseProgram, Doing, item, Carries
<1>7. CASE ParseBlockStatement
  BY <1>1, <1>5, <1>7, Nodes DEF ParseBlockStatement, Doing, item, Carries
<1>8. CASE AppendStatement
  <2>. DEFINE new == [item.node EXCEPT !.done = Append(@, value)]
  <2>1. item.do = "append"
    BY <1>8 DEF AppendStatement, Doing, item
  <2>2. new.do = item.node.do /\ DOMAIN new = DOMAIN item.node
    BY <1>1, <2>1 DEF Carries
  <2>3. todo' = <<new>> \o Tail(todo) /\ value' = value
    BY <1>8 DEF AppendStatement
  <2>. HIDE DEF new
  <2>4. Carries(new)
    BY <1>1, <2>1, <2>2 DEF Carries
  <2>. QED BY <2>3, <2>4, OneCall
<1>9. CASE ParseLetStatement
  <2>1. \A name : Carries(With("end statement", LetStatement(name, nil)))
    BY Nodes DEF Carries, With
  <2>. QED BY <1>3, <1>9, <2>1, TwoCalls DEF ParseLetStatement, FailsLet
<1>10. CASE ParseReturnStatement
  <2>1. Carries(With("end statement", ReturnStatement(nil)))
    BY Nodes DEF Carries, With
  <2>. QED BY <1>10, <2>1, TwoCalls DEF ParseReturnStatement
<1>11. CASE ParseExpressionStatement
  <2>1. Carries(With("end statement", ExpressionStatement(nil)))
    BY Nodes DEF Carries, With
  <2>. QED BY <1>11, <2>1, TwoCalls DEF ParseExpressionStatement
<1>12. CASE EndStatement
  <2>1. SolidBut(item.node, "Expr")
    BY <1>1, <1>12 DEF EndStatement, Doing, item, Carries
  <2>2. Solid([item.node EXCEPT !["Expr"] = value])
    BY <1>2, <2>1, Filled
  <2>3. todo' = Tail(todo) /\ value' = [item.node EXCEPT !["Expr"] = value]
    BY <1>12 DEF EndStatement
  <2>. QED BY <1>4, <2>2, <2>3
<1>13. CASE ParseExpression
  BY <1>3, <1>13, TwoCalls DEF ParseExpression
<1>14. CASE ParseInfix
  <2>1. item.do = "infix"
    BY <1>14 DEF ParseInfix, Doing, item
  <2>2. Carries(item) /\ Carries(With("operator", value))
    BY <1>1, <1>2, <2>1 DEF Carries, With
  <2>. QED BY <1>14, <2>2, TwoCalls, NoCalls DEF ParseInfix
<1>15. CASE ParseIdentifier \/ ParseBoolean \/ ParseStringLiteral
  BY <1>4, <1>15, Nodes DEF ParseIdentifier, ParseBoolean, ParseStringLiteral
<1>16. CASE ParseIntegerLiteral
  BY <1>3, <1>4, <1>16, Nodes DEF ParseIntegerLiteral
<1>17. CASE ParsePrefixExpression
  <2>1. Carries(Fill(PrefixExpression(cur, nil), "Right"))
    BY Nodes DEF Carries, Fill
  <2>. QED BY <1>17, <2>1, TwoCalls DEF ParsePrefixExpression
<1>18. CASE ParseGroupedExpression
  BY <1>18, TwoCalls DEF ParseGroupedExpression
<1>19. CASE EndGroupedExpression
  BY <1>3, <1>4, <1>19 DEF EndGroupedExpression
<1>20. CASE ParseInfixExpression
  <2>1. Present(item.node)
    BY <1>1, <1>20 DEF ParseInfixExpression, Doing, item, Carries
  <2>2. Carries(Fill(InfixExpression(item.node, cur, nil), "Right"))
    BY <2>1, PresentIsNotNil, NodesAround DEF Carries, Fill
  <2>. QED BY <1>20, <2>2, TwoCalls DEF ParseInfixExpression
<1>21. CASE ParseIndexExpression
  <2>1. Present(item.node)
    BY <1>1, <1>21 DEF ParseIndexExpression, Doing, item, Carries
  <2>2. Carries(With("index", item.node))
    BY <2>1 DEF Carries, With
  <2>. QED BY <1>21, <2>2, TwoCalls DEF ParseIndexExpression
<1>22. CASE EndIndexExpression
  <2>1. Present(item.node)
    BY <1>1, <1>22 DEF EndIndexExpression, Doing, item, Carries
  <2>2. Solid(IndexExpression(item.node, value))
    BY <1>2, <2>1, PresentIsNotNil, NodesAround
  <2>. QED BY <1>3, <1>4, <1>22, <2>2 DEF EndIndexExpression
<1>23. CASE EndExpression
  <2>1. SolidBut(item.node, item.field)
    BY <1>1, <1>23 DEF EndExpression, Doing, item, Carries
  <2>2. Solid([item.node EXCEPT ![item.field] = value])
    BY <1>2, <2>1, Filled
  <2>. QED BY <1>4, <1>23, <2>2 DEF EndExpression
<1>24. ASSUME NEW end, NEW node, NEW field, SolidBut(node, field), field \notin Parts,
              StartList(List(end, node, field))
       PROVE  Shaped
  <2>1. /\ List(end, node, field).node = node /\ List(end, node, field).end = end
        /\ List(end, node, field).field = field
    BY DEF List
  <2>2. Carries(List(end, node, field))
    BY <1>24, <2>1 DEF Carries, List
  <2>3. Solid(node)
    BY <1>24, ListSolid
  <2>. QED BY <1>4, <1>24, <2>1, <2>2, <2>3, TwoCalls DEF StartList
<1>25. CASE ParseArrayLiteral
  <2>1. SolidBut(ArrayLiteral(<<>>), "Elements") /\ "Elements" \notin Parts
    BY Nodes DEF Parts
  <2>. QED BY <1>24, <1>25, <2>1 DEF ParseArrayLiteral
<1>26. CASE ParseCallExpression
  <2>1. Present(item.node)
    BY <1>1, <1>26 DEF ParseCallExpression, Doing, item, Carries
  <2>2. SolidBut(CallExpression(item.node, <<>>), "Arguments") /\ "Arguments" \notin Parts
    BY <2>1, PresentIsNotNil, NodesAround DEF Parts
  <2>. QED BY <1>24, <1>26, <2>2 DEF ParseCallExpression
<1>27. CASE ParseExpressionList
  <2>. DEFINE node == [item.node EXCEPT ![item.field] = Append(@, value)]
              list == List(item.end, node, item.field)
  <2>1. SolidBut(item.node, item.field) /\ item.field \notin Parts
    BY <1>1, <1>27 DEF ParseExpressionList, Doing, item, Carries
  <2>2. list.node = node
    BY DEF List
  <2>3. SolidBut(node, item.field)
    BY <2>1 DEF SolidBut, Present
  <2>4. Carries(list) /\ Solid(list.node)
    <3>. HIDE DEF node
    <3>1. Carries(List(item.end, node, item.field))
      BY <2>1, <2>3 DEF Carries, List
    <3>2. Solid(node)
      BY <2>1, <2>3, ListSolid
    <3>. QED BY <2>2, <3>1, <3>2
  <2>5. \/ todo' = <<Expression(LOWEST), list>> \o Tail(todo) /\ value' = value
        \/ todo' = Tail(todo) /\ value' = list.node
        \/ failed'
    BY <1>27 DEF ParseExpressionList
  <2>. HIDE DEF list, node
  <2>. QED BY <1>3, <1>4, <2>4, <2>5, TwoCalls
<1>28. CASE ParseHashLiteral
  BY <1>28, OneCall DEF ParseHashLiteral
<1>29. CASE ParsePairs
  BY <1>4, <1>29, TwoCalls, Nodes DEF ParsePairs
<1>30. CASE ParseKey
  BY <1>3, <1>30, TwoCalls DEF ParseKey
<1>31. CASE ParsePair
  BY <1>3, <1>31, OneCall DEF ParsePair
<1>32. CASE ParseIfExpression
  BY <1>3, <1>32, TwoCalls DEF ParseIfExpression
<1>33. CASE ParseConsequence
  <2>1. Carries(With("consequence", value))
    BY <1>2 DEF Carries, With
  <2>. QED BY <1>3, <1>33, <2>1, TwoCalls DEF ParseConsequence
<1>34. CASE ParseAlternative
  <2>. DEFINE node == IfExpression(item.node, value, NoAlternative)
  <2>1. Present(item.node)
    BY <1>1, <1>34 DEF ParseAlternative, Doing, item, Carries
  <2>2. Solid(node) /\ SolidBut(node, "Alternative")
    BY <1>2, <2>1, PresentIsNotNil, NodesAround
  <2>3. \/ todo' = Tail(todo) /\ value' = node
        \/ failed'
        \/ todo' = <<Loop("block", <<>>), Fill(node, "Alternative")>> \o Tail(todo) /\ value' = value
    BY <1>34 DEF ParseAlternative
  <2>. HIDE DEF node
  <2>4. Carries(Fill(node, "Alternative"))
    BY <2>2 DEF Carries, Fill
  <2>. QED BY <1>3, <1>4, <2>2, <2>3, <2>4, TwoCalls
<1>35. CASE ParseFunctionLiteral
  BY <1>3, <1>35, OneCall DEF ParseFunctionLiteral
<1>36. CASE ParseFunctionParameters
  BY <1>3, <1>36, OneCall DEF ParseFunctionParameters
<1>37. CASE ParseFunctionBody
  <2>1. Carries(Fill(FunctionLiteral(item.done, nil), "Body"))
    BY Nodes DEF Carries, Fill
  <2>. QED BY <1>3, <1>37, <2>1, TwoCalls DEF ParseFunctionBody
<1>. QED BY <1>6, <1>7, <1>8, <1>9, <1>10, <1>11, <1>12, <1>13, <1>14, <1>15, <1>16, <1>17, <1>18, <1>19, <1>20, <1>21, <1>22, <1>23, <1>25, <1>26, <1>27, <1>28, <1>29, <1>30, <1>31, <1>32, <1>33, <1>34, <1>35, <1>36, <1>37
       DEF Next

-----------------------------------------------------------------------------
(* The parser starts with an empty program to fill.                        *)
LEMMA InitSolid == Init => PInv
<1>. SUFFICES ASSUME Init PROVE PInv
  OBVIOUS
<1>1. todo = <<Loop("program", <<>>)>> /\ value = Program(<<>>)
  BY DEF Init, Start
<1>2. Solid(value)
  BY <1>1, Nodes
<1>3. Carries(Loop("program", <<>>))
  BY DEF Carries, Loop
<1>4. Sequence(todo) /\ DOMAIN todo = {1} /\ todo[1] = Loop("program", <<>>)
  <2>1. todo \in Seq({Loop("program", <<>>)})
    BY <1>1
  <2>2. DOMAIN todo = {1} /\ todo[1] = Loop("program", <<>>)
    BY <1>1
  <2>. QED BY <2>1, <2>2 DEF Sequence
<1>. QED BY <1>2, <1>3, <1>4 DEF PInv, Carried

(* An error that was recorded stays recorded.                              *)
LEMMA FailedStays ==
  ASSUME failed, [Next]_vars
  PROVE  failed'
BY DEF Next, vars, Calls, Returns, Fails, FailsLet, Statements, StartList,
  ParseProgram, ParseBlockStatement, AppendStatement, ParseLetStatement,
  ParseReturnStatement, ParseExpressionStatement, EndStatement, ParseExpression,
  ParseInfix, ParseIdentifier, ParseIntegerLiteral, ParseBoolean,
  ParseStringLiteral, ParsePrefixExpression, ParseGroupedExpression, EndGroupedExpression,
  ParseInfixExpression, ParseIndexExpression, EndIndexExpression, EndExpression,
  ParseArrayLiteral, ParseCallExpression, ParseExpressionList, ParseHashLiteral,
  ParsePairs, ParseKey, ParsePair, ParseIfExpression,
  ParseConsequence, ParseAlternative, ParseFunctionLiteral, ParseFunctionParameters,
  ParseFunctionBody

(* Every action is about the next item.                                    *)
LEMMA SomethingToDo ==
  ASSUME Next
  PROVE  todo # <<>>
BY DEF Next, Doing, Prefix,
  ParseProgram, ParseBlockStatement, AppendStatement, ParseLetStatement,
  ParseReturnStatement, ParseExpressionStatement, EndStatement, ParseExpression,
  ParseInfix, ParseIdentifier, ParseIntegerLiteral, ParseBoolean,
  ParseStringLiteral, ParsePrefixExpression, ParseGroupedExpression, EndGroupedExpression,
  ParseInfixExpression, ParseIndexExpression, EndIndexExpression, EndExpression,
  ParseArrayLiteral, ParseCallExpression, ParseExpressionList, ParseHashLiteral,
  ParsePairs, ParseKey, ParsePair, ParseIfExpression,
  ParseConsequence, ParseAlternative, ParseFunctionLiteral, ParseFunctionParameters,
  ParseFunctionBody

(* A text for which the parser reports no error has a tree without holes:  *)
(* the compiler and the evaluator never meet a nil node in it, however the *)
(* text breaks off or goes wrong (parser.go:112-449).                      *)
THEOREM TreesAreWhole == Spec => []NoHoles
<1>1. PInv /\ [Next]_vars => PInv'
  <2>. SUFFICES ASSUME PInv, [Next]_vars PROVE PInv'
    OBVIOUS
  <2>1. CASE failed
    BY <2>1, FailedStays DEF PInv
  <2>2. CASE ~failed /\ Next
    BY <2>2, SomethingToDo, ActionsShaped, ShapedKeeps DEF PInv
  <2>3. CASE ~failed /\ UNCHANGED vars
    BY <2>3 DEF PInv, vars
  <2>. QED BY <2>1, <2>2, <2>3
<1>2. PInv => NoHoles
  BY DEF PInv, NoHoles, Solid, Present, Parts, nil, NoAlternative, NilLet
<1>. QED BY InitSolid, <1>1, <1>2, PTL DEF Spec
=============================================================================
