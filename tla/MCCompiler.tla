----------------------------- MODULE MCCompiler -----------------------------
(***************************************************************************)
(* The compiler on every program of a small grammar: conditionals in       *)
(* conditionals and in functions, functions in functions, with and without *)
(* else, ending in a value, in a return or in a let, and one program for   *)
(* each of the remaining kinds of node.                                    *)
(***************************************************************************)
EXTENDS Compiler, Samples

MCStringHash(s) == Len(s)

Leaf == {one, Id("a")}

Sum == Plus(Id("a"), InfixExpression(Id("b"), "<", one))

Inner == Leaf \cup {If(yes, <<Do(one)>>, <<>>), If(yes, <<Do(one)>>, <<Do(yes)>>),
                    If(yes, <<ReturnStatement(one)>>, <<Do(Id("a"))>>),
                    Fn(<<"b">>, <<Do(Sum)>>),
                    Fn(<<"c">>, <<LetStatement("b", Fn(<<>>, <<Do(Plus(Id("c"), Id("a")))>>)), Do(Id("b"))>>)}

MCKeyText(k) == IF k.kind = "IntegerLiteral" THEN k.Int ELSE 0

Others == {
  PrefixExpression("-", one), PrefixExpression("!", yes),
  InfixExpression(one, "-", yes), InfixExpression(one, "*", one), InfixExpression(one, "/", one),
  InfixExpression(one, ">", one), InfixExpression(one, "==", one), InfixExpression(one, "!=", one),
  Call(Id("len"), <<StringLiteral(<<"s">>)>>),
  IndexExpression(ArrayLiteral(<<one, yes, Fn(<<>>, <<>>)>>), one),
  HashLiteral(<<<<yes, Id("a")>>, <<Id("b"), one>>, <<one, one>>>>),
  Call(Fn(<<"b">>, <<ReturnStatement(Id("b"))>>), <<If(yes, <<Do(one)>>, <<>>)>>),
  Fn(<<"a", "c">>, <<LetStatement("b", Fn(<<>>, <<Do(Plus(Id("a"), Fn(<<>>, <<Do(Plus(Id("c"), Id("b")))>>)))>>)),
                     Do(Id("b"))>>),
  Id("missing")}

(* let a = 1; let b = 1; let a = <expression>; <expression>                *)
MCPrograms ==
  {Program(<<LetStatement("a", one), LetStatement("b", one), LetStatement("a", e), Do(e)>>) :
     e \in Ifs(Inner) \cup Fns(Inner \cup Others) \cup Others}

(* The programs are whole trees, as the theorems about the compiler ask.   *)
ASSUME WholePrograms ==
  \A program \in Programs : Grammar(Subtrees(program)) /\ program.kind = "Program"

(* Their ifs end in a value, as the theorem about the stack asks.          *)
ASSUME ValuedPrograms == \A program \in MCPrograms : Valued(Subtrees(program))

(* A conditional whose only arm leaves nothing.                            *)
ValuelessIf ==
  {Program(<<Do(If(yes, <<LetStatement("a", one)>>, <<>>))>>)}
=============================================================================
