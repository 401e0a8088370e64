------------------------------- MODULE Samples -------------------------------
(* Shorthands for the syntax trees that the models compile and run.        *)
EXTENDS Ast

Lit(v) == IntegerLiteral(v)
one == Lit(1)
yes == Boolean(TRUE)
Id(n) == Identifier(n)
Do(e) == ExpressionStatement(e)
Block(statements) == BlockStatement(statements)
If(c, then, else) == IfExpression(c, Block(then), IF else = <<>> THEN NoAlternative ELSE Block(else))
Fn(parameters, body) == FunctionLiteral(parameters, Block(body))
Call(f, args) == CallExpression(f, args)
Plus(x, y) == InfixExpression(x, "+", y)

(* Blocks that leave a value or return, as the arms of conditionals must.  *)
Ending(exprs) ==
  {<<Do(e)>> : e \in exprs} \cup {<<ReturnStatement(e)>> : e \in exprs}
  \cup {<<LetStatement("b", e), Do(Id("b"))>> : e \in exprs}
  \cup {<<Do(one), Do(e)>> : e \in exprs}

Ifs(exprs) == {If(Id("a"), then, else) : then \in Ending(exprs), else \in {<<>>} \cup Ending(exprs)}

Fns(exprs) ==
  {Fn(parameters, body) :
     parameters \in {<<>>, <<"a">>, <<"b", "c">>},
     body \in Ending(exprs) \cup {<<>>, <<LetStatement("c", Id("a"))>>}}

(* The nodes of a tree.                                                    *)
Parts(n) ==
  LET Values(s) == {s[k] : k \in DOMAIN s}
  IN  CASE n.kind \in BlockKinds           -> Values(n.Statements)
        [] n.kind \in StatementKinds       -> {n.Expr}
        [] n.kind = "PrefixExpression"     -> {n.Right}
        [] n.kind = "InfixExpression"      -> {n.Left, n.Right}
        [] n.kind = "IndexExpression"      -> {n.Left, n.Index}
        [] n.kind = "ArrayLiteral"         -> Values(n.Elements)
        [] n.kind = "HashLiteral"          -> UNION {Values(pair) : pair \in Values(n.Pairs)}
        [] n.kind = "CallExpression"       -> {n.Function} \cup Values(n.Arguments)
        [] n.kind = "IfExpression"         -> {n.Condition, n.Consequence}
                                                \cup ({n.Alternative} \ {NoAlternative})
        [] n.kind = "FunctionLiteral"      -> {n.Body}
        [] OTHER                           -> {}

RECURSIVE Subtrees(_)
Subtrees(n) == {n} \cup UNION {Subtrees(part) : part \in Parts(n)}
==============================================================================
