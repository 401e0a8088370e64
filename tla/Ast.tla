--------------------------------- MODULE Ast ---------------------------------
(***************************************************************************)
(* ast/ast.go: the nodes of a parsed program, one constructor per struct.  *)
(* Tokens, which only carry text for messages, are left out.  A string     *)
(* literal is a sequence of characters; a hash literal lists its pairs in  *)
(* the order of the text, which Go's map does not keep.                    *)
(***************************************************************************)
EXTENDS Naturals, Sequences

Program(statements)        == [kind |-> "Program", Statements |-> statements]
BlockStatement(statements) == [kind |-> "BlockStatement", Statements |-> statements]
LetStatement(name, value)  == [kind |-> "LetStatement", Name |-> name, Expr |-> value]
ReturnStatement(value)     == [kind |-> "ReturnStatement", Expr |-> value]
ExpressionStatement(e)     == [kind |-> "ExpressionStatement", Expr |-> e]

Identifier(name)   == [kind |-> "Identifier", Name |-> name]
IntegerLiteral(v)  == [kind |-> "IntegerLiteral", Int |-> v]
StringLiteral(s)   == [kind |-> "StringLiteral", Str |-> s]
Boolean(b)         == [kind |-> "Boolean", Bool |-> b]
ArrayLiteral(es)   == [kind |-> "ArrayLiteral", Elements |-> es]
HashLiteral(pairs) == [kind |-> "HashLiteral", Pairs |-> pairs]

PrefixExpression(operator, right) ==
  [kind |-> "PrefixExpression", Operator |-> operator, Right |-> right]
InfixExpression(left, operator, right) ==
  [kind |-> "InfixExpression", Operator |-> operator, Left |-> left, Right |-> right]
IndexExpression(left, index) ==
  [kind |-> "IndexExpression", Left |-> left, Index |-> index]
CallExpression(function, arguments) ==
  [kind |-> "CallExpression", Function |-> function, Arguments |-> arguments]
FunctionLiteral(parameters, body) ==
  [kind |-> "FunctionLiteral", Parameters |-> parameters, Body |-> body]

(* An if without an else has a nil Alternative.                            *)
NoAlternative == [kind |-> "nil"]
IfExpression(condition, consequence, alternative) ==
  [kind |-> "IfExpression", Condition |-> condition,
   Consequence |-> consequence, Alternative |-> alternative]

-----------------------------------------------------------------------------
(* What the types of the fields allow: the nodes with an expressionNode    *)
(* method, those with a statementNode method, and the lists of statements. *)
ExpressionKinds ==
  {"Identifier", "IntegerLiteral", "StringLiteral", "Boolean", "PrefixExpression",
   "InfixExpression", "IndexExpression", "ArrayLiteral", "HashLiteral", "CallExpression",
   "IfExpression", "FunctionLiteral"}
StatementKinds == {"LetStatement", "ReturnStatement", "ExpressionStatement"}
BlockKinds     == {"Program", "BlockStatement"}

Of(trees, kinds) == {n \in trees : n.kind \in kinds}

(* A set of whole trees: it holds the parts of its nodes, each of the kind *)
(* its field has, and none is missing.                                     *)
Grammar(trees) ==
  \A n \in trees :
    LET Expressions == Of(trees, ExpressionKinds)
        Blocks      == Of(trees, BlockKinds)
    IN  /\ n.kind \in ExpressionKinds \cup StatementKinds \cup BlockKinds
        /\ n.kind \in BlockKinds => n.Statements \in Seq(Of(trees, StatementKinds))
        /\ n.kind \in StatementKinds => n.Expr \in Expressions
        /\ n.kind \in {"PrefixExpression", "InfixExpression"} => n.Right \in Expressions
        /\ n.kind \in {"InfixExpression", "IndexExpression"} => n.Left \in Expressions
        /\ n.kind = "IndexExpression" => n.Index \in Expressions
        /\ n.kind = "ArrayLiteral" => n.Elements \in Seq(Expressions)
        /\ n.kind = "HashLiteral" => n.Pairs \in Seq(Expressions \X Expressions)
        /\ n.kind = "CallExpression" => n.Function \in Expressions /\ n.Arguments \in Seq(Expressions)
        /\ n.kind = "IfExpression" =>
             /\ n.Condition \in Expressions /\ n.Consequence \in Blocks
             /\ n.Alternative.kind = "nil" \/ n.Alternative \in Blocks
        /\ n.kind = "FunctionLiteral" => n.Body \in Blocks /\ Len(n.Parameters) \in Nat
=============================================================================
