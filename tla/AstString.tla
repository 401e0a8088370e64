------------------------------ MODULE AstString ------------------------------
(***************************************************************************)
(* ast/ast.go: String of every node, the text that the parser's tests and  *)
(* the compiler's order of hash keys are about.  The literal of a token is *)
(* written from the value it was parsed to; a hash is written in the order *)
(* of its pairs, one of those that a Go map may take.                      *)
(***************************************************************************)
EXTENDS Ast, Sequences, SequencesExt, TLC

(* strings.Join                                                            *)
Join(texts, sep) ==
  FoldLeft(LAMBDA out, k : out \o (IF k = 1 THEN "" ELSE sep) \o texts[k],
           "", [k \in 1..Len(texts) |-> k])

RECURSIVE StringOf(_)

Strings(nodes) == [k \in DOMAIN nodes |-> StringOf(nodes[k])]

StatementString(node) ==
  CASE node.kind = "LetStatement" -> "let " \o node.Name \o " = " \o StringOf(node.Expr) \o ";"
    [] node.kind = "ReturnStatement" -> "return " \o StringOf(node.Expr) \o ";"
    [] node.kind = "ExpressionStatement" -> StringOf(node.Expr)

OperatorString(node) ==
  IF node.kind = "PrefixExpression" THEN "(" \o node.Operator \o StringOf(node.Right) \o ")"
  ELSE "(" \o StringOf(node.Left) \o " " \o node.Operator \o " " \o StringOf(node.Right) \o ")"

(* A program, a block and what has blocks.                                 *)
BlockString(node) ==
  CASE node.kind \in {"Program", "BlockStatement"} -> Join(Strings(node.Statements), "")
    [] node.kind = "FunctionLiteral" ->
         "fn(" \o Join(node.Parameters, ", ") \o ") " \o StringOf(node.Body)
    [] node.kind = "IfExpression" ->
         "if" \o StringOf(node.Condition) \o " " \o StringOf(node.Consequence)
              \o (IF node.Alternative = NoAlternative THEN ""
                  ELSE "else " \o StringOf(node.Alternative))

ListString(node) ==
  CASE node.kind = "CallExpression" ->
         StringOf(node.Function) \o "(" \o Join(Strings(node.Arguments), ", ") \o ")"
    [] node.kind = "ArrayLiteral" -> "[" \o Join(Strings(node.Elements), ", ") \o "]"
    [] node.kind = "IndexExpression" ->
         "(" \o StringOf(node.Left) \o "[" \o StringOf(node.Index) \o "])"
    [] node.kind = "HashLiteral" ->
         "{" \o Join([k \in DOMAIN node.Pairs |->
                        StringOf(node.Pairs[k][1]) \o ":" \o StringOf(node.Pairs[k][2])], ", ")
             \o "}"

StringOf(node) ==
  CASE node.kind = "Identifier" -> node.Name
    [] node.kind = "IntegerLiteral" -> ToString(node.Int)
    [] node.kind = "StringLiteral" -> node.Str
    [] node.kind = "Boolean" -> IF node.Bool THEN "true" ELSE "false"
    [] node.kind \in {"LetStatement", "ReturnStatement", "ExpressionStatement"} -> StatementString(node)
    [] node.kind \in {"PrefixExpression", "InfixExpression"} -> OperatorString(node)
    [] node.kind \in {"Program", "BlockStatement", "FunctionLiteral", "IfExpression"} ->
         BlockString(node)
    [] OTHER -> ListString(node)
==============================================================================
