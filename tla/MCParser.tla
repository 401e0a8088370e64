------------------------------ MODULE MCParser ------------------------------
(***************************************************************************)
(* The parser on the texts of trees, and on texts with a mistake.          *)
(***************************************************************************)
EXTENDS Parser, AstString, Samples

VARIABLE tree    (* The tree that the text was written from, or nil.       *)

-----------------------------------------------------------------------------
(* The text of an expression with no more parentheses than the precedences *)
(* and the associativity to the left call for.                             *)
Binds(e) == CASE e.kind = "InfixExpression"  -> Precedence(e.Operator)
              [] e.kind = "PrefixExpression" -> PREFIX
              [] OTHER -> INDEX

RECURSIVE Text(_)

Within(e, least) == IF Binds(e) < least THEN "(" \o Text(e) \o ")" ELSE Text(e)
TextsOf(nodes) == [k \in DOMAIN nodes |-> Text(nodes[k])]

Text(node) ==
  CASE node.kind = "InfixExpression" ->
         LET n == Precedence(node.Operator)
         IN  Within(node.Left, n) \o node.Operator \o Within(node.Right, n + 1)
    [] node.kind = "PrefixExpression" -> node.Operator \o Within(node.Right, PREFIX)
    [] node.kind = "CallExpression" ->
         Within(node.Function, CALL) \o "(" \o Join(TextsOf(node.Arguments), ",") \o ")"
    [] node.kind = "IndexExpression" -> Within(node.Left, CALL) \o "[" \o Text(node.Index) \o "]"
    [] node.kind = "StringLiteral" -> "\"" \o node.Str \o "\""
    [] node.kind = "ArrayLiteral" -> "[" \o Join(TextsOf(node.Elements), ",") \o "]"
    [] node.kind = "HashLiteral" ->
         "{" \o Join([k \in DOMAIN node.Pairs |->
                        Text(node.Pairs[k][1]) \o ":" \o Text(node.Pairs[k][2])], ",") \o "}"
    [] node.kind = "FunctionLiteral" ->
         "fn(" \o Join(node.Parameters, ",") \o "){" \o Text(node.Body) \o "}"
    [] node.kind = "IfExpression" ->
         "if(" \o Text(node.Condition) \o "){" \o Text(node.Consequence) \o "}"
         \o (IF node.Alternative = NoAlternative THEN ""
             ELSE "else{" \o Text(node.Alternative) \o "}")
    [] node.kind \in {"Program", "BlockStatement"} -> Join(TextsOf(node.Statements), ";")
    [] node.kind = "LetStatement" -> "let " \o node.Name \o "=" \o Text(node.Expr)
    [] node.kind = "ReturnStatement" -> "return " \o Text(node.Expr)
    [] node.kind = "ExpressionStatement" -> Text(node.Expr)
    [] OTHER -> StringOf(node)

(* Every way to put two operators next to a third one.                     *)
Operations(es) ==
  {InfixExpression(x, o, y) : x \in es, o \in {"==", "<", "+", "-", "*"}, y \in es}
  \cup {PrefixExpression(o, x) : o \in {"-", "!"}, x \in es}
  \cup {Call(x, <<y>>) : x \in es, y \in es} \cup {IndexExpression(x, y) : x \in es, y \in es}

Simple == {Id("a")} \cup Operations({Id("a")})
Operators2 == Simple \cup Operations(Simple)

(* The nodes with lists and blocks in them.                                *)
Nodes ==
  {Program(<<LetStatement("f", e), ReturnStatement(e), Do(e)>>) :
     e \in {ArrayLiteral(<<>>), ArrayLiteral(<<one, Plus(Id("a"), one), yes>>),
            HashLiteral(<<>>), HashLiteral(<<<<one, Plus(one, one)>>, <<yes, Boolean(FALSE)>>>>),
            Call(Id("a"), <<>>), Call(Id("a"), <<one, PrefixExpression("!", yes)>>),
            InfixExpression(Id("a"), "!=", InfixExpression(Lit(10), "/", Lit(127))),
            StringLiteral("let x"), StringLiteral("")}
           \cup {If(Id("a"), then, else) :
                   then \in {<<>>, <<Do(one)>>, <<LetStatement("a", one), Do(Id("a"))>>},
                   else \in {<<>>, <<Do(yes)>>, <<Do(If(yes, <<Do(one)>>, <<Do(yes)>>)), Do(one)>>}}
           \cup {Call(Fn(ps, body), <<one>>) :
                   ps \in {<<>>, <<"a">>, <<"a", "b">>},
                   body \in {<<>>, <<ReturnStatement(Id("a"))>>, <<Do(Fn(<<>>, <<Do(one)>>))>>}}}

Sources ==
  {<<t, Text(t)>> : t \in {Program(<<Do(e)>>) : e \in Operators2} \cup Nodes}
  \cup {<<t, StringOf(t)>> : t \in {Program(<<Do(e)>>) : e \in Operators2}}

InitTree == \E s \in Sources : tree = s[1] /\ Start(s[2])

(* A text is parsed to the tree it was written from: operators bind as the *)
(* table of precedences says and to the left, parentheses are only needed  *)
(* where they change that, and String writes an operator expression with   *)
(* all of them, so that it means the same (parser.go:158-267, 364-416).    *)
RoundTrip == Parsed /\ tree # nil => ~failed /\ value = tree

-----------------------------------------------------------------------------
(* Texts as sequences of words.                                            *)
Sample ==
  {<<"let", "a", "=", "fn", "(", "b", ",", "c", ")", "{", "return", "b", ";", "}", ";">>,
   <<"if", "(", "a", "<", "1", ")", "{", "let", "b", "=", "a", ";", "b", "}", "else", "{", "0", "}">>,
   <<"-", "(", "a", "+", "1", ")", "*", "f", "(", "a", ",", "[", "1", ",", "010", "]", "[", "0", "]", ")">>,
   <<"{", "1", ":", "\"s\"", ",", "true", ":", "!", "a", "}">>}

Words == {"let", "a", "=", "fn", "(", ")", "{", "}", "[", "]", ",", ";", ":", "return",
          "if", "else", "+", "!", "1", "08", "128", "\"", "?", "@"}

Without(s, k)  == SubSeq(s, 1, k - 1) \o SubSeq(s, k + 1, Len(s))
Edits ==
  UNION {{s} \cup {SubSeq(s, 1, k) : k \in DOMAIN s} \cup {Without(s, k) : k \in DOMAIN s}
         \cup {[s EXCEPT ![k] = w] : k \in DOMAIN s, w \in Words}
         \cup {SubSeq(s, 1, k) \o <<w>> \o SubSeq(s, k + 1, Len(s)) : k \in DOMAIN s, w \in Words}
         : s \in Sample}
Short == {<<v, w>> : v \in Words, w \in Words}

MCInputs == {Join(s, " ") : s \in Edits \cup Short}

InitText == Init /\ tree = nil

MCSpec == (InitTree \/ InitText) /\ [][Next /\ UNCHANGED tree]_<<vars, tree>> /\ WF_vars(Next)

(* The tokens up to the one that ends the program.                         *)
Seen == SubSeq(p.tokens, 1, IF p.read - 2 < Len(p.tokens) THEN p.read - 2 ELSE Len(p.tokens))

Punctuation == {"(", ")", "{", "}", "[", "]", ",", ";"}

RECURSIVE Yield(_)
Yields(nodes) == FlattenSeq([k \in DOMAIN nodes |-> Yield(nodes[k])])

(* The words of a tree, from left to right, but for the punctuation.       *)
Yield(node) ==
  CASE node.kind = "InfixExpression" -> Yield(node.Left) \o <<node.Operator>> \o Yield(node.Right)
    [] node.kind = "PrefixExpression" -> <<node.Operator>> \o Yield(node.Right)
    [] node.kind = "CallExpression" -> Yield(node.Function) \o Yields(node.Arguments)
    [] node.kind = "IndexExpression" -> Yield(node.Left) \o Yield(node.Index)
    [] node.kind = "ArrayLiteral" -> Yields(node.Elements)
    [] node.kind = "HashLiteral" ->
         FlattenSeq([k \in DOMAIN node.Pairs |->
                       Yield(node.Pairs[k][1]) \o <<":">> \o Yield(node.Pairs[k][2])])
    [] node.kind = "FunctionLiteral" ->
         <<"fn">> \o SelectSeq(node.Parameters, LAMBDA w : w \notin Punctuation \cup {""})
         \o Yield(node.Body)
    [] node.kind = "IfExpression" ->
         <<"if">> \o Yield(node.Condition) \o Yield(node.Consequence)
         \o (IF node.Alternative = NoAlternative THEN <<>> ELSE <<"else">> \o Yield(node.Alternative))
    [] node.kind \in {"Program", "BlockStatement"} -> Yields(node.Statements)
    [] node.kind = "LetStatement" -> <<"let", node.Name, "=">> \o Yield(node.Expr)
    [] node.kind = "ReturnStatement" -> <<"return">> \o Yield(node.Expr)
    [] node.kind = "ExpressionStatement" -> Yield(node.Expr)
    [] OTHER -> <<StringOf(node)>>

(* No token of a text that is accepted is passed over, read twice or moved *)
(* (every call in parser.go has to leave curToken on the last token of     *)
(* what it parsed, and its caller to go on from there).  A NUL character   *)
(* may end the program before the text ends (lexer.go:136).                *)
NothingPassedOver ==
  Parsed /\ ~failed =>
    LET words == SelectSeq(Seen, LAMBDA t : t.Type \notin Punctuation \cup {EOF})
    IN  Yield(value) = [k \in DOMAIN words |->
                          IF words[k].Type = INT /\ Parses(words[k].Literal)
                          THEN ToString(ParseInt(words[k].Literal))
                          ELSE words[k].Literal]

(* The tokens that stand for parameters.                                   *)
ParameterAt(ts, k) ==
  \E j \in 1..k - 2 :
    /\ ts[j].Type = "FUNCTION" /\ ts[j + 1].Type = "(" /\ (k - j) % 2 = 0
    /\ ts[j + 2].Type # ")"
    /\ \A i \in j + 3..k - 1 : (i - j) % 2 = 1 => ts[i].Type = ","

(* The brackets that are open after a text, or "wrong" for a wrong closer. *)
OpenBrackets(ts) ==
  LET opener(c) == CASE c = ")" -> "(" [] c = "]" -> "[" [] c = "}" -> "{"
      after[k \in 0..Len(ts)] ==
        IF k = 0 THEN <<>>
        ELSE LET open == after[k - 1]
             IN  IF ParameterAt(ts, k) THEN open
                 ELSE IF ts[k].Type = EOF
                 THEN IF open # <<>> /\ Head(open) = "{" THEN Tail(open) ELSE open
                 ELSE IF ts[k].Type \notin {"(", "[", "{", ")", "]", "}"} THEN open
                 ELSE IF ts[k].Type \in {"(", "[", "{"} THEN <<ts[k].Type>> \o open
                 ELSE IF open # <<>> /\ Head(open) = opener(ts[k].Type) THEN Tail(open)
                 ELSE <<"wrong">>
  IN  after[Len(ts)]

(* The brackets of a text that is accepted match, with two exceptions: the *)
(* end of the text closes the blocks that are open, and a NUL one of them  *)
(* (parser.go:308); a bracket in the place of a parameter is its name      *)
(* (parser.go:347).                                                        *)
BracketsMatch ==
  Parsed /\ ~failed =>
    LET open == OpenBrackets(Seen) IN \A k \in DOMAIN open : open[k] = "{"
=============================================================================
