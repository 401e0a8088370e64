------------------------------- MODULE Parser -------------------------------
(***************************************************************************)
(* parser/parser.go: from tokens to a syntax tree, by recursive descent    *)
(* with a table of precedences.                                            *)
(*                                                                         *)
(* Go's recursion is the variable todo, what is still to be done, next     *)
(* first: an item is a call that is to be made, or what a function does    *)
(* with the value of a call it has made.  value is what the last call      *)
(* returned.  An action is the code between two calls.                     *)
(***************************************************************************)
EXTENDS Ast, Token, Integers, Sequences

CONSTANTS
  NUL, Inputs,   (* See Lexer.                                             *)
  IntSize        (* See Objects.                                           *)

ASSUME ParserAssumption == IntSize \in Nat \ {0}

VARIABLES
  p,        (* The tokens that p.l returns and how many it has returned,    *)
            (* p.curToken and p.peekToken                                  *)
  todo,     (* The calls that have not returned, the innermost first.      *)
  value,    (* What the last of them returned.                             *)
  failed    (* len(p.errors) > 0                                           *)

vars == <<p, todo, value, failed>>

L == INSTANCE Lexer WITH l <- [input |-> "", position |-> 0], tok <- Token("", ""), start <- 0, MaxPast <- 0

(* The parser's lexer.  What NextToken returns depends on the text alone,  *)
(* so its tokens are listed once and for all; behind them it is EOF.       *)
NextToken(q) ==
  [tokens |-> q.tokens, read |-> q.read + 1, curToken |-> q.peekToken,
   peekToken |-> IF q.read < Len(q.tokens) THEN q.tokens[q.read + 1] ELSE Token(EOF, "")]

Twice(q) == NextToken(NextToken(q))

New(tokens) ==
  Twice([tokens |-> tokens, read |-> 0, curToken |-> Token("", ""), peekToken |-> Token("", "")])

cur  == p.curToken.Type
peek == p.peekToken.Type

-----------------------------------------------------------------------------
(* Precedences.  The tokens of the table are those with an infix function. *)
LOWEST == 1
EQUALS == 2
LESSGREATER == 3
SUM == 4
PRODUCT == 5
PREFIX == 6
CALL == 7
INDEX == 8

presedences ==
  [t \in {"==", "!=", "<", ">", "+", "-", "/", "*", "(", "["} |->
     CASE t \in {"==", "!="} -> EQUALS [] t \in {"<", ">"} -> LESSGREATER
       [] t \in {"+", "-"} -> SUM [] t \in {"/", "*"} -> PRODUCT
       [] t = "(" -> CALL [] t = "[" -> INDEX]

Precedence(t) == IF t \in DOMAIN presedences THEN presedences[t] ELSE LOWEST

(* The tokens with a prefix function.                                      *)
prefixParseFns ==
  {IDENT, INT, "!", "-", "TRUE", "FALSE", "(", "IF", "FUNCTION", STRING_, "[", "{"}

-----------------------------------------------------------------------------
(* strconv.ParseInt in base 0: a literal that begins with 0 is octal.      *)
DigitValue == [d \in L!Digits |->
  CHOOSE n \in 0..9 : d = <<"0", "1", "2", "3", "4", "5", "6", "7", "8", "9">>[n + 1]]

Base(literal) == IF Len(literal) > 1 /\ L!CharAt(literal, 0) = "0" THEN 8 ELSE 10

ParseInt(literal) ==
  LET upTo[n \in 0..Len(literal)] ==
        IF n = 0 THEN 0
        ELSE Base(literal) * upTo[n - 1] + DigitValue[L!CharAt(literal, n - 1)]
  IN  upTo[Len(literal)]

Parses(literal) ==
  /\ \A n \in 0..Len(literal) - 1 : DigitValue[L!CharAt(literal, n)] < Base(literal)
  /\ ParseInt(literal) < IntSize \div 2

-----------------------------------------------------------------------------
(* The items of todo.                                                      *)
Item(what)             == [do |-> what]
Loop(what, done)       == [do |-> what, done |-> done]
Expression(precedence) == [do |-> "expression", precedence |-> precedence]
Infix(precedence)      == [do |-> "infix", precedence |-> precedence]
(* The node that is returned once its missing part is known.               *)
Fill(node, field)      == [do |-> "fill", node |-> node, field |-> field]
With(what, node)       == [do |-> what, node |-> node]

nil == NoAlternative

Doing(what) == todo # <<>> /\ Head(todo).do = what
item == Head(todo)

(* Go on with calls, return a value, or record an error and return nil; q  *)
(* is the parser then.                                                     *)
Calls(q, items) ==
  p' = q /\ todo' = items \o Tail(todo) /\ UNCHANGED <<value, failed>>

Returns(q, v) == p' = q /\ todo' = Tail(todo) /\ value' = v /\ UNCHANGED failed

(* Mutant: nobody is told.                                                 *)
FailsSilently(q) == Returns(q, nil)

Fails(q) == p' = q /\ todo' = Tail(todo) /\ value' = nil /\ failed' = TRUE

(* expectPeek(t), and what follows if it is there: q is the parser before. *)
Expects(q, t) == q.peekToken.Type = t

-----------------------------------------------------------------------------
(* Statements.                                                             *)

(* Mutant: on to the next token only if there is a statement.              *)
AppendOnlyStatements ==
  /\ Doing("append")
  /\ IF value.kind = "nil LetStatement" THEN Calls(p, <<item.node>>)
     ELSE Calls(NextToken(p), <<[item.node EXCEPT !.done = Append(@, value)]>>)

(* The statement is never nil: a let that failed is a nil pointer, but not *)
(* a nil interface.                                                        *)
AppendStatement ==
  Doing("append") /\ Calls(NextToken(p), <<[item.node EXCEPT !.done = Append(@, value)]>>)

Statements(end, node) ==
  IF cur \in end THEN Returns(p, node)
  ELSE Calls(p, <<Item("statement"), With("append", item)>>)

ParseProgram == Doing("program") /\ Statements({EOF}, Program(item.done))

(* Its first NextToken is taken by the caller.                             *)
ParseBlockStatement == Doing("block") /\ Statements({"}", EOF}, BlockStatement(item.done))

NilLet == [kind |-> "nil LetStatement"]

FailsLet(q) == p' = q /\ todo' = Tail(todo) /\ value' = NilLet /\ failed' = TRUE

ParseLetStatement ==
  /\ Doing("statement") /\ cur = "LET"
  /\ LET q == NextToken(p)
     IN  IF ~Expects(p, IDENT) THEN FailsLet(p)
         ELSE IF ~Expects(q, "=") THEN FailsLet(q)
         ELSE Calls(Twice(q), <<Expression(LOWEST),
                     With("end statement", LetStatement(q.curToken.Literal, nil))>>)

ParseReturnStatement ==
  /\ Doing("statement") /\ cur = "RETURN"
  /\ Calls(NextToken(p), <<Expression(LOWEST), With("end statement", ReturnStatement(nil))>>)

ParseExpressionStatement ==
  /\ Doing("statement") /\ cur \notin {"LET", "RETURN"}
  /\ Calls(p, <<Expression(LOWEST), With("end statement", ExpressionStatement(nil))>>)

(* Mutant: whatever follows is taken for the semicolon.                    *)
EndStatementSkips ==
  Doing("end statement") /\ Returns(NextToken(p), [item.node EXCEPT !.Expr = value])

EndStatement ==
  /\ Doing("end statement")
  /\ Returns(IF peek = ";" THEN NextToken(p) ELSE p, [item.node EXCEPT !.Expr = value])

-----------------------------------------------------------------------------
(* Expressions.                                                            *)
ParseExpression ==
  /\ Doing("expression")
  /\ IF cur \notin prefixParseFns THEN Fails(p)
     ELSE Calls(p, <<Item("prefix"), Infix(item.precedence)>>)

(* The loop over what follows the expression in value.                     *)
ParseInfix ==
  /\ Doing("infix")
  /\ IF peek # ";" /\ item.precedence < Precedence(peek)
     THEN Calls(NextToken(p), <<With("operator", value), item>>)
     ELSE Calls(p, <<>>)

Prefix(types) == Doing("prefix") /\ cur \in types

ParseIdentifier == Prefix({IDENT}) /\ Returns(p, Identifier(p.curToken.Literal))

ParseIntegerLiteral ==
  /\ Prefix({INT})
  /\ IF Parses(p.curToken.Literal) THEN Returns(p, IntegerLiteral(ParseInt(p.curToken.Literal)))
                                   ELSE Fails(p)

ParseBoolean == Prefix({"TRUE", "FALSE"}) /\ Returns(p, Boolean(cur = "TRUE"))

ParseStringLiteral == Prefix({STRING_}) /\ Returns(p, StringLiteral(p.curToken.Literal))

ParsePrefixExpression ==
  /\ Prefix({"!", "-"})
  /\ Calls(NextToken(p), <<Expression(PREFIX), Fill(PrefixExpression(cur, nil), "Right")>>)

ParseGroupedExpression ==
  Prefix({"("}) /\ Calls(NextToken(p), <<Expression(LOWEST), Item("grouped")>>)

(* Mutant: the closing parenthesis may be missing.                         *)
EndGroupedUnclosed ==
  Doing("grouped") /\ Returns(IF Expects(p, ")") THEN NextToken(p) ELSE p, value)

EndGroupedExpression ==
  /\ Doing("grouped")
  /\ IF Expects(p, ")") THEN Returns(NextToken(p), value) ELSE Fails(p)

(* Mutant: operators of one precedence associate to the right.             *)
RightOperandAbove(t) == Precedence(t) - 1

RightOperand(t) == Precedence(t)

ParseInfixExpression ==
  /\ Doing("operator") /\ cur \notin {"(", "["}
  /\ Calls(NextToken(p), <<Expression(RightOperand(cur)),
                           Fill(InfixExpression(item.node, cur, nil), "Right")>>)

ParseIndexExpression ==
  /\ Doing("operator") /\ cur = "["
  /\ Calls(NextToken(p), <<Expression(LOWEST), With("index", item.node)>>)

EndIndexExpression ==
  /\ Doing("index")
  /\ IF Expects(p, "]") THEN Returns(NextToken(p), IndexExpression(item.node, value))
                        ELSE Fails(p)

(* return expression, once its last part has been set.                     *)
EndExpression == Doing("fill") /\ Returns(p, [item.node EXCEPT ![item.field] = value])

-----------------------------------------------------------------------------
(* parseExpressionList, for the field of node.                             *)
List(end, node, field) ==
  [do |-> "list", end |-> end, node |-> node, field |-> field]

StartList(list) ==
  IF peek = list.end THEN Returns(NextToken(p), list.node)
                     ELSE Calls(NextToken(p), <<Expression(LOWEST), list>>)

ParseArrayLiteral == Prefix({"["}) /\ StartList(List("]", ArrayLiteral(<<>>), "Elements"))

ParseCallExpression ==
  /\ Doing("operator") /\ cur = "("
  /\ StartList(List(")", CallExpression(item.node, <<>>), "Arguments"))

(* A list without its end is nil, which is an empty slice; its node is     *)
(* returned all the same.                                                  *)
ParseExpressionList ==
  /\ Doing("list")
  /\ LET list == List(item.end, [item.node EXCEPT ![item.field] = Append(@, value)], item.field)
     IN  IF peek = "," THEN Calls(Twice(p), <<Expression(LOWEST), list>>)
         ELSE IF Expects(p, item.end) THEN Returns(NextToken(p), list.node)
         ELSE /\ p' = p /\ todo' = Tail(todo) /\ failed' = TRUE
              /\ value' = [item.node EXCEPT ![item.field] = <<>>]

ParseHashLiteral == Prefix({"{"}) /\ Calls(p, <<Loop("pairs", <<>>)>>)

ParsePairs ==
  /\ Doing("pairs")
  /\ IF peek = "}" THEN Returns(NextToken(p), HashLiteral(item.done))
     ELSE Calls(NextToken(p), <<Expression(LOWEST), Loop("key", item.done)>>)

ParseKey ==
  /\ Doing("key")
  /\ IF Expects(p, ":") THEN Calls(Twice(p), <<Expression(LOWEST),
                                     Loop("pair", Append(item.done, value))>>)
                        ELSE Fails(p)

(* done ends with the key; a comma may stand before the brace.             *)
ParsePair ==
  /\ Doing("pair")
  /\ LET n == Len(item.done)
         pairs == [item.done EXCEPT ![n] = <<@, value>>]
     IN  IF peek = "}" THEN Calls(p, <<Loop("pairs", pairs)>>)
         ELSE IF Expects(p, ",") THEN Calls(NextToken(p), <<Loop("pairs", pairs)>>)
         ELSE Fails(p)

-----------------------------------------------------------------------------
(* Conditionals and functions.                                             *)
ParseIfExpression ==
  /\ Prefix({"IF"})
  /\ IF Expects(p, "(") THEN Calls(Twice(p), <<Expression(LOWEST), Item("condition")>>)
                        ELSE Fails(p)

ParseConsequence ==
  /\ Doing("condition")
  /\ LET q == NextToken(p)
     IN  IF ~Expects(p, ")") THEN Fails(p)
         ELSE IF ~Expects(q, "{") THEN Fails(q)
         ELSE Calls(Twice(q), <<Loop("block", <<>>), With("consequence", value)>>)

ParseAlternative ==
  /\ Doing("consequence")
  /\ LET node == IfExpression(item.node, value, NoAlternative)
         q == NextToken(p)
     IN  IF peek # "ELSE" THEN Returns(p, node)
         ELSE IF ~Expects(q, "{") THEN Fails(q)
         ELSE Calls(Twice(q), <<Loop("block", <<>>), Fill(node, "Alternative")>>)

ParseFunctionLiteral ==
  /\ Prefix({"FUNCTION"})
  /\ LET q == NextToken(p)
     IN  IF ~Expects(p, "(") THEN Fails(p)
         ELSE IF q.peekToken.Type = ")" THEN Calls(NextToken(q), <<Loop("body", <<>>)>>)
         ELSE Calls(NextToken(q), <<Loop("parameters", <<>>)>>)

(* Whatever token is there is a parameter; a list without its end is nil,  *)
(* and the function goes on.                                               *)
ParseFunctionParameters ==
  /\ Doing("parameters")
  /\ LET parameters == Append(item.done, p.curToken.Literal)
     IN  IF peek = "," THEN Calls(Twice(p), <<Loop("parameters", parameters)>>)
         ELSE IF Expects(p, ")") THEN Calls(NextToken(p), <<Loop("body", parameters)>>)
         ELSE /\ p' = p /\ todo' = <<Loop("body", <<>>)>> \o Tail(todo)
              /\ failed' = TRUE /\ UNCHANGED value

ParseFunctionBody ==
  /\ Doing("body")
  /\ IF ~Expects(p, "{") THEN Fails(p)
     ELSE Calls(Twice(p), <<Loop("block", <<>>), Fill(FunctionLiteral(item.done, nil), "Body")>>)

-----------------------------------------------------------------------------
Start(input) ==
  /\ p = New(L!Tokens(input))
  /\ todo = <<Loop("program", <<>>)>> /\ value = Program(<<>>) /\ failed = FALSE

Init == \E input \in Inputs : Start(input)

Next ==
  \/ ParseProgram
  \/ ParseBlockStatement
  \/ AppendStatement
  \/ ParseLetStatement
  \/ ParseReturnStatement
  \/ ParseExpressionStatement
  \/ EndStatement
  \/ ParseExpression
  \/ ParseInfix
  \/ ParseIdentifier
  \/ ParseIntegerLiteral
  \/ ParseBoolean
  \/ ParseStringLiteral
  \/ ParsePrefixExpression
  \/ ParseGroupedExpression
  \/ EndGroupedExpression
  \/ ParseInfixExpression
  \/ ParseIndexExpression
  \/ EndIndexExpression
  \/ EndExpression
  \/ ParseArrayLiteral
  \/ ParseCallExpression
  \/ ParseExpressionList
  \/ ParseHashLiteral
  \/ ParsePairs
  \/ ParseKey
  \/ ParsePair
  \/ ParseIfExpression
  \/ ParseConsequence
  \/ ParseAlternative
  \/ ParseFunctionLiteral
  \/ ParseFunctionParameters
  \/ ParseFunctionBody

Parsed == todo = <<>>

(* ParseProgram runs until it returns.                                     *)
Spec == Init /\ [][Next]_vars /\ WF_vars(Next)

-----------------------------------------------------------------------------
(* Where something is missing from the tree there is an error, so that a   *)
(* program without errors can be compiled: no call returns nil, or a node  *)
(* with nil in it, unless an error has been recorded (parser.go:112-449,   *)
(* where every return of nil relies on a callee to have recorded it).      *)
NoHoles ==
  ~failed =>
    /\ value.kind \notin {nil.kind, NilLet.kind}
    /\ \A f \in DOMAIN value \cap {"Expr", "Left", "Right", "Index", "Condition",
                                   "Consequence", "Body", "Function"} : value[f] # nil

(* Parsing ends, whatever the text is: every loop takes a token or leaves. *)
EveryTextParsed == <>Parsed
=============================================================================
