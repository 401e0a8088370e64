------------------------------- MODULE MCRepl -------------------------------
(***************************************************************************)
(* Programs and sessions to run.                                           *)
(***************************************************************************)
EXTENDS Repl, Samples

(* Two strings of one length collide, as strings may under any hash.       *)
MCStringHash(s) == Len(s)

MCKeyText(k) == CASE k.kind = "IntegerLiteral" -> k.Int
                  [] k.kind = "StringLiteral"  -> 100 + Len(k.Str)
                  [] OTHER -> 0

Str(s) == StringLiteral(s)
Line(statements) == Program(statements)
Let(n, e) == LetStatement(n, e)
Infix(x, o, y) == InfixExpression(x, o, y)
Lines(exprs) == {Line(<<Do(e)>>) : e \in exprs}

-----------------------------------------------------------------------------
(* One line on every operator, on operands of every kind.                  *)
MinusOne == PrefixExpression("-", one)
Kinds == {Lit(0), MinusOne, yes, Str(<<"x">>), ArrayLiteral(<<one, yes>>),
          HashLiteral(<<<<one, yes>>, <<Str(<<"x">>), one>>>>), Fn(<<>>, <<>>), Id("len"),
          Call(Id("first"), <<ArrayLiteral(<<>>)>>)}

Operators == {"+", "-", "*", "/", ">", "<", "==", "!="}

Operations ==
  {Infix(x, o, y) : x \in Kinds, o \in Operators, y \in Kinds}
  \cup {PrefixExpression(o, x) : o \in {"!", "-"}, x \in Kinds}
  \cup {IndexExpression(x, y) : x \in Kinds, y \in Kinds}
  \cup {HashLiteral(<<<<x, one>>, <<y, yes>>>>) : x \in Kinds, y \in Kinds}
  \cup {Call(Id(f), <<x>>) : f \in {"len", "first", "last", "rest", "puts"}, x \in Kinds}
  \cup {Call(Id("push"), <<x, one>>) : x \in Kinds}
  \cup {Call(x, <<>>) : x \in Kinds}
  \cup {Call(Id("rest"), <<ArrayLiteral(<<>>)>>), Call(Id("last"), <<ArrayLiteral(<<>>)>>),
        Infix(Str(<<"x">>), "+", Str(<<"y">>)), Infix(Lit(100), "*", Lit(2)),
        Infix(one, "/", MinusOne)}

-----------------------------------------------------------------------------
(* One line with calls: every body of the grammar, called with values      *)
(* waiting on the stack below it and beside it.                            *)
Bodies ==
  Ending({Id("a"), Plus(Id("a"), one),
          If(Id("a"), <<Do(one)>>, <<>>),
          If(Id("a"), <<ReturnStatement(one)>>, <<Do(Id("a"))>>),
          Plus(one, If(Id("g"), <<ReturnStatement(Lit(7))>>, <<>>)),
          Call(Fn(<<"c">>, <<Let("b", Lit(5)), Do(Plus(Id("c"), Plus(Id("a"), Id("b"))))>>), <<Lit(3)>>),
          Call(Call(Fn(<<"b">>, <<Do(Fn(<<"c">>, <<Do(Plus(Id("a"), Plus(Id("b"), Id("c"))))>>))>>),
                    <<one>>), <<Lit(2)>>),
          Call(Fn(<<"b">>, <<Let("a", Id("b"))>>), <<Id("a")>>)})
  \cup {<<>>, <<Let("b", Id("a"))>>,
        <<Let("b", Fn(<<"n">>, <<Do(Call(Id("b"), <<Id("n")>>))>>)), Do(Call(Id("b"), <<one>>))>>}

Uses(f) ==
  {Call(f, <<one>>), Plus(Lit(4), Call(f, <<Lit(2)>>)), Call(f, <<>>),
   ArrayLiteral(<<one, Call(f, <<yes>>), Call(f, <<one>>)>>)}

Calls ==
  {Line(<<Let("g", yes), Let("f", Fn(<<"a">>, body)), Do(use)>>) :
     body \in Bodies, use \in Uses(Id("f"))}

(* Recursion that ends, that runs out of frames, and that runs out of      *)
(* stack first; code that runs out of stack without a call, and code that  *)
(* has nothing on it to spare.                                             *)
SumTo == Fn(<<"n">>, <<Do(If(Infix(Id("n"), "<", one), <<Do(Lit(0))>>,
                             <<Do(Plus(Id("n"), Call(Id("f"), <<Infix(Id("n"), "-", one)>>)))>>))>>)
Nest(e) == ArrayLiteral(<<one, one, one, e>>)
Deep ==
  {Line(<<Let("f", SumTo), Do(Call(Id("f"), <<Lit(2)>>))>>),
   Line(<<Let("f", SumTo), Do(Call(Id("f"), <<Lit(9)>>))>>),
   Line(<<Let("f", Fn(<<>>, <<Do(Call(Id("f"), <<>>))>>)), Do(Call(Id("f"), <<>>))>>),
   Line(<<Let("f", Fn(<<>>, <<Do(Nest(Nest(Call(Id("f"), <<>>))))>>)), Do(Call(Id("f"), <<>>))>>),
   Line(<<Let("f", Fn(<<"a">>, <<Let("b", one), Let("c", one), Let("n", one),
                                 Do(Call(Id("f"), <<one>>))>>)), Do(Call(Id("f"), <<one>>))>>),
   Line(<<Do(Nest(Nest(Nest(Nest(Nest(one))))))>>),
   Line(<<Do(Plus(one, If(yes, <<Do(one)>>, <<>>)))>>), Line(<<Do(If(yes, <<Do(one)>>, <<Do(yes)>>))>>),
   Line(<<Do(Id("missing"))>>), Line(<<ReturnStatement(one)>>)}

PipelinePrograms == Lines(Operations) \cup Calls \cup Deep

-----------------------------------------------------------------------------
(* Lines of a session: they define, redefine, read and capture the same    *)
(* few names, and fail in the compiler, in the machine and in between.     *)
SessionPrograms ==
  {Line(<<Let("a", Lit(5))>>),
   Line(<<Let("a", Plus(Id("a"), one)), Do(Id("a"))>>),
   Line(<<Let("f", Fn(<<"n">>, <<Do(Plus(Id("n"), Plus(Id("a"), Lit(9))))>>))>>),
   Line(<<Do(Call(Id("f"), <<Lit(3)>>))>>),
   Line(<<Let("g", Fn(<<"n">>, <<Do(Fn(<<"b">>, <<Do(Plus(Id("n"), Id("b")))>>))>>)),
          Let("f", Call(Id("g"), <<Lit(8)>>)), Do(PrefixExpression("-", yes))>>),
   Line(<<Let("f", Fn(<<"n">>, <<Do(Str(<<"x">>))>>)), Let("a", Id("missing"))>>),
   Line(<<>>)}

-----------------------------------------------------------------------------
(* let g = fn() { let f = fn(n) { f(n) }; f(1) }; g()                      *)
LocalRecursion ==
  {Line(<<Let("g", Fn(<<>>, <<Let("f", Fn(<<"n">>, <<Do(Call(Id("f"), <<Id("n")>>))>>)),
                              Do(Call(Id("f"), <<one>>))>>)),
          Do(Call(Id("g"), <<>>))>>)}

(* A function whose locals do not fit into what is left of the stack.      *)
ManyLocals ==
  {Line(<<Do(Call(Fn(<<>>, <<Let("a", one), Let("b", one), Let("c", one), Let("n", one),
                             Do(Id("a"))>>), <<>>))>>)}

(* Lines are whole trees whose ifs end in a value, as the theorems about   *)
(* sessions ask.                                                           *)
ASSUME WholeLines ==
  \A program \in Programs :
    /\ Grammar(Subtrees(program)) /\ program.kind = "Program"
    /\ C!Valued(Subtrees(program))
=============================================================================
