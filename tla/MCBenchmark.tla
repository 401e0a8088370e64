----------------------------- MODULE MCBenchmark -----------------------------
(***************************************************************************)
(* Programs for both engines, as texts.                                    *)
(***************************************************************************)
EXTENDS Benchmark, TLC

MCStringHash(s) == Len(s)
MCKeyText(k) == CASE k.kind = "IntegerLiteral" -> k.Int
                  [] k.kind = "StringLiteral"  -> 100 + Len(k.Str)
                  [] OTHER -> 0

(* The benchmark's own program, for a smaller number.                      *)
Fibonacci(n) ==
  "let fibonacci = fn(x) { if (x == 0) { 0 } else { if (x == 1) { return 1; } "
  \o "else { fibonacci(x - 1) + fibonacci(x - 2); } } }; fibonacci(" \o n \o ");"

(* One operator, on operands of every kind.  Left out is what the engines  *)
(* are known to answer differently: an integer compared with something     *)
(* else, two strings compared, and a built-in function given what it does  *)
(* not take (README, "The two engines").                                   *)
Integers_ == {"0", "-1"}
Others    == {"true", "[1, true]", "{1: 2, \"x\": 3}", "fn(a) { a }", "len", "if (false) { 1 }"}
Kinds     == Integers_ \cup Others \cup {"\"x\""}
Compared  == (Integers_ \X Integers_) \cup (Others \X (Others \cup {"\"x\""}))

Operations ==
  {"(" \o x \o ")" \o o \o "(" \o y \o ")" : x \in Kinds, y \in Kinds, o \in {"+", "-", "*", "/"}}
  \cup {"(" \o c[1] \o ")" \o o \o "(" \o c[2] \o ")" : c \in Compared, o \in {">", "<", "==", "!="}}
  \cup {o \o "(" \o x \o ")" : o \in {"!", "-"}, x \in Kinds}
  \cup {"(" \o x \o ")[" \o y \o "]" : x \in Kinds, y \in Kinds}
  \cup {"{(" \o x \o "): 1}" : x \in Kinds}
  \cup {f \o "(" \o x \o ")" : f \in {"first", "last", "rest", "len"}, x \in {"[]", "[1, 2]"}}
  \cup {"puts(" \o x \o ")" : x \in Kinds}
  \cup {"len(\"xx\")", "push([true], 1)"}
  \cup {"(" \o x \o ")(1)" : x \in Kinds \ {"len"}}

(* What can be wrong in one place of a larger program, and where: the      *)
(* engines stop there, or never come there.  (A name that does not exist   *)
(* is an error of the whole program for one, of its use for the other.)    *)
Faults == {"missing", "-true", "1 / 0", "1()", "[1][true]", "{[1]: 2}", "1 + true", "7"}
Places(x) ==
  {"[1, " \o x \o ", 2]", "{1: 2, " \o x \o ": 3, 4: 5}", "{1: " \o x \o "}", "[1, 2][" \o x \o "]",
   "(" \o x \o ")[0]", "(" \o x \o ")(1)", "!(" \o x \o ")", "1 + (" \o x \o ")",
   "fn(a, b) { b }(" \o x \o ", 2)", "let a = " \o x \o "; a",
   "if (" \o x \o ") { 1 } else { 2 }", "if (true) { " \o x \o "; 3 }", "fn() { return " \o x \o "; 4 }()",
   "len([" \o x \o "])"}
Unreached(x) == {"if (false) { " \o x \o " } else { 5 }", "fn() { " \o x \o " }; 6"}

(* Functions: closures over parameters and locals, two closures over one   *)
(* variable, names that are hidden, functions as arguments and as results, *)
(* returns from nested blocks, and recursion.                              *)
Functions_ ==
  {"let a = 1; let f = fn(b) { let c = a + b; fn(x) { c + x + a } }; let g = f(2); let c = 50; g(3) + f(4)(5)",
   "let f = fn(a) { fn(b) { fn(c) { [a, b, c] } } }; f(1)(2)(3)",
   "let a = 1; let f = fn() { a }; let g = fn(a) { f() + a }; g(10)",
   "let a = 1; let f = fn(b) { let a = b; let g = fn() { a }; g() + a }; f(5) + a",
   "let f = fn(g, x) { g(g(x)) }; f(fn(n) { n * 3 }, 2)",
   "let f = fn(a) { if (a > 1) { if (a > 2) { return 30; } return 20; } 10 }; [f(1), f(2), f(3)]",
   "let f = fn(n) { if (n == 0) { return 0; } n + f(n - 1) }; f(3)",
   "let f = fn(n) { f(n + 1) }; f(0)",
   "let f = fn(a, b) { {a: b, b: a} }; let g = f(1, true); [g[1], g[true], g[2], first([g])[1]]",
   "let f = fn(x) { fn() { x } }; let a = f(1); let b = f(2); [a(), b(), a()]",
   "let f = fn(x) { let n = fn(b) { x(b) }; n(4) }; f(fn(a) { a - 9 })",
   "let len = fn(a) { a + 1 }; len(1)",
   "fn(len) { len }(5)",
   "let f = fn(a) { puts(a); push(rest(a), last(a)) }; len(f([1, 2, 3])) + f([4])[0]"}

(* Three names, bound outside, by two nested functions and by lets in them *)
(* in every combination, and used in the innermost.                        *)
Lets == {"", "let a = b + 8; ", "let b = a + 16; ", "let c = a + b; "}
Nestings ==
  {"let a = 1; let b = 2; let f = fn(" \o r \o ") { " \o outer \o "fn(" \o q \o ") { " \o inner
     \o "[a, b, " \o third \o "] } }; let g = f(4); let h = f(5); [g(32), h(64), a, b]" :
     r \in {"a", "b", "c"}, q \in {"a", "b", "c"}, outer \in Lets, inner \in Lets, third \in {"a", "c"}}

MCInputs ==
  {Fibonacci("0"), Fibonacci("2"), Fibonacci("3")} \cup Operations \cup Functions_ \cup Nestings
    \cup UNION {Places(x) : x \in Faults} \cup UNION {Unreached(x) : x \in Faults \ {"missing"}}

-----------------------------------------------------------------------------
(* As many locals, arguments and captures as an operand of one byte can    *)
(* count when there are 29 bytes, one for each opcode.                     *)
Variables ==
  <<"va", "vb", "vc", "vd", "ve", "vf", "vg", "vh", "vi", "vj", "vk", "vl", "vm", "vn", "vo", "vp",
    "vq", "vr", "vs", "vt", "vu", "vv", "vw", "vx", "vy", "vz", "wa", "wb", "wc">>
Listed(n, Text(_)) ==
  LET upTo[k \in 1..n] == IF k = 1 THEN Text(1) ELSE upTo[k - 1] \o ", " \o Text(k) IN upTo[n]
Names28   == Listed(28, LAMBDA k : Variables[k])
Numbers28 == Listed(28, LAMBDA k : ToString(k))
Lets29 ==
  LET upTo[k \in 0..29] ==
        IF k = 0 THEN "" ELSE upTo[k - 1] \o "let " \o Variables[k] \o " = " \o ToString(k) \o "; "
  IN  upTo[29]

LimitInputs ==
  {"fn() { " \o Lets29 \o "[va, wb, wc] }()",
   "fn() { " \o Lets29 \o "fn(a) { a + wc + va } }()(100)",
   "fn(" \o Names28 \o ") { [va, vo, wb] }(" \o Numbers28 \o ")",
   "fn(" \o Names28 \o ") { fn() { [" \o Names28 \o "] } }(" \o Numbers28 \o ")()"}

-----------------------------------------------------------------------------
(* The same value, as the machine and as the evaluator represent it.       *)
RECURSIVE Same(_, _)
Same(v, e) ==
  CASE v.type = CLOSURE_OBJ -> e.type = FUNCTION_OBJ /\ Len(e.Parameters) = v.Fn.NumParameters
    [] v.type = STRING_OBJ  -> e.type = STRING_OBJ /\ e.str = v.str
    [] v.type = ARRAY_OBJ   -> /\ e.type = ARRAY_OBJ /\ Len(e.Elements) = Len(v.Elements)
                               /\ \A k \in DOMAIN v.Elements : Same(v.Elements[k], e.Elements[k])
    [] v.type = HASH_OBJ    -> /\ e.type = HASH_OBJ /\ DOMAIN e.Pairs = DOMAIN v.Pairs
                               /\ \A k \in DOMAIN v.Pairs : Same(v.Pairs[k].Value, e.Pairs[k].Value)
    [] OTHER -> v = e

(* The two engines give the same answer: the machine on the compiled code, *)
(* with its slots, captures and frames, computes what the evaluator does   *)
(* with environments on the tree, fails where it fails and panics where it *)
(* panics (benchmark/main.go:15, "use 'vm' or 'eval'").                    *)
EnginesAgree ==
  phase = "end" =>
    VMOutcome = EvalOutcome /\ (VMOutcome = "value" => Same(stack[sp], val))
==============================================================================
