----------------------------- MODULE LexerProofs -----------------------------
(***************************************************************************)
(* Every token is the longest that begins where it does, for every text.   *)
(***************************************************************************)
EXTENDS Lexer, ProofBasics

(* A loop that stops in B stops at the first place in B.                   *)
LEMMA FirstStop ==
  ASSUME NEW B, B \subseteq Nat, NEW i \in Nat, NEW n \in Nat, i + n \in B
  PROVE  \E j \in i..i + n : j \in B /\ \A k \in i..j - 1 : k \notin B
<1>. DEFINE T == {j \in B : j >= i}
<1>1. T \subseteq Nat /\ i + n \in T
  <2>1. i + n >= i /\ i + n \in Nat
    OBVIOUS
  <2>. QED BY <2>1
<1>2. PICK j \in T : \A k \in T : j <= k
  BY <1>1, LeastNumber
<1>3. j \in i..i + n /\ j \in B /\ j \in Nat
  BY <1>1, <1>2
<1>4. ASSUME NEW k \in i..j - 1 PROVE k \notin B
  <2>1. k >= i /\ k \in Int /\ ~(j <= k)
    BY <1>3
  <2>. QED BY <1>2, <2>1
<1>. QED BY <1>3, <1>4

(* Behind the end there is nothing but NUL (readChar, lexer.go:62-66).     *)
LEMMA BehindTheEnd ==
  ASSUME NEW input, Len(input) \in Nat, NEW i \in Nat
  PROVE  CharAt(input, i + Len(input)) = NUL
<1>1. ~(i + Len(input) < Len(input))
  OBVIOUS
<1>. QED BY <1>1 DEF CharAt

(* The loops of readIdentifier, readNumber and skipWhitespace stop, where  *)
(* their characters do.                                                    *)
LEMMA WhileStops ==
  ASSUME NEW input, Len(input) \in Nat, NEW i \in Nat, NEW chars, NUL \notin chars
  PROVE  /\ While(input, i, chars) \in Nat /\ While(input, i, chars) >= i
         /\ CharAt(input, While(input, i, chars)) \notin chars
         /\ \A k \in i..While(input, i, chars) - 1 : CharAt(input, k) \in chars
<1>. DEFINE B == {j \in Nat : CharAt(input, j) \notin chars}
            n == Len(input)
            Stop(j) == /\ CharAt(input, j) \notin chars
                       /\ \A k \in i..j - 1 : CharAt(input, k) \in chars
<1>1. i + n \in B
  BY BehindTheEnd
<1>2. PICK j \in i..i + n : j \in B /\ \A k \in i..j - 1 : k \notin B
  BY <1>1, FirstStop
<1>3. Stop(j)
  <2>1. \A k \in i..j - 1 : k \in Nat
    OBVIOUS
  <2>. QED BY <1>2, <2>1
<1>. DEFINE w == CHOOSE x \in i..i + n : Stop(x)
<1>4. w \in i..i + n /\ Stop(w)
  BY <1>3
<1>5. While(input, i, chars) = w
  BY DEF While
<1>. HIDE DEF w
<1>6. w \in Nat /\ w >= i
  BY <1>4
<1>. QED BY <1>4, <1>5, <1>6

(* readString stops at the next quote or at the end.                       *)
LEMMA StringStops ==
  ASSUME NEW input, Len(input) \in Nat, NEW i \in Nat
  PROVE  /\ EndOfString(input, i) \in Nat /\ EndOfString(input, i) >= i
         /\ CharAt(input, EndOfString(input, i)) \in {Quote, NUL}
         /\ \A k \in i..EndOfString(input, i) - 1 : CharAt(input, k) \notin {Quote, NUL}
<1>. DEFINE B == {j \in Nat : CharAt(input, j) \in {Quote, NUL}}
            n == Len(input)
            Stop(j) == /\ CharAt(input, j) \in {Quote, NUL}
                       /\ \A k \in i..j - 1 : CharAt(input, k) \notin {Quote, NUL}
<1>1. i + n \in B
  BY BehindTheEnd
<1>2. PICK j \in i..i + n : j \in B /\ \A k \in i..j - 1 : k \notin B
  BY <1>1, FirstStop
<1>3. Stop(j)
  <2>1. \A k \in i..j - 1 : k \in Nat
    OBVIOUS
  <2>. QED BY <1>2, <2>1
<1>. DEFINE w == CHOOSE x \in i..i + n : Stop(x)
<1>4. w \in i..i + n /\ Stop(w)
  BY <1>3
<1>5. EndOfString(input, i) = w
  BY DEF EndOfString
<1>. HIDE DEF w
<1>6. w \in Nat /\ w >= i
  BY <1>4
<1>. QED BY <1>4, <1>5, <1>6

-----------------------------------------------------------------------------
(* No character begins tokens of two kinds.                                *)
LEMMA KindsDisjoint ==
  /\ Letters \cap Digits = {} /\ Letters \cap (Operators \cup Delimiters) = {}
  /\ Digits \cap (Operators \cup Delimiters) = {}
  /\ Quote \notin Letters \cup Digits \cup Operators \cup Delimiters
  /\ {"=", "!"} \subseteq Operators
BY DEF Letters, Digits, Operators, Delimiters, Quote

(* The longest token at a, and no other, ends at b.                        *)
Longest(input, a, b, type) ==
  /\ Lexeme(input, a, b, type)
  /\ \A t \in TokenTypes : \A c \in Int : c > b => ~Lexeme(input, a, c, t)

(* What a token can be, by its first character.                            *)
LEMMA ByFirstCharacter ==
  ASSUME NEW input, NEW a \in Nat, NEW b \in Int, NEW type, Lexeme(input, a, b, type)
  PROVE  LET c == CharAt(input, a) IN
         \/ c \in Digits /\ \A k \in a..b - 1 : CharAt(input, k) \in Digits
         \/ c \in Letters /\ \A k \in a..b - 1 : CharAt(input, k) \in Letters
         \/ c \in {"=", "!"} /\ CharAt(input, a + 1) = "=" /\ b = a + 2
         \/ c \in Operators \cup Delimiters /\ b = a + 1
         \/ /\ c = Quote /\ b - a >= 2
            /\ \A k \in a + 1..b - 2 : CharAt(input, k) \notin {Quote, NUL}
         \/ c = NUL /\ b = a + 1
         \/ /\ b = a + 1
            /\ c \notin {Quote, NUL} \cup Letters \cup Digits \cup Operators \cup Delimiters \cup Whitespace
<1>1. a < b => a \in a..b - 1
  OBVIOUS
<1>. HIDE DEF Letters, Digits, Operators, Delimiters, Quote, Whitespace
<1>. QED BY <1>1 DEF Lexeme

(* No token goes on behind a character that its kind excludes.             *)
LEMMA NoneLonger ==
  ASSUME NEW input, NEW a \in Nat, NEW b \in Nat, NEW c \in Int, NEW type,
         a < b, c > b, Lexeme(input, a, c, type)
  PROVE  LET d == CharAt(input, a) IN
         \/ d \in Digits /\ CharAt(input, b) \in Digits
         \/ d \in Letters /\ CharAt(input, b) \in Letters
         \/ d \in {"=", "!"} /\ CharAt(input, a + 1) = "=" /\ b = a + 1
         \/ d = Quote /\ (b = a + 1 \/ CharAt(input, b - 1) \notin {Quote, NUL})
<1>1. b \in a..c - 1 /\ (b - 1 >= a + 1 => b - 1 \in a + 1..c - 2) /\ b >= a + 1
      /\ c # a + 1 /\ (c = a + 2 => b = a + 1)
  OBVIOUS
<1>2. b = a + 1 \/ b - 1 >= a + 1
  OBVIOUS
<1>. HIDE DEF Letters, Digits, Operators, Delimiters, Quote, Whitespace
<1>. QED BY <1>1, <1>2, ByFirstCharacter

(* NextToken's switch takes the longest token, whatever the character it   *)
(* switches on (lexer.go:31-60, 68-156).                                   *)
LEMMA SwitchTakesLongest ==
  ASSUME NEW input, Len(input) \in Nat, NEW i \in Nat, CharAt(input, i) \notin Whitespace
  PROVE  /\ ReadToken(input, i).next \in Nat
         /\ Longest(input, i, ReadToken(input, i).next, ReadToken(input, i).tok.Type)
<1>. DEFINE c == CharAt(input, i)
            r == ReadToken(input, i)
            q == EndOfString(input, i + 1)
            w == While(input, i, Letters)
            n == While(input, i, Digits)
<1>0. NUL \notin {Quote} \cup Letters \cup Digits \cup Whitespace \cup Operators \cup Delimiters
  BY LexerAssumption
<1>. HIDE DEF Letters, Digits, Operators, Delimiters, Quote, Whitespace
<1>1. CASE Paired(input, i)
  <2>1. c \in {"=", "!"} /\ CharAt(input, i + 1) = "="
    BY <1>1 DEF Paired
  <2>2. r.next = i + 2 /\ r.tok.Type = IF c = "=" THEN EQ ELSE NOT_EQ
    BY <1>1 DEF ReadToken, Token
  <2>3. Lexeme(input, i, i + 2, r.tok.Type)
    BY <2>1, <2>2 DEF Lexeme, EQ, NOT_EQ
  <2>4. ASSUME NEW t, NEW b \in Int, b > i + 2 PROVE ~Lexeme(input, i, b, t)
    <3>1. i + 2 \in Nat /\ i < i + 2 /\ i + 2 # i + 1
      OBVIOUS
    <3>. QED BY <2>1, <2>4, <3>1, NoneLonger, KindsDisjoint
  <2>. QED BY <2>2, <2>3, <2>4 DEF Longest
<1>2. CASE ~Paired(input, i) /\ c \in Operators \cup Delimiters
  <2>2. r.next = i + 1 /\ r.tok.Type = c
    BY <1>2 DEF ReadToken, Token
  <2>3. Lexeme(input, i, i + 1, c)
    BY <1>2 DEF Lexeme
  <2>4. ASSUME NEW t, NEW b \in Int, b > i + 1 PROVE ~Lexeme(input, i, b, t)
    <3>1. i + 1 \in Nat /\ i < i + 1
      OBVIOUS
    <3>. QED BY <1>2, <2>4, <3>1, NoneLonger, KindsDisjoint DEF Paired
  <2>. QED BY <2>2, <2>3, <2>4 DEF Longest
<1>3. CASE ~Paired(input, i) /\ c = Quote
  <2>0. c \notin Operators \cup Delimiters
    BY <1>3, KindsDisjoint
  <2>1. /\ q \in Nat /\ q >= i + 1 /\ CharAt(input, q) \in {Quote, NUL}
        /\ \A k \in i + 1..q - 1 : CharAt(input, k) \notin {Quote, NUL}
    <3>1. i + 1 \in Nat
      OBVIOUS
    <3>. QED BY <3>1, StringStops
  <2>2. r.next = q + 1 /\ r.tok.Type = STRING_
    BY <1>3, <2>0 DEF ReadToken, Token
  <2>. HIDE DEF q
  <2>3. q + 1 - i >= 2 /\ (q + 1) - 1 = q /\ (q + 1) - 2 = q - 1 /\ i < q + 1 /\ q + 1 # i + 1 /\ q + 1 \in Nat
    BY <2>1
  <2>4. Lexeme(input, i, q + 1, STRING_)
    BY <1>3, <2>1, <2>3 DEF Lexeme
  <2>5. ASSUME NEW t, NEW b \in Int, b > q + 1 PROVE ~Lexeme(input, i, b, t)
    BY <1>3, <2>1, <2>3, <2>5, NoneLonger, KindsDisjoint
  <2>. QED BY <2>2, <2>3, <2>4, <2>5 DEF Longest
<1>4. CASE ~Paired(input, i) /\ c = NUL
  <2>2. r.next = i + 1 /\ r.tok.Type = EOF
    BY <1>0, <1>4 DEF ReadToken, Token
  <2>3. Lexeme(input, i, i + 1, EOF)
    BY <1>4 DEF Lexeme
  <2>4. ASSUME NEW t, NEW b \in Int, b > i + 1 PROVE ~Lexeme(input, i, b, t)
    <3>1. i + 1 \in Nat /\ i < i + 1
      OBVIOUS
    <3>. QED BY <1>0, <1>4, <2>4, <3>1, NoneLonger, KindsDisjoint
  <2>. QED BY <2>2, <2>3, <2>4 DEF Longest
<1>5. CASE c \in Letters
  <2>0. c \notin Operators \cup Delimiters /\ c # Quote /\ c # NUL /\ c \notin Digits
    BY <1>0, <1>5, KindsDisjoint
  <2>1. /\ w \in Nat /\ w >= i /\ CharAt(input, w) \notin Letters
        /\ \A k \in i..w - 1 : CharAt(input, k) \in Letters
    BY <1>0, WhileStops
  <2>2. r.next = w /\ r.tok.Type = LookupIndent(Slice(input, i, w))
    BY <1>5, <2>0, KindsDisjoint DEF ReadToken, Token, Paired
  <2>. HIDE DEF w
  <2>3. i < w
    BY <1>5, <2>1
  <2>4. r.tok.Type \in {IDENT} \cup {keywords[k] : k \in DOMAIN keywords}
    BY <2>2 DEF LookupIndent
  <2>5. Lexeme(input, i, w, r.tok.Type)
    BY <2>1, <2>3, <2>4 DEF Lexeme
  <2>6. ASSUME NEW t, NEW b \in Int, b > w PROVE ~Lexeme(input, i, b, t)
    BY <2>0, <2>1, <2>3, <2>6, NoneLonger, KindsDisjoint
  <2>. QED BY <2>1, <2>2, <2>5, <2>6 DEF Longest
<1>6. CASE c \in Digits
  <2>0. c \notin Operators \cup Delimiters /\ c # Quote /\ c # NUL /\ c \notin Letters
    BY <1>0, <1>6, KindsDisjoint
  <2>1. /\ n \in Nat /\ n >= i /\ CharAt(input, n) \notin Digits
        /\ \A k \in i..n - 1 : CharAt(input, k) \in Digits
    BY <1>0, WhileStops
  <2>2. r.next = n /\ r.tok.Type = INT
    BY <1>6, <2>0, KindsDisjoint DEF ReadToken, Token, Paired
  <2>. HIDE DEF n
  <2>3. i < n
    BY <1>6, <2>1
  <2>5. Lexeme(input, i, n, INT)
    BY <2>1, <2>3 DEF Lexeme
  <2>6. ASSUME NEW t, NEW b \in Int, b > n PROVE ~Lexeme(input, i, b, t)
    BY <2>0, <2>1, <2>3, <2>6, NoneLonger, KindsDisjoint
  <2>. QED BY <2>1, <2>2, <2>5, <2>6 DEF Longest
<1>7. CASE c \notin {Quote, NUL} \cup Letters \cup Digits \cup Operators \cup Delimiters
  <2>2. r.next = i + 1 /\ r.tok.Type = ILLEGAL
    BY <1>7, KindsDisjoint DEF ReadToken, Token, Paired
  <2>3. Lexeme(input, i, i + 1, ILLEGAL)
    BY <1>7 DEF Lexeme
  <2>4. ASSUME NEW t, NEW b \in Int, b > i + 1 PROVE ~Lexeme(input, i, b, t)
    <3>1. i + 1 \in Nat /\ i < i + 1
      OBVIOUS
    <3>. QED BY <1>7, <2>4, <3>1, NoneLonger, KindsDisjoint
  <2>. QED BY <2>2, <2>3, <2>4 DEF Longest
<1>. QED BY <1>1, <1>2, <1>3, <1>4, <1>5, <1>6, <1>7

-----------------------------------------------------------------------------
(* A lexer is its text and a position in it or behind it.                  *)
LInv == \E input \in Inputs : \E i \in Nat : l = [input |-> input, position |-> i]

(* What one call of NextToken does to a lexer.                             *)
LEMMA CallTakesLongest ==
  ASSUME LInv, Next
  PROVE  /\ LInv'
         /\ \A k \in l.position..start' - 1 : CharAt(l.input, k) \in Whitespace
         /\ l'.position \in Nat
         /\ Longest(l.input, start', l'.position, tok'.Type)
<1>1. PICK input \in Inputs, i \in Nat : l = [input |-> input, position |-> i]
  BY DEF LInv
<1>. DEFINE s == While(input, i, Whitespace)
            r == ReadToken(input, s)
<1>2. Len(input) \in Nat /\ NUL \notin Whitespace
  BY <1>1, LexerAssumption
<1>3. /\ s \in Nat /\ CharAt(input, s) \notin Whitespace
      /\ \A k \in i..s - 1 : CharAt(input, k) \in Whitespace
  BY <1>2, WhileStops
<1>4. r.next \in Nat /\ Longest(input, s, r.next, r.tok.Type)
  BY <1>2, <1>3, SwitchTakesLongest
<1>5. start' = s /\ tok' = r.tok /\ l' = [input |-> input, position |-> r.next]
  BY <1>1 DEF Next, NextToken, SkipWhitespace
<1>. HIDE DEF s, r
<1>6. LInv'
  BY <1>4, <1>5 DEF LInv
<1>. QED BY <1>1, <1>3, <1>4, <1>5, <1>6

(* A call of NextToken skips whitespace only, and takes the longest token  *)
(* that begins where it stops: for every text, of any length               *)
(* (lexer.go:31-60, 68-156).                                               *)
THEOREM TokensAreLongest == Spec => LongestMatch
<1>1. Init => LInv
  BY DEF Init, New, LInv
<1>2. LInv /\ [Next]_vars => LInv'
  BY CallTakesLongest DEF LInv, vars
<1>. DEFINE Step == /\ \A k \in l.position..start' - 1 : CharAt(l.input, k) \in Whitespace
                    /\ Lexeme(l.input, start', l'.position, tok'.Type)
                    /\ \A type \in TokenTypes : \A b \in l'.position + 1..Len(l.input) + 1 :
                         ~Lexeme(l.input, start', b, type)
<1>3. LInv /\ [Next]_vars => [Step]_vars
  <2>. SUFFICES ASSUME LInv, Next PROVE Step
    BY DEF vars
  <2>1. ASSUME NEW b \in l'.position + 1..Len(l.input) + 1 PROVE b \in Int /\ b > l'.position
    <3>1. l'.position \in Nat
      BY CallTakesLongest
    <3>. QED BY <2>1, <3>1
  <2>. QED BY <2>1, CallTakesLongest DEF Longest
<1>. QED BY <1>1, <1>2, <1>3, PTL DEF Spec, LongestMatch
==============================================================================
