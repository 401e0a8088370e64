-------------------------------- MODULE Lexer --------------------------------
(***************************************************************************)
(* lexer/lexer.go: the text of a program cut into tokens, one per call of  *)
(* NextToken.  A lexer is its input and its position, counted from 0;      *)
(* readPosition is always the next one and ch the character there, since   *)
(* readChar sets the three together.  A loop that reads characters is the  *)
(* position where it stops.                                                *)
(***************************************************************************)
EXTENDS Token, Integers, Sequences

CONSTANTS
  NUL,        (* The character 0, which strings of TLA+ cannot spell: what *)
              (* readChar finds behind the end, and may find before it.    *)
  Inputs,     (* The texts to read.                                        *)
  MaxPast     (* Bound: characters read past the end.                      *)

VARIABLES
  l,       (* The lexer.                                                   *)
  start,   (* Where the text of the last token begins.                     *)
  tok      (* The last token.                                              *)

vars == <<l, start, tok>>

New(input) == [input |-> input, position |-> 0]

Slice(input, from, to) == SubSeq(input, from + 1, to)

CharAt(input, i) == IF i < Len(input) THEN Slice(input, i, i + 1) ELSE NUL

Letters ==
  {"a", "b", "c", "d", "e", "f", "g", "h", "i", "j", "k", "l", "m",
   "n", "o", "p", "q", "r", "s", "t", "u", "v", "w", "x", "y", "z",
   "A", "B", "C", "D", "E", "F", "G", "H", "I", "J", "K", "L", "M",
   "N", "O", "P", "Q", "R", "S", "T", "U", "V", "W", "X", "Y", "Z", "_"}
Digits     == {"0", "1", "2", "3", "4", "5", "6", "7", "8", "9"}
Whitespace == {" ", "\t", "\n", "\r"}
Quote      == "\""

ASSUME LexerAssumption ==
  /\ MaxPast \in Nat
  /\ \A input \in Inputs : Len(input) \in Nat
  /\ NUL \notin {Quote} \cup Letters \cup Digits \cup Whitespace \cup Operators \cup Delimiters

(* for the character is in chars, readChar.                                *)
While(input, i, chars) ==
  CHOOSE j \in i..i + Len(input) :
    /\ CharAt(input, j) \notin chars
    /\ \A k \in i..j - 1 : CharAt(input, k) \in chars

SkipWhitespace(input, i) == While(input, i, Whitespace)

(* readString: from behind the quote to the next one, or to the end.       *)
EndOfString(input, i) ==
  CHOOSE j \in i..i + Len(input) :
    /\ CharAt(input, j) \in {Quote, NUL}
    /\ \A k \in i..j - 1 : CharAt(input, k) \notin {Quote, NUL}

(* Mutant: = and ! are always tokens of their own.                         *)
NeverPaired(input, i) == FALSE

(* == and !=                                                               *)
Paired(input, i) == CharAt(input, i) \in {"=", "!"} /\ CharAt(input, i + 1) = "="

(* The switch of NextToken: the token that begins at i and where the next  *)
(* call goes on.                                                           *)
ReadToken(input, i) ==
  LET c == CharAt(input, i)
      q == EndOfString(input, i + 1)
      w == While(input, i, Letters)
      n == While(input, i, Digits)
  IN  IF Paired(input, i)
      THEN [tok |-> Token(IF c = "=" THEN EQ ELSE NOT_EQ, Slice(input, i, i + 2)), next |-> i + 2]
      ELSE IF c \in Operators \cup Delimiters THEN [tok |-> Token(c, c), next |-> i + 1]
      ELSE IF c = Quote THEN [tok |-> Token(STRING_, Slice(input, i + 1, q)), next |-> q + 1]
      ELSE IF c = NUL THEN [tok |-> Token(EOF, ""), next |-> i + 1]
      ELSE IF c \in Letters
      THEN [tok |-> Token(LookupIndent(Slice(input, i, w)), Slice(input, i, w)), next |-> w]
      ELSE IF c \in Digits THEN [tok |-> Token(INT, Slice(input, i, n)), next |-> n]
      ELSE [tok |-> Token(ILLEGAL, c), next |-> i + 1]

(* Mutant: a character of no token is not read.                            *)
NextTokenIllegalStays(lexer) ==
  LET i == SkipWhitespace(lexer.input, lexer.position)
      r == ReadToken(lexer.input, i)
  IN  [tok |-> r.tok, start |-> i,
       lexer |-> [lexer EXCEPT !.position = IF r.tok.Type = ILLEGAL THEN i ELSE r.next]]

(* NextToken: the token it returns and the lexer it leaves.                *)
NextToken(lexer) ==
  LET i == SkipWhitespace(lexer.input, lexer.position)
      r == ReadToken(lexer.input, i)
  IN  [tok |-> r.tok, start |-> i, lexer |-> [lexer EXCEPT !.position = r.next]]

(* What the calls of NextToken return, up to the end of the input.         *)
Tokens(input) ==
  LET from[i \in 0..Len(input) + 1] ==
        LET r == NextToken([input |-> input, position |-> i])
        IN  IF r.start >= Len(input) THEN <<>> ELSE <<r.tok>> \o from[r.lexer.position]
  IN  from[0]

-----------------------------------------------------------------------------
Init ==
  /\ \E input \in Inputs : l = New(input)
  /\ start = 0 /\ tok = Token(ILLEGAL, "")

(* A caller reads token after token, past the end of the input too, as the *)
(* parser does with its token of lookahead.                                *)
Next ==
  /\ l.position <= Len(l.input) + MaxPast
  /\ LET r == NextToken(l) IN tok' = r.tok /\ start' = r.start /\ l' = r.lexer

(* A caller that goes on until the end.                                    *)
Spec == Init /\ [][Next]_vars /\ WF_vars(Next)

-----------------------------------------------------------------------------
(* What may be a token: the text of input from a up to b, by its type.     *)
(* It is a grammar: which of two readings is taken is not said here.       *)
Lexeme(input, a, b, type) ==
  LET all(chars) == a < b /\ \A k \in a..b - 1 : CharAt(input, k) \in chars
      plain(from, to) == \A k \in from..to : CharAt(input, k) \notin {Quote, NUL}
  IN  \/ type = INT /\ all(Digits)
      \/ type \in {IDENT} \cup {keywords[k] : k \in DOMAIN keywords} /\ all(Letters)
      \/ type \in {EQ, NOT_EQ} /\ b = a + 2
           /\ CharAt(input, a) = (IF type = EQ THEN "=" ELSE "!") /\ CharAt(input, a + 1) = "="
      \/ type \in Operators \cup Delimiters /\ b = a + 1 /\ CharAt(input, a) = type
      \/ type = STRING_ /\ b - a >= 2 /\ CharAt(input, a) = Quote /\ plain(a + 1, b - 2)
           /\ CharAt(input, b - 1) \in {Quote, NUL}
      \/ type = EOF /\ b = a + 1 /\ CharAt(input, a) = NUL
      \/ type = ILLEGAL /\ b = a + 1 /\ CharAt(input, a) \notin
           {Quote, NUL} \cup Letters \cup Digits \cup Operators \cup Delimiters \cup Whitespace

(* No token is missed, cut or run together with the next: a call skips     *)
(* whitespace only, and takes the longest token of the grammar that begins *)
(* where it stops (lexer.go:31-60, 68-156).                                *)
LongestMatch ==
  [][/\ \A k \in l.position..start' - 1 : CharAt(l.input, k) \in Whitespace
     /\ Lexeme(l.input, start', l'.position, tok'.Type)
     /\ \A type \in TokenTypes : \A b \in l'.position + 1..Len(l.input) + 1 :
          ~Lexeme(l.input, start', b, type)]_vars

(* The loop over the tokens of any text comes to the end of the text,      *)
(* strings without an end and characters of no token included, and then    *)
(* gets nothing but EOF (lexer.go:136, 150).                               *)
EndReached == <>[](tok.Type = EOF /\ start >= Len(l.input))
==============================================================================
