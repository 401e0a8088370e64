-------------------------------- MODULE Token --------------------------------
(***************************************************************************)
(* token/token.go: the types of tokens, which for operators, delimiters    *)
(* and brackets are their text, and the table of keywords.  A text is a    *)
(* string, that is a sequence of characters.                               *)
(***************************************************************************)
ILLEGAL == "ILLEGAL"
EOF     == "EOF"
IDENT   == "IDENT"
INT     == "INT"
STRING_ == "STRING"

Operators  == {"=", "+", "-", "!", "*", "/", "<", ">"}
Delimiters == {",", ";", ":", "(", ")", "{", "}", "[", "]"}
EQ     == "=="
NOT_EQ == "!="

keywords ==
  [w \in {"fn", "let", "true", "false", "if", "else", "return"} |->
     CASE w = "fn"    -> "FUNCTION" [] w = "let"   -> "LET"
       [] w = "true"  -> "TRUE"     [] w = "false" -> "FALSE"
       [] w = "if"    -> "IF"       [] w = "else"  -> "ELSE"
       [] w = "return" -> "RETURN"]

TokenTypes ==
  {ILLEGAL, EOF, IDENT, INT, STRING_, EQ, NOT_EQ} \cup Operators \cup Delimiters
  \cup {keywords[w] : w \in DOMAIN keywords}

Token(type, literal) == [Type |-> type, Literal |-> literal]

LookupIndent(word) == IF word \in DOMAIN keywords THEN keywords[word] ELSE IDENT
==============================================================================
