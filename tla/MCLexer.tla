------------------------------- MODULE MCLexer -------------------------------
(***************************************************************************)
(* The lexer on every text of up to MaxLength characters of an alphabet,   *)
(* and on some with keywords.                                              *)
(***************************************************************************)
EXTENDS Lexer

CONSTANTS
  Alphabet,    (* Characters of the texts.                                 *)
  MaxLength    (* Bound: how long they are.                                *)

MCAlphabet == {"i", "f", "1", "=", "!", Quote, " ", "?", NUL}

Texts[n \in Nat] ==
  IF n = 0 THEN {""} ELSE {t \o c : t \in Texts[n - 1], c \in Alphabet \cup {""}}

MCInputs ==
  Texts[MaxLength] \cup
  {"let x=fn(a,b){return a==b}", "if(true){\"a b\"}else{!false}",
   "let_ lets fnfn(1a)", "a\t!==\r\nb ?$", "[1,{2:3}][0]<4>5*-6/7;"}
==============================================================================
