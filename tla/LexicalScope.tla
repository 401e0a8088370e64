---------------------------- MODULE LexicalScope ----------------------------
(***************************************************************************)
(* What the compiler's symbol table promises, with no table in it: lexical *)
(* scoping.  A program text opens and closes function bodies, declares     *)
(* names and looks names up.  A look-up answers with the declaration that  *)
(* the innermost open body makes of the name, whatever happened in other   *)
(* bodies in between.                                                      *)
(*                                                                         *)
(* A declaration is named by the body it stands in and its rank there:     *)
(* <<k, i>> is the i-th declaration (from 0) of the k-th open body, body 1 *)
(* being the top level of the program, and body 0 the language itself,     *)
(* which declares the built-in functions.                                  *)
(***************************************************************************)
EXTENDS Integers, Sequences, FiniteSetsExt

CONSTANTS
  Names,          (* The identifiers of the program.                       *)
  BuiltinNames    (* The built-in functions, in order of their index.      *)

VARIABLES
  bodies,   (* The open bodies, outermost first: what each name stands     *)
            (* for there and how many declarations the body has made.      *)
  answer    (* What the last look-up found; NoAnswer after other steps.    *)

NoAnswer == <<>>
NotFound == <<"not found">>

EmptyBody == [meaning |-> [n \in {} |-> NoAnswer], declared |-> 0]

(* The top level starts out knowing the built-in functions.                *)
Language ==
  [EmptyBody EXCEPT !.meaning =
    [n \in {BuiltinNames[i] : i \in DOMAIN BuiltinNames} |->
       <<0, (CHOOSE i \in DOMAIN BuiltinNames : BuiltinNames[i] = n) - 1>>]]

Init == bodies = <<Language>> /\ answer = NoAnswer

Here == Len(bodies)

Declare(n) ==
  /\ bodies' = [bodies EXCEPT
       ![Here] = [meaning  |-> [m \in DOMAIN @.meaning \cup {n} |->
                                  IF m = n THEN <<Here, @.declared>> ELSE @.meaning[m]],
                  declared |-> @.declared + 1]]
  /\ answer' = NoAnswer

LookUp(n) ==
  LET knowing == {k \in 1..Here : n \in DOMAIN bodies[k].meaning}
  IN  /\ answer' = IF knowing = {} THEN NotFound
                                   ELSE bodies[Max(knowing)].meaning[n]
      /\ UNCHANGED bodies

Open  == bodies' = Append(bodies, EmptyBody) /\ answer' = NoAnswer
Close == Here > 1 /\ bodies' = SubSeq(bodies, 1, Here - 1) /\ answer' = NoAnswer

Next == (\E n \in Names : Declare(n) \/ LookUp(n)) \/ Open \/ Close

vars == <<bodies, answer>>

Spec == Init /\ [][Next]_vars
=============================================================================
