---------------------------- MODULE MCSymbolTable ----------------------------
(* The symbol table on two names, one of them a built-in function that a   *)
(* program may shadow, and functions nested three deep.                    *)
EXTENDS SymbolTable

MCBuiltinNames == <<"len">>
=============================================================================
