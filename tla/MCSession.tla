------------------------------ MODULE MCSession ------------------------------
(***************************************************************************)
(* Sessions, with a memory of whether a line of them has failed.           *)
(***************************************************************************)
EXTENDS MCRepl

VARIABLE spoilt    (* A line did not compile, or ended with an error.      *)

SessionInit == Init /\ spoilt = FALSE

SessionNext ==
  /\ Next
  /\ spoilt' = (spoilt \/ (phase = "compile" /\ failed) \/ (phase = "run" /\ status = "error"))

SessionSpec == SessionInit /\ [][SessionNext]_<<vars, spoilt>>

(* The names of a session and its values, which live in two places that    *)
(* the lines hand on separately (repl.go:64-75), belong together: as long  *)
(* as every line succeeded, each global name has a value in its slot.      *)
DefinedMeansSet ==
  phase = "read" /\ ~spoilt =>
    \A n \in DOMAIN symbolTable[1].store :
      LET symbol == symbolTable[1].store[n]
      IN  symbol.Scope = "GLOBAL" => globals[symbol.Index] # Nil
==============================================================================
