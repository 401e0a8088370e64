---------------------------- MODULE Disassembler ----------------------------
(***************************************************************************)
(* code/code.go Instructions.String: the loop that walks a byte stream     *)
(* made by Make and lists one line per instruction.  The loop has nothing  *)
(* but the bytes, so it finds the next instruction only by the width of    *)
(* the one it stands on.                                                   *)
(***************************************************************************)
EXTENDS Code, SequencesExt

CONSTANTS
  Emitted,     (* The instructions a compiler emits, as <<op, operands>>.  *)
  MaxLength    (* Bound: instructions in one stream.                       *)

(* emit passes as many operands as the opcode has, none of them negative:  *)
(* positions, lengths, counts and indexes.                                 *)
ASSUME DisassemblerAssumption ==
  /\ MaxLength \in Nat
  /\ \A e \in Emitted : /\ e = <<e[1], e[2]>> /\ e[1] \in Opcodes
                        /\ e[2] \in [1..Len(OperandWidths(e[1])) -> Nat]

VARIABLES
  listing,   (* The instructions that were emitted, in order.              *)
  ins,       (* Their bytes, one after the other.                          *)
  i,         (* String's cursor.                                           *)
  out        (* The lines written: <<offset, op, operands>>.               *)

vars == <<listing, ins, i, out>>

Init ==
  /\ listing \in BoundedSeq(Emitted, MaxLength)
  /\ ins = FlattenSeq([k \in DOMAIN listing |-> Make(listing[k][1], listing[k][2])])
  /\ i = 0
  /\ out = <<>>

(* Mutant: the cursor moves past the operands only, if there are any.      *)
WriteLineWithoutOpcode ==
  /\ i < Len(ins) /\ Len(out) < Len(listing)
  /\ out' = Append(out, <<i, ins[i + 1], ReadOperands(ins[i + 1], ins, i + 1)>>)
  /\ i' = IF Width(ins[i + 1]) = 1 THEN i ELSE i + Width(ins[i + 1])
  /\ UNCHANGED <<listing, ins>>

(* One turn of the loop.                                                   *)
WriteLine ==
  /\ i < Len(ins)
  /\ LET op == ins[i + 1]
     IN  IF op \in Opcodes
         THEN /\ out' = Append(out, <<i, op, ReadOperands(op, ins, i + 1)>>)
              /\ i' = i + Width(op)
         ELSE UNCHANGED <<i, out>>   (* "continue" without moving on       *)
  /\ UNCHANGED <<listing, ins>>

Next == WriteLine

Spec == Init /\ [][Next]_vars /\ WF_vars(Next)

-----------------------------------------------------------------------------
(* Reading back what Make wrote gives the instructions that were emitted,  *)
(* each at the offset where the ones before it end, with every operand up  *)
(* to the width of its field (code.go:23 and code.go:146-156 agree).       *)
ListsWhatWasEmitted ==
  /\ Len(out) <= Len(listing)
  /\ \A k \in DOMAIN out :
       LET op == listing[k][1]
       IN  /\ out[k][2] = op
           /\ out[k][3] = [j \in DOMAIN listing[k][2] |->
                             Kept(OperandWidths(op)[j], listing[k][2][j])]
           /\ out[k][1] = IF k = 1 THEN 0 ELSE out[k-1][1] + Width(out[k-1][2])

(* String ends, with one line for every instruction: on a stream of Make's *)
(* the cursor never meets a byte that is no opcode, where the loop's       *)
(* "continue" (code.go:20) would keep it for ever.                         *)
ListsEverything == <>(i = Len(ins) /\ Len(out) = Len(listing))
=============================================================================
