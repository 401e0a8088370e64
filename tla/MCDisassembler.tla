---------------------------- MODULE MCDisassembler ----------------------------
(* Streams of up to three instructions of every operand layout, with       *)
(* operands at the edges of one and two bytes and just past them.          *)
EXTENDS Disassembler

MCEmitted ==
  {<<OpAdd, <<>>>>, <<OpReturnValue, <<>>>>}
  \cup {<<op, <<o>>>> : op \in {OpGetLocal, OpCall}, o \in {0, 255, 256}}
  \cup {<<op, <<o>>>> : op \in {OpConstant, OpJump}, o \in {0, 256, 65535, 65536}}
  \cup {<<OpClosure, <<c, f>>>> : c \in {1, 65535}, f \in {0, 255}}
=============================================================================
