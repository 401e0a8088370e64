----------------------------- MODULE ProofBasics -----------------------------
(***************************************************************************)
(* What the proofs of several components rest on.                          *)
(*                                                                         *)
(* Induction over the natural numbers with a set in place of a predicate,  *)
(* for the proofs about positions, offsets and nesting depths: what has to *)
(* be shown of every n is the set of the n of which it holds.              *)
(*                                                                         *)
(* Stacks of calls, for the components whose recursion is a sequence of    *)
(* what is still to be done.                                               *)
(*                                                                         *)
(* Instructions as bytes: Make and ReadOperands agree, for every size of a *)
(* byte, every opcode and every operand.                                   *)
(*                                                                         *)
(* The code of a function while it is written: where its instructions      *)
(* start, which of them lastInstruction names, where its jumps go, and how *)
(* deep the stack is at each, after everything that is emitted, cut off or *)
(* patched.                                                                *)
(***************************************************************************)
EXTENDS Emission, SequenceTheorems, WellFoundedInduction, TLAPS

(* Every non-empty set of numbers has a least element.                     *)
LEMMA LeastNumber ==
  ASSUME NEW T, T \subseteq Nat, T # {}
  PROVE  \E x \in T : \A y \in T : x <= y
<1>. DEFINE Less == {p \in Nat \X Nat : p[1] < p[2]}
<1>1. IsWellFoundedOn(Less, Nat)
  BY NatLessThanWellFounded DEF OpToRel
<1>2. PICK x \in T : \A y \in T : <<y, x>> \notin Less
  BY <1>1, WFMin
<1>3. ASSUME NEW y \in T PROVE x <= y
  <2>1. x \in Nat /\ y \in Nat
    OBVIOUS
  <2>2. <<y, x>> \in Less <=> y < x
    BY <2>1
  <2>. QED BY <1>2, <2>1, <2>2
<1>. QED BY <1>3

(* A set with 0 that holds the successor of each of its numbers holds all. *)
LEMMA SetInduction ==
  ASSUME NEW T, 0 \in T, \A n \in Nat : n \in T => n + 1 \in T
  PROVE  \A n \in Nat : n \in T
<1>. DEFINE Missing == Nat \ T
<1>1. ASSUME Missing # {} PROVE FALSE
  <2>1. Missing \subseteq Nat
    OBVIOUS
  <2>2. PICK x \in Missing : \A y \in Missing : x <= y
    BY <1>1, <2>1, LeastNumber
  <2>3. x \in Nat /\ x # 0
    OBVIOUS
  <2>4. x - 1 \in Nat /\ x - 1 \in T
    BY <2>2, <2>3
  <2>5. (x - 1) + 1 \in T
    BY <2>4
  <2>. QED BY <2>2, <2>3, <2>5
<1>. QED BY <1>1

-----------------------------------------------------------------------------
(* The calls that have not returned, in the parser, the compiler and the   *)
(* evaluator: a sequence of whatever stands in it.                         *)
Sequence(w) == \E S : w \in Seq(S)

(* A function on 1..n is a sequence of length n.                           *)
LEMMA FunctionIsSequence ==
  ASSUME NEW w, NEW n \in Nat, w = [k \in 1..n |-> w[k]]
  PROVE  Sequence(w) /\ Len(w) = n
<1>. DEFINE S == {w[k] : k \in 1..n}
<1>1. w \in Seq(S)
  OBVIOUS
<1>. QED BY <1>1, LenProperties DEF Sequence

(* Short sequences.                                                        *)
LEMMA Tuples ==
  ASSUME NEW a, NEW b, NEW c
  PROVE  /\ Sequence(<<>>) /\ Len(<<>>) = 0
         /\ Sequence(<<a>>) /\ Len(<<a>>) = 1 /\ <<a>>[1] = a
         /\ Sequence(<<a, b>>) /\ Len(<<a, b>>) = 2 /\ <<a, b>>[1] = a /\ <<a, b>>[2] = b
         /\ Sequence(<<a, b, c>>) /\ Len(<<a, b, c>>) = 3
         /\ <<a, b, c>>[1] = a /\ <<a, b, c>>[2] = b /\ <<a, b, c>>[3] = c
<1>. DEFINE S == {a, b, c}
<1>1. <<>> \in Seq(S) /\ <<a>> \in Seq(S) /\ <<a, b>> \in Seq(S) /\ <<a, b, c>> \in Seq(S)
  OBVIOUS
<1>2. Sequence(<<>>) /\ Sequence(<<a>>) /\ Sequence(<<a, b>>) /\ Sequence(<<a, b, c>>)
  BY <1>1 DEF Sequence
<1>. QED BY <1>2

(* A sequence is a function on 1..n.                                       *)
LEMMA SequenceIsFunction ==
  ASSUME NEW w, Sequence(w)
  PROVE  Len(w) \in Nat /\ DOMAIN w = 1..Len(w) /\ w = [k \in 1..Len(w) |-> w[k]]
BY LenProperties DEF Sequence

(* What goes behind the end of a sequence.                                 *)
LEMMA AppendedTo ==
  ASSUME NEW w, Sequence(w), NEW x
  PROVE  /\ Sequence(Append(w, x)) /\ Len(Append(w, x)) = Len(w) + 1 /\ Len(w) \in Nat
         /\ \A k \in 1..Len(w) : Append(w, x)[k] = w[k]
         /\ Append(w, x)[Len(w) + 1] = x
<1>1. PICK S : w \in Seq(S)
  BY DEF Sequence
<1>. DEFINE U == S \cup {x}
<1>2. w \in Seq(U)
  BY <1>1, SeqMonotonic
<1>3. x \in U
  OBVIOUS
<1>. HIDE DEF U
<1>4. /\ Append(w, x) \in Seq(U) /\ Len(Append(w, x)) = Len(w) + 1
      /\ \A k \in 1..Len(w) : Append(w, x)[k] = w[k]
      /\ Append(w, x)[Len(w) + 1] = x
  BY <1>2, <1>3, AppendProperties
<1>. QED BY <1>2, <1>4, LenProperties DEF Sequence

(* The call that returns leaves the others where they are.                 *)
LEMMA TailOf ==
  ASSUME NEW w, Sequence(w), w # <<>>
  PROVE  /\ Sequence(Tail(w)) /\ Len(w) \in Nat \ {0} /\ DOMAIN w = 1..Len(w)
         /\ Len(Tail(w)) = Len(w) - 1 /\ DOMAIN Tail(w) = 1..(Len(w) - 1)
         /\ \A k \in 1..(Len(w) - 1) : Tail(w)[k] = w[k + 1]
         /\ Head(w) = w[1]
<1>1. PICK S : w \in Seq(S)
  BY DEF Sequence
<1>2. Len(w) \in Nat \ {0} /\ DOMAIN w = 1..Len(w)
  BY <1>1, EmptySeq, LenProperties
<1>3. /\ Tail(w) \in Seq(S) /\ Len(Tail(w)) = Len(w) - 1
      /\ \A k \in 1..(Len(w) - 1) : Tail(w)[k] = w[k + 1]
  BY <1>1, HeadTailProperties
<1>4. DOMAIN Tail(w) = 1..(Len(w) - 1)
  BY <1>3, LenProperties
<1>5. Head(w) = w[1]
  BY <1>1
<1>. QED BY <1>2, <1>3, <1>4, <1>5 DEF Sequence

(* A call that makes one call, or makes one and waits for it.              *)
LEMMA Pushed ==
  ASSUME NEW t, Sequence(t), NEW items, Sequence(items), Len(items) \in Nat
  PROVE  /\ Sequence(items \o t) /\ Len(t) \in Nat
         /\ DOMAIN (items \o t) = 1..(Len(items) + Len(t))
         /\ \A k \in 1..Len(items) : (items \o t)[k] = items[k]
         /\ \A k \in 1..Len(t) : (items \o t)[Len(items) + k] = t[k]
<1>1. PICK S : t \in Seq(S)
  BY DEF Sequence
<1>2. PICK R : items \in Seq(R)
  BY DEF Sequence
<1>. DEFINE U == S \cup R
<1>3. t \in Seq(U) /\ items \in Seq(U)
  BY <1>1, <1>2, SeqMonotonic
<1>. HIDE DEF U
<1>4. Len(t) \in Nat
  BY <1>3, LenProperties
<1>5. items \o t \in Seq(U) /\ Len(items \o t) = Len(items) + Len(t)
  BY <1>3, ConcatProperties
<1>6. DOMAIN (items \o t) = 1..(Len(items) + Len(t))
  BY <1>5, LenProperties
<1>. QED BY <1>3, <1>4, <1>5, <1>6, ConcatProperties DEF Sequence

(* A call that makes calls: they take its place.                           *)
LEMMA Replaced ==
  ASSUME NEW w, Sequence(w), w # <<>>, NEW items, Sequence(items)
  PROVE  /\ Sequence(items \o Tail(w)) /\ Len(items) \in Nat /\ Len(w) \in Nat \ {0}
         /\ Len(items \o Tail(w)) = Len(items) + (Len(w) - 1)
         /\ \A k \in 1..Len(items) : (items \o Tail(w))[k] = items[k]
         /\ \A k \in 1..(Len(w) - 1) : (items \o Tail(w))[Len(items) + k] = w[k + 1]
<1>. DEFINE r == Tail(w)
            new == items \o r
<1>1. /\ Sequence(r) /\ Len(w) \in Nat \ {0} /\ Len(r) = Len(w) - 1
      /\ \A k \in 1..(Len(w) - 1) : r[k] = w[k + 1]
  BY TailOf
<1>2. Len(items) \in Nat
  BY SequenceIsFunction
<1>. HIDE DEF r
<1>3. /\ Sequence(new) /\ DOMAIN new = 1..(Len(items) + Len(r))
      /\ \A k \in 1..Len(items) : new[k] = items[k]
      /\ \A k \in 1..Len(r) : new[Len(items) + k] = r[k]
  <2>1. Sequence(r) /\ Sequence(items) /\ Len(items) \in Nat
    BY <1>1, <1>2
  <2>. QED BY ONLY <2>1, Pushed
<1>. HIDE DEF new
<1>4. Len(new) = Len(items) + Len(r)
  <2>1. Len(items) + Len(r) \in Nat /\ new = [k \in 1..(Len(items) + Len(r)) |-> new[k]]
    BY <1>1, <1>2, <1>3, SequenceIsFunction
  <2>. QED BY <2>1, FunctionIsSequence
<1>5. /\ Sequence(new) /\ Len(items) \in Nat /\ Len(w) \in Nat \ {0}
      /\ Len(new) = Len(items) + (Len(w) - 1)
      /\ \A k \in 1..Len(items) : new[k] = items[k]
      /\ \A k \in 1..(Len(w) - 1) : new[Len(items) + k] = w[k + 1]
  BY <1>1, <1>2, <1>3, <1>4
<1>. QED BY <1>5 DEF new, r

-----------------------------------------------------------------------------
(* Instructions and their operands.                                        *)
(* The remainder is the only number below the divisor that differs from    *)
(* the dividend by a multiple of it.                                       *)
LEMMA RemainderUnique ==
  ASSUME NEW m \in Nat, m > 0, NEW q \in Nat, NEW r \in Nat, r < m
  PROVE  (q * m + r) % m = r
OBVIOUS

(* Two bytes hold the number modulo the square of a byte's size.           *)
LEMMA TwoBytes ==
  ASSUME NEW b \in Nat, b > 1, NEW o \in Nat
  PROVE  ((o \div b) % b) * b + (o % b) = o % (b * b)
<1>. DEFINE q == o \div b
            r == o % b
            h == q \div b
            t == q % b
<1>1. q \in Nat /\ r \in Nat /\ r < b /\ o = q * b + r
  OBVIOUS
<1>2. h \in Nat /\ t \in Nat /\ t < b /\ q = h * b + t
  OBVIOUS
<1>. HIDE DEF q, r, h, t
<1>3. o = h * (b * b) + (t * b + r)
  <2>1. q * b = (h * b + t) * b
    BY <1>2
  <2>2. (h * b + t) * b = h * (b * b) + t * b
    BY <1>2
  <2>. QED BY <1>1, <1>2, <2>1, <2>2
<1>4. b * b \in Nat /\ b * b > 0 /\ t * b + r \in Nat /\ t * b + r < b * b
  BY <1>1, <1>2
<1>5. (h * (b * b) + (t * b + r)) % (b * b) = t * b + r
  BY <1>2, <1>4, RemainderUnique
<1>. QED BY <1>3, <1>5 DEF t, q, r

(* The opcodes with an operand of two bytes, and with one of one byte.     *)
Wide   == {OpConstant, OpJumpNotTruthy, OpJump, OpSetGlobal, OpGetGlobal, OpArray, OpHash}
Narrow == {OpCall, OpSetLocal, OpGetLocal, OpGetBuiltin, OpGetFree}

(* The table definitions (code.go:90-120), by opcode.                      *)
LEMMA OperandTable ==
  ASSUME NEW op
  PROVE  /\ op \in Wide => OperandWidths(op) = <<2>> /\ Width(op) = 3
         /\ op \in Narrow => OperandWidths(op) = <<1>> /\ Width(op) = 2
         /\ op = OpClosure => OperandWidths(op) = <<2, 1>> /\ Width(op) = 4
         /\ op \notin Wide \cup Narrow \cup {OpClosure} => OperandWidths(op) = <<>> /\ Width(op) = 1
<1>1. Wide \cap Narrow = {} /\ OpClosure \notin Wide /\ OpClosure \notin Narrow
  BY DEF Wide, Narrow, OpConstant, OpJumpNotTruthy, OpJump, OpSetGlobal, OpGetGlobal, OpArray,
         OpHash, OpCall, OpSetLocal, OpGetLocal, OpGetBuiltin, OpGetFree, OpClosure
<1>2. OperandWidths(op) = CASE op \in Wide -> <<2>> [] op \in Narrow -> <<1>>
                            [] op = OpClosure -> <<2, 1>> [] OTHER -> <<>>
  BY DEF OperandWidths, Wide, Narrow
<1>. QED BY <1>1, <1>2 DEF Width

(* The opcodes by the operands they take.                                  *)
LEMMA OperandLayouts ==
  ASSUME NEW op
  PROVE  \/ OperandWidths(op) = <<>> /\ Width(op) = 1
         \/ OperandWidths(op) = <<2>> /\ Width(op) = 3
         \/ OperandWidths(op) = <<1>> /\ Width(op) = 2
         \/ OperandWidths(op) = <<2, 1>> /\ Width(op) = 4
BY OperandTable

(* A function on 1..1 or 1..2 is a tuple.                                  *)
LEMMA FunctionIsTuple ==
  ASSUME NEW f
  PROVE  /\ f = [j \in 1..1 |-> f[j]] => f = <<f[1]>>
         /\ f = [j \in 1..2 |-> f[j]] => f = <<f[1], f[2]>>
OBVIOUS

(* Make writes the opcode and as many bytes as its operands take, the high *)
(* one first (code.go:118-144).                                            *)
LEMMA MakeWrites ==
  ASSUME NEW op \in Opcodes, NEW operands \in [1..Len(OperandWidths(op)) -> Nat]
  PROVE  LET m    == Make(op, operands)
             high == (operands[1] \div ByteSize) % ByteSize
             low  == operands[1] % ByteSize
         IN  /\ m \in Seq(Nat) /\ Len(m) = Width(op) /\ Width(op) \in 1..4 /\ m[1] = op
             /\ OperandWidths(op) = <<1>> => m[2] = low
             /\ OperandWidths(op) = <<2>> => m[2] = high /\ m[3] = low
             /\ OperandWidths(op) = <<2, 1>> =>
                  m[2] = high /\ m[3] = low /\ m[4] = operands[2] % ByteSize
<1>. DEFINE B == ByteSize
            m == Make(op, operands)
            high == (operands[1] \div B) % B
            low == operands[1] % B
            last == operands[2] % B
<1>0. B \in Nat /\ B > 1 /\ op \in Nat
  BY ByteSizeAssumption DEF Opcodes
<1>1. CASE OperandWidths(op) = <<>> /\ Width(op) = 1
  <2>1. m = <<op>>
    BY <1>1 DEF Make
  <2>. QED BY <1>0, <1>1, <2>1
<1>2. CASE OperandWidths(op) = <<1>> /\ Width(op) = 2
  <2>1. m = <<op>> \o <<low>> /\ operands[1] \in Nat
    BY <1>2 DEF Make, PutOperand
  <2>2. low \in Nat
    BY <1>0, <2>1
  <2>. HIDE DEF low, m
  <2>3. m \in Seq(Nat) /\ Len(m) = 2 /\ m[1] = op /\ m[2] = low
    BY <1>0, <2>1, <2>2
  <2>. QED BY <1>2, <2>3 DEF low, m
<1>3. CASE OperandWidths(op) = <<2>> /\ Width(op) = 3
  <2>1. m = <<op>> \o <<high, low>> /\ operands[1] \in Nat
    BY <1>3 DEF Make, PutOperand
  <2>2. low \in Nat /\ high \in Nat
    BY <1>0, <2>1
  <2>. HIDE DEF low, high, m
  <2>3. m \in Seq(Nat) /\ Len(m) = 3 /\ m[1] = op /\ m[2] = high /\ m[3] = low
    BY <1>0, <2>1, <2>2
  <2>. QED BY <1>3, <2>3 DEF low, high, m
<1>4. CASE OperandWidths(op) = <<2, 1>> /\ Width(op) = 4
  <2>1. m = <<op>> \o <<high, low>> \o <<last>> /\ operands[1] \in Nat /\ operands[2] \in Nat
    BY <1>4 DEF Make, PutOperand
  <2>2. low \in Nat /\ high \in Nat /\ last \in Nat
    BY <1>0, <2>1
  <2>. HIDE DEF low, high, last, m
  <2>3. m \in Seq(Nat) /\ Len(m) = 4 /\ m[1] = op /\ m[2] = high /\ m[3] = low /\ m[4] = last
    BY <1>0, <2>1, <2>2
  <2>. QED BY <1>4, <2>3 DEF low, high, last, m
<1>. QED BY <1>1, <1>2, <1>3, <1>4, OperandLayouts

(* ReadOperands finds in the bytes of Make what is left of each operand    *)
(* (code.go:146-170), wherever they stand.                                 *)
LEMMA ReadsWhatMakeWrote ==
  ASSUME NEW op \in Opcodes, NEW operands \in [1..Len(OperandWidths(op)) -> Nat],
         NEW bytes, NEW at \in Nat,
         \A j \in 1..Width(op) : bytes[at + j] = Make(op, operands)[j]
  PROVE  /\ bytes[at + 1] = op
         /\ ReadOperands(op, bytes, at + 1)
              = [j \in DOMAIN operands |-> Kept(OperandWidths(op)[j], operands[j])]
<1>. DEFINE B == ByteSize
            high == (operands[1] \div B) % B
            low == operands[1] % B
            last == operands[2] % B
            kept == [j \in DOMAIN operands |-> Kept(OperandWidths(op)[j], operands[j])]
<1>0. B \in Nat /\ B > 1
  BY ByteSizeAssumption
<1>1. bytes[at + 1] = op
  BY MakeWrites
<1>2. CASE OperandWidths(op) = <<>> /\ Width(op) = 1
  BY <1>1, <1>2 DEF ReadOperands
<1>3. CASE OperandWidths(op) = <<1>> /\ Width(op) = 2
  <2>1. bytes[at + 2] = low
    <3>1. Make(op, operands)[2] = low
      BY <1>3, MakeWrites
    <3>. QED BY <1>3, <3>1
  <2>2. ReadOperands(op, bytes, at + 1) = <<bytes[at + 2]>>
    BY <1>3 DEF ReadOperands, ReadUint8
  <2>3. kept = [j \in 1..1 |-> kept[j]] /\ kept[1] = low
    BY <1>3 DEF Kept
  <2>. HIDE DEF kept, low
  <2>4. kept = <<low>>
    BY <2>3, FunctionIsTuple
  <2>5. ReadOperands(op, bytes, at + 1) = kept
    BY <2>1, <2>2, <2>4
  <2>. QED BY <1>1, <2>5 DEF kept
<1>4. CASE OperandWidths(op) = <<2>> /\ Width(op) = 3
  <2>1. bytes[at + 2] = high /\ bytes[at + 3] = low
    <3>1. Make(op, operands)[2] = high /\ Make(op, operands)[3] = low
      BY <1>4, MakeWrites
    <3>. QED BY <1>4, <3>1
  <2>2. ReadOperands(op, bytes, at + 1) = <<bytes[at + 2] * B + bytes[at + 3]>>
    BY <1>4 DEF ReadOperands, ReadUint16
  <2>3. operands[1] \in Nat
    BY <1>4
  <2>4. high * B + low = operands[1] % (B * B)
    BY <1>0, <2>3, TwoBytes
  <2>5. kept = [j \in 1..1 |-> kept[j]] /\ kept[1] = operands[1] % (B * B)
    BY <1>4 DEF Kept
  <2>. HIDE DEF kept, low, high
  <2>6. kept = <<high * B + low>>
    BY <2>4, <2>5, FunctionIsTuple
  <2>7. ReadOperands(op, bytes, at + 1) = kept
    BY <2>1, <2>2, <2>6
  <2>. QED BY <1>1, <2>7 DEF kept
<1>5. CASE OperandWidths(op) = <<2, 1>> /\ Width(op) = 4
  <2>1. bytes[at + 2] = high /\ bytes[at + 3] = low /\ bytes[at + 4] = last
    <3>1. /\ Make(op, operands)[2] = high /\ Make(op, operands)[3] = low
          /\ Make(op, operands)[4] = last
      BY <1>5, MakeWrites
    <3>. QED BY <1>5, <3>1
  <2>2. ReadOperands(op, bytes, at + 1) = <<bytes[at + 2] * B + bytes[at + 3], bytes[at + 4]>>
    BY <1>5 DEF ReadOperands, ReadUint16, ReadUint8
  <2>3. operands[1] \in Nat
    BY <1>5
  <2>4. high * B + low = operands[1] % (B * B)
    BY <1>0, <2>3, TwoBytes
  <2>5. kept = [j \in 1..2 |-> kept[j]] /\ kept[1] = operands[1] % (B * B) /\ kept[2] = last
    BY <1>5 DEF Kept
  <2>. HIDE DEF kept, low, high, last
  <2>6. kept = <<high * B + low, last>>
    BY <2>4, <2>5, FunctionIsTuple
  <2>7. ReadOperands(op, bytes, at + 1) = kept
    BY <2>1, <2>2, <2>6
  <2>. QED BY <1>1, <2>7 DEF kept
<1>. QED BY <1>2, <1>3, <1>4, <1>5, OperandLayouts

Bytes == 0..ByteSize - 1

(* No instruction is empty, and none is longer than four bytes.            *)
LEMMA WidthRange ==
  ASSUME NEW op
  PROVE  Width(op) \in 1..4
BY OperandLayouts

-----------------------------------------------------------------------------
(* Starts.  It is defined by a recursion from the end of the code; it is   *)
(* the least set with 0 that holds what comes after each of its positions. *)
Closed(Q, ins) ==
  \A p \in Q : p \in 0..Len(ins) - 1 => p + Width(ins[p + 1]) \in Q

Reach(ins, p) ==
  {q \in 0..Len(ins) - 1 : \A Q \in SUBSET Nat : p \in Q /\ Closed(Q, ins) => q \in Q}

(* Nothing is reached from behind the end; from a position before the end, *)
(* itself and what the next one reaches.                                   *)
LEMMA ReachUnfolds ==
  ASSUME NEW ins, Len(ins) \in Nat, NEW p \in Nat
  PROVE  Reach(ins, p) = IF p >= Len(ins) THEN {}
                         ELSE {p} \cup Reach(ins, p + Width(ins[p + 1]))
<1>. DEFINE L == Len(ins)
            n == p + Width(ins[p + 1])
<1>0. ASSUME NEW q \in Nat PROVE q + Width(ins[q + 1]) \in Nat /\ q + Width(ins[q + 1]) > q
  BY WidthRange
<1>1. CASE p >= L
  <2>. DEFINE Q == {q \in Nat : q >= L}
  <2>1. p \in Q /\ Closed(Q, ins) /\ Q \in SUBSET Nat
    BY <1>1 DEF Closed
  <2>2. ASSUME NEW q \in Reach(ins, p) PROVE FALSE
    <3>1. q \in Q /\ q \in 0..L - 1
      BY <2>1 DEF Reach
    <3>. QED BY <3>1
  <2>. QED BY <1>1, <2>2
<1>2. CASE ~(p >= L)
  <2>. HIDE DEF n
  <2>0. n \in Nat
    BY <1>0 DEF n
  <2>1. p \in 0..L - 1
    BY <1>2
  <2>2. p \in Reach(ins, p)
    BY <2>1 DEF Reach
  <2>3. ASSUME NEW q \in Reach(ins, n) PROVE q \in Reach(ins, p)
    <3>1. q \in 0..L - 1
      BY DEF Reach
    <3>2. ASSUME NEW Q \in SUBSET Nat, p \in Q, Closed(Q, ins) PROVE q \in Q
      <4>1. n \in Q
        BY <2>1, <3>2 DEF Closed, n
      <4>. QED BY <3>2, <4>1 DEF Reach
    <3>. QED BY <3>1, <3>2 DEF Reach
  <2>4. ASSUME NEW q \in Reach(ins, p) PROVE q \in {p} \cup Reach(ins, n)
    <3>. DEFINE Q == {p} \cup Reach(ins, n) \cup {x \in Nat : x >= L} \cup {n}
    <3>1. Q \in SUBSET Nat /\ p \in Q
      BY <2>0 DEF Reach
    <3>2. ASSUME NEW x \in Q, x \in 0..L - 1 PROVE x + Width(ins[x + 1]) \in Q
      <4>. DEFINE y == x + Width(ins[x + 1])
      <4>. HIDE DEF Q
      <4>0. x \in Nat
        BY <3>2
      <4>00. y \in Nat /\ y > x
        BY <1>0, <4>0
      <4>. USE DEF Q
      <4>1. CASE x = p
        BY <4>1 DEF n
      <4>2. CASE x # p
        <5>1. x \in Reach(ins, n)
          <6>1. ~(x >= L)
            BY <3>2
          <6>2. x = n \/ x \in Reach(ins, n)
            BY <4>2, <6>1
          <6>3. n \in 0..L - 1 => n \in Reach(ins, n)
            BY DEF Reach
          <6>. QED BY <3>2, <6>2, <6>3
        <5>2. CASE y >= L
          BY <4>00, <5>2
        <5>3. CASE ~(y >= L)
          <6>1. y \in 0..L - 1
            BY <4>00, <5>3
          <6>2. ASSUME NEW R \in SUBSET Nat, n \in R, Closed(R, ins) PROVE y \in R
            <7>1. x \in R
              BY <5>1, <6>2 DEF Reach
            <7>. QED BY <3>2, <6>2, <7>1 DEF Closed
          <6>3. y \in Reach(ins, n)
            BY <6>1, <6>2 DEF Reach
          <6>. QED BY <6>3
        <5>. QED BY <5>2, <5>3
      <4>. QED BY <4>1, <4>2
    <3>3. Closed(Q, ins)
      BY <3>2 DEF Closed
    <3>4. q \in Q /\ q \in 0..L - 1
      BY <3>1, <3>3 DEF Reach
    <3>5. ~(q >= L)
      BY <3>4
    <3>6. n \in 0..L - 1 => n \in Reach(ins, n)
      BY DEF Reach
    <3>. QED BY <3>4, <3>5, <3>6
  <2>. QED BY <1>2, <2>2, <2>3, <2>4 DEF n
<1>. QED BY <1>1, <1>2

(* The recursion of Starts computes what is reached from 0.                *)
LEMMA StartsReached ==
  ASSUME NEW ins, Len(ins) \in Nat
  PROVE  Starts(ins) = Reach(ins, 0)
<1>. DEFINE L == Len(ins)
            From(f) == f = [p \in 0..L + 3 |->
                              IF p >= L THEN {} ELSE {p} \cup f[p + Width(ins[p + 1])]]
            c == CHOOSE f : From(f)
<1>0. ASSUME NEW p \in 0..L + 3, ~(p >= L)
      PROVE  p + Width(ins[p + 1]) \in 0..L + 3 /\ p + Width(ins[p + 1]) > p
  BY <1>0, WidthRange
<1>1. Starts(ins) = c[0]
  BY DEF Starts
<1>2. From([p \in 0..L + 3 |-> Reach(ins, p)])
  <2>. DEFINE g == [p \in 0..L + 3 |-> Reach(ins, p)]
  <2>1. ASSUME NEW p \in 0..L + 3
        PROVE  g[p] = IF p >= L THEN {} ELSE {p} \cup g[p + Width(ins[p + 1])]
    <3>1. p \in Nat /\ g[p] = Reach(ins, p)
      OBVIOUS
    <3>2. ~(p >= L) => g[p + Width(ins[p + 1])] = Reach(ins, p + Width(ins[p + 1]))
      BY <1>0
    <3>. QED BY <3>1, <3>2, ReachUnfolds
  <2>. QED BY <2>1
<1>3. From(c)
  BY <1>2
<1>. HIDE DEF c
<1>. DEFINE T == {n \in Nat : \A p \in 0..L + 3 : p + n >= L => c[p] = Reach(ins, p)}
<1>4. 0 \in T
  <2>1. ASSUME NEW p \in 0..L + 3, p + 0 >= L PROVE c[p] = Reach(ins, p)
    <3>1. p \in Nat /\ p >= L
      BY <2>1
    <3>. QED BY <1>3, <3>1, ReachUnfolds
  <2>. QED BY <2>1
<1>5. ASSUME NEW n \in Nat, n \in T PROVE n + 1 \in T
  <2>1. ASSUME NEW p \in 0..L + 3, p + (n + 1) >= L PROVE c[p] = Reach(ins, p)
    <3>0. p \in Nat
      OBVIOUS
    <3>1. CASE p >= L
      BY <1>3, <3>0, <3>1, ReachUnfolds
    <3>2. CASE ~(p >= L)
      <4>. DEFINE q == p + Width(ins[p + 1])
      <4>1. q \in 0..L + 3 /\ q > p
        BY <1>0, <3>2
      <4>. HIDE DEF q
      <4>2. q + n >= L
        BY <2>1, <3>0, <4>1
      <4>3. c[q] = Reach(ins, q)
        BY <1>5, <4>1, <4>2
      <4>4. c[p] = {p} \cup c[q]
        BY <1>3, <3>2 DEF q
      <4>5. Reach(ins, p) = {p} \cup Reach(ins, q)
        BY <3>0, <3>2, ReachUnfolds DEF q
      <4>. QED BY <4>3, <4>4, <4>5
    <3>. QED BY <3>1, <3>2
  <2>. QED BY <2>1
<1>6. \A n \in Nat : n \in T
  BY <1>4, <1>5, SetInduction
<1>7. c[0] = Reach(ins, 0)
  <2>1. L \in T /\ 0 \in 0..L + 3 /\ 0 + L >= L
    BY <1>6
  <2>. QED BY <2>1
<1>. QED BY <1>1, <1>7

(* So Starts holds 0 and with each position the next one, as long as they  *)
(* are before the end, ...                                                 *)
LEMMA StartsClosed ==
  ASSUME NEW ins, Len(ins) \in Nat
  PROVE  /\ Starts(ins) \subseteq 0..Len(ins) - 1
         /\ Len(ins) > 0 => 0 \in Starts(ins)
         /\ \A p \in Starts(ins) :
              p + Width(ins[p + 1]) < Len(ins) => p + Width(ins[p + 1]) \in Starts(ins)
<1>. DEFINE L == Len(ins)
<1>1. Starts(ins) = Reach(ins, 0)
  BY StartsReached
<1>2. Reach(ins, 0) \subseteq 0..L - 1
  BY DEF Reach
<1>3. L > 0 => 0 \in Reach(ins, 0)
  <2>1. L > 0 => 0 \in 0..L - 1
    OBVIOUS
  <2>. QED BY <2>1 DEF Reach
<1>4. ASSUME NEW p \in Reach(ins, 0), p + Width(ins[p + 1]) < L
      PROVE  p + Width(ins[p + 1]) \in Reach(ins, 0)
  <2>1. p \in 0..L - 1
    BY <1>2
  <2>2. p + Width(ins[p + 1]) \in 0..L - 1
    BY <1>4, <2>1, WidthRange
  <2>3. ASSUME NEW Q \in SUBSET Nat, 0 \in Q, Closed(Q, ins)
        PROVE  p + Width(ins[p + 1]) \in Q
    <3>1. p \in Q
      BY <2>3 DEF Reach
    <3>. QED BY <2>1, <2>3, <3>1 DEF Closed
  <2>. QED BY <2>2, <2>3 DEF Reach
<1>. QED BY <1>1, <1>2, <1>3, <1>4

(* ... and is the least such set.                                          *)
LEMMA StartsLeast ==
  ASSUME NEW ins, Len(ins) \in Nat, NEW Q, Len(ins) > 0 => 0 \in Q,
         \A p \in Q : p \in Starts(ins) /\ p + Width(ins[p + 1]) < Len(ins)
                        => p + Width(ins[p + 1]) \in Q
  PROVE  Starts(ins) \subseteq Q
<1>. DEFINE L == Len(ins)
            R == {p \in Nat : p >= L \/ (p \in Q /\ p \in Starts(ins))}
<1>1. 0 \in R
  <2>1. CASE L = 0
    BY <2>1
  <2>2. CASE L > 0
    BY <2>2, StartsClosed
  <2>. QED BY <2>1, <2>2
<1>2. ASSUME NEW p \in R, p \in 0..L - 1 PROVE p + Width(ins[p + 1]) \in R
  <2>. DEFINE q == p + Width(ins[p + 1])
  <2>1. p \in Q /\ p \in Starts(ins)
    <3>1. ~(p >= L)
      BY <1>2
    <3>. QED BY <3>1
  <2>2. q \in Nat
    BY <1>2, WidthRange
  <2>3. q >= L \/ q < L
    BY <2>2
  <2>4. q < L => q \in Q /\ q \in Starts(ins)
    BY <2>1, StartsClosed
  <2>. HIDE DEF q
  <2>5. q \in R
    BY <2>2, <2>3, <2>4
  <2>. QED BY <2>5 DEF q
<1>3. Closed(R, ins)
  BY <1>2 DEF Closed
<1>4. ASSUME NEW p \in Starts(ins) PROVE p \in Q
  <2>1. p \in Reach(ins, 0) /\ R \in SUBSET Nat
    BY StartsReached
  <2>2. p \in R /\ p \in 0..L - 1
    BY <1>1, <1>3, <2>1 DEF Reach
  <2>3. ~(p >= L)
    BY <2>2
  <2>. QED BY <2>2, <2>3
<1>. QED BY <1>4

(* Instructions do not overlap.                                            *)
LEMMA StartsApart ==
  ASSUME NEW ins, Len(ins) \in Nat, NEW p \in Starts(ins), NEW q \in Starts(ins), p < q
  PROVE  p + Width(ins[p + 1]) <= q
<1>. DEFINE L == Len(ins)
            S == Starts(ins)
            End(x) == x + Width(ins[x + 1])
            Q == {x \in S : \A y \in S : y < x => End(y) <= x}
<1>. HIDE DEF S
<1>1. S \subseteq 0..L - 1 /\ (L > 0 => 0 \in S) /\ \A x \in S : End(x) < L => End(x) \in S
  BY StartsClosed DEF S
<1>2. ASSUME NEW x \in S PROVE x \in Nat /\ End(x) \in Nat /\ End(x) > x
  <2>1. x \in Nat
    BY <1>1
  <2>. QED BY <2>1, WidthRange
<1>. HIDE DEF End
<1>3. L > 0 => 0 \in Q
  <2>1. \A y \in S : ~(y < 0)
    BY <1>2
  <2>. QED BY <1>1, <2>1
<1>4. ASSUME NEW x \in Q, End(x) < L PROVE End(x) \in Q
  <2>. DEFINE R == {y \in S : y <= x \/ y >= End(x)}
  <2>0. x \in S /\ x \in Nat /\ End(x) \in Nat /\ End(x) > x
    BY <1>2
  <2>1. L > 0 => 0 \in R
    BY <1>1, <2>0
  <2>2. ASSUME NEW y \in R, End(y) < L PROVE End(y) \in R
    <3>1. y \in S /\ y \in Nat /\ End(y) \in Nat /\ End(y) > y /\ End(y) \in S
      BY <1>1, <1>2, <2>2
    <3>2. CASE y < x
      BY <3>1, <3>2
    <3>3. CASE y = x
      BY <2>0, <3>1, <3>3
    <3>4. CASE y >= End(x)
      BY <2>0, <3>1, <3>4
    <3>. QED BY <2>0, <3>1, <3>2, <3>3, <3>4
  <2>3. S \subseteq R
    BY <2>1, <2>2, StartsLeast DEF S, End
  <2>4. ASSUME NEW y \in S, y < End(x) PROVE End(y) <= End(x)
    <3>1. y \in Nat /\ y <= x
      BY <1>2, <2>0, <2>3, <2>4
    <3>2. CASE y = x
      BY <2>0, <3>2
    <3>3. CASE y < x
      BY <1>2, <2>0, <3>3
    <3>. QED BY <2>0, <3>1, <3>2, <3>3
  <2>. QED BY <1>1, <1>4, <2>0, <2>4
<1>5. S \subseteq Q
  BY <1>3, <1>4, StartsLeast DEF S, End
<1>. QED BY <1>5 DEF S, End

(* Code that agrees with other code on the instructions of the other       *)
(* before m starts them at the same places.                                *)
LEMMA StartsShared ==
  ASSUME NEW ins, Len(ins) \in Nat, NEW new, Len(new) \in Nat, NEW m \in Nat, m <= Len(new),
         \A p \in Starts(ins) : p < m => new[p + 1] = ins[p + 1]
  PROVE  \A p \in Starts(ins) : p < m => p \in Starts(new)
<1>. DEFINE Q == {p \in Nat : p < m => p \in Starts(new)}
<1>1. 0 \in Q
  BY StartsClosed
<1>2. ASSUME NEW p \in Q, p \in Starts(ins)
      PROVE  p + Width(ins[p + 1]) \in Q
  <2>. DEFINE n == p + Width(ins[p + 1])
  <2>1. p \in Nat /\ n \in Nat /\ n > p
    BY WidthRange
  <2>2. ASSUME n < m PROVE n \in Starts(new)
    <3>1. p < m /\ n < Len(new)
      BY <2>1, <2>2
    <3>2. p \in Starts(new) /\ new[p + 1] = ins[p + 1]
      BY <1>2, <3>1
    <3>. QED BY <3>1, <3>2, StartsClosed
  <2>. QED BY <2>1, <2>2
<1>3. Starts(ins) \subseteq Q
  <2>. HIDE DEF Q
  <2>. QED BY <1>1, <1>2, StartsLeast
<1>. QED BY <1>3

(* ... and, if it is as long, at no other places.                          *)
LEMMA StartsAgree ==
  ASSUME NEW ins, Len(ins) \in Nat, NEW new, Len(new) \in Nat, NEW m \in Nat,
         m <= Len(new), m <= Len(ins),
         \A p \in Starts(ins) : p < m => new[p + 1] = ins[p + 1]
  PROVE  \A p \in Nat : p < m => (p \in Starts(ins) <=> p \in Starts(new))
<1>. DEFINE Q == {p \in Nat : p < m => p \in Starts(ins)}
<1>1. 0 \in Q
  BY StartsClosed
<1>2. ASSUME NEW p \in Q, p \in Starts(new)
      PROVE  p + Width(new[p + 1]) \in Q
  <2>. DEFINE n == p + Width(new[p + 1])
  <2>1. p \in Nat /\ n \in Nat /\ n > p
    BY WidthRange
  <2>2. ASSUME n < m PROVE n \in Starts(ins)
    <3>1. p < m /\ n < Len(ins)
      BY <2>1, <2>2
    <3>2. p \in Starts(ins) /\ new[p + 1] = ins[p + 1]
      BY <1>2, <3>1
    <3>. QED BY <3>1, <3>2, StartsClosed
  <2>. QED BY <2>1, <2>2
<1>3. Starts(new) \subseteq Q
  <2>. HIDE DEF Q
  <2>. QED BY <1>1, <1>2, StartsLeast
<1>4. \A p \in Starts(ins) : p < m => p \in Starts(new)
  BY StartsShared
<1>. QED BY <1>3, <1>4

-----------------------------------------------------------------------------
(* A compilation scope between two calls: the last instruction is where    *)
(* the compiler thinks it is, and when it is a pop so is the one before,   *)
(* which is no pop: removeLastPop can be called, and only once.  No code   *)
(* that is still written returns nothing: OpReturn comes at the end of a   *)
(* function body (compiler.go:285).                                        *)
Instruction == [Opcode : Opcodes, Position : Nat]

Tracked(ins, last) ==
  ins # <<>> => /\ last.Position \in Starts(ins)
                /\ last.Position + Width(last.Opcode) = Len(ins)
                /\ ins[last.Position + 1] = last.Opcode

NoPop(s) == ~LastInstructionIs(s, OpPop)

Ongoing(ins) == \A p \in Starts(ins) : ins[p + 1] # OpReturn

Formed(s) ==
  /\ s.instructions \in Seq(Bytes)
  /\ s.lastInstruction \in Instruction
  /\ s.previousInstruction \in Instruction
  /\ Tracked(s.instructions, s.lastInstruction)
  /\ LastInstructionIs(s, OpPop) =>
       /\ Tracked(SubSeq(s.instructions, 1, s.lastInstruction.Position), s.previousInstruction)
       /\ s.lastInstruction.Position > 0 => s.previousInstruction.Opcode # OpPop

GoodScope(s) == Formed(s) /\ Ongoing(s.instructions)

(* What was emitted, pops aside, is still there.                           *)
CodeKept(s, t) ==
  \A p \in Starts(s.instructions) : s.instructions[p + 1] # OpPop =>
    p \in Starts(t.instructions) /\ t.instructions[p + 1] = s.instructions[p + 1]

(* The code b is the code a and one instruction.                           *)
OneMore(a, b) ==
  /\ a \in Seq(Bytes) /\ b \in Seq(Bytes)
  /\ Len(a) \in Starts(b) /\ Len(b) = Len(a) + Width(b[Len(a) + 1])
  /\ \A k \in 1..Len(a) : b[k] = a[k]

(* The code b is the code a with another operand o for the jump at pos.    *)
Patched(a, b, pos, o) ==
  /\ a \in Seq(Bytes) /\ b \in Seq(Bytes)
  /\ pos \in Starts(a) /\ Width(a[pos + 1]) = 3
  /\ Len(b) = Len(a) /\ Starts(b) = Starts(a)
  /\ b[pos + 1] = a[pos + 1] /\ ReadUint16(b, pos + 1) = o % (ByteSize * ByteSize)
  /\ \A k \in 1..Len(a) : k - pos \notin 1..3 => b[k] = a[k]

(* The starts of a code with one more instruction.                         *)
LEMMA OneMoreStart ==
  ASSUME NEW a, NEW b, OneMore(a, b)
  PROVE  /\ Starts(b) = Starts(a) \cup {Len(a)} /\ Len(a) \notin Starts(a)
         /\ \A p \in Starts(a) : /\ p \in Nat /\ p + Width(a[p + 1]) <= Len(a)
                                 /\ b[p + 1] = a[p + 1] /\ p + 1 \in 1..Len(a)
<1>. DEFINE m == Len(a)
<1>1. m \in Nat /\ Len(b) \in Nat /\ m < Len(b) /\ m \in Starts(b)
      /\ Len(b) = m + Width(b[m + 1])
  <2>1. m \in Nat /\ Len(b) \in Nat
    BY LenProperties DEF OneMore
  <2>. QED BY <2>1, WidthRange DEF OneMore
<1>2. Starts(a) \subseteq 0..m - 1 /\ Starts(b) \subseteq 0..Len(b) - 1
  BY <1>1, StartsClosed
<1>3. \A p \in Starts(a) : p \in Nat /\ p < m /\ p + 1 \in 1..m
  BY <1>1, <1>2
<1>4. \A p \in Starts(a) : b[p + 1] = a[p + 1]
  BY <1>3 DEF OneMore
<1>5. \A p \in Nat : p < m => (p \in Starts(a) <=> p \in Starts(b))
  BY <1>1, <1>4, StartsAgree
<1>6. ASSUME NEW p \in Starts(b), ~(p < m) PROVE p = m
  <2>1. p \in Nat /\ p < Len(b)
    BY <1>1, <1>2
  <2>2. p > m => Len(b) <= p
    BY <1>1, StartsApart
  <2>. QED BY <1>1, <1>6, <2>1, <2>2
<1>7. Starts(b) = Starts(a) \cup {m}
  <2>1. \A p \in Starts(b) : p \in Nat
    BY <1>1, <1>2
  <2>. QED BY <1>1, <1>3, <1>5, <1>6, <2>1
<1>8. m \notin Starts(a)
  BY <1>1, <1>3
<1>9. ASSUME NEW p \in Starts(a) PROVE p + Width(a[p + 1]) <= m
  <2>1. p \in Starts(b) /\ p < m
    BY <1>3, <1>7
  <2>2. p + Width(b[p + 1]) <= m
    BY <1>1, <2>1, StartsApart
  <2>. QED BY <1>4, <2>2
<1>. QED BY <1>3, <1>4, <1>7, <1>8, <1>9

(* An instruction more, or less.                                           *)
LEMMA OngoingOneMore ==
  ASSUME NEW a, NEW b, OneMore(a, b)
  PROVE  Ongoing(b) <=> Ongoing(a) /\ b[Len(a) + 1] # OpReturn
BY OneMoreStart DEF Ongoing

(* Make writes bytes (code.go:131-159).                                    *)
LEMMA MakeBytes ==
  ASSUME NEW op \in Opcodes, NEW operands \in [1..Len(OperandWidths(op)) -> Nat]
  PROVE  /\ Make(op, operands) \in Seq(Bytes) /\ Len(Make(op, operands)) = Width(op)
         /\ Make(op, operands)[1] = op
<1>. DEFINE m == Make(op, operands)
            w == OperandWidths(op)
<1>0. /\ m \in Seq(Nat) /\ Len(m) = Width(op) /\ Width(op) \in 1..4 /\ m[1] = op
      /\ w = <<1>> => m[2] = operands[1] % ByteSize
      /\ w = <<2>> => m[2] = (operands[1] \div ByteSize) % ByteSize /\ m[3] = operands[1] % ByteSize
      /\ w = <<2, 1>> => /\ m[2] = (operands[1] \div ByteSize) % ByteSize
                         /\ m[3] = operands[1] % ByteSize /\ m[4] = operands[2] % ByteSize
  BY MakeWrites
<1>1. ByteSize \in Nat /\ ByteSize > 28
  BY ByteSizeAssumption
<1>2. ASSUME NEW o \in Nat PROVE o % ByteSize \in Bytes /\ (o \div ByteSize) % ByteSize \in Bytes
  <2>1. o \div ByteSize \in Nat
    BY <1>1
  <2>. QED BY <1>1, <2>1 DEF Bytes
<1>3. op \in Bytes
  BY <1>1 DEF Opcodes, Bytes
<1>. HIDE DEF m
<1>4. ASSUME NEW k \in 1..Len(m) PROVE m[k] \in Bytes
  <2>1. CASE w = <<>> /\ Width(op) = 1
    <3>1. k = 1
      BY <1>0, <2>1
    <3>. QED BY <1>0, <1>3, <3>1
  <2>2. CASE w = <<2>> /\ Width(op) = 3
    <3>1. k \in {1, 2, 3} /\ operands[1] \in Nat
      BY <1>0, <2>2
    <3>2. m[2] \in Bytes /\ m[3] \in Bytes
      BY <1>0, <1>2, <2>2, <3>1
    <3>. QED BY <1>0, <1>3, <3>1, <3>2
  <2>3. CASE w = <<1>> /\ Width(op) = 2
    <3>1. k \in {1, 2} /\ operands[1] \in Nat
      BY <1>0, <2>3
    <3>2. m[2] \in Bytes
      BY <1>0, <1>2, <2>3, <3>1
    <3>. QED BY <1>0, <1>3, <3>1, <3>2
  <2>4. CASE w = <<2, 1>> /\ Width(op) = 4
    <3>1. k \in {1, 2, 3, 4} /\ operands[1] \in Nat /\ operands[2] \in Nat
      BY <1>0, <2>4
    <3>2. m[2] \in Bytes /\ m[3] \in Bytes /\ m[4] \in Bytes
      BY <1>0, <1>2, <2>4, <3>1
    <3>. QED BY <1>0, <1>3, <3>1, <3>2
  <2>. QED BY <2>1, <2>2, <2>3, <2>4, OperandLayouts
<1>5. m \in Seq(Bytes)
  <2>1. m = [k \in 1..Len(m) |-> m[k]] /\ Len(m) \in Nat
    BY <1>0, LenProperties
  <2>. QED BY <1>4, <2>1
<1>. QED BY <1>0, <1>5 DEF m

(* emit: what comes next is the last instruction now (compiler.go:344).    *)
LEMMA EmitGood ==
  ASSUME NEW s, GoodScope(s), NEW op \in Opcodes, op = OpPop => NoPop(s),
         NEW operands \in [1..Len(OperandWidths(op)) -> Nat]
  PROVE  LET e == Emit(s, op, operands)
         IN  /\ Formed(e) /\ (op # OpReturn => GoodScope(e))
             /\ CodeKept(s, e) /\ (op # OpPop => NoPop(e))
             /\ Len(s.instructions) \in Starts(e.instructions)
             /\ e.instructions[Len(s.instructions) + 1] = op
             /\ OneMore(s.instructions, e.instructions)
<1>. DEFINE e == Emit(s, op, operands)
            ins == s.instructions
            new == e.instructions
            m == Make(op, operands)
            L == Len(ins)
<1>1. /\ new = ins \o m /\ e.previousInstruction = s.lastInstruction
      /\ e.lastInstruction = [Opcode |-> op, Position |-> L]
  BY DEF Emit, CompilationScope, EmittedInstruction
<1>2. ins \in Seq(Bytes) /\ L \in Nat /\ m \in Seq(Bytes) /\ Len(m) = Width(op) /\ m[1] = op
      /\ Width(op) \in 1..4
  BY MakeBytes, WidthRange, LenProperties DEF GoodScope, Formed
<1>. HIDE DEF m, ins, e
<1>3. /\ new \in Seq(Bytes) /\ Len(new) = L + Width(op) /\ new # <<>>
      /\ \A k \in 1..L : new[k] = ins[k]
      /\ new[L + 1] = op
  <2>1. new \in Seq(Bytes) /\ Len(new) = L + Len(m)
    BY <1>1, <1>2, ConcatProperties
  <2>2. \A k \in 1..L : new[k] = ins[k]
    BY <1>1, <1>2, ConcatProperties
  <2>3. L + 1 \in 1..L + Len(m) /\ ~(L + 1 <= L) /\ (L + 1) - L = 1
    BY <1>2
  <2>4. new[L + 1] = m[1]
    BY <1>1, <1>2, <2>3, ConcatProperties
  <2>5. new # <<>>
    BY <1>2, <2>1, EmptySeq
  <2>. QED BY <1>2, <2>1, <2>2, <2>4, <2>5
<1>. HIDE DEF new
<1>4. Starts(ins) \subseteq 0..L - 1 /\ \A p \in Starts(ins) : p < L /\ p + 1 \in 1..L
  <2>1. Starts(ins) \subseteq 0..L - 1
    BY <1>2, StartsClosed
  <2>. QED BY <1>2, <2>1
<1>5. \A p \in Starts(ins) : p \in Starts(new) /\ new[p + 1] = ins[p + 1]
  <2>1. \A p \in Starts(ins) : p < L => new[p + 1] = ins[p + 1]
    BY <1>3, <1>4
  <2>2. Len(new) \in Nat /\ L <= Len(new)
    BY <1>2, <1>3
  <2>3. \A p \in Starts(ins) : p < L => p \in Starts(new)
    BY <1>2, <2>1, <2>2, StartsShared
  <2>. QED BY <1>4, <2>1, <2>3
<1>6. L \in Starts(new)
  <2>0. Len(new) \in Nat /\ Len(new) > 0 /\ Len(new) > L
    BY <1>2, <1>3
  <2>1. CASE ins = <<>>
    BY <1>2, <2>0, <2>1, EmptySeq, StartsClosed
  <2>2. CASE ins # <<>>
    <3>. DEFINE p == s.lastInstruction.Position
    <3>1. p \in Starts(ins) /\ p + Width(ins[p + 1]) = L
      BY <2>2 DEF GoodScope, Formed, Tracked, ins
    <3>2. p \in Starts(new) /\ p + Width(new[p + 1]) = L
      BY <1>5, <3>1
    <3>. QED BY <2>0, <3>2, StartsClosed
  <2>. QED BY <2>1, <2>2
<1>7. /\ e.lastInstruction.Opcode = op /\ e.lastInstruction.Position = L
      /\ e.lastInstruction \in Instruction /\ e.previousInstruction \in Instruction
  BY <1>1, <1>2 DEF GoodScope, Formed, Instruction
<1>8. Tracked(new, e.lastInstruction)
  BY <1>3, <1>6, <1>7 DEF Tracked
<1>9. LastInstructionIs(e, OpPop) <=> op = OpPop
  BY <1>3, <1>7 DEF LastInstructionIs, new
<1>10. ASSUME op = OpPop
       PROVE  /\ Tracked(SubSeq(new, 1, L), e.previousInstruction)
              /\ L > 0 => e.previousInstruction.Opcode # OpPop
  <2>1. SubSeq(new, 1, L) = ins
    <3>1. 1 \in 1..Len(new) + 1 /\ L \in 0..Len(new)
      BY <1>2, <1>3
    <3>2. SubSeq(new, 1, L) = [i \in 1..L |-> new[i]]
      BY <1>3, <3>1
    <3>3. ins = [i \in 1..L |-> ins[i]]
      BY <1>2, LenProperties
    <3>. QED BY <1>3, <3>2, <3>3
  <2>2. L > 0 => ins # <<>>
    BY <1>2, EmptySeq
  <2>. QED BY <1>1, <1>10, <2>1, <2>2 DEF GoodScope, Formed, ins, NoPop, LastInstructionIs
<1>11. Formed(e)
  BY <1>3, <1>7, <1>8, <1>9, <1>10 DEF Formed, new
<1>12. CodeKept(s, e)
  BY <1>5 DEF CodeKept, ins, new
<1>13. OneMore(ins, new)
  BY <1>2, <1>3, <1>6 DEF OneMore
<1>14. ASSUME op # OpReturn PROVE GoodScope(e)
  <2>1. Ongoing(ins)
    BY DEF GoodScope, ins
  <2>2. Ongoing(new)
    BY <1>3, <1>13, <1>14, <2>1, OngoingOneMore
  <2>. QED BY <1>11, <2>2 DEF GoodScope, new
<1>. QED BY <1>3, <1>6, <1>9, <1>11, <1>12, <1>13, <1>14 DEF NoPop, new, ins, e

(* removeLastPop, where the compiler calls it: the instruction before the  *)
(* pop becomes the last one (compiler.go:382).                             *)
LEMMA KeepValueGood ==
  ASSUME NEW s, GoodScope(s)
  PROVE  /\ GoodScope(KeepValue(s)) /\ CodeKept(s, KeepValue(s)) /\ NoPop(KeepValue(s))
         /\ IF LastInstructionIs(s, OpPop)
            THEN /\ OneMore(KeepValue(s).instructions, s.instructions)
                 /\ s.instructions[Len(KeepValue(s).instructions) + 1] = OpPop
                 /\ Len(KeepValue(s).instructions) = s.lastInstruction.Position
            ELSE KeepValue(s) = s
<1>1. CASE ~LastInstructionIs(s, OpPop)
  BY <1>1 DEF KeepValue, CodeKept, NoPop
<1>2. CASE LastInstructionIs(s, OpPop)
  <2>. DEFINE ins == s.instructions
              L == Len(ins)
              P == s.lastInstruction.Position
              cut == SubSeq(ins, 1, P)
              v == KeepValue(s)
  <2>1. /\ ins \in Seq(Bytes) /\ ins # <<>> /\ L \in Nat /\ P \in Nat
        /\ P \in Starts(ins) /\ P + 1 = L /\ ins[P + 1] = OpPop /\ Width(OpPop) = 1
    <3>1. Width(OpPop) = 1
      BY OperandTable DEF Wide, Narrow, OpPop, OpConstant, OpJumpNotTruthy, OpJump, OpSetGlobal,
                          OpGetGlobal, OpArray, OpHash, OpCall, OpSetLocal, OpGetLocal,
                          OpGetBuiltin, OpGetFree, OpClosure
    <3>2. ins \in Seq(Bytes) /\ P \in Nat /\ ins # <<>> /\ s.lastInstruction.Opcode = OpPop
      BY <1>2 DEF GoodScope, Formed, LastInstructionIs, Instruction
    <3>3. L \in Nat
      BY <3>2, LenProperties
    <3>. QED BY <3>1, <3>2, <3>3 DEF GoodScope, Formed, Tracked
  <2>2. /\ v.instructions = cut /\ v.lastInstruction = s.previousInstruction
        /\ v.previousInstruction = s.previousInstruction
    BY <1>2 DEF KeepValue, RemoveLastPop, CompilationScope
  <2>3. Tracked(cut, s.previousInstruction) /\ (P > 0 => s.previousInstruction.Opcode # OpPop)
    BY <1>2 DEF GoodScope, Formed
  <2>. HIDE DEF v
  <2>4. cut \in Seq(Bytes) /\ Len(cut) = P /\ \A k \in 1..P : cut[k] = ins[k]
    <3>1. 1 \in 1..L + 1 /\ P \in 0..L
      BY <2>1
    <3>2. cut = [i \in 1..P |-> ins[i]] /\ \A i \in 1..P : ins[i] \in Bytes
      BY <2>1, <3>1, ElementOfSeq
    <3>. HIDE DEF cut
    <3>3. cut \in Seq(Bytes)
      BY <2>1, <3>2
    <3>. QED BY <2>1, <3>2, <3>3
  <2>. HIDE DEF cut, ins, P
  <2>5. NoPop(v)
    <3>1. cut # <<>> => P > 0
      BY <2>1, <2>4, EmptySeq
    <3>. QED BY <2>2, <2>3, <3>1 DEF NoPop, LastInstructionIs
  <2>6. Formed(v)
    BY <2>2, <2>3, <2>4, <2>5 DEF GoodScope, Formed, NoPop
  <2>7. ASSUME NEW p \in Starts(ins), ins[p + 1] # OpPop
        PROVE  p \in Starts(cut) /\ cut[p + 1] = ins[p + 1]
    <3>0. \A q \in Starts(ins) : q \in 0..L - 1
      BY <2>1, StartsClosed
    <3>1. p \in Nat /\ p < P
      BY <2>1, <2>7, <3>0
    <3>2. \A q \in Starts(ins) : q < P => cut[q + 1] = ins[q + 1]
      <4>1. \A q \in Starts(ins) : q < P => q + 1 \in 1..P
        BY <2>1, <3>0
      <4>. QED BY <2>4, <4>1
    <3>3. P <= Len(cut) /\ Len(cut) \in Nat
      BY <2>1, <2>4
    <3>4. \A q \in Starts(ins) : q < P => q \in Starts(cut)
      BY <2>1, <3>2, <3>3, StartsShared
    <3>. QED BY <3>1, <3>2, <3>4
  <2>8. CodeKept(s, v)
    BY <2>2, <2>7 DEF CodeKept, ins
  <2>9. OneMore(cut, ins)
    BY <2>1, <2>4 DEF OneMore
  <2>10. GoodScope(v)
    <3>1. Ongoing(ins)
      BY DEF GoodScope, ins
    <3>2. Ongoing(cut)
      BY <2>9, <3>1, OngoingOneMore
    <3>. QED BY <2>2, <2>6, <3>2 DEF GoodScope
  <2>. QED BY <1>2, <2>1, <2>2, <2>4, <2>5, <2>8, <2>9, <2>10 DEF v, ins, P
<1>. QED BY <1>1, <1>2

(* changeOperand, where the compiler calls it: on a jump, which keeps its  *)
(* place and its opcode (compiler.go:400).                                 *)
LEMMA ChangeOperandGood ==
  ASSUME NEW s, GoodScope(s), NoPop(s), NEW pos \in Starts(s.instructions),
         s.instructions[pos + 1] \in {OpJump, OpJumpNotTruthy}, NEW operand \in Nat
  PROVE  LET c == ChangeOperand(s, pos, operand)
         IN  /\ GoodScope(c) /\ CodeKept(s, c) /\ NoPop(c)
             /\ Patched(s.instructions, c.instructions, pos, operand)
<1>. DEFINE ins == s.instructions
            L == Len(ins)
            op == ins[pos + 1]
            m == Make(op, <<operand>>)
            new == ReplaceInstructions(ins, pos, m)
            c == ChangeOperand(s, pos, operand)
<1>1. /\ c.instructions = new /\ c.lastInstruction = s.lastInstruction
      /\ c.previousInstruction = s.previousInstruction
  BY DEF ChangeOperand, CompilationScope
<1>2. ins \in Seq(Bytes) /\ L \in Nat /\ DOMAIN ins = 1..L /\ \A k \in 1..L : ins[k] \in Bytes
  BY LenProperties, ElementOfSeq DEF GoodScope, Formed
<1>3. OperandWidths(op) = <<2>> /\ Width(op) = 3 /\ op \in Opcodes
  <2>1. op \in Wide
    BY DEF Wide
  <2>2. op \in Opcodes
    BY DEF Opcodes, OpJumpNotTruthy, OpJump
  <2>. QED BY <2>1, <2>2, OperandTable
<1>4. m \in Seq(Bytes) /\ Len(m) = 3 /\ m[1] = op /\ DOMAIN m = 1..3
  <2>1. <<operand>> \in [1..Len(OperandWidths(op)) -> Nat]
    BY <1>3
  <2>2. m \in Seq(Bytes) /\ Len(m) = 3 /\ m[1] = op
    BY <1>3, <2>1, MakeBytes
  <2>. HIDE DEF m
  <2>. QED BY <2>2, LenProperties
<1>5. Starts(ins) \subseteq 0..L - 1 /\ pos \in Starts(ins)
  BY <1>2, StartsClosed
<1>. HIDE DEF m, op, ins, c
<1>6. new = [k \in 1..L |-> IF k - pos \in 1..3 THEN m[k - pos] ELSE ins[k]]
  BY <1>2, <1>4 DEF ReplaceInstructions
<1>. HIDE DEF new
<1>7. new \in Seq(Bytes) /\ Len(new) = L
  <2>1. \A k \in 1..3 : m[k] \in Bytes
    BY <1>4, ElementOfSeq
  <2>2. \A k \in 1..L : new[k] \in Bytes
    BY <1>2, <1>6, <2>1
  <2>3. new = [k \in 1..L |-> new[k]]
    BY <1>6
  <2>4. new \in Seq(Bytes)
    BY <1>2, <2>2, <2>3
  <2>. QED BY <1>2, <2>3, <2>4, LenProperties
<1>8. ASSUME NEW q \in Starts(ins) PROVE new[q + 1] = ins[q + 1]
  <2>0. q \in Nat /\ q + 1 \in 1..L /\ pos \in Nat
    BY <1>2, <1>5
  <2>1. CASE q = pos
    <3>1. (q + 1) - pos = 1
      BY <2>0, <2>1
    <3>. QED BY <1>4, <1>6, <2>0, <2>1, <3>1 DEF op
  <2>2. CASE q < pos
    <3>1. (q + 1) - pos \notin 1..3
      BY <2>0, <2>2
    <3>. QED BY <1>6, <2>0, <3>1
  <2>3. CASE q > pos
    <3>1. pos + Width(op) <= q
      BY <1>2, <1>5, <2>3, StartsApart DEF op
    <3>2. (q + 1) - pos \notin 1..3
      BY <1>3, <2>0, <3>1
    <3>. QED BY <1>6, <2>0, <3>2
  <2>. QED BY <2>0, <2>1, <2>2, <2>3
<1>9. \A q \in Starts(ins) : q \in Starts(new)
  <2>1. \A q \in Starts(ins) : q < L => q \in Starts(new)
    BY <1>2, <1>7, <1>8, StartsShared
  <2>2. \A q \in Starts(ins) : q < L
    BY <1>2, <1>5
  <2>. QED BY <2>1, <2>2
<1>10. new # <<>> <=> ins # <<>>
  BY <1>2, <1>7, EmptySeq
<1>11. NoPop(c)
  BY <1>1, <1>10 DEF NoPop, LastInstructionIs, ins
<1>12. Tracked(new, s.lastInstruction)
  <2>1. Tracked(ins, s.lastInstruction)
    BY DEF GoodScope, Formed, ins
  <2>. QED BY <1>7, <1>8, <1>9, <1>10, <2>1 DEF Tracked
<1>13. Formed(c)
  BY <1>1, <1>7, <1>11, <1>12 DEF GoodScope, Formed, NoPop
<1>14. CodeKept(s, c)
  BY <1>1, <1>8, <1>9 DEF CodeKept, ins
<1>15. Starts(new) = Starts(ins)
  <2>1. \A q \in Nat : q < L => (q \in Starts(ins) <=> q \in Starts(new))
    <3>1. /\ L \in Nat /\ Len(ins) = L /\ Len(new) = L
          /\ \A q \in Starts(ins) : q < L => new[q + 1] = ins[q + 1]
      BY <1>2, <1>7, <1>8
    <3>2. PICK n \in Nat : n = L
      BY <3>1
    <3>3. /\ Len(ins) \in Nat /\ Len(new) \in Nat /\ n <= Len(new) /\ n <= Len(ins)
          /\ \A q \in Starts(ins) : q < n => new[q + 1] = ins[q + 1]
      BY <3>1, <3>2
    <3>4. \A q \in Nat : q < n => (q \in Starts(ins) <=> q \in Starts(new))
      BY ONLY <3>3, StartsAgree
    <3>. QED BY ONLY <3>2, <3>4
  <2>2. Starts(new) \subseteq 0..L - 1
    BY <1>2, <1>7, StartsClosed
  <2>3. \A q \in 0..L - 1 : q \in Nat /\ q < L
    BY <1>2
  <2>. QED BY <1>5, <2>1, <2>2, <2>3
<1>16. new[pos + 1] = ins[pos + 1] /\ \A k \in 1..L : k - pos \notin 1..3 => new[k] = ins[k]
  BY <1>5, <1>6, <1>8
<1>17. ReadUint16(new, pos + 1) = operand % (ByteSize * ByteSize)
  <2>1. pos \in Nat /\ pos + 3 <= L
    <3>1. pos \in Nat
      BY <1>2, <1>5
    <3>. DEFINE last == s.lastInstruction.Position
    <3>2. last \in Starts(ins) /\ last + Width(ins[last + 1]) = L
      <4>1. ins # <<>>
        BY <1>2, <1>5, EmptySeq
      <4>. QED BY <4>1 DEF GoodScope, Formed, Tracked, ins
    <3>. HIDE DEF last
    <3>3. last \in Nat
      BY <1>5, <3>2
    <3>4. CASE pos = last
      BY <1>3, <3>1, <3>2, <3>4 DEF op
    <3>5. CASE pos < last
      <4>1. pos + Width(op) <= last
        BY <1>2, <1>5, <3>2, <3>5, StartsApart DEF op
      <4>. QED BY <1>2, <1>3, <1>5, <3>1, <3>2, <3>3, <4>1
    <3>6. CASE pos > last
      <4>1. L <= pos
        BY <1>2, <1>5, <3>2, <3>6, StartsApart
      <4>. QED BY <1>2, <1>5, <3>1, <4>1
    <3>. QED BY <3>1, <3>3, <3>4, <3>5, <3>6
  <2>2. \A j \in 1..3 : new[pos + j] = m[j]
    <3>1. \A j \in 1..3 : pos + j \in 1..L /\ (pos + j) - pos = j
      BY <1>2, <2>1
    <3>. QED BY <1>6, <3>1
  <2>3. m[2] = (operand \div ByteSize) % ByteSize /\ m[3] = operand % ByteSize
    <3>1. <<operand>> \in [1..Len(OperandWidths(op)) -> Nat]
      BY <1>3
    <3>2. m[2] = (<<operand>>[1] \div ByteSize) % ByteSize /\ m[3] = <<operand>>[1] % ByteSize
      BY <1>3, <3>1, MakeWrites DEF m
    <3>. QED BY <3>2
  <2>4. new[(pos + 1) + 1] = m[2] /\ new[(pos + 1) + 2] = m[3]
    <3>1. (pos + 1) + 1 = pos + 2 /\ (pos + 1) + 2 = pos + 3
      BY <2>1
    <3>. QED BY <2>2, <3>1
  <2>5. ByteSize \in Nat /\ ByteSize > 1
    BY ByteSizeAssumption
  <2>6. ((operand \div ByteSize) % ByteSize) * ByteSize + (operand % ByteSize)
          = operand % (ByteSize * ByteSize)
    BY <2>5, TwoBytes
  <2>. QED BY <2>3, <2>4, <2>6 DEF ReadUint16
<1>18. Patched(ins, new, pos, operand)
  BY <1>2, <1>3, <1>5, <1>7, <1>15, <1>16, <1>17 DEF Patched, op
<1>19. GoodScope(c)
  <2>1. Ongoing(ins)
    BY DEF GoodScope, ins
  <2>2. Ongoing(new)
    BY <1>8, <1>15, <2>1 DEF Ongoing
  <2>. QED BY <1>1, <1>13, <2>2 DEF GoodScope
<1>. QED BY <1>1, <1>11, <1>14, <1>18, <1>19 DEF c, ins

(* A new scope has no code and so no last instruction.                     *)
LEMMA NewScopeGood == GoodScope(NewScope) /\ NoPop(NewScope)
<1>1. /\ NewScope.instructions = <<>> /\ NewScope.lastInstruction = [Opcode |-> 0, Position |-> 0]
      /\ NewScope.previousInstruction = [Opcode |-> 0, Position |-> 0]
  BY DEF NewScope, CompilationScope, EmittedInstruction
<1>2. [Opcode |-> 0, Position |-> 0] \in Instruction /\ <<>> \in Seq(Bytes)
  BY DEF Instruction, Opcodes
<1>3. Ongoing(<<>>)
  <2>1. Starts(<<>>) \subseteq 0..0 - 1
    BY <1>2, StartsClosed
  <2>. QED BY <2>1 DEF Ongoing
<1>. QED BY <1>1, <1>2, <1>3 DEF GoodScope, Formed, NoPop, LastInstructionIs, Tracked

(* No instruction is cut off at the end of the code.                       *)
Whole(ins) == \A p \in Starts(ins) : p + Width(ins[p + 1]) <= Len(ins)

(* The last instruction ends where the code does, and no other overlaps it.*)
LEMMA FormedWhole ==
  ASSUME NEW s, Formed(s)
  PROVE  Whole(s.instructions)
<1>. DEFINE ins == s.instructions
            L == Len(ins)
            q == s.lastInstruction.Position
<1>1. L \in Nat /\ Tracked(ins, s.lastInstruction)
  BY LenProperties DEF GoodScope, Formed
<1>2. ASSUME NEW p \in Starts(ins) PROVE p + Width(ins[p + 1]) <= L
  <2>1. p \in 0..L - 1
    BY <1>1, StartsClosed
  <2>2. ins # <<>>
    BY <2>1
  <2>3. q \in Starts(ins) /\ q + Width(ins[q + 1]) = L
    BY <1>1, <2>2 DEF Tracked
  <2>4. q \in 0..L - 1
    BY <1>1, <2>3, StartsClosed
  <2>5. p < q => p + Width(ins[p + 1]) <= q
    BY <1>1, <2>3, StartsApart
  <2>6. q < p => L <= p
    BY <1>1, <2>3, StartsApart
  <2>7. Width(ins[p + 1]) \in Nat /\ Width(ins[q + 1]) \in Nat
    BY WidthRange
  <2>. HIDE DEF ins, L, q
  <2>8. p < q \/ p = q \/ q < p
    BY <2>1, <2>4
  <2>. QED BY <1>1, <2>1, <2>3, <2>4, <2>5, <2>6, <2>7, <2>8
<1>. QED BY <1>2 DEF Whole

(* So it is while the code is written.                                     *)
LEMMA GoodScopeWhole ==
  ASSUME NEW s, GoodScope(s)
  PROVE  Whole(s.instructions)
BY FormedWhole DEF GoodScope

(* Keeping what was emitted goes from step to step.                        *)
LEMMA CodeKeptTransitive ==
  ASSUME NEW s, NEW t, NEW u, CodeKept(s, t), CodeKept(t, u)
  PROVE  CodeKept(s, u)
BY DEF CodeKept

-----------------------------------------------------------------------------
(* Jumps.  The operand of a jump is its target, cut to two bytes: T is the *)
(* target that was meant.  A conditional jump goes behind a jump.          *)
JumpOps == {OpJump, OpJumpNotTruthy}

Jumps(ins) == {p \in Starts(ins) : ins[p + 1] \in JumpOps}

Lands(ins, p, T) ==
  /\ T > p /\ ReadUint16(ins, p + 1) = T % (ByteSize * ByteSize)
  /\ ins[p + 1] = OpJumpNotTruthy => T - 3 \in Starts(ins) /\ ins[(T - 3) + 1] = OpJump

(* Every jump goes to an instruction, or at most behind the last one; the  *)
(* jumps in P may still wait for their targets.                            *)
Settled(ins, P) == \A p \in Jumps(ins) \ P : \E T \in Starts(ins) \cup {Len(ins)} : Lands(ins, p, T)
Tight(ins, P)   == \A p \in Jumps(ins) \ P : \E T \in Starts(ins) : Lands(ins, p, T)

(* A pop that may be taken off is no jump's reason to be there.            *)
GoodJumps(s, P) ==
  /\ Settled(s.instructions, P)
  /\ LastInstructionIs(s, OpPop) => Tight(s.instructions, P)

(* More jumps may wait, and a jump to an instruction is a jump.            *)
LEMMA MoreWait ==
  ASSUME NEW ins, NEW P, NEW Q, P \subseteq Q
  PROVE  /\ Settled(ins, P) => Settled(ins, Q)
         /\ Tight(ins, P) => Tight(ins, Q)
         /\ Tight(ins, P) => Settled(ins, P)
BY DEF Settled, Tight

(* A jump takes three bytes.                                               *)
LEMMA JumpWidth ==
  ASSUME NEW op \in JumpOps
  PROVE  Width(op) = 3 /\ OperandWidths(op) = <<2>> /\ op \in Opcodes /\ op # OpPop
<1>1. op \in Wide /\ op \in Opcodes /\ op # OpPop
  BY DEF JumpOps, Wide, Opcodes, OpJump, OpJumpNotTruthy, OpPop
<1>. QED BY <1>1, OperandTable

(* An instruction behind the code makes every jump behind the last one a   *)
(* jump to an instruction, and the other way around.                       *)
LEMMA OneMoreLands ==
  ASSUME NEW a, NEW b, OneMore(a, b), NEW P
  PROVE  /\ Settled(a, P) => Tight(b, P \cup {Len(a)})
         /\ b[Len(a) + 1] \notin JumpOps => (Settled(a, P) <=> Tight(b, P))
<1>. DEFINE m == Len(a)
<1>1. /\ Starts(b) = Starts(a) \cup {m} /\ m \notin Starts(a)
      /\ \A p \in Starts(a) : /\ p \in Nat /\ p + Width(a[p + 1]) <= m
                              /\ b[p + 1] = a[p + 1] /\ p + 1 \in 1..m
  BY OneMoreStart
<1>2. m \in Nat
  BY LenProperties DEF OneMore
<1>3. \A p : p \in Jumps(a) <=> p \in Jumps(b) \ {m}
  BY <1>1 DEF Jumps
<1>4. b[m + 1] \notin JumpOps => m \notin Jumps(b)
  BY DEF Jumps
<1>5. ASSUME NEW p \in Jumps(a), NEW T \in Starts(b)
      PROVE  Lands(a, p, T) <=> Lands(b, p, T)
  <2>1. p \in Starts(a) /\ p \in Nat /\ Width(a[p + 1]) = 3 /\ b[p + 1] = a[p + 1]
    BY <1>1, JumpWidth DEF Jumps
  <2>2. p + 3 <= m
    BY <1>1, <2>1
  <2>3. (p + 1) + 1 \in 1..m /\ (p + 1) + 2 \in 1..m
    BY <1>2, <2>1, <2>2
  <2>4. ReadUint16(b, p + 1) = ReadUint16(a, p + 1)
    BY <2>3 DEF ReadUint16, OneMore
  <2>5. T - 3 # m
    <3>1. T \in Nat /\ T <= m
      <4>1. \A q \in Starts(a) : q <= m
        <5>1. \A q \in Starts(a) : q \in Nat /\ q + 1 \in 1..m
          BY <1>1
        <5>. QED BY <1>2, <5>1
      <4>. QED BY <1>1, <1>2, <4>1
    <3>. QED BY <1>2, <3>1
  <2>6. T - 3 \in Starts(a) <=> T - 3 \in Starts(b)
    BY <1>1, <2>5
  <2>7. T - 3 \in Starts(a) => b[(T - 3) + 1] = a[(T - 3) + 1]
    BY <1>1
  <2>. QED BY <2>1, <2>4, <2>6, <2>7 DEF Lands
<1>6. ASSUME Settled(a, P) PROVE Tight(b, P \cup {m})
  <2>. SUFFICES ASSUME NEW p \in Jumps(b) \ (P \cup {m})
                PROVE  \E T \in Starts(b) : Lands(b, p, T)
    BY DEF Tight
  <2>1. p \in Jumps(a) \ P
    BY <1>3
  <2>2. PICK T \in Starts(a) \cup {m} : Lands(a, p, T)
    BY <1>6, <2>1 DEF Settled
  <2>. QED BY <1>1, <1>5, <2>1, <2>2
<1>7. ASSUME b[m + 1] \notin JumpOps, Tight(b, P) PROVE Settled(a, P)
  <2>. SUFFICES ASSUME NEW p \in Jumps(a) \ P
                PROVE  \E T \in Starts(a) \cup {m} : Lands(a, p, T)
    BY DEF Settled
  <2>1. p \in Jumps(b) \ P
    BY <1>3
  <2>2. PICK T \in Starts(b) : Lands(b, p, T)
    BY <1>7, <2>1 DEF Tight
  <2>. QED BY <1>1, <1>5, <2>2
<1>8. ASSUME b[m + 1] \notin JumpOps, Settled(a, P) PROVE Tight(b, P)
  BY <1>4, <1>6, <1>8 DEF Tight
<1>. QED BY <1>6, <1>7, <1>8

(* emit: a jump that is emitted waits for its target, and the targets so   *)
(* far are instructions now.                                               *)
LEMMA EmitJumps ==
  ASSUME NEW s, GoodScope(s), NEW op \in Opcodes, op = OpPop => NoPop(s),
         NEW operands \in [1..Len(OperandWidths(op)) -> Nat], NEW P, GoodJumps(s, P)
  PROVE  LET e == Emit(s, op, operands)
         IN  /\ GoodJumps(e, P \cup {Len(s.instructions)})
             /\ op \notin JumpOps => GoodJumps(e, P) /\ Tight(e.instructions, P)
<1>. DEFINE e == Emit(s, op, operands)
            m == Len(s.instructions)
<1>1. OneMore(s.instructions, e.instructions) /\ e.instructions[m + 1] = op
  BY EmitGood
<1>. HIDE DEF e
<1>2. Settled(s.instructions, P)
  BY DEF GoodJumps
<1>3. Tight(e.instructions, P \cup {m}) /\ (op \notin JumpOps => Tight(e.instructions, P))
  BY <1>1, <1>2, OneMoreLands
<1>. HIDE DEF m
<1>4. \A Q : Tight(e.instructions, Q) => GoodJumps(e, Q)
  BY MoreWait DEF GoodJumps
<1>. QED BY <1>3, <1>4 DEF e, m

(* removeLastPop: no jump went behind the pop.                             *)
LEMMA KeepValueJumps ==
  ASSUME NEW s, GoodScope(s), NEW P, GoodJumps(s, P)
  PROVE  GoodJumps(KeepValue(s), P)
<1>. DEFINE v == KeepValue(s)
<1>1. CASE LastInstructionIs(s, OpPop)
  <2>1. /\ OneMore(v.instructions, s.instructions) /\ NoPop(v)
        /\ s.instructions[Len(v.instructions) + 1] = OpPop
    BY <1>1, KeepValueGood
  <2>2. OpPop \notin JumpOps
    BY DEF JumpOps, OpPop, OpJump, OpJumpNotTruthy
  <2>3. Tight(s.instructions, P)
    BY <1>1 DEF GoodJumps
  <2>. HIDE DEF v
  <2>4. Settled(v.instructions, P)
    BY <2>1, <2>2, <2>3, OneMoreLands
  <2>. QED BY <2>1, <2>4 DEF GoodJumps, NoPop, v
<1>2. CASE ~LastInstructionIs(s, OpPop)
  BY <1>2, KeepValueGood
<1>. QED BY <1>1, <1>2

(* changeOperand: the jump at pos gets its target.                         *)
LEMMA ChangeOperandJumps ==
  ASSUME NEW s, GoodScope(s), NoPop(s), NEW pos \in Starts(s.instructions),
         s.instructions[pos + 1] \in JumpOps,
         NEW target \in Starts(s.instructions) \cup {Len(s.instructions)}, target > pos,
         s.instructions[pos + 1] = OpJumpNotTruthy =>
           target - 3 \in Starts(s.instructions) /\ s.instructions[(target - 3) + 1] = OpJump,
         NEW P, GoodJumps(s, P \cup {pos})
  PROVE  GoodJumps(ChangeOperand(s, pos, target), P)
<1>. DEFINE c == ChangeOperand(s, pos, target)
            a == s.instructions
            b == c.instructions
            L == Len(a)
<1>1. /\ L \in Nat /\ Starts(a) \subseteq 0..L - 1
  <2>1. L \in Nat
    BY LenProperties DEF GoodScope, Formed
  <2>. QED BY <2>1, StartsClosed
<1>2. target \in Nat
  BY <1>1
<1>3. Patched(a, b, pos, target) /\ NoPop(c)
  BY <1>2, ChangeOperandGood DEF JumpOps
<1>. HIDE DEF c, b
<1>4. /\ Len(b) = L /\ Starts(b) = Starts(a) /\ b[pos + 1] = a[pos + 1]
      /\ ReadUint16(b, pos + 1) = target % (ByteSize * ByteSize)
      /\ \A k \in 1..L : k - pos \notin 1..3 => b[k] = a[k]
  BY <1>3 DEF Patched
<1>5. ASSUME NEW q \in Starts(a), q # pos
      PROVE  /\ b[q + 1] = a[q + 1]
             /\ a[q + 1] \in JumpOps /\ q + 3 <= L => ReadUint16(b, q + 1) = ReadUint16(a, q + 1)
  <2>1. q \in Nat /\ pos \in Nat /\ q + 1 \in 1..L
    BY <1>1
  <2>2. CASE q < pos
    <3>1. b[q + 1] = a[q + 1]
      BY <1>4, <2>1, <2>2
    <3>2. ASSUME a[q + 1] \in JumpOps, q + 3 <= L PROVE ReadUint16(b, q + 1) = ReadUint16(a, q + 1)
      <4>1. q + Width(a[q + 1]) <= pos
        BY <1>1, <2>2, StartsApart
      <4>2. Width(a[q + 1]) = 3
        BY <3>2, JumpWidth
      <4>3. /\ (q + 1) + 1 \in 1..L /\ (q + 1) + 2 \in 1..L
            /\ ((q + 1) + 1) - pos \notin 1..3 /\ ((q + 1) + 2) - pos \notin 1..3
        BY <1>1, <2>1, <3>2, <4>1, <4>2
      <4>. QED BY <1>4, <4>3 DEF ReadUint16
    <3>. QED BY <3>1, <3>2
  <2>3. CASE q > pos
    <3>0. pos + 3 <= q
      <4>1. pos + Width(a[pos + 1]) <= q
        BY <1>1, <2>3, StartsApart
      <4>2. Width(a[pos + 1]) = 3
        BY JumpWidth
      <4>. QED BY <4>1, <4>2
    <3>1. b[q + 1] = a[q + 1]
      <4>1. (q + 1) - pos \notin 1..3
        BY <2>1, <3>0
      <4>. QED BY <1>4, <2>1, <4>1
    <3>2. ASSUME q + 3 <= L PROVE ReadUint16(b, q + 1) = ReadUint16(a, q + 1)
      <4>1. /\ (q + 1) + 1 \in 1..L /\ (q + 1) + 2 \in 1..L
            /\ ((q + 1) + 1) - pos \notin 1..3 /\ ((q + 1) + 2) - pos \notin 1..3
        BY <1>1, <2>1, <3>0, <3>2
      <4>. QED BY <1>4, <4>1 DEF ReadUint16
    <3>. QED BY <3>1, <3>2
  <2>. QED BY <1>5, <2>1, <2>2, <2>3
<1>6. \A q \in Starts(a) : b[q + 1] = a[q + 1]
  BY <1>4, <1>5
<1>7. \A p : p \in Jumps(a) <=> p \in Jumps(b)
  BY <1>4, <1>6 DEF Jumps
<1>8. ASSUME NEW p \in Jumps(a) PROVE p + 3 <= L
  <2>. DEFINE last == s.lastInstruction.Position
  <2>0. p \in Starts(a) /\ p \in Nat /\ Width(a[p + 1]) = 3
    BY <1>1, JumpWidth DEF Jumps
  <2>1. last \in Starts(a) /\ last + Width(a[last + 1]) = L
    <3>1. a # <<>>
      BY <1>1, <2>0, EmptySeq
    <3>. QED BY <3>1 DEF GoodScope, Formed, Tracked
  <2>. HIDE DEF last
  <2>2. last \in Nat /\ last < L
    BY <1>1, <2>1
  <2>3. CASE p = last
    BY <2>0, <2>1, <2>3
  <2>4. CASE p < last
    <3>1. p + Width(a[p + 1]) <= last
      BY <1>1, <2>0, <2>1, <2>4, StartsApart
    <3>. QED BY <1>1, <2>0, <2>2, <3>1
  <2>5. CASE p > last
    <3>1. L <= p
      BY <1>1, <2>0, <2>1, <2>5, StartsApart
    <3>. QED BY <1>1, <2>0, <3>1
  <2>. QED BY <2>0, <2>2, <2>3, <2>4, <2>5
<1>9. ASSUME NEW p \in Jumps(b) \ P
      PROVE  \E T \in Starts(b) \cup {Len(b)} : Lands(b, p, T)
  <2>1. CASE p = pos
    <3>1. Lands(b, pos, target)
      BY <1>4, <1>6 DEF Lands
    <3>. QED BY <1>4, <2>1, <3>1
  <2>2. CASE p # pos
    <3>1. p \in Jumps(a) \ (P \cup {pos})
      BY <1>7, <1>9, <2>2
    <3>2. PICK T \in Starts(a) \cup {L} : Lands(a, p, T)
      BY <3>1 DEF GoodJumps, Settled
    <3>3. b[p + 1] = a[p + 1] /\ ReadUint16(b, p + 1) = ReadUint16(a, p + 1)
      BY <1>5, <1>8, <2>2, <3>1 DEF Jumps
    <3>4. Lands(b, p, T)
      BY <1>4, <1>6, <3>2, <3>3 DEF Lands
    <3>. QED BY <1>4, <3>2, <3>4
  <2>. QED BY <2>1, <2>2
<1>10. Settled(b, P)
  BY <1>9 DEF Settled
<1>. QED BY <1>3, <1>10 DEF GoodJumps, NoPop, b, c

(* A new scope has no jumps.                                               *)
LEMMA NewScopeJumps ==
  ASSUME NEW P
  PROVE  GoodJumps(NewScope, P) /\ Tight(NewScope.instructions, P)
<1>1. NewScope.instructions = <<>> /\ Len(<<>>) = 0
  BY DEF NewScope, CompilationScope
<1>2. Starts(<<>>) \subseteq 0..0 - 1
  BY <1>1, StartsClosed
<1>3. Jumps(<<>>) = {}
  BY <1>2 DEF Jumps
<1>. QED BY <1>1, <1>3 DEF GoodJumps, Settled, Tight

(* What is done to a scope keeps its jumps good, those in done get their   *)
(* targets, those in new wait; or every target is an instruction.          *)
Passes(s, done, t, new) == \A P : GoodJumps(s, P \cup done) => GoodJumps(t, P \cup new)
Closes(s, done, t)      == \A P : GoodJumps(s, P \cup done) => Tight(t.instructions, P)

(* The end of a function body: the last pop becomes a return, or a return  *)
(* is there or comes behind it; no jump goes behind the end.               *)
LEMMA EndBodyJumps ==
  ASSUME NEW s, GoodScope(s), NEW P, GoodJumps(s, P), Tight(s.instructions, P)
  PROVE  /\ Tight(EndBody(s).instructions, P) /\ Len(EndBody(s).instructions) \in Nat
         /\ \E g \in {s, Emit(KeepValue(s), OpReturnValue, <<>>), Emit(s, OpReturn, <<>>)} :
              Formed(g) /\ EndBody(s).instructions = g.instructions
<1>. DEFINE ins == s.instructions
            L == Len(ins)
<1>0. ins \in Seq(Bytes) /\ L \in Nat /\ DOMAIN ins = 1..L
  BY LenProperties DEF GoodScope, Formed
<1>1. /\ OpReturn \in Opcodes /\ <<>> \in [1..Len(OperandWidths(OpReturn)) -> Nat] /\ OpReturn # OpPop
      /\ OpReturnValue \in Opcodes /\ <<>> \in [1..Len(OperandWidths(OpReturnValue)) -> Nat]
      /\ OpReturnValue # OpPop /\ OpReturn \notin JumpOps /\ OpReturnValue \notin JumpOps
      /\ Width(OpReturnValue) = 1
  <2>1. /\ OpReturn \notin Wide \cup Narrow \cup {OpClosure} /\ OpReturn \in Opcodes
        /\ OpReturnValue \notin Wide \cup Narrow \cup {OpClosure} /\ OpReturnValue \in Opcodes
        /\ OpReturn # OpPop /\ OpReturnValue # OpPop
        /\ OpReturn \notin JumpOps /\ OpReturnValue \notin JumpOps
    BY DEF Opcodes, JumpOps, Wide, Narrow, OpConstant, OpJumpNotTruthy, OpJump, OpSetGlobal,
           OpGetGlobal, OpArray, OpHash, OpCall, OpSetLocal, OpGetLocal, OpGetBuiltin, OpGetFree,
           OpClosure, OpPop, OpReturnValue, OpReturn
  <2>2. /\ OperandWidths(OpReturn) = <<>> /\ OperandWidths(OpReturnValue) = <<>>
        /\ Width(OpReturnValue) = 1
    BY <2>1, OperandTable
  <2>3. <<>> \in [1..Len(<<>>) -> Nat]
    OBVIOUS
  <2>. QED BY <2>1, <2>2, <2>3
<1>2. CASE LastInstructionIs(s, OpPop)
  <2>. DEFINE v == KeepValue(s)
              e == Emit(v, OpReturnValue, <<>>)
              m == Make(OpReturnValue, <<>>)
              pos == s.lastInstruction.Position
              r == ReplaceLastPopWithReturn(s)
  <2>1. /\ GoodScope(v) /\ GoodJumps(v, P) /\ OneMore(v.instructions, ins)
        /\ Len(v.instructions) = pos /\ ins[pos + 1] = OpPop
    BY <1>2, KeepValueGood, KeepValueJumps
  <2>. HIDE DEF v
  <2>2. Tight(e.instructions, P) /\ Formed(e)
    BY <1>1, <2>1, EmitJumps, EmitGood
  <2>3. /\ r.instructions = ReplaceInstructions(ins, pos, m)
        /\ r.lastInstruction.Opcode = OpReturnValue
    BY DEF ReplaceLastPopWithReturn, CompilationScope, EmittedInstruction
  <2>4. e.instructions = v.instructions \o m
    BY DEF Emit, CompilationScope
  <2>5. m \in Seq(Bytes) /\ Len(m) = 1 /\ m[1] = OpReturnValue
    BY <1>1, MakeBytes
  <2>. HIDE DEF m, e
  <2>6. /\ v.instructions \in Seq(Bytes) /\ pos \in Nat /\ L = pos + 1
        /\ \A k \in 1..pos : ins[k] = v.instructions[k]
    <3>1. Width(OpPop) = 1
      BY OperandTable DEF Wide, Narrow, OpPop, OpConstant, OpJumpNotTruthy, OpJump, OpSetGlobal,
                          OpGetGlobal, OpArray, OpHash, OpCall, OpSetLocal, OpGetLocal,
                          OpGetBuiltin, OpGetFree, OpClosure
    <3>2. v.instructions \in Seq(Bytes) /\ pos \in Nat
      BY <2>1, LenProperties DEF OneMore
    <3>. QED BY <2>1, <3>1, <3>2 DEF OneMore
  <2>. HIDE DEF pos
  <2>7. r.instructions = e.instructions /\ Len(e.instructions) = L
    <3>. DEFINE x == v.instructions
                y == x \o m
    <3>0. x \in Seq(Bytes) /\ m \in Seq(Bytes) /\ Len(x) = pos /\ Len(m) = 1 /\ pos \in Nat
      BY <2>1, <2>5, <2>6
    <3>. HIDE DEF x
    <3>1. /\ y \in Seq(Bytes) /\ Len(y) = pos + 1
          /\ \A k \in 1..pos + 1 : y[k] = IF k <= pos THEN x[k] ELSE m[k - pos]
      <4>1. /\ x \o m \in Seq(Bytes) /\ Len(x \o m) = Len(x) + Len(m)
            /\ \A k \in 1..Len(x) + Len(m) :
                 (x \o m)[k] = IF k <= Len(x) THEN x[k] ELSE m[k - Len(x)]
        BY <3>0, ConcatProperties
      <4>. QED BY <3>0, <4>1
    <3>. HIDE DEF y
    <3>2. y = [k \in 1..pos + 1 |-> y[k]]
      BY <3>1, LenProperties
    <3>3. DOMAIN m = 1..1
      BY <2>5, LenProperties
    <3>4. r.instructions = [k \in 1..pos + 1 |-> IF k - pos \in 1..1 THEN m[k - pos] ELSE ins[k]]
      BY <1>0, <2>3, <2>6, <3>3 DEF ReplaceInstructions
    <3>5. ASSUME NEW k \in 1..pos + 1
          PROVE  (IF k - pos \in 1..1 THEN m[k - pos] ELSE ins[k]) = y[k]
      <4>1. CASE k <= pos
        <5>1. k \in 1..pos /\ k - pos \notin 1..1
          BY <3>0, <4>1
        <5>. QED BY <2>6, <3>1, <4>1, <5>1 DEF x
      <4>2. CASE ~(k <= pos)
        <5>1. k - pos \in 1..1
          BY <3>0, <4>2
        <5>. QED BY <3>1, <4>2, <5>1
      <4>. QED BY <4>1, <4>2
    <3>6. r.instructions = y
      BY <3>2, <3>4, <3>5
    <3>. QED BY <2>4, <2>6, <3>1, <3>6 DEF y, x
  <2>8. r.instructions # <<>>
    BY <1>0, <2>6, <2>7
  <2>. HIDE DEF r
  <2>9. EndBody(s) = r
    BY <1>2, <2>3, <2>8 DEF EndBody, LastInstructionIs, r
  <2>. QED BY <1>0, <2>2, <2>7, <2>9 DEF e, v
<1>3. CASE ~LastInstructionIs(s, OpPop)
  <2>1. CASE LastInstructionIs(s, OpReturnValue)
    BY <1>0, <1>3, <2>1 DEF EndBody, GoodScope
  <2>2. CASE ~LastInstructionIs(s, OpReturnValue)
    <3>. DEFINE e == Emit(s, OpReturn, <<>>)
    <3>1. EndBody(s) = e
      BY <1>3, <2>2 DEF EndBody
    <3>2. Tight(e.instructions, P) /\ Formed(e)
      BY <1>1, EmitJumps, EmitGood
    <3>. HIDE DEF e
    <3>3. Len(e.instructions) \in Nat
      BY <3>2, LenProperties DEF GoodScope, Formed
    <3>. QED BY <3>1, <3>2, <3>3 DEF e
  <2>. QED BY <2>1, <2>2
<1>. QED BY <1>2, <1>3

(* More jumps may wait.                                                    *)
LEMMA GoodJumpsWait ==
  ASSUME NEW s, NEW P, NEW Q, P \subseteq Q, GoodJumps(s, P)
  PROVE  GoodJumps(s, Q)
BY MoreWait DEF GoodJumps

(* The opcodes without operands.                                           *)
LEMMA PlainOpcodes ==
  ASSUME NEW op \in {OpAdd, OpSub, OpMul, OpDiv, OpPop, OpTrue, OpFalse, OpEqual, OpNotEqual,
                     OpGreaterThan, OpMinus, OpBang, OpNull, OpIndex, OpReturnValue, OpReturn}
  PROVE  /\ op \in Opcodes /\ <<>> \in [1..Len(OperandWidths(op)) -> Nat] /\ op \notin JumpOps
         /\ op \in {OpAdd, OpSub, OpMul, OpDiv, OpTrue, OpFalse, OpEqual, OpNotEqual, OpGreaterThan,
                    OpMinus, OpBang, OpNull, OpIndex, OpReturnValue, OpReturn} => op # OpPop
         /\ op \in {OpAdd, OpSub, OpMul, OpDiv, OpPop, OpTrue, OpFalse, OpEqual, OpNotEqual, OpGreaterThan,
                    OpMinus, OpBang, OpNull, OpIndex, OpReturnValue} => op # OpReturn
<1>1. /\ op \in Opcodes /\ op \notin Wide \cup Narrow \cup {OpClosure}
      /\ op \in {OpAdd, OpSub, OpMul, OpDiv, OpTrue, OpFalse, OpEqual, OpNotEqual, OpGreaterThan,
                 OpMinus, OpBang, OpNull, OpIndex, OpReturnValue, OpReturn} => op # OpPop
      /\ op \in {OpAdd, OpSub, OpMul, OpDiv, OpPop, OpTrue, OpFalse, OpEqual, OpNotEqual, OpGreaterThan,
                 OpMinus, OpBang, OpNull, OpIndex, OpReturnValue} => op # OpReturn
  BY DEF Opcodes, Wide, Narrow, OpConstant, OpJumpNotTruthy, OpJump, OpSetGlobal, OpGetGlobal,
         OpArray, OpHash, OpCall, OpSetLocal, OpGetLocal, OpGetBuiltin, OpGetFree, OpClosure,
         OpAdd, OpSub, OpMul, OpDiv, OpPop, OpTrue, OpFalse, OpEqual, OpNotEqual,
         OpGreaterThan, OpMinus, OpBang, OpNull, OpIndex, OpReturnValue, OpReturn
<1>2. OperandWidths(op) = <<>>
  BY <1>1, OperandTable
<1>3. <<>> \in [1..Len(<<>>) -> Nat]
  OBVIOUS
<1>4. op \notin JumpOps
  BY <1>1 DEF JumpOps, Wide
<1>. QED BY <1>1, <1>2, <1>3, <1>4

(* The opcodes with one operand.                                           *)
LEMMA OneOperand ==
  ASSUME NEW op \in Wide \cup Narrow, NEW o \in Nat
  PROVE  op \in Opcodes /\ <<o>> \in [1..Len(OperandWidths(op)) -> Nat] /\ op # OpPop /\ op # OpReturn
<1>1. op \in Opcodes /\ op # OpPop /\ op # OpReturn
  BY DEF Opcodes, Wide, Narrow, OpConstant, OpJumpNotTruthy, OpJump, OpSetGlobal, OpGetGlobal,
         OpArray, OpHash, OpCall, OpSetLocal, OpGetLocal, OpGetBuiltin, OpGetFree, OpPop, OpReturn
<1>2. Len(OperandWidths(op)) = 1
  BY OperandTable
<1>. QED BY <1>1, <1>2

(* None of these is a jump.                                                *)
LEMMA NoJumps ==
  \A op \in {OpArray, OpHash, OpCall, OpConstant, OpSetGlobal, OpSetLocal, OpClosure} : op \notin JumpOps
BY DEF JumpOps, OpJump, OpJumpNotTruthy, OpArray, OpHash, OpCall, OpConstant, OpSetGlobal, OpSetLocal,
       OpClosure

Ends(w, m) == {k \in 1..m : w[k].do = "end function"}

(* The ends among one item more.                                           *)
LEMMA OneMoreEnd ==
  ASSUME NEW w, NEW m \in Nat
  PROVE  /\ m + 1 \notin Ends(w, m)
         /\ Ends(w, m + 1) = IF w[m + 1].do = "end function" THEN Ends(w, m) \cup {m + 1}
                                                            ELSE Ends(w, m)
<1>1. \A k : k \in 1..m + 1 <=> k \in 1..m \/ k = m + 1
  OBVIOUS
<1>2. m + 1 \notin 1..m
  OBVIOUS
<1>. QED BY <1>1, <1>2 DEF Ends

-----------------------------------------------------------------------------
(* The depth of the stack.                                                 *)
(* What an instruction takes, by its opcode and its operands.              *)
Taken(o, short, long, last) ==
  IF o \in {OpAdd, OpSub, OpMul, OpDiv, OpEqual, OpNotEqual, OpGreaterThan, OpIndex} THEN 2
  ELSE IF o \in {OpMinus, OpBang, OpPop, OpJumpNotTruthy, OpSetGlobal, OpSetLocal, OpReturnValue} THEN 1
  ELSE IF o \in {OpArray, OpHash} THEN long
  ELSE IF o = OpCall THEN short + 1
  ELSE IF o = OpClosure THEN last ELSE 0

(* The same as Pops.                                                       *)
LEMMA PopsTaken ==
  ASSUME NEW ins, NEW p
  PROVE  Pops(ins, p) = Taken(ins[p + 1], ReadUint8(ins, p + 1), ReadUint16(ins, p + 1), ReadUint8(ins, p + 3))
BY DEF Pops, Taken, OpConstant, OpAdd, OpSub, OpMul, OpDiv, OpPop, OpTrue, OpFalse, OpEqual, OpNotEqual,
       OpGreaterThan, OpMinus, OpBang, OpJumpNotTruthy, OpJump, OpNull, OpSetGlobal, OpGetGlobal,
       OpArray, OpHash, OpIndex, OpCall, OpReturnValue, OpReturn, OpSetLocal, OpGetLocal,
       OpGetBuiltin, OpClosure, OpGetFree

(* The instructions that count what they take.                             *)
LEMMA CountingWidths ==
  /\ OpArray \in Wide /\ OpHash \in Wide /\ OpCall \in Narrow
  /\ Width(OpArray) = 3 /\ Width(OpHash) = 3 /\ Width(OpCall) = 2 /\ Width(OpClosure) = 4
<1>1. OpArray \in Wide /\ OpHash \in Wide /\ OpCall \in Narrow
  BY DEF Wide, Narrow
<1>. QED BY <1>1, OperandTable

(* The bytes of an instruction are all it depends on.                      *)
LEMMA SamePops ==
  ASSUME NEW a, NEW b, NEW p \in Nat, \A j \in 1..Width(a[p + 1]) : b[p + j] = a[p + j]
  PROVE  b[p + 1] = a[p + 1] /\ Pops(b, p) = Pops(a, p)
<1>. DEFINE o == a[p + 1]
<1>1. Width(o) \in 1..4
  BY WidthRange
<1>2. b[p + 1] = o
  BY <1>1
<1>3. o = OpCall => ReadUint8(b, p + 1) = ReadUint8(a, p + 1)
  <2>1. ASSUME Width(o) = 2 PROVE b[p + 2] = a[p + 2]
    BY <2>1
  <2>2. (p + 1) + 1 = p + 2
    OBVIOUS
  <2>. QED BY <2>1, <2>2, CountingWidths DEF ReadUint8
<1>4. o \in {OpArray, OpHash} => ReadUint16(b, p + 1) = ReadUint16(a, p + 1)
  <2>1. ASSUME Width(o) = 3 PROVE b[p + 2] = a[p + 2] /\ b[p + 3] = a[p + 3]
    BY <2>1
  <2>2. (p + 1) + 1 = p + 2 /\ (p + 1) + 2 = p + 3
    OBVIOUS
  <2>. QED BY <2>1, <2>2, CountingWidths DEF ReadUint16
<1>5. o = OpClosure => ReadUint8(b, p + 3) = ReadUint8(a, p + 3)
  <2>1. ASSUME Width(o) = 4 PROVE b[p + 4] = a[p + 4]
    BY <2>1
  <2>2. (p + 3) + 1 = p + 4
    OBVIOUS
  <2>. QED BY <2>1, <2>2, CountingWidths DEF ReadUint8
<1>. HIDE DEF o
<1>6. \A s, l, t, s2, l2, t2 :
        (o = OpCall => s2 = s) /\ (o \in {OpArray, OpHash} => l2 = l) /\ (o = OpClosure => t2 = t)
        => Taken(o, s, l, t) = Taken(o, s2, l2, t2)
  BY DEF Taken
<1>7. Pops(a, p) = Taken(o, ReadUint8(a, p + 1), ReadUint16(a, p + 1), ReadUint8(a, p + 3))
  BY PopsTaken DEF o
<1>8. Pops(b, p) = Taken(o, ReadUint8(b, p + 1), ReadUint16(b, p + 1), ReadUint8(b, p + 3))
  BY <1>2, PopsTaken
<1>. QED BY <1>2, <1>3, <1>4, <1>5, <1>6, <1>7, <1>8 DEF o

(* emit: what is read back where the instruction was written.              *)
LEMMA EmitReads ==
  ASSUME NEW s, GoodScope(s), NEW op \in Opcodes, op = OpPop => NoPop(s),
         NEW operands \in [1..Len(OperandWidths(op)) -> Nat]
  PROVE  LET b == Emit(s, op, operands).instructions
             n == Len(s.instructions)
         IN  /\ op \in Narrow => operands[1] \in Nat /\ ReadUint8(b, n + 1) = operands[1] % ByteSize
             /\ op \in Wide \cup {OpClosure} =>
                  operands[1] \in Nat /\ ReadUint16(b, n + 1) = operands[1] % (ByteSize * ByteSize)
             /\ op = OpClosure => operands[2] \in Nat /\ ReadUint8(b, n + 3) = operands[2] % ByteSize
<1>. DEFINE a == s.instructions  b == Emit(s, op, operands).instructions  m == Make(op, operands)  n == Len(a)
            o1 == operands[1]  o2 == operands[2]  B == ByteSize
<1>1. OneMore(a, b) /\ b[n + 1] = op
  BY EmitGood
<1>2. b = a \o m /\ a \in Seq(Bytes) /\ m \in Seq(Bytes) /\ Len(m) = Width(op) /\ n \in Nat
  BY MakeBytes, LenProperties DEF Emit, CompilationScope, GoodScope, Formed
<1>3. \A j \in 1..Width(op) : b[n + j] = m[j]
  <2>1. Width(op) \in Nat
    BY WidthRange
  <2>2. \A j \in 1..Width(op) : n + j \in 1..(n + Width(op)) /\ ~(n + j <= n) /\ (n + j) - n = j
    BY <1>2, <2>1
  <2>3. \A j \in 1..Width(op) : n + j \in 1..(n + Len(m)) /\ ~(n + j <= n) /\ (n + j) - n = j
    <3>. HIDE DEF m, n
    <3>. QED BY <1>2, <2>2
  <2>4. \A i \in 1..(n + Len(m)) : (a \o m)[i] = IF i <= n THEN a[i] ELSE m[i - n]
    <3>. HIDE DEF a, m
    <3>. QED BY <1>2, ConcatProperties DEF n
  <2>. QED
    <3>. HIDE DEF a, b, m, n
    <3>. QED BY ONLY <1>2, <2>3, <2>4
<1>3a. /\ OperandWidths(op) = <<1>> => m[2] = o1 % B
       /\ OperandWidths(op) = <<2>> => m[2] = (o1 \div B) % B /\ m[3] = o1 % B
       /\ OperandWidths(op) = <<2, 1>> => m[2] = (o1 \div B) % B /\ m[3] = o1 % B /\ m[4] = o2 % B
  BY MakeWrites
<1>3b. /\ OperandWidths(op) \in {<<1>>, <<2>>, <<2, 1>>} => o1 \in Nat
       /\ OperandWidths(op) = <<2, 1>> => o2 \in Nat
  <2>1. /\ Len(OperandWidths(op)) = 1 => o1 \in Nat
        /\ Len(OperandWidths(op)) = 2 => o1 \in Nat /\ o2 \in Nat
    <3>1. ASSUME NEW w \in Nat, NEW f \in [1..w -> Nat]
          PROVE  (w = 1 => f[1] \in Nat) /\ (w = 2 => f[1] \in Nat /\ f[2] \in Nat)
      OBVIOUS
    <3>2. Len(OperandWidths(op)) = 1 \/ Len(OperandWidths(op)) = 2 => Len(OperandWidths(op)) \in Nat
      OBVIOUS
    <3>. QED BY ONLY <3>1, <3>2, operands \in [1..Len(OperandWidths(op)) -> Nat]
  <2>2. Len(<<1>>) = 1 /\ Len(<<2>>) = 1 /\ Len(<<2, 1>>) = 2
    OBVIOUS
  <2>. HIDE DEF o1, o2
  <2>. QED BY <2>1, <2>2
<1>4. B \in Nat /\ B > 1
  BY ByteSizeAssumption
<1>5. op \in Narrow => /\ o1 \in Nat /\ ReadUint8(b, n + 1) = o1 % B
  <2>1. ASSUME op \in Narrow PROVE OperandWidths(op) = <<1>> /\ Width(op) = 2
    BY <2>1, OperandTable
  <2>2. ASSUME op \in Narrow PROVE m[2] = o1 % B /\ o1 \in Nat
    BY ONLY <1>3a, <1>3b, <2>1, <2>2
  <2>3. (n + 1) + 1 = n + 2
    BY <1>2
  <2>. HIDE DEF m
  <2>. QED BY <1>3, <2>1, <2>2, <2>3 DEF ReadUint8
<1>6. op \in Wide \cup {OpClosure} => o1 \in Nat /\ ReadUint16(b, n + 1) = o1 % (B * B)
  <2>1. ASSUME op \in Wide \cup {OpClosure}
        PROVE  (OperandWidths(op) = <<2>> \/ OperandWidths(op) = <<2, 1>>) /\ Width(op) >= 3
    BY <2>1, OperandTable
  <2>2. ASSUME op \in Wide \cup {OpClosure} PROVE m[2] = (o1 \div B) % B /\ m[3] = o1 % B /\ o1 \in Nat
    BY ONLY <1>3a, <1>3b, <2>1, <2>2
  <2>3. (n + 1) + 1 = n + 2 /\ (n + 1) + 2 = n + 3
    BY <1>2
  <2>4. ASSUME op \in Wide \cup {OpClosure} PROVE b[n + 2] = m[2] /\ b[n + 3] = m[3]
    BY <1>3, <2>1, <2>4, WidthRange
  <2>5. ASSUME op \in Wide \cup {OpClosure} PROVE ((o1 \div B) % B) * B + (o1 % B) = o1 % (B * B)
    BY <1>4, <2>2, <2>5, TwoBytes
  <2>. HIDE DEF m, b
  <2>. QED BY <2>2, <2>3, <2>4, <2>5 DEF ReadUint16
<1>7. op = OpClosure => o2 \in Nat /\ ReadUint8(b, n + 3) = o2 % B
  <2>1. ASSUME op = OpClosure PROVE OperandWidths(op) = <<2, 1>> /\ Width(op) = 4
    BY <2>1, OperandTable
  <2>2. ASSUME op = OpClosure PROVE m[4] = o2 % B /\ o2 \in Nat
    BY ONLY <1>3a, <1>3b, <2>1, <2>2
  <2>3. (n + 3) + 1 = n + 4
    BY <1>2
  <2>. HIDE DEF m
  <2>. QED BY <1>3, <2>1, <2>2, <2>3 DEF ReadUint8
<1>. QED BY <1>5, <1>6, <1>7

(* What an instruction that is to be emitted takes, if its operand can      *)
(* count that far.                                                         *)
Takes(op, operands) == Taken(op, operands[1], operands[1], operands[2])

Counts(op, operands) ==
  /\ op \in {OpArray, OpHash} => operands[1] < ByteSize * ByteSize
  /\ op = OpCall => operands[1] < ByteSize
  /\ op = OpClosure => operands[2] < ByteSize

(* emit writes an instruction that takes so much.                          *)
LEMMA EmitTakes ==
  ASSUME NEW s, GoodScope(s), NEW op \in Opcodes, op = OpPop => NoPop(s),
         NEW operands \in [1..Len(OperandWidths(op)) -> Nat], Counts(op, operands)
  PROVE  /\ Pops(Emit(s, op, operands).instructions, Len(s.instructions)) = Takes(op, operands)
         /\ Takes(op, operands) \in Nat
<1>. DEFINE b == Emit(s, op, operands).instructions  n == Len(s.instructions)
            short == ReadUint8(b, n + 1)  long == ReadUint16(b, n + 1)  last == ReadUint8(b, n + 3)
            o1 == operands[1]  o2 == operands[2]  B == ByteSize
<1>1. b[n + 1] = op
  BY EmitGood
<1>2. /\ op \in Narrow => o1 \in Nat /\ short = o1 % B
      /\ op \in Wide \cup {OpClosure} => o1 \in Nat /\ long = o1 % (B * B)
      /\ op = OpClosure => o2 \in Nat /\ last = o2 % B
  BY EmitReads
<1>3. Pops(b, n) = Taken(op, short, long, last)
  BY <1>1, PopsTaken
<1>. HIDE DEF b, n, short, long, last, o1, o2
<1>4. B \in Nat /\ B > 1 /\ B * B \in Nat /\ B * B > 1
  <2>1. B \in Nat /\ B > 1
    BY ByteSizeAssumption
  <2>. QED BY <2>1
<1>5. \A x \in Nat, c \in Nat : c > 0 /\ x < c => x % c = x
  OBVIOUS
<1>6. op \in {OpArray, OpHash} => o1 \in Nat /\ long = o1
  <2>1. op \in {OpArray, OpHash} => o1 \in Nat /\ long = o1 % (B * B) /\ o1 < B * B
    BY <1>2, CountingWidths DEF Counts, o1
  <2>. QED BY <1>4, <1>5, <2>1
<1>7. op = OpCall => o1 \in Nat /\ short = o1
  <2>1. op = OpCall => o1 \in Nat /\ short = o1 % B /\ o1 < B
    BY <1>2, CountingWidths DEF Counts, o1
  <2>. QED BY <1>4, <1>5, <2>1
<1>8. op = OpClosure => o2 \in Nat /\ last = o2
  <2>1. op = OpClosure => o2 \in Nat /\ last = o2 % B /\ o2 < B
    BY <1>2 DEF Counts, o2
  <2>. QED BY <1>4, <1>5, <2>1
<1>9. Taken(op, short, long, last) = Taken(op, o1, o1, o2) /\ Taken(op, o1, o1, o2) \in Nat
  BY <1>6, <1>7, <1>8 DEF Taken
<1>. QED BY <1>3, <1>9 DEF Takes, b, n, o1, o2

(* A jump goes on to where it went when an instruction is added or cut.    *)
LEMMA LandsOneMore ==
  ASSUME NEW a, NEW b, OneMore(a, b), NEW p \in Jumps(a), NEW T \in Starts(b)
  PROVE  Lands(a, p, T) <=> Lands(b, p, T)
<1>. DEFINE m == Len(a)
<1>1. /\ Starts(b) = Starts(a) \cup {m} /\ m \notin Starts(a)
      /\ \A q \in Starts(a) : /\ q \in Nat /\ q + Width(a[q + 1]) <= m
                              /\ b[q + 1] = a[q + 1] /\ q + 1 \in 1..m
  BY OneMoreStart
<1>2. m \in Nat
  BY LenProperties DEF OneMore
<1>3. p \in Starts(a) /\ p \in Nat /\ Width(a[p + 1]) = 3 /\ b[p + 1] = a[p + 1]
  BY <1>1, JumpWidth DEF Jumps
<1>4. p + 3 <= m
  BY <1>1, <1>3
<1>5. (p + 1) + 1 \in 1..m /\ (p + 1) + 2 \in 1..m
  BY <1>2, <1>3, <1>4
<1>6. ReadUint16(b, p + 1) = ReadUint16(a, p + 1)
  BY <1>5 DEF ReadUint16, OneMore
<1>7. T - 3 # m
  <2>1. T \in Nat /\ T <= m
    <3>1. \A q \in Starts(a) : q \in Nat /\ q + 1 \in 1..m
      BY <1>1
    <3>2. \A q \in Starts(a) : q \in Nat /\ q <= m
      BY <1>2, <3>1
    <3>. QED BY <1>1, <1>2, <3>2
  <2>. QED BY <1>2, <2>1
<1>8. T - 3 \in Starts(a) <=> T - 3 \in Starts(b)
  BY <1>1, <1>7
<1>9. T - 3 \in Starts(a) => b[(T - 3) + 1] = a[(T - 3) + 1]
  BY <1>1
<1>. QED BY <1>3, <1>6, <1>8, <1>9 DEF Lands

-----------------------------------------------------------------------------
(* Levels.  A function h gives a depth to every position of the code.  It  *)
(* follows the code if each instruction finds what it takes and the depth  *)
(* it leaves is that of the positions control may go on to.  Jumps of P    *)
(* wait for their target; the targets of the others are in Targets.        *)
Leaving == {OpJump, OpReturn, OpReturnValue}

LevelAt(ins, h, p, P, Targets) ==
  /\ h[p] >= Pops(ins, p)
  /\ ins[p + 1] \notin Leaving =>
       h[p + Width(ins[p + 1])] = (h[p] - Pops(ins, p)) + Pushes(ins[p + 1])
  /\ ins[p + 1] \in JumpOps /\ p \notin P =>
       \E T \in Targets : Lands(ins, p, T) /\ h[T] = h[p] - Pops(ins, p)

Level(ins, h, P, Targets) ==
  /\ h \in [Nat -> Int] /\ h[0] = 0
  /\ \A p \in Starts(ins) : LevelAt(ins, h, p, P, Targets)

Follows(ins, h, P) == Level(ins, h, P, Starts(ins) \cup {Len(ins)})
Confined(ins, h, P) == Level(ins, h, P, Starts(ins))

Steady(s, P, h) ==
  /\ Follows(s.instructions, h, P)
  /\ LastInstructionIs(s, OpPop) => Confined(s.instructions, h, P)

(* More may wait.                                                          *)
LEMMA LevelWait ==
  ASSUME NEW ins, NEW h, NEW P, NEW Q, P \subseteq Q
  PROVE  /\ Follows(ins, h, P) => Follows(ins, h, Q)
         /\ Confined(ins, h, P) => Confined(ins, h, Q)
         /\ Confined(ins, h, P) => Follows(ins, h, P)
BY DEF Follows, Confined, Level, LevelAt

(* The same for a scope.                                                   *)
LEMMA SteadyWait ==
  ASSUME NEW s, NEW h, NEW P, NEW Q, P \subseteq Q, Steady(s, P, h)
  PROVE  Steady(s, Q, h)
BY LevelWait DEF Steady

(* Two functions that give the same depths up to position m.               *)
Agree(h, g, m) ==
  h \in [Nat -> Int] /\ g \in [Nat -> Int] /\ \A p \in 0..m : g[p] = h[p]

(* One instruction more, or less.                                          *)
LEMMA LevelOneMore ==
  ASSUME NEW a, NEW b, OneMore(a, b), NEW P, NEW Q, P \subseteq Q,
         NEW h, NEW g, Agree(h, g, Len(a))
  PROVE  /\ Follows(a, h, P) /\ LevelAt(b, g, Len(a), Q, Starts(b)) => Confined(b, g, Q)
         /\ Confined(b, g, P) => Follows(a, h, P)
<1>. DEFINE m == Len(a)
<1>1. /\ Starts(b) = Starts(a) \cup {m} /\ m \notin Starts(a)
      /\ \A q \in Starts(a) : /\ q \in Nat /\ q + Width(a[q + 1]) <= m
                              /\ b[q + 1] = a[q + 1] /\ q + 1 \in 1..m
  BY OneMoreStart
<1>2. m \in Nat /\ 0 \in 0..m
  BY LenProperties DEF OneMore
<1>2a. h \in [Nat -> Int] /\ g \in [Nat -> Int] /\ \A p \in 0..m : g[p] = h[p]
  BY DEF Agree
<1>3. \A T \in Starts(b) : T \in 0..m
  <2>1. \A q \in Starts(a) : q \in Nat /\ q + 1 \in 1..m
    BY <1>1
  <2>2. \A q \in Starts(a) : q \in 0..m
    BY <1>2, <2>1
  <2>. QED BY <1>1, <1>2, <2>2
<1>4. ASSUME NEW p \in Starts(a)
      PROVE  /\ p \in 0..m /\ p + Width(a[p + 1]) \in 0..m /\ p # m
             /\ b[p + 1] = a[p + 1] /\ Pops(b, p) = Pops(a, p)
  <2>1. p \in Nat /\ p + Width(a[p + 1]) <= m /\ Width(a[p + 1]) \in 1..4
    BY <1>1, WidthRange
  <2>1a. \A c \in 1..4, x \in Nat : p \in Nat /\ p + c <= x =>
           /\ p \in 0..x /\ p + c \in 0..x /\ p # x /\ \A j \in 1..c : p + j \in 1..x
    OBVIOUS
  <2>2. /\ \A j \in 1..Width(a[p + 1]) : p + j \in 1..m
        /\ p \in 0..m /\ p + Width(a[p + 1]) \in 0..m /\ p # m
    BY ONLY <1>2, <2>1, <2>1a
  <2>3. \A j \in 1..Width(a[p + 1]) : b[p + j] = a[p + j]
    BY <2>2 DEF OneMore
  <2>4. b[p + 1] = a[p + 1] /\ Pops(b, p) = Pops(a, p)
    BY <2>1, <2>3, SamePops
  <2>. QED BY <2>2, <2>4
<1>5. ASSUME NEW p \in Starts(a), NEW R
      PROVE  LevelAt(a, h, p, R, Starts(b)) <=> LevelAt(b, g, p, R, Starts(b))
  <2>1. /\ g[p] = h[p] /\ g[p + Width(a[p + 1])] = h[p + Width(a[p + 1])]
        /\ b[p + 1] = a[p + 1] /\ Pops(b, p) = Pops(a, p)
    BY <1>2a, <1>4
  <2>2. a[p + 1] \in JumpOps =>
          \A T \in Starts(b) : g[T] = h[T] /\ (Lands(a, p, T) <=> Lands(b, p, T))
    <3>1. a[p + 1] \in JumpOps => p \in Jumps(a)
      BY DEF Jumps
    <3>. QED BY <1>2a, <1>3, <3>1, LandsOneMore
  <2>. QED BY <2>1, <2>2 DEF LevelAt
<1>6. g[0] = h[0] /\ h \in [Nat -> Int] /\ g \in [Nat -> Int]
  BY <1>2, <1>2a
<1>7. ASSUME Follows(a, h, P), LevelAt(b, g, m, Q, Starts(b)) PROVE Confined(b, g, Q)
  <2>1. \A p \in Starts(a) : LevelAt(a, h, p, P, Starts(b))
    BY <1>1, <1>7 DEF Follows, Level
  <2>2. ASSUME NEW p \in Starts(a) PROVE LevelAt(a, h, p, Q, Starts(b))
    <3>1. LevelAt(a, h, p, P, Starts(b)) /\ (p \notin Q => p \notin P)
      BY <2>1
    <3>. QED BY ONLY <3>1 DEF LevelAt
  <2>3. \A p \in Starts(a) : LevelAt(b, g, p, Q, Starts(b))
    BY <1>5, <2>2
  <2>4. \A p \in Starts(b) : LevelAt(b, g, p, Q, Starts(b))
    BY <1>1, <1>7, <2>3
  <2>. QED BY <1>6, <1>7, <2>4 DEF Confined, Follows, Level
<1>8. ASSUME Confined(b, g, P) PROVE Follows(a, h, P)
  <2>1. \A p \in Starts(a) : LevelAt(b, g, p, P, Starts(b))
    BY <1>1, <1>8 DEF Confined, Level
  <2>2. \A p \in Starts(a) : LevelAt(a, h, p, P, Starts(b))
    BY <1>5, <2>1
  <2>. QED BY <1>1, <1>6, <1>8, <2>2 DEF Confined, Follows, Level
<1>. QED BY <1>7, <1>8

(* The depth behind an instruction may be y where it is x before it.       *)
Leads(op, operands, x, y) ==
  /\ x >= Takes(op, operands) /\ y \in Int
  /\ op \notin Leaving => y = (x - Takes(op, operands)) + Pushes(op)

Chosen(h, g, end, y) == g = [h EXCEPT ![end] = y]

(* emit.  The depth behind the instruction follows from the one before it; *)
(* behind one that control does not go on from it may be chosen.  A jump   *)
(* that is emitted waits.                                                  *)
LEMMA EmitLevels ==
  ASSUME NEW s, GoodScope(s), NEW op \in Opcodes, op = OpPop => NoPop(s),
         NEW operands \in [1..Len(OperandWidths(op)) -> Nat], Counts(op, operands),
         NEW Q, op \in JumpOps => Len(s.instructions) \in Q, NEW h, Steady(s, Q, h),
         NEW y, Leads(op, operands, h[Len(s.instructions)], y),
         NEW g, Chosen(h, g, Len(Emit(s, op, operands).instructions), y)
  PROVE  LET e == Emit(s, op, operands)
         IN  /\ Steady(e, Q, g) /\ Confined(e.instructions, g, Q)
             /\ g[Len(e.instructions)] = y /\ Agree(h, g, Len(s.instructions))
<1>. DEFINE e == Emit(s, op, operands)
            a == s.instructions  b == e.instructions  n == Len(a)
<1>0. /\ g = [h EXCEPT ![Len(b)] = y] /\ y \in Int /\ h[n] >= Takes(op, operands)
      /\ op \notin Leaving => y = (h[n] - Takes(op, operands)) + Pushes(op)
  BY DEF Chosen, Leads
<1>1. OneMore(a, b) /\ b[n + 1] = op
  BY EmitGood
<1>2. Pops(b, n) = Takes(op, operands) /\ Takes(op, operands) \in Nat
  BY EmitTakes
<1>. HIDE DEF e, b
<1>3. n \in Nat /\ Len(b) = n + Width(op) /\ Width(op) \in 1..4
  BY <1>1, LenProperties, WidthRange DEF OneMore
<1>4. h \in [Nat -> Int] /\ Follows(a, h, Q)
  BY DEF Steady, Follows, Level
<1>5. Len(b) \in Nat /\ n < Len(b) /\ \A p \in 0..n : p \in Nat /\ p # Len(b)
  BY <1>3
<1>6. g \in [Nat -> Int] /\ g[Len(b)] = y /\ \A p \in 0..n : g[p] = h[p]
  BY <1>0, <1>4, <1>5
<1>. HIDE DEF n
<1>7. LevelAt(b, g, n, Q, Starts(b))
  <2>1. n \in 0..n
    BY <1>3
  <2>2. g[n] = h[n] /\ h[n] >= Pops(b, n)
    BY <1>0, <1>2, <1>6, <2>1 DEF n
  <2>3. op \notin Leaving => g[n + Width(op)] = (g[n] - Pops(b, n)) + Pushes(op)
    BY <1>0, <1>2, <1>3, <1>6, <2>2 DEF n
  <2>4. op \in JumpOps => n \in Q
    BY DEF n
  <2>. QED BY <1>1, <2>2, <2>3, <2>4 DEF LevelAt
<1>8. Confined(b, g, Q)
  <2>1. OneMore(a, b) /\ Agree(h, g, Len(a))
    BY <1>1, <1>4, <1>6 DEF n, Agree
  <2>2. LevelAt(b, g, Len(a), Q, Starts(b))
    BY <1>7 DEF n
  <2>. QED BY ONLY <1>4, <2>1, <2>2, Q \subseteq Q, LevelOneMore
<1>9. Steady(e, Q, g)
  BY <1>8, LevelWait DEF Steady, b
<1>10. Agree(h, g, n)
  BY <1>4, <1>6 DEF Agree
<1>. QED BY <1>6, <1>8, <1>9, <1>10 DEF e, b, n

(* What a pop and a return take and leave.                                 *)
LEMMA OneTaken ==
  ASSUME NEW ins, NEW p, ins[p + 1] \in {OpPop, OpReturnValue, OpJumpNotTruthy}
  PROVE  Pops(ins, p) = 1 /\ Pushes(ins[p + 1]) = 0
<1>1. Pops(ins, p) = 1
  BY PopsTaken DEF Taken, OpAdd, OpSub, OpMul, OpDiv, OpEqual, OpNotEqual, OpGreaterThan, OpIndex,
     OpPop, OpReturnValue, OpJumpNotTruthy
<1>. QED BY <1>1 DEF Pushes

(* And a jump.                                                             *)
LEMMA NoneTaken ==
  ASSUME NEW ins, NEW p, ins[p + 1] = OpJump
  PROVE  Pops(ins, p) = 0
BY PopsTaken DEF Taken, OpAdd, OpSub, OpMul, OpDiv, OpEqual, OpNotEqual, OpGreaterThan, OpIndex,
   OpPop, OpReturnValue, OpJumpNotTruthy, OpMinus, OpBang, OpSetGlobal, OpSetLocal, OpArray, OpHash,
   OpCall, OpClosure, OpJump

(* Code that ends in a pop or a return, and no jump goes behind it: taking *)
(* the pop off leaves one value more.                                      *)
Shut(s, P, h) ==
  /\ s.instructions # <<>> /\ s.lastInstruction.Opcode \in {OpPop, OpReturnValue}
  /\ Confined(s.instructions, h, P)

SameJumps(s, h, g) == \A p \in Jumps(s.instructions) : g[p] = h[p]

(* The depth behind a return may be chosen.                                *)
LEMMA BehindReturn ==
  ASSUME NEW s, GoodScope(s), LastInstructionIs(s, OpReturnValue), NEW P, NEW h,
         Confined(s.instructions, h, P), NEW y \in Int
  PROVE  LET g == [h EXCEPT ![Len(s.instructions)] = y]
         IN  Confined(s.instructions, g, P) /\ SameJumps(s, h, g) /\ g[Len(s.instructions)] = y
<1>. DEFINE ins == s.instructions  L == Len(ins)  q == s.lastInstruction.Position
            g == [h EXCEPT ![L] = y]
<1>1. L \in Nat /\ Tracked(ins, s.lastInstruction) /\ ins # <<>> /\ s.lastInstruction.Opcode = OpReturnValue
  BY LenProperties DEF GoodScope, Formed, LastInstructionIs
<1>2. /\ q \in Starts(ins) /\ q + Width(OpReturnValue) = L /\ ins[q + 1] = OpReturnValue
      /\ Starts(ins) \subseteq 0..L - 1
  BY <1>1, StartsClosed DEF Tracked
<1>3. h \in [Nat -> Int] /\ h[0] = 0
  BY DEF Confined, Level
<1>4. \A p \in Starts(ins) : p \in Nat /\ p # L /\ p < L
  BY <1>1, <1>2
<1>5. L # 0
  BY <1>1, <1>2
<1>6. g \in [Nat -> Int] /\ g[L] = y /\ g[0] = 0 /\ \A p \in Starts(ins) : g[p] = h[p]
  BY <1>1, <1>3, <1>4, <1>5
<1>6a. \A z \in Nat : z # L => g[z] = h[z]
  BY <1>1, <1>3
<1>. HIDE DEF g
<1>7. ASSUME NEW p \in Starts(ins), ins[p + 1] \notin Leaving
      PROVE  g[p + Width(ins[p + 1])] = h[p + Width(ins[p + 1])]
  <2>1. p # q
    BY <1>2, <1>7 DEF Leaving
  <2>2. (p < q => p + Width(ins[p + 1]) <= q) /\ (q < p => L <= p)
    BY <1>1, <1>2, StartsApart
  <2>3. p \in Nat /\ q \in Nat /\ p < L /\ q < L /\ Width(ins[p + 1]) \in 1..4
    BY <1>2, <1>4, WidthRange
  <2>4. p + Width(ins[p + 1]) \in Nat /\ p + Width(ins[p + 1]) # L
    <3>1. \A c \in 1..4 : (p < q => p + c <= q) => p + c \in Nat /\ p + c # L
      BY ONLY <1>1, <2>1, <2>2, <2>3
    <3>. QED BY <2>2, <2>3, <3>1
  <2>. QED BY ONLY <1>6a, <2>4
<1>8. ASSUME NEW p \in Starts(ins) PROVE LevelAt(ins, g, p, P, Starts(ins))
  <2>1. LevelAt(ins, h, p, P, Starts(ins))
    BY DEF Confined, Level
  <2>. QED BY <1>6, <1>7, <2>1 DEF LevelAt
<1>9. Confined(ins, g, P)
  BY <1>6, <1>8 DEF Confined, Level
<1>10. SameJumps(s, h, g)
  BY <1>6 DEF SameJumps, Jumps
<1>. QED BY <1>6, <1>9, <1>10 DEF g

(* removeLastPop, where the compiler calls it on such code.                *)
LEMMA KeepValueLevels ==
  ASSUME NEW s, GoodScope(s), NEW P, NEW h, Shut(s, P, h)
  PROVE  \E g : /\ Steady(KeepValue(s), P, g) /\ SameJumps(s, h, g)
                /\ g[Len(KeepValue(s).instructions)] = h[Len(s.instructions)] + 1
<1>. DEFINE v == KeepValue(s)  a == v.instructions  b == s.instructions
<1>1. h \in [Nat -> Int] /\ Len(b) \in Nat /\ h[Len(b)] \in Int
  BY LenProperties DEF Shut, Confined, Level, GoodScope, Formed
<1>2. CASE LastInstructionIs(s, OpPop)
  <2>1. OneMore(a, b) /\ b[Len(a) + 1] = OpPop /\ NoPop(v)
    BY <1>2, KeepValueGood
  <2>. HIDE DEF v
  <2>2. Len(a) \in Nat /\ Len(a) \in Starts(b) /\ Len(b) = Len(a) + Width(OpPop)
    BY <2>1, LenProperties DEF OneMore
  <2>3. LevelAt(b, h, Len(a), P, Starts(b)) /\ Confined(b, h, P)
    BY <2>2 DEF Shut, Confined, Level
  <2>4. Follows(a, h, P)
    <3>1. Agree(h, h, Len(a)) /\ P \subseteq P
      BY <1>1 DEF Agree
    <3>. QED BY ONLY <2>1, <2>3, <3>1, LevelOneMore
  <2>5. Pops(b, Len(a)) = 1 /\ Pushes(OpPop) = 0
    <3>1. b[Len(a) + 1] \in {OpPop, OpReturnValue, OpJumpNotTruthy}
      BY <2>1
    <3>2. PICK n : n = Len(a)
      OBVIOUS
    <3>3. PICK code : code = b
      OBVIOUS
    <3>4. code[n + 1] \in {OpPop, OpReturnValue, OpJumpNotTruthy}
      BY ONLY <3>1, <3>2, <3>3
    <3>5. Pops(code, n) = 1 /\ Pushes(code[n + 1]) = 0
      BY ONLY <3>4, OneTaken
    <3>. QED BY ONLY <2>1, <3>2, <3>3, <3>5
  <2>6. OpPop \notin Leaving
    BY DEF Leaving, OpPop, OpJump, OpReturn, OpReturnValue
  <2>7. h[Len(b)] = (h[Len(a)] - 1) + 0
    BY <2>1, <2>2, <2>3, <2>5, <2>6 DEF LevelAt
  <2>8. h[Len(a)] = h[Len(b)] + 1
    <3>1. h[Len(a)] \in Int
      BY <1>1, <2>2
    <3>. QED BY <2>7, <3>1
  <2>9. Steady(v, P, h)
    BY <2>1, <2>4 DEF Steady, NoPop
  <2>. QED BY <2>8, <2>9 DEF v, SameJumps
<1>3. CASE ~LastInstructionIs(s, OpPop)
  <2>1. v = s /\ LastInstructionIs(s, OpReturnValue)
    BY <1>3, KeepValueGood DEF Shut, LastInstructionIs
  <2>. DEFINE g == [h EXCEPT ![Len(b)] = h[Len(b)] + 1]
  <2>2. h[Len(b)] + 1 \in Int /\ Confined(b, h, P)
    BY <1>1 DEF Shut
  <2>3. Confined(b, g, P) /\ SameJumps(s, h, g) /\ g[Len(b)] = h[Len(b)] + 1
    BY <2>1, <2>2, BehindReturn
  <2>. HIDE DEF g
  <2>4. Steady(s, P, g)
    BY <2>3, LevelWait DEF Steady
  <2>. QED BY <2>1, <2>3, <2>4
<1>. QED BY <1>2, <1>3

(* changeOperand writes the jump again and nothing else.                   *)
LEMMA PatchedElsewhere ==
  ASSUME NEW a, NEW b, NEW pos, NEW o, Patched(a, b, pos, o), Whole(a), NEW p \in Starts(a), p # pos
  PROVE  \A j \in 1..Width(a[p + 1]) : b[p + j] = a[p + j]
<1>1. /\ Len(a) \in Nat /\ Starts(b) = Starts(a) /\ Starts(a) \subseteq 0..Len(a) - 1
      /\ pos \in Starts(a) /\ Width(a[pos + 1]) = 3 /\ b[pos + 1] = a[pos + 1]
  <2>1. Len(a) \in Nat
    BY LenProperties DEF Patched
  <2>. QED BY <2>1, StartsClosed DEF Patched
<1>2. p \in Nat /\ pos \in Nat /\ Width(a[p + 1]) \in Nat
  BY <1>1, WidthRange
<1>3. p < pos => p + Width(a[p + 1]) <= pos
  BY <1>1, StartsApart
<1>4. pos < p => pos + 3 <= p
  BY <1>1, StartsApart
<1>5. \A j \in 1..Width(a[p + 1]) : (p + j) - pos \notin 1..3
  BY <1>2, <1>3, <1>4
<1>6. ASSUME NEW j \in 1..Width(a[p + 1]) PROVE b[p + j] = a[p + j]
  <2>1. p + Width(a[p + 1]) <= Len(a)
    BY DEF Whole
  <2>2. p + j \in 1..Len(a)
    BY <1>1, <1>2, <2>1
  <2>. QED BY <1>5, <2>2 DEF Patched
<1>. QED BY <1>6

(* changeOperand: the jump goes to a place of the depth that it leaves.    *)
LEMMA ChangeOperandLevels ==
  ASSUME NEW s, GoodScope(s), NoPop(s), NEW pos \in Starts(s.instructions),
         s.instructions[pos + 1] \in JumpOps,
         NEW target \in Starts(s.instructions) \cup {Len(s.instructions)}, target > pos,
         s.instructions[pos + 1] = OpJumpNotTruthy =>
           target - 3 \in Starts(s.instructions) /\ s.instructions[(target - 3) + 1] = OpJump,
         NEW P, NEW h, Steady(s, P \cup {pos}, h), h[target] = h[pos] - Pops(s.instructions, pos)
  PROVE  Steady(ChangeOperand(s, pos, target), P, h)
<1>. DEFINE c == ChangeOperand(s, pos, target)
            a == s.instructions
            b == c.instructions
            L == Len(a)
<1>1. L \in Nat /\ Starts(a) \subseteq 0..L - 1 /\ Whole(a)
  <2>1. L \in Nat
    BY LenProperties DEF GoodScope, Formed
  <2>. QED BY <2>1, StartsClosed, GoodScopeWhole
<1>2. target \in Nat
  BY <1>1
<1>3. Patched(a, b, pos, target) /\ NoPop(c)
  BY <1>2, ChangeOperandGood DEF JumpOps
<1>. HIDE DEF c, b
<1>4. /\ Len(b) = L /\ Starts(b) = Starts(a) /\ b[pos + 1] = a[pos + 1]
      /\ ReadUint16(b, pos + 1) = target % (ByteSize * ByteSize)
  BY <1>3 DEF Patched
<1>5. ASSUME NEW p \in Starts(a), p # pos
      PROVE  b[p + 1] = a[p + 1] /\ Pops(b, p) = Pops(a, p)
  <2>1. \A j \in 1..Width(a[p + 1]) : b[p + j] = a[p + j]
    BY <1>1, <1>3, <1>5, PatchedElsewhere
  <2>2. p \in Nat
    BY <1>1
  <2>. QED BY <2>1, <2>2, SamePops
<1>6. \A p \in Starts(a) : b[p + 1] = a[p + 1]
  BY <1>4, <1>5
<1>7. Pops(b, pos) = Pops(a, pos)
  <2>1. a[pos + 1] = OpJump \/ a[pos + 1] = OpJumpNotTruthy
    BY DEF JumpOps
  <2>2. CASE a[pos + 1] = OpJump
    BY <1>4, <2>2, NoneTaken
  <2>3. CASE a[pos + 1] = OpJumpNotTruthy
    BY <1>4, <2>3, OneTaken
  <2>. QED BY <2>1, <2>2, <2>3
<1>8. ASSUME NEW p \in Starts(a), p # pos, a[p + 1] \in JumpOps, NEW T, Lands(a, p, T) PROVE Lands(b, p, T)
  <2>1. \A j \in 1..Width(a[p + 1]) : b[p + j] = a[p + j]
    BY <1>1, <1>3, <1>8, PatchedElsewhere
  <2>2. Width(a[p + 1]) = 3
    BY <1>8, JumpWidth
  <2>3. p \in Nat
    BY <1>1
  <2>4. b[p + 2] = a[p + 2] /\ b[p + 3] = a[p + 3] /\ (p + 1) + 1 = p + 2 /\ (p + 1) + 2 = p + 3
    BY <2>1, <2>2, <2>3
  <2>5. ReadUint16(b, p + 1) = ReadUint16(a, p + 1)
    BY <2>4 DEF ReadUint16
  <2>. QED BY <1>4, <1>6, <1>8, <2>5 DEF Lands
<1>9. Lands(b, pos, target)
  BY <1>4, <1>6 DEF Lands
<1>10. ASSUME NEW p \in Starts(b) PROVE LevelAt(b, h, p, P, Starts(b) \cup {Len(b)})
  <2>1. p \in Starts(a) /\ b[p + 1] = a[p + 1] /\ Pops(b, p) = Pops(a, p)
    BY <1>4, <1>5, <1>6, <1>7
  <2>2. LevelAt(a, h, p, P \cup {pos}, Starts(a) \cup {L})
    BY <2>1 DEF Steady, Follows, Level
  <2>3. CASE p = pos
    <3>1. target \in Starts(b) \cup {Len(b)} /\ Lands(b, p, target) /\ h[target] = h[p] - Pops(b, p)
      BY <1>4, <1>9, <2>1, <2>3
    <3>. QED BY <2>1, <2>2, <3>1 DEF LevelAt
  <2>4. CASE p # pos
    <3>1. ASSUME b[p + 1] \in JumpOps, p \notin P
          PROVE  \E T \in Starts(b) \cup {Len(b)} : Lands(b, p, T) /\ h[T] = h[p] - Pops(b, p)
      <4>1. p \notin P \cup {pos} /\ a[p + 1] \in JumpOps
        BY <2>1, <2>4, <3>1
      <4>2. PICK T \in Starts(a) \cup {L} : Lands(a, p, T) /\ h[T] = h[p] - Pops(a, p)
        BY <2>2, <4>1 DEF LevelAt
      <4>3. Lands(b, p, T)
        BY <1>8, <2>1, <2>4, <4>1, <4>2
      <4>. QED BY <1>4, <2>1, <4>2, <4>3
    <3>. QED BY <2>1, <2>2, <3>1 DEF LevelAt
  <2>. QED BY <2>3, <2>4
<1>11. Follows(b, h, P)
  <2>1. h \in [Nat -> Int] /\ h[0] = 0
    BY DEF Steady, Follows, Level
  <2>. QED BY <1>10, <2>1 DEF Follows, Level
<1>. QED BY <1>3, <1>11 DEF Steady, NoPop, b, c

(* A new scope is empty.                                                   *)
LEMMA NewScopeLevels ==
  ASSUME NEW P
  PROVE  \E h : Steady(NewScope, P, h) /\ h[Len(NewScope.instructions)] = 0
<1>1. NewScope.instructions = <<>> /\ Len(<<>>) = 0
  BY DEF NewScope, CompilationScope
<1>2. Starts(<<>>) \subseteq 0..0 - 1
  BY <1>1, StartsClosed
<1>3. Starts(<<>>) = {}
  BY <1>2
<1>4. PICK h : h = [p \in Nat |-> 0]
  OBVIOUS
<1>5. h \in [Nat -> Int] /\ h[0] = 0
  BY <1>4
<1>. QED BY <1>1, <1>3, <1>5 DEF Steady, Follows, Confined, Level

(* The jumps stand before the end of the code.                             *)
LEMMA JumpsBefore ==
  ASSUME NEW s, GoodScope(s)
  PROVE  \A p \in Jumps(s.instructions) : p \in 0..Len(s.instructions)
<1>1. Len(s.instructions) \in Nat
  BY LenProperties DEF GoodScope, Formed
<1>2. Starts(s.instructions) \subseteq 0..Len(s.instructions) - 1
  BY <1>1, StartsClosed
<1>. QED BY <1>1, <1>2 DEF Jumps

(* From step to step.                                                      *)
LEMMA SameJumpsTransitive ==
  ASSUME NEW s, NEW t, CodeKept(s, t), NEW h, NEW g, NEW f, SameJumps(s, h, g), SameJumps(t, g, f)
  PROVE  SameJumps(s, h, f)
<1>1. \A op \in JumpOps : op # OpPop
  BY JumpWidth
<1>2. \A p \in Jumps(s.instructions) : p \in Jumps(t.instructions)
  BY <1>1 DEF CodeKept, Jumps
<1>. QED BY <1>2 DEF SameJumps

(* emit, for an instruction that is no jump.                               *)
LEMMA EmitRaises ==
  ASSUME NEW s, GoodScope(s), NEW op \in Opcodes, op \notin JumpOps, op = OpPop => NoPop(s),
         NEW operands \in [1..Len(OperandWidths(op)) -> Nat], Counts(op, operands),
         NEW P, NEW h, Steady(s, P, h), h[Len(s.instructions)] >= Takes(op, operands)
  PROVE  LET e == Emit(s, op, operands)
         IN  \E g : /\ Steady(e, P, g) /\ Confined(e.instructions, g, P) /\ SameJumps(s, h, g)
                    /\ g[Len(e.instructions)] = h[Len(s.instructions)] + (Pushes(op) - Takes(op, operands))
<1>. DEFINE e == Emit(s, op, operands)
<1>1. Takes(op, operands) \in Nat
  BY EmitTakes
<1>2. Pushes(op) \in Nat
  BY DEF Pushes
<1>3. h[Len(s.instructions)] \in Int
  <2>1. Len(s.instructions) \in Nat
    BY LenProperties DEF GoodScope, Formed
  <2>. QED BY <2>1 DEF Steady, Follows, Level
<1>4. PICK x, k, u, y : /\ x = h[Len(s.instructions)] /\ k = Takes(op, operands) /\ u = Pushes(op)
                        /\ y = (x - k) + u
  OBVIOUS
<1>5. y \in Int /\ y = x + (u - k)
  BY ONLY <1>1, <1>2, <1>3, <1>4
<1>6. PICK g : /\ Steady(e, P, g) /\ Confined(e.instructions, g, P) /\ g[Len(e.instructions)] = y
               /\ \A p \in 0..Len(s.instructions) : g[p] = h[p]
  <2>1. Leads(op, operands, h[Len(s.instructions)], y)
    BY <1>4, <1>5 DEF Leads
  <2>2. op \in JumpOps => Len(s.instructions) \in P
    OBVIOUS
  <2>3. PICK f : Chosen(h, f, Len(Emit(s, op, operands).instructions), y)
    BY DEF Chosen
  <2>4. /\ Steady(Emit(s, op, operands), P, f) /\ Confined(Emit(s, op, operands).instructions, f, P)
        /\ f[Len(Emit(s, op, operands).instructions)] = y /\ Agree(h, f, Len(s.instructions))
    BY ONLY <2>1, <2>2, <2>3, EmitLevels, GoodScope(s), op \in Opcodes, op = OpPop => NoPop(s),
       operands \in [1..Len(OperandWidths(op)) -> Nat], Counts(op, operands), Steady(s, P, h)
  <2>. QED BY <2>4 DEF Agree
<1>7. SameJumps(s, h, g)
  BY <1>6, JumpsBefore DEF SameJumps
<1>. QED BY <1>4, <1>5, <1>6, <1>7

(* The code at the end of a function body: the last pop becomes a return,  *)
(* or a return is there, or one comes behind it (compiler.go:274-278).     *)
LEMMA EndBodyCode ==
  ASSUME NEW s, GoodScope(s)
  PROVE  IF LastInstructionIs(s, OpPop)
         THEN EndBody(s).instructions = Emit(KeepValue(s), OpReturnValue, <<>>).instructions
         ELSE IF LastInstructionIs(s, OpReturnValue) THEN EndBody(s) = s
         ELSE EndBody(s) = Emit(s, OpReturn, <<>>)
<1>. DEFINE ins == s.instructions
            L == Len(ins)
<1>0. ins \in Seq(Bytes) /\ L \in Nat /\ DOMAIN ins = 1..L
  BY LenProperties DEF GoodScope, Formed
<1>1. OpReturnValue \in Opcodes /\ <<>> \in [1..Len(OperandWidths(OpReturnValue)) -> Nat] /\ Width(OpReturnValue) = 1
      /\ Width(OpPop) = 1
  <2>1. /\ OpReturnValue \notin Wide \cup Narrow \cup {OpClosure} /\ OpReturnValue \in Opcodes
        /\ OpPop \notin Wide \cup Narrow \cup {OpClosure}
    BY DEF Opcodes, Wide, Narrow, OpConstant, OpJumpNotTruthy, OpJump, OpSetGlobal,
           OpGetGlobal, OpArray, OpHash, OpCall, OpSetLocal, OpGetLocal, OpGetBuiltin, OpGetFree,
           OpClosure, OpPop, OpReturnValue, OpReturn
  <2>2. Width(OpReturnValue) = 1 /\ Width(OpPop) = 1
    BY <2>1, OperandTable
  <2>. QED BY <2>2, PlainOpcodes
<1>2. CASE LastInstructionIs(s, OpPop)
  <2>. DEFINE v == KeepValue(s)
              e == Emit(v, OpReturnValue, <<>>)
              m == Make(OpReturnValue, <<>>)
              pos == s.lastInstruction.Position
              r == ReplaceLastPopWithReturn(s)
  <2>1. OneMore(v.instructions, ins) /\ Len(v.instructions) = pos /\ ins[pos + 1] = OpPop
    BY <1>2, KeepValueGood
  <2>. HIDE DEF v
  <2>3. /\ r.instructions = ReplaceInstructions(ins, pos, m)
        /\ r.lastInstruction.Opcode = OpReturnValue
    BY DEF ReplaceLastPopWithReturn, CompilationScope, EmittedInstruction
  <2>4. e.instructions = v.instructions \o m
    BY DEF Emit, CompilationScope
  <2>5. m \in Seq(Bytes) /\ Len(m) = 1 /\ m[1] = OpReturnValue
    BY <1>1, MakeBytes
  <2>. HIDE DEF m, e
  <2>6. /\ v.instructions \in Seq(Bytes) /\ pos \in Nat /\ L = pos + 1
        /\ \A k \in 1..pos : ins[k] = v.instructions[k]
    <3>2. v.instructions \in Seq(Bytes) /\ pos \in Nat
      BY <2>1, LenProperties DEF OneMore
    <3>. QED BY <1>1, <2>1, <3>2 DEF OneMore
  <2>. HIDE DEF pos
  <2>7. r.instructions = e.instructions /\ Len(e.instructions) = L
    <3>. DEFINE x == v.instructions
                y == x \o m
    <3>0. x \in Seq(Bytes) /\ m \in Seq(Bytes) /\ Len(x) = pos /\ Len(m) = 1 /\ pos \in Nat
      BY <2>1, <2>5, <2>6
    <3>. HIDE DEF x
    <3>1. /\ y \in Seq(Bytes) /\ Len(y) = pos + 1
          /\ \A k \in 1..pos + 1 : y[k] = IF k <= pos THEN x[k] ELSE m[k - pos]
      <4>1. /\ x \o m \in Seq(Bytes) /\ Len(x \o m) = Len(x) + Len(m)
            /\ \A k \in 1..Len(x) + Len(m) :
                 (x \o m)[k] = IF k <= Len(x) THEN x[k] ELSE m[k - Len(x)]
        BY <3>0, ConcatProperties
      <4>. QED BY <3>0, <4>1
    <3>. HIDE DEF y
    <3>2. y = [k \in 1..pos + 1 |-> y[k]]
      BY <3>1, LenProperties
    <3>3. DOMAIN m = 1..1
      BY <2>5, LenProperties
    <3>4. r.instructions = [k \in 1..pos + 1 |-> IF k - pos \in 1..1 THEN m[k - pos] ELSE ins[k]]
      BY <1>0, <2>3, <2>6, <3>3 DEF ReplaceInstructions
    <3>5. ASSUME NEW k \in 1..pos + 1
          PROVE  (IF k - pos \in 1..1 THEN m[k - pos] ELSE ins[k]) = y[k]
      <4>1. CASE k <= pos
        <5>1. k \in 1..pos /\ k - pos \notin 1..1
          BY <3>0, <4>1
        <5>. QED BY <2>6, <3>1, <4>1, <5>1 DEF x
      <4>2. CASE ~(k <= pos)
        <5>1. k - pos \in 1..1
          BY <3>0, <4>2
        <5>. QED BY <3>1, <4>2, <5>1
      <4>. QED BY <4>1, <4>2
    <3>6. r.instructions = y
      BY <3>2, <3>4, <3>5
    <3>. QED BY <2>4, <2>6, <3>1, <3>6 DEF y, x
  <2>8. r.instructions # <<>>
    BY <1>0, <2>6, <2>7
  <2>. HIDE DEF r
  <2>9. EndBody(s) = r
    BY <1>2, <2>3, <2>8 DEF EndBody, LastInstructionIs, r
  <2>. QED BY <1>2, <2>7, <2>9 DEF e, v
<1>3. CASE ~LastInstructionIs(s, OpPop)
  BY <1>3 DEF EndBody
<1>. QED BY <1>2, <1>3

(* Code that control never leaves behind its last instruction.             *)
CodeReturns(ins) ==
  ins # <<>> /\ \A p \in Starts(ins) : p + Width(ins[p + 1]) = Len(ins) => ins[p + 1] \in {OpReturn, OpReturnValue}

(* The last instruction is the only one that ends where the code does.     *)
LEMMA LastReturns ==
  ASSUME NEW s, Formed(s), s.instructions # <<>>, s.lastInstruction.Opcode \in {OpReturn, OpReturnValue}
  PROVE  CodeReturns(s.instructions)
<1>. DEFINE ins == s.instructions  L == Len(ins)  q == s.lastInstruction.Position
<1>1. L \in Nat /\ q \in Starts(ins) /\ q + Width(ins[q + 1]) = L /\ ins[q + 1] = s.lastInstruction.Opcode
  BY LenProperties DEF GoodScope, Formed, Tracked
<1>2. Starts(ins) \subseteq 0..L - 1
  BY <1>1, StartsClosed
<1>3. ASSUME NEW p \in Starts(ins), p + Width(ins[p + 1]) = L PROVE p = q
  <2>1. (p < q => p + Width(ins[p + 1]) <= q) /\ (q < p => q + Width(ins[q + 1]) <= p)
    BY <1>1, StartsApart
  <2>2. p \in Nat /\ q \in Nat /\ p < L /\ q < L
    BY <1>1, <1>2
  <2>. HIDE DEF ins, L, q
  <2>. QED BY <1>1, <1>3, <2>1, <2>2
<1>. QED BY <1>1, <1>3 DEF CodeReturns

(* The finished code of a function keeps to its levels, and returns.       *)
LEMMA EndBodyLevels ==
  ASSUME NEW s, GoodScope(s), NEW P, NEW h, Steady(s, P, h), h[Len(s.instructions)] >= 0
  PROVE  (\E g : Follows(EndBody(s).instructions, g, P)) /\ CodeReturns(EndBody(s).instructions)
<1>1. /\ OpReturn \in Opcodes /\ <<>> \in [1..Len(OperandWidths(OpReturn)) -> Nat] /\ OpReturn # OpPop
      /\ OpReturnValue \in Opcodes /\ <<>> \in [1..Len(OperandWidths(OpReturnValue)) -> Nat]
      /\ OpReturnValue # OpPop /\ OpReturn \notin JumpOps /\ OpReturnValue \notin JumpOps
  BY PlainOpcodes
<1>2. /\ Takes(OpReturn, <<>>) = 0 /\ Counts(OpReturn, <<>>)
      /\ Takes(OpReturnValue, <<>>) = 1 /\ Counts(OpReturnValue, <<>>)
  BY DEF Takes, Taken, Counts, OpAdd, OpSub, OpMul, OpDiv, OpEqual, OpNotEqual, OpGreaterThan, OpIndex,
     OpPop, OpReturnValue, OpReturn, OpJump, OpJumpNotTruthy, OpMinus, OpBang, OpSetGlobal, OpSetLocal, OpArray, OpHash,
     OpCall, OpClosure
<1>3. ASSUME NEW t, GoodScope(t), NEW o \in {OpReturn, OpReturnValue}
      PROVE  CodeReturns(Emit(t, o, <<>>).instructions)
  <2>. DEFINE e == Emit(t, o, <<>>)
  <2>1. Formed(e) /\ OneMore(t.instructions, e.instructions)
    BY <1>1, <1>3, EmitGood
  <2>2. e.lastInstruction.Opcode = o
    BY DEF Emit, CompilationScope, EmittedInstruction
  <2>. HIDE DEF e
  <2>3. e.instructions # <<>>
    <3>1. Len(t.instructions) \in Nat /\ Len(t.instructions) \in Starts(e.instructions) /\ Len(e.instructions) \in Nat
      BY <2>1, LenProperties DEF OneMore
    <3>2. Starts(e.instructions) \subseteq 0..Len(e.instructions) - 1
      BY <3>1, StartsClosed
    <3>. QED BY <3>1, <3>2
  <2>4. CodeReturns(e.instructions)
    BY <2>1, <2>2, <2>3, LastReturns
  <2>. QED BY <2>4 DEF e
<1>4. CASE LastInstructionIs(s, OpPop)
  <2>. DEFINE v == KeepValue(s)  a == v.instructions  b == s.instructions
  <2>1. OneMore(a, b) /\ b[Len(a) + 1] = OpPop /\ NoPop(v) /\ GoodScope(v)
    BY <1>4, KeepValueGood
  <2>2. EndBody(s).instructions = Emit(v, OpReturnValue, <<>>).instructions
    BY <1>4, EndBodyCode
  <2>. HIDE DEF v
  <2>3. Len(a) \in Starts(b) /\ h \in [Nat -> Int]
    BY <2>1 DEF OneMore, Steady, Follows, Level
  <2>4. Confined(b, h, P)
    BY <1>4 DEF Steady
  <2>5. h[Len(a)] >= Pops(b, Len(a))
    BY <2>3, <2>4 DEF Confined, Level, LevelAt
  <2>6. Pops(b, Len(a)) = 1
    <3>1. b[Len(a) + 1] \in {OpPop, OpReturnValue, OpJumpNotTruthy}
      BY <2>1
    <3>. QED BY ONLY <3>1, OneTaken
  <2>7. Steady(v, P, h)
    <3>1. Agree(h, h, Len(a)) /\ P \subseteq P
      BY <2>3 DEF Agree
    <3>2. Follows(a, h, P)
      BY ONLY <2>1, <2>4, <3>1, LevelOneMore
    <3>. QED BY <2>1, <3>2 DEF Steady, NoPop
  <2>7a. h[Len(v.instructions)] >= Takes(OpReturnValue, <<>>)
    BY <1>2, <2>5, <2>6
  <2>8. PICK g : Steady(Emit(v, OpReturnValue, <<>>), P, g)
    BY <1>1, <1>2, <2>1, <2>7, <2>7a, EmitRaises
  <2>9. Follows(Emit(v, OpReturnValue, <<>>).instructions, g, P)
    BY <2>8 DEF Steady
  <2>. QED BY <1>3, <2>1, <2>2, <2>9
<1>5. CASE ~LastInstructionIs(s, OpPop)
  <2>1. CASE LastInstructionIs(s, OpReturnValue)
    <3>1. EndBody(s) = s
      BY <1>5, <2>1, EndBodyCode
    <3>2. CodeReturns(s.instructions)
      BY <2>1, LastReturns DEF LastInstructionIs, GoodScope
    <3>. QED BY <3>1, <3>2 DEF Steady
  <2>2. CASE ~LastInstructionIs(s, OpReturnValue)
    <3>1. EndBody(s) = Emit(s, OpReturn, <<>>)
      BY <1>5, <2>2, EndBodyCode
    <3>2. PICK g : Steady(Emit(s, OpReturn, <<>>), P, g)
      BY <1>1, <1>2, EmitRaises
    <3>3. Follows(Emit(s, OpReturn, <<>>).instructions, g, P)
      BY <3>2 DEF Steady
    <3>. QED BY <1>3, <3>1, <3>3
  <2>. QED BY <2>1, <2>2
<1>. QED BY <1>4, <1>5

End(s, h) == h[Len(s.instructions)]

(* What is taken and put back.                                             *)
LEMMA TakesTable ==
  ASSUME NEW op, NEW operands
  PROVE  /\ op \in {OpAdd, OpSub, OpMul, OpDiv, OpEqual, OpNotEqual, OpGreaterThan, OpIndex} =>
              Takes(op, operands) = 2 /\ Pushes(op) = 1 /\ Counts(op, operands)
         /\ op \in {OpMinus, OpBang} => Takes(op, operands) = 1 /\ Pushes(op) = 1 /\ Counts(op, operands)
         /\ op \in {OpPop, OpReturnValue, OpSetGlobal, OpSetLocal} =>
              Takes(op, operands) = 1 /\ Pushes(op) = 0 /\ Counts(op, operands)
         /\ op \in {OpTrue, OpFalse, OpNull, OpConstant} =>
              Takes(op, operands) = 0 /\ Pushes(op) = 1 /\ Counts(op, operands)
         /\ op \in {OpArray, OpHash} => Takes(op, operands) = operands[1] /\ Pushes(op) = 1
         /\ op = OpCall => Takes(op, operands) = operands[1] + 1 /\ Pushes(op) = 1
         /\ op = OpClosure => Takes(op, operands) = operands[2] /\ Pushes(op) = 1
BY DEF Takes, Taken, Counts, Pushes, OpConstant, OpAdd, OpSub, OpMul, OpDiv, OpPop, OpTrue, OpFalse, OpEqual,
       OpNotEqual, OpGreaterThan, OpMinus, OpBang, OpJumpNotTruthy, OpJump, OpNull, OpSetGlobal, OpGetGlobal,
       OpArray, OpHash, OpIndex, OpCall, OpReturnValue, OpReturn, OpSetLocal, OpGetLocal,
       OpGetBuiltin, OpClosure, OpGetFree

(* The jumps are where they were.                                          *)
LEMMA AgreeJumps ==
  ASSUME NEW s, GoodScope(s), NEW h, NEW g, Agree(h, g, Len(s.instructions))
  PROVE  SameJumps(s, h, g)
BY JumpsBefore DEF Agree, SameJumps

(* emit, for a jump: it waits, and control goes on with the depth z.       *)
Jumped(s, e, P, h, z, g) ==
  /\ Steady(e, P \cup {Len(s.instructions)}, g) /\ g[Len(e.instructions)] = z
  /\ g[Len(s.instructions)] = h[Len(s.instructions)] /\ SameJumps(s, h, g)

-----------------------------------------------------------------------------
(* From the levels to the depths.                                          *)
(* Control goes forward to an instruction or to the end, and finds there   *)
(* the depth that the levels give.                                         *)
Steers(ins, h) ==
  /\ Len(ins) \in Nat /\ Starts(ins) \subseteq 0..Len(ins) - 1 /\ 0 \in Starts(ins) \cup {Len(ins)}
  /\ h[0] = 0
  /\ \A p \in Starts(ins) : \A q \in Successors(ins, p) :
       q \in Starts(ins) \cup {Len(ins)} /\ h[q] = (h[p] - Pops(ins, p)) + Pushes(ins[p + 1])

Sweep(before, ins, p, o) ==
  IF before[p] = {} THEN before
  ELSE [q \in 0..Len(ins) |->
          IF q \in Successors(ins, p) THEN before[q] \cup {d - Pops(ins, p) + Pushes(o) : d \in before[p]}
          ELSE before[q]]

Sweeping(before, ins, j) == Sweep(before, ins, j - 1, ins[j])

Sweeps(f, ins, k) ==
  f = [j \in 0..k |-> IF j = 0 THEN [q \in 0..Len(ins) |-> IF q = 0 THEN {0} ELSE {}]
                               ELSE Sweeping(f[j - 1], ins, j)]

(* The sweep over the code ends.                                           *)
LEMMA SweepsExists ==
  ASSUME NEW ins, NEW k \in Nat
  PROVE  \E f : Sweeps(f, ins, k)
<1>. DEFINE start == [q \in 0..Len(ins) |-> IF q = 0 THEN {0} ELSE {}]
            T == {m \in Nat : \E f : Sweeps(f, ins, m)}
<1>. HIDE DEF start
<1>1. 0 \in T
  <2>1. Sweeps([j \in 0..0 |-> start], ins, 0)
    BY DEF Sweeps, start
  <2>. QED BY <2>1
<1>2. ASSUME NEW m \in Nat, m \in T PROVE m + 1 \in T
  <2>1. PICK f : Sweeps(f, ins, m)
    BY <1>2
  <2>. DEFINE g == [j \in 0..m + 1 |-> IF j = m + 1 THEN Sweeping(f[m], ins, j) ELSE f[j]]
  <2>2. ASSUME NEW j \in 0..m + 1
        PROVE  g[j] = IF j = 0 THEN start ELSE Sweeping(g[j - 1], ins, j)
    <3>1. CASE j = m + 1
      <4>1. j # 0 /\ j - 1 = m /\ m \in 0..m + 1 /\ m # m + 1
        BY <3>1
      <4>2. g[j - 1] = f[m]
        BY <4>1
      <4>. QED BY <3>1, <4>1, <4>2
    <3>2. CASE j # m + 1
      <4>1. j \in 0..m /\ (j # 0 => j - 1 \in 0..m + 1 /\ j - 1 # m + 1)
        BY <3>2
      <4>2. g[j] = f[j] /\ (j # 0 => g[j - 1] = f[j - 1])
        BY <3>2, <4>1
      <4>. QED BY <2>1, <4>1, <4>2 DEF Sweeps, start
    <3>. QED BY <3>1, <3>2
  <2>3. Sweeps(g, ins, m + 1)
    BY <2>2 DEF Sweeps, start
  <2>. QED BY <2>3
<1>3. \A m \in Nat : m \in T
  BY <1>1, <1>2, SetInduction
<1>. QED BY <1>3

(* What has been reached so far has the depths of the levels.              *)
Within(row, ins, h) ==
  \A q \in 0..Len(ins) : /\ \A d \in row[q] : d = h[q]
                         /\ row[q] # {} => q \in Starts(ins) \cup {Len(ins)}

(* What reaches the end of the code comes from an instruction before it.   *)
Arrives(row, ins) ==
  row[Len(ins)] = {} \/ Len(ins) = 0 \/ \E p \in Starts(ins) : Len(ins) \in Successors(ins, p)

(* One step of the sweep.                                                  *)
LEMMA SweepWithin ==
  ASSUME NEW ins, NEW h, Steers(ins, h), NEW row, Within(row, ins, h), Arrives(row, ins),
         NEW p \in Nat, p < Len(ins)
  PROVE  Within(Sweep(row, ins, p, ins[p + 1]), ins, h) /\ Arrives(Sweep(row, ins, p, ins[p + 1]), ins)
<1>. DEFINE L == Len(ins)
            New == {d - Pops(ins, p) + Pushes(ins[p + 1]) : d \in row[p]}
<1>1. CASE row[p] = {}
  BY <1>1 DEF Sweep
<1>2. CASE row[p] # {}
  <2>1. L \in Nat /\ p \in 0..L /\ p # L /\ L \in 0..L
    BY DEF Steers
  <2>2. p \in Starts(ins) /\ \A d \in row[p] : d = h[p]
    BY <1>2, <2>1 DEF Within
  <2>3. \A d \in New : d = h[p] - Pops(ins, p) + Pushes(ins[p + 1])
    BY <2>2
  <2>. HIDE DEF New
  <2>4. PICK row2 : row2 = [q \in 0..L |-> IF q \in Successors(ins, p) THEN row[q] \cup New ELSE row[q]]
    OBVIOUS
  <2>5. Sweep(row, ins, p, ins[p + 1]) = row2
    BY <1>2, <2>4 DEF Sweep, New
  <2>6. \A q \in 0..L : row2[q] = IF q \in Successors(ins, p) THEN row[q] \cup New ELSE row[q]
    BY <2>4
  <2>7. \A q \in Successors(ins, p) : q \in Starts(ins) \cup {L} /\ \A d \in New : d = h[q]
    BY <2>2, <2>3 DEF Steers
  <2>8. Within(row2, ins, h)
    BY <2>6, <2>7 DEF Within
  <2>9. Arrives(row2, ins)
    BY <2>1, <2>2, <2>6 DEF Arrives
  <2>. QED BY <2>5, <2>8, <2>9
<1>. QED BY <1>1, <1>2

(* So the depths are at most the levels.                                   *)
LEMMA DepthsWithin ==
  ASSUME NEW ins, NEW h, Steers(ins, h)
  PROVE  Within(Depths(ins), ins, h) /\ Arrives(Depths(ins), ins)
<1>. DEFINE L == Len(ins)
            f == CHOOSE g : Sweeps(g, ins, L)
<1>1. Depths(ins) = f[L]
  BY DEF Depths, Sweeps, Sweeping, Sweep
<1>2. L \in Nat /\ 0 \in 0..L
  BY DEF Steers
<1>3. Sweeps(f, ins, L)
  BY <1>2, SweepsExists
<1>. HIDE DEF f
<1>4. Within(f[0], ins, h) /\ Arrives(f[0], ins)
  <2>1. f[0] = [q \in 0..L |-> IF q = 0 THEN {0} ELSE {}]
    BY <1>2, <1>3 DEF Sweeps
  <2>2. 0 \in Starts(ins) \cup {L} /\ h[0] = 0 /\ L \in 0..L
    BY <1>2 DEF Steers
  <2>. QED BY <1>2, <2>1, <2>2 DEF Within, Arrives
<1>. DEFINE T == {n \in Nat : n <= L => Within(f[n], ins, h) /\ Arrives(f[n], ins)}
<1>5. 0 \in T
  BY <1>4
<1>6. ASSUME NEW n \in Nat, n \in T PROVE n + 1 \in T
  <2>. SUFFICES ASSUME n + 1 <= L PROVE Within(f[n + 1], ins, h) /\ Arrives(f[n + 1], ins)
    OBVIOUS
  <2>1. n <= L /\ n < L /\ n + 1 \in 0..L /\ n + 1 # 0 /\ (n + 1) - 1 = n
    BY <1>2
  <2>2. Within(f[n], ins, h) /\ Arrives(f[n], ins)
    BY <1>6, <2>1
  <2>3. f[n + 1] = Sweep(f[n], ins, n, ins[n + 1])
    <3>1. f[n + 1] = Sweeping(f[n], ins, n + 1)
      BY <1>3, <2>1 DEF Sweeps
    <3>. QED BY <2>1, <3>1 DEF Sweeping
  <2>. QED BY <2>1, <2>2, <2>3, SweepWithin
<1>7. L \in T
  <2>. HIDE DEF T
  <2>. QED BY <1>2, <1>5, <1>6, SetInduction
<1>8. L <= L
  BY <1>2
<1>. QED BY <1>1, <1>2, <1>7, <1>8

(* Finished code steers along its levels, where two bytes hold its         *)
(* positions.                                                              *)
LEMMA FollowsSteers ==
  ASSUME NEW ins, Len(ins) \in Nat, Len(ins) <= ByteSize * ByteSize, Whole(ins), Tight(ins, {}),
         NEW h, Follows(ins, h, {})
  PROVE  /\ Steers(ins, h)
         /\ CodeReturns(ins) => \A p \in Starts(ins) : Len(ins) \notin Successors(ins, p)
<1>. DEFINE L == Len(ins)  M == ByteSize * ByteSize
<1>1. /\ Starts(ins) \subseteq 0..L - 1 /\ (L > 0 => 0 \in Starts(ins))
      /\ \A p \in Starts(ins) : p + Width(ins[p + 1]) < L => p + Width(ins[p + 1]) \in Starts(ins)
  BY StartsClosed
<1>2. M \in Nat
  BY ByteSizeAssumption
<1>3. h \in [Nat -> Int] /\ h[0] = 0 /\ \A p \in Starts(ins) : LevelAt(ins, h, p, {}, Starts(ins) \cup {L})
  BY DEF Follows, Level
<1>4. 0 \in Starts(ins) \cup {L}
  BY <1>1
<1>5. ASSUME NEW p \in Starts(ins), ins[p + 1] \in JumpOps
      PROVE  LET q == ReadUint16(ins, p + 1)
             IN  q \in Starts(ins) /\ q # L /\ h[q] = (h[p] - Pops(ins, p)) + Pushes(ins[p + 1])
  <2>1. p \in Jumps(ins)
    BY <1>5 DEF Jumps
  <2>2. PICK T \in Starts(ins) : Lands(ins, p, T)
    BY <2>1 DEF Tight
  <2>3. PICK U \in Starts(ins) \cup {L} : Lands(ins, p, U) /\ h[U] = h[p] - Pops(ins, p)
    BY <1>3, <1>5 DEF LevelAt
  <2>4. T \in 0..L - 1 /\ U \in 0..L /\ p \in 0..L - 1
    BY <1>1
  <2>5. /\ T > p /\ U > p /\ ReadUint16(ins, p + 1) = T % M /\ ReadUint16(ins, p + 1) = U % M
    BY <2>2, <2>3 DEF Lands
  <2>. HIDE DEF M, L
  <2>6. L \in Nat /\ L <= M
    BY DEF L, M
  <2>7. T % M = T
    BY ONLY <1>2, <2>4, <2>6
  <2>8. U = T
    <3>1. U < M => U % M = U
      BY ONLY <1>2, <2>4, <2>6
    <3>2. U = M => U % M = 0
      BY ONLY <1>2, <2>4, <2>6
    <3>. QED BY ONLY <1>2, <2>4, <2>5, <2>6, <2>7, <3>1, <3>2
  <2>9. Pushes(ins[p + 1]) = 0 /\ h[T] \in Int
    <3>1. Pushes(ins[p + 1]) = 0
      BY <1>5 DEF Pushes, JumpOps
    <3>2. T \in Nat
      BY <2>4, <2>6
    <3>. QED BY <1>3, <3>1, <3>2
  <2>10. ReadUint16(ins, p + 1) = T /\ T # L /\ h[T] = h[p] - Pops(ins, p)
    BY <2>3, <2>4, <2>5, <2>6, <2>7, <2>8
  <2>11. \A x : x \in Int => x = x + 0
    OBVIOUS
  <2>. QED BY <2>2, <2>9, <2>10, <2>11
<1>6. ASSUME NEW p \in Starts(ins), NEW q \in Successors(ins, p)
      PROVE  /\ q \in Starts(ins) \cup {L} /\ h[q] = (h[p] - Pops(ins, p)) + Pushes(ins[p + 1])
             /\ CodeReturns(ins) => q # L
  <2>1. \/ q = p + Width(ins[p + 1]) /\ ins[p + 1] \notin Leaving
        \/ q = ReadUint16(ins, p + 1) /\ ins[p + 1] \in JumpOps
    BY DEF Successors, Leaving, JumpOps
  <2>2. CASE q = p + Width(ins[p + 1]) /\ ins[p + 1] \notin Leaving
    <3>1. h[q] = (h[p] - Pops(ins, p)) + Pushes(ins[p + 1])
      BY <1>3, <2>2 DEF LevelAt
    <3>2. q <= L /\ q \in Nat
      <4>1. p \in Nat /\ Width(ins[p + 1]) \in Nat
        BY <1>1, WidthRange
      <4>. QED BY <2>2, <4>1 DEF Whole
    <3>3. q \in Starts(ins) \cup {L}
      BY <1>1, <2>2, <3>2
    <3>4. CodeReturns(ins) => q # L
      BY <2>2 DEF CodeReturns, Leaving
    <3>. QED BY <3>1, <3>3, <3>4
  <2>3. CASE q = ReadUint16(ins, p + 1) /\ ins[p + 1] \in JumpOps
    BY <1>5, <2>3
  <2>. QED BY <2>1, <2>2, <2>3
<1>. QED BY <1>1, <1>3, <1>4, <1>6 DEF Steers
=============================================================================
