-------------------------- MODULE DisassemblerProofs --------------------------
(***************************************************************************)
(* Reading back what Make wrote, for every size of a byte and every stream *)
(* of instructions.                                                        *)
(***************************************************************************)
EXTENDS Disassembler, ProofBasics

(* A stream of instructions.                                               *)

(* f[k] is the first k of the sequences, one behind the other.             *)
Flattens(f, seqs, m) ==
  \A k \in 1..m : f[k] = IF k = 1 THEN seqs[k] ELSE f[k - 1] \o seqs[k]

(* The recursion of FlattenSeq has a solution.                             *)
LEMMA FlattenExists ==
  ASSUME NEW S, NEW n \in Nat, NEW seqs \in [1..n -> Seq(S)]
  PROVE  \E f \in [1..n -> Seq(S)] : Flattens(f, seqs, n)
<1>. DEFINE T == {m \in Nat : m <= n => \E f \in [1..m -> Seq(S)] : Flattens(f, seqs, m)}
<1>1. 0 \in T
  <2>1. [k \in 1..0 |-> <<>>] \in [1..0 -> Seq(S)] /\ Flattens([k \in 1..0 |-> <<>>], seqs, 0)
    BY DEF Flattens
  <2>. QED BY <2>1
<1>2. ASSUME NEW m \in Nat, m \in T PROVE m + 1 \in T
  <2>. SUFFICES ASSUME m + 1 <= n PROVE \E f \in [1..(m + 1) -> Seq(S)] : Flattens(f, seqs, m + 1)
    OBVIOUS
  <2>1. PICK f \in [1..m -> Seq(S)] : Flattens(f, seqs, m)
    BY <1>2
  <2>. DEFINE last == IF m + 1 = 1 THEN seqs[m + 1] ELSE f[m] \o seqs[m + 1]
              g == [k \in 1..(m + 1) |-> IF k = m + 1 THEN last ELSE f[k]]
  <2>2. seqs[m + 1] \in Seq(S) /\ (m + 1 # 1 => f[m] \in Seq(S))
    OBVIOUS
  <2>3. last \in Seq(S)
    BY <2>2
  <2>. HIDE DEF last
  <2>4. \A k \in 1..(m + 1) : k # m + 1 => k \in 1..m /\ (k # 1 => k - 1 \in 1..m)
    OBVIOUS
  <2>5. g \in [1..(m + 1) -> Seq(S)]
    BY <2>3, <2>4
  <2>6. ASSUME NEW k \in 1..(m + 1)
        PROVE  g[k] = IF k = 1 THEN seqs[k] ELSE g[k - 1] \o seqs[k]
    <3>1. CASE k = m + 1
      BY <3>1 DEF last
    <3>2. CASE k # m + 1
      <4>1. g[k] = f[k] /\ (k # 1 => g[k - 1] = f[k - 1])
        BY <2>4, <3>2
      <4>. QED BY <2>1, <2>4, <3>2, <4>1 DEF Flattens
    <3>. QED BY <3>1, <3>2
  <2>. QED BY <2>5, <2>6 DEF Flattens
<1>3. \A m \in Nat : m \in T
  BY <1>1, <1>2, SetInduction
<1>. QED BY <1>3

(* FlattenSeq is the last of them.                                         *)
LEMMA FlattenIsLast ==
  ASSUME NEW S, NEW n \in Nat \ {0}, NEW seqs \in [1..n -> Seq(S)]
  PROVE  \E f \in [1..n -> Seq(S)] : Flattens(f, seqs, n) /\ FlattenSeq(seqs) = f[n]
<1>. DEFINE Is(f) == f = [k \in 1..n |-> IF k = 1 THEN seqs[k] ELSE f[k - 1] \o seqs[k]]
            flatten == CHOOSE f : Is(f)
<1>1. PICK g \in [1..n -> Seq(S)] : Flattens(g, seqs, n)
  BY FlattenExists
<1>2. Is(g)
  BY <1>1 DEF Flattens
<1>3. Is(flatten)
  BY <1>2
<1>4. flatten \in [1..n -> Seq(S)]
  <2>. HIDE DEF flatten
  <2>. DEFINE T == {m \in Nat : m \in 1..n => flatten[m] = g[m]}
  <2>1. 0 \in T
    OBVIOUS
  <2>2. ASSUME NEW m \in Nat, m \in T PROVE m + 1 \in T
    <3>. SUFFICES ASSUME m + 1 \in 1..n PROVE flatten[m + 1] = g[m + 1]
      OBVIOUS
    <3>1. /\ flatten[m + 1] = IF m + 1 = 1 THEN seqs[m + 1] ELSE flatten[(m + 1) - 1] \o seqs[m + 1]
          /\ g[m + 1] = IF m + 1 = 1 THEN seqs[m + 1] ELSE g[(m + 1) - 1] \o seqs[m + 1]
      BY <1>2, <1>3
    <3>2. m + 1 # 1 => flatten[(m + 1) - 1] = g[(m + 1) - 1]
      BY <2>2
    <3>. QED BY <3>1, <3>2
  <2>3. \A m \in Nat : m \in T
    BY <2>1, <2>2, SetInduction
  <2>4. \A m \in 1..n : flatten[m] = g[m]
    BY <2>3
  <2>5. DOMAIN flatten = 1..n /\ flatten = [m \in 1..n |-> flatten[m]]
    BY <1>3
  <2>. QED BY <2>4, <2>5
<1>5. Flattens(flatten, seqs, n)
  <2>. HIDE DEF flatten
  <2>. QED BY <1>3 DEF Flattens
<1>6. FlattenSeq(seqs) = flatten[n]
  <2>1. Len(seqs) = n
    BY IsASeq
  <2>. QED BY <2>1 DEF FlattenSeq
<1>. QED BY <1>4, <1>5, <1>6

(* Where the elements of s \o t come from.                                 *)
LEMMA ConcatElements ==
  ASSUME NEW S, NEW s \in Seq(S), NEW t \in Seq(S)
  PROVE  /\ Len(s) \in Nat /\ Len(t) \in Nat
         /\ Len(s \o t) = Len(s) + Len(t)
         /\ \A j \in 1..Len(s) : (s \o t)[j] = s[j]
         /\ \A j \in 1..Len(t) : (s \o t)[Len(s) + j] = t[j]
<1>1. Len(s) \in Nat /\ Len(t) \in Nat
  BY LenProperties
<1>2. Len(s \o t) = Len(s) + Len(t)
  BY ConcatProperties
<1>. QED BY <1>1, <1>2

(* The k-th of n sequences stands in whole behind off[k - 1].              *)
Offsets(off, seqs, n, whole) ==
  /\ off \in [0..n -> Nat]
  /\ off[0] = 0 /\ off[n] = Len(whole)
  /\ \A k \in 1..n :
       /\ off[k] = off[k - 1] + Len(seqs[k])
       /\ \A j \in 1..Len(seqs[k]) : whole[off[k - 1] + j] = seqs[k][j]

(* FlattenSeq puts each sequence behind the ones before it.                *)
LEMMA FlattenLayout ==
  ASSUME NEW S, NEW n \in Nat \ {0}, NEW seqs \in [1..n -> Seq(S)]
  PROVE  \E off : Offsets(off, seqs, n, FlattenSeq(seqs))
<1>1. PICK f \in [1..n -> Seq(S)] : Flattens(f, seqs, n) /\ FlattenSeq(seqs) = f[n]
  BY FlattenIsLast
<1>. DEFINE off == [k \in 0..n |-> IF k = 0 THEN 0 ELSE Len(f[k])]
<1>2. off \in [0..n -> Nat]
  <2>1. \A k \in 0..n : k # 0 => Len(f[k]) \in Nat
    BY LenProperties
  <2>. QED BY <2>1
<1>3. /\ off[0] = 0 /\ off[n] = Len(f[n])
      /\ \A k \in 1..n : off[k] = Len(f[k]) /\ k - 1 \in 0..n
  OBVIOUS
<1>. HIDE DEF off
<1>4. ASSUME NEW k \in 1..n
      PROVE  /\ off[k] = off[k - 1] + Len(seqs[k])
             /\ \A j \in 1..Len(seqs[k]) : f[k][off[k - 1] + j] = seqs[k][j]
  <2>1. CASE k = 1
    <3>1. f[k] = seqs[k] /\ off[k - 1] = 0 /\ seqs[k] \in Seq(S)
      BY <1>1, <1>3, <2>1 DEF Flattens
    <3>2. Len(seqs[k]) \in Nat
      BY <3>1, LenProperties
    <3>. QED BY <1>3, <3>1, <3>2
  <2>2. CASE k # 1
    <3>1. k - 1 \in 1..n /\ f[k - 1] \in Seq(S) /\ seqs[k] \in Seq(S)
      BY <2>2
    <3>2. f[k] = f[k - 1] \o seqs[k] /\ off[k - 1] = Len(f[k - 1])
      BY <1>1, <1>3, <2>2, <3>1 DEF Flattens
    <3>3. /\ Len(f[k - 1] \o seqs[k]) = Len(f[k - 1]) + Len(seqs[k])
          /\ \A j \in 1..Len(seqs[k]) : (f[k - 1] \o seqs[k])[Len(f[k - 1]) + j] = seqs[k][j]
      BY <3>1, ConcatElements
    <3>. QED BY <1>3, <3>2, <3>3
  <2>. QED BY <2>1, <2>2
<1>5. ASSUME NEW k \in 1..n, NEW j \in Nat, j \in 1..Len(f[k])
      PROVE  f[n][j] = f[k][j]
  <2>. DEFINE T == {m \in Nat : m \in k..n => j \in 1..Len(f[m]) /\ f[m][j] = f[k][j]}
  <2>1. 0 \in T
    OBVIOUS
  <2>2. ASSUME NEW m \in Nat, m \in T PROVE m + 1 \in T
    <3>. SUFFICES ASSUME m + 1 \in k..n PROVE j \in 1..Len(f[m + 1]) /\ f[m + 1][j] = f[k][j]
      OBVIOUS
    <3>1. CASE m + 1 = k
      BY <1>5, <3>1
    <3>2. CASE m + 1 # k
      <4>1. m \in k..n /\ m \in 1..n /\ m + 1 \in 1..n /\ m + 1 # 1
        BY <3>2
      <4>2. j \in 1..Len(f[m]) /\ f[m][j] = f[k][j]
        BY <2>2, <4>1
      <4>3. f[m + 1] = f[m] \o seqs[m + 1] /\ f[m] \in Seq(S) /\ seqs[m + 1] \in Seq(S)
        <5>1. (m + 1) - 1 = m
          OBVIOUS
        <5>2. f[m + 1] = f[(m + 1) - 1] \o seqs[m + 1]
          BY <1>1, <4>1 DEF Flattens
        <5>. QED BY <4>1, <5>1, <5>2
      <4>. DEFINE s == f[m]
                  t == seqs[m + 1]
      <4>4. s \in Seq(S) /\ t \in Seq(S) /\ f[m + 1] = s \o t /\ j \in 1..Len(s) /\ s[j] = f[k][j]
        BY <4>2, <4>3
      <4>. HIDE DEF s, t
      <4>5. Len(s) \in Nat /\ Len(t) \in Nat /\ Len(s \o t) = Len(s) + Len(t) /\ (s \o t)[j] = s[j]
        BY <4>4, ConcatElements
      <4>6. j \in 1..Len(s \o t)
        BY <4>4, <4>5
      <4>. QED BY <4>4, <4>5, <4>6
    <3>. QED BY <3>1, <3>2
  <2>3. \A m \in Nat : m \in T
    BY <2>1, <2>2, SetInduction
  <2>. QED BY <2>3
<1>6. ASSUME NEW k \in 1..n, NEW j \in 1..Len(seqs[k])
      PROVE  f[n][off[k - 1] + j] = seqs[k][j]
  <2>1. off[k - 1] \in Nat /\ Len(f[k]) = off[k - 1] + Len(seqs[k]) /\ Len(seqs[k]) \in Nat
    BY <1>2, <1>3, <1>4, LenProperties
  <2>2. off[k - 1] + j \in 1..Len(f[k])
    BY <2>1
  <2>3. off[k - 1] + j \in Nat
    BY <2>1
  <2>4. f[n][off[k - 1] + j] = f[k][off[k - 1] + j]
    BY <1>5, <2>2, <2>3
  <2>5. f[k][off[k - 1] + j] = seqs[k][j]
    BY <1>4
  <2>. QED BY ONLY <2>4, <2>5
<1>7. Offsets(off, seqs, n, FlattenSeq(seqs))
  BY <1>1, <1>2, <1>3, <1>4, <1>6 DEF Offsets
<1>. QED BY <1>7

(* The k-th instruction of the listing stands at off[k - 1].               *)
LaidOut(off) ==
  /\ off \in [0..Len(listing) -> Nat]
  /\ off[0] = 0 /\ off[Len(listing)] = Len(ins)
  /\ \A k \in 1..Len(listing) :
       LET bytes == Make(listing[k][1], listing[k][2])
       IN  /\ off[k] = off[k - 1] + Len(bytes)
           /\ \A j \in 1..Len(bytes) : ins[off[k - 1] + j] = bytes[j]

(* The inductive invariant: the cursor stands where the next instruction   *)
(* begins, and each line was written where its instruction does.           *)
Lines == Nat \X Opcodes \X UNION {[1..n -> Nat] : n \in 0..2}

IInv ==
  /\ listing \in Seq(Emitted) /\ out \in Seq(Lines)
  /\ ListsWhatWasEmitted
  /\ \E off : /\ LaidOut(off) /\ i = off[Len(out)]
              /\ \A k \in DOMAIN out : out[k][1] = off[k - 1]

(* What is known of an instruction that is emitted.                        *)
LEMMA EmittedShape ==
  ASSUME NEW e \in Emitted
  PROVE  /\ e = <<e[1], e[2]>> /\ e[1] \in Opcodes
         /\ e[2] \in [1..Len(OperandWidths(e[1])) -> Nat]
         /\ Make(e[1], e[2]) \in Seq(Nat)
         /\ Len(Make(e[1], e[2])) = Width(e[1])
         /\ Width(e[1]) \in 1..4
<1>1. /\ e = <<e[1], e[2]>> /\ e[1] \in Opcodes
      /\ e[2] \in [1..Len(OperandWidths(e[1])) -> Nat]
  BY DisassemblerAssumption
<1>. QED BY <1>1, MakeWrites

(* Before the first turn of the loop nothing is read and nothing is listed *)
(* (code.go:12-16).                                                        *)
LEMMA InitEstablishes == Init => IInv
<1>. SUFFICES ASSUME Init PROVE IInv
  OBVIOUS
<1>. DEFINE n == Len(listing)
            seqs == [k \in DOMAIN listing |-> Make(listing[k][1], listing[k][2])]
<1>1. listing \in Seq(Emitted) /\ n \in Nat /\ DOMAIN listing = 1..n
  <2>1. PICK m \in 0..MaxLength : listing \in [1..m -> Emitted]
    BY DEF Init, BoundedSeq, SeqOf
  <2>2. m \in Nat
    BY DisassemblerAssumption
  <2>. QED BY <2>1, <2>2, IsASeq, LenProperties
<1>2. seqs \in [1..n -> Seq(Nat)] /\ ins = FlattenSeq(seqs) /\ out = <<>> /\ i = 0
  <2>1. \A k \in 1..n : Make(listing[k][1], listing[k][2]) \in Seq(Nat)
    BY <1>1, EmittedShape, ElementOfSeq
  <2>. QED BY <1>1, <2>1 DEF Init
<1>. HIDE DEF n
<1>3. \E off : LaidOut(off)
  <2>1. CASE n = 0
    <3>1. ins = <<>> 
      <4>1. Len(seqs) = 0 /\ seqs = <<>>
        <5>. HIDE DEF seqs
        <5>. QED BY <1>2, <2>1, IsASeq, EmptySeq
      <4>. QED BY <1>2, <4>1 DEF FlattenSeq
    <3>2. LaidOut([k \in 0..0 |-> 0])
      BY <1>1, <2>1, <3>1 DEF LaidOut, n
    <3>. QED BY <3>2
  <2>2. CASE n # 0
    <3>1. n \in Nat \ {0}
      BY <1>1, <2>2 DEF n
    <3>2. /\ seqs \in [1..n -> Seq(Nat)]
          /\ \A k \in 1..n : seqs[k] = Make(listing[k][1], listing[k][2])
      BY <1>1, <1>2 DEF n
    <3>. HIDE DEF seqs
    <3>3. PICK off : Offsets(off, seqs, n, FlattenSeq(seqs))
      BY <3>1, <3>2, FlattenLayout
    <3>4. LaidOut(off)
      BY <1>2, <3>2, <3>3 DEF LaidOut, Offsets, n
    <3>. QED BY <3>4
  <2>. QED BY <2>1, <2>2
<1>4. PICK off : LaidOut(off)
  BY <1>3
<1>5. ListsWhatWasEmitted /\ out \in Seq(Lines) /\ DOMAIN out = {} /\ Len(out) = 0
  BY <1>1, <1>2 DEF ListsWhatWasEmitted, n
<1>6. i = off[Len(out)]
  BY <1>2, <1>4, <1>5 DEF LaidOut
<1>. QED BY <1>1, <1>4, <1>5, <1>6 DEF IInv

(* One turn of the loop lists the instruction that stands at the cursor    *)
(* and moves behind it (code.go:16-31).                                    *)
LEMMA StepPreserves == IInv /\ [Next]_vars => IInv'
<1>. SUFFICES ASSUME IInv, [Next]_vars PROVE IInv'
  OBVIOUS
<1>1. CASE UNCHANGED vars
  BY <1>1 DEF vars, IInv, ListsWhatWasEmitted, LaidOut
<1>2. CASE WriteLine
  <2>. DEFINE n == Len(listing)
              m == Len(out)
              e == listing[m + 1]
              op == e[1]
              kept == [j \in DOMAIN e[2] |-> Kept(OperandWidths(op)[j], e[2][j])]
  <2>1. /\ listing \in Seq(Emitted) /\ out \in Seq(Lines)
        /\ n \in Nat /\ m \in Nat /\ m <= n
        /\ DOMAIN out = 1..m /\ DOMAIN listing = 1..n
    BY LenProperties DEF IInv, ListsWhatWasEmitted
  <2>2. PICK off : /\ LaidOut(off) /\ i = off[m]
                   /\ \A k \in DOMAIN out : out[k][1] = off[k - 1]
    BY DEF IInv
  <2>. HIDE DEF n, m
  <2>3. m < n /\ m + 1 \in 1..n /\ (m + 1) - 1 = m /\ e \in Emitted
    <3>0. i < Len(ins)
      BY <1>2 DEF WriteLine
    <3>1. off[n] = Len(ins) /\ off[m] \in Nat
      BY <2>1, <2>2 DEF LaidOut, n
    <3>2. m # n
      BY <2>2, <3>0, <3>1
    <3>3. m < n /\ m + 1 \in 1..n /\ (m + 1) - 1 = m
      BY <2>1, <3>2
    <3>. QED BY <2>1, <3>3, ElementOfSeq DEF n
  <2>. HIDE DEF e
  <2>4. /\ op \in Opcodes /\ e[2] \in [1..Len(OperandWidths(op)) -> Nat]
        /\ Len(Make(op, e[2])) = Width(op) /\ Width(op) \in 1..4
    BY <2>3, EmittedShape
  <2>5. /\ i \in Nat /\ off[m + 1] = i + Width(op)
        /\ \A j \in 1..Width(op) : ins[i + j] = Make(op, e[2])[j]
    <3>1. m \in 0..n
      BY <2>1
    <3>. QED BY <2>1, <2>2, <2>3, <2>4, <3>1 DEF LaidOut, n, e
  <2>6. ins[i + 1] = op /\ ReadOperands(op, ins, i + 1) = kept
    BY <2>4, <2>5, ReadsWhatMakeWrote
  <2>7. kept \in UNION {[1..w -> Nat] : w \in 0..2}
    <3>1. Len(OperandWidths(op)) \in 0..2
      BY <2>4, OperandLayouts
    <3>2. \A j \in DOMAIN e[2] : Kept(OperandWidths(op)[j], e[2][j]) \in Nat
      BY <2>4, ByteSizeAssumption DEF Kept
    <3>. QED BY <2>4, <3>1, <3>2
  <2>. HIDE DEF kept
  <2>8. /\ out' = Append(out, <<i, op, kept>>) /\ i' = i + Width(op)
        /\ listing' = listing /\ ins' = ins
    BY <1>2, <2>4, <2>6 DEF WriteLine
  <2>. DEFINE line == <<i, op, kept>>
  <2>9. /\ out' \in Seq(Lines) /\ Len(out') = m + 1 /\ DOMAIN out' = 1..(m + 1)
        /\ out'[m + 1] = line /\ \A k \in 1..m : out'[k] = out[k]
    <3>1. line \in Lines
      BY <2>4, <2>5, <2>7 DEF Lines
    <3>. HIDE DEF line
    <3>. QED BY <2>1, <2>8, <3>1, AppendProperties, LenProperties DEF m, line
  <2>10. LaidOut(off)' /\ i' = off[m + 1] /\ Len(listing') = n
    BY <2>2, <2>5, <2>8 DEF LaidOut, n
  <2>11. \A k \in 1..(m + 1) : out'[k][1] = off[k - 1]
    <3>. SUFFICES ASSUME NEW k \in 1..(m + 1) PROVE out'[k][1] = off[k - 1]
      OBVIOUS
    <3>1. CASE k = m + 1
      <4>1. out'[k][1] = i
        BY <2>9, <3>1
      <4>2. off[k - 1] = i
        BY <2>2, <2>3, <3>1
      <4>. QED BY ONLY <4>1, <4>2
    <3>2. CASE k # m + 1
      <4>1. k \in 1..m /\ k \in DOMAIN out
        BY <2>1, <3>2
      <4>2. out'[k] = out[k]
        BY <2>9, <4>1
      <4>. QED BY <2>2, <4>1, <4>2
    <3>. QED BY <3>1, <3>2
  <2>12. ASSUME NEW k \in 1..(m + 1)
         PROVE  /\ out'[k][2] = listing[k][1]
                /\ out'[k][3] = [j \in DOMAIN listing[k][2] |->
                                   Kept(OperandWidths(listing[k][1])[j], listing[k][2][j])]
    <3>1. CASE k = m + 1
      BY <2>9, <3>1 DEF e, kept
    <3>2. CASE k # m + 1
      <4>1. k \in 1..m
        BY <2>1, <3>2
      <4>. QED BY <2>1, <2>9, <4>1 DEF IInv, ListsWhatWasEmitted
    <3>. QED BY <3>1, <3>2
  <2>13. ASSUME NEW k \in 1..(m + 1), k # 1
         PROVE  out'[k][1] = out'[k - 1][1] + Width(out'[k - 1][2])
    <3>1. k - 1 \in 1..(m + 1) /\ k - 1 \in 1..n /\ listing[k - 1] \in Emitted
      <4>1. k - 1 \in 1..(m + 1) /\ k - 1 \in 1..n
        BY <2>1, <2>3, <2>13
      <4>. QED BY <2>1, <4>1, ElementOfSeq DEF n
    <3>2. off[k - 1] = off[(k - 1) - 1] + Width(listing[k - 1][1])
      BY <2>2, <3>1, EmittedShape DEF LaidOut, n
    <3>. QED BY <2>11, <2>12, <3>1, <3>2
  <2>14. out'[1][1] = 0
    BY <2>1, <2>2, <2>11 DEF LaidOut
  <2>15. ListsWhatWasEmitted'
    <3>. SUFFICES ASSUME NEW k \in DOMAIN out'
                  PROVE  /\ out'[k][2] = listing[k][1]
                         /\ out'[k][3] = [j \in DOMAIN listing[k][2] |->
                                            Kept(OperandWidths(listing[k][1])[j], listing[k][2][j])]
                         /\ out'[k][1] = IF k = 1 THEN 0 ELSE out'[k - 1][1] + Width(out'[k - 1][2])
      <4>1. Len(out') <= Len(listing')
        BY <2>1, <2>3, <2>8, <2>9 DEF n
      <4>. QED BY <2>8, <4>1 DEF ListsWhatWasEmitted
    <3>1. k \in 1..(m + 1)
      BY <2>9
    <3>. QED BY <2>12, <2>13, <2>14, <3>1
  <2>. QED BY <2>1, <2>8, <2>9, <2>10, <2>11, <2>15 DEF IInv
<1>. QED BY <1>1, <1>2 DEF Next

(* Instructions.String lists what was emitted: whatever instructions Make  *)
(* encoded one behind the other, each line has the opcode, the offset and  *)
(* the operands of its instruction, up to the width of their fields        *)
(* (code.go:13-33, 118-170).                                               *)
THEOREM StreamReadBack == Spec => []ListsWhatWasEmitted
<1>1. IInv => ListsWhatWasEmitted
  BY DEF IInv
<1>. QED BY <1>1, InitEstablishes, StepPreserves, PTL DEF Spec
==============================================================================
