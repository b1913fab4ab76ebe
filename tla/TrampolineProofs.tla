-------------------------- MODULE TrampolineProofs --------------------------
(***************************************************************************)
(* Proofs about Trampoline, for any set of shapes that newTrampoline       *)
(* accepts, wherever Dispatch is loaded and wherever the code is           *)
(* preempted, but for arm64's one unsafe instruction in the last two       *)
(* theorems.                                                               *)
(*                                                                         *)
(* The argument goes from the bytes up.  What a processor decodes from     *)
(* the bytes, or the word, of each assembler form is that instruction;     *)
(* flattening the listing of a shape puts each of them at an offset; so    *)
(* the processor, wherever the listing's k-th instruction begins, executes *)
(* that one.  The inductive invariant says, for each k, what the registers *)
(* and the stack hold there, and one lemma per instruction takes it from k *)
(* to k + 1.  The clears of results that hold no pointer are empty, and    *)
(* are skipped.  The properties follow from the invariant, from what the   *)
(* runtime reads of the stack pointer table and of the stack maps.         *)
(***************************************************************************)
EXTENDS Trampoline, DataProofs

-----------------------------------------------------------------------------
(* The stack maps and the listing of amd64 *)

\* The four bytes of a number below 256.
LEMMA Byte4Facts ==
  ASSUME NEW n \in 0..255
  PROVE  /\ Byte4(n) \in Seq(Nat) /\ Len(Byte4(n)) = 4
         /\ Byte4(n)[1] = n /\ Byte4(n)[2] = 0 /\ Byte4(n)[3] = 0 /\ Byte4(n)[4] = 0
<1>1. 256^0 = 1 /\ 256^1 = 256 /\ 256^2 = 65536 /\ 256^3 = 16777216
  OBVIOUS
<1>2. \A i \in 1..4 : (n \div 256^(i - 1)) % 256 \in Nat
  <2>1. \A i \in 1..4 : i - 1 = 0 \/ i - 1 = 1 \/ i - 1 = 2 \/ i - 1 = 3
    OBVIOUS
  <2> QED BY <1>1, <2>1
<1>3. /\ Byte4(n)[1] = (n \div 256^0) % 256 /\ Byte4(n)[2] = (n \div 256^1) % 256
      /\ Byte4(n)[3] = (n \div 256^2) % 256 /\ Byte4(n)[4] = (n \div 256^3) % 256
  BY DEF Byte4
<1>4. Byte4(n) \in Seq(Nat) /\ Len(Byte4(n)) = 4
  BY <1>2 DEF Byte4
<1>5. /\ (n \div 1) % 256 = n /\ (n \div 256) % 256 = 0
      /\ (n \div 65536) % 256 = 0 /\ (n \div 16777216) % 256 = 0
  BY SMT
<1> QED BY <1>1, <1>3, <1>4, <1>5

\* what the runtime's readers find in a map's bytes
CountAt(bytes, off) == A64!Number4(bytes, off + 5)

MarkAt(bytes, i) == (bytes[9 + (i \div 8)] \div 2^(i % 8)) % 2 = 1

\* The runtime reads the number of the area's words, their bits, and no locals.
LEMMA MapFacts ==
  ASSUME NEW sh \in Shapes
  PROVE  /\ CountAt(GoFunc(sh), 0) = Words(sh) /\ CountAt(GoFunc(sh), LocalsOff(sh)) = 0
         /\ \A i \in 0..Words(sh) - 1 : MarkAt(GoFunc(sh), i) <=> i \in ArgBits(sh)
<1> DEFINE w == Words(sh)
           nb == ArgsMapSize(sh) - 8
           np == LocalsOff(sh) - ArgsMapSize(sh)
           bits == [k \in 1..nb |-> ARM!Bits(ArgBits(sh), 8 * (k - 1), 8)]
           pad == [k \in 1..np |-> 0]
           six == Byte4(1) \o Byte4(w) \o bits \o pad \o Byte4(1) \o Byte4(0)
           zeros == <<0, 0, 0, 0>>
<1>1. w \in 0..60
  <2>1. sh.argWords \in Nat /\ sh.retWords \in Nat /\ sh.argWords + sh.retWords <= 60
    BY ShapeAssumption
  <2> QED BY <2>1 DEF Words
<1>2. GoFunc(sh) = six \o zeros
  BY Zenon DEF GoFunc
<1>3. /\ nb \in Nat /\ np \in Nat /\ nb = (w + 7) \div 8 /\ LocalsOff(sh) = 8 + nb + np
  <2>1. ArgsMapSize(sh) = 8 + ((w + 7) \div 8) /\ LocalsOff(sh) = ((ArgsMapSize(sh) + 3) \div 4) * 4
    BY DEF ArgsMapSize, LocalsOff
  <2> HIDE DEF w
  <2>2. PICK b : b = (w + 7) \div 8
    OBVIOUS
  <2>3. b \in Nat
    BY <1>1, <2>2
  <2>4. PICK a : a = ArgsMapSize(sh)
    OBVIOUS
  <2>5. a = 8 + b /\ a \in Nat /\ LocalsOff(sh) = ((a + 3) \div 4) * 4
    BY <2>1, <2>2, <2>3, <2>4
  <2>6. ((a + 3) \div 4) * 4 >= a /\ ((a + 3) \div 4) * 4 \in Nat
    BY <2>5
  <2> QED BY <2>2, <2>3, <2>4, <2>5, <2>6
<1> HIDE DEF nb, np
<1>4. bits \in Seq(Nat) /\ Len(bits) = nb
  <2> DEFINE byte(k) == ARM!Bits(ArgBits(sh), 8 * (k - 1), 8)
  <2>1. ASSUME NEW k \in 1..nb PROVE byte(k) \in Nat
    <3>1. 8 * (k - 1) \in Nat
      BY <1>3
    <3> QED BY <3>1, BitsFacts
  <2>2. bits = [k \in 1..nb |-> byte(k)]
    OBVIOUS
  <2> HIDE DEF byte, bits
  <2> QED BY <1>3, <2>1, <2>2
<1>5. pad \in Seq(Nat) /\ Len(pad) = np
  BY <1>3
<1>6. \A k \in 1..nb : bits[k] = ARM!Bits(ArgBits(sh), 8 * (k - 1), 8)
  OBVIOUS
<1> HIDE DEF bits, pad, w
<1>7. /\ Byte4(1) \in Seq(Nat) /\ Len(Byte4(1)) = 4 /\ Byte4(0) \in Seq(Nat) /\ Len(Byte4(0)) = 4
      /\ Byte4(w) \in Seq(Nat) /\ Len(Byte4(w)) = 4
  <2>1. w \in 0..255
    BY <1>1
  <2>2. 0 \in 0..255 /\ 1 \in 0..255
    OBVIOUS
  <2> QED BY <2>1, <2>2, Byte4Facts
<1>8. SixOf(six, Nat, Byte4(1), Byte4(w), bits, pad, Byte4(1), Byte4(0))
  BY <1>4, <1>5, <1>7 DEF SixOf
<1> HIDE DEF six
<1>9. /\ six \in Seq(Nat) /\ Len(six) = Len(Byte4(1)) + Len(Byte4(w)) + Len(bits) + Len(pad) + Len(Byte4(1)) + Len(Byte4(0))
      /\ Placed(six, Len(Byte4(1)), Byte4(w))
      /\ Placed(six, Len(Byte4(1)) + Len(Byte4(w)), bits)
      /\ Placed(six, Len(Byte4(1)) + Len(Byte4(w)) + Len(bits) + Len(pad) + Len(Byte4(1)), Byte4(0))
  BY <1>8, SixParts
<1>10. /\ six \in Seq(Nat) /\ Len(six) = 16 + nb + np
       /\ Placed(six, 4, Byte4(w)) /\ Placed(six, 8, bits) /\ Placed(six, LocalsOff(sh) + 4, Byte4(0))
  <2>1. /\ 4 + 4 = 8 /\ 4 + 4 + nb + np + 4 = LocalsOff(sh) + 4
        /\ 4 + 4 + nb + np + 4 + 4 = 16 + nb + np
    BY <1>3
  <2> QED BY <1>4, <1>5, <1>7, <1>9, <2>1
<1>11. \A i \in 1..16 + nb + np : GoFunc(sh)[i] = six[i]
  <2>1. zeros \in Seq(Nat)
    OBVIOUS
  <2> HIDE DEF zeros
  <2>2. Joins(six \o zeros, six, zeros)
    BY <1>10, <2>1, ConcatParts
  <2> QED BY <1>2, <1>10, <2>2 DEF Joins
<1>12. CountAt(GoFunc(sh), 0) = w
  <2>1. /\ six[5] = Byte4(w)[1] /\ six[6] = Byte4(w)[2] /\ six[7] = Byte4(w)[3] /\ six[8] = Byte4(w)[4]
    <3>1. /\ six[4 + 1] = Byte4(w)[1] /\ six[4 + 2] = Byte4(w)[2]
          /\ six[4 + 3] = Byte4(w)[3] /\ six[4 + 4] = Byte4(w)[4]
      BY <1>7, <1>10 DEF Placed
    <3>2. 4 + 1 = 5 /\ 4 + 2 = 6 /\ 4 + 3 = 7 /\ 4 + 4 = 8
      OBVIOUS
    <3> QED BY <3>1, <3>2
  <2>2. Byte4(w)[1] = w /\ Byte4(w)[2] = 0 /\ Byte4(w)[3] = 0 /\ Byte4(w)[4] = 0
    <3>1. w \in 0..255
      BY <1>1
    <3> QED BY <3>1, Byte4Facts
  <2>3. 5 \in 1..16 + nb + np /\ 6 \in 1..16 + nb + np /\ 7 \in 1..16 + nb + np /\ 8 \in 1..16 + nb + np
    BY <1>3
  <2>4. GoFunc(sh)[5] = w /\ GoFunc(sh)[6] = 0 /\ GoFunc(sh)[7] = 0 /\ GoFunc(sh)[8] = 0
    BY <1>11, <2>1, <2>2, <2>3
  <2>5. CountAt(GoFunc(sh), 0) = (GoFunc(sh)[5] + 256 * GoFunc(sh)[6]) + 65536 * (GoFunc(sh)[7] + 256 * GoFunc(sh)[8])
    <3>1. 0 + 5 = 5 /\ 5 + 1 = 6 /\ 5 + 2 = 7 /\ 7 + 1 = 8
      OBVIOUS
    <3> QED BY <3>1 DEF CountAt, A64!Number4, A64!Number2
  <2> QED BY <1>1, <2>4, <2>5
<1>13. CountAt(GoFunc(sh), LocalsOff(sh)) = 0
  <2>0. PICK at : at = LocalsOff(sh) + 4
    OBVIOUS
  <2>1. /\ six[at + 1] = Byte4(0)[1] /\ six[at + 2] = Byte4(0)[2]
        /\ six[at + 3] = Byte4(0)[3] /\ six[at + 4] = Byte4(0)[4]
    <3>1. Placed(six, at, Byte4(0))
      BY <1>10, <2>0
    <3>2. \A i \in 1..4 : six[at + i] = Byte4(0)[i]
      BY <1>7, <3>1 DEF Placed
    <3>3. 1 \in 1..4 /\ 2 \in 1..4 /\ 3 \in 1..4 /\ 4 \in 1..4
      OBVIOUS
    <3> QED BY <3>2, <3>3, Zenon
  <2>2. Byte4(0)[1] = 0 /\ Byte4(0)[2] = 0 /\ Byte4(0)[3] = 0 /\ Byte4(0)[4] = 0
    <3>1. 0 \in 0..255
      OBVIOUS
    <3> QED BY <3>1, Byte4Facts
  <2>3. /\ at + 1 \in 1..16 + nb + np /\ at + 2 \in 1..16 + nb + np
        /\ at + 3 \in 1..16 + nb + np /\ at + 4 \in 1..16 + nb + np /\ at \in Nat
    BY <1>3, <2>0
  <2>4. /\ GoFunc(sh)[at + 1] = 0 /\ GoFunc(sh)[at + 2] = 0
        /\ GoFunc(sh)[at + 3] = 0 /\ GoFunc(sh)[at + 4] = 0
    BY <1>11, <2>1, <2>2, <2>3
  <2>5. CountAt(GoFunc(sh), LocalsOff(sh)) =
          (GoFunc(sh)[at + 1] + 256 * GoFunc(sh)[at + 2]) + 65536 * (GoFunc(sh)[at + 3] + 256 * GoFunc(sh)[at + 4])
    <3>1. /\ LocalsOff(sh) + 5 = at + 1 /\ (LocalsOff(sh) + 5) + 1 = at + 2
          /\ (LocalsOff(sh) + 5) + 2 = at + 3 /\ ((LocalsOff(sh) + 5) + 2) + 1 = at + 4
      BY <1>3, <2>0
    <3> QED BY <3>1 DEF CountAt, A64!Number4, A64!Number2
  <2> QED BY <2>4, <2>5
<1>14. ASSUME NEW i \in 0..w - 1 PROVE MarkAt(GoFunc(sh), i) <=> i \in ArgBits(sh)
  <2>1. PICK q, j : q = i \div 8 /\ j = i % 8
    OBVIOUS
  <2>2. q \in Nat /\ j \in 0..7 /\ i = 8 * q + j /\ q + 1 \in 1..nb /\ 8 * q \in Nat
    <3>1. i \in Nat /\ w \in Nat /\ i + 1 <= w
      BY <1>1
    <3>2. q \in Nat /\ j \in 0..7 /\ i = 8 * q + j
      BY <2>1, <3>1
    <3>3. 8 * (q + 1) <= w + 7
      BY <3>1, <3>2
    <3>4. q + 1 <= (w + 7) \div 8
      BY <3>1, <3>2, <3>3
    <3> QED BY <1>3, <3>2, <3>4
  <2>3. GoFunc(sh)[9 + q] = ARM!Bits(ArgBits(sh), 8 * q, 8)
    <3>1. six[8 + (q + 1)] = bits[q + 1]
      BY <1>4, <1>10, <2>2 DEF Placed
    <3>2. 8 + (q + 1) = 9 + q /\ (q + 1) - 1 = q /\ 9 + q \in 1..16 + nb + np
      BY <1>3, <2>2
    <3> QED BY <1>6, <1>11, <2>2, <3>1, <3>2
  <2>4. PICK v : v = ARM!Bits(ArgBits(sh), 8 * q, 8)
    OBVIOUS
  <2>5. v \in Half /\ v < 2^8
    <3>1. v \in Nat /\ v < 2^8
      BY <2>2, <2>4, BitsFacts
    <3> QED BY <3>1, Powers, SMT DEF Half
  <2>6. Shows(ArgBits(sh), 8 * q, 8, v)
    BY <2>2, <2>4, <2>5, BitsFacts
  <2>7. Bit(v, j) <=> i \in ArgBits(sh)
    <3>1. j \in 0..8 - 1
      BY <2>2
    <3> QED BY <2>2, <2>6, <3>1 DEF Shows
  <2> QED BY <2>1, <2>3, <2>4, <2>7 DEF MarkAt, Bit
<1> QED BY <1>12, <1>13, <1>14 DEF w

\* these bytes are one instruction
Does64(bytes, op, a, b, n, imm) == Means64(bytes, A64!Ins(op, a, b, n, imm, Len(bytes)))

\* What stays of a shape's assumption where the ranges are not wanted.
LEMMA ShapeFacts ==
  ASSUME NEW sh \in Shapes
  PROVE  /\ sh.index \in Half /\ sh.argWords \in Nat /\ sh.retWords \in Nat
         /\ sh.argWords <= 60 /\ sh.retWords <= 60 /\ sh.argWords + sh.retWords <= 60
         /\ \A i \in sh.argPtrs : i \in Nat /\ i < sh.argWords
         /\ \A i \in sh.retPtrs : i \in Nat /\ i < sh.retWords
<1>1. /\ sh.index \in Nat /\ sh.index < 65536 /\ sh.argWords \in Nat /\ sh.retWords \in Nat
      /\ sh.argWords + sh.retWords <= 60
      /\ sh.argPtrs \subseteq 0..sh.argWords - 1 /\ sh.retPtrs \subseteq 0..sh.retWords - 1
  BY ShapeAssumption
<1>2. sh.index \in Half
  BY <1>1 DEF Half
<1>3. \A i \in sh.argPtrs : i \in Nat /\ i < sh.argWords
  BY <1>1
<1>4. \A i \in sh.retPtrs : i \in Nat /\ i < sh.retWords
  BY <1>1
<1>5. sh.argWords <= 60 /\ sh.retWords <= 60
  BY <1>1
<1> QED BY <1>1, <1>2, <1>3, <1>4, <1>5

\* The address's parts.
LEMMA DispatchFacts == Dispatch \in [1..4 -> Half]
BY DispatchAssumption DEF Half

\* the length of an instruction
Small == 1..15

\* What the forms have in common.
LEMMA MeansDoes ==
  ASSUME NEW bytes, NEW op, NEW a, NEW b, NEW n, NEW imm, NEW len,
         Means64(bytes, A64!Ins(op, a, b, n, imm, len))
  PROVE  bytes \in ByteSeq /\ Len(bytes) \in Small /\ Does64(bytes, op, a, b, n, imm)
<1>1. A64!Ins(op, a, b, n, imm, len).len = len
  BY DEF A64!Ins
<1>2. bytes \in ByteSeq /\ Len(bytes) = len /\ len \in 1..15
  BY <1>1 DEF Means64
<1>3. len \in Small
  BY <1>2 DEF Small
<1> QED BY <1>2, <1>3 DEF Does64

List64(sh) == A64!Listing(sh, Dispatch)

\* Each instruction of the listing and, of those the stack pointer table counts on,
\* the length.  m is the number of result words.
Lists64(sh, L, m) ==
  /\ L \in Seq(ByteSeq) /\ Len(L) = 20 + m /\ m \in Nat
  /\ \A k \in 1..20 + m : Len(L[k]) <= 15
  /\ Does64(L[1], "push", 5, 0, 0, A64!NoImm) /\ Len(L[1]) = 1
  /\ Does64(L[2], "move", 5, 4, 0, A64!NoImm) /\ Len(L[2]) = 3
  /\ Does64(L[3], "add", 4, 4, -208, A64!NoImm) /\ Len(L[3]) = 7
  /\ Does64(L[4], "store", 11, 4, 0, A64!NoImm)
  /\ Does64(L[5], "add", 2, 4, 224, A64!NoImm)
  /\ Does64(L[6], "store", 2, 4, 8, A64!NoImm)
  /\ \A i \in 1..m :
       /\ i - 1 \in sh.retPtrs =>
            Does64(L[6 + i], "clear", 0, 2, 8 * (sh.argWords + i - 1), A64!NoImm)
       /\ i - 1 \notin sh.retPtrs => L[6 + i] = <<>>
  /\ \A i \in 1..8 :
       Does64(L[6 + m + i], "move", Machine["amd64"].ints[10 - i],
              Machine["amd64"].ints[9 - i], 0, A64!NoImm)
  /\ Does64(L[15 + m], "set", 0, 0, 0, <<sh.index, 0, 0, 0>>)
  /\ Does64(L[16 + m], "set", 12, 0, 0, Dispatch)
  /\ Does64(L[17 + m], "call", 12, 0, 0, A64!NoImm)
  /\ Does64(L[18 + m], "add", 4, 4, 208, A64!NoImm)
  /\ Does64(L[19 + m], "pop", 5, 0, 0, A64!NoImm) /\ Len(L[19 + m]) = 1
  /\ Does64(L[20 + m], "ret", 0, 0, 0, A64!NoImm) /\ Len(L[20 + m]) = 1
  /\ \A k \in 1..20 + m : (k \notin 7..6 + m) => L[k] # <<>>

\* jitStubCode's listing for amd64 is that: instructions of at most fifteen bytes, each
\* the one that was meant.
LEMMA Listing64 ==
  ASSUME NEW sh \in Shapes, NEW L, L = List64(sh), NEW m, m = sh.retWords
  PROVE  Lists64(sh, L, m)
<1> DEFINE S == ByteSeq
           b1 == <<A64!MovToMem(4, 0, 11), A64!Lea(2, 4, 224), A64!MovToMem(4, 8, 2)>>
           c1 == A64!Clears(sh)
           e1 == <<A64!MovEAX(sh.index), A64!MovAbsR12(Dispatch), A64!CallR12>>
           no == A64!NoImm
<1>1. L = A64!Prologue \o b1 \o c1 \o A64!Shift \o e1 \o A64!Epilogue
  BY DEF List64, A64!Listing, A64!SP, A64!DX, A64!R11, A64!FrameSize
<1>2. /\ sh.index \in Half /\ sh.argWords \in Nat /\ m \in Nat
      /\ sh.argWords <= 60 /\ m <= 60 /\ Dispatch \in [1..4 -> Half]
  BY ShapeFacts, DispatchFacts
\* the forms, as MeansDoes reads them
<1>3. /\ A64!Push(5) \in S /\ Len(A64!Push(5)) = 1 /\ Does64(A64!Push(5), "push", 5, 0, 0, no)
      /\ A64!Pop(5) \in S /\ Len(A64!Pop(5)) = 1 /\ Does64(A64!Pop(5), "pop", 5, 0, 0, no)
      /\ A64!Ret \in S /\ Len(A64!Ret) = 1 /\ Does64(A64!Ret, "ret", 0, 0, 0, no)
  <2>1. /\ Len(A64!Push(5)) = 1 /\ Len(A64!Pop(5)) = 1 /\ Len(A64!Ret) = 1
    BY DEF A64!Push, A64!Pop, A64!Ret
  <2> QED BY <2>1, OneByteForms, MeansDoes
<1>4. \A d, s \in 0..15 : A64!Mov(d, s) \in S /\ Len(A64!Mov(d, s)) = 3 /\ Does64(A64!Mov(d, s), "move", d, s, 0, no)
  <2> SUFFICES ASSUME NEW d \in 0..15, NEW s \in 0..15
               PROVE  A64!Mov(d, s) \in S /\ Len(A64!Mov(d, s)) = 3 /\ Does64(A64!Mov(d, s), "move", d, s, 0, no)
    OBVIOUS
  <2>1. Len(A64!Mov(d, s)) = 3
    BY DEF A64!Mov
  <2>2. Means64(A64!Mov(d, s), A64!Ins("move", d, s, 0, no, 3))
    BY MovForm64
  <2> QED BY <2>1, <2>2, MeansDoes
<1>5. /\ A64!SubSP(208) \in S /\ Len(A64!SubSP(208)) = 7 /\ Does64(A64!SubSP(208), "add", 4, 4, -208, no)
      /\ A64!AddSP(208) \in S /\ Len(A64!AddSP(208)) = 7 /\ Does64(A64!AddSP(208), "add", 4, 4, 208, no)
      /\ A64!CallR12 \in S /\ Len(A64!CallR12) = 3 /\ Does64(A64!CallR12, "call", 12, 0, 0, no)
  <2>1. /\ A64!Ins("add", 4, 4, -208, no, 7).len = 7 /\ A64!Ins("add", 4, 4, 208, no, 7).len = 7
        /\ A64!Ins("call", 12, 0, 0, no, 3).len = 3
    BY DEF A64!Ins
  <2>2. Len(A64!SubSP(208)) = 7 /\ Len(A64!AddSP(208)) = 7 /\ Len(A64!CallR12) = 3
    BY <2>1, FrameForms64 DEF Means64
  <2> QED BY <2>2, FrameForms64, MeansDoes
<1>6. /\ A64!MovToMem(4, 0, 11) \in S /\ Len(A64!MovToMem(4, 0, 11)) \in Small
      /\ Does64(A64!MovToMem(4, 0, 11), "store", 11, 4, 0, no)
  <2>1. 0 \in Half
    BY DEF Half
  <2>2. \E len : Means64(A64!MovToMem(4, 0, 11), A64!Ins("store", 11, 4, 0, no, len))
    BY <2>1, MemoryForms, 11 \in 0..15, 4 \in {2, 4}
  <2> QED BY <2>2, MeansDoes
<1>7. /\ A64!MovToMem(4, 8, 2) \in S /\ Len(A64!MovToMem(4, 8, 2)) \in Small
      /\ Does64(A64!MovToMem(4, 8, 2), "store", 2, 4, 8, no)
  <2>1. 8 \in Half
    BY DEF Half
  <2>2. \E len : Means64(A64!MovToMem(4, 8, 2), A64!Ins("store", 2, 4, 8, no, len))
    BY <2>1, MemoryForms, 2 \in 0..15, 4 \in {2, 4}
  <2> QED BY <2>2, MeansDoes
<1>8. /\ A64!Lea(2, 4, 224) \in S /\ Len(A64!Lea(2, 4, 224)) \in Small
      /\ Does64(A64!Lea(2, 4, 224), "add", 2, 4, 224, no)
  <2>1. 224 \in Half
    BY DEF Half
  <2>2. \E len : Means64(A64!Lea(2, 4, 224), A64!Ins("add", 2, 4, 224, no, len))
    BY <2>1, MemoryForms, 2 \in 0..15, 4 \in {2, 4}
  <2> QED BY <2>2, MeansDoes
<1>9. ASSUME NEW d \in Half
      PROVE  /\ A64!MovImmToMem(2, d, 0) \in S /\ Len(A64!MovImmToMem(2, d, 0)) \in Small
             /\ Does64(A64!MovImmToMem(2, d, 0), "clear", 0, 2, d, no)
  <2>1. \E len : Means64(A64!MovImmToMem(2, d, 0), A64!Ins("clear", 0, 2, d, no, len))
    BY ClearForm64
  <2> QED BY <2>1, MeansDoes
<1>10. /\ A64!MovEAX(sh.index) \in S /\ Len(A64!MovEAX(sh.index)) \in Small
       /\ Does64(A64!MovEAX(sh.index), "set", 0, 0, 0, <<sh.index, 0, 0, 0>>)
  BY <1>2, IndexForm, MeansDoes
<1>11. /\ A64!MovAbsR12(Dispatch) \in S /\ Len(A64!MovAbsR12(Dispatch)) \in Small
       /\ Does64(A64!MovAbsR12(Dispatch), "set", 12, 0, 0, Dispatch)
  <2>1. Means64(A64!MovAbsR12(Dispatch), A64!Ins("set", 12, 0, 0, Dispatch, 10))
    BY AddressForm, DispatchFacts
  <2> QED BY <2>1, MeansDoes
\* the six parts
<1>s. \A n \in Small : n \in Nat /\ n <= 15 /\ n # 0
  BY DEF Small
<1>12. ASSUME NEW i \in 1..m
       PROVE  /\ i - 1 \in sh.retPtrs => c1[i] = A64!MovImmToMem(2, 8 * (sh.argWords + i - 1), 0)
              /\ i - 1 \notin sh.retPtrs => c1[i] = <<>>
  BY <1>2 DEF A64!Clears, A64!DX
<1>13. /\ c1 \in Seq(S) /\ Len(c1) = m
       /\ \A i \in 1..m : c1[i] \in S /\ Len(c1[i]) <= 15
  <2>1. <<>> \in S /\ Len(<<>>) = 0
    BY DEF ByteSeq
  <2>2. \A i \in 1..m : c1[i] \in S /\ Len(c1[i]) <= 15
    <3> SUFFICES ASSUME NEW i \in 1..m PROVE c1[i] \in S /\ Len(c1[i]) <= 15
      OBVIOUS
    <3> HIDE DEF S, c1
    <3>1. CASE i - 1 \in sh.retPtrs
      <4> DEFINE d == 8 * (sh.argWords + i - 1)
      <4>1. d \in Half
        BY <1>2 DEF Half
      <4>2. c1[i] = A64!MovImmToMem(2, d, 0)
        BY <3>1, <1>12
      <4> HIDE DEF d
      <4>3. Len(A64!MovImmToMem(2, d, 0)) \in Small /\ A64!MovImmToMem(2, d, 0) \in S
        BY <4>1, <1>9, Zenon
      <4>4. Len(c1[i]) \in Small
        BY <4>2, <4>3
      <4> QED BY <4>2, <4>3, <4>4, <1>s
    <3>2. CASE i - 1 \notin sh.retPtrs
      BY <3>2, <2>1, <1>12
    <3> QED BY <3>1, <3>2
  <2>3. c1 = [i \in 1..m |-> c1[i]]
    BY DEF A64!Clears
  <2> HIDE DEF c1, S
  <2>4. c1 \in [1..m -> S]
    <3>1. \A i \in 1..m : c1[i] \in S
      BY <2>2
    <3> DEFINE f == c1
    <3>2. f = [i \in 1..m |-> f[i]] /\ \A i \in 1..m : f[i] \in S
      BY <3>1, <2>3
    <3> HIDE DEF f
    <3>3. f \in [1..m -> S]
      BY <3>2, Zenon
    <3> QED BY <3>3 DEF f
  <2>5. c1 \in Seq(S)
    BY <2>4, <1>2
  <2>6. Len(c1) = m
    BY <2>4, <2>5, <1>2, LenProperties
  <2> QED BY <2>2, <2>5, <2>6
<1>14. /\ A64!Prologue \in Seq(S) /\ Len(A64!Prologue) = 3
       /\ A64!Prologue[1] = A64!Push(5) /\ A64!Prologue[2] = A64!Mov(5, 4) /\ A64!Prologue[3] = A64!SubSP(208)
  <2>1. A64!Prologue = <<A64!Push(5), A64!Mov(5, 4), A64!SubSP(208)>>
    BY DEF A64!Prologue, A64!BP, A64!SP, A64!FrameSize
  <2>2. A64!Push(5) \in S /\ A64!Mov(5, 4) \in S /\ A64!SubSP(208) \in S
    BY <1>3, <1>4, <1>5
  <2> HIDE DEF S
  <2> QED BY <2>1, <2>2
<1>15. /\ A64!Epilogue \in Seq(S) /\ Len(A64!Epilogue) = 3
       /\ A64!Epilogue[1] = A64!AddSP(208) /\ A64!Epilogue[2] = A64!Pop(5) /\ A64!Epilogue[3] = A64!Ret
  <2>1. A64!Epilogue = <<A64!AddSP(208), A64!Pop(5), A64!Ret>>
    BY DEF A64!Epilogue, A64!BP, A64!FrameSize
  <2>2. A64!AddSP(208) \in S /\ A64!Pop(5) \in S /\ A64!Ret \in S
    BY <1>3, <1>5
  <2> HIDE DEF S
  <2> QED BY <2>1, <2>2
<1>16. /\ b1 \in Seq(S) /\ Len(b1) = 3 /\ e1 \in Seq(S) /\ Len(e1) = 3
       /\ b1[1] = A64!MovToMem(4, 0, 11) /\ b1[2] = A64!Lea(2, 4, 224) /\ b1[3] = A64!MovToMem(4, 8, 2)
       /\ e1[1] = A64!MovEAX(sh.index) /\ e1[2] = A64!MovAbsR12(Dispatch) /\ e1[3] = A64!CallR12
  <2> HIDE DEF S
  <2> QED BY <1>5, <1>6, <1>7, <1>8, <1>10, <1>11
<1>17. /\ A64!Shift \in Seq(S) /\ Len(A64!Shift) = 8
       /\ \A i \in 1..8 : A64!Shift[i] = A64!Mov(Machine["amd64"].ints[10 - i], Machine["amd64"].ints[9 - i])
       /\ \A i \in 1..8 : Machine["amd64"].ints[10 - i] \in 0..15 /\ Machine["amd64"].ints[9 - i] \in 0..15
  <2>1. A64!Shift = <<A64!Mov(11, 10), A64!Mov(10, 9), A64!Mov(9, 8), A64!Mov(8, 6), A64!Mov(6, 7),
                      A64!Mov(7, 1), A64!Mov(1, 3), A64!Mov(3, 0)>>
    BY DEF A64!Shift, A64!R11, A64!R10, A64!R9, A64!R8, A64!SI, A64!DI, A64!CX, A64!BX, A64!AX
  <2>2. Machine["amd64"].ints = <<0, 3, 1, 7, 6, 8, 9, 10, 11>>
    BY DEF Machine
  <2> HIDE DEF S
  <2>3. A64!Shift \in Seq(S) /\ Len(A64!Shift) = 8
    BY <2>1, <1>4
  <2>4. \A i \in 1..8 : i \in {1, 2, 3, 4, 5, 6, 7, 8}
    OBVIOUS
  <2> DEFINE ints == Machine["amd64"].ints
  <2>5. /\ ints[1] = 0 /\ ints[2] = 3 /\ ints[3] = 1 /\ ints[4] = 7 /\ ints[5] = 6
        /\ ints[6] = 8 /\ ints[7] = 9 /\ ints[8] = 10 /\ ints[9] = 11
    BY <2>2
  <2>6. /\ A64!Shift[1] = A64!Mov(11, 10) /\ A64!Shift[2] = A64!Mov(10, 9) /\ A64!Shift[3] = A64!Mov(9, 8)
        /\ A64!Shift[4] = A64!Mov(8, 6) /\ A64!Shift[5] = A64!Mov(6, 7) /\ A64!Shift[6] = A64!Mov(7, 1)
        /\ A64!Shift[7] = A64!Mov(1, 3) /\ A64!Shift[8] = A64!Mov(3, 0)
    BY <2>1
  <2> HIDE DEF ints
  <2>7. /\ \A i \in 1..8 : A64!Shift[i] = A64!Mov(ints[10 - i], ints[9 - i])
        /\ \A i \in 1..8 : ints[10 - i] \in 0..15 /\ ints[9 - i] \in 0..15
    BY <2>4, <2>5, <2>6
  <2> QED BY <2>3, <2>7 DEF ints
<1>18. /\ L \in Seq(S) /\ Len(L) = 20 + m
       /\ L[1] = A64!Push(5) /\ L[2] = A64!Mov(5, 4) /\ L[3] = A64!SubSP(208)
       /\ L[4] = A64!MovToMem(4, 0, 11) /\ L[5] = A64!Lea(2, 4, 224) /\ L[6] = A64!MovToMem(4, 8, 2)
       /\ \A i \in 1..m : L[6 + i] = c1[i]
       /\ \A i \in 1..8 : L[6 + m + i] = A64!Shift[i]
       /\ L[15 + m] = A64!MovEAX(sh.index) /\ L[16 + m] = A64!MovAbsR12(Dispatch) /\ L[17 + m] = A64!CallR12
       /\ L[18 + m] = A64!AddSP(208) /\ L[19 + m] = A64!Pop(5) /\ L[20 + m] = A64!Ret
  <2> DEFINE p1 == A64!Prologue
             d1 == A64!Shift
             f1 == A64!Epilogue
  <2> HIDE DEF S, b1, c1, d1, e1, f1, p1
  <2>1. /\ L = p1 \o b1 \o c1 \o d1 \o e1 \o f1
        /\ p1 \in Seq(S) /\ b1 \in Seq(S) /\ c1 \in Seq(S) /\ d1 \in Seq(S) /\ e1 \in Seq(S) /\ f1 \in Seq(S)
    BY <1>1, <1>13, <1>14, <1>15, <1>16, <1>17 DEF p1, d1, f1
  <2>2. Len(p1) = 3 /\ Len(b1) = 3 /\ Len(c1) = m /\ Len(d1) = 8 /\ Len(e1) = 3 /\ Len(f1) = 3
    BY <1>13, <1>14, <1>15, <1>16, <1>17 DEF p1, d1, f1
  <2>3. m \in Nat
    BY <1>2
  <2>4. SixOf(L, S, p1, b1, c1, d1, e1, f1)
    BY <2>1 DEF SixOf
  <2>5. /\ L \in Seq(S)
        /\ Len(L) = Len(p1) + Len(b1) + Len(c1) + Len(d1) + Len(e1) + Len(f1)
        /\ Placed(L, 0, p1) /\ Placed(L, Len(p1), b1) /\ Placed(L, Len(p1) + Len(b1), c1)
        /\ Placed(L, Len(p1) + Len(b1) + Len(c1), d1)
        /\ Placed(L, Len(p1) + Len(b1) + Len(c1) + Len(d1), e1)
        /\ Placed(L, Len(p1) + Len(b1) + Len(c1) + Len(d1) + Len(e1), f1)
    BY <2>4, SixParts
  <2>6. /\ Len(L) = 20 + m
        /\ Placed(L, 0, p1) /\ Placed(L, 3, b1) /\ Placed(L, 6, c1)
        /\ Placed(L, 6 + m, d1) /\ Placed(L, 14 + m, e1) /\ Placed(L, 17 + m, f1)
    <3>1. /\ 3 + 3 = 6 /\ 3 + 3 + m = 6 + m /\ 3 + 3 + m + 8 = 14 + m
          /\ 3 + 3 + m + 8 + 3 = 17 + m /\ 3 + 3 + m + 8 + 3 + 3 = 20 + m
      BY <2>3
    <3> QED BY <2>2, <2>5, <3>1
  <2>7. /\ L[1] = p1[1] /\ L[2] = p1[2] /\ L[3] = p1[3] /\ L[4] = b1[1] /\ L[5] = b1[2] /\ L[6] = b1[3]
        /\ L[15 + m] = e1[1] /\ L[16 + m] = e1[2] /\ L[17 + m] = e1[3]
        /\ L[18 + m] = f1[1] /\ L[19 + m] = f1[2] /\ L[20 + m] = f1[3]
    <3>1. ASSUME NEW n, NEW t, Placed(L, n, t), Len(t) = 3
          PROVE  L[n + 1] = t[1] /\ L[n + 2] = t[2] /\ L[n + 3] = t[3]
      <4>1. 1 \in 1..3 /\ 2 \in 1..3 /\ 3 \in 1..3
        OBVIOUS
      <4> QED BY <3>1, <4>1 DEF Placed
    <3>2. /\ L[0 + 1] = p1[1] /\ L[0 + 2] = p1[2] /\ L[0 + 3] = p1[3]
          /\ L[3 + 1] = b1[1] /\ L[3 + 2] = b1[2] /\ L[3 + 3] = b1[3]
      <4> DEFINE z == 0
                 three == 3
      <4>1. Placed(L, z, p1) /\ Placed(L, three, b1) /\ Len(p1) = 3 /\ Len(b1) = 3
        BY <2>2, <2>6
      <4> HIDE DEF z, three
      <4>2. /\ L[z + 1] = p1[1] /\ L[z + 2] = p1[2] /\ L[z + 3] = p1[3]
            /\ L[three + 1] = b1[1] /\ L[three + 2] = b1[2] /\ L[three + 3] = b1[3]
        BY <4>1, <3>1
      <4> QED BY <4>2 DEF z, three
    <3>3. L[14 + m + 1] = e1[1] /\ L[14 + m + 2] = e1[2] /\ L[14 + m + 3] = e1[3]
      <4> DEFINE z == 14 + m
      <4>1. Placed(L, z, e1) /\ Len(e1) = 3
        BY <2>2, <2>6
      <4> HIDE DEF z
      <4>2. L[z + 1] = e1[1] /\ L[z + 2] = e1[2] /\ L[z + 3] = e1[3]
        BY <4>1, <3>1
      <4> QED BY <4>2 DEF z
    <3>4. L[17 + m + 1] = f1[1] /\ L[17 + m + 2] = f1[2] /\ L[17 + m + 3] = f1[3]
      <4> DEFINE z == 17 + m
      <4>1. Placed(L, z, f1) /\ Len(f1) = 3
        BY <2>2, <2>6
      <4> HIDE DEF z
      <4>2. L[z + 1] = f1[1] /\ L[z + 2] = f1[2] /\ L[z + 3] = f1[3]
        BY <4>1, <3>1
      <4> QED BY <4>2 DEF z
    <3>5. /\ 14 + m + 1 = 15 + m /\ 14 + m + 2 = 16 + m /\ 14 + m + 3 = 17 + m
          /\ 17 + m + 1 = 18 + m /\ 17 + m + 2 = 19 + m /\ 17 + m + 3 = 20 + m
      BY <2>3
    <3> QED BY <3>2, <3>3, <3>4, <3>5
  <2>8. (\A i \in 1..m : L[6 + i] = c1[i]) /\ \A i \in 1..8 : L[6 + m + i] = d1[i]
    BY <2>2, <2>6 DEF Placed
  <2> QED BY <2>5, <2>6, <2>7, <2>8, <1>14, <1>15, <1>16 DEF p1, d1, f1
\* the clears and the shift
<1>19. \A i \in 1..m :
         /\ i - 1 \in sh.retPtrs => Does64(L[6 + i], "clear", 0, 2, 8 * (sh.argWords + i - 1), no)
         /\ i - 1 \notin sh.retPtrs => L[6 + i] = <<>>
  <2> SUFFICES ASSUME NEW i \in 1..m
               PROVE  /\ i - 1 \in sh.retPtrs => Does64(L[6 + i], "clear", 0, 2, 8 * (sh.argWords + i - 1), no)
                      /\ i - 1 \notin sh.retPtrs => L[6 + i] = <<>>
    OBVIOUS
  <2> DEFINE d == 8 * (sh.argWords + i - 1)
  <2>1. d \in Half
    BY <1>2 DEF Half
  <2>2. L[6 + i] = c1[i]
    BY <1>18
  <2>3. /\ i - 1 \in sh.retPtrs => c1[i] = A64!MovImmToMem(2, d, 0)
        /\ i - 1 \notin sh.retPtrs => c1[i] = <<>>
    BY <1>12
  <2> HIDE DEF d, c1, no, S
  <2>4. Does64(A64!MovImmToMem(2, d, 0), "clear", 0, 2, d, no)
    BY <2>1, <1>9
  <2> QED BY <2>2, <2>3, <2>4 DEF d
<1>20. \A i \in 1..8 : /\ Does64(L[6 + m + i], "move", Machine["amd64"].ints[10 - i], Machine["amd64"].ints[9 - i], 0, no)
                       /\ L[6 + m + i] \in S /\ Len(L[6 + m + i]) = 3
  <2> SUFFICES ASSUME NEW i \in 1..8
               PROVE  /\ Does64(L[6 + m + i], "move", Machine["amd64"].ints[10 - i], Machine["amd64"].ints[9 - i], 0, no)
                      /\ L[6 + m + i] \in S /\ Len(L[6 + m + i]) = 3
    OBVIOUS
  <2> DEFINE u == Machine["amd64"].ints[10 - i]
             v == Machine["amd64"].ints[9 - i]
  <2>1. L[6 + m + i] = A64!Mov(u, v) /\ u \in 0..15 /\ v \in 0..15
    BY <1>17, <1>18
  <2> HIDE DEF S, no, u, v
  <2>2. A64!Mov(u, v) \in S /\ Len(A64!Mov(u, v)) = 3 /\ Does64(A64!Mov(u, v), "move", u, v, 0, no)
    BY <2>1, <1>4
  <2> QED BY <2>1, <2>2 DEF u, v
\* none of them long, none but a clear empty
<1>21. \A k \in 1..20 + m : Len(L[k]) <= 15 /\ ((k \notin 7..6 + m) => Len(L[k]) # 0)
  <2> SUFFICES ASSUME NEW k \in 1..20 + m
               PROVE  Len(L[k]) <= 15 /\ ((k \notin 7..6 + m) => Len(L[k]) # 0)
    OBVIOUS
  <2> HIDE DEF S, no, c1, e1, b1
  <2>1. CASE k \in 7..6 + m
    <3>1. k - 6 \in 1..m /\ 6 + (k - 6) = k
      BY <2>1, <1>2
    <3> QED BY <3>1, <2>1, <1>13, <1>18
  <2>2. CASE k \in 7 + m..14 + m
    <3>1. k - (6 + m) \in 1..8 /\ 6 + m + (k - (6 + m)) = k
      BY <2>2, <1>2
    <3>2. Len(L[k]) = 3
      BY <3>1, <1>20
    <3> QED BY <3>2
  <2>3. 1 \in Small /\ 3 \in Small /\ 7 \in Small
    BY DEF Small
  <2>4. /\ Len(L[1]) \in Small /\ Len(L[2]) \in Small /\ Len(L[3]) \in Small
        /\ Len(L[18 + m]) \in Small /\ Len(L[19 + m]) \in Small /\ Len(L[20 + m]) \in Small
    <3>1. /\ Len(L[1]) = 1 /\ Len(L[2]) = 3 /\ Len(L[3]) = 7
          /\ Len(L[18 + m]) = 7 /\ Len(L[19 + m]) = 1 /\ Len(L[20 + m]) = 1
      BY <1>3, <1>4, <1>5, <1>18
    <3> QED BY <2>3, <3>1
  <2>5. /\ Len(L[4]) \in Small /\ Len(L[5]) \in Small /\ Len(L[6]) \in Small
        /\ Len(L[15 + m]) \in Small /\ Len(L[16 + m]) \in Small /\ Len(L[17 + m]) \in Small
    BY <2>3, <1>5, <1>6, <1>7, <1>8, <1>10, <1>11, <1>18
  <2>6. CASE k \in {1, 2, 3, 18 + m, 19 + m, 20 + m} \/ k \in {4, 5, 6, 15 + m, 16 + m, 17 + m}
    <3>1. Len(L[k]) \in Small
      BY <2>4, <2>5, <2>6, Zenon
    <3> QED BY <3>1, <1>s
  <2>7. \/ k \in {1, 2, 3, 18 + m, 19 + m, 20 + m} \/ k \in {4, 5, 6, 15 + m, 16 + m, 17 + m}
        \/ k \in 7..6 + m \/ k \in 7 + m..14 + m
    BY <1>2
  <2> QED BY <2>1, <2>2, <2>6, <2>7
<1>22. /\ Does64(L[1], "push", 5, 0, 0, no) /\ Len(L[1]) = 1
       /\ Does64(L[2], "move", 5, 4, 0, no) /\ Len(L[2]) = 3
       /\ Does64(L[3], "add", 4, 4, -208, no) /\ Len(L[3]) = 7
       /\ Does64(L[4], "store", 11, 4, 0, no)
       /\ Does64(L[5], "add", 2, 4, 224, no)
       /\ Does64(L[6], "store", 2, 4, 8, no)
  <2> HIDE DEF S, no, c1, b1, e1
  <2> QED BY <1>3, <1>4, <1>5, <1>6, <1>7, <1>8, <1>18
<1>23. /\ Does64(L[15 + m], "set", 0, 0, 0, <<sh.index, 0, 0, 0>>)
       /\ Does64(L[16 + m], "set", 12, 0, 0, Dispatch)
       /\ Does64(L[17 + m], "call", 12, 0, 0, no)
       /\ Does64(L[18 + m], "add", 4, 4, 208, no)
       /\ Does64(L[19 + m], "pop", 5, 0, 0, no) /\ Len(L[19 + m]) = 1
       /\ Does64(L[20 + m], "ret", 0, 0, 0, no) /\ Len(L[20 + m]) = 1
  <2> HIDE DEF S, no, c1, b1, e1
  <2> QED BY <1>3, <1>5, <1>10, <1>11, <1>18
<1>24. \A k \in 1..20 + m : Len(L[k]) <= 15 /\ ((k \notin 7..6 + m) => L[k] # <<>>)
  <2>1. Len(<<>>) = 0
    OBVIOUS
  <2> HIDE DEF S, no, c1, b1, e1
  <2> QED BY <2>1, <1>21
<1> QED BY <1>2, <1>18, <1>19, <1>20, <1>22, <1>23, <1>24 DEF Lists64

-----------------------------------------------------------------------------
(* Fetching *)

\* What jitTrampoline generated for the call's shape.
LEMMA StubFacts ==
  ASSUME arch \in Arches, shape \in Shapes
  PROVE  /\ Stub.code = Code(arch, shape) /\ Stub.len = CodeLen(arch, Code(arch, shape))
         /\ Stub.pcsp = PCSP(arch, Stub.len) /\ Stub.gofunc = GoFunc(shape)
         /\ Stub.localsOff = LocalsOff(shape)
BY DEF Stub, Generated

\* The registers of either architecture.
LEMMA MachineFacts ==
  /\ arch = "amd64" => /\ M.sp = 4 /\ M.fp = 5 /\ M.g = 14 /\ M.regs = 0..15 /\ M.args = 0
                       /\ M.floats = 15 /\ M.redZone = 0 /\ M.quantum = 1
                       /\ M.ints = <<0, 3, 1, 7, 6, 8, 9, 10, 11>>
  /\ arch = "arm64" => /\ M.sp = 31 /\ M.fp = 29 /\ M.g = 28 /\ M.regs = 0..31 /\ M.args = 8
                       /\ M.floats = 16 /\ M.redZone = 1 /\ M.quantum = 4
                       /\ M.ints = [k \in 1..16 |-> k - 1]
BY DEF M, Machine, A64!SP, A64!BP, ARM!SP, ARM!FP

\* the k-th instruction of the listing
Lists(L, k, op, a, b, n, imm) == k \in 1..Len(L) /\ Does64(L[k], op, a, b, n, imm)

Fetches64(sh, L, k, op, a, b, n, imm) ==
  A64!Decode(Code("amd64", sh), Offset(L, k - 1) + 1) = A64!Ins(op, a, b, n, imm, Len(L[k]))

Int64(t) == Machine["amd64"].ints[t]

\* amd64: at the k-th instruction of the listing the processor executes that one.
LEMMA Fetch64 ==
  ASSUME NEW sh \in Shapes, NEW L, L = List64(sh), NEW k,
         NEW op, NEW a, NEW b, NEW n, NEW imm, Lists(L, k, op, a, b, n, imm)
  PROVE  Fetches64(sh, L, k, op, a, b, n, imm)
<1>0. k \in 1..Len(L) /\ Does64(L[k], op, a, b, n, imm)
  BY DEF Lists
<1> DEFINE code == Code("amd64", sh)
           at == Offset(L, k - 1) + 1
<1>1. L \in Seq(Seq(Byte)) /\ L # <<>>
  <2>0. Lists64(sh, L, sh.retWords)
    BY Listing64
  <2>1. L \in Seq(ByteSeq) /\ Len(L) = 20 + sh.retWords /\ sh.retWords \in Nat
    BY <2>0 DEF Lists64
  <2>2. Len(<<>>) = 0
    OBVIOUS
  <2> QED BY <2>1, <2>2 DEF ByteSeq
<1>2. code = FlattenSeq(L)
  BY DEF Code, StubCode, List64
<1>3. /\ \A i \in 1..Len(L[k]) : code[Offset(L, k - 1) + i] = L[k][i]
      /\ Offset(L, k - 1) \in Nat
  BY <1>0, <1>1, <1>2, FlattenFacts, OffsetFacts
<1>4. L[k] \in ByteSeq /\ Len(L[k]) \in Nat
  BY <1>0, <1>1, LenProperties DEF ByteSeq
<1>5. at \in Nat /\ \A i \in 1..Len(L[k]) : at + i - 1 = Offset(L, k - 1) + i
  BY <1>3, <1>4
<1>6. Located(code, at, L[k])
  BY <1>3, <1>5 DEF Located
<1> QED BY <1>0, <1>5, <1>6 DEF Does64, Means64, Fetches64

\* Each instruction of the listing for amd64.
LEMMA Listed64 ==
  ASSUME NEW sh, NEW L, NEW m, Lists64(sh, L, m)
  PROVE  /\ Lists(L, 1, "push", 5, 0, 0, A64!NoImm)
         /\ Lists(L, 2, "move", 5, 4, 0, A64!NoImm)
         /\ Lists(L, 3, "add", 4, 4, -208, A64!NoImm)
         /\ Lists(L, 4, "store", 11, 4, 0, A64!NoImm)
         /\ Lists(L, 5, "add", 2, 4, 224, A64!NoImm)
         /\ Lists(L, 6, "store", 2, 4, 8, A64!NoImm)
         /\ \A i \in 1..m : i - 1 \in sh.retPtrs =>
              Lists(L, 6 + i, "clear", 0, 2, 8 * (sh.argWords + i - 1), A64!NoImm)
         /\ \A i \in 1..8 : Lists(L, 6 + m + i, "move", Int64(10 - i), Int64(9 - i), 0, A64!NoImm)
         /\ Lists(L, 15 + m, "set", 0, 0, 0, <<sh.index, 0, 0, 0>>)
         /\ Lists(L, 16 + m, "set", 12, 0, 0, Dispatch)
         /\ Lists(L, 17 + m, "call", 12, 0, 0, A64!NoImm)
         /\ Lists(L, 18 + m, "add", 4, 4, 208, A64!NoImm)
         /\ Lists(L, 19 + m, "pop", 5, 0, 0, A64!NoImm)
         /\ Lists(L, 20 + m, "ret", 0, 0, 0, A64!NoImm)
         /\ Len(L) = 20 + m /\ m \in Nat
<1>1. Len(L) = 20 + m /\ m \in Nat
  BY DEF Lists64
<1>2. /\ 1 \in 1..Len(L) /\ 2 \in 1..Len(L) /\ 3 \in 1..Len(L) /\ 4 \in 1..Len(L) /\ 5 \in 1..Len(L)
      /\ 6 \in 1..Len(L) /\ 15 + m \in 1..Len(L) /\ 16 + m \in 1..Len(L) /\ 17 + m \in 1..Len(L)
      /\ 18 + m \in 1..Len(L) /\ 19 + m \in 1..Len(L) /\ 20 + m \in 1..Len(L)
      /\ \A i \in 1..m : 6 + i \in 1..Len(L)
      /\ \A i \in 1..8 : 6 + m + i \in 1..Len(L)
  BY <1>1
<1>3. /\ Lists(L, 1, "push", 5, 0, 0, A64!NoImm)
      /\ Lists(L, 2, "move", 5, 4, 0, A64!NoImm)
      /\ Lists(L, 3, "add", 4, 4, -208, A64!NoImm)
      /\ Lists(L, 4, "store", 11, 4, 0, A64!NoImm)
      /\ Lists(L, 5, "add", 2, 4, 224, A64!NoImm)
      /\ Lists(L, 6, "store", 2, 4, 8, A64!NoImm)
  BY <1>2 DEF Lists64, Lists
<1>4. /\ Lists(L, 15 + m, "set", 0, 0, 0, <<sh.index, 0, 0, 0>>)
      /\ Lists(L, 16 + m, "set", 12, 0, 0, Dispatch)
      /\ Lists(L, 17 + m, "call", 12, 0, 0, A64!NoImm)
      /\ Lists(L, 18 + m, "add", 4, 4, 208, A64!NoImm)
      /\ Lists(L, 19 + m, "pop", 5, 0, 0, A64!NoImm)
      /\ Lists(L, 20 + m, "ret", 0, 0, 0, A64!NoImm)
  BY <1>2 DEF Lists64, Lists
<1>5. \A i \in 1..m : i - 1 \in sh.retPtrs =>
        Lists(L, 6 + i, "clear", 0, 2, 8 * (sh.argWords + i - 1), A64!NoImm)
  BY <1>2 DEF Lists64, Lists
<1>6. \A i \in 1..8 : Lists(L, 6 + m + i, "move", Int64(10 - i), Int64(9 - i), 0, A64!NoImm)
  BY <1>2 DEF Lists64, Lists, Int64
<1> QED BY <1>1, <1>3, <1>4, <1>5, <1>6

\* Where each of them begins.
LEMMA Offsets64 ==
  ASSUME NEW sh, NEW L, NEW m, Lists64(sh, L, m)
  PROVE  /\ Offset(L, 0) = 0 /\ \A k \in 0..20 + m : Offset(L, k) \in Nat
         /\ \A k \in 1..20 + m : Offset(L, k) = Offset(L, k - 1) + Len(L[k])
<1>1. L \in Seq(Seq(Byte)) /\ Len(L) = 20 + m
  BY DEF Lists64, ByteSeq
<1> QED BY <1>1, OffsetFacts

-----------------------------------------------------------------------------
(* Executing: what the actions do, for either architecture *)

\* what the processor reads at the program counter
Reads(op, a, b, n, imm, len) ==
  /\ I.op = op /\ I.a = a /\ I.b = b /\ I.n = n /\ I.imm = imm /\ I.len = len

\* amd64: the k-th instruction of the listing L is next
Next64(L, k) ==
  /\ arch = "amd64" /\ arch \in Arches /\ shape \in Shapes
  /\ L = List64(shape) /\ pc = Offset(L, k - 1)

\* The processor reads the k-th instruction.
LEMMA Reads64 ==
  ASSUME NEW L, NEW k, Next64(L, k),
         NEW op, NEW a, NEW b, NEW n, NEW imm, Lists(L, k, op, a, b, n, imm)
  PROVE  Reads(op, a, b, n, imm, Len(L[k]))
<1>0. /\ arch = "amd64" /\ arch \in Arches /\ shape \in Shapes
      /\ L = List64(shape) /\ pc = Offset(L, k - 1)
  BY DEF Next64
<1>1. Stub.code = Code("amd64", shape)
  BY <1>0, StubFacts
<1>2. I = A64!Decode(Code("amd64", shape), Offset(L, k - 1) + 1)
  BY <1>0, <1>1 DEF I
<1>3. A64!Decode(Code("amd64", shape), Offset(L, k - 1) + 1) = A64!Ins(op, a, b, n, imm, Len(L[k]))
  <2>1. Fetches64(shape, L, k, op, a, b, n, imm)
    BY <1>0, Fetch64
  <2> QED BY <2>1 DEF Fetches64
<1>4. I = A64!Ins(op, a, b, n, imm, Len(L[k]))
  BY <1>2, <1>3
<1> QED BY <1>4 DEF Reads, A64!Ins

\* In the trampoline a step is a preemption or the instruction's action.
LEMMA StubStep ==
  ASSUME phase = "stub", Next, NEW op, I.op = op
  PROVE  \/ AsyncPreempt
         \/ (op = "push" /\ Push) \/ (op = "pop" /\ Pop) \/ (op = "add" /\ Add)
         \/ (op = "move" /\ Move) \/ (op = "set" /\ Set) \/ (op = "keep" /\ Keep)
         \/ (op = "store" /\ Store) \/ (op = "clear" /\ Clear) \/ (op = "storepair" /\ StorePair)
         \/ (op = "loadpair" /\ LoadPair) \/ (op = "call" /\ Call) \/ (op = "ret" /\ Return)
<1>1. /\ Push => I.op = "push"
      /\ Pop => I.op = "pop"
      /\ Add => I.op = "add"
      /\ Move => I.op = "move"
      /\ Set => I.op = "set"
      /\ Keep => I.op = "keep"
      /\ Store => I.op = "store"
      /\ Clear => I.op = "clear"
      /\ StorePair => I.op = "storepair"
      /\ LoadPair => I.op = "loadpair"
      /\ Call => I.op = "call"
      /\ Return => I.op = "ret"
  BY DEF Push, Pop, Add, Move, Set, Keep, Store, Clear, StorePair, LoadPair, Call, Return, Executes
<1>2. ~DispatchStores /\ ~DispatchReturns /\ ~Finished
  BY DEF DispatchStores, DispatchReturns, Finished
<1>3. \/ AsyncPreempt
      \/ Push \/ Pop \/ Add \/ Move \/ Set \/ Keep \/ Store \/ Clear
      \/ StorePair \/ LoadPair \/ Call \/ Return
  BY <1>2, Zenon DEF Next
<1> QED BY <1>1, <1>3, Zenon

\* g is f with one value written
Written(f, g, x, v) ==
  /\ DOMAIN g = DOMAIN f /\ x \in DOMAIN f /\ g[x] = v
  /\ \A y \in DOMAIN f : y # x => g[y] = f[y]

\* Assigning to one place of a function writes there and nowhere else.
LEMMA ExceptWrites ==
  ASSUME NEW f, NEW x \in DOMAIN f, NEW v
  PROVE  Written(f, [f EXCEPT ![x] = v], x, v)
BY DEF Written

\* Addresses and what is computed of them.
LEMMA AddressFacts ==
  /\ \A x, n : Shifted(Addr(x), n) = Addr(x + n)
  /\ \A x : Addr(x).tag = "sp" /\ Addr(x).n[1] = x
BY DEF Shifted, Addr, V

\* the rest of an instruction that is neither a call nor a return
Advances(len) ==
  /\ pc' = pc + len /\ arch' = arch /\ shape' = shape /\ phase' = phase /\ target' = target

-----------------------------------------------------------------------------
(* What the registers and the stack hold, at each instruction *)

\* c results are cleared where the map marks them
AreaBefore(sh, w, c) ==
  \A i \in 0..Words(sh) - 1 :
    /\ (i < sh.argWords /\ i \in sh.argPtrs) => w[Area(i)] = Pointer(i)
    /\ (i < sh.argWords /\ i \notin sh.argPtrs) => w[Area(i)] = Data(i)
    /\ (i >= sh.argWords /\ i - sh.argWords \in sh.retPtrs /\ i - sh.argWords < c) => w[Area(i)] = Nil
    /\ (i >= sh.argWords /\ ~(i - sh.argWords \in sh.retPtrs /\ i - sh.argWords < c)) =>
         w[Area(i)] = Stale(i)

AreaAfter(sh, w) ==
  \A i \in 0..Words(sh) - 1 :
    /\ i \in ArgBits(sh) => w[Area(i)] = Pointer(i)
    /\ i \notin ArgBits(sh) => w[Area(i)] = Data(i)

Depth64(m, k) == IF k = 1 \/ k = 20 + m THEN 0 ELSE IF k <= 3 \/ k = 19 + m THEN -8 ELSE -216

\* what lasts: the goroutine, the return address, the caller's frame pointer
Held64(sh, r, w, k) ==
  /\ DOMAIN r = 0..15 /\ DOMAIN w = Addresses(sh)
  /\ r[14] = In(14) /\ w[0] = Caller
  /\ (k <= 2 \/ k = 20 + sh.retWords) => r[5] = In(5)
  /\ (k >= 2 /\ k <= 19 + sh.retWords) => w[-8] = In(5)

\* the argument registers: shifted by one, the last first
Ints64(sh, r, k) ==
  \A t \in 2..9 : /\ k >= 17 + sh.retWords - t => r[Int64(t)] = In(Int64(t - 1))
                  /\ k < 17 + sh.retWords - t => r[Int64(t)] = In(Int64(t))

\* what else is ready for Dispatch
Prepared64(sh, r, w, k) ==
  /\ k <= 15 + sh.retWords => r[0] = In(0)
  /\ k >= 16 + sh.retWords => r[0] = Num(<<sh.index, 0, 0, 0>>)
  /\ k >= 17 + sh.retWords => r[12] = Num(Dispatch)
  /\ k >= 5 => w[-216] = In(11)
  /\ k >= 6 => r[2] = Addr(8)
  /\ k >= 7 => w[-208] = Addr(8)

Returned64(r) == \A t \in 1..9 : r[Int64(t)] = Res(Int64(t))

\* at the k-th instruction
Stands64(sh, k, p, r, w) ==
  /\ p = Offset(List64(sh), k - 1) /\ r[4] = Addr(Depth64(sh.retWords, k))
  /\ Held64(sh, r, w, k)
  /\ k <= 17 + sh.retWords => /\ Ints64(sh, r, k) /\ Prepared64(sh, r, w, k)
                              /\ AreaBefore(sh, w, k - 7)
  /\ k >= 18 + sh.retWords => Returned64(r) /\ AreaAfter(sh, w)

\* The stack pointer at each instruction: the frame pointer is pushed, the frame opened.
LEMMA Depths64 ==
  ASSUME NEW m \in Nat
  PROVE  /\ Depth64(m, 1) = 0 /\ Depth64(m, 2) = -8 /\ Depth64(m, 3) = -8
         /\ \A k \in 4..18 + m : Depth64(m, k) = -216
         /\ Depth64(m, 19 + m) = -8 /\ Depth64(m, 20 + m) = 0
BY DEF Depth64

\* The integer argument registers are nine, none of them one with a use of its own.
LEMMA Int64Facts ==
  /\ Int64(1) = 0 /\ Int64(2) = 3 /\ Int64(3) = 1 /\ Int64(4) = 7 /\ Int64(5) = 6
  /\ Int64(6) = 8 /\ Int64(7) = 9 /\ Int64(8) = 10 /\ Int64(9) = 11
  /\ \A t \in 1..9 : /\ Int64(t) \in 0..11 /\ Int64(t) # 2 /\ Int64(t) # 4 /\ Int64(t) # 5
  /\ \A t, u \in 1..9 : Int64(t) = Int64(u) => t = u
<1>1. /\ Int64(1) = 0 /\ Int64(2) = 3 /\ Int64(3) = 1 /\ Int64(4) = 7 /\ Int64(5) = 6
      /\ Int64(6) = 8 /\ Int64(7) = 9 /\ Int64(8) = 10 /\ Int64(9) = 11
  BY DEF Int64, Machine
<1>2. \A t \in 1..9 : t \in {1, 2, 3, 4, 5, 6, 7, 8, 9}
  OBVIOUS
<1> QED BY <1>1, <1>2

-----------------------------------------------------------------------------
(* One step of the processor, by what it reads *)

\* the next step executes what is read, of length len
Executing(op, a, b, n, imm, len) ==
  /\ phase = "stub" /\ Next /\ ~AsyncPreempt /\ Reads(op, a, b, n, imm, len)

\* ADD, SUB and LEA compute an address.
LEMMA StepAdd ==
  ASSUME NEW a, NEW b, NEW n, NEW imm, NEW len, Executing("add", a, b, n, imm, len),
         NEW x, reg[b] = Addr(x), a \in DOMAIN reg
  PROVE  Written(reg, reg', a, Addr(x + n)) /\ mem' = mem /\ Advances(len)
<1>1. Add /\ Reads("add", a, b, n, imm, len)
  <2>1. phase = "stub" /\ Next /\ ~AsyncPreempt /\ I.op = "add" /\ Reads("add", a, b, n, imm, len)
    BY DEF Executing, Reads
  <2> QED BY <2>1, StubStep
<1>2. /\ reg' = [reg EXCEPT ![a] = Shifted(Addr(x), n)] /\ mem' = mem /\ Advances(len)
  BY <1>1 DEF Add, Reads, Advance, Advances
<1> QED BY <1>2, AddressFacts, ExceptWrites

\* MOV copies a register.
LEMMA StepMove ==
  ASSUME NEW a, NEW b, NEW n, NEW imm, NEW len, Executing("move", a, b, n, imm, len),
         a \in DOMAIN reg
  PROVE  Written(reg, reg', a, reg[b]) /\ mem' = mem /\ Advances(len)
<1>1. Move /\ Reads("move", a, b, n, imm, len)
  <2>1. phase = "stub" /\ Next /\ ~AsyncPreempt /\ I.op = "move" /\ Reads("move", a, b, n, imm, len)
    BY DEF Executing, Reads
  <2> QED BY <2>1, StubStep
<1>2. /\ reg' = [reg EXCEPT ![a] = reg[b]] /\ mem' = mem /\ Advances(len)
  BY <1>1 DEF Move, Reads, Advance, Advances
<1> QED BY <1>2, ExceptWrites

\* MOV of a constant.
LEMMA StepSet ==
  ASSUME NEW a, NEW b, NEW n, NEW imm, NEW len, Executing("set", a, b, n, imm, len),
         a \in DOMAIN reg
  PROVE  Written(reg, reg', a, Num(imm)) /\ mem' = mem /\ Advances(len)
<1>1. Set /\ Reads("set", a, b, n, imm, len)
  <2>1. phase = "stub" /\ Next /\ ~AsyncPreempt /\ I.op = "set" /\ Reads("set", a, b, n, imm, len)
    BY DEF Executing, Reads
  <2> QED BY <2>1, StubStep
<1>2. /\ reg' = [reg EXCEPT ![a] = Num(imm)] /\ mem' = mem /\ Advances(len)
  BY <1>1 DEF Set, Reads, Advance, Advances
<1> QED BY <1>2, ExceptWrites

\* MOV to the stack.
LEMMA StepStore ==
  ASSUME NEW a, NEW b, NEW n, NEW imm, NEW len, Executing("store", a, b, n, imm, len),
         NEW x, reg[b] = Addr(x), x + n \in DOMAIN mem
  PROVE  Written(mem, mem', x + n, reg[a]) /\ reg' = reg /\ Advances(len)
<1>1. Store /\ Reads("store", a, b, n, imm, len)
  <2>1. phase = "stub" /\ Next /\ ~AsyncPreempt /\ I.op = "store" /\ Reads("store", a, b, n, imm, len)
    BY DEF Executing, Reads
  <2> QED BY <2>1, StubStep
<1>2. At(b, n) = x + n
  BY AddressFacts DEF At
<1>3. /\ mem' = [mem EXCEPT ![x + n] = reg[a]] /\ reg' = reg /\ Advances(len)
  BY <1>1, <1>2 DEF Store, Reads, Advance, Advances
<1> QED BY <1>3, ExceptWrites

\* MOV of zero to the stack.
LEMMA StepClear ==
  ASSUME NEW a, NEW b, NEW n, NEW imm, NEW len, Executing("clear", a, b, n, imm, len),
         NEW x, reg[b] = Addr(x), x + n \in DOMAIN mem
  PROVE  Written(mem, mem', x + n, Nil) /\ reg' = reg /\ Advances(len)
<1>1. Clear /\ Reads("clear", a, b, n, imm, len)
  <2>1. phase = "stub" /\ Next /\ ~AsyncPreempt /\ I.op = "clear" /\ Reads("clear", a, b, n, imm, len)
    BY DEF Executing, Reads
  <2> QED BY <2>1, StubStep
<1>2. At(b, n) = x + n
  BY AddressFacts DEF At
<1>3. /\ mem' = [mem EXCEPT ![x + n] = Nil] /\ reg' = reg /\ Advances(len)
  BY <1>1, <1>2 DEF Clear, Reads, Advance, Advances
<1> QED BY <1>3, ExceptWrites

\* PUSH lowers the stack pointer by one word and writes it.
LEMMA StepPush ==
  ASSUME NEW a, NEW b, NEW n, NEW imm, NEW len, Executing("push", a, b, n, imm, len),
         arch = "amd64", NEW s, reg[4] = Addr(s), s - 8 \in DOMAIN mem, 4 \in DOMAIN reg
  PROVE  Written(mem, mem', s - 8, reg[a]) /\ Written(reg, reg', 4, Addr(s - 8)) /\ Advances(len)
<1>1. Push /\ Reads("push", a, b, n, imm, len)
  <2>1. phase = "stub" /\ Next /\ ~AsyncPreempt /\ I.op = "push" /\ Reads("push", a, b, n, imm, len)
    BY DEF Executing, Reads
  <2> QED BY <2>1, StubStep
<1>2. M.sp = 4 /\ SP = s
  BY MachineFacts, AddressFacts DEF SP
<1>3. /\ mem' = [mem EXCEPT ![s - 8] = reg[a]] /\ reg' = [reg EXCEPT ![4] = Addr(s - 8)] /\ Advances(len)
  BY <1>1, <1>2 DEF Push, Reads, Advance, Advances
<1> QED BY <1>3, ExceptWrites

\* the stack pointer is written last
LEMMA StepPop ==
  ASSUME NEW a, NEW b, NEW n, NEW imm, NEW len, Executing("pop", a, b, n, imm, len),
         arch = "amd64", NEW s, reg[4] = Addr(s), 4 \in DOMAIN reg, a \in DOMAIN reg, a # 4
  PROVE  /\ DOMAIN reg' = DOMAIN reg /\ reg'[a] = mem[s] /\ reg'[4] = Addr(s + 8)
         /\ \A y \in DOMAIN reg : y # a /\ y # 4 => reg'[y] = reg[y]
         /\ mem' = mem /\ Advances(len)
<1>1. Pop /\ Reads("pop", a, b, n, imm, len)
  <2>1. phase = "stub" /\ Next /\ ~AsyncPreempt /\ I.op = "pop" /\ Reads("pop", a, b, n, imm, len)
    BY DEF Executing, Reads
  <2> QED BY <2>1, StubStep
<1>2. M.sp = 4 /\ SP = s
  BY MachineFacts, AddressFacts DEF SP
<1>3. /\ reg' = [reg EXCEPT ![a] = mem[s], ![4] = Addr(s + 8)] /\ mem' = mem /\ Advances(len)
  BY <1>1, <1>2 DEF Pop, Reads, Advance, Advances
<1> QED BY <1>3

\* CALL pushes the return address.
LEMMA StepCall64 ==
  ASSUME NEW a, NEW b, NEW n, NEW imm, NEW len, Executing("call", a, b, n, imm, len),
         arch = "amd64", NEW s, reg[4] = Addr(s), s - 8 \in DOMAIN mem, 4 \in DOMAIN reg
  PROVE  /\ Written(mem, mem', s - 8, Here(pc + len)) /\ Written(reg, reg', 4, Addr(s - 8))
         /\ target' = reg[a] /\ phase' = "dispatch" /\ pc' = pc + len
         /\ arch' = arch /\ shape' = shape
<1>1. Call /\ Reads("call", a, b, n, imm, len)
  <2>1. phase = "stub" /\ Next /\ ~AsyncPreempt /\ I.op = "call" /\ Reads("call", a, b, n, imm, len)
    BY DEF Executing, Reads
  <2> QED BY <2>1, StubStep
<1>2. M.sp = 4 /\ SP = s
  BY MachineFacts, AddressFacts DEF SP
<1>3. /\ mem' = [mem EXCEPT ![s - 8] = Here(pc + len)] /\ reg' = [reg EXCEPT ![4] = Addr(s - 8)]
      /\ target' = reg[a] /\ phase' = "dispatch" /\ pc' = pc + len
      /\ arch' = arch /\ shape' = shape
  BY <1>1, <1>2 DEF Call, Reads
<1> QED BY <1>3, ExceptWrites

\* RET pops it.
LEMMA StepReturn64 ==
  ASSUME NEW a, NEW b, NEW n, NEW imm, NEW len, Executing("ret", a, b, n, imm, len),
         arch = "amd64", NEW s, reg[4] = Addr(s), 4 \in DOMAIN reg
  PROVE  /\ target' = mem[s] /\ Written(reg, reg', 4, Addr(s + 8)) /\ phase' = "returned"
         /\ pc' = pc /\ mem' = mem /\ arch' = arch /\ shape' = shape
<1>1. Return /\ Reads("ret", a, b, n, imm, len)
  <2>1. phase = "stub" /\ Next /\ ~AsyncPreempt /\ I.op = "ret" /\ Reads("ret", a, b, n, imm, len)
    BY DEF Executing, Reads
  <2> QED BY <2>1, StubStep
<1>2. M.sp = 4 /\ SP = s
  BY MachineFacts, AddressFacts DEF SP
<1>3. /\ target' = mem[s] /\ reg' = [reg EXCEPT ![4] = Addr(s + 8)] /\ phase' = "returned"
      /\ pc' = pc /\ mem' = mem /\ arch' = arch /\ shape' = shape
  BY <1>1, <1>2 DEF Return
<1> QED BY <1>3, ExceptWrites

\* A preemption destroys what is below the stack pointer and its red zone, and no more.
LEMMA StepPreempt ==
  ASSUME AsyncPreempt, NEW s, reg[M.sp] = Addr(s)
  PROVE  /\ phase = "stub" /\ <<arch, pc>> \notin Protected
         /\ DOMAIN mem' = DOMAIN mem
         /\ \A o \in DOMAIN mem : ~(o < s - 8 * M.redZone) => mem'[o] = mem[o]
         /\ arch' = arch /\ shape' = shape /\ phase' = phase /\ pc' = pc
         /\ target' = target /\ reg' = reg
<1>1. SP = s
  BY AddressFacts DEF SP
<1> QED BY <1>1 DEF AsyncPreempt, Below

-----------------------------------------------------------------------------
(* amd64: each instruction takes what holds at it to what holds at the next *)

\* The words a step writes, and the ones of the area.
LEMMA AddressesFacts ==
  ASSUME NEW sh \in Shapes
  PROVE  /\ -224 \in Addresses(sh) /\ -216 \in Addresses(sh) /\ -208 \in Addresses(sh)
         /\ -8 \in Addresses(sh) /\ 0 \in Addresses(sh)
         /\ \A i \in 0..Words(sh) - 1 : Area(i) \in Addresses(sh) /\ Area(i) \in Nat /\ Area(i) >= 8
         /\ \A i, j \in 0..Words(sh) - 1 : Area(i) = Area(j) => i = j
         /\ Words(sh) \in Nat /\ Words(sh) = sh.argWords + sh.retWords
<1>1. Words(sh) \in Nat /\ Words(sh) = sh.argWords + sh.retWords
  BY ShapeFacts DEF Words
<1>2. \A j \in -50..Words(sh) : 8 * j \in Addresses(sh)
  BY DEF Addresses
<1>3. /\ -28 \in -50..Words(sh) /\ -27 \in -50..Words(sh) /\ -26 \in -50..Words(sh)
      /\ -1 \in -50..Words(sh) /\ 0 \in -50..Words(sh)
      /\ 8 * (-28) = -224 /\ 8 * (-27) = -216 /\ 8 * (-26) = -208 /\ 8 * (-1) = -8 /\ 8 * 0 = 0
  BY <1>1
<1>4. \A i \in 0..Words(sh) - 1 : i + 1 \in -50..Words(sh)
  BY <1>1
<1>5. \A i \in 0..Words(sh) - 1 : 8 * (i + 1) \in Addresses(sh)
  BY <1>2, <1>4
<1>6. \A i \in 0..Words(sh) - 1 : Area(i) \in Addresses(sh) /\ Area(i) \in Nat /\ Area(i) >= 8
  BY <1>1, <1>5 DEF Area
<1>7. \A i, j \in 0..Words(sh) - 1 : Area(i) = Area(j) => i = j
  BY <1>1 DEF Area
<1> QED BY <1>1, <1>2, <1>3, <1>6, <1>7

\* the area is the same, and as many results of it are cleared
SameArea(sh, w, w2) == \A i \in 0..Words(sh) - 1 : w2[Area(i)] = w[Area(i)]

SameClears(sh, c, d) == c \in Int /\ d \in Int /\ \A j \in sh.retPtrs : j < c <=> j < d

\* An area that is not written, with as many results cleared, is as it was.
LEMMA AreaKept ==
  ASSUME NEW sh \in Shapes, NEW w, NEW w2, NEW c, NEW d,
         AreaBefore(sh, w, c), SameArea(sh, w, w2), SameClears(sh, c, d)
  PROVE  AreaBefore(sh, w2, d)
BY DEF AreaBefore, SameArea, SameClears

\* Elsewhere than among the clears and the moves the count of neither changes.
LEMMA SameClears64 ==
  ASSUME NEW sh \in Shapes, NEW k \in Nat, k <= 6 \/ k >= 7 + sh.retWords
  PROVE  SameClears(sh, k - 7, k + 1 - 7)
<1>1. \A j \in sh.retPtrs : j \in Nat /\ j < sh.retWords
  BY ShapeFacts
<1>2. \A j \in Nat : j < sh.retWords => (j < k - 7 <=> j < k + 1 - 7)
  BY ShapeFacts
<1> QED BY <1>1, <1>2 DEF SameClears

SameInts64(r, r2) == \A t \in 2..9 : r2[Int64(t)] = r[Int64(t)]

\* Elsewhere than among the moves as many are shifted at the next instruction.
LEMMA IntsKept64 ==
  ASSUME NEW sh \in Shapes, NEW r, NEW r2, NEW k \in Nat, Ints64(sh, r, k), SameInts64(r, r2),
         k <= 6 + sh.retWords \/ k >= 15 + sh.retWords
  PROVE  Ints64(sh, r2, k + 1)
<1> DEFINE m == sh.retWords
           j == k + 1
<1>1. SUFFICES ASSUME NEW t \in 2..9
               PROVE  /\ j >= 17 + m - t => r2[Int64(t)] = In(Int64(t - 1))
                      /\ j < 17 + m - t => r2[Int64(t)] = In(Int64(t))
  BY DEF Ints64
<1>2. /\ k >= 17 + m - t => r[Int64(t)] = In(Int64(t - 1))
      /\ k < 17 + m - t => r[Int64(t)] = In(Int64(t))
      /\ r2[Int64(t)] = r[Int64(t)]
  BY DEF Ints64, SameInts64
<1>3. m \in Nat
  BY ShapeFacts
<1> HIDE DEF m
<1>4. k >= 17 + m - t <=> j >= 17 + m - t
  BY <1>3 DEF m
<1>5. (k < 17 + m - t <=> ~(k >= 17 + m - t)) /\ (j < 17 + m - t <=> ~(j >= 17 + m - t))
  BY <1>3
<1> QED BY <1>2, <1>4, <1>5

\* the trampoline is at the k-th instruction, and about to execute it
Running64(k) ==
  /\ phase = "stub" /\ Next /\ ~AsyncPreempt /\ Next64(List64(shape), k)
  /\ Stands64(shape, k, pc, reg, mem)

\* What every step starts from.
LEMMA Begin64 ==
  ASSUME NEW k, Running64(k), NEW op, NEW a, NEW b, NEW n, NEW imm,
         Lists(List64(shape), k, op, a, b, n, imm)
  PROVE  /\ Executing(op, a, b, n, imm, Len(List64(shape)[k]))
         /\ k \in 1..20 + shape.retWords /\ shape.retWords \in Nat /\ shape \in Shapes
         /\ DOMAIN reg = 0..15 /\ DOMAIN mem = Addresses(shape) /\ arch = "amd64"
         /\ reg[4] = Addr(Depth64(shape.retWords, k))
         /\ Advances(Len(List64(shape)[k])) => pc' = Offset(List64(shape), k)
<1> DEFINE L == List64(shape)
           m == shape.retWords
<1>1. /\ phase = "stub" /\ Next /\ ~AsyncPreempt /\ Next64(L, k)
      /\ Stands64(shape, k, pc, reg, mem)
  BY DEF Running64
<1>2. shape \in Shapes /\ arch = "amd64" /\ pc = Offset(L, k - 1)
  BY <1>1 DEF Next64
<1>3. Lists64(shape, L, m)
  BY <1>2, Listing64
<1>4. k \in 1..20 + m /\ m \in Nat
  BY <1>3, Listed64 DEF Lists
<1>5. Executing(op, a, b, n, imm, Len(L[k]))
  BY <1>1, Reads64 DEF Executing
<1>6. DOMAIN reg = 0..15 /\ DOMAIN mem = Addresses(shape) /\ reg[4] = Addr(Depth64(shape.retWords, k))
  BY <1>1 DEF Stands64, Held64
<1>7. Offset(L, k) = Offset(L, k - 1) + Len(L[k])
  BY <1>3, <1>4, Offsets64
<1>8. Advances(Len(L[k])) => pc' = Offset(L, k)
  BY <1>2, <1>7 DEF Advances
<1> QED BY <1>2, <1>4, <1>5, <1>6, <1>8

\* Before the call, what every step ends with.
LEMMA End64 ==
  ASSUME NEW k, NEW len, k \in 1..16 + shape.retWords, Running64(k), shape \in Shapes,
         Advances(len), pc' = Offset(List64(shape), k),
         k <= 6 \/ k >= 15 + shape.retWords,
         SameInts64(reg, reg'), SameArea(shape, mem, mem'),
         reg'[4] = Addr(Depth64(shape.retWords, k + 1)), Held64(shape, reg', mem', k + 1),
         Prepared64(shape, reg', mem', k + 1)
  PROVE  Stands64(shape, k + 1, pc', reg', mem')
<1> DEFINE m == shape.retWords
<1>1. m \in Nat /\ k \in Nat /\ k <= 16 + m
  BY ShapeFacts
<1>2. Ints64(shape, reg, k) /\ AreaBefore(shape, mem, k - 7)
  BY <1>1 DEF Running64, Stands64
<1>3. Ints64(shape, reg', k + 1)
  BY <1>1, <1>2, IntsKept64
<1>4. AreaBefore(shape, mem', k + 1 - 7)
  <2>1. SameClears(shape, k - 7, k + 1 - 7)
    BY <1>1, SameClears64
  <2> QED BY <1>2, <2>1, AreaKept
<1>5. k + 1 - 1 = k /\ k + 1 <= 17 + m /\ ~(k + 1 >= 18 + m)
  BY <1>1
<1> QED BY <1>3, <1>4, <1>5 DEF Stands64

\* Writing elsewhere keeps the argument registers, or the area.
LEMMA IntsElsewhere64 ==
  ASSUME NEW r, NEW r2, NEW x, NEW v, Written(r, r2, x, v), DOMAIN r = 0..15, x \in {0, 2, 4, 5, 12}
  PROVE  SameInts64(r, r2)
BY Int64Facts DEF SameInts64, Written

\* A word written below the area leaves it alone.
LEMMA AreaElsewhere ==
  ASSUME NEW sh \in Shapes, NEW w, NEW w2, NEW x \in Int, NEW v, Written(w, w2, x, v),
         DOMAIN w = Addresses(sh), x < 8
  PROVE  SameArea(sh, w, w2)
BY AddressesFacts DEF SameArea, Written

\* Once the caller's frame pointer is saved, what lasts is untouched.
SameHeld64(r, r2, w, w2) ==
  /\ DOMAIN r2 = DOMAIN r /\ DOMAIN w2 = DOMAIN w
  /\ r2[14] = r[14] /\ w2[0] = w[0] /\ w2[-8] = w[-8]

\* What lasts, at the next instruction.
LEMMA HeldKept64 ==
  ASSUME NEW sh \in Shapes, NEW r, NEW r2, NEW w, NEW w2, NEW k \in 2..18 + sh.retWords,
         Held64(sh, r, w, k), SameHeld64(r, r2, w, w2)
  PROVE  Held64(sh, r2, w2, k + 1)
<1>1. sh.retWords \in Nat
  BY ShapeFacts
<1> QED BY <1>1 DEF Held64, SameHeld64

\* Writing one register other than those.
LEMMA RegisterWritten64 ==
  ASSUME NEW r, NEW r2, NEW x, NEW v, NEW w, NEW w2,
         Written(r, r2, x, v), DOMAIN r = 0..15, x # 14, w2 = w
  PROVE  SameHeld64(r, r2, w, w2)
BY DEF SameHeld64, Written

\* Writing a word other than the return address and the saved frame pointer.
LEMMA WordWritten64 ==
  ASSUME NEW sh \in Shapes, NEW r, NEW r2, NEW x, NEW v, NEW w, NEW w2,
         Written(w, w2, x, v), DOMAIN w = Addresses(sh), x # 0, x # -8, r2 = r
  PROVE  SameHeld64(r, r2, w, w2)
BY AddressesFacts DEF SameHeld64, Written

\* PUSH BP.
LEMMA Push64 ==
  ASSUME Running64(1)
  PROVE  Stands64(shape, 2, pc', reg', mem') /\ Advances(1)
<1> DEFINE L == List64(shape)
           m == shape.retWords
           no == A64!NoImm
<1>1. shape \in Shapes /\ Lists(L, 1, "push", 5, 0, 0, no) /\ Len(L[1]) = 1
  <2>1. shape \in Shapes
    BY DEF Running64, Next64
  <2>2. Lists64(shape, L, m)
    BY <2>1, Listing64
  <2> QED BY <2>1, <2>2, Listed64 DEF Lists64
<1>2. /\ Executing("push", 5, 0, 0, no, 1) /\ m \in Nat /\ DOMAIN reg = 0..15 /\ DOMAIN mem = Addresses(shape)
      /\ arch = "amd64" /\ reg[4] = Addr(Depth64(m, 1)) /\ (Advances(1) => pc' = Offset(L, 1))
  BY <1>1, Begin64
<1>3. reg[4] = Addr(0) /\ Depth64(m, 2) = -8
  BY <1>2 DEF Depth64
<1>4. Written(mem, mem', -8, reg[5]) /\ Written(reg, reg', 4, Addr(-8)) /\ Advances(1)
  <2>1. 0 - 8 = -8 /\ 0 - 8 \in DOMAIN mem /\ 4 \in DOMAIN reg
    BY <1>1, <1>2, AddressesFacts
  <2>2. Written(mem, mem', 0 - 8, reg[5]) /\ Written(reg, reg', 4, Addr(0 - 8)) /\ Advances(1)
    BY <1>2, <1>3, <2>1, StepPush
  <2> QED BY <2>1, <2>2
<1>5. SameInts64(reg, reg') /\ SameArea(shape, mem, mem')
  BY <1>1, <1>2, <1>4, IntsElsewhere64, AreaElsewhere
<1>6. Held64(shape, reg, mem, 1) /\ Prepared64(shape, reg, mem, 1)
  BY <1>2 DEF Running64, Stands64
<1>7. Held64(shape, reg', mem', 2)
  BY <1>1, <1>2, <1>4, <1>6, AddressesFacts DEF Held64, Written
<1>8. Prepared64(shape, reg', mem', 2)
  BY <1>1, <1>2, <1>4, <1>6 DEF Prepared64, Written
<1>9. reg'[4] = Addr(Depth64(m, 2))
  BY <1>3, <1>4 DEF Written
<1>10. Stands64(shape, 1 + 1, pc', reg', mem')
  BY <1>1, <1>2, <1>4, <1>5, <1>7, <1>8, <1>9, End64
<1> QED BY <1>4, <1>10

\* MOV BP, SP
LEMMA FramePointer64 ==
  ASSUME Running64(2)
  PROVE  Stands64(shape, 2 + 1, pc', reg', mem') /\ Advances(Len(List64(shape)[2]))
<1> DEFINE L == List64(shape)
           m == shape.retWords
           no == A64!NoImm
           len == Len(L[2])
<1>1. shape \in Shapes /\ Lists(L, 2, "move", 5, 4, 0, no)
  <2>1. shape \in Shapes
    BY DEF Running64, Next64
  <2>2. Lists64(shape, L, m)
    BY <2>1, Listing64
  <2> QED BY <2>1, <2>2, Listed64
<1>2. /\ Executing("move", 5, 4, 0, no, len) /\ m \in Nat /\ DOMAIN reg = 0..15
      /\ DOMAIN mem = Addresses(shape)
      /\ arch = "amd64" /\ reg[4] = Addr(Depth64(m, 2)) /\ (Advances(len) => pc' = Offset(L, 2))
  BY <1>1, Begin64
<1>3. Depth64(m, 2) = -8 /\ Depth64(m, 2 + 1) = -8
  BY <1>2 DEF Depth64
<1>4. /\ Held64(shape, reg, mem, 2) /\ Ints64(shape, reg, 2) /\ Prepared64(shape, reg, mem, 2)
      /\ AreaBefore(shape, mem, 2 - 7)
  BY <1>2 DEF Running64, Stands64
<1>5. Written(reg, reg', 5, reg[4]) /\ mem' = mem /\ Advances(len)
  <2>1. 5 \in DOMAIN reg
    BY <1>2
  <2> QED BY <1>2, <2>1, StepMove
<1>6. SameInts64(reg, reg') /\ SameArea(shape, mem, mem')
  BY <1>1, <1>2, <1>5, IntsElsewhere64 DEF SameArea
<1>7. Held64(shape, reg', mem', 2 + 1)
  <2>1. SameHeld64(reg, reg', mem, mem')
    BY <1>1, <1>2, <1>5, RegisterWritten64
  <2>2. 2 \in 2..18 + m
    BY <1>2
  <2> QED BY <1>1, <1>4, <2>1, <2>2, HeldKept64
<1>8. Prepared64(shape, reg', mem', 2 + 1)
  <2>1. /\ reg'[0] = reg[0] /\ reg'[2] = reg[2] /\ reg'[12] = reg[12]
        /\ mem'[-216] = mem[-216] /\ mem'[-208] = mem[-208]
    BY <1>1, <1>2, <1>5, AddressesFacts DEF Written
  <2> QED BY <1>2, <1>4, <2>1 DEF Prepared64
<1>9. reg'[4] = Addr(Depth64(m, 2 + 1))
  BY <1>2, <1>3, <1>5 DEF Written
<1>10. 2 \in 1..16 + m /\ 2 + 1 = 3 /\ (2 <= 6 \/ 2 >= 15 + m)
  BY <1>2
<1>11. Stands64(shape, 2 + 1, pc', reg', mem')
  BY <1>1, <1>2, <1>5, <1>6, <1>7, <1>8, <1>9, <1>10, End64
<1> QED BY <1>5, <1>11

\* SUB SP, 208
LEMMA Frame64 ==
  ASSUME Running64(3)
  PROVE  Stands64(shape, 3 + 1, pc', reg', mem') /\ Advances(Len(List64(shape)[3]))
<1> DEFINE L == List64(shape)
           m == shape.retWords
           no == A64!NoImm
           len == Len(L[3])
<1>1. shape \in Shapes /\ Lists(L, 3, "add", 4, 4, -208, no)
  <2>1. shape \in Shapes
    BY DEF Running64, Next64
  <2>2. Lists64(shape, L, m)
    BY <2>1, Listing64
  <2> QED BY <2>1, <2>2, Listed64
<1>2. /\ Executing("add", 4, 4, -208, no, len) /\ m \in Nat /\ DOMAIN reg = 0..15
      /\ DOMAIN mem = Addresses(shape)
      /\ arch = "amd64" /\ reg[4] = Addr(Depth64(m, 3)) /\ (Advances(len) => pc' = Offset(L, 3))
  BY <1>1, Begin64
<1>3. Depth64(m, 3) = -8 /\ Depth64(m, 3 + 1) = -216
  BY <1>2 DEF Depth64
<1>4. /\ Held64(shape, reg, mem, 3) /\ Ints64(shape, reg, 3) /\ Prepared64(shape, reg, mem, 3)
      /\ AreaBefore(shape, mem, 3 - 7)
  BY <1>2 DEF Running64, Stands64
<1>5. Written(reg, reg', 4, Addr(-216)) /\ mem' = mem /\ Advances(len)
  <2>1. 4 \in DOMAIN reg /\ reg[4] = Addr(-8) /\ -8 + (-208) = -216
    BY <1>2, <1>3
  <2>2. Written(reg, reg', 4, Addr(-8 + (-208))) /\ mem' = mem /\ Advances(len)
    BY <1>2, <2>1, StepAdd
  <2> QED BY <2>1, <2>2
<1>6. SameInts64(reg, reg') /\ SameArea(shape, mem, mem')
  BY <1>1, <1>2, <1>5, IntsElsewhere64 DEF SameArea
<1>7. Held64(shape, reg', mem', 3 + 1)
  <2>1. SameHeld64(reg, reg', mem, mem')
    BY <1>1, <1>2, <1>5, RegisterWritten64
  <2>2. 3 \in 2..18 + m
    BY <1>2
  <2> QED BY <1>1, <1>4, <2>1, <2>2, HeldKept64
<1>8. Prepared64(shape, reg', mem', 3 + 1)
  <2>1. /\ reg'[0] = reg[0] /\ reg'[2] = reg[2] /\ reg'[12] = reg[12]
        /\ mem'[-216] = mem[-216] /\ mem'[-208] = mem[-208]
    BY <1>1, <1>2, <1>5, AddressesFacts DEF Written
  <2> QED BY <1>2, <1>4, <2>1 DEF Prepared64
<1>9. reg'[4] = Addr(Depth64(m, 3 + 1))
  BY <1>2, <1>3, <1>5 DEF Written
<1>10. 3 \in 1..16 + m /\ 3 + 1 = 4 /\ (3 <= 6 \/ 3 >= 15 + m)
  BY <1>2
<1>11. Stands64(shape, 3 + 1, pc', reg', mem')
  BY <1>1, <1>2, <1>5, <1>6, <1>7, <1>8, <1>9, <1>10, End64
<1> QED BY <1>5, <1>11

\* the last argument register, to the stack
LEMMA Last64 ==
  ASSUME Running64(4)
  PROVE  Stands64(shape, 4 + 1, pc', reg', mem') /\ Advances(Len(List64(shape)[4]))
<1> DEFINE L == List64(shape)
           m == shape.retWords
           no == A64!NoImm
           len == Len(L[4])
<1>1. shape \in Shapes /\ Lists(L, 4, "store", 11, 4, 0, no)
  <2>1. shape \in Shapes
    BY DEF Running64, Next64
  <2>2. Lists64(shape, L, m)
    BY <2>1, Listing64
  <2> QED BY <2>1, <2>2, Listed64
<1>2. /\ Executing("store", 11, 4, 0, no, len) /\ m \in Nat /\ DOMAIN reg = 0..15
      /\ DOMAIN mem = Addresses(shape)
      /\ arch = "amd64" /\ reg[4] = Addr(Depth64(m, 4)) /\ (Advances(len) => pc' = Offset(L, 4))
  BY <1>1, Begin64
<1>3. Depth64(m, 4) = -216 /\ Depth64(m, 4 + 1) = -216
  BY <1>2 DEF Depth64
<1>4. /\ Held64(shape, reg, mem, 4) /\ Ints64(shape, reg, 4) /\ Prepared64(shape, reg, mem, 4)
      /\ AreaBefore(shape, mem, 4 - 7)
  BY <1>2 DEF Running64, Stands64
<1>5. Written(mem, mem', -216, In(11)) /\ reg' = reg /\ Advances(len)
  <2>1. reg[4] = Addr(-216) /\ -216 + 0 = -216 /\ -216 + 0 \in DOMAIN mem
    BY <1>1, <1>2, <1>3, AddressesFacts
  <2>2. reg[11] = In(11)
    <3>1. 9 \in 2..9 /\ 4 < 17 + m - 9
      BY <1>2
    <3>2. reg[Int64(9)] = In(Int64(9))
      BY <1>4, <3>1 DEF Ints64
    <3> QED BY <3>2, Int64Facts
  <2>3. Written(mem, mem', -216 + 0, reg[11]) /\ reg' = reg /\ Advances(len)
    BY <1>2, <2>1, StepStore
  <2> QED BY <2>1, <2>2, <2>3
<1>6. SameInts64(reg, reg') /\ SameArea(shape, mem, mem')
  BY <1>1, <1>2, <1>5, AreaElsewhere DEF SameInts64
<1>7. Held64(shape, reg', mem', 4 + 1)
  <2>1. SameHeld64(reg, reg', mem, mem')
    BY <1>1, <1>2, <1>5, WordWritten64
  <2>2. 4 \in 2..18 + m
    BY <1>2
  <2> QED BY <1>1, <1>4, <2>1, <2>2, HeldKept64
<1>8. Prepared64(shape, reg', mem', 4 + 1)
  <2>1. /\ reg'[0] = reg[0] /\ reg'[2] = reg[2] /\ reg'[12] = reg[12]
        /\ mem'[-216] = In(11) /\ mem'[-208] = mem[-208]
    BY <1>1, <1>2, <1>5, AddressesFacts DEF Written
  <2> QED BY <1>2, <1>4, <2>1 DEF Prepared64
<1>9. reg'[4] = Addr(Depth64(m, 4 + 1))
  BY <1>2, <1>3, <1>5 DEF Written
<1>10. 4 \in 1..16 + m /\ 4 + 1 = 5 /\ (4 <= 6 \/ 4 >= 15 + m)
  BY <1>2
<1>11. Stands64(shape, 4 + 1, pc', reg', mem')
  BY <1>1, <1>2, <1>5, <1>6, <1>7, <1>8, <1>9, <1>10, End64
<1> QED BY <1>5, <1>11

\* LEA DX, the address of the area
LEMMA AreaAddress64 ==
  ASSUME Running64(5)
  PROVE  Stands64(shape, 5 + 1, pc', reg', mem') /\ Advances(Len(List64(shape)[5]))
<1> DEFINE L == List64(shape)
           m == shape.retWords
           no == A64!NoImm
           len == Len(L[5])
<1>1. shape \in Shapes /\ Lists(L, 5, "add", 2, 4, 224, no)
  <2>1. shape \in Shapes
    BY DEF Running64, Next64
  <2>2. Lists64(shape, L, m)
    BY <2>1, Listing64
  <2> QED BY <2>1, <2>2, Listed64
<1>2. /\ Executing("add", 2, 4, 224, no, len) /\ m \in Nat /\ DOMAIN reg = 0..15
      /\ DOMAIN mem = Addresses(shape)
      /\ arch = "amd64" /\ reg[4] = Addr(Depth64(m, 5)) /\ (Advances(len) => pc' = Offset(L, 5))
  BY <1>1, Begin64
<1>3. Depth64(m, 5) = -216 /\ Depth64(m, 5 + 1) = -216
  BY <1>2 DEF Depth64
<1>4. /\ Held64(shape, reg, mem, 5) /\ Ints64(shape, reg, 5) /\ Prepared64(shape, reg, mem, 5)
      /\ AreaBefore(shape, mem, 5 - 7)
  BY <1>2 DEF Running64, Stands64
<1>5. Written(reg, reg', 2, Addr(8)) /\ mem' = mem /\ Advances(len)
  <2>1. 2 \in DOMAIN reg /\ reg[4] = Addr(-216) /\ -216 + 224 = 8
    BY <1>2, <1>3
  <2> DEFINE top == -216
             n == 224
  <2>2. Executing("add", 2, 4, n, no, len) /\ reg[4] = Addr(top) /\ 2 \in DOMAIN reg
    BY <1>2, <2>1
  <2> HIDE DEF top, n, len, no
  <2>3. Written(reg, reg', 2, Addr(top + n)) /\ mem' = mem /\ Advances(len)
    BY <2>2, StepAdd
  <2> QED BY <2>1, <2>3 DEF top, n
<1>6. SameInts64(reg, reg') /\ SameArea(shape, mem, mem')
  BY <1>1, <1>2, <1>5, IntsElsewhere64 DEF SameArea
<1>7. Held64(shape, reg', mem', 5 + 1)
  <2>1. SameHeld64(reg, reg', mem, mem')
    BY <1>1, <1>2, <1>5, RegisterWritten64
  <2>2. 5 \in 2..18 + m
    BY <1>2
  <2> QED BY <1>1, <1>4, <2>1, <2>2, HeldKept64
<1>8. Prepared64(shape, reg', mem', 5 + 1)
  <2>1. /\ reg'[0] = reg[0] /\ reg'[2] = Addr(8) /\ reg'[12] = reg[12]
        /\ mem'[-216] = mem[-216] /\ mem'[-208] = mem[-208]
    BY <1>1, <1>2, <1>5, AddressesFacts DEF Written
  <2> QED BY <1>2, <1>4, <2>1 DEF Prepared64
<1>9. reg'[4] = Addr(Depth64(m, 5 + 1))
  BY <1>2, <1>3, <1>5 DEF Written
<1>10. 5 \in 1..16 + m /\ 5 + 1 = 6 /\ (5 <= 6 \/ 5 >= 15 + m)
  BY <1>2
<1>11. Stands64(shape, 5 + 1, pc', reg', mem')
  BY <1>1, <1>2, <1>5, <1>6, <1>7, <1>8, <1>9, <1>10, End64
<1> QED BY <1>5, <1>11

\* that address, to the stack
LEMMA AreaArgument64 ==
  ASSUME Running64(6)
  PROVE  Stands64(shape, 6 + 1, pc', reg', mem') /\ Advances(Len(List64(shape)[6]))
<1> DEFINE L == List64(shape)
           m == shape.retWords
           no == A64!NoImm
           len == Len(L[6])
<1>1. shape \in Shapes /\ Lists(L, 6, "store", 2, 4, 8, no)
  <2>1. shape \in Shapes
    BY DEF Running64, Next64
  <2>2. Lists64(shape, L, m)
    BY <2>1, Listing64
  <2> QED BY <2>1, <2>2, Listed64
<1>2. /\ Executing("store", 2, 4, 8, no, len) /\ m \in Nat /\ DOMAIN reg = 0..15
      /\ DOMAIN mem = Addresses(shape)
      /\ arch = "amd64" /\ reg[4] = Addr(Depth64(m, 6)) /\ (Advances(len) => pc' = Offset(L, 6))
  BY <1>1, Begin64
<1>3. Depth64(m, 6) = -216 /\ Depth64(m, 6 + 1) = -216
  BY <1>2 DEF Depth64
<1>4. /\ Held64(shape, reg, mem, 6) /\ Ints64(shape, reg, 6) /\ Prepared64(shape, reg, mem, 6)
      /\ AreaBefore(shape, mem, 6 - 7)
  BY <1>2 DEF Running64, Stands64
<1>5. Written(mem, mem', -208, Addr(8)) /\ reg' = reg /\ Advances(len)
  <2>1. reg[4] = Addr(-216) /\ -216 + 8 = -208 /\ -216 + 8 \in DOMAIN mem
    BY <1>1, <1>2, <1>3, AddressesFacts
  <2>2. reg[2] = Addr(8)
    BY <1>2, <1>4 DEF Prepared64
  <2>3. Written(mem, mem', -216 + 8, reg[2]) /\ reg' = reg /\ Advances(len)
    BY <1>2, <2>1, StepStore
  <2> QED BY <2>1, <2>2, <2>3
<1>6. SameInts64(reg, reg') /\ SameArea(shape, mem, mem')
  BY <1>1, <1>2, <1>5, AreaElsewhere DEF SameInts64
<1>7. Held64(shape, reg', mem', 6 + 1)
  <2>1. SameHeld64(reg, reg', mem, mem')
    BY <1>1, <1>2, <1>5, WordWritten64
  <2>2. 6 \in 2..18 + m
    BY <1>2
  <2> QED BY <1>1, <1>4, <2>1, <2>2, HeldKept64
<1>8. Prepared64(shape, reg', mem', 6 + 1)
  <2>1. /\ reg'[0] = reg[0] /\ reg'[2] = reg[2] /\ reg'[12] = reg[12]
        /\ mem'[-216] = mem[-216] /\ mem'[-208] = Addr(8)
    BY <1>1, <1>2, <1>5, AddressesFacts DEF Written
  <2> QED BY <1>2, <1>4, <2>1 DEF Prepared64
<1>9. reg'[4] = Addr(Depth64(m, 6 + 1))
  BY <1>2, <1>3, <1>5 DEF Written
<1>10. 6 \in 1..16 + m /\ 6 + 1 = 7 /\ (6 <= 6 \/ 6 >= 15 + m)
  BY <1>2
<1>11. Stands64(shape, 6 + 1, pc', reg', mem')
  BY <1>1, <1>2, <1>5, <1>6, <1>7, <1>8, <1>9, <1>10, End64
<1> QED BY <1>5, <1>11

\* the method's index
LEMMA Index64 ==
  ASSUME Running64(15 + shape.retWords)
  PROVE  Stands64(shape, 15 + shape.retWords + 1, pc', reg', mem') /\ Advances(Len(List64(shape)[15 + shape.retWords]))
<1> DEFINE L == List64(shape)
           m == shape.retWords
           no == A64!NoImm
           len == Len(L[15 + shape.retWords])
<1>1. shape \in Shapes /\ Lists(L, 15 + shape.retWords, "set", 0, 0, 0, <<shape.index, 0, 0, 0>>)
  <2>1. shape \in Shapes
    BY DEF Running64, Next64
  <2>2. Lists64(shape, L, m)
    BY <2>1, Listing64
  <2> QED BY <2>1, <2>2, Listed64
<1>2. /\ Executing("set", 0, 0, 0, <<shape.index, 0, 0, 0>>, len) /\ m \in Nat /\ DOMAIN reg = 0..15
      /\ DOMAIN mem = Addresses(shape)
      /\ arch = "amd64" /\ reg[4] = Addr(Depth64(m, 15 + shape.retWords)) /\ (Advances(len) => pc' = Offset(L, 15 + shape.retWords))
  BY <1>1, Begin64
<1>3. Depth64(m, 15 + shape.retWords) = -216 /\ Depth64(m, 15 + shape.retWords + 1) = -216
  <2>1. 15 + shape.retWords \in 4..18 + m /\ 15 + shape.retWords + 1 \in 4..18 + m
    BY <1>2
  <2> QED BY <1>2, <2>1, Depths64
<1>4. /\ Held64(shape, reg, mem, 15 + shape.retWords) /\ Ints64(shape, reg, 15 + shape.retWords) /\ Prepared64(shape, reg, mem, 15 + shape.retWords)
      /\ AreaBefore(shape, mem, 15 + shape.retWords - 7)
  BY <1>2 DEF Running64, Stands64
<1>5. Written(reg, reg', 0, Num(<<shape.index, 0, 0, 0>>)) /\ mem' = mem /\ Advances(len)
  <2>1. 0 \in DOMAIN reg
    BY <1>2
  <2> QED BY <1>2, <2>1, StepSet
<1>6. SameInts64(reg, reg') /\ SameArea(shape, mem, mem')
  BY <1>1, <1>2, <1>5, IntsElsewhere64 DEF SameArea
<1>7. Held64(shape, reg', mem', 15 + shape.retWords + 1)
  <2>1. SameHeld64(reg, reg', mem, mem')
    BY <1>1, <1>2, <1>5, RegisterWritten64
  <2>2. 15 + shape.retWords \in 2..18 + m
    BY <1>2
  <2> QED BY <1>1, <1>4, <2>1, <2>2, HeldKept64
<1>8. Prepared64(shape, reg', mem', 15 + shape.retWords + 1)
  <2>1. /\ reg'[0] = Num(<<shape.index, 0, 0, 0>>) /\ reg'[2] = reg[2] /\ reg'[12] = reg[12]
        /\ mem'[-216] = mem[-216] /\ mem'[-208] = mem[-208]
    BY <1>1, <1>2, <1>5, AddressesFacts DEF Written
  <2> DEFINE k == 15 + shape.retWords
  <2>2. /\ ~(k + 1 <= 15 + m) /\ k + 1 >= 16 + m /\ ~(k + 1 >= 17 + m) /\ k + 1 >= 7
        /\ k >= 5 /\ k >= 6 /\ k >= 7
    BY <1>2
  <2> HIDE DEF k
  <2>3. Prepared64(shape, reg', mem', k + 1)
    BY <1>4, <2>1, <2>2 DEF Prepared64, k
  <2> QED BY <2>3 DEF k
<1>9. reg'[4] = Addr(Depth64(m, 15 + shape.retWords + 1))
  BY <1>2, <1>3, <1>5 DEF Written
<1>10. 15 + shape.retWords \in 1..16 + m /\ 15 + shape.retWords + 1 = 16 + m /\ (15 + shape.retWords <= 6 \/ 15 + shape.retWords >= 15 + m)
  BY <1>2
<1>11. Stands64(shape, 15 + shape.retWords + 1, pc', reg', mem')
  BY <1>1, <1>2, <1>5, <1>6, <1>7, <1>8, <1>9, <1>10, End64
<1> QED BY <1>5, <1>11

\* the address of Dispatch
LEMMA Address64 ==
  ASSUME Running64(16 + shape.retWords)
  PROVE  Stands64(shape, 16 + shape.retWords + 1, pc', reg', mem') /\ Advances(Len(List64(shape)[16 + shape.retWords]))
<1> DEFINE L == List64(shape)
           m == shape.retWords
           no == A64!NoImm
           len == Len(L[16 + shape.retWords])
<1>1. shape \in Shapes /\ Lists(L, 16 + shape.retWords, "set", 12, 0, 0, Dispatch)
  <2>1. shape \in Shapes
    BY DEF Running64, Next64
  <2>2. Lists64(shape, L, m)
    BY <2>1, Listing64
  <2> QED BY <2>1, <2>2, Listed64
<1>2. /\ Executing("set", 12, 0, 0, Dispatch, len) /\ m \in Nat /\ DOMAIN reg = 0..15
      /\ DOMAIN mem = Addresses(shape)
      /\ arch = "amd64" /\ reg[4] = Addr(Depth64(m, 16 + shape.retWords)) /\ (Advances(len) => pc' = Offset(L, 16 + shape.retWords))
  BY <1>1, Begin64
<1>3. Depth64(m, 16 + shape.retWords) = -216 /\ Depth64(m, 16 + shape.retWords + 1) = -216
  <2>1. 16 + shape.retWords \in 4..18 + m /\ 16 + shape.retWords + 1 \in 4..18 + m
    BY <1>2
  <2> QED BY <1>2, <2>1, Depths64
<1>4. /\ Held64(shape, reg, mem, 16 + shape.retWords) /\ Ints64(shape, reg, 16 + shape.retWords) /\ Prepared64(shape, reg, mem, 16 + shape.retWords)
      /\ AreaBefore(shape, mem, 16 + shape.retWords - 7)
  BY <1>2 DEF Running64, Stands64
<1>5. Written(reg, reg', 12, Num(Dispatch)) /\ mem' = mem /\ Advances(len)
  <2>1. 12 \in DOMAIN reg
    BY <1>2
  <2> QED BY <1>2, <2>1, StepSet
<1>6. SameInts64(reg, reg') /\ SameArea(shape, mem, mem')
  BY <1>1, <1>2, <1>5, IntsElsewhere64 DEF SameArea
<1>7. Held64(shape, reg', mem', 16 + shape.retWords + 1)
  <2>1. SameHeld64(reg, reg', mem, mem')
    BY <1>1, <1>2, <1>5, RegisterWritten64
  <2>2. 16 + shape.retWords \in 2..18 + m
    BY <1>2
  <2> QED BY <1>1, <1>4, <2>1, <2>2, HeldKept64
<1>8. Prepared64(shape, reg', mem', 16 + shape.retWords + 1)
  <2>1. /\ reg'[0] = reg[0] /\ reg'[2] = reg[2] /\ reg'[12] = Num(Dispatch)
        /\ mem'[-216] = mem[-216] /\ mem'[-208] = mem[-208]
    BY <1>1, <1>2, <1>5, AddressesFacts DEF Written
  <2> QED BY <1>2, <1>4, <2>1 DEF Prepared64
<1>9. reg'[4] = Addr(Depth64(m, 16 + shape.retWords + 1))
  BY <1>2, <1>3, <1>5 DEF Written
<1>10. 16 + shape.retWords \in 1..16 + m /\ 16 + shape.retWords + 1 = 17 + m /\ (16 + shape.retWords <= 6 \/ 16 + shape.retWords >= 15 + m)
  BY <1>2
<1>11. Stands64(shape, 16 + shape.retWords + 1, pc', reg', mem')
  BY <1>1, <1>2, <1>5, <1>6, <1>7, <1>8, <1>9, <1>10, End64
<1> QED BY <1>5, <1>11

\* The clear of result i - 1.
LEMMA Clear64 ==
  ASSUME NEW i \in 1..shape.retWords, i - 1 \in shape.retPtrs, Running64(6 + i)
  PROVE  Stands64(shape, 6 + i + 1, pc', reg', mem') /\ Advances(Len(List64(shape)[6 + i]))
<1> DEFINE L == List64(shape)
           m == shape.retWords
           no == A64!NoImm
           k == 6 + i
           len == Len(L[k])
           d == 8 * (shape.argWords + i - 1)
           word == shape.argWords + i - 1
<1>1. shape \in Shapes /\ Lists(L, k, "clear", 0, 2, d, no)
  <2>1. shape \in Shapes
    BY DEF Running64, Next64
  <2>2. Lists64(shape, L, m)
    BY <2>1, Listing64
  <2> QED BY <2>1, <2>2, Listed64
<1>2. /\ Executing("clear", 0, 2, d, no, len) /\ m \in Nat /\ DOMAIN reg = 0..15
      /\ DOMAIN mem = Addresses(shape)
      /\ arch = "amd64" /\ reg[4] = Addr(Depth64(m, k)) /\ (Advances(len) => pc' = Offset(L, k))
  BY <1>1, Begin64
<1>3. /\ i \in 1..m /\ i \in Nat /\ i <= m /\ k \in 7..6 + m /\ k \in Nat
      /\ shape.argWords \in Nat /\ Words(shape) = shape.argWords + m /\ word \in 0..Words(shape) - 1
  <2>1. shape.argWords \in Nat /\ Words(shape) = shape.argWords + m
    BY <1>1, ShapeFacts, AddressesFacts
  <2>a. m \in Nat
    BY <1>2
  <2> HIDE DEF L, no, len, d
  <2> DEFINE words == shape.argWords
  <2>b. i \in 1..m /\ words \in Nat /\ shape.argWords = words /\ Words(shape) = words + m /\ word = words + i - 1
    BY <2>1
  <2> HIDE DEF m, words, word
  <2>2. /\ i \in 1..m /\ i \in Nat /\ i <= m /\ k \in 7..6 + m /\ k \in Nat
        /\ words + i - 1 \in 0..words + m - 1
    BY <2>a, <2>b
  <2>3. word \in 0..Words(shape) - 1
    BY <2>a, <2>b, <2>2
  <2> HIDE DEF k
  <2> QED BY <2>1, <2>2, <2>3, Zenon
<1>4. /\ Held64(shape, reg, mem, k) /\ Ints64(shape, reg, k) /\ Prepared64(shape, reg, mem, k)
      /\ AreaBefore(shape, mem, k - 7)
  <2>1. k <= 17 + m
    <3> HIDE DEF L, no, len, d, word
    <3>1. i \in Nat /\ i <= m /\ m \in Nat
      BY <1>2, <1>3
    <3> HIDE DEF m
    <3> QED BY <3>1
  <2>2. Stands64(shape, k, pc, reg, mem)
    BY DEF Running64
  <2> HIDE DEF k, L, no, len, d
  <2> QED BY <2>1, <2>2 DEF Stands64
<1>5. Written(mem, mem', Area(word), Nil) /\ reg' = reg /\ Advances(len)
  <2>1. 8 + d = Area(word) /\ 8 + d \in DOMAIN mem
    <3>1. 8 + d = 8 * (word + 1)
      BY <1>3
    <3>2. Area(word) \in Addresses(shape)
      BY <1>1, <1>3, AddressesFacts
    <3> HIDE DEF d, word
    <3> QED BY <1>2, <3>1, <3>2 DEF Area
  <2>2. reg[2] = Addr(8)
    BY <1>3, <1>4 DEF Prepared64
  <2>3. Written(mem, mem', 8 + d, Nil) /\ reg' = reg /\ Advances(len)
    BY <1>2, <2>1, <2>2, StepClear
  <2> QED BY <2>1, <2>3
<1> HIDE DEF L, no, len, d
<1>6. Held64(shape, reg', mem', k + 1)
  <2>1. Area(word) # 0 /\ Area(word) # -8
    BY <1>1, <1>3, AddressesFacts
  <2>2. SameHeld64(reg, reg', mem, mem')
    BY <1>1, <1>2, <1>5, <2>1, WordWritten64
  <2>3. k \in 2..18 + m
    BY <1>2, <1>3
  <2> QED BY <1>1, <1>4, <2>2, <2>3, HeldKept64
<1>7. Prepared64(shape, reg', mem', k + 1)
  <2>1. reg' = reg /\ mem'[-216] = mem[-216] /\ mem'[-208] = mem[-208]
    <3>1. Area(word) # -216 /\ Area(word) # -208
      BY <1>1, <1>3, AddressesFacts
    <3> QED BY <1>1, <1>2, <1>5, <3>1, AddressesFacts DEF Written
  <2>2. k + 1 <= 15 + m /\ ~(k + 1 >= 16 + m) /\ ~(k + 1 >= 17 + m) /\ k <= 15 + m /\ k >= 7 /\ k >= 6 /\ k >= 5
    BY <1>2, <1>3
  <2> HIDE DEF k
  <2> QED BY <1>4, <2>1, <2>2 DEF Prepared64
<1>8. Ints64(shape, reg', k + 1)
  <2>1. SameInts64(reg, reg') /\ k <= 6 + m
    BY <1>2, <1>3, <1>5 DEF SameInts64
  <2> QED BY <1>1, <1>3, <1>4, <2>1, IntsKept64
<1>9. AreaBefore(shape, mem', k + 1 - 7)
  <2>1. k - 7 = i - 1 /\ k + 1 - 7 = i
    BY <1>3
  <2>2. AreaBefore(shape, mem, i - 1)
    BY <1>4, <2>1
  <2>3. SUFFICES ASSUME NEW j \in 0..Words(shape) - 1
                 PROVE  /\ (j < shape.argWords /\ j \in shape.argPtrs) => mem'[Area(j)] = Pointer(j)
                        /\ (j < shape.argWords /\ j \notin shape.argPtrs) => mem'[Area(j)] = Data(j)
                        /\ (j >= shape.argWords /\ j - shape.argWords \in shape.retPtrs /\ j - shape.argWords < i)
                             => mem'[Area(j)] = Nil
                        /\ (j >= shape.argWords /\ ~(j - shape.argWords \in shape.retPtrs /\ j - shape.argWords < i))
                             => mem'[Area(j)] = Stale(j)
    BY <2>1 DEF AreaBefore
  <2>4. CASE j = word
    <3>1. mem'[Area(j)] = Nil
      BY <1>5, <2>4 DEF Written
    <3>2. j >= shape.argWords /\ j - shape.argWords = i - 1 /\ i - 1 < i
      BY <1>3, <2>4
    <3> QED BY <1>3, <3>1, <3>2
  <2>5. CASE j # word
    <3>1. Area(j) # Area(word) /\ Area(j) \in DOMAIN mem
      BY <1>1, <1>2, <1>3, <2>5, AddressesFacts
    <3>2. mem'[Area(j)] = mem[Area(j)]
      BY <1>5, <3>1 DEF Written
    <3>3. j - shape.argWords < i <=> j - shape.argWords < i - 1
      BY <1>3, <2>5
    <3> HIDE DEF word, m
    <3> QED BY <2>2, <3>2, <3>3 DEF AreaBefore
  <2> QED BY <2>4, <2>5
<1>10. reg'[4] = Addr(Depth64(m, k + 1))
  <2>1. k \in 4..18 + m /\ k + 1 \in 4..18 + m
    BY <1>2, <1>3
  <2> QED BY <1>2, <1>5, <2>1, Depths64
<1>11. k + 1 - 1 = k /\ k + 1 <= 17 + m /\ ~(k + 1 >= 18 + m)
  BY <1>2, <1>3
<1>12. pc' = Offset(L, k)
  BY <1>2, <1>5
<1>13. Stands64(shape, k + 1, pc', reg', mem')
  <2> DEFINE j == k + 1
  <2>1. pc' = Offset(L, j - 1)
    BY <1>11, <1>12
  <2>2. /\ Held64(shape, reg', mem', j) /\ Ints64(shape, reg', j) /\ Prepared64(shape, reg', mem', j)
        /\ AreaBefore(shape, mem', j - 7) /\ reg'[4] = Addr(Depth64(m, j))
        /\ ~(j >= 18 + m)
    BY <1>6, <1>7, <1>8, <1>9, <1>10, <1>11
  <2> HIDE DEF k, j
  <2>3. Stands64(shape, j, pc', reg', mem')
    BY <2>1, <2>2 DEF Stands64, L
  <2> QED BY <2>3 DEF j
<1> QED BY <1>5, <1>13 DEF len, L

\* The i-th move: the last register first, so that none is overwritten before it is read.
LEMMA Shift64 ==
  ASSUME NEW i \in 1..8, Running64(6 + shape.retWords + i)
  PROVE  /\ Stands64(shape, 6 + shape.retWords + i + 1, pc', reg', mem')
         /\ Advances(Len(List64(shape)[6 + shape.retWords + i]))
<1> DEFINE L == List64(shape)
           m == shape.retWords
           no == A64!NoImm
           k == 6 + m + i
           len == Len(L[k])
           x == Int64(10 - i)
           y == Int64(9 - i)
<1>1. shape \in Shapes /\ Lists(L, k, "move", x, y, 0, no)
  <2>1. shape \in Shapes
    BY DEF Running64, Next64
  <2>2. Lists64(shape, L, m)
    BY <2>1, Listing64
  <2> QED BY <2>1, <2>2, Listed64
<1>2. /\ Executing("move", x, y, 0, no, len) /\ m \in Nat /\ DOMAIN reg = 0..15
      /\ DOMAIN mem = Addresses(shape)
      /\ arch = "amd64" /\ reg[4] = Addr(Depth64(m, k)) /\ (Advances(len) => pc' = Offset(L, k))
  BY <1>1, Begin64
<1> HIDE DEF L, no, len
<1>a. m \in Nat
  BY <1>2
<1>3. /\ 10 - i \in 2..9 /\ 9 - i \in 1..8 /\ 10 - i \in 1..9 /\ 9 - i \in 1..9
      /\ k \in 7 + m..14 + m /\ k \in Nat /\ k <= 17 + m
  BY <1>a
<1>4. /\ Held64(shape, reg, mem, k) /\ Ints64(shape, reg, k) /\ Prepared64(shape, reg, mem, k)
      /\ AreaBefore(shape, mem, k - 7)
  <2>1. Stands64(shape, k, pc, reg, mem)
    BY DEF Running64
  <2> HIDE DEF k
  <2> QED BY <1>3, <2>1 DEF Stands64
<1>5. x \in 0..11 /\ x # 2 /\ x # 4 /\ x # 5 /\ x # 0 /\ x \in 0..15
  <2>1. x \in 0..11 /\ x # 2 /\ x # 4 /\ x # 5
    BY <1>3, Int64Facts
  <2>2. x # 0
    <3>1. Int64(1) = 0 /\ 10 - i # 1 /\ 1 \in 1..9
      BY <1>3, Int64Facts
    <3>2. \A t, u \in 1..9 : Int64(t) = Int64(u) => t = u
      BY Int64Facts
    <3> QED BY <1>3, <3>1, <3>2
  <2> HIDE DEF x
  <2> QED BY <2>1, <2>2
<1>6. reg[y] = In(y)
  <2>1. CASE 9 - i = 1
    <3>1. k <= 15 + m
      BY <1>3, <1>a
    <3>2. reg[0] = In(0)
      BY <1>4, <3>1 DEF Prepared64
    <3> QED BY <2>1, <3>2, Int64Facts
  <2>2. CASE 9 - i \in 2..9
    <3> DEFINE t == 9 - i
    <3>1. t \in 2..9 /\ k < 17 + m - t
      BY <2>2, <1>a
    <3> HIDE DEF t, k
    <3>2. reg[Int64(t)] = In(Int64(t))
      BY <1>4, <3>1 DEF Ints64
    <3> QED BY <3>2 DEF t
  <2>3. 9 - i = 1 \/ 9 - i \in 2..9
    BY <1>3
  <2> QED BY <2>1, <2>2, <2>3
<1>7. Written(reg, reg', x, In(y)) /\ mem' = mem /\ Advances(len)
  <2>1. x \in DOMAIN reg
    BY <1>2, <1>5
  <2> HIDE DEF x, y
  <2> QED BY <1>2, <1>6, <2>1, StepMove
<1>8. Held64(shape, reg', mem', k + 1)
  <2>1. x # 14
    BY <1>5
  <2> HIDE DEF x, y
  <2>2. SameHeld64(reg, reg', mem, mem')
    BY <1>2, <1>7, <2>1, RegisterWritten64
  <2>3. k \in 2..18 + m
    BY <1>3, <1>a
  <2> HIDE DEF k
  <2> QED BY <1>1, <1>4, <2>2, <2>3, HeldKept64
<1>9. Prepared64(shape, reg', mem', k + 1)
  <2>1. mem' = mem /\ reg'[0] = reg[0] /\ reg'[2] = reg[2]
    BY <1>2, <1>5, <1>7 DEF Written
  <2>2. k + 1 <= 15 + m /\ ~(k + 1 >= 16 + m) /\ ~(k + 1 >= 17 + m) /\ k <= 15 + m /\ k >= 7 /\ k >= 6 /\ k >= 5
    BY <1>3, <1>a
  <2> HIDE DEF k
  <2> QED BY <1>4, <2>1, <2>2 DEF Prepared64
<1>10. Ints64(shape, reg', k + 1)
  <2> DEFINE j == k + 1
  <2>1. SUFFICES ASSUME NEW t \in 2..9
                 PROVE  /\ j >= 17 + m - t => reg'[Int64(t)] = In(Int64(t - 1))
                        /\ j < 17 + m - t => reg'[Int64(t)] = In(Int64(t))
    BY DEF Ints64
  <2>2. CASE t = 10 - i
    <3>1. j >= 17 + m - t /\ t - 1 = 9 - i
      BY <2>2, <1>a
    <3>2. reg'[Int64(t)] = In(Int64(t - 1))
      BY <1>7, <2>2, <3>1 DEF Written
    <3>3. ~(j < 17 + m - t)
      BY <2>2, <1>a
    <3> QED BY <3>2, <3>3
  <2>3. CASE t # 10 - i
    <3>1. Int64(t) # x /\ Int64(t) \in 0..15
      <4>1. \A u, v \in 1..9 : Int64(u) = Int64(v) => u = v
        BY Int64Facts
      <4>2. t \in 1..9
        OBVIOUS
      <4>3. Int64(t) \in 0..11
        BY <4>2, Int64Facts
      <4> QED BY <1>3, <2>3, <4>1, <4>2, <4>3
    <3>2. reg'[Int64(t)] = reg[Int64(t)]
      BY <1>2, <1>7, <3>1 DEF Written
    <3>3. /\ k >= 17 + m - t => reg[Int64(t)] = In(Int64(t - 1))
          /\ k < 17 + m - t => reg[Int64(t)] = In(Int64(t))
      BY <1>4 DEF Ints64
    <3>4. (k >= 17 + m - t <=> j >= 17 + m - t) /\ (k < 17 + m - t <=> j < 17 + m - t)
      BY <2>3, <1>a
    <3> QED BY <3>2, <3>3, <3>4
  <2> QED BY <2>2, <2>3
<1>11. ASSUME NEW c, c = k + 1 - 7 PROVE AreaBefore(shape, mem', c)
  <2>1. k <= 6 \/ k >= 7 + m
    BY <1>3, <1>a
  <2> HIDE DEF k
  <2>2. SameClears(shape, k - 7, k + 1 - 7)
    BY <1>1, <1>3, <2>1, SameClears64
  <2>3. SameClears(shape, k - 7, c)
    BY <1>11, <2>2
  <2>4. SameArea(shape, mem, mem')
    BY <1>7 DEF SameArea
  <2> QED BY <1>1, <1>4, <2>3, <2>4, AreaKept
<1>12. reg'[4] = Addr(Depth64(m, k + 1))
  <2>1. k \in 4..18 + m /\ k + 1 \in 4..18 + m
    BY <1>3, <1>a
  <2>2. reg'[4] = reg[4]
    BY <1>2, <1>5, <1>7 DEF Written
  <2> HIDE DEF k
  <2> QED BY <1>2, <2>1, <2>2, Depths64
<1>13. ASSUME NEW j, j = k + 1 PROVE Stands64(shape, j, pc', reg', mem')
  <2>1. ~(j >= 18 + m) /\ j - 1 = k /\ j - 7 = k + 1 - 7
    BY <1>3, <1>13, <1>a
  <2>2. pc' = Offset(L, k)
    BY <1>2, <1>7
  <2> HIDE DEF k
  <2>3. AreaBefore(shape, mem', j - 7)
    BY <1>11, <2>1
  <2>4. Ints64(shape, reg', j) /\ Prepared64(shape, reg', mem', j)
    BY <1>9, <1>10, <1>13
  <2>5. Held64(shape, reg', mem', j) /\ reg'[4] = Addr(Depth64(m, j))
    BY <1>8, <1>12, <1>13
  <2> QED BY <2>1, <2>2, <2>3, <2>4, <2>5 DEF Stands64, L
<1> QED BY <1>7, <1>13 DEF len, L

\* while Dispatch runs: the call has pushed its return address
Calling64(sh, p, r, w) ==
  /\ p = Offset(List64(sh), 17 + sh.retWords) /\ r[4] = Addr(-224)
  /\ Held64(sh, r, w, 17 + sh.retWords) /\ Ints64(sh, r, 17 + sh.retWords)
  /\ Prepared64(sh, r, w, 17 + sh.retWords)

\* CALL R12: the call of Dispatch.
LEMMA Call64 ==
  ASSUME Running64(17 + shape.retWords)
  PROVE  /\ phase' = "dispatch" /\ arch' = arch /\ shape' = shape /\ target' = Num(Dispatch)
         /\ Calling64(shape, pc', reg', mem') /\ AreaBefore(shape, mem', 10 + shape.retWords)
<1> DEFINE L == List64(shape)
           m == shape.retWords
           no == A64!NoImm
           k == 17 + m
           len == Len(L[k])
<1>1. shape \in Shapes /\ Lists(L, k, "call", 12, 0, 0, no)
  <2>1. shape \in Shapes
    BY DEF Running64, Next64
  <2>2. Lists64(shape, L, m)
    BY <2>1, Listing64
  <2> QED BY <2>1, <2>2, Listed64
<1>2. /\ Executing("call", 12, 0, 0, no, len) /\ m \in Nat /\ DOMAIN reg = 0..15
      /\ DOMAIN mem = Addresses(shape)
      /\ arch = "amd64" /\ reg[4] = Addr(Depth64(m, k)) /\ (Advances(len) => pc' = Offset(L, k))
  BY <1>1, Begin64
<1> HIDE DEF L, no, len
<1>a. m \in Nat
  BY <1>2
<1>3. reg[4] = Addr(-216)
  <2>1. k \in 4..18 + m
    BY <1>a
  <2> HIDE DEF k
  <2> QED BY <1>2, <2>1, Depths64
<1>4. /\ Held64(shape, reg, mem, k) /\ Ints64(shape, reg, k) /\ Prepared64(shape, reg, mem, k)
      /\ AreaBefore(shape, mem, k - 7) /\ pc = Offset(L, k - 1)
  <2>1. Stands64(shape, k, pc, reg, mem) /\ k <= 17 + m
    BY <1>a DEF Running64
  <2> HIDE DEF k
  <2> QED BY <2>1 DEF Stands64, L
<1>5. /\ Written(mem, mem', -224, Here(pc + len)) /\ Written(reg, reg', 4, Addr(-224))
      /\ target' = reg[12] /\ phase' = "dispatch" /\ pc' = pc + len
      /\ arch' = arch /\ shape' = shape
  <2> DEFINE s == -216
  <2>1. s - 8 = -224 /\ s - 8 \in DOMAIN mem /\ 4 \in DOMAIN reg /\ reg[4] = Addr(s)
    BY <1>1, <1>2, <1>3, AddressesFacts
  <2> HIDE DEF s, k
  <2>2. /\ Written(mem, mem', s - 8, Here(pc + len)) /\ Written(reg, reg', 4, Addr(s - 8))
        /\ target' = reg[12] /\ phase' = "dispatch" /\ pc' = pc + len
        /\ arch' = arch /\ shape' = shape
    BY <1>2, <2>1, StepCall64
  <2> QED BY <2>1, <2>2
<1>6. target' = Num(Dispatch)
  <2>1. k >= 17 + m
    BY <1>a
  <2> HIDE DEF k
  <2> QED BY <1>4, <1>5, <2>1 DEF Prepared64
<1>7. /\ SameHeld64(reg, reg', mem, mem') /\ SameInts64(reg, reg') /\ SameArea(shape, mem, mem')
      /\ reg'[0] = reg[0] /\ reg'[2] = reg[2] /\ reg'[12] = reg[12] /\ reg'[5] = reg[5]
      /\ mem'[-216] = mem[-216] /\ mem'[-208] = mem[-208]
      /\ DOMAIN reg' = 0..15
  <2>1. SameInts64(reg, reg') /\ SameArea(shape, mem, mem')
    BY <1>1, <1>2, <1>5, IntsElsewhere64, AreaElsewhere
  <2>2. /\ reg'[0] = reg[0] /\ reg'[2] = reg[2] /\ reg'[12] = reg[12] /\ reg'[5] = reg[5]
        /\ reg'[14] = reg[14] /\ DOMAIN reg' = 0..15
    BY <1>2, <1>5 DEF Written
  <2>3. /\ mem'[-216] = mem[-216] /\ mem'[-208] = mem[-208] /\ mem'[-8] = mem[-8] /\ mem'[0] = mem[0]
        /\ DOMAIN mem' = DOMAIN mem
    BY <1>1, <1>2, <1>5, AddressesFacts DEF Written
  <2> QED BY <1>2, <2>1, <2>2, <2>3 DEF SameHeld64
<1>8. Held64(shape, reg', mem', k)
  <2> HIDE DEF k
  <2> QED BY <1>4, <1>7 DEF Held64, SameHeld64
<1>9. Ints64(shape, reg', k)
  <2> HIDE DEF k
  <2> QED BY <1>4, <1>7 DEF Ints64, SameInts64
<1>10. Prepared64(shape, reg', mem', k)
  <2> HIDE DEF k
  <2> QED BY <1>4, <1>7 DEF Prepared64
<1>11. AreaBefore(shape, mem', k - 7)
  <2> HIDE DEF k
  <2> QED BY <1>4, <1>7 DEF AreaBefore, SameArea
<1>12. pc' = Offset(L, k)
  <2>1. Lists64(shape, L, m) /\ k \in 1..20 + m
    BY <1>1, <1>a, Listing64 DEF L
  <2>2. Offset(L, k) = Offset(L, k - 1) + len
    <3> HIDE DEF k
    <3> QED BY <2>1, Offsets64 DEF len
  <2> HIDE DEF k
  <2> QED BY <1>4, <1>5, <2>2
<1>13. k - 7 = 10 + m
  BY <1>a
<1>14. AreaBefore(shape, mem', 10 + m)
  <2> HIDE DEF k, m
  <2> QED BY <1>11, <1>13
<1>15. Calling64(shape, pc', reg', mem')
  <2>1. reg'[4] = Addr(-224)
    BY <1>5 DEF Written
  <2> QED BY <2>1, <1>8, <1>9, <1>10, <1>12 DEF Calling64, L
<1> QED BY <1>5, <1>6, <1>14, <1>15

\* ADD SP, 208 after the call.
LEMMA Unframe64 ==
  ASSUME Running64(18 + shape.retWords)
  PROVE  /\ Stands64(shape, 19 + shape.retWords, pc', reg', mem')
         /\ Advances(Len(List64(shape)[18 + shape.retWords]))
<1> DEFINE L == List64(shape)
           m == shape.retWords
           no == A64!NoImm
           k == 18 + m
           len == Len(L[k])
<1>1. shape \in Shapes /\ Lists(L, k, "add", 4, 4, 208, no)
  <2>1. shape \in Shapes
    BY DEF Running64, Next64
  <2>2. Lists64(shape, L, m)
    BY <2>1, Listing64
  <2> QED BY <2>1, <2>2, Listed64
<1>2. /\ Executing("add", 4, 4, 208, no, len) /\ m \in Nat /\ DOMAIN reg = 0..15
      /\ DOMAIN mem = Addresses(shape)
      /\ arch = "amd64" /\ reg[4] = Addr(Depth64(m, k)) /\ (Advances(len) => pc' = Offset(L, k))
  BY <1>1, Begin64
<1> HIDE DEF L, no, len
<1>a. m \in Nat
  BY <1>2
<1>3. reg[4] = Addr(-216)
  <2>1. k \in 4..18 + m
    BY <1>a
  <2> HIDE DEF k
  <2> QED BY <1>2, <2>1, Depths64
<1>4. Held64(shape, reg, mem, k) /\ Returned64(reg) /\ AreaAfter(shape, mem)
  <2>1. Stands64(shape, k, pc, reg, mem) /\ k >= 18 + m
    BY <1>a DEF Running64
  <2> HIDE DEF k
  <2> QED BY <2>1 DEF Stands64
<1>5. Written(reg, reg', 4, Addr(-8)) /\ mem' = mem /\ Advances(len)
  <2> DEFINE top == -216
             n == 208
  <2>1. top + n = -8 /\ reg[4] = Addr(top) /\ 4 \in DOMAIN reg /\ Executing("add", 4, 4, n, no, len)
    BY <1>2, <1>3
  <2> HIDE DEF top, n, k
  <2>2. Written(reg, reg', 4, Addr(top + n)) /\ mem' = mem /\ Advances(len)
    BY <2>1, StepAdd
  <2> QED BY <2>1, <2>2
<1>6. Held64(shape, reg', mem', k + 1)
  <2>1. SameHeld64(reg, reg', mem, mem')
    BY <1>2, <1>5, RegisterWritten64
  <2>2. k \in 2..18 + m
    BY <1>a
  <2> HIDE DEF k
  <2> QED BY <1>1, <1>4, <2>1, <2>2, HeldKept64
<1>7. Returned64(reg') /\ AreaAfter(shape, mem')
  <2>1. \A t \in 1..9 : reg'[Int64(t)] = reg[Int64(t)]
    BY <1>2, <1>5, Int64Facts DEF Written
  <2> QED BY <1>4, <1>5, <2>1 DEF Returned64
<1>8. reg'[4] = Addr(Depth64(m, 19 + m))
  BY <1>a, <1>5, Depths64 DEF Written
<1>9. k + 1 = 19 + m /\ 19 + m - 1 = k /\ ~(19 + m <= 17 + m) /\ 19 + m >= 18 + m
  BY <1>a
<1>11. Held64(shape, reg', mem', 19 + m)
  BY <1>6, <1>9
<1>12. ASSUME NEW j, j = 19 + m PROVE Stands64(shape, j, pc', reg', mem')
  <2>1. ~(j <= 17 + m) /\ j - 1 = k
    BY <1>a, <1>12
  <2>2. pc' = Offset(L, k)
    BY <1>2, <1>5
  <2>3. reg'[4] = Addr(Depth64(m, j))
    BY <1>8, <1>12
  <2>4. Held64(shape, reg', mem', j)
    BY <1>11, <1>12
  <2> HIDE DEF k
  <2> QED BY <1>7, <2>1, <2>2, <2>3, <2>4 DEF Stands64, L
<1> QED BY <1>5, <1>12 DEF L, len

\* POP BP.
LEMMA Pop64 ==
  ASSUME Running64(19 + shape.retWords)
  PROVE  /\ Stands64(shape, 20 + shape.retWords, pc', reg', mem')
         /\ Advances(Len(List64(shape)[19 + shape.retWords]))
<1> DEFINE L == List64(shape)
           m == shape.retWords
           no == A64!NoImm
           k == 19 + m
           len == Len(L[k])
<1>1. shape \in Shapes /\ Lists(L, k, "pop", 5, 0, 0, no)
  <2>1. shape \in Shapes
    BY DEF Running64, Next64
  <2>2. Lists64(shape, L, m)
    BY <2>1, Listing64
  <2> QED BY <2>1, <2>2, Listed64
<1>2. /\ Executing("pop", 5, 0, 0, no, len) /\ m \in Nat /\ DOMAIN reg = 0..15
      /\ DOMAIN mem = Addresses(shape)
      /\ arch = "amd64" /\ reg[4] = Addr(Depth64(m, k)) /\ (Advances(len) => pc' = Offset(L, k))
  BY <1>1, Begin64
<1> HIDE DEF L, no, len
<1>a. m \in Nat
  BY <1>2
<1>3. reg[4] = Addr(-8)
  BY <1>2, <1>a, Depths64
<1>4. /\ Held64(shape, reg, mem, k) /\ Returned64(reg) /\ AreaAfter(shape, mem)
      /\ mem[-8] = In(5) /\ reg[14] = In(14) /\ mem[0] = Caller
  <2>1. Stands64(shape, k, pc, reg, mem) /\ k >= 18 + m /\ k >= 2 /\ k <= 19 + m
    BY <1>a DEF Running64
  <2> HIDE DEF k
  <2>2. Held64(shape, reg, mem, k) /\ Returned64(reg) /\ AreaAfter(shape, mem)
    BY <2>1 DEF Stands64
  <2> QED BY <2>1, <2>2 DEF Held64
<1>5. /\ DOMAIN reg' = DOMAIN reg /\ reg'[5] = mem[-8] /\ reg'[4] = Addr(0)
      /\ \A y \in DOMAIN reg : y # 5 /\ y # 4 => reg'[y] = reg[y]
      /\ mem' = mem /\ Advances(len)
  <2> DEFINE s == -8
  <2>1. s + 8 = 0 /\ reg[4] = Addr(s) /\ 4 \in DOMAIN reg /\ 5 \in DOMAIN reg /\ 5 # 4
    BY <1>2, <1>3
  <2> HIDE DEF s, k
  <2>2. /\ DOMAIN reg' = DOMAIN reg /\ reg'[5] = mem[s] /\ reg'[4] = Addr(s + 8)
        /\ \A y \in DOMAIN reg : y # 5 /\ y # 4 => reg'[y] = reg[y]
        /\ mem' = mem /\ Advances(len)
    BY <1>2, <2>1, StepPop
  <2> QED BY <2>1, <2>2 DEF s
<1>6. Returned64(reg') /\ AreaAfter(shape, mem')
  <2>1. \A t \in 1..9 : reg'[Int64(t)] = reg[Int64(t)]
    BY <1>2, <1>5, Int64Facts
  <2> QED BY <1>4, <1>5, <2>1 DEF Returned64
<1>7. Stands64(shape, 20 + m, pc', reg', mem')
  <2> DEFINE j == 20 + m
  <2>1. j - 1 = k /\ ~(j <= 17 + m) /\ ~(j <= 19 + m)
    BY <1>a
  <2>2. pc' = Offset(L, j - 1)
    BY <1>2, <1>5, <2>1
  <2>3. reg'[4] = Addr(Depth64(m, j))
    BY <1>a, <1>5, Depths64
  <2>4. reg'[14] = In(14) /\ reg'[5] = In(5) /\ mem'[0] = Caller /\ DOMAIN reg' = 0..15
        /\ DOMAIN mem' = Addresses(shape)
    BY <1>2, <1>4, <1>5
  <2> HIDE DEF j
  <2>5. Held64(shape, reg', mem', j)
    BY <2>1, <2>4 DEF Held64
  <2>6. Stands64(shape, j, pc', reg', mem')
    BY <1>6, <2>1, <2>2, <2>3, <2>5 DEF Stands64, L
  <2> QED BY <2>6 DEF j
<1> QED BY <1>5, <1>7 DEF L, len

\* RET: what the caller gets.
Done64(sh, p, r, w) ==
  /\ p = Offset(List64(sh), 19 + sh.retWords) /\ r[4] = Addr(8) /\ r[5] = In(5) /\ r[14] = In(14)
  /\ DOMAIN r = 0..15 /\ DOMAIN w = Addresses(sh) /\ w[0] = Caller
  /\ Returned64(r) /\ AreaAfter(sh, w)

\* RET.
LEMMA Return64 ==
  ASSUME Running64(20 + shape.retWords)
  PROVE  /\ phase' = "returned" /\ arch' = arch /\ shape' = shape /\ target' = Caller
         /\ Done64(shape, pc', reg', mem')
<1> DEFINE L == List64(shape)
           m == shape.retWords
           no == A64!NoImm
           k == 20 + m
           len == Len(L[k])
<1>1. shape \in Shapes /\ Lists(L, k, "ret", 0, 0, 0, no)
  <2>1. shape \in Shapes
    BY DEF Running64, Next64
  <2>2. Lists64(shape, L, m)
    BY <2>1, Listing64
  <2> QED BY <2>1, <2>2, Listed64
<1>2. /\ Executing("ret", 0, 0, 0, no, len) /\ m \in Nat /\ DOMAIN reg = 0..15
      /\ DOMAIN mem = Addresses(shape)
      /\ arch = "amd64" /\ reg[4] = Addr(Depth64(m, k))
  BY <1>1, Begin64
<1> HIDE DEF L, no, len
<1>a. m \in Nat
  BY <1>2
<1>3. reg[4] = Addr(0)
  BY <1>2, <1>a, Depths64
<1>4. /\ Held64(shape, reg, mem, k) /\ Returned64(reg) /\ AreaAfter(shape, mem)
      /\ reg[5] = In(5) /\ reg[14] = In(14) /\ mem[0] = Caller /\ pc = Offset(L, k - 1)
  <2>1. Stands64(shape, k, pc, reg, mem) /\ k >= 18 + m /\ k = 20 + m
    BY <1>a DEF Running64
  <2> HIDE DEF k
  <2>2. Held64(shape, reg, mem, k) /\ Returned64(reg) /\ AreaAfter(shape, mem) /\ pc = Offset(L, k - 1)
    BY <2>1 DEF Stands64, L
  <2> QED BY <2>1, <2>2 DEF Held64
<1>5. /\ target' = mem[0] /\ Written(reg, reg', 4, Addr(8)) /\ phase' = "returned"
      /\ pc' = pc /\ mem' = mem /\ arch' = arch /\ shape' = shape
  <2> DEFINE s == 0
  <2>1. s + 8 = 8 /\ reg[4] = Addr(s) /\ 4 \in DOMAIN reg
    BY <1>2, <1>3
  <2> HIDE DEF s, k
  <2>2. /\ target' = mem[s] /\ Written(reg, reg', 4, Addr(s + 8)) /\ phase' = "returned"
        /\ pc' = pc /\ mem' = mem /\ arch' = arch /\ shape' = shape
    BY <1>2, <2>1, StepReturn64
  <2> QED BY <2>1, <2>2 DEF s
<1>6. \A t \in 1..9 : reg'[Int64(t)] = reg[Int64(t)]
  BY <1>2, <1>5, Int64Facts DEF Written
<1>7. reg'[4] = Addr(8) /\ reg'[5] = In(5) /\ reg'[14] = In(14) /\ DOMAIN reg' = 0..15
  BY <1>2, <1>4, <1>5 DEF Written
<1>8. k - 1 = 19 + m
  BY <1>a
<1>9. pc' = Offset(L, 19 + m)
  BY <1>4, <1>5, <1>8
<1>10. Returned64(reg')
  BY <1>4, <1>6 DEF Returned64
<1> QED BY <1>2, <1>4, <1>5, <1>7, <1>9, <1>10 DEF Done64, L

\* of what is between k and j no instruction is emitted
Nothing(L, k, j) == Offset(L, j - 1) = Offset(L, k - 1) /\ \A i \in k..j - 1 : L[i] = <<>>

Gap64(sh, m, k, j) == m = sh.retWords /\ k \in 7..6 + m /\ j \in k..7 + m

\* Between the clears of results that hold no pointer there is no instruction: what
\* holds before one that is not there holds at the next that is.
LEMMA Jump64 ==
  ASSUME NEW sh \in Shapes, NEW L, L = List64(sh), NEW p, NEW r, NEW w,
         NEW m, NEW k, NEW j, Gap64(sh, m, k, j), Nothing(L, k, j), Stands64(sh, k, p, r, w)
  PROVE  Stands64(sh, j, p, r, w)
<1>0. m = sh.retWords /\ k \in 7..6 + m /\ j \in k..7 + m
  BY DEF Gap64
<1>1. m \in Nat /\ Lists64(sh, L, m) /\ \A q \in sh.retPtrs : q \in Nat /\ q < m
  BY <1>0, Listing64, ShapeFacts
<1>a. m \in Nat
  BY <1>1
<1>2. /\ k <= 17 + m /\ j <= 17 + m /\ ~(j >= 18 + m) /\ k \in 4..18 + m /\ j \in 4..18 + m
      /\ k \in Nat /\ j \in Nat /\ 7 <= k /\ k <= j /\ k <= 6 + m /\ j <= 7 + m
  BY <1>a, <1>0
<1>3. /\ p = Offset(List64(sh), k - 1) /\ r[4] = Addr(Depth64(m, k)) /\ Held64(sh, r, w, k)
      /\ Ints64(sh, r, k) /\ Prepared64(sh, r, w, k) /\ AreaBefore(sh, w, k - 7)
  BY <1>0, <1>2 DEF Stands64
<1>4. p = Offset(List64(sh), j - 1) /\ r[4] = Addr(Depth64(m, j))
  <2>0. \A i \in 4..18 + m : Depth64(m, i) = -216
    BY <1>a, Depths64
  <2>1. Depth64(m, j) = -216 /\ Depth64(m, k) = -216
    BY <1>2, <2>0
  <2>2. p = Offset(List64(sh), j - 1)
    BY <1>3 DEF Nothing
  <2> QED BY <1>3, <2>1, <2>2
<1>5. Held64(sh, r, w, j)
  <2>1. /\ ~(j <= 2) /\ j # 20 + m /\ k >= 2 /\ k <= 19 + m
    BY <1>a, <1>2
  <2>2. DOMAIN r = 0..15 /\ DOMAIN w = Addresses(sh) /\ r[14] = In(14) /\ w[0] = Caller /\ w[-8] = In(5)
    BY <1>0, <1>3, <2>1 DEF Held64
  <2> QED BY <1>0, <2>1, <2>2 DEF Held64
<1>6. Ints64(sh, r, j)
  <2>1. SUFFICES ASSUME NEW t \in 2..9
                 PROVE  /\ j >= 17 + m - t => r[Int64(t)] = In(Int64(t - 1))
                        /\ j < 17 + m - t => r[Int64(t)] = In(Int64(t))
    BY <1>0 DEF Ints64
  <2>a. k \in Int /\ k <= 6 + m /\ j \in Int /\ j <= 7 + m /\ m \in Int
    BY <1>a, <1>2
  <2>2. k < 17 + m - t /\ j < 17 + m - t /\ ~(j >= 17 + m - t)
    BY <2>a
  <2> QED BY <1>0, <1>3, <2>2 DEF Ints64
<1>7. Prepared64(sh, r, w, j)
  <2>1. /\ j <= 15 + m /\ ~(j >= 16 + m) /\ ~(j >= 17 + m) /\ k <= 15 + m
        /\ k >= 7 /\ k >= 6 /\ k >= 5
    BY <1>a, <1>2
  <2> QED BY <1>0, <1>3, <2>1 DEF Prepared64
<1>8. AreaBefore(sh, w, j - 7)
  <2>1. ASSUME NEW q \in sh.retPtrs PROVE q < k - 7 <=> q < j - 7
    <3>1. CASE q + 7 \in k..j - 1
      <4>1. L[6 + (q + 1)] = <<>>
        <5>1. q + 7 = 6 + (q + 1)
          BY <1>1
        <5>2. L[q + 7] = <<>>
          BY <3>1 DEF Nothing
        <5> QED BY <5>1, <5>2
      <4>2. q + 1 \in 1..m /\ q + 1 - 1 = q
        BY <1>1
      <4>3. \A i \in 1..m : i - 1 \in sh.retPtrs =>
              Does64(L[6 + i], "clear", 0, 2, 8 * (sh.argWords + i - 1), A64!NoImm)
        BY <1>1 DEF Lists64
      <4>b. PICK i : i = q + 1
        OBVIOUS
      <4>a. L[6 + i] = <<>>
        BY <4>1, <4>b
      <4>4. i \in 1..m /\ i - 1 \in sh.retPtrs /\ L[6 + i] = <<>>
        <5>1. i - 1 = q
          BY <1>1, <4>b
        <5> QED BY <4>2, <4>a, <4>b, <5>1
      <4> DEFINE n == 8 * (sh.argWords + i - 1)
      <4>5. Does64(L[6 + i], "clear", 0, 2, n, A64!NoImm)
        BY <4>3, <4>4
      <4> HIDE DEF n
      <4>6. Len(L[6 + i]) \in 1..15
        BY <4>5 DEF Does64, Means64, A64!Ins
      <4> QED BY <4>4, <4>6
    <3>2. CASE q + 7 \notin k..j - 1
      <4>1. q \in Nat /\ k \in Nat /\ j \in Nat /\ k <= j
        BY <1>1, <1>2
      <4> QED BY <3>2, <4>1
    <3> QED BY <3>1, <3>2
  <2>2. SameClears(sh, k - 7, j - 7)
    BY <1>2, <2>1 DEF SameClears
  <2>3. SameArea(sh, w, w)
    BY DEF SameArea
  <2> QED BY <1>3, <2>2, <2>3, AreaKept
<1> QED BY <1>0, <1>2, <1>4, <1>5, <1>6, <1>7, <1>8 DEF Stands64

\* the trampoline is at the k-th instruction, one of those emitted
At64(k, sh, p, r, w) ==
  k \in 1..20 + sh.retWords /\ List64(sh)[k] # <<>> /\ Stands64(sh, k, p, r, w)

\* Somewhere in the listing is at an instruction.
LEMMA Settle64 ==
  ASSUME NEW sh \in Shapes, NEW p, NEW r, NEW w, NEW k, k \in 1..20 + sh.retWords,
         Stands64(sh, k, p, r, w)
  PROVE  \E j : At64(j, sh, p, r, w)
<1> DEFINE L == List64(sh)
           m == sh.retWords
<1>1. m \in Nat /\ Lists64(sh, L, m)
  BY Listing64, ShapeFacts
<1> HIDE DEF L
<1>2. L \in Seq(ByteSeq) /\ Len(L) = 20 + m /\ \A i \in 1..20 + m : (i \notin 7..6 + m) => L[i] # <<>>
  BY <1>1 DEF Lists64
<1>3. CASE L[k] # <<>>
  BY <1>3 DEF At64, L
<1>4. CASE L[k] = <<>>
  <2>1. k \in 7..6 + m
    BY <1>2, <1>4
  <2>2. k \in 1..Len(L) /\ L[Len(L)] # <<>> /\ L \in Seq(Seq(Byte))
    <3>1. 20 + m \in 1..20 + m /\ 20 + m \notin 7..6 + m
      BY <1>1
    <3>2. L[20 + m] # <<>>
      BY <1>2, <3>1
    <3>3. L \in Seq(Seq(Byte))
      BY <1>2 DEF ByteSeq
    <3> QED BY <1>2, <3>2, <3>3
  <2>3. PICK j \in k..Len(L) : /\ L[j] # <<>> /\ Offset(L, j - 1) = Offset(L, k - 1)
                               /\ \A i \in k..j - 1 : L[i] = <<>>
    BY <2>2, SkipEmpty
  <2>4. j \in k..7 + m
    <3>1. 7 + m \in k..j - 1 => L[7 + m] = <<>>
      BY <2>3
    <3>2. L[7 + m] # <<>>
      <4>1. 7 + m \in 1..20 + m /\ 7 + m \notin 7..6 + m
        BY <1>1
      <4> QED BY <1>2, <4>1
    <3>3. j \in Int /\ k \in Int /\ j >= k /\ k <= 7 + m
      BY <1>1, <1>2, <2>1
    <3> QED BY <1>1, <3>1, <3>2, <3>3
  <2>5. Stands64(sh, j, p, r, w)
    <3>1. Gap64(sh, m, k, j) /\ Nothing(L, k, j)
      BY <2>1, <2>3, <2>4 DEF Gap64, Nothing
    <3> QED BY <3>1, Jump64 DEF L
  <2>6. j \in 1..20 + m
    BY <1>1, <2>1, <2>4
  <2> QED BY <2>3, <2>5, <2>6 DEF At64, L
<1> QED BY <1>3, <1>4

\* what is not below s is as it was
KeepsAbove(w, w2, s) == DOMAIN w2 = DOMAIN w /\ \A o \in DOMAIN w : ~(o < s) => w2[o] = w[o]

\* Nothing that matters is below the stack pointer.
LEMMA StandsAbove64 ==
  ASSUME NEW sh \in Shapes, NEW p, NEW r, NEW w, NEW w2, NEW k, k \in 1..20 + sh.retWords,
         Stands64(sh, k, p, r, w), KeepsAbove(w, w2, Depth64(sh.retWords, k))
  PROVE  Stands64(sh, k, p, r, w2)
<1> DEFINE m == sh.retWords
           s == Depth64(m, k)
<1>1. m \in Nat /\ k \in Nat /\ k >= 1 /\ k <= 20 + m
  BY ShapeFacts
<1>2. /\ s \in {0, -8, -216} /\ (k >= 2 /\ k <= 19 + m => s # 0)
      /\ (k >= 5 /\ k <= 17 + m => s = -216)
  BY <1>1 DEF Depth64
<1>3. /\ p = Offset(List64(sh), k - 1) /\ r[4] = Addr(Depth64(sh.retWords, k))
      /\ Held64(sh, r, w, k)
      /\ k <= 17 + m => /\ Ints64(sh, r, k) /\ Prepared64(sh, r, w, k)
                        /\ AreaBefore(sh, w, k - 7)
      /\ k >= 18 + m => Returned64(r) /\ AreaAfter(sh, w)
  BY DEF Stands64
<1>4. DOMAIN w = Addresses(sh) /\ DOMAIN w2 = DOMAIN w /\ \A o \in DOMAIN w : ~(o < s) => w2[o] = w[o]
  BY <1>3 DEF KeepsAbove, Held64
<1> HIDE DEF s
<1>5. /\ w2[0] = w[0] /\ (s # 0 => w2[-8] = w[-8])
      /\ (s = -216 => w2[-216] = w[-216] /\ w2[-208] = w[-208])
  <2>1. /\ ~(0 < s) /\ (s # 0 => ~(-8 < s)) /\ (s = -216 => ~(-216 < s) /\ ~(-208 < s))
    BY <1>2
  <2>2. 0 \in DOMAIN w /\ -8 \in DOMAIN w /\ -216 \in DOMAIN w /\ -208 \in DOMAIN w
    BY <1>4, AddressesFacts
  <2> QED BY <1>4, <2>1, <2>2
<1>6. SameArea(sh, w, w2)
  <2>1. ASSUME NEW i \in 0..Words(sh) - 1 PROVE w2[Area(i)] = w[Area(i)]
    <3>1. Area(i) \in DOMAIN w /\ Area(i) \in Nat
      BY <1>4, AddressesFacts
    <3> DEFINE o == Area(i)
    <3> HIDE DEF o
    <3>2. ~(o < s)
      BY <1>2, <3>1 DEF o
    <3> QED BY <1>4, <3>1, <3>2 DEF o
  <2> QED BY <2>1 DEF SameArea
<1>7. Held64(sh, r, w2, k)
  BY <1>2, <1>3, <1>4, <1>5 DEF Held64
<1>8. k <= 17 + m => Prepared64(sh, r, w2, k)
  <2> SUFFICES ASSUME k <= 17 + m PROVE Prepared64(sh, r, w2, k)
    OBVIOUS
  <2>1. Prepared64(sh, r, w, k)
    BY <1>3
  <2>2. k >= 5 => w2[-216] = w[-216] /\ w2[-208] = w[-208]
    BY <1>2, <1>5
  <2>3. (k >= 6 => k >= 5) /\ (k >= 7 => k >= 5)
    BY <1>1
  <2> QED BY <2>1, <2>2, <2>3 DEF Prepared64
<1>9. k <= 17 + m => AreaBefore(sh, w2, k - 7)
  <2>1. AreaBefore(sh, w, k - 7) => AreaBefore(sh, w2, k - 7)
    BY <1>6 DEF AreaBefore, SameArea
  <2> QED BY <1>3, <2>1
<1>10. k >= 18 + m => AreaAfter(sh, w2)
  <2>1. AreaAfter(sh, w) => AreaAfter(sh, w2)
    BY <1>6 DEF AreaAfter, SameArea
  <2> QED BY <1>3, <2>1
<1> QED BY <1>3, <1>7, <1>8, <1>9, <1>10 DEF Stands64

\* A preemption between two instructions keeps what holds there.
LEMMA Preempt64 ==
  ASSUME AsyncPreempt, arch = "amd64", NEW k, At64(k, shape, pc, reg, mem), shape \in Shapes
  PROVE  /\ At64(k, shape, pc', reg', mem') /\ arch' = arch /\ shape' = shape /\ phase' = phase
<1> DEFINE s == Depth64(shape.retWords, k)
<1>1. k \in 1..20 + shape.retWords /\ List64(shape)[k] # <<>> /\ Stands64(shape, k, pc, reg, mem)
  BY DEF At64
<1>2. M.sp = 4 /\ M.redZone = 0
  BY MachineFacts
<1>3. reg[M.sp] = Addr(s)
  BY <1>1, <1>2 DEF Stands64
<1>4. s \in Int
  BY DEF Depth64
<1> HIDE DEF s
<1>5. /\ DOMAIN mem' = DOMAIN mem
      /\ \A o \in DOMAIN mem : ~(o < s - 8 * M.redZone) => mem'[o] = mem[o]
      /\ arch' = arch /\ shape' = shape /\ phase' = phase /\ pc' = pc /\ reg' = reg
  BY <1>3, StepPreempt
<1>6. s - 8 * M.redZone = s
  BY <1>2, <1>4
<1>7. KeepsAbove(mem, mem', s)
  BY <1>5, <1>6 DEF KeepsAbove
<1>8. Stands64(shape, k, pc, reg, mem')
  BY <1>1, <1>7, StandsAbove64 DEF s
<1> QED BY <1>1, <1>5, <1>8 DEF At64

\* Dispatch copies its results into the area: now every word of it is what its bit says.
LEMMA Stores64 ==
  ASSUME DispatchStores, shape \in Shapes, Calling64(shape, pc, reg, mem),
         AreaBefore(shape, mem, 10 + shape.retWords)
  PROVE  /\ phase' = "stored" /\ arch' = arch /\ shape' = shape
         /\ Calling64(shape, pc', reg', mem') /\ AreaAfter(shape, mem')
<1> DEFINE m == shape.retWords
           n == shape.argWords
           k == 17 + m
<1>1. /\ mem' = [o \in DOMAIN mem |->
                   LET i == o \div 8 - 1 IN
                   IF i < shape.argWords THEN mem[o]
                   ELSE IF i - shape.argWords \in shape.retPtrs THEN Pointer(i) ELSE Data(i)]
      /\ phase' = "stored" /\ arch' = arch /\ shape' = shape /\ pc' = pc /\ reg' = reg
  BY DEF DispatchStores
<1>2. DOMAIN mem = Addresses(shape) /\ Held64(shape, reg, mem, k) /\ Prepared64(shape, reg, mem, k)
  BY DEF Calling64, Held64
<1>3. /\ n \in Nat /\ m \in Nat /\ Words(shape) = n + m
      /\ \A i \in shape.argPtrs : i \in Nat /\ i < n
      /\ \A i \in shape.retPtrs : i \in Nat /\ i < m
  BY ShapeFacts DEF Words
<1>4. /\ DOMAIN mem' = DOMAIN mem
      /\ \A o \in DOMAIN mem : (o \div 8) - 1 < n => mem'[o] = mem[o]
      /\ \A o \in DOMAIN mem : ~((o \div 8) - 1 < n) /\ (o \div 8) - 1 - n \in shape.retPtrs =>
           mem'[o] = Pointer((o \div 8) - 1)
      /\ \A o \in DOMAIN mem : ~((o \div 8) - 1 < n) /\ ~((o \div 8) - 1 - n \in shape.retPtrs) =>
           mem'[o] = Data((o \div 8) - 1)
  BY <1>1
<1>5. mem'[-8] = mem[-8] /\ mem'[0] = mem[0] /\ mem'[-216] = mem[-216] /\ mem'[-208] = mem[-208]
  <2>1. 0 \in DOMAIN mem /\ -8 \in DOMAIN mem /\ -216 \in DOMAIN mem /\ -208 \in DOMAIN mem
    BY <1>2, AddressesFacts
  <2>2. /\ (-8 \div 8) - 1 < n /\ (0 \div 8) - 1 < n /\ (-216 \div 8) - 1 < n
        /\ (-208 \div 8) - 1 < n
    BY <1>3
  <2> QED BY <1>4, <2>1, <2>2
<1>6. Held64(shape, reg', mem', k) /\ Prepared64(shape, reg', mem', k)
  <2> HIDE DEF k
  <2> QED BY <1>1, <1>2, <1>4, <1>5 DEF Held64, Prepared64
<1>7. Calling64(shape, pc', reg', mem')
  BY <1>1, <1>6 DEF Calling64
<1>8. AreaAfter(shape, mem')
  <2>1. SUFFICES ASSUME NEW i \in 0..Words(shape) - 1
                 PROVE  /\ i \in ArgBits(shape) => mem'[Area(i)] = Pointer(i)
                        /\ i \notin ArgBits(shape) => mem'[Area(i)] = Data(i)
    BY DEF AreaAfter
  <2>2. Area(i) \in DOMAIN mem /\ (Area(i) \div 8) - 1 = i
    <3>1. Area(i) \in DOMAIN mem
      BY <1>2, AddressesFacts
    <3> QED BY <3>1 DEF Area
  <2>3. /\ i < n => (i \in ArgBits(shape) <=> i \in shape.argPtrs)
        /\ ~(i < n) => (i \in ArgBits(shape) <=> i - n \in shape.retPtrs)
    BY <1>3 DEF ArgBits
  <2>4. CASE i < n
    <3>1. mem'[Area(i)] = mem[Area(i)]
      BY <1>4, <2>2, <2>4
    <3> QED BY <2>3, <2>4, <3>1 DEF AreaBefore
  <2>5. CASE ~(i < n)
    <3>1. /\ i - n \in shape.retPtrs => mem'[Area(i)] = Pointer(i)
          /\ ~(i - n \in shape.retPtrs) => mem'[Area(i)] = Data(i)
      BY <1>4, <2>2, <2>5
    <3> QED BY <2>3, <2>5, <3>1
  <2> QED BY <2>4, <2>5
<1> QED BY <1>1, <1>7, <1>8

\* Dispatch returns: the words above its frame and its spill area are as they were.
LEMMA Returns64 ==
  ASSUME DispatchReturns, arch = "amd64", shape \in Shapes, Calling64(shape, pc, reg, mem),
         AreaAfter(shape, mem)
  PROVE  /\ phase' = "stub" /\ arch' = arch /\ shape' = shape
         /\ \A k : k = 18 + shape.retWords => Stands64(shape, k, pc', reg', mem')
<1> DEFINE m == shape.retWords
<1>1. /\ M.sp = 4 /\ M.fp = 5 /\ M.g = 14 /\ M.regs = 0..15 /\ M.args = 0 /\ M.floats = 15
      /\ M.redZone = 0 /\ M.ints = <<0, 3, 1, 7, 6, 8, 9, 10, 11>> /\ Len(M.ints) = 9
  BY MachineFacts
<1>2. /\ pc = Offset(List64(shape), 17 + m) /\ reg[4] = Addr(-224)
      /\ DOMAIN mem = Addresses(shape) /\ DOMAIN reg = 0..15
      /\ reg[14] = In(14) /\ mem[0] = Caller /\ mem[-8] = In(5)
  <2>1. m \in Nat
    BY ShapeFacts
  <2>2. 17 + m >= 2 /\ 17 + m <= 19 + m
    BY <2>1
  <2> QED BY <2>2 DEF Calling64, Held64
<1>3. SP = -224 /\ CallSP = -216
  <2>1. SP = -224
    BY <1>1, <1>2, AddressFacts DEF SP
  <2> QED BY <2>1 DEF CallSP
<1>4. /\ phase' = "stub" /\ arch' = arch /\ shape' = shape /\ pc' = pc
      /\ mem' = [o \in DOMAIN mem |-> IF Below(o, CallSP) \/ o \in Outgoing THEN Junk ELSE mem[o]]
      /\ reg' = [r \in M.regs |-> IF r = M.sp THEN Addr(CallSP)
                                  ELSE IF r \in {M.fp, M.g} THEN reg[r]
                                  ELSE IF r \in ToSet(M.ints) THEN Res(r) ELSE Junk]
  BY DEF DispatchReturns
<1>5. Outgoing = {-216 + 0 + 8 * k : k \in 0..25}
  <2>1. 1 + 9 + 15 = 25
    OBVIOUS
  <2> QED BY <1>1, <1>3, <2>1 DEF Outgoing
<1>6. \A o \in DOMAIN mem : o \in Int /\ o >= -8 => mem'[o] = mem[o]
  <2> SUFFICES ASSUME NEW o \in DOMAIN mem, o \in Int, o >= -8 PROVE mem'[o] = mem[o]
    OBVIOUS
  <2>1. ~Below(o, CallSP)
    BY <1>1, <1>3 DEF Below
  <2>2. o \notin Outgoing
    <3>1. \A k \in 0..25 : -216 + 0 + 8 * k <= -16
      OBVIOUS
    <3> QED BY <1>5, <3>1
  <2> QED BY <1>4, <2>1, <2>2
<1>7. DOMAIN mem' = Addresses(shape) /\ mem'[-8] = In(5) /\ mem'[0] = Caller
  <2>1. -8 \in DOMAIN mem /\ 0 \in DOMAIN mem
    BY <1>2, AddressesFacts
  <2>2. mem'[-8] = mem[-8] /\ mem'[0] = mem[0]
    BY <1>6, <2>1
  <2> QED BY <1>2, <1>4, <2>2
<1>8. AreaAfter(shape, mem')
  <2>1. ASSUME NEW i \in 0..Words(shape) - 1 PROVE mem'[Area(i)] = mem[Area(i)]
    <3>1. Area(i) \in DOMAIN mem /\ Area(i) \in Nat
      BY <1>2, AddressesFacts
    <3> QED BY <1>6, <3>1
  <2> QED BY <2>1 DEF AreaAfter
<1>9. /\ DOMAIN reg' = 0..15 /\ reg'[4] = Addr(-216) /\ reg'[14] = In(14)
  BY <1>1, <1>2, <1>3, <1>4
<1>10. Returned64(reg')
  <2>1. SUFFICES ASSUME NEW t \in 1..9 PROVE reg'[Int64(t)] = Res(Int64(t))
    BY DEF Returned64
  <2>2. Int64(t) \in 0..15 /\ Int64(t) # 4 /\ Int64(t) # 5 /\ Int64(t) # 14
    <3>1. Int64(t) \in 0..11 /\ Int64(t) # 4 /\ Int64(t) # 5
      BY Int64Facts
    <3> QED BY <3>1
  <2>3. Int64(t) = M.ints[t]
    BY DEF Int64, M
  <2>4. Int64(t) \in ToSet(M.ints)
    BY <1>1, <2>3 DEF ToSet
  <2> DEFINE x == Int64(t)
  <2> HIDE DEF x
  <2>5. x \in 0..15 /\ x # 4 /\ x # 5 /\ x # 14 /\ x \in ToSet(M.ints)
    BY <2>2, <2>4 DEF x
  <2>6. reg'[x] = Res(x)
    BY <1>1, <1>4, <2>5
  <2> QED BY <2>6 DEF x
<1>11. ASSUME NEW k, k = 18 + m PROVE Stands64(shape, k, pc', reg', mem')
  <2>a. m \in Nat
    BY ShapeFacts
  <2>1. /\ ~(k <= 17 + m) /\ k >= 18 + m /\ ~(k <= 2) /\ k # 20 + m /\ k - 1 = 17 + m
        /\ k \in 4..18 + m
    BY <1>11, <2>a
  <2>2. Depth64(m, k) = -216
    BY <2>1, <2>a, Depths64
  <2>3. pc' = Offset(List64(shape), k - 1)
    BY <1>2, <1>4, <2>1
  <2>4. Held64(shape, reg', mem', k)
    BY <1>7, <1>9, <2>1 DEF Held64
  <2> QED BY <1>8, <1>9, <1>10, <2>1, <2>2, <2>3, <2>4 DEF Stands64
<1> QED BY <1>4, <1>11

-----------------------------------------------------------------------------
(* amd64: the invariant *)

State64 ==
  /\ arch = "amd64" /\ arch \in Arches /\ shape \in Shapes
  /\ \/ phase = "stub" /\ \E k : At64(k, shape, pc, reg, mem)
     \/ /\ phase = "dispatch" /\ Calling64(shape, pc, reg, mem) /\ target = Num(Dispatch)
        /\ AreaBefore(shape, mem, 10 + shape.retWords)
     \/ phase = "stored" /\ Calling64(shape, pc, reg, mem) /\ AreaAfter(shape, mem)
     \/ phase = "returned" /\ Done64(shape, pc, reg, mem) /\ target = Caller

\* the next instruction is one of the listing's
Goes64 ==
  /\ \E len : Advances(len)
  /\ \E j : j \in 1..20 + shape.retWords /\ Stands64(shape, j, pc', reg', mem')

\* an instruction that is emitted, neither the call nor the return
Ordinary64(sh, k) ==
  /\ k \in 1..20 + sh.retWords /\ List64(sh)[k] # <<>>
  /\ k # 17 + sh.retWords /\ k # 20 + sh.retWords

\* Where an instruction of the listing is.
LEMMA Positions64 ==
  ASSUME NEW m \in Nat, NEW k \in 1..20 + m
  PROVE  \/ k = 1 \/ k = 2 \/ k = 3 \/ k = 4 \/ k = 5 \/ k = 6 \/ k \in 7..6 + m
         \/ k \in 7 + m..14 + m \/ k = 15 + m \/ k = 16 + m \/ k = 17 + m \/ k = 18 + m
         \/ k = 19 + m \/ k = 20 + m
OBVIOUS

\* Every instruction but the call and the return leads to another.
LEMMA Instruction64 ==
  ASSUME NEW k, Running64(k), shape \in Shapes, Ordinary64(shape, k)
  PROVE  Goes64
<1> DEFINE m == shape.retWords
<1>1. m \in Nat /\ Lists64(shape, List64(shape), m)
  BY ShapeFacts, Listing64
<1>a. m \in Nat
  BY <1>1
<1>0. /\ k \in 1..20 + m /\ List64(shape)[k] # <<>> /\ k # 17 + m /\ k # 20 + m
  BY DEF Ordinary64
<1>2. \/ k = 1 \/ k = 2 \/ k = 3 \/ k = 4 \/ k = 5 \/ k = 6 \/ k \in 7..6 + m
      \/ k \in 7 + m..14 + m \/ k = 15 + m \/ k = 16 + m \/ k = 18 + m \/ k = 19 + m
  <2> HIDE DEF m
  <2> QED BY <1>a, <1>0, Positions64
<1> DEFINE To(j) == (\E len : Advances(len)) /\ Stands64(shape, j, pc', reg', mem')
<1>3. ASSUME NEW j, j \in 1..20 + m, To(j) PROVE Goes64
  BY <1>3 DEF Goes64
<1>4. /\ 2 \in 1..20 + m /\ 2 + 1 \in 1..20 + m /\ 3 + 1 \in 1..20 + m /\ 4 + 1 \in 1..20 + m
      /\ 5 + 1 \in 1..20 + m /\ 6 + 1 \in 1..20 + m /\ 15 + m + 1 \in 1..20 + m
      /\ 16 + m + 1 \in 1..20 + m /\ 19 + m \in 1..20 + m /\ 20 + m \in 1..20 + m
  <2> HIDE DEF m
  <2> QED BY <1>a
<1>5. CASE k = 1
  BY <1>3, <1>4, <1>5, Push64
<1>6. CASE k = 2
  BY <1>3, <1>4, <1>6, FramePointer64
<1>7. CASE k = 3
  BY <1>3, <1>4, <1>7, Frame64
<1>8. CASE k = 4
  BY <1>3, <1>4, <1>8, Last64
<1>9. CASE k = 5
  BY <1>3, <1>4, <1>9, AreaAddress64
<1>10. CASE k = 6
  BY <1>3, <1>4, <1>10, AreaArgument64
<1>11. CASE k \in 7..6 + m
  <2>1. PICK i : i = k - 6
    OBVIOUS
  <2>2. i \in 1..m /\ k = 6 + i /\ 6 + i + 1 \in 1..20 + m
    BY <1>a, <1>11, <2>1
  <2>3. i - 1 \in shape.retPtrs
    <3>1. \A q \in 1..m : q - 1 \notin shape.retPtrs => List64(shape)[6 + q] = <<>>
      BY <1>1 DEF Lists64
    <3> QED BY <1>0, <2>2, <3>1
  <2>4. To(6 + i + 1)
    BY <2>2, <2>3, Clear64
  <2> QED BY <1>3, <2>2, <2>4
<1>12. CASE k \in 7 + m..14 + m
  <2>1. PICK i : i = k - 6 - m
    OBVIOUS
  <2>2. i \in 1..8 /\ k = 6 + m + i /\ 6 + m + i + 1 \in 1..20 + m
    <3> HIDE DEF m
    <3>1. k \in Int /\ 7 + m <= k /\ k <= 14 + m
      BY <1>a, <1>12
    <3>2. i \in 1..8
      BY <1>a, <2>1, <3>1
    <3>3. k = 6 + m + i
      BY <1>a, <2>1, <3>1
    <3> QED BY <1>a, <3>2, <3>3
  <2>3. Running64(6 + m + i)
    BY <2>2
  <2>4. To(6 + m + i + 1)
    BY <2>2, <2>3, Shift64
  <2> QED BY <1>3, <2>2, <2>4
<1>13. CASE k = 15 + m
  BY <1>3, <1>4, <1>13, Index64
<1>14. CASE k = 16 + m
  BY <1>3, <1>4, <1>14, Address64
<1>15. CASE k = 18 + m
  BY <1>3, <1>4, <1>15, Unframe64
<1>16. CASE k = 19 + m
  BY <1>3, <1>4, <1>16, Pop64
<1> QED BY <1>2, <1>5, <1>6, <1>7, <1>8, <1>9, <1>10, <1>11, <1>12, <1>13, <1>14, <1>15, <1>16

\* A step of the trampoline.
LEMMA Stub64 ==
  ASSUME State64, phase = "stub", Next
  PROVE  State64'
<1> DEFINE m == shape.retWords
<1>1. arch = "amd64" /\ arch \in Arches /\ shape \in Shapes
  BY DEF State64
<1>2. PICK k : At64(k, shape, pc, reg, mem)
  BY DEF State64
<1>3. CASE AsyncPreempt
  BY <1>1, <1>2, <1>3, Preempt64 DEF State64
<1>4. CASE ~AsyncPreempt
  <2>1. k \in 1..20 + m /\ List64(shape)[k] # <<>> /\ Stands64(shape, k, pc, reg, mem)
    BY <1>2 DEF At64
  <2>2. Running64(k)
    <3>1. pc = Offset(List64(shape), k - 1)
      BY <2>1 DEF Stands64
    <3> QED BY <1>1, <1>4, <2>1, <3>1 DEF Running64, Next64
  <2>3. CASE k = 17 + m
    <3>1. /\ phase' = "dispatch" /\ arch' = arch /\ shape' = shape /\ target' = Num(Dispatch)
          /\ Calling64(shape, pc', reg', mem') /\ AreaBefore(shape, mem', 10 + shape.retWords)
      BY <2>2, <2>3, Call64
    <3> QED BY <1>1, <3>1 DEF State64
  <2>4. CASE k = 20 + m
    <3>1. /\ phase' = "returned" /\ arch' = arch /\ shape' = shape /\ target' = Caller
          /\ Done64(shape, pc', reg', mem')
      BY <2>2, <2>4, Return64
    <3> QED BY <1>1, <3>1 DEF State64
  <2>5. CASE k # 17 + m /\ k # 20 + m
    <3>1. Goes64
      <4>1. Ordinary64(shape, k)
        BY <2>1, <2>5 DEF Ordinary64
      <4> QED BY <1>1, <2>2, <4>1, Instruction64
    <3>2. arch' = arch /\ shape' = shape /\ phase' = phase
      BY <3>1 DEF Goes64, Advances
    <3>3. \E j : At64(j, shape, pc', reg', mem')
      <4>1. PICK j : j \in 1..20 + shape.retWords /\ Stands64(shape, j, pc', reg', mem')
        BY <3>1 DEF Goes64
      <4> QED BY <1>1, <4>1, Settle64
    <3> QED BY <1>1, <3>2, <3>3 DEF State64
  <2> QED BY <2>3, <2>4, <2>5
<1> QED BY <1>3, <1>4

\* Dispatch's results.
LEMMA Dispatching64 ==
  ASSUME State64, phase = "dispatch", Next
  PROVE  State64'
<1>1. DispatchStores
  BY DEF Next, Push, Pop, Add, Move, Set, Keep, Store, Clear, StorePair, LoadPair, Call, Return,
         Executes, DispatchReturns, AsyncPreempt, Finished
<1>2. /\ arch = "amd64" /\ arch \in Arches /\ shape \in Shapes
      /\ Calling64(shape, pc, reg, mem) /\ AreaBefore(shape, mem, 10 + shape.retWords)
  BY DEF State64
<1>3. /\ phase' = "stored" /\ arch' = arch /\ shape' = shape
      /\ Calling64(shape, pc', reg', mem') /\ AreaAfter(shape, mem')
  BY <1>1, <1>2, Stores64
<1> QED BY <1>2, <1>3 DEF State64

\* Dispatch's return.
LEMMA Returning64 ==
  ASSUME State64, phase = "stored", Next
  PROVE  State64'
<1> DEFINE m == shape.retWords
<1>1. DispatchReturns
  BY DEF Next, Push, Pop, Add, Move, Set, Keep, Store, Clear, StorePair, LoadPair, Call, Return,
         Executes, DispatchStores, AsyncPreempt, Finished
<1>2. /\ arch = "amd64" /\ arch \in Arches /\ shape \in Shapes
      /\ Calling64(shape, pc, reg, mem) /\ AreaAfter(shape, mem)
  BY DEF State64
<1>3. /\ phase' = "stub" /\ arch' = arch /\ shape' = shape
      /\ \A k : k = 18 + m => Stands64(shape, k, pc', reg', mem')
  BY <1>1, <1>2, Returns64
<1>4. 18 + m \in 1..20 + m
  BY <1>2, ShapeFacts
<1>5. \E j : At64(j, shape, pc', reg', mem')
  BY <1>2, <1>3, <1>4, Settle64
<1> QED BY <1>2, <1>3, <1>5 DEF State64

\* The caller's call.
LEMMA Init64 ==
  ASSUME Init, arch = "amd64"
  PROVE  State64
<1> DEFINE m == shape.retWords
           n == shape.argWords
<1>1. arch \in Arches /\ shape \in Shapes /\ phase = "stub" /\ pc = 0
  BY DEF Init
<1>2. M.sp = 4 /\ M.regs = 0..15
  BY MachineFacts
<1>3. /\ DOMAIN reg = 0..15 /\ reg[4] = Addr(0) /\ \A x \in 0..15 : x # 4 => reg[x] = In(x)
  BY <1>2 DEF Init
<1>4. /\ DOMAIN mem = Addresses(shape)
      /\ \A o \in Addresses(shape) : o = 0 => mem[o] = Caller
      /\ \A o \in Addresses(shape) : o > 0 =>
           /\ (o \div 8) - 1 >= n => mem[o] = Stale((o \div 8) - 1)
           /\ ~((o \div 8) - 1 >= n) /\ (o \div 8) - 1 \in shape.argPtrs =>
                mem[o] = Pointer((o \div 8) - 1)
           /\ ~((o \div 8) - 1 >= n) /\ (o \div 8) - 1 \notin shape.argPtrs =>
                mem[o] = Data((o \div 8) - 1)
  <2>1. mem = [o \in Addresses(shape) |->
              IF o < 0 THEN Junk
              ELSE IF o = 0 THEN (IF arch = "amd64" THEN Caller ELSE Junk)
              ELSE LET i == o \div 8 - 1 IN
                   IF i >= shape.argWords THEN Stale(i)
                   ELSE IF i \in shape.argPtrs THEN Pointer(i) ELSE Data(i)]
    BY DEF Init
  <2>2. \A o \in Addresses(shape) : o \in Int
    BY <1>1, ShapeFacts DEF Addresses, Words
  <2> QED BY <2>1, <2>2
<1>5. /\ n \in Nat /\ m \in Nat /\ Words(shape) = n + m
      /\ \A i \in shape.retPtrs : i \in Nat
  BY <1>1, ShapeFacts DEF Words
<1>6. Held64(shape, reg, mem, 1)
  <2>1. mem[0] = Caller
    BY <1>1, <1>4, AddressesFacts
  <2> QED BY <1>3, <1>4, <2>1 DEF Held64
<1>7. Ints64(shape, reg, 1)
  <2>1. SUFFICES ASSUME NEW t \in 2..9
                 PROVE  /\ 1 >= 17 + m - t => reg[Int64(t)] = In(Int64(t - 1))
                        /\ 1 < 17 + m - t => reg[Int64(t)] = In(Int64(t))
    BY DEF Ints64
  <2>a. m \in Nat
    BY <1>5
  <2>2. ~(1 >= 17 + m - t)
    BY <2>a
  <2>3. Int64(t) \in 0..15 /\ Int64(t) # 4
    <3>1. t \in 1..9
      OBVIOUS
    <3>2. Int64(t) \in 0..11 /\ Int64(t) # 4
      BY <3>1, Int64Facts
    <3> QED BY <3>2
  <2> QED BY <1>3, <2>2, <2>3
<1>8. Prepared64(shape, reg, mem, 1)
  <2>1. ~(1 >= 16 + m) /\ ~(1 >= 17 + m) /\ 1 <= 15 + m
    BY <1>5
  <2>2. reg[0] = In(0)
    BY <1>3
  <2> QED BY <2>1, <2>2 DEF Prepared64
<1>9. AreaBefore(shape, mem, 1 - 7)
  <2>1. SUFFICES ASSUME NEW i \in 0..Words(shape) - 1
                 PROVE  /\ (i < n /\ i \in shape.argPtrs) => mem[Area(i)] = Pointer(i)
                        /\ (i < n /\ i \notin shape.argPtrs) => mem[Area(i)] = Data(i)
                        /\ ~(i >= n /\ i - n \in shape.retPtrs /\ i - n < 1 - 7)
                        /\ i >= n => mem[Area(i)] = Stale(i)
    BY DEF AreaBefore
  <2>2. /\ Area(i) \in Addresses(shape) /\ Area(i) > 0 /\ (Area(i) \div 8) - 1 = i
    <3>1. Area(i) \in Addresses(shape) /\ Area(i) \in Nat /\ Area(i) >= 8
      BY <1>1, AddressesFacts
    <3> QED BY <1>5, <3>1 DEF Area
  <2>3. /\ i >= n => mem[Area(i)] = Stale(i)
        /\ ~(i >= n) /\ i \in shape.argPtrs => mem[Area(i)] = Pointer(i)
        /\ ~(i >= n) /\ i \notin shape.argPtrs => mem[Area(i)] = Data(i)
    BY <1>4, <2>2
  <2>4. (i < n <=> ~(i >= n)) /\ ~(i >= n /\ i - n < 1 - 7)
    BY <1>5
  <2> QED BY <2>3, <2>4
<1>10. ASSUME NEW k, k = 1 PROVE Stands64(shape, k, pc, reg, mem)
  <2>1. /\ k <= 17 + m /\ ~(k >= 18 + m) /\ k - 1 = 0
    BY <1>5, <1>10
  <2>2. pc = Offset(List64(shape), k - 1)
    <3>1. Lists64(shape, List64(shape), m)
      BY <1>1, Listing64
    <3> QED BY <1>1, <2>1, <3>1, Offsets64
  <2>3. Depth64(m, k) = 0
    BY <1>10 DEF Depth64
  <2> QED BY <1>3, <1>6, <1>7, <1>8, <1>9, <1>10, <2>1, <2>2, <2>3 DEF Stands64
<1>11. \E j : At64(j, shape, pc, reg, mem)
  <2>1. 1 \in 1..20 + m
    BY <1>5
  <2> QED BY <1>1, <1>10, <2>1, Settle64
<1> QED BY <1>1, <1>11 DEF State64

\* Every step keeps it.
LEMMA Inductive64 ==
  ASSUME State64, [Next]_vars
  PROVE  State64'
<1>1. CASE UNCHANGED vars
  BY <1>1 DEF State64, vars
<1>2. CASE Next
  <2>1. phase \in {"stub", "dispatch", "stored", "returned"}
    BY DEF State64
  <2>2. CASE phase = "returned"
    <3>1. Finished
      BY <1>2, <2>2 DEF Next, Push, Pop, Add, Move, Set, Keep, Store, Clear, StorePair, LoadPair,
         Call, Return, Executes, DispatchStores, DispatchReturns, AsyncPreempt
    <3> QED BY <3>1 DEF Finished, State64, vars
  <2> QED BY <1>2, <2>1, <2>2, Stub64, Dispatching64, Returning64
<1> QED BY <1>1, <1>2

-----------------------------------------------------------------------------
(* amd64: the stack pointer table, at each instruction of the listing *)

\* The prologue's length, which the table's second entry is up to.
LEMMA Prologue64 == PrologueLen("amd64") = 11
<1> DEFINE a == A64!Push(5)
           b == A64!Mov(5, 4)
           c == A64!SubSP(208)
           s == <<a, b, c>>
<1>1. A64!Prologue = s
  BY DEF A64!Prologue, A64!BP, A64!SP, A64!FrameSize
<1>2. a \in ByteSeq /\ Len(a) = 1
  BY OneByteForms DEF Means64, A64!Ins
<1>3. b \in ByteSeq /\ Len(b) = 3
  <2>1. Means64(A64!Mov(5, 4), A64!Ins("move", 5, 4, 0, A64!NoImm, 3))
    BY MovForm64
  <2> QED BY <2>1 DEF Means64, A64!Ins
<1>4. c \in ByteSeq /\ Len(c) = 7
  BY FrameForms64 DEF Means64, A64!Ins
<1> HIDE DEF a, b, c
<1>5. s \in Seq(ByteSeq) /\ Len(s) = 3 /\ s[1] = a /\ s[2] = b /\ s[3] = c
  BY <1>2, <1>3, <1>4
<1> HIDE DEF s
<1>6. s \in Seq(Seq(Byte)) /\ s # <<>>
  BY <1>5 DEF ByteSeq
<1>7. Len(FlattenSeq(s)) = Offset(s, 3)
  BY <1>5, <1>6, FlattenFacts
<1>8. /\ Offset(s, 0) = 0 /\ \A k \in 1..3 : Offset(s, k) = Offset(s, k - 1) + Len(s[k])
  BY <1>5, <1>6, OffsetFacts
<1>9. Offset(s, 1) = 1 /\ Offset(s, 2) = 4 /\ Offset(s, 3) = 11
  <2>1. Offset(s, 1) = Offset(s, 1 - 1) + Len(s[1])
    BY <1>8
  <2>2. Offset(s, 2) = Offset(s, 2 - 1) + Len(s[2])
    BY <1>8
  <2>3. Offset(s, 3) = Offset(s, 3 - 1) + Len(s[3])
    BY <1>8
  <2>4. 1 - 1 = 0 /\ 2 - 1 = 1 /\ 3 - 1 = 2
    OBVIOUS
  <2>5. Len(s[1]) = 1 /\ Len(s[2]) = 3 /\ Len(s[3]) = 7
    BY <1>2, <1>3, <1>4, <1>5
  <2>6. Offset(s, 1) = 0 + 1
    BY <1>8, <2>1, <2>4, <2>5
  <2>7. Offset(s, 2) = 1 + 3
    BY <2>2, <2>4, <2>5, <2>6
  <2> QED BY <2>3, <2>4, <2>5, <2>6, <2>7
<1> QED BY <1>1, <1>7, <1>9 DEF PrologueLen, CodeLen, StubCode

\* where the instructions of the prologue, the call and the epilogue are
Lengths64(L, m, len) ==
  /\ len = Offset(L, 20 + m) /\ len \in Nat /\ len <= 15 * (20 + m)
  /\ Offset(L, 0) = 0 /\ Offset(L, 1) = 1 /\ Offset(L, 2) = 4 /\ Offset(L, 3) = 11
  /\ Offset(L, 18 + m) = len - 2 /\ Offset(L, 19 + m) = len - 1
  /\ 11 <= Offset(L, 17 + m) /\ Offset(L, 17 + m) < len - 2
  /\ \A k \in 0..20 + m : Offset(L, k) \in Nat
  /\ \A k \in 3..18 + m : 11 <= Offset(L, k) /\ Offset(L, k) <= len - 2
  /\ \A k \in 1..20 + m : L[k] # <<>> => Offset(L, k - 1) < Offset(L, k)

\* The prologue is eleven bytes and the epilogue ends with two of one byte.
LEMMA LengthsFacts64 ==
  ASSUME NEW sh \in Shapes, NEW L, L = List64(sh), NEW m, m = sh.retWords
  PROVE  Lengths64(L, m, CodeLen("amd64", Code("amd64", sh)))
<1> DEFINE len == CodeLen("amd64", Code("amd64", sh))
<1>1. Lists64(sh, L, m) /\ m \in Nat
  BY Listing64, ShapeFacts
<1>a. m \in Nat
  BY <1>1
<1>2. L \in Seq(Seq(Byte)) /\ Len(L) = 20 + m /\ \A k \in 1..20 + m : Len(L[k]) <= 15
  BY <1>1 DEF Lists64, ByteSeq
<1>3. L # <<>>
  BY <1>a, <1>2
<1>4. Code("amd64", sh) = FlattenSeq(L)
  BY DEF Code, StubCode, List64
<1>5. len = Offset(L, 20 + m)
  BY <1>2, <1>3, <1>4, FlattenFacts DEF CodeLen
<1>6. /\ Offset(L, 0) = 0 /\ \A k \in 0..20 + m : Offset(L, k) \in Nat
      /\ \A k \in 1..20 + m : Offset(L, k) = Offset(L, k - 1) + Len(L[k])
  BY <1>1, Offsets64
<1>7. /\ \A k \in 0..20 + m : Offset(L, k) <= 15 * k
      /\ \A k \in 0..20 + m : \A j \in 0..k : Offset(L, j) <= Offset(L, k)
  <2>1. \A k \in 1..Len(L) : Len(L[k]) <= 15
    BY <1>2
  <2>2. 15 \in {1, 15}
    OBVIOUS
  <2> QED BY <1>2, <2>1, <2>2, OffsetBound
<1> HIDE DEF len
<1>8. Len(L[1]) = 1 /\ Len(L[2]) = 3 /\ Len(L[3]) = 7 /\ Len(L[19 + m]) = 1 /\ Len(L[20 + m]) = 1
  BY <1>1 DEF Lists64
<1>9. Offset(L, 1) = 1 /\ Offset(L, 2) = 4 /\ Offset(L, 3) = 11
  <2>0. 1 \in 1..20 + m /\ 2 \in 1..20 + m /\ 3 \in 1..20 + m
    BY <1>a
  <2>1. Offset(L, 1) = Offset(L, 1 - 1) + Len(L[1])
    BY <1>6, <2>0
  <2>2. Offset(L, 2) = Offset(L, 2 - 1) + Len(L[2])
    BY <1>6, <2>0
  <2>3. Offset(L, 3) = Offset(L, 3 - 1) + Len(L[3])
    BY <1>6, <2>0
  <2> QED BY <1>6, <1>8, <2>1, <2>2, <2>3
<1>10. len \in Nat /\ len <= 15 * (20 + m)
  <2>1. 20 + m \in 0..20 + m
    BY <1>a
  <2> QED BY <1>5, <1>6, <1>7, <2>1
<1>11. Offset(L, 18 + m) = len - 2 /\ Offset(L, 19 + m) = len - 1
  <2>0. /\ 19 + m \in 1..20 + m /\ 20 + m \in 1..20 + m /\ (19 + m) - 1 = 18 + m /\ (20 + m) - 1 = 19 + m
        /\ 18 + m \in 0..20 + m /\ 19 + m \in 0..20 + m
    BY <1>a
  <2>1. Offset(L, 19 + m) = Offset(L, 18 + m) + 1
    BY <1>6, <1>8, <2>0
  <2>2. Offset(L, 20 + m) = Offset(L, 19 + m) + 1
    BY <1>6, <1>8, <2>0
  <2>3. Offset(L, 18 + m) \in Nat /\ Offset(L, 19 + m) \in Nat
    BY <1>6, <2>0
  <2> QED BY <1>5, <2>1, <2>2, <2>3
<1>12. \A k \in 3..18 + m : 11 <= Offset(L, k) /\ Offset(L, k) <= len - 2
  <2> SUFFICES ASSUME NEW k \in 3..18 + m PROVE 11 <= Offset(L, k) /\ Offset(L, k) <= len - 2
    OBVIOUS
  <2>1. k \in 0..20 + m /\ 18 + m \in 0..20 + m /\ k \in 0..18 + m /\ 3 \in 0..k
    BY <1>a
  <2>2. Offset(L, 3) <= Offset(L, k) /\ Offset(L, k) <= Offset(L, 18 + m)
    BY <1>7, <2>1
  <2> QED BY <1>9, <1>11, <2>2
<1>13. \A k \in 1..20 + m : L[k] # <<>> => Offset(L, k - 1) < Offset(L, k)
  <2> SUFFICES ASSUME NEW k \in 1..20 + m, L[k] # <<>> PROVE Offset(L, k - 1) < Offset(L, k)
    OBVIOUS
  <2>1. L[k] \in Seq(Byte)
    BY <1>2
  <2>2. Len(L[k]) \in Nat /\ Len(L[k]) # 0
    BY <2>1, LenProperties, EmptySeq
  <2>3. k - 1 \in 0..20 + m
    BY <1>a
  <2> QED BY <1>6, <2>2, <2>3
<1>14. 11 <= Offset(L, 17 + m) /\ Offset(L, 17 + m) < len - 2
  <2>1. 17 + m \in 3..18 + m /\ 18 + m \in 1..20 + m /\ (18 + m) - 1 = 17 + m /\ 18 + m \notin 7..6 + m
    BY <1>a
  <2>2. L[18 + m] # <<>>
    BY <1>1, <2>1 DEF Lists64
  <2>3. Offset(L, 17 + m) < Offset(L, 18 + m)
    BY <1>13, <2>1, <2>2
  <2> QED BY <1>11, <1>12, <2>1, <2>3
<1> QED BY <1>5, <1>6, <1>9, <1>10, <1>11, <1>12, <1>13, <1>14 DEF Lengths64, len

\* A number of 16 bits has no more than 35.
LEMMA HalfWide ==
  ASSUME NEW n \in Half
  PROVE  n \in Groupable
BY SMT DEF Half, Groupable

\* Five entries with bounds that ascend and these deltas make a table.
LEMMA Entries64 ==
  ASSUME NEW len \in Nat, len < 65536, len > 13
  PROVE  /\ Tabulated(A64!Entries(PrologueLen("amd64"), len)) /\ Len(A64!Entries(PrologueLen("amd64"), len)) = 5
         /\ A64!Entries(PrologueLen("amd64"), len)[1] = [pc |-> 1, spdelta |-> 0]
         /\ A64!Entries(PrologueLen("amd64"), len)[2] = [pc |-> 11, spdelta |-> 8]
         /\ A64!Entries(PrologueLen("amd64"), len)[3] = [pc |-> len - 2, spdelta |-> 216]
         /\ A64!Entries(PrologueLen("amd64"), len)[4] = [pc |-> len - 1, spdelta |-> 8]
         /\ A64!Entries(PrologueLen("amd64"), len)[5] = [pc |-> len, spdelta |-> 0]
<1> DEFINE E == A64!Entries(PrologueLen("amd64"), len)
<1>1. E = <<[pc |-> 1, spdelta |-> 0], [pc |-> 11, spdelta |-> 8], [pc |-> len - 2, spdelta |-> 216],
            [pc |-> len - 1, spdelta |-> 8], [pc |-> len, spdelta |-> 0]>>
  <2>1. A64!SPDelta = 216
    BY DEF A64!SPDelta, A64!FrameSize
  <2>2. E = <<[pc |-> 1, spdelta |-> 0],
              [pc |-> PrologueLen("amd64"), spdelta |-> 8],
              [pc |-> len - 2, spdelta |-> A64!SPDelta],
              [pc |-> len - 1, spdelta |-> 8], [pc |-> len, spdelta |-> 0]>>
    BY DEF A64!Entries
  <2> QED BY <2>1, <2>2, Prologue64
<1>2. /\ E \in Seq([pc : Nat, spdelta : Int]) /\ Len(E) = 5
      /\ E[1] = [pc |-> 1, spdelta |-> 0] /\ E[2] = [pc |-> 11, spdelta |-> 8]
      /\ E[3] = [pc |-> len - 2, spdelta |-> 216] /\ E[4] = [pc |-> len - 1, spdelta |-> 8]
      /\ E[5] = [pc |-> len, spdelta |-> 0]
  <2>1. len - 2 \in Nat /\ len - 1 \in Nat
    OBVIOUS
  <2> DEFINE r == [pc : Nat, spdelta : Int]
             a == [pc |-> 1, spdelta |-> 0]
             b == [pc |-> 11, spdelta |-> 8]
             c == [pc |-> len - 2, spdelta |-> 216]
             d == [pc |-> len - 1, spdelta |-> 8]
             e == [pc |-> len, spdelta |-> 0]
  <2>2. a \in r /\ b \in r /\ c \in r /\ d \in r /\ e \in r
    BY <2>1
  <2>3. E = <<a, b, c, d, e>>
    BY <1>1
  <2> HIDE DEF E, r, a, b, c, d, e
  <2>4. E \in Seq(r) /\ Len(E) = 5 /\ E[1] = a /\ E[2] = b /\ E[3] = c /\ E[4] = d /\ E[5] = e
    BY <2>2, <2>3
  <2> QED BY <2>4 DEF r, a, b, c, d, e
<1> HIDE DEF E
<1>3. /\ UpTo(E, 0) = 0 /\ UpTo(E, 1) = 1 /\ UpTo(E, 2) = 11 /\ UpTo(E, 3) = len - 2
      /\ UpTo(E, 4) = len - 1 /\ UpTo(E, 5) = len
      /\ Value(E, 0) = -1 /\ Value(E, 1) = 0 /\ Value(E, 2) = 8 /\ Value(E, 3) = 216
      /\ Value(E, 4) = 8 /\ Value(E, 5) = 0
  BY <1>2 DEF UpTo, Value
<1> DEFINE Fine(i, j) == /\ UpTo(E, j) < UpTo(E, i) /\ UpTo(E, i) - UpTo(E, j) \in Half
                         /\ PCTab!ZigZag(Value(E, i) - Value(E, j)) \in Half
                         /\ (i # 1 => Value(E, i) # Value(E, j))
<1>4. Fine(1, 0)
  BY <1>3 DEF Half, PCTab!ZigZag
<1>5. Fine(2, 1)
  BY <1>3 DEF Half, PCTab!ZigZag
<1>6. Fine(3, 2)
  BY <1>3 DEF Half, PCTab!ZigZag
<1>7. Fine(4, 3)
  BY <1>3 DEF Half, PCTab!ZigZag
<1>8. Fine(5, 4)
  BY <1>3 DEF Half, PCTab!ZigZag
<1>9. \A i \in 1..5 : Fine(i, i - 1)
  <2> SUFFICES ASSUME NEW i \in 1..5 PROVE Fine(i, i - 1)
    OBVIOUS
  <2>1. \/ (i = 1 /\ i - 1 = 0) \/ (i = 2 /\ i - 1 = 1) \/ (i = 3 /\ i - 1 = 2)
        \/ (i = 4 /\ i - 1 = 3) \/ (i = 5 /\ i - 1 = 4)
    OBVIOUS
  <2> HIDE DEF Fine
  <2> QED BY <1>4, <1>5, <1>6, <1>7, <1>8, <2>1
<1>10. E # <<>>
  <2>1. Len(E) # 0
    BY <1>2
  <2>2. PICK r : E \in Seq(r)
    BY <1>2
  <2> QED BY <2>1, <2>2, EmptySeq
<1>11. Tabulated(E)
  <2>1. \A i \in 1..5 : /\ UpTo(E, i - 1) < UpTo(E, i) /\ PCCode(E, i) \in Groupable
                        /\ ValueCode(E, i) \in Groupable /\ (i # 1 => Value(E, i) # Value(E, i - 1))
    BY <1>9, HalfWide DEF PCCode, ValueCode
  <2> QED BY <1>2, <1>10, <2>1 DEF Tabulated
<1> QED BY <1>2, <1>11 DEF E

\* the table's value for a shape at p
Delta64(sh, p) == PCTab!ReadPCValue(PCSP("amd64", CodeLen("amd64", Code("amd64", sh))), 1, p)

\* At every instruction that is emitted, and where Dispatch returns to, the runtime reads how
\* far the stack pointer is from where it was.
LEMMA DeltaFacts64 ==
  ASSUME NEW sh \in Shapes, NEW m, m = sh.retWords
  PROVE  /\ \A k \in 1..20 + m : List64(sh)[k] # <<>> =>
              Delta64(sh, Offset(List64(sh), k - 1)) = 0 - Depth64(m, k)
         /\ Delta64(sh, Offset(List64(sh), 17 + m)) = 216
<1> DEFINE L == List64(sh)
           len == CodeLen("amd64", Code("amd64", sh))
           E == A64!Entries(PrologueLen("amd64"), len)
<1>1. Lengths64(L, m, len)
  BY LengthsFacts64
<1>2. m \in Nat /\ m <= 60 /\ Lists64(sh, L, m)
  BY ShapeFacts, Listing64
<1>3. len \in Nat /\ len < 65536 /\ len > 13
  <2> HIDE DEF L, len
  <2>1. len \in Nat /\ len <= 15 * (20 + m)
    BY <1>1 DEF Lengths64
  <2>2. 11 <= Offset(L, 17 + m) /\ Offset(L, 17 + m) < len - 2 /\ Offset(L, 17 + m) \in Nat
    <3>1. 17 + m \in 0..20 + m
      BY <1>2
    <3> QED BY <1>1, <3>1 DEF Lengths64
  <2> QED BY <1>2, <2>1, <2>2
<1>4. /\ Tabulated(E) /\ Len(E) = 5
      /\ UpTo(E, 0) = 0 /\ UpTo(E, 1) = 1 /\ UpTo(E, 2) = 11 /\ UpTo(E, 3) = len - 2
      /\ UpTo(E, 4) = len - 1 /\ UpTo(E, 5) = len
      /\ E[1].spdelta = 0 /\ E[2].spdelta = 8 /\ E[3].spdelta = 216
      /\ E[4].spdelta = 8 /\ E[5].spdelta = 0
  <2> HIDE DEF len
  <2>1. /\ Tabulated(E) /\ Len(E) = 5
        /\ E[1] = [pc |-> 1, spdelta |-> 0] /\ E[2] = [pc |-> 11, spdelta |-> 8]
        /\ E[3] = [pc |-> len - 2, spdelta |-> 216] /\ E[4] = [pc |-> len - 1, spdelta |-> 8]
        /\ E[5] = [pc |-> len, spdelta |-> 0]
    BY <1>3, Entries64
  <2> HIDE DEF E
  <2> QED BY <2>1 DEF UpTo
<1>5. \A p : Delta64(sh, p) = PCTab!ReadPCValue(EncodePCSP(E), 1, p)
  BY DEF Delta64, PCSP
<1>6. ASSUME NEW p \in Nat, NEW i \in 1..5, NEW j, j = i - 1, UpTo(E, j) <= p, p < UpTo(E, i)
      PROVE  Delta64(sh, p) = E[i].spdelta
  <2> HIDE DEF E
  <2>a. UpTo(E, i - 1) <= p
    BY <1>6
  <2>b. UpTo(E, i - 1) \in Int /\ UpTo(E, i) \in Int
    <3>1. \/ (i = 1 /\ i - 1 = 0) \/ (i = 2 /\ i - 1 = 1) \/ (i = 3 /\ i - 1 = 2)
          \/ (i = 4 /\ i - 1 = 3) \/ (i = 5 /\ i - 1 = 4)
      OBVIOUS
    <3> HIDE DEF len
    <3> QED BY <1>3, <1>4, <3>1
  <2>c. UpTo(E, i - 1) * 1 = UpTo(E, i - 1) /\ UpTo(E, i) * 1 = UpTo(E, i)
    BY <2>b
  <2>1. InRange(E, 1, i, p)
    BY <1>4, <1>6, <2>a, <2>c DEF InRange
  <2> QED BY <1>4, <1>5, <2>1, TableRoundTrip
<1> HIDE DEF len, E
<1>7. ASSUME NEW k \in 1..20 + m, L[k] # <<>>
      PROVE  Delta64(sh, Offset(L, k - 1)) = 0 - Depth64(m, k)
  <2> DEFINE p == Offset(L, k - 1)
  <2>1. p \in Nat /\ p < Offset(L, k)
    <3>1. k - 1 \in 0..20 + m
      BY <1>2
    <3> HIDE DEF L
    <3> QED BY <1>1, <1>7, <3>1 DEF Lengths64
  <2>a. m \in Nat
    BY <1>2
  <2>2. \/ (k = 1 /\ k - 1 = 0) \/ (k = 2 /\ k - 1 = 1) \/ (k = 3 /\ k - 1 = 2)
        \/ k \in 4..18 + m
        \/ (k = 19 + m /\ k - 1 = 18 + m) \/ (k = 20 + m /\ k - 1 = 19 + m)
    BY <2>a
  <2>3. /\ Depth64(m, 1) = 0 /\ Depth64(m, 2) = -8 /\ Depth64(m, 3) = -8
        /\ \A j \in 4..18 + m : Depth64(m, j) = -216
        /\ Depth64(m, 19 + m) = -8 /\ Depth64(m, 20 + m) = 0
    BY <1>2, Depths64
  <2>4. /\ Offset(L, 0) = 0 /\ Offset(L, 1) = 1 /\ Offset(L, 2) = 4 /\ Offset(L, 3) = 11
        /\ Offset(L, 18 + m) = len - 2 /\ Offset(L, 19 + m) = len - 1 /\ Offset(L, 20 + m) = len
        /\ \A j \in 3..18 + m : 11 <= Offset(L, j) /\ Offset(L, j) <= len - 2
    BY <1>1 DEF Lengths64
  <2>5. CASE k = 1
    <3>1. p = 0
      BY <2>4, <2>5
    <3>2. Delta64(sh, p) = E[1].spdelta
      BY <1>4, <1>6, <3>1
    <3> QED BY <1>4, <2>3, <2>5, <3>2
  <2>6. CASE k = 2 \/ k = 3
    <3>1. p = 1 \/ p = 4
      BY <2>4, <2>6
    <3>2. Delta64(sh, p) = E[2].spdelta
      BY <1>4, <1>6, <3>1
    <3>3. Depth64(m, k) = -8
      BY <2>3, <2>6
    <3>4. 0 - (-8) = 8
      OBVIOUS
    <3> QED BY <1>4, <3>2, <3>3, <3>4
  <2>7. CASE k \in 4..18 + m
    <3>0. k - 1 \in 3..18 + m /\ k \in 3..18 + m
      BY <1>2, <2>7
    <3>1. 11 <= p /\ p < len - 2
      <4>1. 11 <= p /\ Offset(L, k) <= len - 2 /\ Offset(L, k) \in Int
        <5>1. k \in 0..20 + m
          BY <1>2
        <5> HIDE DEF L
        <5> QED BY <1>1, <2>4, <3>0, <5>1 DEF Lengths64
      <4> HIDE DEF p
      <4> QED BY <1>3, <2>1, <4>1
    <3>2. Delta64(sh, p) = E[3].spdelta
      <4> HIDE DEF p
      <4> QED BY <1>4, <1>6, <2>1, <3>1
    <3>3. Depth64(m, k) = -216
      BY <2>3, <2>7
    <3>4. 0 - (-216) = 216
      OBVIOUS
    <3> QED BY <1>4, <3>2, <3>3, <3>4
  <2>8. CASE k = 19 + m
    <3>1. p = len - 2
      BY <2>2, <2>4, <2>8, <1>2
    <3>2. Delta64(sh, p) = E[4].spdelta
      <4> HIDE DEF p
      <4>1. p < len - 1
        BY <1>3, <3>1
      <4> QED BY <1>4, <1>6, <2>1, <3>1, <4>1
    <3>3. Depth64(m, k) = -8
      BY <2>3, <2>8
    <3>4. 0 - (-8) = 8
      OBVIOUS
    <3> QED BY <1>4, <3>2, <3>3, <3>4
  <2>9. CASE k = 20 + m
    <3>1. p = len - 1
      BY <2>2, <2>4, <2>9, <1>2
    <3>2. Delta64(sh, p) = E[5].spdelta
      <4> HIDE DEF p
      <4>1. p < len
        BY <1>3, <3>1
      <4> QED BY <1>4, <1>6, <2>1, <3>1, <4>1
    <3>3. Depth64(m, k) = 0
      BY <2>3, <2>9
    <3> QED BY <1>4, <3>2, <3>3
  <2> QED BY <2>2, <2>5, <2>6, <2>7, <2>8, <2>9
<1>8. Delta64(sh, Offset(L, 17 + m)) = 216
  <2> DEFINE p == Offset(L, 17 + m)
  <2>1. p \in Nat /\ 11 <= p /\ p < len - 2
    <3>1. 17 + m \in 0..20 + m
      BY <1>2
    <3> HIDE DEF L
    <3> QED BY <1>1, <3>1 DEF Lengths64
  <2> HIDE DEF p
  <2>2. Delta64(sh, p) = E[3].spdelta
    BY <1>4, <1>6, <2>1
  <2> QED BY <1>4, <2>2 DEF p
<1> QED BY <1>7, <1>8 DEF L

-----------------------------------------------------------------------------
(* amd64: what the invariant says of the properties *)

\* the k-th instruction is one of the processor's
Defined(L, k) == \E op, a, b, n, imm : Lists(L, k, op, a, b, n, imm) /\ op # "undefined"

\* Every instruction that is emitted is one of the processor's.
LEMMA Defined64 ==
  ASSUME NEW sh, NEW L, NEW m, Lists64(sh, L, m), NEW k \in 1..20 + m, L[k] # <<>>
  PROVE  Defined(L, k)
<1>a. m \in Nat
  BY DEF Lists64
<1>2. \/ k = 1 \/ k = 2 \/ k = 3 \/ k = 4 \/ k = 5 \/ k = 6 \/ k \in 7..6 + m
      \/ k \in 7 + m..14 + m \/ k = 15 + m \/ k = 16 + m \/ k = 17 + m \/ k = 18 + m
      \/ k = 19 + m \/ k = 20 + m
  BY <1>a, Positions64
<1>3. ASSUME NEW j, j = k, NEW op, NEW a, NEW b, NEW n, NEW imm,
             Lists(L, j, op, a, b, n, imm), op # "undefined"
      PROVE  Defined(L, k)
  BY <1>3 DEF Defined
<1>4. CASE k = 1 \/ k = 2 \/ k = 3 \/ k = 4 \/ k = 5 \/ k = 6
  <2>1. Lists(L, 1, "push", 5, 0, 0, A64!NoImm)
    BY Listed64
  <2>3. Lists(L, 2, "move", 5, 4, 0, A64!NoImm)
    BY Listed64
  <2>4. Lists(L, 3, "add", 4, 4, -208, A64!NoImm)
    BY Listed64
  <2>5. Lists(L, 4, "store", 11, 4, 0, A64!NoImm)
    BY Listed64
  <2>6. Lists(L, 5, "add", 2, 4, 224, A64!NoImm)
    BY Listed64
  <2>7. Lists(L, 6, "store", 2, 4, 8, A64!NoImm)
    BY Listed64
  <2>2. Defined(L, 1) /\ Defined(L, 2) /\ Defined(L, 3) /\ Defined(L, 4) /\ Defined(L, 5) /\ Defined(L, 6)
    BY <2>1, <2>3, <2>4, <2>5, <2>6, <2>7 DEF Defined
  <2> QED BY <1>4, <2>2
<1>5. CASE k \in 7..6 + m
  <2>1. PICK i : i = k - 6
    OBVIOUS
  <2>2. i \in 1..m /\ k = 6 + i
    BY <1>a, <1>5, <2>1
  <2>3. i - 1 \in sh.retPtrs
    <3>1. \A q \in 1..m : q - 1 \notin sh.retPtrs => L[6 + q] = <<>>
      BY DEF Lists64
    <3> QED BY <2>2, <3>1
  <2>4. Lists(L, 6 + i, "clear", 0, 2, 8 * (sh.argWords + i - 1), A64!NoImm)
    BY <2>2, <2>3, Listed64
  <2> QED BY <1>3, <2>2, <2>4
<1>6. CASE k \in 7 + m..14 + m
  <2>1. PICK i : i = k - 6 - m
    OBVIOUS
  <2>2. i \in 1..8 /\ k = 6 + m + i
    <3>1. k \in Int /\ 7 + m <= k /\ k <= 14 + m
      BY <1>a, <1>6
    <3> QED BY <1>a, <2>1, <3>1
  <2>3. Lists(L, 6 + m + i, "move", Int64(10 - i), Int64(9 - i), 0, A64!NoImm)
    BY <2>2, Listed64
  <2> QED BY <1>3, <2>2, <2>3
<1>7. CASE k = 15 + m \/ k = 16 + m \/ k = 17 + m \/ k = 18 + m \/ k = 19 + m \/ k = 20 + m
  <2>1. /\ Lists(L, 15 + m, "set", 0, 0, 0, <<sh.index, 0, 0, 0>>)
        /\ Lists(L, 16 + m, "set", 12, 0, 0, Dispatch)
        /\ Lists(L, 17 + m, "call", 12, 0, 0, A64!NoImm)
        /\ Lists(L, 18 + m, "add", 4, 4, 208, A64!NoImm)
        /\ Lists(L, 19 + m, "pop", 5, 0, 0, A64!NoImm)
        /\ Lists(L, 20 + m, "ret", 0, 0, 0, A64!NoImm)
    BY Listed64
  <2>2. /\ Defined(L, 15 + m) /\ Defined(L, 16 + m) /\ Defined(L, 17 + m) /\ Defined(L, 18 + m)
        /\ Defined(L, 19 + m) /\ Defined(L, 20 + m)
    BY <2>1 DEF Defined
  <2> QED BY <1>7, <2>2
<1> QED BY <1>2, <1>4, <1>5, <1>6, <1>7

\* Where the stack pointer is.
LEMMA StackPointer64 ==
  ASSUME State64
  PROVE  /\ \A k : At64(k, shape, pc, reg, mem) => SP = Depth64(shape.retWords, k)
         /\ InDispatch => SP = -224 /\ CallSP = -216
<1>1. arch = "amd64" /\ M.sp = 4
  BY MachineFacts DEF State64
<1>2. ASSUME NEW k, At64(k, shape, pc, reg, mem) PROVE SP = Depth64(shape.retWords, k)
  <2>1. reg[4] = Addr(Depth64(shape.retWords, k))
    BY <1>2 DEF At64, Stands64
  <2> QED BY <1>1, <2>1, AddressFacts DEF SP
<1>3. ASSUME InDispatch PROVE SP = -224 /\ CallSP = -216
  <2>1. reg[4] = Addr(-224)
    BY <1>3 DEF State64, InDispatch, Calling64
  <2>2. SP = -224
    BY <1>1, <2>1, AddressFacts DEF SP
  <2> QED BY <1>1, <2>2 DEF CallSP
<1> QED BY <1>2, <1>3

\* amd64: the stack pointer, the program counter and the next instruction.
LEMMA TypeOK64 ==
  ASSUME State64
  PROVE  TypeOK
<1> DEFINE m == shape.retWords
           L == List64(shape)
<1>1. /\ arch = "amd64" /\ arch \in Arches /\ shape \in Shapes
      /\ phase \in {"stub", "dispatch", "stored", "returned"}
  BY DEF State64
<1>2. m \in Nat /\ Lists64(shape, L, m) /\ Lengths64(L, m, Stub.len)
  <2>1. Stub.len = CodeLen("amd64", Code("amd64", shape))
    BY <1>1, StubFacts
  <2> QED BY <1>1, <2>1, Listing64, ShapeFacts, LengthsFacts64
<1>3. M.sp = 4 /\ M.regs = 0..15
  BY <1>1, MachineFacts
<1> DEFINE Goal(s) ==
                   /\ reg[4] = Addr(s) /\ (phase # "returned" => s \in DOMAIN mem)
                   /\ pc \in 0..Stub.len - 1 /\ (phase = "stub" => I.op # "undefined")
                   /\ DOMAIN reg = 0..15 /\ DOMAIN mem = Addresses(shape)
<1>4. ASSUME NEW k \in 1..20 + m, L[k] # <<>>, pc = Offset(L, k - 1)
      PROVE  pc \in 0..Stub.len - 1
  <2>1. k - 1 \in 0..20 + m /\ k \in 0..20 + m
    BY <1>2
  <2> HIDE DEF L, m
  <2>2. Offset(L, k - 1) \in Nat /\ Offset(L, k - 1) < Offset(L, k) /\ Stub.len \in Nat
    BY <1>2, <1>4, <2>1 DEF Lengths64
  <2>3. Offset(L, k) <= Stub.len
    <3>0. m \in Nat
      BY <1>2
    <3>1. k = 1 \/ k = 2 \/ k \in 3..18 + m \/ k = 19 + m \/ k = 20 + m
      BY <3>0
    <3>2. \A j \in 3..18 + m : Offset(L, j) <= Stub.len - 2
      BY <1>2 DEF Lengths64
    <3>3. /\ Offset(L, 1) = 1 /\ Offset(L, 2) = 4 /\ Offset(L, 20 + m) = Stub.len
          /\ Offset(L, 19 + m) = Stub.len - 1 /\ 11 <= Offset(L, 17 + m)
          /\ Offset(L, 17 + m) < Stub.len - 2 /\ Offset(L, 17 + m) \in Nat
      <4>1. 17 + m \in 0..20 + m
        BY <3>0
      <4> QED BY <1>2, <4>1 DEF Lengths64
    <3>4. CASE k \in 3..18 + m
      <4>1. Offset(L, k) <= Stub.len - 2 /\ Offset(L, k) \in Nat
        BY <1>2, <2>1, <3>2, <3>4 DEF Lengths64
      <4> QED BY <2>2, <4>1
    <3>5. CASE k = 1 \/ k = 2 \/ k = 19 + m \/ k = 20 + m
      <4>1. 4 <= Stub.len /\ Stub.len - 1 <= Stub.len /\ Stub.len <= Stub.len /\ 1 <= Stub.len
        <5>1. PICK e : e = Offset(L, 17 + m)
          OBVIOUS
        <5>2. 11 <= e /\ e < Stub.len - 2 /\ e \in Nat
          BY <3>3, <5>1, Zenon
        <5> QED BY <2>2, <5>2
      <4> QED BY <3>3, <3>5, <4>1
    <3> QED BY <3>1, <3>4, <3>5
  <2>4. PICK e, f : e = Offset(L, k - 1) /\ f = Offset(L, k)
    OBVIOUS
  <2>5. e \in Nat /\ e < f /\ f <= Stub.len /\ pc = e
    BY <1>4, <2>2, <2>3, <2>4, Zenon
  <2>6. f \in Nat
    BY <1>2, <2>1, <2>4 DEF Lengths64
  <2> QED BY <2>2, <2>5, <2>6
<1>5. ASSUME phase = "stub" PROVE \E s : Goal(s)
  <2>1. PICK k : At64(k, shape, pc, reg, mem)
    BY <1>5 DEF State64
  <2>2. k \in 1..20 + m /\ L[k] # <<>> /\ pc = Offset(L, k - 1) /\ reg[4] = Addr(Depth64(m, k))
        /\ DOMAIN reg = 0..15 /\ DOMAIN mem = Addresses(shape)
    BY <2>1 DEF At64, Stands64, Held64
  <2>3. Depth64(m, k) \in DOMAIN mem
    <3>1. Depth64(m, k) \in {0, -8, -216}
      BY DEF Depth64
    <3> QED BY <1>1, <2>2, <3>1, AddressesFacts
  <2>4. I.op # "undefined"
    <3>1. PICK op, a, b, n, imm : Lists(L, k, op, a, b, n, imm) /\ op # "undefined"
      <4>1. Lists64(shape, L, m)
        BY <1>2
      <4>2. L[k] # <<>> /\ k \in 1..20 + m
        BY <2>2
      <4> HIDE DEF L, m
      <4> QED BY <4>1, <4>2, Defined64 DEF Defined
    <3>2. Next64(L, k)
      BY <1>1, <2>2 DEF Next64
    <3>3. Reads(op, a, b, n, imm, Len(L[k]))
      <4> HIDE DEF L
      <4> QED BY <3>1, <3>2, Reads64
    <3> QED BY <3>1, <3>3 DEF Reads
  <2>5. pc \in 0..Stub.len - 1
    BY <1>4, <2>2
  <2>6. Goal(Depth64(m, k))
    BY <2>2, <2>3, <2>4, <2>5
  <2> HIDE DEF Goal
  <2> QED BY <2>6
<1>6. ASSUME phase \in {"dispatch", "stored"} PROVE \E s : Goal(s)
  <2>1. Calling64(shape, pc, reg, mem)
    BY <1>6 DEF State64
  <2>2. /\ pc = Offset(L, 17 + m) /\ reg[4] = Addr(-224) /\ DOMAIN reg = 0..15
        /\ DOMAIN mem = Addresses(shape)
    BY <2>1 DEF Calling64, Held64
  <2>3. -224 \in DOMAIN mem
    BY <1>1, <2>2, AddressesFacts
  <2>4. pc \in 0..Stub.len - 1
    <3> HIDE DEF L, m
    <3>0. m \in Nat
      BY <1>2
    <3>1. 17 + m \in 0..20 + m
      BY <3>0
    <3>2. Offset(L, 17 + m) \in Nat /\ Offset(L, 17 + m) < Stub.len - 2 /\ Stub.len \in Nat
      BY <1>2, <3>1 DEF Lengths64
    <3> QED BY <2>2, <3>2
  <2>5. Goal(-224)
    BY <1>6, <2>2, <2>3, <2>4
  <2> HIDE DEF Goal
  <2> QED BY <2>5
<1>7. ASSUME phase = "returned" PROVE \E s : Goal(s)
  <2>1. Done64(shape, pc, reg, mem)
    BY <1>7 DEF State64
  <2>2. /\ pc = Offset(L, 19 + m) /\ reg[4] = Addr(8) /\ DOMAIN reg = 0..15
        /\ DOMAIN mem = Addresses(shape)
    BY <2>1 DEF Done64
  <2>3. pc \in 0..Stub.len - 1
    <3> HIDE DEF L, m
    <3>0. m \in Nat
      BY <1>2
    <3>1. 19 + m \in 0..20 + m
      BY <3>0
    <3>2. Offset(L, 19 + m) \in Nat /\ Offset(L, 19 + m) = Stub.len - 1 /\ Stub.len \in Nat
      BY <1>2, <3>1 DEF Lengths64
    <3> QED BY <2>2, <3>2
  <2>4. Goal(8)
    BY <1>7, <2>2, <2>3
  <2> HIDE DEF Goal
  <2> QED BY <2>4
<1>8. \E s : Goal(s)
  <2> HIDE DEF Goal
  <2> QED BY <1>1, <1>5, <1>6, <1>7
<1>9. PICK s : Goal(s)
  <2> HIDE DEF Goal
  <2> QED BY <1>8
<1>10. reg[M.sp].tag = "sp" /\ SP = s
  BY <1>3, <1>9, AddressFacts DEF SP
<1> QED BY <1>1, <1>3, <1>9, <1>10 DEF TypeOK

-----------------------------------------------------------------------------
(* What Dispatch leaves and finds in the area, for either architecture *)

\* Words of different kinds differ.
LEMMA WordKinds ==
  \A i, j : Pointer(i) # Data(j) /\ Pointer(i) # Stale(j) /\ Pointer(i) # Nil
BY DEF Pointer, Data, Stale, Nil, Num, V

\* the word that the map's bit i is about
Truth(sh, i, word) == IF i \in ArgBits(sh) THEN word \in {Pointer(i), Nil} ELSE word # Pointer(i)

\* The map is right about an area whose marked results are cleared, and about one that
\* Dispatch has filled.
LEMMA AreaTruth ==
  ASSUME NEW sh \in Shapes, NEW w,
         (\E c \in Nat : c >= sh.retWords /\ AreaBefore(sh, w, c)) \/ AreaAfter(sh, w)
  PROVE  \A i \in 0..Words(sh) - 1 : Truth(sh, i, w[Area(i)])
<1> DEFINE n == sh.argWords
           m == sh.retWords
<1>1. /\ n \in Nat /\ m \in Nat /\ Words(sh) = n + m
      /\ \A i \in sh.argPtrs : i \in Nat /\ i < n
      /\ \A i \in sh.retPtrs : i \in Nat /\ i < m
  BY ShapeFacts DEF Words
<1> SUFFICES ASSUME NEW i \in 0..Words(sh) - 1 PROVE Truth(sh, i, w[Area(i)])
  OBVIOUS
<1>2. CASE AreaAfter(sh, w)
  BY <1>2, WordKinds DEF AreaAfter, Truth
<1>3. CASE \E c \in Nat : c >= m /\ AreaBefore(sh, w, c)
  <2>1. PICK c \in Nat : c >= m /\ AreaBefore(sh, w, c)
    BY <1>3
  <2>2. /\ (i < n /\ i \in sh.argPtrs) => w[Area(i)] = Pointer(i)
        /\ (i < n /\ i \notin sh.argPtrs) => w[Area(i)] = Data(i)
        /\ (i >= n /\ i - n \in sh.retPtrs /\ i - n < c) => w[Area(i)] = Nil
        /\ (i >= n /\ ~(i - n \in sh.retPtrs /\ i - n < c)) => w[Area(i)] = Stale(i)
    BY <2>1 DEF AreaBefore
  <2>3. CASE i < n
    <3>1. i \in ArgBits(sh) <=> i \in sh.argPtrs
      <4>1. ASSUME NEW r \in sh.retPtrs PROVE n + r # i
        BY <1>1, <2>3
      <4> QED BY <4>1 DEF ArgBits
    <3> QED BY <2>2, <2>3, <3>1, WordKinds DEF Truth
  <2>4. CASE ~(i < n)
    <3>1. i \in Nat /\ i >= n /\ i - n \in Nat
      BY <1>1, <2>4
    <3>2. i \in ArgBits(sh) <=> i - n \in sh.retPtrs
      <4>1. i \notin sh.argPtrs
        BY <1>1, <2>4
      <4>2. \A r \in sh.retPtrs : n + r = i <=> r = i - n
        BY <1>1, <3>1
      <4> QED BY <4>1, <4>2 DEF ArgBits
    <3>3. i - n \in sh.retPtrs => i - n < c
      <4>1. i - n \in sh.retPtrs => i - n < m
        BY <1>1
      <4> QED BY <1>1, <2>1, <3>1, <4>1
    <3> QED BY <2>2, <3>1, <3>2, <3>3, WordKinds DEF Truth
  <2> QED BY <2>3, <2>4
<1> QED BY <1>2, <1>3

\* Where the unwinder finds the entry's stack pointer, the maps are read right.
LEMMA MapFound ==
  ASSUME arch \in Arches, shape \in Shapes, EntrySP(CallSP) = 0,
         \A i \in 0..Words(shape) - 1 : Truth(shape, i, mem[Area(i)])
  PROVE  MapIsTrue
<1>1. Stub.gofunc = GoFunc(shape) /\ Stub.localsOff = LocalsOff(shape)
  BY StubFacts
<1>2. MapLen(0) = Words(shape) /\ MapLen(Stub.localsOff) = 0
  BY <1>1, MapFacts DEF MapLen, CountAt
<1>3. ASSUME NEW i \in 0..Words(shape) - 1 PROVE Marked(i) <=> i \in ArgBits(shape)
  BY <1>1, <1>3, MapFacts DEF Marked, MarkAt
<1>4. ASSUME NEW i \in 0..Words(shape) - 1 PROVE 0 + Area(i) = Area(i)
  BY <1>4, AddressesFacts
<1>5. ASSUME NEW i \in 0..Words(shape) - 1
      PROVE  IF Marked(i) THEN mem[EntrySP(CallSP) + Area(i)] \in {Pointer(i), Nil}
                          ELSE mem[EntrySP(CallSP) + Area(i)] # Pointer(i)
  <2>1. Truth(shape, i, mem[Area(i)])
    BY <1>5
  <2>2. mem[EntrySP(CallSP) + Area(i)] = mem[Area(i)]
    BY <1>4, <1>5
  <2> QED BY <1>3, <1>5, <2>1, <2>2 DEF Truth
<1> QED BY <1>2, <1>5 DEF MapIsTrue

-----------------------------------------------------------------------------
(* amd64: the properties *)

\* amd64: what is ready when Dispatch is called.
LEMMA CalledRight64 ==
  ASSUME State64
  PROVE  DispatchGetsTheCall
<1> SUFFICES ASSUME phase = "dispatch" PROVE DispatchGetsTheCall
  BY DEF DispatchGetsTheCall
<1> DEFINE m == shape.retWords
<1>1. arch = "amd64" /\ shape \in Shapes /\ Calling64(shape, pc, reg, mem) /\ target = Num(Dispatch)
  BY DEF State64
<1>2. M.ints = <<0, 3, 1, 7, 6, 8, 9, 10, 11>> /\ Len(M.ints) = 9 /\ M.args = 0 /\ M.g = 14
  BY <1>1, MachineFacts
<1>3. CallSP = -216
  BY StackPointer64 DEF InDispatch
<1>4. m \in Nat
  BY <1>1, ShapeFacts
<1>5. reg[14] = In(14)
  BY <1>1 DEF Calling64, Held64
<1>6. /\ reg[0] = Num(<<shape.index, 0, 0, 0>>) /\ mem[-216] = In(11) /\ mem[-208] = Addr(8)
  <2>1. 17 + m >= 16 + m /\ 17 + m >= 5 /\ 17 + m >= 7
    BY <1>4
  <2> QED BY <1>1, <2>1 DEF Calling64, Prepared64
<1>7. \A k \in 2..9 : reg[M.ints[k]] = In(M.ints[k - 1])
  <2> SUFFICES ASSUME NEW k \in 2..9 PROVE reg[M.ints[k]] = In(M.ints[k - 1])
    OBVIOUS
  <2>1. 17 + m >= 17 + m - k
    BY <1>4
  <2>2. reg[Int64(k)] = In(Int64(k - 1))
    BY <1>1, <2>1 DEF Calling64, Ints64
  <2>3. M.ints = Machine["amd64"].ints
    BY <1>1 DEF M
  <2> QED BY <2>2, <2>3 DEF Int64
<1>8. Area(0) = 8 /\ CallSP + M.args = -216 /\ -216 + 8 = -208
  BY <1>2, <1>3 DEF Area
<1>9. M.ints[1] = 0 /\ M.ints[9] = 11
  BY <1>2
<1> QED BY <1>1, <1>2, <1>5, <1>6, <1>7, <1>8, <1>9 DEF DispatchGetsTheCall

\* The unwinder's stack pointer, while Dispatch runs and at every instruction.
LEMMA Frames64 ==
  ASSUME State64
  PROVE  /\ InDispatch => EntrySP(CallSP) = 0 /\ mem[0] = Caller
         /\ phase = "stub" => EntrySP(SP) = 0 /\ mem[0] = Caller
<1> DEFINE m == shape.retWords
<1>1. arch = "amd64" /\ arch \in Arches /\ shape \in Shapes
  BY DEF State64
<1>2. \A p : SPDeltaAt(p) = Delta64(shape, p)
  <2>1. Stub.pcsp = PCSP("amd64", CodeLen("amd64", Code("amd64", shape))) /\ M.quantum = 1
    BY <1>1, StubFacts, MachineFacts
  <2> QED BY <2>1 DEF SPDeltaAt, Delta64
<1>3. ASSUME InDispatch PROVE EntrySP(CallSP) = 0 /\ mem[0] = Caller
  <2>1. Calling64(shape, pc, reg, mem)
    BY <1>3 DEF State64, InDispatch
  <2>2. pc = Offset(List64(shape), 17 + m) /\ mem[0] = Caller
    BY <2>1 DEF Calling64, Held64
  <2>3. Delta64(shape, pc) = 216
    BY <1>1, <2>2, DeltaFacts64
  <2>4. CallSP = -216
    BY <1>3, StackPointer64
  <2> QED BY <1>2, <2>2, <2>3, <2>4 DEF EntrySP
<1>4. ASSUME phase = "stub" PROVE EntrySP(SP) = 0 /\ mem[0] = Caller
  <2>1. PICK k : At64(k, shape, pc, reg, mem)
    BY <1>4 DEF State64
  <2>2. /\ k \in 1..20 + m /\ List64(shape)[k] # <<>> /\ pc = Offset(List64(shape), k - 1)
        /\ mem[0] = Caller
    BY <2>1 DEF At64, Stands64, Held64
  <2>3. Delta64(shape, pc) = 0 - Depth64(m, k)
    BY <1>1, <2>2, DeltaFacts64
  <2>4. SP = Depth64(m, k)
    BY <2>1, StackPointer64
  <2>5. Depth64(m, k) \in Int
    BY DEF Depth64
  <2>6. Depth64(m, k) + (0 - Depth64(m, k)) = 0
    BY <2>5
  <2>7. EntrySP(SP) = Depth64(m, k) + (0 - Depth64(m, k))
    BY <1>2, <2>3, <2>4 DEF EntrySP
  <2> QED BY <2>2, <2>6, <2>7
<1> QED BY <1>3, <1>4

\* amd64: the unwinder finds the frame and the caller.
LEMMA Unwinds64 ==
  ASSUME State64
  PROVE  Unwinds
<1>1. arch = "amd64"
  BY DEF State64
<1>2. InDispatch => SavedReturn = Caller
  BY <1>1, Frames64 DEF SavedReturn
<1> QED BY <1>2, Frames64 DEF Unwinds, EveryPCUnwinds

\* amd64: the argument map, while Dispatch runs.
LEMMA MapIsTrue64 ==
  ASSUME State64
  PROVE  MapIsTrue
<1> SUFFICES ASSUME InDispatch PROVE MapIsTrue
  BY DEF MapIsTrue
<1>1. arch \in Arches /\ shape \in Shapes
  BY DEF State64
<1>2. (\E c \in Nat : c >= shape.retWords /\ AreaBefore(shape, mem, c)) \/ AreaAfter(shape, mem)
  <2>1. AreaBefore(shape, mem, 10 + shape.retWords) \/ AreaAfter(shape, mem)
    BY DEF State64, InDispatch
  <2>2. 10 + shape.retWords \in Nat /\ 10 + shape.retWords >= shape.retWords
    BY <1>1, ShapeFacts
  <2> QED BY <2>1, <2>2
<1>3. \A i \in 0..Words(shape) - 1 : Truth(shape, i, mem[Area(i)])
  BY <1>1, <1>2, AreaTruth
<1>4. EntrySP(CallSP) = 0
  BY Frames64
<1> QED BY <1>1, <1>3, <1>4, MapFound

\* amd64: what the caller gets back.
LEMMA CallerRestored64 ==
  ASSUME State64
  PROVE  CallerRestored
<1> SUFFICES ASSUME phase = "returned" PROVE CallerRestored
  BY DEF CallerRestored
<1>1. arch = "amd64" /\ shape \in Shapes /\ Done64(shape, pc, reg, mem) /\ target = Caller
  BY DEF State64
<1>2. /\ M.ints = <<0, 3, 1, 7, 6, 8, 9, 10, 11>> /\ M.fp = 5 /\ M.g = 14 /\ M.sp = 4
  BY <1>1, MachineFacts
<1>3. /\ reg[4] = Addr(8) /\ reg[5] = In(5) /\ reg[14] = In(14) /\ Returned64(reg) /\ AreaAfter(shape, mem)
  BY <1>1 DEF Done64
<1>4. SP = 8
  BY <1>2, <1>3, AddressFacts DEF SP
<1>5. ASSUME NEW r \in ToSet(M.ints) PROVE reg[r] = Res(r)
  <2>1. PICK t \in 1..9 : r = M.ints[t]
    BY <1>2 DEF ToSet
  <2>2. M.ints = Machine["amd64"].ints
    BY <1>1 DEF M
  <2>3. reg[Int64(t)] = Res(Int64(t))
    BY <1>3 DEF Returned64
  <2> QED BY <2>1, <2>2, <2>3 DEF Int64
<1>6. ASSUME NEW i \in 0..Words(shape) - 1
      PROVE  mem[Area(i)] = IF i \in ArgBits(shape) THEN Pointer(i) ELSE Data(i)
  BY <1>3, <1>6 DEF AreaAfter
<1> QED BY <1>1, <1>2, <1>3, <1>4, <1>5, <1>6 DEF CallerRestored

-----------------------------------------------------------------------------
(* arm64: the listing *)

\* The instructions of arm64's listing that do not depend on the shape.
LEMMA FixedForms ==
  /\ DoesARM(ARM!Sub(20, 31, 288), "add", 20, 31, -288, ARM!NoImm)
  /\ DoesARM(ARM!Stp(29, 30, 20, -8), "storepair", 29, 20, -8, <<30, 0, 0, 0>>)
  /\ DoesARM(ARM!Add(31, 20, 0), "add", 31, 20, 0, ARM!NoImm)
  /\ DoesARM(ARM!Sub(29, 31, 8), "add", 29, 31, -8, ARM!NoImm)
  /\ DoesARM(ARM!Str(15, 31, 8), "store", 15, 31, 8, ARM!NoImm)
  /\ DoesARM(ARM!Add(16, 31, 296), "add", 16, 31, 296, ARM!NoImm)
  /\ DoesARM(ARM!Str(16, 31, 16), "store", 16, 31, 16, ARM!NoImm)
  /\ DoesARM(ARM!Ldp(29, 30, 31, -8), "loadpair", 29, 31, -8, <<30, 0, 0, 0>>)
  /\ DoesARM(ARM!Add(31, 31, 288), "add", 31, 31, 288, ARM!NoImm)
<1>1. /\ 15 \in 0..31 /\ 16 \in 0..31 /\ 20 \in 0..31 /\ 29 \in 0..31 /\ 31 \in 0..31
      /\ Low12(288) /\ Low12(0) /\ Low12(8) /\ Low12(296) /\ Scaled(8, 1) /\ Scaled(16, 2)
      /\ 15 # 31 /\ 16 # 31 /\ -8 \in Int /\ -8 + 8 = 0
  BY SMT DEF Low12, Scaled
<1>2. /\ DoesARM(ARM!Sub(20, 31, 288), "add", 20, 31, -288, ARM!NoImm)
      /\ DoesARM(ARM!Add(31, 20, 0), "add", 31, 20, 0, ARM!NoImm)
      /\ DoesARM(ARM!Sub(29, 31, 8), "add", 29, 31, -8, ARM!NoImm)
      /\ DoesARM(ARM!Add(16, 31, 296), "add", 16, 31, 296, ARM!NoImm)
      /\ DoesARM(ARM!Add(31, 31, 288), "add", 31, 31, 288, ARM!NoImm)
  BY <1>1, AddForms
<1>3. /\ DoesARM(ARM!Str(15, 31, 8), "store", 15, 31, 8, ARM!NoImm)
      /\ DoesARM(ARM!Str(16, 31, 16), "store", 16, 31, 16, ARM!NoImm)
  BY <1>1, StrForm
<1>4. /\ DoesARM(ARM!Stp(29, 30, 20, -8), "storepair", 29, 20, -8, <<30, 0, 0, 0>>)
      /\ DoesARM(ARM!Ldp(29, 30, 31, -8), "loadpair", 29, 31, -8, <<30, 0, 0, 0>>)
  BY <1>1, PairForms
<1> QED BY <1>2, <1>3, <1>4

ListARM(sh) == ARM!Listing(sh, Dispatch)

\* the six parts of arm64's listing
BodyARM == <<ARM!Sub(29, 31, 8), ARM!Str(15, 31, 8), ARM!Add(16, 31, 296), ARM!Str(16, 31, 16)>>

CallsARM(sh) ==
  <<ARM!MovZ(0, sh.index), ARM!MovZ(16, Dispatch[1]), ARM!MovK(16, Dispatch[2], 16),
    ARM!MovK(16, Dispatch[3], 32), ARM!MovK(16, Dispatch[4], 48), ARM!Blr(16)>>

EndsARM == <<ARM!Ldp(29, 30, 31, -8), ARM!Add(31, 31, 288), ARM!Ret>>

\* The listing is those.
LEMMA PartsARM ==
  ASSUME NEW sh
  PROVE  /\ ListARM(sh) = ARM!Prologue \o BodyARM \o ARM!Clears(sh) \o ARM!Shift \o CallsARM(sh) \o EndsARM
         /\ ARM!Prologue = <<ARM!Sub(20, 31, 288), ARM!Stp(29, 30, 20, -8), ARM!Add(31, 20, 0)>>
<1>1. ARM!FrameSize = 288 /\ ARM!FrameSize + 8 = 296 /\ ARM!SP = 31 /\ ARM!FP = 29 /\ ARM!LR = 30
  BY DEF ARM!FrameSize, ARM!SP, ARM!FP, ARM!LR
<1> QED BY <1>1 DEF ListARM, ARM!Listing, ARM!Prologue, BodyARM, CallsARM, EndsARM

WordSeq == Seq(BitSet)

\* Each instruction of the listing; m is the number of result words.
ListsARM(sh, L, m) ==
  /\ L \in Seq(WordSeq) /\ Len(L) = 31 + m /\ m \in Nat
  /\ \A k \in 1..31 + m : Len(L[k]) <= 1
  /\ DoesARM(L[1], "add", 20, 31, -288, ARM!NoImm)
  /\ DoesARM(L[2], "storepair", 29, 20, -8, <<30, 0, 0, 0>>)
  /\ DoesARM(L[3], "add", 31, 20, 0, ARM!NoImm)
  /\ DoesARM(L[4], "add", 29, 31, -8, ARM!NoImm)
  /\ DoesARM(L[5], "store", 15, 31, 8, ARM!NoImm)
  /\ DoesARM(L[6], "add", 16, 31, 296, ARM!NoImm)
  /\ DoesARM(L[7], "store", 16, 31, 16, ARM!NoImm)
  /\ \A i \in 1..m :
       /\ i - 1 \in sh.retPtrs =>
            DoesARM(L[7 + i], "clear", 31, 16, 8 * (sh.argWords + i - 1), ARM!NoImm)
       /\ i - 1 \notin sh.retPtrs => L[7 + i] = <<>>
  /\ \A i \in 1..15 : DoesARM(L[7 + m + i], "move", 16 - i, 15 - i, 0, ARM!NoImm)
  /\ DoesARM(L[23 + m], "set", 0, 0, 0, <<sh.index, 0, 0, 0>>)
  /\ DoesARM(L[24 + m], "set", 16, 0, 0, <<Dispatch[1], 0, 0, 0>>)
  /\ DoesARM(L[25 + m], "keep", 16, 0, 1, <<Dispatch[2], 0, 0, 0>>)
  /\ DoesARM(L[26 + m], "keep", 16, 0, 2, <<Dispatch[3], 0, 0, 0>>)
  /\ DoesARM(L[27 + m], "keep", 16, 0, 3, <<Dispatch[4], 0, 0, 0>>)
  /\ DoesARM(L[28 + m], "call", 16, 0, 0, ARM!NoImm)
  /\ DoesARM(L[29 + m], "loadpair", 29, 31, -8, <<30, 0, 0, 0>>)
  /\ DoesARM(L[30 + m], "add", 31, 31, 288, ARM!NoImm)
  /\ DoesARM(L[31 + m], "ret", 30, 0, 0, ARM!NoImm)

\* What is meant of an instruction makes it one word.
LEMMA OneEach ==
  ASSUME NEW words, NEW op, NEW a, NEW b, NEW n, NEW imm, DoesARM(words, op, a, b, n, imm)
  PROVE  words \in WordSeq /\ Len(words) = 1
BY DEF DoesARM, WordSeq

\* The six parts, and how long each is.
LEMMA PartLengths ==
  ASSUME NEW sh \in Shapes, NEW m, m = sh.retWords
  PROVE  /\ ARM!Prologue \in Seq(WordSeq) /\ Len(ARM!Prologue) = 3
         /\ BodyARM \in Seq(WordSeq) /\ Len(BodyARM) = 4
         /\ ARM!Shift \in Seq(WordSeq) /\ Len(ARM!Shift) = 15
         /\ \A i \in 1..15 : ARM!Shift[i] = ARM!Mov(16 - i, 15 - i)
         /\ CallsARM(sh) \in Seq(WordSeq) /\ Len(CallsARM(sh)) = 6
         /\ EndsARM \in Seq(WordSeq) /\ Len(EndsARM) = 3
         /\ ARM!Clears(sh) \in Seq(WordSeq) /\ Len(ARM!Clears(sh)) = m
<1> DEFINE S == WordSeq
<1>1. /\ ARM!Sub(20, 31, 288) \in S /\ ARM!Stp(29, 30, 20, -8) \in S /\ ARM!Add(31, 20, 0) \in S
      /\ ARM!Sub(29, 31, 8) \in S /\ ARM!Str(15, 31, 8) \in S /\ ARM!Add(16, 31, 296) \in S
      /\ ARM!Str(16, 31, 16) \in S /\ ARM!Ldp(29, 30, 31, -8) \in S /\ ARM!Add(31, 31, 288) \in S
      /\ ARM!Ret \in S /\ ARM!Blr(16) \in S
  BY FixedForms, BranchForms, OneEach
<1>2. \A d, n : d \in 0..31 /\ n \in Half =>
        /\ ARM!MovZ(d, n) \in S /\ ARM!MovK(d, n, 16) \in S /\ ARM!MovK(d, n, 32) \in S /\ ARM!MovK(d, n, 48) \in S
  <2> SUFFICES ASSUME NEW d \in 0..31, NEW n \in Half
               PROVE  /\ ARM!MovZ(d, n) \in S /\ ARM!MovK(d, n, 16) \in S
                      /\ ARM!MovK(d, n, 32) \in S /\ ARM!MovK(d, n, 48) \in S
    BY Zenon
  <2> QED BY WideForms, OneEach
<1>3. sh.index \in Half /\ Dispatch[1] \in Half /\ Dispatch[2] \in Half /\ Dispatch[3] \in Half /\ Dispatch[4] \in Half
      /\ sh.argWords \in Nat /\ m \in Nat /\ sh.argWords + m <= 60
  BY ShapeFacts, DispatchFacts
<1>4. /\ ARM!MovZ(0, sh.index) \in S /\ ARM!MovZ(16, Dispatch[1]) \in S /\ ARM!MovK(16, Dispatch[2], 16) \in S
      /\ ARM!MovK(16, Dispatch[3], 32) \in S /\ ARM!MovK(16, Dispatch[4], 48) \in S
  BY <1>2, <1>3, 0 \in 0..31, 16 \in 0..31
<1> HIDE DEF S
<1>5. /\ ARM!Prologue \in Seq(S) /\ Len(ARM!Prologue) = 3
  <2>1. ARM!Prologue = <<ARM!Sub(20, 31, 288), ARM!Stp(29, 30, 20, -8), ARM!Add(31, 20, 0)>>
    BY PartsARM
  <2> QED BY <1>1, <2>1
<1>6. BodyARM \in Seq(S) /\ Len(BodyARM) = 4
  BY <1>1 DEF BodyARM
<1>7. CallsARM(sh) \in Seq(S) /\ Len(CallsARM(sh)) = 6
  BY <1>1, <1>4 DEF CallsARM
<1>8. EndsARM \in Seq(S) /\ Len(EndsARM) = 3
  BY <1>1 DEF EndsARM
<1>9. ARM!Shift \in Seq(S) /\ Len(ARM!Shift) = 15 /\ \A i \in 1..15 : ARM!Shift[i] = ARM!Mov(16 - i, 15 - i)
  <2>1. \A i \in 1..15 : 16 - i \in 0..31 /\ 15 - i \in 0..31
    OBVIOUS
  <2>2. \A i \in 1..15 : ARM!Mov(16 - i, 15 - i) \in S
    BY <2>1, MovFormARM, OneEach DEF S
  <2>3. ARM!Shift = [i \in 1..15 |-> ARM!Mov(16 - i, 15 - i)]
    BY DEF ARM!Shift
  <2>4. ARM!Shift \in [1..15 -> S]
    BY <2>2, <2>3, Zenon
  <2> DEFINE f == ARM!Shift
  <2>a. PICK l \in Nat : l = 15
    OBVIOUS
  <2>b. f \in [1..l -> S]
    BY <2>4, <2>a
  <2> HIDE DEF f
  <2>c. f \in Seq(S)
    BY <2>b
  <2>5. Len(f) = 15
    BY <2>a, <2>b, <2>c, LenProperties
  <2> QED BY <2>3, <2>5, <2>c DEF f
<1>10. ARM!Clears(sh) \in Seq(S) /\ Len(ARM!Clears(sh)) = m
  <2> DEFINE c == [i \in 1..m |-> IF i - 1 \in sh.retPtrs THEN ARM!Str(31, 16, 8 * (sh.argWords + i - 1)) ELSE <<>>]
  <2>1. ARM!Clears(sh) = c
    BY DEF ARM!Clears
  <2>2. \A i \in 1..m : (IF i - 1 \in sh.retPtrs THEN ARM!Str(31, 16, 8 * (sh.argWords + i - 1)) ELSE <<>>) \in S
    <3> SUFFICES ASSUME NEW i \in 1..m
                 PROVE  (IF i - 1 \in sh.retPtrs THEN ARM!Str(31, 16, 8 * (sh.argWords + i - 1)) ELSE <<>>) \in S
      OBVIOUS
    <3>1. <<>> \in S
      BY DEF S, WordSeq
    <3> DEFINE q == sh.argWords + i - 1
               disp == 8 * q
    <3>2. Scaled(disp, q)
      BY <1>3 DEF Scaled, Low12
    <3>3. ARM!Str(31, 16, disp) \in S
      <4> HIDE DEF disp, q
      <4>1. 31 \in 0..31 /\ 16 \in 0..31
        OBVIOUS
      <4>2. DoesARM(ARM!Str(31, 16, disp), "clear", 31, 16, disp, ARM!NoImm)
        BY <3>2, <4>1, StrForm
      <4> QED BY <4>2, OneEach DEF S
    <3> QED BY <3>1, <3>3
  <2>3. c \in [1..m -> S]
    BY <2>2, Zenon
  <2> HIDE DEF c
  <2>4. c \in Seq(S)
    BY <1>3, <2>3
  <2>5. Len(c) = m
    BY <1>3, <2>3, <2>4, LenProperties
  <2> QED BY <2>1, <2>4, <2>5
<1> QED BY <1>5, <1>6, <1>7, <1>8, <1>9, <1>10 DEF S

\* Where jitStubCode's words are in the listing for arm64.
LEMMA PlacesARM ==
  ASSUME NEW sh \in Shapes, NEW L, L = ListARM(sh), NEW m, m = sh.retWords
  PROVE  /\ L \in Seq(WordSeq) /\ Len(L) = 31 + m
         /\ Placed(L, 0, ARM!Prologue) /\ Placed(L, 3, BodyARM) /\ Placed(L, 7, ARM!Clears(sh))
         /\ Placed(L, 7 + m, ARM!Shift) /\ Placed(L, 22 + m, CallsARM(sh)) /\ Placed(L, 28 + m, EndsARM)
<1> DEFINE S == WordSeq
           p1 == ARM!Prologue
           b1 == BodyARM
           c1 == ARM!Clears(sh)
           d1 == ARM!Shift
           e1 == CallsARM(sh)
           f1 == EndsARM
<1>1. m \in Nat
  BY ShapeFacts
<1>2. /\ p1 \in Seq(S) /\ b1 \in Seq(S) /\ c1 \in Seq(S) /\ d1 \in Seq(S) /\ e1 \in Seq(S) /\ f1 \in Seq(S)
      /\ Len(p1) = 3 /\ Len(b1) = 4 /\ Len(c1) = m /\ Len(d1) = 15 /\ Len(e1) = 6 /\ Len(f1) = 3
  BY PartLengths
<1>3. L = p1 \o b1 \o c1 \o d1 \o e1 \o f1
  BY PartsARM
<1> HIDE DEF S, p1, b1, c1, d1, e1, f1
<1>4. SixOf(L, S, p1, b1, c1, d1, e1, f1)
  BY <1>2, <1>3 DEF SixOf
<1>5. /\ L \in Seq(S)
      /\ Len(L) = Len(p1) + Len(b1) + Len(c1) + Len(d1) + Len(e1) + Len(f1)
      /\ Placed(L, 0, p1) /\ Placed(L, Len(p1), b1) /\ Placed(L, Len(p1) + Len(b1), c1)
      /\ Placed(L, Len(p1) + Len(b1) + Len(c1), d1)
      /\ Placed(L, Len(p1) + Len(b1) + Len(c1) + Len(d1), e1)
      /\ Placed(L, Len(p1) + Len(b1) + Len(c1) + Len(d1) + Len(e1), f1)
  BY <1>4, SixParts
<1>6. /\ 3 + 4 = 7 /\ 3 + 4 + m = 7 + m /\ 3 + 4 + m + 15 = 22 + m
      /\ 3 + 4 + m + 15 + 6 = 28 + m /\ 3 + 4 + m + 15 + 6 + 3 = 31 + m
  BY <1>1
<1> QED BY <1>2, <1>5, <1>6 DEF S, p1, b1, c1, d1, e1, f1

SpellsARM(sh, L, m) ==
  /\ L[1] = ARM!Sub(20, 31, 288) /\ L[2] = ARM!Stp(29, 30, 20, -8) /\ L[3] = ARM!Add(31, 20, 0)
  /\ L[4] = ARM!Sub(29, 31, 8) /\ L[5] = ARM!Str(15, 31, 8) /\ L[6] = ARM!Add(16, 31, 296)
  /\ L[7] = ARM!Str(16, 31, 16)
  /\ \A i \in 1..m : L[7 + i] = ARM!Clears(sh)[i]
  /\ \A i \in 1..15 : L[7 + m + i] = ARM!Mov(16 - i, 15 - i)
  /\ L[23 + m] = ARM!MovZ(0, sh.index) /\ L[24 + m] = ARM!MovZ(16, Dispatch[1])
  /\ L[25 + m] = ARM!MovK(16, Dispatch[2], 16) /\ L[26 + m] = ARM!MovK(16, Dispatch[3], 32)
  /\ L[27 + m] = ARM!MovK(16, Dispatch[4], 48) /\ L[28 + m] = ARM!Blr(16)
  /\ L[29 + m] = ARM!Ldp(29, 30, 31, -8) /\ L[30 + m] = ARM!Add(31, 31, 288) /\ L[31 + m] = ARM!Ret

\* The words of the listing.
LEMMA WordsARM ==
  ASSUME NEW sh \in Shapes, NEW L, L = ListARM(sh), NEW m, m = sh.retWords
  PROVE  SpellsARM(sh, L, m)
<1> DEFINE p1 == ARM!Prologue
           b1 == BodyARM
           c1 == ARM!Clears(sh)
           d1 == ARM!Shift
           e1 == CallsARM(sh)
           f1 == EndsARM
<1>1. m \in Nat
  BY ShapeFacts
<1>2. /\ Len(p1) = 3 /\ Len(b1) = 4 /\ Len(c1) = m /\ Len(d1) = 15 /\ Len(e1) = 6 /\ Len(f1) = 3
  BY PartLengths
<1>3. /\ Placed(L, 0, p1) /\ Placed(L, 3, b1) /\ Placed(L, 7, c1)
      /\ Placed(L, 7 + m, d1) /\ Placed(L, 22 + m, e1) /\ Placed(L, 28 + m, f1)
  BY PlacesARM
<1>4. /\ p1[1] = ARM!Sub(20, 31, 288) /\ p1[2] = ARM!Stp(29, 30, 20, -8) /\ p1[3] = ARM!Add(31, 20, 0)
  <2>1. p1 = <<ARM!Sub(20, 31, 288), ARM!Stp(29, 30, 20, -8), ARM!Add(31, 20, 0)>>
    BY PartsARM
  <2> HIDE DEF p1
  <2> QED BY <2>1
<1>5. /\ b1[1] = ARM!Sub(29, 31, 8) /\ b1[2] = ARM!Str(15, 31, 8) /\ b1[3] = ARM!Add(16, 31, 296)
      /\ b1[4] = ARM!Str(16, 31, 16)
  BY DEF BodyARM
<1>6. /\ e1[1] = ARM!MovZ(0, sh.index) /\ e1[2] = ARM!MovZ(16, Dispatch[1])
      /\ e1[3] = ARM!MovK(16, Dispatch[2], 16) /\ e1[4] = ARM!MovK(16, Dispatch[3], 32)
      /\ e1[5] = ARM!MovK(16, Dispatch[4], 48) /\ e1[6] = ARM!Blr(16)
  BY DEF CallsARM
<1>7. f1[1] = ARM!Ldp(29, 30, 31, -8) /\ f1[2] = ARM!Add(31, 31, 288) /\ f1[3] = ARM!Ret
  BY DEF EndsARM
<1>8. \A i \in 1..15 : d1[i] = ARM!Mov(16 - i, 15 - i)
  BY PartLengths
<1> HIDE DEF p1, b1, c1, d1, e1, f1
<1>9. /\ L[1] = p1[1] /\ L[2] = p1[2] /\ L[3] = p1[3]
  BY <1>2, <1>3 DEF Placed
<1>10. /\ L[4] = b1[1] /\ L[5] = b1[2] /\ L[6] = b1[3] /\ L[7] = b1[4]
  BY <1>2, <1>3 DEF Placed
<1>11. \A i \in 1..m : L[7 + i] = c1[i]
  BY <1>2, <1>3 DEF Placed
<1>12. \A i \in 1..15 : L[7 + m + i] = d1[i]
  BY <1>2, <1>3 DEF Placed
<1>13. /\ L[23 + m] = e1[1] /\ L[24 + m] = e1[2] /\ L[25 + m] = e1[3]
       /\ L[26 + m] = e1[4] /\ L[27 + m] = e1[5] /\ L[28 + m] = e1[6]
  <2>1. /\ 22 + m + 1 = 23 + m /\ 22 + m + 2 = 24 + m /\ 22 + m + 3 = 25 + m
        /\ 22 + m + 4 = 26 + m /\ 22 + m + 5 = 27 + m /\ 22 + m + 6 = 28 + m
    BY <1>1
  <2>2. \A i \in 1..6 : L[22 + m + i] = e1[i]
    BY <1>2, <1>3 DEF Placed
  <2> QED BY <2>1, <2>2
<1>14. /\ L[29 + m] = f1[1] /\ L[30 + m] = f1[2] /\ L[31 + m] = f1[3]
  <2>1. /\ 28 + m + 1 = 29 + m /\ 28 + m + 2 = 30 + m /\ 28 + m + 3 = 31 + m
    BY <1>1
  <2>2. \A i \in 1..3 : L[28 + m + i] = f1[i]
    BY <1>2, <1>3 DEF Placed
  <2> QED BY <2>1, <2>2
<1>15. \A i \in 1..m : L[7 + i] = ARM!Clears(sh)[i]
  BY <1>11 DEF c1
<1> QED BY <1>4, <1>5, <1>6, <1>7, <1>8, <1>9, <1>10, <1>12, <1>13, <1>14, <1>15 DEF SpellsARM

\* jitStubCode's listing for arm64 is what ListsARM says: single words, each the
\* instruction that was meant.
LEMMA ListingARM ==
  ASSUME NEW sh \in Shapes, NEW L, L = ListARM(sh), NEW m, m = sh.retWords
  PROVE  ListsARM(sh, L, m)
<1> DEFINE no == ARM!NoImm
<1>1. /\ sh.index \in Half /\ sh.argWords \in Nat /\ m \in Nat /\ sh.argWords + m <= 60
      /\ Dispatch[1] \in Half /\ Dispatch[2] \in Half /\ Dispatch[3] \in Half /\ Dispatch[4] \in Half
  BY ShapeFacts, DispatchFacts
<1>2. L \in Seq(WordSeq) /\ Len(L) = 31 + m
  BY PlacesARM
<1>3. /\ L[1] = ARM!Sub(20, 31, 288) /\ L[2] = ARM!Stp(29, 30, 20, -8) /\ L[3] = ARM!Add(31, 20, 0)
      /\ L[4] = ARM!Sub(29, 31, 8) /\ L[5] = ARM!Str(15, 31, 8) /\ L[6] = ARM!Add(16, 31, 296)
      /\ L[7] = ARM!Str(16, 31, 16)
      /\ \A i \in 1..m : L[7 + i] = ARM!Clears(sh)[i]
      /\ \A i \in 1..15 : L[7 + m + i] = ARM!Mov(16 - i, 15 - i)
      /\ L[23 + m] = ARM!MovZ(0, sh.index) /\ L[24 + m] = ARM!MovZ(16, Dispatch[1])
      /\ L[25 + m] = ARM!MovK(16, Dispatch[2], 16) /\ L[26 + m] = ARM!MovK(16, Dispatch[3], 32)
      /\ L[27 + m] = ARM!MovK(16, Dispatch[4], 48) /\ L[28 + m] = ARM!Blr(16)
      /\ L[29 + m] = ARM!Ldp(29, 30, 31, -8) /\ L[30 + m] = ARM!Add(31, 31, 288) /\ L[31 + m] = ARM!Ret
  <2>1. SpellsARM(sh, L, m)
    BY WordsARM
  <2> QED BY <2>1 DEF SpellsARM
<1> HIDE DEF no
<1>4. /\ DoesARM(L[1], "add", 20, 31, -288, ARM!NoImm)
      /\ DoesARM(L[2], "storepair", 29, 20, -8, <<30, 0, 0, 0>>)
      /\ DoesARM(L[3], "add", 31, 20, 0, ARM!NoImm)
      /\ DoesARM(L[4], "add", 29, 31, -8, ARM!NoImm)
      /\ DoesARM(L[5], "store", 15, 31, 8, ARM!NoImm)
      /\ DoesARM(L[6], "add", 16, 31, 296, ARM!NoImm)
      /\ DoesARM(L[7], "store", 16, 31, 16, ARM!NoImm)
      /\ DoesARM(L[29 + m], "loadpair", 29, 31, -8, <<30, 0, 0, 0>>)
      /\ DoesARM(L[30 + m], "add", 31, 31, 288, ARM!NoImm)
  BY <1>3, FixedForms
<1>5. /\ DoesARM(L[28 + m], "call", 16, 0, 0, ARM!NoImm)
      /\ DoesARM(L[31 + m], "ret", 30, 0, 0, ARM!NoImm)
  BY <1>3, BranchForms
<1>6. /\ DoesARM(L[23 + m], "set", 0, 0, 0, <<sh.index, 0, 0, 0>>)
      /\ DoesARM(L[24 + m], "set", 16, 0, 0, <<Dispatch[1], 0, 0, 0>>)
      /\ DoesARM(L[25 + m], "keep", 16, 0, 1, <<Dispatch[2], 0, 0, 0>>)
      /\ DoesARM(L[26 + m], "keep", 16, 0, 2, <<Dispatch[3], 0, 0, 0>>)
      /\ DoesARM(L[27 + m], "keep", 16, 0, 3, <<Dispatch[4], 0, 0, 0>>)
  <2>1. 0 \in 0..31 /\ 16 \in 0..31
    OBVIOUS
  <2> QED BY <1>1, <1>3, <2>1, WideForms
<1>7. \A i \in 1..15 : DoesARM(L[7 + m + i], "move", 16 - i, 15 - i, 0, ARM!NoImm)
  <2> SUFFICES ASSUME NEW i \in 1..15 PROVE DoesARM(L[7 + m + i], "move", 16 - i, 15 - i, 0, ARM!NoImm)
    OBVIOUS
  <2>1. 16 - i \in 0..31 /\ 15 - i \in 0..31
    OBVIOUS
  <2>2. DoesARM(ARM!Mov(16 - i, 15 - i), "move", 16 - i, 15 - i, 0, ARM!NoImm)
    BY <2>1, MovFormARM
  <2> QED BY <1>3, <2>2
<1>8. ASSUME NEW i \in 1..m
      PROVE  /\ i - 1 \in sh.retPtrs => DoesARM(L[7 + i], "clear", 31, 16, 8 * (sh.argWords + i - 1), ARM!NoImm)
             /\ i - 1 \notin sh.retPtrs => L[7 + i] = <<>> /\ Len(L[7 + i]) = 0
  <2> DEFINE q == sh.argWords + i - 1
             disp == 8 * q
  <2>1. Scaled(disp, q)
    BY <1>1 DEF Scaled, Low12
  <2>2. L[7 + i] = IF i - 1 \in sh.retPtrs THEN ARM!Str(31, 16, disp) ELSE <<>>
    BY <1>3 DEF ARM!Clears
  <2> HIDE DEF q, disp
  <2>3. 31 \in 0..31 /\ 16 \in 0..31
    OBVIOUS
  <2>4. DoesARM(ARM!Str(31, 16, disp), "clear", 31, 16, disp, ARM!NoImm)
    BY <2>1, <2>3, StrForm
  <2>5. i - 1 \in sh.retPtrs => DoesARM(L[7 + i], "clear", 31, 16, disp, ARM!NoImm)
    BY <2>2, <2>4
  <2> QED BY <2>2, <2>5 DEF disp, q
<1>9. \A k \in 1..31 + m : Len(L[k]) <= 1
  <2> SUFFICES ASSUME NEW k \in 1..31 + m PROVE Len(L[k]) <= 1
    OBVIOUS
  <2>1. ASSUME NEW op, NEW a, NEW b, NEW n, NEW imm, DoesARM(L[k], op, a, b, n, imm)
        PROVE  Len(L[k]) <= 1
    BY <2>1 DEF DoesARM
  <2>2. CASE k \in 8..7 + m
    <3>1. PICK i \in 1..m : k = 7 + i
      BY <1>1, <2>2
    <3>2. Len(L[7 + i]) = 0 \/ Len(L[7 + i]) = 1
      BY <1>8 DEF DoesARM
    <3>3. L[k] = L[7 + i]
      BY <3>1
    <3>4. PICK n : n = Len(L[k])
      OBVIOUS
    <3>5. n = 0 \/ n = 1
      BY <3>2, <3>3, <3>4
    <3>6. n <= 1
      BY <3>5
    <3> QED BY <3>4, <3>6
  <2>3. CASE k \in 8 + m..22 + m
    <3>1. PICK i \in 1..15 : k = 7 + m + i
      BY <1>1, <2>3
    <3> QED BY <1>7, <2>1, <3>1
  <2>4. CASE k \in {1, 2, 3, 4, 5, 6, 7}
    BY <1>4, <2>1, <2>4
  <2>5. CASE k \in {23 + m, 24 + m, 25 + m, 26 + m, 27 + m, 28 + m}
    BY <1>5, <1>6, <2>1, <2>5
  <2>6. CASE k \in {29 + m, 30 + m, 31 + m}
    BY <1>4, <1>5, <2>1, <2>6
  <2>7. \/ k \in 8..7 + m \/ k \in 8 + m..22 + m \/ k \in {1, 2, 3, 4, 5, 6, 7}
        \/ k \in {23 + m, 24 + m, 25 + m, 26 + m, 27 + m, 28 + m} \/ k \in {29 + m, 30 + m, 31 + m}
    <3>1. m \in Nat /\ k \in Int /\ 1 <= k /\ k <= 31 + m
      BY <1>1
    <3>2. CASE k <= 7
      BY <3>1, <3>2
    <3>3. CASE 7 < k /\ k <= 7 + m
      BY <3>1, <3>3
    <3>4. CASE 7 + m < k /\ k <= 22 + m
      BY <3>1, <3>4
    <3>5. CASE 22 + m < k /\ k <= 28 + m
      BY <3>1, <3>5
    <3>6. CASE 28 + m < k
      BY <3>1, <3>6
    <3> QED BY <3>1, <3>2, <3>3, <3>4, <3>5, <3>6
  <2> QED BY <2>2, <2>3, <2>4, <2>5, <2>6, <2>7
<1>10. \A i \in 1..m :
         /\ i - 1 \in sh.retPtrs => DoesARM(L[7 + i], "clear", 31, 16, 8 * (sh.argWords + i - 1), ARM!NoImm)
         /\ i - 1 \notin sh.retPtrs => L[7 + i] = <<>>
  BY <1>8
<1> QED BY <1>1, <1>2, <1>4, <1>5, <1>6, <1>7, <1>9, <1>10 DEF ListsARM

\* what the k-th instruction of the listing does
HasARM(L, k, op, a, b, n, imm) == k \in 1..Len(L) /\ DoesARM(L[k], op, a, b, n, imm)

\* The offsets in words: at most one word each.
LEMMA OffsetsARM ==
  ASSUME NEW sh, NEW L, NEW m, ListsARM(sh, L, m)
  PROVE  /\ Offset(L, 0) = 0 /\ \A k \in 0..31 + m : Offset(L, k) \in Nat
         /\ \A k \in 1..31 + m : Offset(L, k) = Offset(L, k - 1) + Len(L[k])
<1>1. L \in Seq(Seq(BitSet)) /\ Len(L) = 31 + m
  BY DEF ListsARM, WordSeq
<1> QED BY <1>1, OffsetFacts

FetchesARM(sh, L, k, op, a, b, n, imm) ==
  ARM!Decode(Code("arm64", sh)[Offset(L, k - 1) + 1]) = ARM!Ins(op, a, b, n, imm)

\* arm64: at the k-th instruction of the listing the processor executes that one.
LEMMA FetchARM ==
  ASSUME NEW sh \in Shapes, NEW L, L = ListARM(sh), NEW k,
         NEW op, NEW a, NEW b, NEW n, NEW imm, HasARM(L, k, op, a, b, n, imm)
  PROVE  FetchesARM(sh, L, k, op, a, b, n, imm)
<1> DEFINE code == Code("arm64", sh)
<1>0. k \in 1..Len(L) /\ DoesARM(L[k], op, a, b, n, imm)
  BY DEF HasARM
<1>1. L \in Seq(Seq(BitSet)) /\ L # <<>>
  <2>0. ListsARM(sh, L, sh.retWords)
    BY ListingARM
  <2>1. L \in Seq(WordSeq) /\ Len(L) = 31 + sh.retWords /\ sh.retWords \in Nat
    BY <2>0 DEF ListsARM
  <2>2. Len(<<>>) = 0
    OBVIOUS
  <2> QED BY <2>1, <2>2 DEF WordSeq
<1>2. code = FlattenSeq(L)
  BY DEF Code, StubCode, ListARM
<1>3. \A i \in 1..Len(L[k]) : code[Offset(L, k - 1) + i] = L[k][i]
  BY <1>0, <1>1, <1>2, FlattenFacts, OffsetFacts
<1>4. Len(L[k]) = 1 /\ ARM!Decode(L[k][1]) = ARM!Ins(op, a, b, n, imm)
  BY <1>0 DEF DoesARM
<1>5. code[Offset(L, k - 1) + 1] = L[k][1]
  BY <1>3, <1>4
<1> QED BY <1>4, <1>5 DEF FetchesARM

-----------------------------------------------------------------------------
(* arm64: executing *)

\* arm64: the k-th instruction of the listing L is next
NextARM(L, k) ==
  /\ arch = "arm64" /\ arch \in Arches /\ shape \in Shapes
  /\ L = ListARM(shape) /\ pc = 4 * Offset(L, k - 1)

\* The processor reads the k-th instruction.
LEMMA ReadsARM ==
  ASSUME NEW L, NEW k, NextARM(L, k),
         NEW op, NEW a, NEW b, NEW n, NEW imm, HasARM(L, k, op, a, b, n, imm)
  PROVE  Reads(op, a, b, n, imm, 4)
<1>0. /\ arch = "arm64" /\ arch \in Arches /\ shape \in Shapes
      /\ L = ListARM(shape) /\ pc = 4 * Offset(L, k - 1)
  BY DEF NextARM
<1>1. Stub.code = Code("arm64", shape)
  BY <1>0, StubFacts
<1>2. Offset(L, k - 1) \in Nat
  <2>1. ListsARM(shape, L, shape.retWords)
    BY <1>0, ListingARM
  <2>2. k \in 1..31 + shape.retWords /\ shape.retWords \in Nat
    BY <2>1 DEF HasARM, ListsARM
  <2>3. k - 1 \in 0..31 + shape.retWords
    BY <2>2
  <2> QED BY <2>1, <2>3, OffsetsARM
<1>3. pc \div 4 = Offset(L, k - 1)
  <2>1. PICK o : o = Offset(L, k - 1)
    OBVIOUS
  <2>2. o \in Nat /\ pc = 4 * o
    BY <1>0, <1>2, <2>1
  <2> QED BY <2>1, <2>2
<1>4. I = ARM!Decode(Code("arm64", shape)[Offset(L, k - 1) + 1])
  BY <1>0, <1>1, <1>3 DEF I
<1>5. FetchesARM(shape, L, k, op, a, b, n, imm)
  BY <1>0, FetchARM
<1>6. I = ARM!Ins(op, a, b, n, imm)
  BY <1>4, <1>5 DEF FetchesARM
<1> QED BY <1>6 DEF Reads, ARM!Ins

\* MOVK changes one part.
LEMMA StepKeep ==
  ASSUME NEW a, NEW b, NEW n, NEW imm, NEW len, Executing("keep", a, b, n, imm, len),
         NEW parts, reg[a] = Num(parts), a \in DOMAIN reg
  PROVE  Written(reg, reg', a, Num([parts EXCEPT ![n + 1] = imm[1]])) /\ mem' = mem /\ Advances(len)
<1>1. Keep /\ Reads("keep", a, b, n, imm, len)
  <2>1. phase = "stub" /\ Next /\ ~AsyncPreempt /\ I.op = "keep" /\ Reads("keep", a, b, n, imm, len)
    BY DEF Executing, Reads
  <2> QED BY <2>1, StubStep
<1>2. /\ reg' = [reg EXCEPT ![a] = IF reg[a].tag = "num" THEN Num([reg[a].n EXCEPT ![n + 1] = imm[1]])
                                   ELSE Junk]
      /\ mem' = mem /\ Advances(len)
  BY <1>1 DEF Keep, Reads, Advance, Advances
<1>3. reg[a].tag = "num" /\ reg[a].n = parts
  BY DEF Num, V
<1> DEFINE v == IF reg[a].tag = "num" THEN Num([reg[a].n EXCEPT ![n + 1] = imm[1]]) ELSE Junk
<1>4. v = Num([parts EXCEPT ![n + 1] = imm[1]])
  <2>1. v = Num([reg[a].n EXCEPT ![n + 1] = imm[1]])
    BY <1>3
  <2> QED BY <1>3, <2>1
<1>5. reg' = [reg EXCEPT ![a] = v]
  BY <1>2
<1> HIDE DEF v
<1>6. Written(reg, reg', a, v)
  BY <1>5, ExceptWrites
<1> QED BY <1>2, <1>4, <1>6

\* STP writes two words.
LEMMA StepStorePair ==
  ASSUME NEW a, NEW b, NEW n, NEW c, NEW imm, NEW len, Executing("storepair", a, b, n, imm, len), imm[1] = c,
         NEW x, reg[b] = Addr(x), x + n \in DOMAIN mem, x + (n + 8) \in DOMAIN mem, x + n # x + (n + 8)
  PROVE  /\ DOMAIN mem' = DOMAIN mem /\ mem'[x + n] = reg[a] /\ mem'[x + (n + 8)] = reg[c]
         /\ \A o \in DOMAIN mem : o # x + n /\ o # x + (n + 8) => mem'[o] = mem[o]
         /\ reg' = reg /\ Advances(len)
<1>1. StorePair /\ Reads("storepair", a, b, n, imm, len)
  <2>1. phase = "stub" /\ Next /\ ~AsyncPreempt /\ I.op = "storepair" /\ Reads("storepair", a, b, n, imm, len)
    BY DEF Executing, Reads
  <2> QED BY <2>1, StubStep
<1>2. At(b, n) = x + n /\ At(b, n + 8) = x + (n + 8)
  BY AddressFacts DEF At
<1>3. /\ mem' = [mem EXCEPT ![x + n] = reg[a], ![x + (n + 8)] = reg[c]] /\ reg' = reg /\ Advances(len)
  BY <1>1, <1>2 DEF StorePair, Reads, Advance, Advances
<1>4. PICK u, v : u = x + n /\ v = x + (n + 8)
  OBVIOUS
<1>5. mem' = [mem EXCEPT ![u] = reg[a], ![v] = reg[c]] /\ u \in DOMAIN mem /\ v \in DOMAIN mem /\ u # v
  BY <1>3, <1>4
<1>6. /\ DOMAIN mem' = DOMAIN mem /\ mem'[u] = reg[a] /\ mem'[v] = reg[c]
      /\ \A o \in DOMAIN mem : o # u /\ o # v => mem'[o] = mem[o]
  BY <1>5
<1> QED BY <1>3, <1>4, <1>6

\* LDP loads two registers.
LEMMA StepLoadPair ==
  ASSUME NEW a, NEW b, NEW n, NEW c, NEW imm, NEW len, Executing("loadpair", a, b, n, imm, len), imm[1] = c,
         NEW x, reg[b] = Addr(x), a \in DOMAIN reg, c \in DOMAIN reg, a # c
  PROVE  /\ DOMAIN reg' = DOMAIN reg /\ reg'[a] = mem[x + n] /\ reg'[c] = mem[x + (n + 8)]
         /\ \A y \in DOMAIN reg : y # a /\ y # c => reg'[y] = reg[y]
         /\ mem' = mem /\ Advances(len)
<1>1. LoadPair /\ Reads("loadpair", a, b, n, imm, len)
  <2>1. phase = "stub" /\ Next /\ ~AsyncPreempt /\ I.op = "loadpair" /\ Reads("loadpair", a, b, n, imm, len)
    BY DEF Executing, Reads
  <2> QED BY <2>1, StubStep
<1>2. At(b, n) = x + n /\ At(b, n + 8) = x + (n + 8)
  BY AddressFacts DEF At
<1>3. /\ reg' = [reg EXCEPT ![a] = mem[x + n], ![c] = mem[x + (n + 8)]] /\ mem' = mem /\ Advances(len)
  BY <1>1, <1>2 DEF LoadPair, Reads, Advance, Advances
<1> QED BY <1>3

\* BLR leaves the return address in the link register.
LEMMA StepCallARM ==
  ASSUME NEW a, NEW b, NEW n, NEW imm, NEW len, Executing("call", a, b, n, imm, len),
         arch = "arm64", 30 \in DOMAIN reg
  PROVE  /\ Written(reg, reg', 30, Here(pc + len)) /\ mem' = mem
         /\ target' = reg[a] /\ phase' = "dispatch" /\ pc' = pc + len
         /\ arch' = arch /\ shape' = shape
<1>1. Call /\ Reads("call", a, b, n, imm, len)
  <2>1. phase = "stub" /\ Next /\ ~AsyncPreempt /\ I.op = "call" /\ Reads("call", a, b, n, imm, len)
    BY DEF Executing, Reads
  <2> QED BY <2>1, StubStep
<1>2. ARM!LR = 30 /\ arch # "amd64"
  BY DEF ARM!LR
<1>3. /\ reg' = [reg EXCEPT ![30] = Here(pc + len)] /\ mem' = mem
      /\ target' = reg[a] /\ phase' = "dispatch" /\ pc' = pc + len
      /\ arch' = arch /\ shape' = shape
  BY <1>1, <1>2 DEF Call, Reads
<1> QED BY <1>3, ExceptWrites

\* RET goes where the link register says.
LEMMA StepReturnARM ==
  ASSUME NEW a, NEW b, NEW n, NEW imm, NEW len, Executing("ret", a, b, n, imm, len), arch = "arm64"
  PROVE  /\ target' = reg[a] /\ reg' = reg /\ phase' = "returned"
         /\ pc' = pc /\ mem' = mem /\ arch' = arch /\ shape' = shape
<1>1. Return /\ Reads("ret", a, b, n, imm, len)
  <2>1. phase = "stub" /\ Next /\ ~AsyncPreempt /\ I.op = "ret" /\ Reads("ret", a, b, n, imm, len)
    BY DEF Executing, Reads
  <2> QED BY <2>1, StubStep
<1>2. arch # "amd64"
  OBVIOUS
<1> QED BY <1>1, <1>2 DEF Return, Reads

-----------------------------------------------------------------------------
(* arm64: what the registers and the stack hold, at each instruction *)

DepthARM(m, k) == IF k <= 3 \/ k = 31 + m THEN 0 ELSE -288

\* the frame pointer and the link register, below the frame and back; without
\* the protection the two words may be lost at once
Saved(w) == <<"arm64", 8>> \in Protected => w[-296] = In(29) /\ w[-288] = Caller

Restored(r) == <<"arm64", 8>> \in Protected => r[29] = In(29) /\ r[30] = Caller

\* what lasts: the goroutine, the frame pointer, the return address
FrameARM(sh, r, w, k) ==
  /\ DOMAIN r = 0..31 /\ DOMAIN w = Addresses(sh) /\ r[28] = In(28)
  /\ k <= 4 => r[29] = In(29)
  /\ k <= 28 + sh.retWords => r[30] = Caller
  /\ (k = 2 \/ k = 3) => r[20] = Addr(-288)
  /\ (k >= 3 /\ k <= 29 + sh.retWords) => Saved(w)
  /\ k >= 30 + sh.retWords => Restored(r)

\* the argument registers: shifted by one, the last first
IntsARM(sh, r, k) ==
  \A t \in 1..15 : /\ k >= 24 + sh.retWords - t => r[t] = In(t - 1)
                   /\ k < 24 + sh.retWords - t => r[t] = In(t)

\* what else is ready for Dispatch
PreparedARM(sh, r, w, k) ==
  /\ k <= 23 + sh.retWords => r[0] = In(0)
  /\ k >= 24 + sh.retWords => r[0] = Num(<<sh.index, 0, 0, 0>>)
  /\ k >= 6 => w[-280] = In(15)
  /\ (k >= 7 /\ k <= 24 + sh.retWords) => r[16] = Addr(8)
  /\ k >= 8 => w[-272] = Addr(8)
  /\ k = 25 + sh.retWords => r[16] = Num(<<Dispatch[1], 0, 0, 0>>)
  /\ k = 26 + sh.retWords => r[16] = Num(<<Dispatch[1], Dispatch[2], 0, 0>>)
  /\ k = 27 + sh.retWords => r[16] = Num(<<Dispatch[1], Dispatch[2], Dispatch[3], 0>>)
  /\ k = 28 + sh.retWords => r[16] = Num(Dispatch)

ReturnedARM(r) == \A t \in 0..15 : r[t] = Res(t)

\* at the k-th instruction
StandsARM(sh, k, p, r, w) ==
  /\ p = 4 * Offset(ListARM(sh), k - 1) /\ r[31] = Addr(DepthARM(sh.retWords, k))
  /\ FrameARM(sh, r, w, k)
  /\ k <= 28 + sh.retWords => /\ IntsARM(sh, r, k) /\ PreparedARM(sh, r, w, k)
                              /\ AreaBefore(sh, w, k - 8)
  /\ k >= 29 + sh.retWords => ReturnedARM(r) /\ AreaAfter(sh, w)

\* Where the stack pointer is.
LEMMA DepthsARM ==
  ASSUME NEW m \in Nat
  PROVE  /\ \A k \in 1..3 : DepthARM(m, k) = 0
         /\ \A k \in 4..30 + m : DepthARM(m, k) = -288
         /\ DepthARM(m, 31 + m) = 0
BY DEF DepthARM

\* The words of arm64's frame that matter are on the stack.
LEMMA FrameWords ==
  ASSUME NEW sh \in Shapes
  PROVE  /\ -296 \in Addresses(sh) /\ -288 \in Addresses(sh)
         /\ -280 \in Addresses(sh) /\ -272 \in Addresses(sh)
<1>1. Words(sh) \in Nat
  BY ShapeFacts DEF Words
<1>2. \A j \in -50..Words(sh) : 8 * j \in Addresses(sh)
  BY DEF Addresses
<1>3. /\ -37 \in -50..Words(sh) /\ -36 \in -50..Words(sh) /\ -35 \in -50..Words(sh)
      /\ -34 \in -50..Words(sh)
      /\ 8 * (-37) = -296 /\ 8 * (-36) = -288 /\ 8 * (-35) = -280 /\ 8 * (-34) = -272
  BY <1>1
<1> QED BY <1>2, <1>3

\* the trampoline is at the k-th instruction, and about to execute it
RunningARM(k) ==
  /\ phase = "stub" /\ Next /\ ~AsyncPreempt /\ NextARM(ListARM(shape), k)
  /\ StandsARM(shape, k, pc, reg, mem)

\* What every step starts from.
LEMMA BeginARM ==
  ASSUME NEW k, RunningARM(k), NEW op, NEW a, NEW b, NEW n, NEW imm,
         HasARM(ListARM(shape), k, op, a, b, n, imm)
  PROVE  /\ Executing(op, a, b, n, imm, 4)
         /\ k \in 1..31 + shape.retWords /\ shape.retWords \in Nat /\ shape \in Shapes
         /\ DOMAIN reg = 0..31 /\ DOMAIN mem = Addresses(shape) /\ arch = "arm64"
         /\ reg[31] = Addr(DepthARM(shape.retWords, k))
         /\ pc + 4 = 4 * Offset(ListARM(shape), k)
<1> DEFINE L == ListARM(shape)
           m == shape.retWords
<1>1. /\ phase = "stub" /\ Next /\ ~AsyncPreempt /\ NextARM(L, k)
      /\ StandsARM(shape, k, pc, reg, mem)
  BY DEF RunningARM
<1>2. shape \in Shapes /\ arch = "arm64" /\ pc = 4 * Offset(L, k - 1)
  BY <1>1 DEF NextARM
<1>3. ListsARM(shape, L, m)
  BY <1>2, ListingARM
<1>4. k \in 1..31 + m /\ m \in Nat
  BY <1>3 DEF HasARM, ListsARM
<1>5. Executing(op, a, b, n, imm, 4)
  BY <1>1, ReadsARM DEF Executing
<1>6. DOMAIN reg = 0..31 /\ DOMAIN mem = Addresses(shape) /\ reg[31] = Addr(DepthARM(m, k))
  BY <1>1 DEF StandsARM, FrameARM
<1>7. Offset(L, k) = Offset(L, k - 1) + Len(L[k])
  BY <1>3, <1>4, OffsetsARM
<1>8. Len(L[k]) = 1
  BY DEF HasARM, DoesARM
<1>9. Offset(L, k - 1) \in Nat
  <2>1. k - 1 \in 0..31 + m
    BY <1>4
  <2> QED BY <1>3, <2>1, OffsetsARM
<1>10. pc + 4 = 4 * Offset(L, k)
  BY <1>2, <1>7, <1>8, <1>9
<1> QED BY <1>2, <1>4, <1>5, <1>6, <1>10

\* Elsewhere than among the clears as many are cleared at the next instruction.
LEMMA SameClearsARM ==
  ASSUME NEW sh \in Shapes, NEW k \in Nat, k <= 7 \/ k >= 8 + sh.retWords
  PROVE  SameClears(sh, k - 8, k + 1 - 8)
<1>1. \A j \in sh.retPtrs : j \in Nat /\ j < sh.retWords
  BY ShapeFacts
<1>2. \A j \in Nat : j < sh.retWords => (j < k - 8 <=> j < k + 1 - 8)
  BY ShapeFacts
<1> QED BY <1>1, <1>2 DEF SameClears

SameIntsARM(r, r2) == \A t \in 1..15 : r2[t] = r[t]

\* Elsewhere than among the moves as many are shifted at the next instruction.
LEMMA IntsKeptARM ==
  ASSUME NEW sh \in Shapes, NEW r, NEW r2, NEW k \in Nat, IntsARM(sh, r, k), SameIntsARM(r, r2),
         k <= 7 + sh.retWords \/ k >= 23 + sh.retWords
  PROVE  IntsARM(sh, r2, k + 1)
<1> DEFINE m == sh.retWords
           j == k + 1
<1>1. SUFFICES ASSUME NEW t \in 1..15
               PROVE  /\ j >= 24 + m - t => r2[t] = In(t - 1)
                      /\ j < 24 + m - t => r2[t] = In(t)
  BY DEF IntsARM
<1>2. /\ k >= 24 + m - t => r[t] = In(t - 1)
      /\ k < 24 + m - t => r[t] = In(t)
      /\ r2[t] = r[t]
  BY DEF IntsARM, SameIntsARM
<1>3. m \in Nat
  BY ShapeFacts
<1> HIDE DEF m
<1>4. k >= 24 + m - t <=> j >= 24 + m - t
  BY <1>3 DEF m
<1>5. (k < 24 + m - t <=> ~(k >= 24 + m - t)) /\ (j < 24 + m - t <=> ~(j >= 24 + m - t))
  BY <1>3
<1> QED BY <1>2, <1>4, <1>5

\* In the frame, until the call, what lasts is untouched.
SameFrameARM(r, r2, w, w2) ==
  /\ DOMAIN r2 = DOMAIN r /\ DOMAIN w2 = DOMAIN w
  /\ r2[28] = r[28] /\ r2[30] = r[30] /\ w2[-296] = w[-296] /\ w2[-288] = w[-288]

\* What lasts, at the next instruction.
LEMMA FrameKeptARM ==
  ASSUME NEW sh \in Shapes, NEW r, NEW r2, NEW w, NEW w2, NEW k \in 4..27 + sh.retWords,
         FrameARM(sh, r, w, k), SameFrameARM(r, r2, w, w2)
  PROVE  FrameARM(sh, r2, w2, k + 1)
<1> DEFINE j == k + 1
<1>1. sh.retWords \in Nat
  BY ShapeFacts
<1>2. /\ k <= 28 + sh.retWords /\ k >= 3 /\ k <= 29 + sh.retWords
      /\ ~(j <= 4) /\ ~(j = 2 \/ j = 3) /\ ~(j >= 30 + sh.retWords)
  BY <1>1
<1>3. /\ DOMAIN r = 0..31 /\ DOMAIN w = Addresses(sh) /\ r[28] = In(28) /\ r[30] = Caller /\ Saved(w)
  BY <1>2 DEF FrameARM
<1>4. /\ DOMAIN r2 = 0..31 /\ DOMAIN w2 = Addresses(sh) /\ r2[28] = In(28) /\ r2[30] = Caller /\ Saved(w2)
  BY <1>3 DEF SameFrameARM, Saved
<1> HIDE DEF j
<1>5. FrameARM(sh, r2, w2, j)
  BY <1>2, <1>4 DEF FrameARM
<1> QED BY <1>5 DEF j

\* Writing a register other than those, or a word above the saved ones.
LEMMA RegisterWrittenARM ==
  ASSUME NEW r, NEW r2, NEW x, NEW v, NEW w, NEW w2,
         Written(r, r2, x, v), DOMAIN r = 0..31, x # 28, x # 30, w2 = w
  PROVE  SameFrameARM(r, r2, w, w2)
BY DEF SameFrameARM, Written

\* Writing a word other than the two saved ones.
LEMMA WordWrittenARM ==
  ASSUME NEW sh \in Shapes, NEW r, NEW r2, NEW x, NEW v, NEW w, NEW w2,
         Written(w, w2, x, v), DOMAIN w = Addresses(sh), x # -296, x # -288, r2 = r
  PROVE  SameFrameARM(r, r2, w, w2)
BY FrameWords DEF SameFrameARM, Written

\* Before the call, what every step ends with.
LEMMA EndARM ==
  ASSUME NEW k, k \in 1..27 + shape.retWords, RunningARM(k), shape \in Shapes,
         Advances(4), pc + 4 = 4 * Offset(ListARM(shape), k),
         k <= 7 \/ k >= 23 + shape.retWords,
         SameIntsARM(reg, reg'), SameArea(shape, mem, mem'),
         reg'[31] = Addr(DepthARM(shape.retWords, k + 1)), FrameARM(shape, reg', mem', k + 1),
         PreparedARM(shape, reg', mem', k + 1)
  PROVE  StandsARM(shape, k + 1, pc', reg', mem')
<1> DEFINE m == shape.retWords
<1>1. m \in Nat /\ k \in Nat /\ k <= 27 + m /\ (k <= 7 + m \/ k >= 23 + m)
  BY ShapeFacts
<1>2. IntsARM(shape, reg, k) /\ AreaBefore(shape, mem, k - 8)
  BY <1>1 DEF RunningARM, StandsARM
<1>3. IntsARM(shape, reg', k + 1)
  BY <1>1, <1>2, IntsKeptARM
<1>4. AreaBefore(shape, mem', k + 1 - 8)
  <2>1. SameClears(shape, k - 8, k + 1 - 8)
    BY <1>1, SameClearsARM
  <2> QED BY <1>2, <2>1, AreaKept
<1>5. k + 1 - 1 = k /\ k + 1 <= 28 + m /\ ~(k + 1 >= 29 + m)
  BY <1>1
<1>6. pc' = 4 * Offset(ListARM(shape), k)
  BY DEF Advances
<1> QED BY <1>3, <1>4, <1>5, <1>6 DEF StandsARM

-----------------------------------------------------------------------------
(* arm64: each instruction takes what holds at it to what holds at the next *)

\* What is at each position of the listing.
LEMMA HavesARM ==
  ASSUME NEW sh, NEW L, NEW m, ListsARM(sh, L, m)
  PROVE  /\ HasARM(L, 1, "add", 20, 31, -288, ARM!NoImm)
         /\ HasARM(L, 2, "storepair", 29, 20, -8, <<30, 0, 0, 0>>)
         /\ HasARM(L, 3, "add", 31, 20, 0, ARM!NoImm)
         /\ HasARM(L, 4, "add", 29, 31, -8, ARM!NoImm)
         /\ HasARM(L, 5, "store", 15, 31, 8, ARM!NoImm)
         /\ HasARM(L, 6, "add", 16, 31, 296, ARM!NoImm)
         /\ HasARM(L, 7, "store", 16, 31, 16, ARM!NoImm)
         /\ \A i \in 1..m : i - 1 \in sh.retPtrs =>
              HasARM(L, 7 + i, "clear", 31, 16, 8 * (sh.argWords + i - 1), ARM!NoImm)
         /\ \A i \in 1..15 : HasARM(L, 7 + m + i, "move", 16 - i, 15 - i, 0, ARM!NoImm)
         /\ HasARM(L, 23 + m, "set", 0, 0, 0, <<sh.index, 0, 0, 0>>)
         /\ HasARM(L, 24 + m, "set", 16, 0, 0, <<Dispatch[1], 0, 0, 0>>)
         /\ HasARM(L, 25 + m, "keep", 16, 0, 1, <<Dispatch[2], 0, 0, 0>>)
         /\ HasARM(L, 26 + m, "keep", 16, 0, 2, <<Dispatch[3], 0, 0, 0>>)
         /\ HasARM(L, 27 + m, "keep", 16, 0, 3, <<Dispatch[4], 0, 0, 0>>)
         /\ HasARM(L, 28 + m, "call", 16, 0, 0, ARM!NoImm)
         /\ HasARM(L, 29 + m, "loadpair", 29, 31, -8, <<30, 0, 0, 0>>)
         /\ HasARM(L, 30 + m, "add", 31, 31, 288, ARM!NoImm)
         /\ HasARM(L, 31 + m, "ret", 30, 0, 0, ARM!NoImm)
         /\ Len(L) = 31 + m /\ m \in Nat
<1>1. Len(L) = 31 + m /\ m \in Nat
  BY DEF ListsARM
<1>a. m \in Nat
  BY <1>1
<1>2. /\ \A i \in 1..7 : i \in 1..Len(L)
      /\ \A i \in 1..m : 7 + i \in 1..Len(L)
      /\ \A i \in 1..15 : 7 + m + i \in 1..Len(L)
      /\ \A i \in 23..31 : i + m \in 1..Len(L)
  <2>1. /\ \A i \in 1..7 : i \in 1..31 + m
        /\ \A i \in 1..m : 7 + i \in 1..31 + m
        /\ \A i \in 1..15 : 7 + m + i \in 1..31 + m
        /\ \A i \in 23..31 : i + m \in 1..31 + m
    BY <1>a
  <2> QED BY <1>1, <2>1
<1>3. /\ 1 \in 1..Len(L) /\ 2 \in 1..Len(L) /\ 3 \in 1..Len(L) /\ 4 \in 1..Len(L)
      /\ 5 \in 1..Len(L) /\ 6 \in 1..Len(L) /\ 7 \in 1..Len(L)
  BY <1>1
<1>4. /\ 23 + m \in 1..Len(L) /\ 24 + m \in 1..Len(L) /\ 25 + m \in 1..Len(L)
      /\ 26 + m \in 1..Len(L) /\ 27 + m \in 1..Len(L) /\ 28 + m \in 1..Len(L)
      /\ 29 + m \in 1..Len(L) /\ 30 + m \in 1..Len(L) /\ 31 + m \in 1..Len(L)
  BY <1>1
<1> QED BY <1>1, <1>2, <1>3, <1>4 DEF ListsARM, HasARM

\* SUB R20, SP, 288
LEMMA FrameAddressARM ==
  ASSUME RunningARM(1)
  PROVE  StandsARM(shape, 1 + 1, pc', reg', mem') /\ Advances(4)
<1> DEFINE L == ListARM(shape)
           m == shape.retWords
           k == 1
<1>1. shape \in Shapes /\ HasARM(L, k, "add", 20, 31, -288, ARM!NoImm)
  <2>1. shape \in Shapes
    BY DEF RunningARM, NextARM
  <2>2. ListsARM(shape, L, m)
    BY <2>1, ListingARM
  <2> QED BY <2>1, <2>2, HavesARM
<1>2. /\ Executing("add", 20, 31, -288, ARM!NoImm, 4) /\ m \in Nat /\ DOMAIN reg = 0..31
      /\ DOMAIN mem = Addresses(shape) /\ arch = "arm64"
      /\ reg[31] = Addr(DepthARM(m, k)) /\ pc + 4 = 4 * Offset(L, k)
  BY <1>1, BeginARM
<1> HIDE DEF L
<1>a. m \in Nat
  BY <1>2
<1>3. reg[31] = Addr(0) /\ DepthARM(m, k + 1) = 0
  <2>1. DepthARM(m, k) = 0 /\ DepthARM(m, k + 1) = 0
    BY <1>a DEF DepthARM
  <2> HIDE DEF k
  <2> QED BY <1>2, <2>1
<1>4. FrameARM(shape, reg, mem, k) /\ PreparedARM(shape, reg, mem, k)
  <2>1. StandsARM(shape, k, pc, reg, mem) /\ k <= 28 + m
    BY <1>a DEF RunningARM
  <2> HIDE DEF k
  <2> QED BY <2>1 DEF StandsARM
<1>5. Written(reg, reg', 20, Addr(-288)) /\ mem' = mem /\ Advances(4)
  <2> DEFINE top == 0
             n == -288
  <2>1. top + n = -288 /\ reg[31] = Addr(top) /\ 20 \in DOMAIN reg /\ Executing("add", 20, 31, n, ARM!NoImm, 4)
    BY <1>2, <1>3
  <2> HIDE DEF top, n, k
  <2>2. Written(reg, reg', 20, Addr(top + n)) /\ mem' = mem /\ Advances(4)
    BY <2>1, StepAdd
  <2> QED BY <2>1, <2>2
<1>6. SameIntsARM(reg, reg') /\ SameArea(shape, mem, mem')
  BY <1>2, <1>5 DEF SameIntsARM, SameArea, Written
<1>7. FrameARM(shape, reg', mem', k + 1)
  <2>1. /\ DOMAIN reg' = 0..31 /\ DOMAIN mem' = Addresses(shape) /\ reg'[28] = reg[28]
        /\ reg'[29] = reg[29] /\ reg'[30] = reg[30] /\ reg'[20] = Addr(-288)
    BY <1>2, <1>5 DEF Written
  <2>2. k <= 4 /\ k <= 28 + m
    BY <1>a
  <2> DEFINE j == k + 1
  <2>3. ~(j >= 3) /\ ~(j >= 30 + m)
    BY <1>a
  <2> HIDE DEF k, j
  <2>4. FrameARM(shape, reg', mem', j)
    BY <1>4, <2>1, <2>2, <2>3 DEF FrameARM
  <2> QED BY <2>4 DEF j
<1>8. PreparedARM(shape, reg', mem', k + 1)
  <2> DEFINE j == k + 1
  <2>1. /\ reg'[0] = reg[0]
        /\ reg'[16] = reg[16]
        /\ mem' = mem
    BY <1>1, <1>2, <1>5, FrameWords DEF Written
  <2>2. /\ k <= 23 + m /\ ~(k >= 24 + m) /\ ~(k >= 6) /\ ~(k >= 7 /\ k <= 24 + m) /\ ~(k >= 8)
        /\ ~(k = 25 + m) /\ ~(k = 26 + m) /\ ~(k = 27 + m) /\ ~(k = 28 + m)
    BY <1>a
  <2>3. /\ j <= 23 + m /\ ~(j >= 24 + m) /\ ~(j >= 6) /\ ~(j >= 7 /\ j <= 24 + m) /\ ~(j >= 8)
        /\ ~(j = 25 + m) /\ ~(j = 26 + m) /\ ~(j = 27 + m) /\ ~(j = 28 + m)
    BY <1>a
  <2> HIDE DEF k, j
  <2>4. PreparedARM(shape, reg', mem', j)
    BY <1>3, <1>4, <2>1, <2>2, <2>3 DEF PreparedARM
  <2> QED BY <2>4 DEF j
<1>9. reg'[31] = Addr(DepthARM(m, k + 1))
  <2> HIDE DEF k
  <2> QED BY <1>2, <1>3, <1>5 DEF Written
<1>10. k \in 1..27 + m /\ (k <= 7 \/ k >= 23 + m)
  BY <1>a
<1>11. StandsARM(shape, k + 1, pc', reg', mem')
  <2>1. RunningARM(k)
    OBVIOUS
  <2> HIDE DEF k
  <2> QED BY <1>1, <1>2, <1>5, <1>6, <1>7, <1>8, <1>9, <1>10, <2>1, EndARM DEF L
<1> QED BY <1>5, <1>11

\* MOV SP, R20
LEMMA StackPointerARM ==
  ASSUME RunningARM(3)
  PROVE  StandsARM(shape, 3 + 1, pc', reg', mem') /\ Advances(4)
<1> DEFINE L == ListARM(shape)
           m == shape.retWords
           k == 3
<1>1. shape \in Shapes /\ HasARM(L, k, "add", 31, 20, 0, ARM!NoImm)
  <2>1. shape \in Shapes
    BY DEF RunningARM, NextARM
  <2>2. ListsARM(shape, L, m)
    BY <2>1, ListingARM
  <2> QED BY <2>1, <2>2, HavesARM
<1>2. /\ Executing("add", 31, 20, 0, ARM!NoImm, 4) /\ m \in Nat /\ DOMAIN reg = 0..31
      /\ DOMAIN mem = Addresses(shape) /\ arch = "arm64"
      /\ reg[31] = Addr(DepthARM(m, k)) /\ pc + 4 = 4 * Offset(L, k)
  BY <1>1, BeginARM
<1> HIDE DEF L
<1>a. m \in Nat
  BY <1>2
<1>3. reg[31] = Addr(0) /\ DepthARM(m, k + 1) = -288
  <2>1. DepthARM(m, k) = 0 /\ DepthARM(m, k + 1) = -288
    BY <1>a DEF DepthARM
  <2> HIDE DEF k
  <2> QED BY <1>2, <2>1
<1>4. FrameARM(shape, reg, mem, k) /\ PreparedARM(shape, reg, mem, k)
  <2>1. StandsARM(shape, k, pc, reg, mem) /\ k <= 28 + m
    BY <1>a DEF RunningARM
  <2> HIDE DEF k
  <2> QED BY <2>1 DEF StandsARM
<1>5. Written(reg, reg', 31, Addr(-288)) /\ mem' = mem /\ Advances(4)
  <2> DEFINE top == -288
             n == 0
  <2>1. reg[20] = Addr(top)
    BY <1>4 DEF FrameARM
  <2>2. top + n = -288 /\ 31 \in DOMAIN reg /\ Executing("add", 31, 20, n, ARM!NoImm, 4)
    BY <1>2
  <2> HIDE DEF top, n, k
  <2>3. Written(reg, reg', 31, Addr(top + n)) /\ mem' = mem /\ Advances(4)
    BY <2>1, <2>2, StepAdd
  <2> QED BY <2>2, <2>3
<1>6. SameIntsARM(reg, reg') /\ SameArea(shape, mem, mem')
  BY <1>2, <1>5 DEF SameIntsARM, SameArea, Written
<1>7. FrameARM(shape, reg', mem', k + 1)
  <2>1. /\ DOMAIN reg' = 0..31 /\ DOMAIN mem' = Addresses(shape) /\ reg'[28] = reg[28]
        /\ reg'[29] = reg[29] /\ reg'[30] = reg[30] /\ mem' = mem
    BY <1>2, <1>5 DEF Written
  <2>2. k <= 4 /\ k <= 28 + m /\ k >= 3 /\ k <= 29 + m
    BY <1>a
  <2> DEFINE j == k + 1
  <2>3. ~(j = 2 \/ j = 3) /\ ~(j >= 30 + m)
    BY <1>a
  <2> HIDE DEF k, j
  <2>4. FrameARM(shape, reg', mem', j)
    BY <1>4, <2>1, <2>2, <2>3 DEF FrameARM
  <2> QED BY <2>4 DEF j
<1>8. PreparedARM(shape, reg', mem', k + 1)
  <2> DEFINE j == k + 1
  <2>1. /\ reg'[0] = reg[0]
        /\ reg'[16] = reg[16]
        /\ mem' = mem
    BY <1>1, <1>2, <1>5, FrameWords DEF Written
  <2>2. /\ k <= 23 + m /\ ~(k >= 24 + m) /\ ~(k >= 6) /\ ~(k >= 7 /\ k <= 24 + m) /\ ~(k >= 8)
        /\ ~(k = 25 + m) /\ ~(k = 26 + m) /\ ~(k = 27 + m) /\ ~(k = 28 + m)
    BY <1>a
  <2>3. /\ j <= 23 + m /\ ~(j >= 24 + m) /\ ~(j >= 6) /\ ~(j >= 7 /\ j <= 24 + m) /\ ~(j >= 8)
        /\ ~(j = 25 + m) /\ ~(j = 26 + m) /\ ~(j = 27 + m) /\ ~(j = 28 + m)
    BY <1>a
  <2> HIDE DEF k, j
  <2>4. PreparedARM(shape, reg', mem', j)
    BY <1>3, <1>4, <2>1, <2>2, <2>3 DEF PreparedARM
  <2> QED BY <2>4 DEF j
<1>9. reg'[31] = Addr(DepthARM(m, k + 1))
  <2> HIDE DEF k
  <2> QED BY <1>2, <1>3, <1>5 DEF Written
<1>10. k \in 1..27 + m /\ (k <= 7 \/ k >= 23 + m)
  BY <1>a
<1>11. StandsARM(shape, k + 1, pc', reg', mem')
  <2>1. RunningARM(k)
    OBVIOUS
  <2> HIDE DEF k
  <2> QED BY <1>1, <1>2, <1>5, <1>6, <1>7, <1>8, <1>9, <1>10, <2>1, EndARM DEF L
<1> QED BY <1>5, <1>11

\* SUB R29, SP, 8
LEMMA FramePointerARM ==
  ASSUME RunningARM(4)
  PROVE  StandsARM(shape, 4 + 1, pc', reg', mem') /\ Advances(4)
<1> DEFINE L == ListARM(shape)
           m == shape.retWords
           k == 4
<1>1. shape \in Shapes /\ HasARM(L, k, "add", 29, 31, -8, ARM!NoImm)
  <2>1. shape \in Shapes
    BY DEF RunningARM, NextARM
  <2>2. ListsARM(shape, L, m)
    BY <2>1, ListingARM
  <2> QED BY <2>1, <2>2, HavesARM
<1>2. /\ Executing("add", 29, 31, -8, ARM!NoImm, 4) /\ m \in Nat /\ DOMAIN reg = 0..31
      /\ DOMAIN mem = Addresses(shape) /\ arch = "arm64"
      /\ reg[31] = Addr(DepthARM(m, k)) /\ pc + 4 = 4 * Offset(L, k)
  BY <1>1, BeginARM
<1> HIDE DEF L
<1>a. m \in Nat
  BY <1>2
<1>3. reg[31] = Addr(-288) /\ DepthARM(m, k + 1) = -288
  <2>1. DepthARM(m, k) = -288 /\ DepthARM(m, k + 1) = -288
    BY <1>a DEF DepthARM
  <2> HIDE DEF k
  <2> QED BY <1>2, <2>1
<1>4. FrameARM(shape, reg, mem, k) /\ PreparedARM(shape, reg, mem, k)
  <2>1. StandsARM(shape, k, pc, reg, mem) /\ k <= 28 + m
    BY <1>a DEF RunningARM
  <2> HIDE DEF k
  <2> QED BY <2>1 DEF StandsARM
<1>5. Written(reg, reg', 29, Addr(-296)) /\ mem' = mem /\ Advances(4)
  <2> DEFINE top == -288
             n == -8
  <2>1. top + n = -296 /\ reg[31] = Addr(top) /\ 29 \in DOMAIN reg /\ Executing("add", 29, 31, n, ARM!NoImm, 4)
    BY <1>2, <1>3
  <2> HIDE DEF top, n, k
  <2>2. Written(reg, reg', 29, Addr(top + n)) /\ mem' = mem /\ Advances(4)
    BY <2>1, StepAdd
  <2> QED BY <2>1, <2>2
<1>6. SameIntsARM(reg, reg') /\ SameArea(shape, mem, mem')
  BY <1>2, <1>5 DEF SameIntsARM, SameArea, Written
<1>7. FrameARM(shape, reg', mem', k + 1)
  <2>1. SameFrameARM(reg, reg', mem, mem')
    BY <1>1, <1>2, <1>5, RegisterWrittenARM
  <2>2. k \in 4..27 + m
    BY <1>a
  <2> HIDE DEF k
  <2> QED BY <1>1, <1>4, <2>1, <2>2, FrameKeptARM
<1>8. PreparedARM(shape, reg', mem', k + 1)
  <2> DEFINE j == k + 1
  <2>1. /\ reg'[0] = reg[0]
        /\ reg'[16] = reg[16]
        /\ mem' = mem
    BY <1>1, <1>2, <1>5, FrameWords DEF Written
  <2>2. /\ k <= 23 + m /\ ~(k >= 24 + m) /\ ~(k >= 6) /\ ~(k >= 7 /\ k <= 24 + m) /\ ~(k >= 8)
        /\ ~(k = 25 + m) /\ ~(k = 26 + m) /\ ~(k = 27 + m) /\ ~(k = 28 + m)
    BY <1>a
  <2>3. /\ j <= 23 + m /\ ~(j >= 24 + m) /\ ~(j >= 6) /\ ~(j >= 7 /\ j <= 24 + m) /\ ~(j >= 8)
        /\ ~(j = 25 + m) /\ ~(j = 26 + m) /\ ~(j = 27 + m) /\ ~(j = 28 + m)
    BY <1>a
  <2> HIDE DEF k, j
  <2>4. PreparedARM(shape, reg', mem', j)
    BY <1>3, <1>4, <2>1, <2>2, <2>3 DEF PreparedARM
  <2> QED BY <2>4 DEF j
<1>9. reg'[31] = Addr(DepthARM(m, k + 1))
  <2> HIDE DEF k
  <2> QED BY <1>2, <1>3, <1>5 DEF Written
<1>10. k \in 1..27 + m /\ (k <= 7 \/ k >= 23 + m)
  BY <1>a
<1>11. StandsARM(shape, k + 1, pc', reg', mem')
  <2>1. RunningARM(k)
    OBVIOUS
  <2> HIDE DEF k
  <2> QED BY <1>1, <1>2, <1>5, <1>6, <1>7, <1>8, <1>9, <1>10, <2>1, EndARM DEF L
<1> QED BY <1>5, <1>11

\* the last argument register, to the stack
LEMMA LastARM ==
  ASSUME RunningARM(5)
  PROVE  StandsARM(shape, 5 + 1, pc', reg', mem') /\ Advances(4)
<1> DEFINE L == ListARM(shape)
           m == shape.retWords
           k == 5
<1>1. shape \in Shapes /\ HasARM(L, k, "store", 15, 31, 8, ARM!NoImm)
  <2>1. shape \in Shapes
    BY DEF RunningARM, NextARM
  <2>2. ListsARM(shape, L, m)
    BY <2>1, ListingARM
  <2> QED BY <2>1, <2>2, HavesARM
<1>2. /\ Executing("store", 15, 31, 8, ARM!NoImm, 4) /\ m \in Nat /\ DOMAIN reg = 0..31
      /\ DOMAIN mem = Addresses(shape) /\ arch = "arm64"
      /\ reg[31] = Addr(DepthARM(m, k)) /\ pc + 4 = 4 * Offset(L, k)
  BY <1>1, BeginARM
<1> HIDE DEF L
<1>a. m \in Nat
  BY <1>2
<1>3. reg[31] = Addr(-288) /\ DepthARM(m, k + 1) = -288
  <2>1. DepthARM(m, k) = -288 /\ DepthARM(m, k + 1) = -288
    BY <1>a DEF DepthARM
  <2> HIDE DEF k
  <2> QED BY <1>2, <2>1
<1>4. FrameARM(shape, reg, mem, k) /\ PreparedARM(shape, reg, mem, k)
  <2>1. StandsARM(shape, k, pc, reg, mem) /\ k <= 28 + m
    BY <1>a DEF RunningARM
  <2> HIDE DEF k
  <2> QED BY <2>1 DEF StandsARM
<1>b. reg[15] = In(15)
  <2>1. IntsARM(shape, reg, k)
    <3>1. StandsARM(shape, k, pc, reg, mem) /\ k <= 28 + m
      BY <1>a DEF RunningARM
    <3> HIDE DEF k
    <3> QED BY <3>1 DEF StandsARM
  <2>2. k < 24 + m - 15
    BY <1>a
  <2> HIDE DEF k
  <2> QED BY <2>1, <2>2 DEF IntsARM
<1>5. Written(mem, mem', -280, In(15)) /\ reg' = reg /\ Advances(4)
  <2> DEFINE top == -288
             n == 8
  <2>1. top + n = -280 /\ reg[31] = Addr(top) /\ top + n \in DOMAIN mem /\ Executing("store", 15, 31, n, ARM!NoImm, 4)
    BY <1>1, <1>2, <1>3, FrameWords
  <2> HIDE DEF top, n, k
  <2>2. Written(mem, mem', top + n, reg[15]) /\ reg' = reg /\ Advances(4)
    BY <2>1, StepStore
  <2> QED BY <1>b, <2>1, <2>2
<1>6. SameIntsARM(reg, reg') /\ SameArea(shape, mem, mem')
  BY <1>1, <1>2, <1>5, AreaElsewhere DEF SameIntsARM
<1>7. FrameARM(shape, reg', mem', k + 1)
  <2>1. SameFrameARM(reg, reg', mem, mem')
    BY <1>1, <1>2, <1>5, WordWrittenARM
  <2>2. k \in 4..27 + m
    BY <1>a
  <2> HIDE DEF k
  <2> QED BY <1>1, <1>4, <2>1, <2>2, FrameKeptARM
<1>8. PreparedARM(shape, reg', mem', k + 1)
  <2> DEFINE j == k + 1
  <2>1. /\ reg' = reg
        /\ mem'[-280] = In(15)
        /\ mem'[-272] = mem[-272]
    BY <1>1, <1>2, <1>5, FrameWords DEF Written
  <2>2. /\ k <= 23 + m /\ ~(k >= 24 + m) /\ ~(k >= 6) /\ ~(k >= 7 /\ k <= 24 + m) /\ ~(k >= 8)
        /\ ~(k = 25 + m) /\ ~(k = 26 + m) /\ ~(k = 27 + m) /\ ~(k = 28 + m)
    BY <1>a
  <2>3. /\ j <= 23 + m /\ ~(j >= 24 + m) /\ j >= 6 /\ ~(j >= 7 /\ j <= 24 + m) /\ ~(j >= 8)
        /\ ~(j = 25 + m) /\ ~(j = 26 + m) /\ ~(j = 27 + m) /\ ~(j = 28 + m)
    BY <1>a
  <2> HIDE DEF k, j
  <2>4. PreparedARM(shape, reg', mem', j)
    BY <1>3, <1>4, <2>1, <2>2, <2>3 DEF PreparedARM
  <2> QED BY <2>4 DEF j
<1>9. reg'[31] = Addr(DepthARM(m, k + 1))
  <2> HIDE DEF k
  <2> QED BY <1>2, <1>3, <1>5 DEF Written
<1>10. k \in 1..27 + m /\ (k <= 7 \/ k >= 23 + m)
  BY <1>a
<1>11. StandsARM(shape, k + 1, pc', reg', mem')
  <2>1. RunningARM(k)
    OBVIOUS
  <2> HIDE DEF k
  <2> QED BY <1>1, <1>2, <1>5, <1>6, <1>7, <1>8, <1>9, <1>10, <2>1, EndARM DEF L
<1> QED BY <1>5, <1>11

\* ADD R16, the address of the area
LEMMA AreaAddressARM ==
  ASSUME RunningARM(6)
  PROVE  StandsARM(shape, 6 + 1, pc', reg', mem') /\ Advances(4)
<1> DEFINE L == ListARM(shape)
           m == shape.retWords
           k == 6
<1>1. shape \in Shapes /\ HasARM(L, k, "add", 16, 31, 296, ARM!NoImm)
  <2>1. shape \in Shapes
    BY DEF RunningARM, NextARM
  <2>2. ListsARM(shape, L, m)
    BY <2>1, ListingARM
  <2> QED BY <2>1, <2>2, HavesARM
<1>2. /\ Executing("add", 16, 31, 296, ARM!NoImm, 4) /\ m \in Nat /\ DOMAIN reg = 0..31
      /\ DOMAIN mem = Addresses(shape) /\ arch = "arm64"
      /\ reg[31] = Addr(DepthARM(m, k)) /\ pc + 4 = 4 * Offset(L, k)
  BY <1>1, BeginARM
<1> HIDE DEF L
<1>a. m \in Nat
  BY <1>2
<1>3. reg[31] = Addr(-288) /\ DepthARM(m, k + 1) = -288
  <2>1. DepthARM(m, k) = -288 /\ DepthARM(m, k + 1) = -288
    BY <1>a DEF DepthARM
  <2> HIDE DEF k
  <2> QED BY <1>2, <2>1
<1>4. FrameARM(shape, reg, mem, k) /\ PreparedARM(shape, reg, mem, k)
  <2>1. StandsARM(shape, k, pc, reg, mem) /\ k <= 28 + m
    BY <1>a DEF RunningARM
  <2> HIDE DEF k
  <2> QED BY <2>1 DEF StandsARM
<1>5. Written(reg, reg', 16, Addr(8)) /\ mem' = mem /\ Advances(4)
  <2> DEFINE top == -288
             n == 296
  <2>1. top + n = 8 /\ reg[31] = Addr(top) /\ 16 \in DOMAIN reg /\ Executing("add", 16, 31, n, ARM!NoImm, 4)
    BY <1>2, <1>3
  <2> HIDE DEF top, n, k
  <2>2. Written(reg, reg', 16, Addr(top + n)) /\ mem' = mem /\ Advances(4)
    BY <2>1, StepAdd
  <2> QED BY <2>1, <2>2
<1>6. SameIntsARM(reg, reg') /\ SameArea(shape, mem, mem')
  BY <1>2, <1>5 DEF SameIntsARM, SameArea, Written
<1>7. FrameARM(shape, reg', mem', k + 1)
  <2>1. SameFrameARM(reg, reg', mem, mem')
    BY <1>1, <1>2, <1>5, RegisterWrittenARM
  <2>2. k \in 4..27 + m
    BY <1>a
  <2> HIDE DEF k
  <2> QED BY <1>1, <1>4, <2>1, <2>2, FrameKeptARM
<1>8. PreparedARM(shape, reg', mem', k + 1)
  <2> DEFINE j == k + 1
  <2>1. /\ reg'[0] = reg[0]
        /\ reg'[16] = Addr(8)
        /\ mem' = mem
    BY <1>1, <1>2, <1>5, FrameWords DEF Written
  <2>2. /\ k <= 23 + m /\ ~(k >= 24 + m) /\ k >= 6 /\ ~(k >= 7 /\ k <= 24 + m) /\ ~(k >= 8)
        /\ ~(k = 25 + m) /\ ~(k = 26 + m) /\ ~(k = 27 + m) /\ ~(k = 28 + m)
    BY <1>a
  <2>3. /\ j <= 23 + m /\ ~(j >= 24 + m) /\ j >= 6 /\ (j >= 7 /\ j <= 24 + m) /\ ~(j >= 8)
        /\ ~(j = 25 + m) /\ ~(j = 26 + m) /\ ~(j = 27 + m) /\ ~(j = 28 + m)
    BY <1>a
  <2> HIDE DEF k, j
  <2>4. PreparedARM(shape, reg', mem', j)
    BY <1>3, <1>4, <2>1, <2>2, <2>3 DEF PreparedARM
  <2> QED BY <2>4 DEF j
<1>9. reg'[31] = Addr(DepthARM(m, k + 1))
  <2> HIDE DEF k
  <2> QED BY <1>2, <1>3, <1>5 DEF Written
<1>10. k \in 1..27 + m /\ (k <= 7 \/ k >= 23 + m)
  BY <1>a
<1>11. StandsARM(shape, k + 1, pc', reg', mem')
  <2>1. RunningARM(k)
    OBVIOUS
  <2> HIDE DEF k
  <2> QED BY <1>1, <1>2, <1>5, <1>6, <1>7, <1>8, <1>9, <1>10, <2>1, EndARM DEF L
<1> QED BY <1>5, <1>11

\* that address, to the stack
LEMMA AreaArgumentARM ==
  ASSUME RunningARM(7)
  PROVE  StandsARM(shape, 7 + 1, pc', reg', mem') /\ Advances(4)
<1> DEFINE L == ListARM(shape)
           m == shape.retWords
           k == 7
<1>1. shape \in Shapes /\ HasARM(L, k, "store", 16, 31, 16, ARM!NoImm)
  <2>1. shape \in Shapes
    BY DEF RunningARM, NextARM
  <2>2. ListsARM(shape, L, m)
    BY <2>1, ListingARM
  <2> QED BY <2>1, <2>2, HavesARM
<1>2. /\ Executing("store", 16, 31, 16, ARM!NoImm, 4) /\ m \in Nat /\ DOMAIN reg = 0..31
      /\ DOMAIN mem = Addresses(shape) /\ arch = "arm64"
      /\ reg[31] = Addr(DepthARM(m, k)) /\ pc + 4 = 4 * Offset(L, k)
  BY <1>1, BeginARM
<1> HIDE DEF L
<1>a. m \in Nat
  BY <1>2
<1>3. reg[31] = Addr(-288) /\ DepthARM(m, k + 1) = -288
  <2>1. DepthARM(m, k) = -288 /\ DepthARM(m, k + 1) = -288
    BY <1>a DEF DepthARM
  <2> HIDE DEF k
  <2> QED BY <1>2, <2>1
<1>4. FrameARM(shape, reg, mem, k) /\ PreparedARM(shape, reg, mem, k)
  <2>1. StandsARM(shape, k, pc, reg, mem) /\ k <= 28 + m
    BY <1>a DEF RunningARM
  <2> HIDE DEF k
  <2> QED BY <2>1 DEF StandsARM
<1>b. reg[16] = Addr(8)
  <2>1. k >= 7 /\ k <= 24 + m
    BY <1>a
  <2> HIDE DEF k
  <2> QED BY <1>4, <2>1 DEF PreparedARM
<1>5. Written(mem, mem', -272, Addr(8)) /\ reg' = reg /\ Advances(4)
  <2> DEFINE top == -288
             n == 16
  <2>1. top + n = -272 /\ reg[31] = Addr(top) /\ top + n \in DOMAIN mem /\ Executing("store", 16, 31, n, ARM!NoImm, 4)
    BY <1>1, <1>2, <1>3, FrameWords
  <2> HIDE DEF top, n, k
  <2>2. Written(mem, mem', top + n, reg[16]) /\ reg' = reg /\ Advances(4)
    BY <2>1, StepStore
  <2> QED BY <1>b, <2>1, <2>2
<1>6. SameIntsARM(reg, reg') /\ SameArea(shape, mem, mem')
  BY <1>1, <1>2, <1>5, AreaElsewhere DEF SameIntsARM
<1>7. FrameARM(shape, reg', mem', k + 1)
  <2>1. SameFrameARM(reg, reg', mem, mem')
    BY <1>1, <1>2, <1>5, WordWrittenARM
  <2>2. k \in 4..27 + m
    BY <1>a
  <2> HIDE DEF k
  <2> QED BY <1>1, <1>4, <2>1, <2>2, FrameKeptARM
<1>8. PreparedARM(shape, reg', mem', k + 1)
  <2> DEFINE j == k + 1
  <2>1. /\ reg' = reg
        /\ mem'[-280] = mem[-280]
        /\ mem'[-272] = Addr(8)
    BY <1>1, <1>2, <1>5, FrameWords DEF Written
  <2>2. /\ k <= 23 + m /\ ~(k >= 24 + m) /\ k >= 6 /\ (k >= 7 /\ k <= 24 + m) /\ ~(k >= 8)
        /\ ~(k = 25 + m) /\ ~(k = 26 + m) /\ ~(k = 27 + m) /\ ~(k = 28 + m)
    BY <1>a
  <2>3. /\ j <= 23 + m /\ ~(j >= 24 + m) /\ j >= 6 /\ (j >= 7 /\ j <= 24 + m) /\ j >= 8
        /\ ~(j = 25 + m) /\ ~(j = 26 + m) /\ ~(j = 27 + m) /\ ~(j = 28 + m)
    BY <1>a
  <2> HIDE DEF k, j
  <2>4. PreparedARM(shape, reg', mem', j)
    BY <1>3, <1>4, <2>1, <2>2, <2>3 DEF PreparedARM
  <2> QED BY <2>4 DEF j
<1>9. reg'[31] = Addr(DepthARM(m, k + 1))
  <2> HIDE DEF k
  <2> QED BY <1>2, <1>3, <1>5 DEF Written
<1>10. k \in 1..27 + m /\ (k <= 7 \/ k >= 23 + m)
  BY <1>a
<1>11. StandsARM(shape, k + 1, pc', reg', mem')
  <2>1. RunningARM(k)
    OBVIOUS
  <2> HIDE DEF k
  <2> QED BY <1>1, <1>2, <1>5, <1>6, <1>7, <1>8, <1>9, <1>10, <2>1, EndARM DEF L
<1> QED BY <1>5, <1>11

\* the method's index
LEMMA IndexARM ==
  ASSUME RunningARM(23 + shape.retWords)
  PROVE  StandsARM(shape, 23 + shape.retWords + 1, pc', reg', mem') /\ Advances(4)
<1> DEFINE L == ListARM(shape)
           m == shape.retWords
           k == 23 + m
<1>1. shape \in Shapes /\ HasARM(L, k, "set", 0, 0, 0, <<shape.index, 0, 0, 0>>)
  <2>1. shape \in Shapes
    BY DEF RunningARM, NextARM
  <2>2. ListsARM(shape, L, m)
    BY <2>1, ListingARM
  <2> QED BY <2>1, <2>2, HavesARM
<1>2. /\ Executing("set", 0, 0, 0, <<shape.index, 0, 0, 0>>, 4) /\ m \in Nat /\ DOMAIN reg = 0..31
      /\ DOMAIN mem = Addresses(shape) /\ arch = "arm64"
      /\ reg[31] = Addr(DepthARM(m, k)) /\ pc + 4 = 4 * Offset(L, k)
  BY <1>1, BeginARM
<1> HIDE DEF L
<1>a. m \in Nat
  BY <1>2
<1>3. reg[31] = Addr(-288) /\ DepthARM(m, k + 1) = -288
  <2>1. DepthARM(m, k) = -288 /\ DepthARM(m, k + 1) = -288
    BY <1>a DEF DepthARM
  <2> HIDE DEF k
  <2> QED BY <1>2, <2>1
<1>4. FrameARM(shape, reg, mem, k) /\ PreparedARM(shape, reg, mem, k)
  <2>1. StandsARM(shape, k, pc, reg, mem) /\ k <= 28 + m
    BY <1>a DEF RunningARM
  <2> HIDE DEF k
  <2> QED BY <2>1 DEF StandsARM
<1>5. Written(reg, reg', 0, Num(<<shape.index, 0, 0, 0>>)) /\ mem' = mem /\ Advances(4)
  <2>1. 0 \in DOMAIN reg
    BY <1>2
  <2> HIDE DEF k
  <2> QED BY <1>2, <2>1, StepSet
<1>6. SameIntsARM(reg, reg') /\ SameArea(shape, mem, mem')
  BY <1>2, <1>5 DEF SameIntsARM, SameArea, Written
<1>7. FrameARM(shape, reg', mem', k + 1)
  <2>1. SameFrameARM(reg, reg', mem, mem')
    BY <1>1, <1>2, <1>5, RegisterWrittenARM
  <2>2. k \in 4..27 + m
    BY <1>a
  <2> HIDE DEF k
  <2> QED BY <1>1, <1>4, <2>1, <2>2, FrameKeptARM
<1>8. PreparedARM(shape, reg', mem', k + 1)
  <2> DEFINE j == k + 1
  <2>1. /\ reg'[0] = Num(<<shape.index, 0, 0, 0>>)
        /\ reg'[16] = reg[16]
        /\ mem' = mem
    BY <1>1, <1>2, <1>5, FrameWords DEF Written
  <2>2. /\ k <= 23 + m /\ ~(k >= 24 + m) /\ k >= 6 /\ (k >= 7 /\ k <= 24 + m) /\ k >= 8
        /\ ~(k = 25 + m) /\ ~(k = 26 + m) /\ ~(k = 27 + m) /\ ~(k = 28 + m)
    BY <1>a
  <2>3. /\ ~(j <= 23 + m) /\ j >= 24 + m /\ j >= 6 /\ (j >= 7 /\ j <= 24 + m) /\ j >= 8
        /\ ~(j = 25 + m) /\ ~(j = 26 + m) /\ ~(j = 27 + m) /\ ~(j = 28 + m)
    BY <1>a
  <2> HIDE DEF k, j
  <2>4. PreparedARM(shape, reg', mem', j)
    BY <1>3, <1>4, <2>1, <2>2, <2>3 DEF PreparedARM
  <2> QED BY <2>4 DEF j
<1>9. reg'[31] = Addr(DepthARM(m, k + 1))
  <2> HIDE DEF k
  <2> QED BY <1>2, <1>3, <1>5 DEF Written
<1>10. k \in 1..27 + m /\ (k <= 7 \/ k >= 23 + m)
  BY <1>a
<1>11. StandsARM(shape, k + 1, pc', reg', mem')
  <2>1. RunningARM(k)
    OBVIOUS
  <2> HIDE DEF k
  <2> QED BY <1>1, <1>2, <1>5, <1>6, <1>7, <1>8, <1>9, <1>10, <2>1, EndARM DEF L
<1> QED BY <1>5, <1>11

\* the address of Dispatch, part by part
LEMMA AddressARM1 ==
  ASSUME RunningARM(24 + shape.retWords)
  PROVE  StandsARM(shape, 24 + shape.retWords + 1, pc', reg', mem') /\ Advances(4)
<1> DEFINE L == ListARM(shape)
           m == shape.retWords
           k == 24 + m
<1>1. shape \in Shapes /\ HasARM(L, k, "set", 16, 0, 0, <<Dispatch[1], 0, 0, 0>>)
  <2>1. shape \in Shapes
    BY DEF RunningARM, NextARM
  <2>2. ListsARM(shape, L, m)
    BY <2>1, ListingARM
  <2> QED BY <2>1, <2>2, HavesARM
<1>2. /\ Executing("set", 16, 0, 0, <<Dispatch[1], 0, 0, 0>>, 4) /\ m \in Nat /\ DOMAIN reg = 0..31
      /\ DOMAIN mem = Addresses(shape) /\ arch = "arm64"
      /\ reg[31] = Addr(DepthARM(m, k)) /\ pc + 4 = 4 * Offset(L, k)
  BY <1>1, BeginARM
<1> HIDE DEF L
<1>a. m \in Nat
  BY <1>2
<1>3. reg[31] = Addr(-288) /\ DepthARM(m, k + 1) = -288
  <2>1. DepthARM(m, k) = -288 /\ DepthARM(m, k + 1) = -288
    BY <1>a DEF DepthARM
  <2> HIDE DEF k
  <2> QED BY <1>2, <2>1
<1>4. FrameARM(shape, reg, mem, k) /\ PreparedARM(shape, reg, mem, k)
  <2>1. StandsARM(shape, k, pc, reg, mem) /\ k <= 28 + m
    BY <1>a DEF RunningARM
  <2> HIDE DEF k
  <2> QED BY <2>1 DEF StandsARM
<1>5. Written(reg, reg', 16, Num(<<Dispatch[1], 0, 0, 0>>)) /\ mem' = mem /\ Advances(4)
  <2>1. 16 \in DOMAIN reg
    BY <1>2
  <2> HIDE DEF k
  <2> QED BY <1>2, <2>1, StepSet
<1>6. SameIntsARM(reg, reg') /\ SameArea(shape, mem, mem')
  BY <1>2, <1>5 DEF SameIntsARM, SameArea, Written
<1>7. FrameARM(shape, reg', mem', k + 1)
  <2>1. SameFrameARM(reg, reg', mem, mem')
    BY <1>1, <1>2, <1>5, RegisterWrittenARM
  <2>2. k \in 4..27 + m
    BY <1>a
  <2> HIDE DEF k
  <2> QED BY <1>1, <1>4, <2>1, <2>2, FrameKeptARM
<1>8. PreparedARM(shape, reg', mem', k + 1)
  <2> DEFINE j == k + 1
  <2>1. /\ reg'[0] = reg[0]
        /\ reg'[16] = Num(<<Dispatch[1], 0, 0, 0>>)
        /\ mem' = mem
    BY <1>1, <1>2, <1>5, FrameWords DEF Written
  <2>2. /\ ~(k <= 23 + m) /\ k >= 24 + m /\ k >= 6 /\ (k >= 7 /\ k <= 24 + m) /\ k >= 8
        /\ ~(k = 25 + m) /\ ~(k = 26 + m) /\ ~(k = 27 + m) /\ ~(k = 28 + m)
    BY <1>a
  <2>3. /\ ~(j <= 23 + m) /\ j >= 24 + m /\ j >= 6 /\ ~(j >= 7 /\ j <= 24 + m) /\ j >= 8
        /\ j = 25 + m /\ ~(j = 26 + m) /\ ~(j = 27 + m) /\ ~(j = 28 + m)
    BY <1>a
  <2> HIDE DEF k, j
  <2>4. PreparedARM(shape, reg', mem', j)
    BY <1>3, <1>4, <2>1, <2>2, <2>3 DEF PreparedARM
  <2> QED BY <2>4 DEF j
<1>9. reg'[31] = Addr(DepthARM(m, k + 1))
  <2> HIDE DEF k
  <2> QED BY <1>2, <1>3, <1>5 DEF Written
<1>10. k \in 1..27 + m /\ (k <= 7 \/ k >= 23 + m)
  BY <1>a
<1>11. StandsARM(shape, k + 1, pc', reg', mem')
  <2>1. RunningARM(k)
    OBVIOUS
  <2> HIDE DEF k
  <2> QED BY <1>1, <1>2, <1>5, <1>6, <1>7, <1>8, <1>9, <1>10, <2>1, EndARM DEF L
<1> QED BY <1>5, <1>11

\* MOVK, part 2
LEMMA AddressARM2 ==
  ASSUME RunningARM(25 + shape.retWords)
  PROVE  StandsARM(shape, 25 + shape.retWords + 1, pc', reg', mem') /\ Advances(4)
<1> DEFINE L == ListARM(shape)
           m == shape.retWords
           k == 25 + m
<1>1. shape \in Shapes /\ HasARM(L, k, "keep", 16, 0, 1, <<Dispatch[2], 0, 0, 0>>)
  <2>1. shape \in Shapes
    BY DEF RunningARM, NextARM
  <2>2. ListsARM(shape, L, m)
    BY <2>1, ListingARM
  <2> QED BY <2>1, <2>2, HavesARM
<1>2. /\ Executing("keep", 16, 0, 1, <<Dispatch[2], 0, 0, 0>>, 4) /\ m \in Nat /\ DOMAIN reg = 0..31
      /\ DOMAIN mem = Addresses(shape) /\ arch = "arm64"
      /\ reg[31] = Addr(DepthARM(m, k)) /\ pc + 4 = 4 * Offset(L, k)
  BY <1>1, BeginARM
<1> HIDE DEF L
<1>a. m \in Nat
  BY <1>2
<1>3. reg[31] = Addr(-288) /\ DepthARM(m, k + 1) = -288
  <2>1. DepthARM(m, k) = -288 /\ DepthARM(m, k + 1) = -288
    BY <1>a DEF DepthARM
  <2> HIDE DEF k
  <2> QED BY <1>2, <2>1
<1>4. FrameARM(shape, reg, mem, k) /\ PreparedARM(shape, reg, mem, k)
  <2>1. StandsARM(shape, k, pc, reg, mem) /\ k <= 28 + m
    BY <1>a DEF RunningARM
  <2> HIDE DEF k
  <2> QED BY <2>1 DEF StandsARM
<1>5. Written(reg, reg', 16, Num(<<Dispatch[1], Dispatch[2], 0, 0>>)) /\ mem' = mem /\ Advances(4)
  <2> DEFINE parts == <<Dispatch[1], 0, 0, 0>>
             imm == <<Dispatch[2], 0, 0, 0>>
  <2>1. 16 \in DOMAIN reg /\ reg[16] = Num(parts)
    <3>1. k = 25 + m
      OBVIOUS
    <3> HIDE DEF k
    <3> QED BY <1>2, <1>4, <3>1 DEF PreparedARM
  <2>2. [parts EXCEPT ![1 + 1] = imm[1]] = <<Dispatch[1], Dispatch[2], 0, 0>>
    BY DispatchAssumption
  <2> HIDE DEF k, parts
  <2>3. Executing("keep", 16, 0, 1, imm, 4)
    BY <1>2
  <2> HIDE DEF imm
  <2>4. Written(reg, reg', 16, Num([parts EXCEPT ![1 + 1] = imm[1]])) /\ mem' = mem /\ Advances(4)
    BY <2>1, <2>3, StepKeep
  <2> QED BY <2>2, <2>4
<1>6. SameIntsARM(reg, reg') /\ SameArea(shape, mem, mem')
  BY <1>2, <1>5 DEF SameIntsARM, SameArea, Written
<1>7. FrameARM(shape, reg', mem', k + 1)
  <2>1. SameFrameARM(reg, reg', mem, mem')
    BY <1>1, <1>2, <1>5, RegisterWrittenARM
  <2>2. k \in 4..27 + m
    BY <1>a
  <2> HIDE DEF k
  <2> QED BY <1>1, <1>4, <2>1, <2>2, FrameKeptARM
<1>8. PreparedARM(shape, reg', mem', k + 1)
  <2> DEFINE j == k + 1
  <2>1. /\ reg'[0] = reg[0]
        /\ reg'[16] = Num(<<Dispatch[1], Dispatch[2], 0, 0>>)
        /\ mem' = mem
    BY <1>1, <1>2, <1>5, FrameWords DEF Written
  <2>2. /\ ~(k <= 23 + m) /\ k >= 24 + m /\ k >= 6 /\ ~(k >= 7 /\ k <= 24 + m) /\ k >= 8
        /\ k = 25 + m /\ ~(k = 26 + m) /\ ~(k = 27 + m) /\ ~(k = 28 + m)
    BY <1>a
  <2>3. /\ ~(j <= 23 + m) /\ j >= 24 + m /\ j >= 6 /\ ~(j >= 7 /\ j <= 24 + m) /\ j >= 8
        /\ ~(j = 25 + m) /\ j = 26 + m /\ ~(j = 27 + m) /\ ~(j = 28 + m)
    BY <1>a
  <2> HIDE DEF k, j
  <2>4. PreparedARM(shape, reg', mem', j)
    BY <1>3, <1>4, <2>1, <2>2, <2>3 DEF PreparedARM
  <2> QED BY <2>4 DEF j
<1>9. reg'[31] = Addr(DepthARM(m, k + 1))
  <2> HIDE DEF k
  <2> QED BY <1>2, <1>3, <1>5 DEF Written
<1>10. k \in 1..27 + m /\ (k <= 7 \/ k >= 23 + m)
  BY <1>a
<1>11. StandsARM(shape, k + 1, pc', reg', mem')
  <2>1. RunningARM(k)
    OBVIOUS
  <2> HIDE DEF k
  <2> QED BY <1>1, <1>2, <1>5, <1>6, <1>7, <1>8, <1>9, <1>10, <2>1, EndARM DEF L
<1> QED BY <1>5, <1>11

\* MOVK, part 3
LEMMA AddressARM3 ==
  ASSUME RunningARM(26 + shape.retWords)
  PROVE  StandsARM(shape, 26 + shape.retWords + 1, pc', reg', mem') /\ Advances(4)
<1> DEFINE L == ListARM(shape)
           m == shape.retWords
           k == 26 + m
<1>1. shape \in Shapes /\ HasARM(L, k, "keep", 16, 0, 2, <<Dispatch[3], 0, 0, 0>>)
  <2>1. shape \in Shapes
    BY DEF RunningARM, NextARM
  <2>2. ListsARM(shape, L, m)
    BY <2>1, ListingARM
  <2> QED BY <2>1, <2>2, HavesARM
<1>2. /\ Executing("keep", 16, 0, 2, <<Dispatch[3], 0, 0, 0>>, 4) /\ m \in Nat /\ DOMAIN reg = 0..31
      /\ DOMAIN mem = Addresses(shape) /\ arch = "arm64"
      /\ reg[31] = Addr(DepthARM(m, k)) /\ pc + 4 = 4 * Offset(L, k)
  BY <1>1, BeginARM
<1> HIDE DEF L
<1>a. m \in Nat
  BY <1>2
<1>3. reg[31] = Addr(-288) /\ DepthARM(m, k + 1) = -288
  <2>1. DepthARM(m, k) = -288 /\ DepthARM(m, k + 1) = -288
    BY <1>a DEF DepthARM
  <2> HIDE DEF k
  <2> QED BY <1>2, <2>1
<1>4. FrameARM(shape, reg, mem, k) /\ PreparedARM(shape, reg, mem, k)
  <2>1. StandsARM(shape, k, pc, reg, mem) /\ k <= 28 + m
    BY <1>a DEF RunningARM
  <2> HIDE DEF k
  <2> QED BY <2>1 DEF StandsARM
<1>5. Written(reg, reg', 16, Num(<<Dispatch[1], Dispatch[2], Dispatch[3], 0>>)) /\ mem' = mem /\ Advances(4)
  <2> DEFINE parts == <<Dispatch[1], Dispatch[2], 0, 0>>
             imm == <<Dispatch[3], 0, 0, 0>>
  <2>1. 16 \in DOMAIN reg /\ reg[16] = Num(parts)
    <3>1. k = 26 + m
      OBVIOUS
    <3> HIDE DEF k
    <3> QED BY <1>2, <1>4, <3>1 DEF PreparedARM
  <2>2. [parts EXCEPT ![2 + 1] = imm[1]] = <<Dispatch[1], Dispatch[2], Dispatch[3], 0>>
    BY DispatchAssumption
  <2> HIDE DEF k, parts
  <2>3. Executing("keep", 16, 0, 2, imm, 4)
    BY <1>2
  <2> HIDE DEF imm
  <2>4. Written(reg, reg', 16, Num([parts EXCEPT ![2 + 1] = imm[1]])) /\ mem' = mem /\ Advances(4)
    BY <2>1, <2>3, StepKeep
  <2> QED BY <2>2, <2>4
<1>6. SameIntsARM(reg, reg') /\ SameArea(shape, mem, mem')
  BY <1>2, <1>5 DEF SameIntsARM, SameArea, Written
<1>7. FrameARM(shape, reg', mem', k + 1)
  <2>1. SameFrameARM(reg, reg', mem, mem')
    BY <1>1, <1>2, <1>5, RegisterWrittenARM
  <2>2. k \in 4..27 + m
    BY <1>a
  <2> HIDE DEF k
  <2> QED BY <1>1, <1>4, <2>1, <2>2, FrameKeptARM
<1>8. PreparedARM(shape, reg', mem', k + 1)
  <2> DEFINE j == k + 1
  <2>1. /\ reg'[0] = reg[0]
        /\ reg'[16] = Num(<<Dispatch[1], Dispatch[2], Dispatch[3], 0>>)
        /\ mem' = mem
    BY <1>1, <1>2, <1>5, FrameWords DEF Written
  <2>2. /\ ~(k <= 23 + m) /\ k >= 24 + m /\ k >= 6 /\ ~(k >= 7 /\ k <= 24 + m) /\ k >= 8
        /\ ~(k = 25 + m) /\ k = 26 + m /\ ~(k = 27 + m) /\ ~(k = 28 + m)
    BY <1>a
  <2>3. /\ ~(j <= 23 + m) /\ j >= 24 + m /\ j >= 6 /\ ~(j >= 7 /\ j <= 24 + m) /\ j >= 8
        /\ ~(j = 25 + m) /\ ~(j = 26 + m) /\ j = 27 + m /\ ~(j = 28 + m)
    BY <1>a
  <2> HIDE DEF k, j
  <2>4. PreparedARM(shape, reg', mem', j)
    BY <1>3, <1>4, <2>1, <2>2, <2>3 DEF PreparedARM
  <2> QED BY <2>4 DEF j
<1>9. reg'[31] = Addr(DepthARM(m, k + 1))
  <2> HIDE DEF k
  <2> QED BY <1>2, <1>3, <1>5 DEF Written
<1>10. k \in 1..27 + m /\ (k <= 7 \/ k >= 23 + m)
  BY <1>a
<1>11. StandsARM(shape, k + 1, pc', reg', mem')
  <2>1. RunningARM(k)
    OBVIOUS
  <2> HIDE DEF k
  <2> QED BY <1>1, <1>2, <1>5, <1>6, <1>7, <1>8, <1>9, <1>10, <2>1, EndARM DEF L
<1> QED BY <1>5, <1>11

\* MOVK, part 4
LEMMA AddressARM4 ==
  ASSUME RunningARM(27 + shape.retWords)
  PROVE  StandsARM(shape, 27 + shape.retWords + 1, pc', reg', mem') /\ Advances(4)
<1> DEFINE L == ListARM(shape)
           m == shape.retWords
           k == 27 + m
<1>1. shape \in Shapes /\ HasARM(L, k, "keep", 16, 0, 3, <<Dispatch[4], 0, 0, 0>>)
  <2>1. shape \in Shapes
    BY DEF RunningARM, NextARM
  <2>2. ListsARM(shape, L, m)
    BY <2>1, ListingARM
  <2> QED BY <2>1, <2>2, HavesARM
<1>2. /\ Executing("keep", 16, 0, 3, <<Dispatch[4], 0, 0, 0>>, 4) /\ m \in Nat /\ DOMAIN reg = 0..31
      /\ DOMAIN mem = Addresses(shape) /\ arch = "arm64"
      /\ reg[31] = Addr(DepthARM(m, k)) /\ pc + 4 = 4 * Offset(L, k)
  BY <1>1, BeginARM
<1> HIDE DEF L
<1>a. m \in Nat
  BY <1>2
<1>3. reg[31] = Addr(-288) /\ DepthARM(m, k + 1) = -288
  <2>1. DepthARM(m, k) = -288 /\ DepthARM(m, k + 1) = -288
    BY <1>a DEF DepthARM
  <2> HIDE DEF k
  <2> QED BY <1>2, <2>1
<1>4. FrameARM(shape, reg, mem, k) /\ PreparedARM(shape, reg, mem, k)
  <2>1. StandsARM(shape, k, pc, reg, mem) /\ k <= 28 + m
    BY <1>a DEF RunningARM
  <2> HIDE DEF k
  <2> QED BY <2>1 DEF StandsARM
<1>5. Written(reg, reg', 16, Num(Dispatch)) /\ mem' = mem /\ Advances(4)
  <2> DEFINE parts == <<Dispatch[1], Dispatch[2], Dispatch[3], 0>>
             imm == <<Dispatch[4], 0, 0, 0>>
  <2>1. 16 \in DOMAIN reg /\ reg[16] = Num(parts)
    <3>1. k = 27 + m
      OBVIOUS
    <3> HIDE DEF k
    <3> QED BY <1>2, <1>4, <3>1 DEF PreparedARM
  <2>2. [parts EXCEPT ![3 + 1] = imm[1]] = <<Dispatch[1], Dispatch[2], Dispatch[3], Dispatch[4]>>
    BY DispatchAssumption
  <2> HIDE DEF k, parts
  <2>3. Executing("keep", 16, 0, 3, imm, 4)
    BY <1>2
  <2> HIDE DEF imm
  <2>4. Written(reg, reg', 16, Num([parts EXCEPT ![3 + 1] = imm[1]])) /\ mem' = mem /\ Advances(4)
    BY <2>1, <2>3, StepKeep
  <2>5. Dispatch = <<Dispatch[1], Dispatch[2], Dispatch[3], Dispatch[4]>>
    BY DispatchAssumption
  <2> QED BY <2>2, <2>4, <2>5
<1>6. SameIntsARM(reg, reg') /\ SameArea(shape, mem, mem')
  BY <1>2, <1>5 DEF SameIntsARM, SameArea, Written
<1>7. FrameARM(shape, reg', mem', k + 1)
  <2>1. SameFrameARM(reg, reg', mem, mem')
    BY <1>1, <1>2, <1>5, RegisterWrittenARM
  <2>2. k \in 4..27 + m
    BY <1>a
  <2> HIDE DEF k
  <2> QED BY <1>1, <1>4, <2>1, <2>2, FrameKeptARM
<1>8. PreparedARM(shape, reg', mem', k + 1)
  <2> DEFINE j == k + 1
  <2>1. /\ reg'[0] = reg[0]
        /\ reg'[16] = Num(Dispatch)
        /\ mem' = mem
    BY <1>1, <1>2, <1>5, FrameWords DEF Written
  <2>2. /\ ~(k <= 23 + m) /\ k >= 24 + m /\ k >= 6 /\ ~(k >= 7 /\ k <= 24 + m) /\ k >= 8
        /\ ~(k = 25 + m) /\ ~(k = 26 + m) /\ k = 27 + m /\ ~(k = 28 + m)
    BY <1>a
  <2>3. /\ ~(j <= 23 + m) /\ j >= 24 + m /\ j >= 6 /\ ~(j >= 7 /\ j <= 24 + m) /\ j >= 8
        /\ ~(j = 25 + m) /\ ~(j = 26 + m) /\ ~(j = 27 + m) /\ j = 28 + m
    BY <1>a
  <2> HIDE DEF k, j
  <2>4. PreparedARM(shape, reg', mem', j)
    BY <1>3, <1>4, <2>1, <2>2, <2>3 DEF PreparedARM
  <2> QED BY <2>4 DEF j
<1>9. reg'[31] = Addr(DepthARM(m, k + 1))
  <2> HIDE DEF k
  <2> QED BY <1>2, <1>3, <1>5 DEF Written
<1>10. k \in 1..27 + m /\ (k <= 7 \/ k >= 23 + m)
  BY <1>a
<1>11. StandsARM(shape, k + 1, pc', reg', mem')
  <2>1. RunningARM(k)
    OBVIOUS
  <2> HIDE DEF k
  <2> QED BY <1>1, <1>2, <1>5, <1>6, <1>7, <1>8, <1>9, <1>10, <2>1, EndARM DEF L
<1> QED BY <1>5, <1>11

\* STP R29, R30: the frame pointer and the return address, below the stack pointer
LEMMA SaveARM ==
  ASSUME RunningARM(2)
  PROVE  StandsARM(shape, 2 + 1, pc', reg', mem') /\ Advances(4)
<1> DEFINE L == ListARM(shape)
           m == shape.retWords
           imm == <<30, 0, 0, 0>>
<1>1. shape \in Shapes /\ HasARM(L, 2, "storepair", 29, 20, -8, imm)
  <2>1. shape \in Shapes
    BY DEF RunningARM, NextARM
  <2>2. ListsARM(shape, L, m)
    BY <2>1, ListingARM
  <2> QED BY <2>1, <2>2, HavesARM
<1>2. /\ Executing("storepair", 29, 20, -8, imm, 4) /\ m \in Nat /\ DOMAIN reg = 0..31
      /\ DOMAIN mem = Addresses(shape) /\ arch = "arm64"
      /\ reg[31] = Addr(DepthARM(m, 2)) /\ pc + 4 = 4 * Offset(L, 2)
  BY <1>1, BeginARM
<1> HIDE DEF L
<1>a. m \in Nat /\ imm[1] = 30
  BY <1>2
<1>3. reg[31] = Addr(0) /\ DepthARM(m, 2 + 1) = 0
  BY <1>2 DEF DepthARM
<1>4. FrameARM(shape, reg, mem, 2) /\ PreparedARM(shape, reg, mem, 2)
  <2>1. StandsARM(shape, 2, pc, reg, mem) /\ 2 <= 28 + m
    BY <1>a DEF RunningARM
  <2> QED BY <2>1 DEF StandsARM
<1>5. /\ DOMAIN reg = 0..31 /\ reg[28] = In(28) /\ reg[29] = In(29) /\ reg[30] = Caller
      /\ reg[20] = Addr(-288) /\ reg[0] = In(0)
  BY <1>4, <1>a DEF FrameARM, PreparedARM
<1>6. /\ DOMAIN mem' = DOMAIN mem /\ mem'[-296] = reg[29] /\ mem'[-288] = reg[30]
      /\ \A o \in DOMAIN mem : o # -296 /\ o # -288 => mem'[o] = mem[o]
      /\ reg' = reg /\ Advances(4)
  <2> DEFINE x == -288
             n == -8
  <2>1. /\ x + n = -296 /\ x + (n + 8) = -288 /\ x + n \in DOMAIN mem /\ x + (n + 8) \in DOMAIN mem
        /\ x + n # x + (n + 8) /\ reg[20] = Addr(x) /\ Executing("storepair", 29, 20, n, imm, 4)
    BY <1>1, <1>2, <1>5, FrameWords
  <2> DEFINE c == 30
  <2>2. imm[1] = c
    BY <1>a
  <2> HIDE DEF x, n, imm, c
  <2>3. /\ DOMAIN mem' = DOMAIN mem /\ mem'[x + n] = reg[29] /\ mem'[x + (n + 8)] = reg[c]
        /\ \A o \in DOMAIN mem : o # x + n /\ o # x + (n + 8) => mem'[o] = mem[o]
        /\ reg' = reg /\ Advances(4)
    BY <2>1, <2>2, StepStorePair
  <2> QED BY <2>1, <2>3 DEF c
<1>7. SameIntsARM(reg, reg') /\ SameArea(shape, mem, mem')
  <2>1. \A i \in 0..Words(shape) - 1 : Area(i) \in DOMAIN mem /\ Area(i) # -296 /\ Area(i) # -288
    BY <1>1, <1>2, AddressesFacts
  <2> QED BY <1>6, <2>1 DEF SameIntsARM, SameArea
<1>8. FrameARM(shape, reg', mem', 2 + 1)
  <2>1. Saved(mem')
    BY <1>5, <1>6 DEF Saved
  <2>2. ~(2 + 1 >= 30 + m) /\ 2 + 1 <= 28 + m
    BY <1>a
  <2> QED BY <1>2, <1>5, <1>6, <2>1, <2>2 DEF FrameARM
<1>9. PreparedARM(shape, reg', mem', 2 + 1)
  <2>1. /\ ~(2 + 1 >= 24 + m) /\ ~(2 + 1 = 25 + m) /\ ~(2 + 1 = 26 + m) /\ ~(2 + 1 = 27 + m)
        /\ ~(2 + 1 = 28 + m)
    BY <1>a
  <2> QED BY <1>5, <1>6, <2>1 DEF PreparedARM
<1>10. reg'[31] = Addr(DepthARM(m, 2 + 1))
  BY <1>3, <1>6
<1>11. 2 \in 1..27 + m /\ 2 <= 7
  BY <1>a
<1>12. StandsARM(shape, 2 + 1, pc', reg', mem')
  BY <1>1, <1>2, <1>6, <1>7, <1>8, <1>9, <1>10, <1>11, EndARM DEF L
<1> QED BY <1>6, <1>12

\* The clear of result i - 1.
LEMMA ClearARM ==
  ASSUME NEW i \in 1..shape.retWords, i - 1 \in shape.retPtrs, RunningARM(7 + i)
  PROVE  StandsARM(shape, 7 + i + 1, pc', reg', mem') /\ Advances(4)
<1> DEFINE L == ListARM(shape)
           m == shape.retWords
           no == ARM!NoImm
           k == 7 + i
           d == 8 * (shape.argWords + i - 1)
           word == shape.argWords + i - 1
<1>1. shape \in Shapes /\ HasARM(L, k, "clear", 31, 16, d, no)
  <2>1. shape \in Shapes
    BY DEF RunningARM, NextARM
  <2>2. ListsARM(shape, L, m)
    BY <2>1, ListingARM
  <2> QED BY <2>1, <2>2, HavesARM
<1>2. /\ Executing("clear", 31, 16, d, no, 4) /\ m \in Nat /\ DOMAIN reg = 0..31
      /\ DOMAIN mem = Addresses(shape) /\ arch = "arm64"
      /\ reg[31] = Addr(DepthARM(m, k)) /\ pc + 4 = 4 * Offset(L, k)
  BY <1>1, BeginARM
<1> HIDE DEF L
<1>3. /\ i \in 1..m /\ i \in Nat /\ i <= m /\ k \in 8..7 + m /\ k \in Nat
      /\ shape.argWords \in Nat /\ Words(shape) = shape.argWords + m /\ word \in 0..Words(shape) - 1
  <2>1. shape.argWords \in Nat /\ Words(shape) = shape.argWords + m
    BY <1>1, ShapeFacts, AddressesFacts
  <2>a. m \in Nat
    BY <1>2
  <2> HIDE DEF no, d
  <2> DEFINE words == shape.argWords
  <2>b. i \in 1..m /\ words \in Nat /\ shape.argWords = words /\ Words(shape) = words + m /\ word = words + i - 1
    BY <2>1
  <2> HIDE DEF m, words, word
  <2>2. /\ i \in 1..m /\ i \in Nat /\ i <= m /\ k \in 8..7 + m /\ k \in Nat
        /\ words + i - 1 \in 0..words + m - 1
    BY <2>a, <2>b
  <2>3. word \in 0..Words(shape) - 1
    BY <2>a, <2>b, <2>2
  <2> HIDE DEF k
  <2> QED BY <2>1, <2>2, <2>3, Zenon
<1>4. /\ FrameARM(shape, reg, mem, k) /\ IntsARM(shape, reg, k) /\ PreparedARM(shape, reg, mem, k)
      /\ AreaBefore(shape, mem, k - 8)
  <2>1. k <= 28 + m
    BY <1>2, <1>3
  <2>2. StandsARM(shape, k, pc, reg, mem)
    BY DEF RunningARM
  <2> HIDE DEF k, no, d
  <2> QED BY <2>1, <2>2 DEF StandsARM
<1>5. Written(mem, mem', Area(word), Nil) /\ reg' = reg /\ Advances(4)
  <2>1. 8 + d = Area(word) /\ 8 + d \in DOMAIN mem
    <3>1. 8 + d = 8 * (word + 1)
      BY <1>3
    <3>2. Area(word) \in Addresses(shape)
      BY <1>1, <1>3, AddressesFacts
    <3> HIDE DEF d, word
    <3> QED BY <1>2, <3>1, <3>2 DEF Area
  <2>2. reg[16] = Addr(8)
    <3>1. k >= 7 /\ k <= 24 + m
      BY <1>2, <1>3
    <3> HIDE DEF k
    <3> QED BY <1>4, <3>1 DEF PreparedARM
  <2>3. Written(mem, mem', 8 + d, Nil) /\ reg' = reg /\ Advances(4)
    BY <1>2, <2>1, <2>2, StepClear
  <2> QED BY <2>1, <2>3
<1> HIDE DEF no, d
<1>6. FrameARM(shape, reg', mem', k + 1)
  <2>1. Area(word) # -296 /\ Area(word) # -288
    BY <1>1, <1>3, AddressesFacts
  <2>2. SameFrameARM(reg, reg', mem, mem')
    BY <1>1, <1>2, <1>5, <2>1, WordWrittenARM
  <2>3. k \in 4..27 + m
    BY <1>2, <1>3
  <2> HIDE DEF k
  <2> QED BY <1>1, <1>4, <2>2, <2>3, FrameKeptARM
<1>7. PreparedARM(shape, reg', mem', k + 1)
  <2> DEFINE j == k + 1
  <2>1. reg' = reg /\ mem'[-280] = mem[-280] /\ mem'[-272] = mem[-272]
    <3>1. Area(word) # -280 /\ Area(word) # -272
      BY <1>1, <1>3, AddressesFacts
    <3> QED BY <1>1, <1>2, <1>5, <3>1, FrameWords DEF Written
  <2>2. k <= 23 + m /\ k >= 6 /\ k >= 7 /\ k <= 24 + m /\ k >= 8
    BY <1>2, <1>3
  <2>3. /\ j <= 23 + m /\ ~(j >= 24 + m) /\ ~(j = 25 + m) /\ ~(j = 26 + m) /\ ~(j = 27 + m)
        /\ ~(j = 28 + m)
    BY <1>2, <1>3
  <2> HIDE DEF k, j
  <2>4. PreparedARM(shape, reg', mem', j)
    BY <1>4, <2>1, <2>2, <2>3 DEF PreparedARM
  <2> QED BY <2>4 DEF j
<1>8. IntsARM(shape, reg', k + 1)
  <2>1. SameIntsARM(reg, reg') /\ k <= 7 + m
    BY <1>2, <1>3, <1>5 DEF SameIntsARM
  <2> HIDE DEF k
  <2> QED BY <1>1, <1>3, <1>4, <2>1, IntsKeptARM
<1>9. AreaBefore(shape, mem', k + 1 - 8)
  <2>1. k - 8 = i - 1 /\ k + 1 - 8 = i
    BY <1>3
  <2>2. AreaBefore(shape, mem, i - 1)
    BY <1>4, <2>1
  <2>3. SUFFICES ASSUME NEW j \in 0..Words(shape) - 1
                 PROVE  /\ (j < shape.argWords /\ j \in shape.argPtrs) => mem'[Area(j)] = Pointer(j)
                        /\ (j < shape.argWords /\ j \notin shape.argPtrs) => mem'[Area(j)] = Data(j)
                        /\ (j >= shape.argWords /\ j - shape.argWords \in shape.retPtrs /\ j - shape.argWords < i)
                             => mem'[Area(j)] = Nil
                        /\ (j >= shape.argWords /\ ~(j - shape.argWords \in shape.retPtrs /\ j - shape.argWords < i))
                             => mem'[Area(j)] = Stale(j)
    BY <2>1 DEF AreaBefore
  <2>4. CASE j = word
    <3>1. mem'[Area(j)] = Nil
      BY <1>5, <2>4 DEF Written
    <3>2. j >= shape.argWords /\ j - shape.argWords = i - 1 /\ i - 1 < i
      BY <1>3, <2>4
    <3> QED BY <1>3, <3>1, <3>2
  <2>5. CASE j # word
    <3>1. Area(j) # Area(word) /\ Area(j) \in DOMAIN mem
      BY <1>1, <1>2, <1>3, <2>5, AddressesFacts
    <3>2. mem'[Area(j)] = mem[Area(j)]
      BY <1>5, <3>1 DEF Written
    <3>3. j - shape.argWords < i <=> j - shape.argWords < i - 1
      BY <1>3, <2>5
    <3> HIDE DEF word, m
    <3> QED BY <2>2, <3>2, <3>3 DEF AreaBefore
  <2> QED BY <2>4, <2>5
<1>10. reg'[31] = Addr(DepthARM(m, k + 1))
  <2>1. k \in 4..30 + m /\ k + 1 \in 4..30 + m
    BY <1>2, <1>3
  <2> HIDE DEF k
  <2> QED BY <1>2, <1>5, <2>1, DepthsARM
<1>11. k + 1 - 1 = k /\ k + 1 <= 28 + m /\ ~(k + 1 >= 29 + m)
  BY <1>2, <1>3
<1>12. pc' = 4 * Offset(L, k)
  BY <1>2, <1>5 DEF Advances
<1>13. StandsARM(shape, k + 1, pc', reg', mem')
  <2> DEFINE j == k + 1
  <2>1. pc' = 4 * Offset(L, j - 1)
    BY <1>11, <1>12
  <2>2. /\ FrameARM(shape, reg', mem', j) /\ IntsARM(shape, reg', j) /\ PreparedARM(shape, reg', mem', j)
        /\ AreaBefore(shape, mem', j - 8) /\ reg'[31] = Addr(DepthARM(m, j))
        /\ ~(j >= 29 + m)
    BY <1>6, <1>7, <1>8, <1>9, <1>10, <1>11
  <2> HIDE DEF k, j
  <2>3. StandsARM(shape, j, pc', reg', mem')
    BY <2>1, <2>2 DEF StandsARM, L
  <2> QED BY <2>3 DEF j
<1> QED BY <1>5, <1>13

\* The i-th move: the last register first, so that none is overwritten before it is read.
LEMMA ShiftARM ==
  ASSUME NEW i \in 1..15, RunningARM(7 + shape.retWords + i)
  PROVE  StandsARM(shape, 7 + shape.retWords + i + 1, pc', reg', mem') /\ Advances(4)
<1> DEFINE L == ListARM(shape)
           m == shape.retWords
           no == ARM!NoImm
           k == 7 + m + i
           x == 16 - i
           y == 15 - i
<1>1. shape \in Shapes /\ HasARM(L, k, "move", x, y, 0, no)
  <2>1. shape \in Shapes
    BY DEF RunningARM, NextARM
  <2>2. ListsARM(shape, L, m)
    BY <2>1, ListingARM
  <2> QED BY <2>1, <2>2, HavesARM
<1>2. /\ Executing("move", x, y, 0, no, 4) /\ m \in Nat /\ DOMAIN reg = 0..31
      /\ DOMAIN mem = Addresses(shape) /\ arch = "arm64"
      /\ reg[31] = Addr(DepthARM(m, k)) /\ pc + 4 = 4 * Offset(L, k)
  BY <1>1, BeginARM
<1> HIDE DEF L, no
<1>a. m \in Nat
  BY <1>2
<1>3. /\ x \in 1..15 /\ y \in 0..14 /\ x \in 0..31 /\ x # 0 /\ x # 16 /\ x # 28 /\ x # 30 /\ x # 31
      /\ k \in 8 + m..22 + m /\ k \in Nat /\ k <= 28 + m
  BY <1>a
<1>4. /\ FrameARM(shape, reg, mem, k) /\ IntsARM(shape, reg, k) /\ PreparedARM(shape, reg, mem, k)
      /\ AreaBefore(shape, mem, k - 8)
  <2>1. StandsARM(shape, k, pc, reg, mem)
    BY DEF RunningARM
  <2> HIDE DEF k
  <2> QED BY <1>3, <2>1 DEF StandsARM
<1>6. reg[y] = In(y)
  <2>1. CASE y = 0
    <3>1. k <= 23 + m
      BY <1>3, <1>a
    <3> HIDE DEF k, y
    <3>2. reg[0] = In(0)
      BY <1>4, <3>1 DEF PreparedARM
    <3> QED BY <2>1, <3>2
  <2>2. CASE y \in 1..15
    <3>1. k < 24 + m - y
      BY <1>a
    <3> HIDE DEF y, k
    <3> QED BY <1>4, <2>2, <3>1 DEF IntsARM
  <2>3. y = 0 \/ y \in 1..15
    BY <1>3
  <2> QED BY <2>1, <2>2, <2>3
<1>7. Written(reg, reg', x, In(y)) /\ mem' = mem /\ Advances(4)
  <2>1. x \in DOMAIN reg
    BY <1>2, <1>3
  <2> HIDE DEF x, y
  <2> QED BY <1>2, <1>6, <2>1, StepMove
<1>8. FrameARM(shape, reg', mem', k + 1)
  <2> HIDE DEF x, y
  <2>2. SameFrameARM(reg, reg', mem, mem')
    BY <1>2, <1>3, <1>7, RegisterWrittenARM
  <2>3. k \in 4..27 + m
    BY <1>3, <1>a
  <2> HIDE DEF k
  <2> QED BY <1>1, <1>4, <2>2, <2>3, FrameKeptARM
<1>9. PreparedARM(shape, reg', mem', k + 1)
  <2> DEFINE j == k + 1
  <2>1. mem' = mem /\ reg'[0] = reg[0] /\ reg'[16] = reg[16]
    BY <1>2, <1>3, <1>7 DEF Written
  <2>2. /\ j <= 23 + m /\ ~(j >= 24 + m) /\ ~(j = 25 + m) /\ ~(j = 26 + m) /\ ~(j = 27 + m)
        /\ ~(j = 28 + m) /\ k <= 23 + m /\ k >= 6 /\ k >= 7 /\ k <= 24 + m /\ k >= 8
    BY <1>3, <1>a
  <2> HIDE DEF k, j
  <2>3. PreparedARM(shape, reg', mem', j)
    BY <1>4, <2>1, <2>2 DEF PreparedARM
  <2> QED BY <2>3 DEF j
<1>10. IntsARM(shape, reg', k + 1)
  <2> DEFINE j == k + 1
  <2>1. SUFFICES ASSUME NEW t \in 1..15
                 PROVE  /\ j >= 24 + m - t => reg'[t] = In(t - 1)
                        /\ j < 24 + m - t => reg'[t] = In(t)
    BY DEF IntsARM
  <2>2. CASE t = 16 - i
    <3>1. j >= 24 + m - t /\ t - 1 = y /\ t = x
      BY <2>2, <1>a
    <3>2. reg'[t] = In(t - 1)
      BY <1>7, <2>2, <3>1 DEF Written
    <3>3. ~(j < 24 + m - t)
      BY <2>2, <1>a
    <3> QED BY <3>2, <3>3
  <2>3. CASE t # 16 - i
    <3>1. t # x /\ t \in 0..31
      BY <2>3
    <3>2. reg'[t] = reg[t]
      BY <1>2, <1>7, <3>1 DEF Written
    <3>3. /\ k >= 24 + m - t => reg[t] = In(t - 1)
          /\ k < 24 + m - t => reg[t] = In(t)
      BY <1>4 DEF IntsARM
    <3>4. (k >= 24 + m - t <=> j >= 24 + m - t) /\ (k < 24 + m - t <=> j < 24 + m - t)
      BY <2>3, <1>a
    <3> QED BY <3>2, <3>3, <3>4
  <2> QED BY <2>2, <2>3
<1>11. ASSUME NEW c, c = k + 1 - 8 PROVE AreaBefore(shape, mem', c)
  <2>1. k <= 7 \/ k >= 8 + m
    BY <1>3, <1>a
  <2> HIDE DEF k
  <2>2. SameClears(shape, k - 8, k + 1 - 8)
    BY <1>1, <1>3, <2>1, SameClearsARM
  <2>3. SameClears(shape, k - 8, c)
    BY <1>11, <2>2
  <2>4. SameArea(shape, mem, mem')
    BY <1>7 DEF SameArea
  <2> QED BY <1>1, <1>4, <2>3, <2>4, AreaKept
<1>12. reg'[31] = Addr(DepthARM(m, k + 1))
  <2>1. k \in 4..30 + m /\ k + 1 \in 4..30 + m
    BY <1>3, <1>a
  <2>2. reg'[31] = reg[31]
    BY <1>2, <1>3, <1>7 DEF Written
  <2> HIDE DEF k
  <2> QED BY <1>2, <2>1, <2>2, DepthsARM
<1>13. ASSUME NEW j, j = k + 1 PROVE StandsARM(shape, j, pc', reg', mem')
  <2>1. ~(j >= 29 + m) /\ j - 1 = k /\ j - 8 = k + 1 - 8
    BY <1>3, <1>13, <1>a
  <2>2. pc' = 4 * Offset(L, k)
    BY <1>2, <1>7 DEF Advances
  <2> HIDE DEF k
  <2>3. AreaBefore(shape, mem', j - 8)
    BY <1>11, <2>1
  <2>4. IntsARM(shape, reg', j) /\ PreparedARM(shape, reg', mem', j)
    BY <1>9, <1>10, <1>13
  <2>5. FrameARM(shape, reg', mem', j) /\ reg'[31] = Addr(DepthARM(m, j))
    BY <1>8, <1>12, <1>13
  <2> QED BY <2>1, <2>2, <2>3, <2>4, <2>5 DEF StandsARM, L
<1> QED BY <1>7, <1>13

\* while Dispatch runs: the return address is in the link register, which is its own
CallingARM(sh, p, r, w) ==
  /\ p = 4 * Offset(ListARM(sh), 28 + sh.retWords) /\ r[31] = Addr(-288)
  /\ DOMAIN r = 0..31 /\ DOMAIN w = Addresses(sh) /\ r[28] = In(28) /\ Saved(w)
  /\ IntsARM(sh, r, 28 + sh.retWords) /\ PreparedARM(sh, r, w, 28 + sh.retWords)

\* BLR: the call of Dispatch.
LEMMA CallARM ==
  ASSUME RunningARM(28 + shape.retWords)
  PROVE  /\ phase' = "dispatch" /\ arch' = arch /\ shape' = shape /\ target' = Num(Dispatch)
         /\ CallingARM(shape, pc', reg', mem') /\ AreaBefore(shape, mem', 20 + shape.retWords)
<1> DEFINE L == ListARM(shape)
           m == shape.retWords
           no == ARM!NoImm
           k == 28 + m
<1>1. shape \in Shapes /\ HasARM(L, k, "call", 16, 0, 0, no)
  <2>1. shape \in Shapes
    BY DEF RunningARM, NextARM
  <2>2. ListsARM(shape, L, m)
    BY <2>1, ListingARM
  <2> QED BY <2>1, <2>2, HavesARM
<1>2. /\ Executing("call", 16, 0, 0, no, 4) /\ m \in Nat /\ DOMAIN reg = 0..31
      /\ DOMAIN mem = Addresses(shape) /\ arch = "arm64"
      /\ reg[31] = Addr(DepthARM(m, k)) /\ pc + 4 = 4 * Offset(L, k)
  BY <1>1, BeginARM
<1> HIDE DEF L, no
<1>a. m \in Nat
  BY <1>2
<1>3. reg[31] = Addr(-288)
  <2>1. k \in 4..30 + m
    BY <1>a
  <2> HIDE DEF k
  <2> QED BY <1>2, <2>1, DepthsARM
<1>4. /\ FrameARM(shape, reg, mem, k) /\ IntsARM(shape, reg, k) /\ PreparedARM(shape, reg, mem, k)
      /\ AreaBefore(shape, mem, k - 8)
  <2>1. StandsARM(shape, k, pc, reg, mem) /\ k <= 28 + m
    BY <1>a DEF RunningARM
  <2> HIDE DEF k
  <2> QED BY <2>1 DEF StandsARM
<1>5. /\ Written(reg, reg', 30, Here(pc + 4)) /\ mem' = mem
      /\ target' = reg[16] /\ phase' = "dispatch" /\ pc' = pc + 4
      /\ arch' = arch /\ shape' = shape
  <2>1. 30 \in DOMAIN reg
    BY <1>2
  <2> HIDE DEF k
  <2> QED BY <1>2, <2>1, StepCallARM
<1>6. target' = Num(Dispatch)
  <2>1. k = 28 + m
    OBVIOUS
  <2> HIDE DEF k
  <2> QED BY <1>4, <1>5, <2>1 DEF PreparedARM
<1>7. /\ reg[28] = In(28) /\ Saved(mem)
  <2>1. k >= 3 /\ k <= 29 + m
    BY <1>a
  <2> HIDE DEF k
  <2> QED BY <1>4, <2>1 DEF FrameARM
<1>8. /\ DOMAIN reg' = 0..31 /\ reg'[28] = In(28) /\ reg'[31] = Addr(-288) /\ Saved(mem')
      /\ reg'[0] = reg[0] /\ reg'[16] = reg[16]
      /\ \A t \in 1..15 : reg'[t] = reg[t]
  BY <1>2, <1>3, <1>5, <1>7 DEF Written
<1>9. IntsARM(shape, reg', k)
  <2> HIDE DEF k
  <2> QED BY <1>4, <1>8 DEF IntsARM
<1>10. PreparedARM(shape, reg', mem', k)
  <2> HIDE DEF k
  <2> QED BY <1>4, <1>5, <1>8 DEF PreparedARM
<1>11. AreaBefore(shape, mem', k - 8)
  BY <1>4, <1>5
<1>12. k - 8 = 20 + m
  BY <1>a
<1>13. AreaBefore(shape, mem', 20 + m)
  <2> HIDE DEF k, m
  <2> QED BY <1>11, <1>12
<1>14. CallingARM(shape, pc', reg', mem')
  BY <1>2, <1>5, <1>8, <1>9, <1>10 DEF CallingARM, L
<1> QED BY <1>5, <1>6, <1>13, <1>14

\* LDP R29, R30: what was saved.
LEMMA RestoreARM ==
  ASSUME RunningARM(29 + shape.retWords)
  PROVE  StandsARM(shape, 30 + shape.retWords, pc', reg', mem') /\ Advances(4)
<1> DEFINE L == ListARM(shape)
           m == shape.retWords
           imm == <<30, 0, 0, 0>>
           k == 29 + m
<1>1. shape \in Shapes /\ HasARM(L, k, "loadpair", 29, 31, -8, imm)
  <2>1. shape \in Shapes
    BY DEF RunningARM, NextARM
  <2>2. ListsARM(shape, L, m)
    BY <2>1, ListingARM
  <2> QED BY <2>1, <2>2, HavesARM
<1>2. /\ Executing("loadpair", 29, 31, -8, imm, 4) /\ m \in Nat /\ DOMAIN reg = 0..31
      /\ DOMAIN mem = Addresses(shape) /\ arch = "arm64"
      /\ reg[31] = Addr(DepthARM(m, k)) /\ pc + 4 = 4 * Offset(L, k)
  BY <1>1, BeginARM
<1> HIDE DEF L
<1>a. m \in Nat /\ imm[1] = 30
  BY <1>2
<1>3. reg[31] = Addr(-288)
  <2>1. k \in 4..30 + m
    BY <1>a
  <2> HIDE DEF k
  <2> QED BY <1>2, <2>1, DepthsARM
<1>4. FrameARM(shape, reg, mem, k) /\ ReturnedARM(reg) /\ AreaAfter(shape, mem)
  <2>1. StandsARM(shape, k, pc, reg, mem) /\ k >= 29 + m
    BY <1>a DEF RunningARM
  <2> HIDE DEF k
  <2> QED BY <2>1 DEF StandsARM
<1>5. reg[28] = In(28) /\ Saved(mem)
  <2>1. k >= 3 /\ k <= 29 + m
    BY <1>a
  <2> HIDE DEF k
  <2> QED BY <1>4, <2>1 DEF FrameARM
<1>6. /\ DOMAIN reg' = DOMAIN reg /\ reg'[29] = mem[-296] /\ reg'[30] = mem[-288]
      /\ \A y \in DOMAIN reg : y # 29 /\ y # 30 => reg'[y] = reg[y]
      /\ mem' = mem /\ Advances(4)
  <2> DEFINE x == -288
             n == -8
             c == 30
  <2>1. /\ x + n = -296 /\ x + (n + 8) = -288 /\ reg[31] = Addr(x) /\ 29 \in DOMAIN reg
        /\ c \in DOMAIN reg /\ 29 # c /\ imm[1] = c /\ Executing("loadpair", 29, 31, n, imm, 4)
    BY <1>2, <1>3, <1>a
  <2> HIDE DEF x, n, c, imm, k
  <2>2. /\ DOMAIN reg' = DOMAIN reg /\ reg'[29] = mem[x + n] /\ reg'[c] = mem[x + (n + 8)]
        /\ \A y \in DOMAIN reg : y # 29 /\ y # c => reg'[y] = reg[y]
        /\ mem' = mem /\ Advances(4)
    BY <2>1, StepLoadPair
  <2> QED BY <2>1, <2>2 DEF c
<1>7. ReturnedARM(reg') /\ AreaAfter(shape, mem') /\ Restored(reg')
  <2>1. \A t \in 0..15 : reg'[t] = reg[t]
    BY <1>2, <1>6
  <2>2. Restored(reg')
    BY <1>5, <1>6 DEF Restored, Saved
  <2> QED BY <1>4, <1>6, <2>1, <2>2 DEF ReturnedARM
<1>8. ASSUME NEW j, j = 30 + m PROVE StandsARM(shape, j, pc', reg', mem')
  <2>1. /\ ~(j <= 28 + m) /\ j - 1 = k /\ ~(j <= 4) /\ ~(j = 2 \/ j = 3) /\ ~(j <= 29 + m)
        /\ j \in 4..30 + m
    BY <1>a, <1>8
  <2>2. pc' = 4 * Offset(L, j - 1)
    BY <1>2, <1>6, <2>1 DEF Advances
  <2>3. reg'[31] = Addr(DepthARM(m, j))
    <3>1. reg'[31] = Addr(-288)
      BY <1>2, <1>3, <1>6
    <3> QED BY <1>a, <2>1, <3>1, DepthsARM
  <2>4. DOMAIN reg' = 0..31 /\ DOMAIN mem' = Addresses(shape) /\ reg'[28] = In(28)
    BY <1>2, <1>5, <1>6
  <2> HIDE DEF k
  <2>5. FrameARM(shape, reg', mem', j)
    BY <1>7, <2>1, <2>4 DEF FrameARM
  <2> QED BY <1>7, <2>1, <2>2, <2>3, <2>5 DEF StandsARM, L
<1> QED BY <1>6, <1>8

\* ADD SP, 288 after the call.
LEMMA UnframeARM ==
  ASSUME RunningARM(30 + shape.retWords)
  PROVE  StandsARM(shape, 31 + shape.retWords, pc', reg', mem') /\ Advances(4)
<1> DEFINE L == ListARM(shape)
           m == shape.retWords
           no == ARM!NoImm
           k == 30 + m
<1>1. shape \in Shapes /\ HasARM(L, k, "add", 31, 31, 288, no)
  <2>1. shape \in Shapes
    BY DEF RunningARM, NextARM
  <2>2. ListsARM(shape, L, m)
    BY <2>1, ListingARM
  <2> QED BY <2>1, <2>2, HavesARM
<1>2. /\ Executing("add", 31, 31, 288, no, 4) /\ m \in Nat /\ DOMAIN reg = 0..31
      /\ DOMAIN mem = Addresses(shape) /\ arch = "arm64"
      /\ reg[31] = Addr(DepthARM(m, k)) /\ pc + 4 = 4 * Offset(L, k)
  BY <1>1, BeginARM
<1> HIDE DEF L, no
<1>a. m \in Nat
  BY <1>2
<1>3. reg[31] = Addr(-288)
  <2>1. k \in 4..30 + m
    BY <1>a
  <2> HIDE DEF k
  <2> QED BY <1>2, <2>1, DepthsARM
<1>4. FrameARM(shape, reg, mem, k) /\ ReturnedARM(reg) /\ AreaAfter(shape, mem)
  <2>1. StandsARM(shape, k, pc, reg, mem) /\ k >= 29 + m
    BY <1>a DEF RunningARM
  <2> HIDE DEF k
  <2> QED BY <2>1 DEF StandsARM
<1>5. reg[28] = In(28) /\ Restored(reg)
  <2>1. k >= 30 + m
    BY <1>a
  <2> HIDE DEF k
  <2> QED BY <1>4, <2>1 DEF FrameARM
<1>6. Written(reg, reg', 31, Addr(0)) /\ mem' = mem /\ Advances(4)
  <2> DEFINE top == -288
             n == 288
  <2>1. top + n = 0 /\ reg[31] = Addr(top) /\ 31 \in DOMAIN reg /\ Executing("add", 31, 31, n, no, 4)
    BY <1>2, <1>3
  <2> HIDE DEF top, n, k
  <2>2. Written(reg, reg', 31, Addr(top + n)) /\ mem' = mem /\ Advances(4)
    BY <2>1, StepAdd
  <2> QED BY <2>1, <2>2
<1>7. ReturnedARM(reg') /\ AreaAfter(shape, mem') /\ Restored(reg') /\ reg'[28] = In(28)
      /\ DOMAIN reg' = 0..31 /\ DOMAIN mem' = Addresses(shape) /\ reg'[31] = Addr(0)
  BY <1>2, <1>4, <1>5, <1>6 DEF Written, ReturnedARM, Restored
<1>8. ASSUME NEW j, j = 31 + m PROVE StandsARM(shape, j, pc', reg', mem')
  <2>1. /\ ~(j <= 28 + m) /\ j - 1 = k /\ ~(j <= 4) /\ ~(j = 2 \/ j = 3) /\ ~(j <= 29 + m)
    BY <1>a, <1>8
  <2>2. pc' = 4 * Offset(L, j - 1)
    BY <1>2, <1>6, <2>1 DEF Advances
  <2>3. reg'[31] = Addr(DepthARM(m, j))
    BY <1>7, <1>8, <1>a, DepthsARM
  <2> HIDE DEF k
  <2>5. FrameARM(shape, reg', mem', j)
    BY <1>7, <2>1 DEF FrameARM
  <2> QED BY <1>7, <2>1, <2>2, <2>3, <2>5 DEF StandsARM, L
<1> QED BY <1>6, <1>8

\* what the caller gets
DoneARM(sh, p, r, w) ==
  /\ p = 4 * Offset(ListARM(sh), 30 + sh.retWords) /\ r[31] = Addr(0) /\ r[28] = In(28)
  /\ DOMAIN r = 0..31 /\ DOMAIN w = Addresses(sh) /\ Restored(r)
  /\ ReturnedARM(r) /\ AreaAfter(sh, w)

\* RET.
LEMMA ReturnARM ==
  ASSUME RunningARM(31 + shape.retWords)
  PROVE  /\ phase' = "returned" /\ arch' = arch /\ shape' = shape /\ target' = reg[30]
         /\ DoneARM(shape, pc', reg', mem') /\ Restored(reg) /\ reg' = reg
<1> DEFINE L == ListARM(shape)
           m == shape.retWords
           no == ARM!NoImm
           k == 31 + m
<1>1. shape \in Shapes /\ HasARM(L, k, "ret", 30, 0, 0, no)
  <2>1. shape \in Shapes
    BY DEF RunningARM, NextARM
  <2>2. ListsARM(shape, L, m)
    BY <2>1, ListingARM
  <2> QED BY <2>1, <2>2, HavesARM
<1>2. /\ Executing("ret", 30, 0, 0, no, 4) /\ m \in Nat /\ DOMAIN reg = 0..31
      /\ DOMAIN mem = Addresses(shape) /\ arch = "arm64"
      /\ reg[31] = Addr(DepthARM(m, k))
  BY <1>1, BeginARM
<1> HIDE DEF L, no
<1>a. m \in Nat
  BY <1>2
<1>3. reg[31] = Addr(0)
  BY <1>2, <1>a, DepthsARM
<1>4. /\ FrameARM(shape, reg, mem, k) /\ ReturnedARM(reg) /\ AreaAfter(shape, mem)
      /\ pc = 4 * Offset(L, k - 1)
  <2>1. StandsARM(shape, k, pc, reg, mem) /\ k >= 29 + m
    BY <1>a DEF RunningARM
  <2> HIDE DEF k
  <2> QED BY <2>1 DEF StandsARM, L
<1>5. reg[28] = In(28) /\ Restored(reg)
  <2>1. k >= 30 + m
    BY <1>a
  <2> HIDE DEF k
  <2> QED BY <1>4, <2>1 DEF FrameARM
<1>6. /\ target' = reg[30] /\ reg' = reg /\ phase' = "returned"
      /\ pc' = pc /\ mem' = mem /\ arch' = arch /\ shape' = shape
  <2> HIDE DEF k
  <2> QED BY <1>2, StepReturnARM
<1>7. k - 1 = 30 + m
  BY <1>a
<1>8. pc' = 4 * Offset(L, 30 + m)
  BY <1>4, <1>6, <1>7
<1>9. DoneARM(shape, pc', reg', mem')
  BY <1>2, <1>3, <1>4, <1>5, <1>6, <1>8 DEF DoneARM, L
<1> QED BY <1>5, <1>6, <1>9

GapARM(sh, m, k, j) == m = sh.retWords /\ k \in 8..7 + m /\ j \in k..8 + m

\* Between the clears of results that hold no pointer there is no instruction: what
\* holds before one that is not there holds at the next that is.
LEMMA JumpARM ==
  ASSUME NEW sh \in Shapes, NEW L, L = ListARM(sh), NEW p, NEW r, NEW w,
         NEW m, NEW k, NEW j, GapARM(sh, m, k, j), Nothing(L, k, j), StandsARM(sh, k, p, r, w)
  PROVE  StandsARM(sh, j, p, r, w)
<1>0. m = sh.retWords /\ k \in 8..7 + m /\ j \in k..8 + m
  BY DEF GapARM
<1>1. m \in Nat /\ ListsARM(sh, L, m) /\ \A q \in sh.retPtrs : q \in Nat /\ q < m
  BY <1>0, ListingARM, ShapeFacts
<1>a. m \in Nat
  BY <1>1
<1>2. /\ k <= 28 + m /\ j <= 28 + m /\ ~(j >= 29 + m) /\ k \in 4..30 + m /\ j \in 4..30 + m
      /\ k \in Nat /\ j \in Nat /\ 8 <= k /\ k <= j /\ k <= 7 + m /\ j <= 8 + m
  BY <1>a, <1>0
<1>3. /\ p = 4 * Offset(ListARM(sh), k - 1) /\ r[31] = Addr(DepthARM(m, k)) /\ FrameARM(sh, r, w, k)
      /\ IntsARM(sh, r, k) /\ PreparedARM(sh, r, w, k) /\ AreaBefore(sh, w, k - 8)
  BY <1>0, <1>2 DEF StandsARM
<1>4. p = 4 * Offset(ListARM(sh), j - 1) /\ r[31] = Addr(DepthARM(m, j))
  <2>0. \A i \in 4..30 + m : DepthARM(m, i) = -288
    BY <1>a, DepthsARM
  <2>1. DepthARM(m, j) = -288 /\ DepthARM(m, k) = -288
    BY <1>2, <2>0
  <2>2. p = 4 * Offset(ListARM(sh), j - 1)
    BY <1>3 DEF Nothing
  <2> QED BY <1>3, <2>1, <2>2
<1>5. FrameARM(sh, r, w, j)
  <2>1. /\ ~(j <= 4) /\ ~(j = 2 \/ j = 3) /\ ~(j >= 30 + m) /\ k >= 3 /\ k <= 29 + m /\ k <= 28 + m
    BY <1>a, <1>2
  <2>2. /\ DOMAIN r = 0..31 /\ DOMAIN w = Addresses(sh) /\ r[28] = In(28) /\ r[30] = Caller /\ Saved(w)
    BY <1>0, <1>3, <2>1 DEF FrameARM
  <2> QED BY <1>0, <2>1, <2>2 DEF FrameARM
<1>6. IntsARM(sh, r, j)
  <2>1. SUFFICES ASSUME NEW t \in 1..15
                 PROVE  /\ j >= 24 + m - t => r[t] = In(t - 1)
                        /\ j < 24 + m - t => r[t] = In(t)
    BY <1>0 DEF IntsARM
  <2>a. k \in Int /\ k <= 7 + m /\ j \in Int /\ j <= 8 + m /\ m \in Int
    BY <1>a, <1>2
  <2>2. k < 24 + m - t /\ j < 24 + m - t /\ ~(j >= 24 + m - t)
    BY <2>a
  <2> QED BY <1>0, <1>3, <2>2 DEF IntsARM
<1>7. PreparedARM(sh, r, w, j)
  <2>1. /\ j <= 23 + m /\ ~(j >= 24 + m) /\ ~(j = 25 + m) /\ ~(j = 26 + m) /\ ~(j = 27 + m)
        /\ ~(j = 28 + m) /\ k <= 23 + m /\ k >= 6 /\ k >= 7 /\ k <= 24 + m /\ k >= 8
    BY <1>a, <1>2
  <2> QED BY <1>0, <1>3, <2>1 DEF PreparedARM
<1>8. AreaBefore(sh, w, j - 8)
  <2>1. ASSUME NEW q \in sh.retPtrs PROVE q < k - 8 <=> q < j - 8
    <3>1. CASE q + 8 \in k..j - 1
      <4>1. L[7 + (q + 1)] = <<>>
        <5>1. q + 8 = 7 + (q + 1)
          BY <1>1
        <5>2. L[q + 8] = <<>>
          BY <3>1 DEF Nothing
        <5> QED BY <5>1, <5>2
      <4>2. q + 1 \in 1..m /\ q + 1 - 1 = q
        BY <1>1
      <4>3. \A i \in 1..m : i - 1 \in sh.retPtrs =>
              DoesARM(L[7 + i], "clear", 31, 16, 8 * (sh.argWords + i - 1), ARM!NoImm)
        BY <1>1 DEF ListsARM
      <4>b. PICK i : i = q + 1
        OBVIOUS
      <4>a. L[7 + i] = <<>>
        BY <4>1, <4>b
      <4>4. i \in 1..m /\ i - 1 \in sh.retPtrs /\ L[7 + i] = <<>>
        <5>1. i - 1 = q
          BY <1>1, <4>b
        <5> QED BY <4>2, <4>a, <4>b, <5>1
      <4> DEFINE n == 8 * (sh.argWords + i - 1)
      <4>5. DoesARM(L[7 + i], "clear", 31, 16, n, ARM!NoImm)
        BY <4>3, <4>4
      <4> HIDE DEF n
      <4>6. Len(L[7 + i]) = 1
        BY <4>5 DEF DoesARM
      <4> QED BY <4>4, <4>6
    <3>2. CASE q + 8 \notin k..j - 1
      <4>1. q \in Nat /\ k \in Nat /\ j \in Nat /\ k <= j
        BY <1>1, <1>2
      <4> QED BY <3>2, <4>1
    <3> QED BY <3>1, <3>2
  <2>2. SameClears(sh, k - 8, j - 8)
    BY <1>2, <2>1 DEF SameClears
  <2>3. SameArea(sh, w, w)
    BY DEF SameArea
  <2> QED BY <1>3, <2>2, <2>3, AreaKept
<1> QED BY <1>0, <1>2, <1>4, <1>5, <1>6, <1>7, <1>8 DEF StandsARM

\* the trampoline is at the k-th instruction, one of those emitted
AtARM(k, sh, p, r, w) ==
  k \in 1..31 + sh.retWords /\ ListARM(sh)[k] # <<>> /\ StandsARM(sh, k, p, r, w)

\* Every position but the clears' holds an instruction.
LEMMA EmittedARM ==
  ASSUME NEW sh, NEW L, NEW m, ListsARM(sh, L, m)
  PROVE  \A i \in 1..31 + m : (i \notin 8..7 + m) => L[i] # <<>>
<1>a. m \in Nat
  BY DEF ListsARM
<1>1. /\ Len(L[1]) = 1 /\ Len(L[2]) = 1 /\ Len(L[3]) = 1 /\ Len(L[4]) = 1 /\ Len(L[5]) = 1
      /\ Len(L[6]) = 1 /\ Len(L[7]) = 1
      /\ \A i \in 1..15 : Len(L[7 + m + i]) = 1
      /\ Len(L[23 + m]) = 1 /\ Len(L[24 + m]) = 1 /\ Len(L[25 + m]) = 1 /\ Len(L[26 + m]) = 1
      /\ Len(L[27 + m]) = 1 /\ Len(L[28 + m]) = 1 /\ Len(L[29 + m]) = 1 /\ Len(L[30 + m]) = 1
      /\ Len(L[31 + m]) = 1
  BY DEF ListsARM, DoesARM
<1>5. SUFFICES ASSUME NEW k \in 1..31 + m, k \notin 8..7 + m PROVE Len(L[k]) = 1
  <2>1. ASSUME NEW k \in 1..31 + m, Len(L[k]) = 1 PROVE L[k] # <<>>
    <3>1. Len(<<>>) = 0 /\ 0 # 1
      OBVIOUS
    <3> QED BY <2>1, <3>1, Zenon
  <2> QED BY <2>1
<1>6. \/ k = 1 \/ k = 2 \/ k = 3 \/ k = 4 \/ k = 5 \/ k = 6 \/ k = 7 \/ k \in 8 + m..22 + m
      \/ k = 23 + m \/ k = 24 + m \/ k = 25 + m \/ k = 26 + m \/ k = 27 + m \/ k = 28 + m
      \/ k = 29 + m \/ k = 30 + m \/ k = 31 + m
  BY <1>a, <1>5
<1>7. CASE k \in 8 + m..22 + m
  <2>1. PICK i \in 1..15 : k = 7 + m + i
    <3>1. k - 7 - m \in 1..15 /\ k = 7 + m + (k - 7 - m)
      BY <1>a, <1>7
    <3> QED BY <3>1
  <2> QED BY <1>1, <2>1
<1> QED BY <1>1, <1>6, <1>7

\* Somewhere in the listing is at an instruction.
LEMMA SettleARM ==
  ASSUME NEW sh \in Shapes, NEW p, NEW r, NEW w, NEW k, k \in 1..31 + sh.retWords,
         StandsARM(sh, k, p, r, w)
  PROVE  \E j : AtARM(j, sh, p, r, w)
<1> DEFINE L == ListARM(sh)
           m == sh.retWords
<1>1. m \in Nat /\ ListsARM(sh, L, m)
  BY ListingARM, ShapeFacts
<1> HIDE DEF L
<1>2. L \in Seq(WordSeq) /\ Len(L) = 31 + m /\ \A i \in 1..31 + m : (i \notin 8..7 + m) => L[i] # <<>>
  BY <1>1, EmittedARM DEF ListsARM
<1>3. CASE L[k] # <<>>
  BY <1>3 DEF AtARM, L
<1>4. CASE L[k] = <<>>
  <2>1. k \in 8..7 + m
    BY <1>2, <1>4
  <2>2. k \in 1..Len(L) /\ L[Len(L)] # <<>> /\ L \in Seq(Seq(BitSet))
    <3>1. 31 + m \in 1..31 + m /\ 31 + m \notin 8..7 + m
      BY <1>1
    <3>2. L[31 + m] # <<>>
      BY <1>2, <3>1
    <3>3. L \in Seq(Seq(BitSet))
      BY <1>2 DEF WordSeq
    <3> QED BY <1>2, <3>2, <3>3
  <2>3. PICK j \in k..Len(L) : /\ L[j] # <<>> /\ Offset(L, j - 1) = Offset(L, k - 1)
                               /\ \A i \in k..j - 1 : L[i] = <<>>
    BY <2>2, SkipEmpty
  <2>4. j \in k..8 + m
    <3>1. 8 + m \in k..j - 1 => L[8 + m] = <<>>
      BY <2>3
    <3>2. L[8 + m] # <<>>
      <4>1. 8 + m \in 1..31 + m /\ 8 + m \notin 8..7 + m
        BY <1>1
      <4> QED BY <1>2, <4>1
    <3>3. j \in Int /\ k \in Int /\ j >= k /\ k <= 8 + m
      BY <1>1, <1>2, <2>1
    <3> QED BY <1>1, <3>1, <3>2, <3>3
  <2>5. StandsARM(sh, j, p, r, w)
    <3>1. GapARM(sh, m, k, j) /\ Nothing(L, k, j)
      BY <2>1, <2>3, <2>4 DEF GapARM, Nothing
    <3> QED BY <3>1, JumpARM DEF L
  <2>6. j \in 1..31 + m
    BY <1>1, <2>1, <2>4
  <2> QED BY <2>3, <2>5, <2>6 DEF AtARM, L
<1> QED BY <1>3, <1>4

\* the protected instruction: the two words are saved, the stack pointer is not yet below them
Unprotected(k) == k = 3 => <<"arm64", 8>> \notin Protected

\* Nothing that matters is below the stack pointer and its red zone, but at the
\* protected instruction.
LEMMA StandsAboveARM ==
  ASSUME NEW sh \in Shapes, NEW p, NEW r, NEW w, NEW w2, NEW k, k \in 1..31 + sh.retWords,
         StandsARM(sh, k, p, r, w), Unprotected(k), NEW z, z = DepthARM(sh.retWords, k) - 8,
         KeepsAbove(w, w2, z)
  PROVE  StandsARM(sh, k, p, r, w2)
<1> DEFINE m == sh.retWords
           s == DepthARM(m, k)
<1>1. m \in Nat /\ k \in Nat /\ k >= 1 /\ k <= 31 + m
  BY ShapeFacts
<1>2. s \in {0, -288} /\ z \in Int /\ z <= -8 /\ z >= -296 /\ (k >= 4 /\ k <= 30 + m => z = -296)
  BY <1>1 DEF DepthARM
<1>3. /\ p = 4 * Offset(ListARM(sh), k - 1) /\ r[31] = Addr(DepthARM(m, k))
      /\ FrameARM(sh, r, w, k)
      /\ k <= 28 + m => /\ IntsARM(sh, r, k) /\ PreparedARM(sh, r, w, k)
                        /\ AreaBefore(sh, w, k - 8)
      /\ k >= 29 + m => ReturnedARM(r) /\ AreaAfter(sh, w)
  BY DEF StandsARM
<1>4. DOMAIN w = Addresses(sh) /\ DOMAIN w2 = DOMAIN w /\ \A o \in DOMAIN w : ~(o < z) => w2[o] = w[o]
  BY <1>3 DEF KeepsAbove, FrameARM
<1> HIDE DEF s
<1>5. k >= 4 /\ k <= 30 + m => /\ w2[-296] = w[-296] /\ w2[-288] = w[-288]
                               /\ w2[-280] = w[-280] /\ w2[-272] = w[-272]
  <2>1. z = -296 => ~(-296 < z) /\ ~(-288 < z) /\ ~(-280 < z) /\ ~(-272 < z)
    OBVIOUS
  <2>2. /\ -296 \in DOMAIN w /\ -288 \in DOMAIN w /\ -280 \in DOMAIN w /\ -272 \in DOMAIN w
    BY <1>4, FrameWords
  <2> QED BY <1>2, <1>4, <2>1, <2>2
<1>6. SameArea(sh, w, w2)
  <2>1. ASSUME NEW i \in 0..Words(sh) - 1 PROVE w2[Area(i)] = w[Area(i)]
    <3>1. Area(i) \in DOMAIN w /\ Area(i) \in Nat
      BY <1>4, AddressesFacts
    <3> DEFINE o == Area(i)
    <3> HIDE DEF o
    <3>2. ~(o < z)
      BY <1>2, <3>1 DEF o
    <3> QED BY <1>4, <3>1, <3>2 DEF o
  <2> QED BY <2>1 DEF SameArea
<1>7. FrameARM(sh, r, w2, k)
  <2>1. (k >= 3 /\ k <= 29 + m) => Saved(w2)
    <3>1. CASE k = 3
      BY <3>1 DEF Saved, Unprotected
    <3>2. CASE k >= 4 /\ k <= 29 + m
      <4>1. Saved(w)
        <5>1. k >= 3 /\ k <= 29 + m
          BY <1>1, <3>2
        <5> QED BY <1>3, <5>1 DEF FrameARM
      <4>2. k <= 30 + m
        BY <1>1, <3>2
      <4> QED BY <1>5, <3>2, <4>1, <4>2 DEF Saved
    <3> QED BY <1>1, <3>1, <3>2
  <2> QED BY <1>3, <1>4, <2>1 DEF FrameARM
<1>8. k <= 28 + m => PreparedARM(sh, r, w2, k)
  <2> SUFFICES ASSUME k <= 28 + m PROVE PreparedARM(sh, r, w2, k)
    OBVIOUS
  <2>1. PreparedARM(sh, r, w, k)
    BY <1>3
  <2>2. k >= 6 \/ k >= 8 => w2[-280] = w[-280] /\ w2[-272] = w[-272]
    BY <1>1, <1>5
  <2> QED BY <2>1, <2>2 DEF PreparedARM
<1>9. k <= 28 + m => AreaBefore(sh, w2, k - 8)
  <2>1. AreaBefore(sh, w, k - 8) => AreaBefore(sh, w2, k - 8)
    BY <1>6 DEF AreaBefore, SameArea
  <2> QED BY <1>3, <2>1
<1>10. k >= 29 + m => AreaAfter(sh, w2)
  <2>1. AreaAfter(sh, w) => AreaAfter(sh, w2)
    BY <1>6 DEF AreaAfter, SameArea
  <2> QED BY <1>3, <2>1
<1> QED BY <1>3, <1>7, <1>8, <1>9, <1>10 DEF StandsARM

\* The third instruction is at byte 8.
LEMMA ThirdARM ==
  ASSUME NEW sh \in Shapes
  PROVE  4 * Offset(ListARM(sh), 3 - 1) = 8
<1> DEFINE L == ListARM(sh)
           m == sh.retWords
<1>1. ListsARM(sh, L, m) /\ m \in Nat
  BY ListingARM, ShapeFacts
<1> HIDE DEF L
<1>2. Len(L[1]) = 1 /\ Len(L[2]) = 1
  BY <1>1 DEF ListsARM, DoesARM
<1>3. 1 \in 1..31 + m /\ 2 \in 1..31 + m
  BY <1>1
<1>4. Offset(L, 0) = 0 /\ Offset(L, 1) = Offset(L, 0) + 1 /\ Offset(L, 2) = Offset(L, 1) + 1
  <2>1. \A k \in 1..31 + m : Offset(L, k) = Offset(L, k - 1) + Len(L[k])
    BY <1>1, OffsetsARM
  <2>2. Offset(L, 1) = Offset(L, 1 - 1) + Len(L[1]) /\ Offset(L, 2) = Offset(L, 2 - 1) + Len(L[2])
    BY <1>3, <2>1
  <2>3. 1 - 1 = 0 /\ 2 - 1 = 1
    OBVIOUS
  <2>4. Offset(L, 0) = 0
    BY <1>1, OffsetsARM
  <2> QED BY <1>2, <2>2, <2>3, <2>4
<1>5. Offset(L, 2) = 2
  BY <1>4
<1>6. 3 - 1 = 2
  OBVIOUS
<1> QED BY <1>5, <1>6 DEF L

\* A preemption between two instructions keeps what holds there.
LEMMA PreemptARM ==
  ASSUME AsyncPreempt, arch = "arm64", NEW k, AtARM(k, shape, pc, reg, mem), shape \in Shapes
  PROVE  /\ AtARM(k, shape, pc', reg', mem') /\ arch' = arch /\ shape' = shape /\ phase' = phase
<1> DEFINE s == DepthARM(shape.retWords, k)
           z == s - 8
<1>1. k \in 1..31 + shape.retWords /\ ListARM(shape)[k] # <<>> /\ StandsARM(shape, k, pc, reg, mem)
  BY DEF AtARM
<1>2. M.sp = 31 /\ M.redZone = 1
  BY MachineFacts
<1>3. reg[M.sp] = Addr(s)
  BY <1>1, <1>2 DEF StandsARM
<1>4. s \in Int
  BY DEF DepthARM
<1> HIDE DEF s
<1>5. /\ DOMAIN mem' = DOMAIN mem /\ <<arch, pc>> \notin Protected
      /\ \A o \in DOMAIN mem : ~(o < s - 8 * M.redZone) => mem'[o] = mem[o]
      /\ arch' = arch /\ shape' = shape /\ phase' = phase /\ pc' = pc /\ reg' = reg
  BY <1>3, StepPreempt
<1>6. s - 8 * M.redZone = z
  BY <1>2, <1>4
<1>7. KeepsAbove(mem, mem', z)
  BY <1>5, <1>6 DEF KeepsAbove
<1>8. Unprotected(k)
  <2> SUFFICES ASSUME k = 3 PROVE <<"arm64", 8>> \notin Protected
    BY DEF Unprotected
  <2>1. pc = 4 * Offset(ListARM(shape), 3 - 1)
    BY <1>1 DEF StandsARM
  <2>2. pc = 8
    BY <2>1, ThirdARM
  <2> QED BY <1>5, <2>2
<1> HIDE DEF z
<1>9. z = DepthARM(shape.retWords, k) - 8
  BY DEF z, s
<1>10. StandsARM(shape, k, pc, reg, mem')
  BY <1>1, <1>7, <1>8, <1>9, StandsAboveARM
<1> QED BY <1>1, <1>5, <1>10 DEF AtARM

\* Dispatch copies its results into the area: now every word of it is what its bit says.
LEMMA StoresARM ==
  ASSUME DispatchStores, shape \in Shapes, CallingARM(shape, pc, reg, mem),
         AreaBefore(shape, mem, 20 + shape.retWords)
  PROVE  /\ phase' = "stored" /\ arch' = arch /\ shape' = shape
         /\ CallingARM(shape, pc', reg', mem') /\ AreaAfter(shape, mem')
<1> DEFINE m == shape.retWords
           n == shape.argWords
           k == 28 + m
<1>1. /\ mem' = [o \in DOMAIN mem |->
                   LET i == o \div 8 - 1 IN
                   IF i < shape.argWords THEN mem[o]
                   ELSE IF i - shape.argWords \in shape.retPtrs THEN Pointer(i) ELSE Data(i)]
      /\ phase' = "stored" /\ arch' = arch /\ shape' = shape /\ pc' = pc /\ reg' = reg
  BY DEF DispatchStores
<1>2. DOMAIN mem = Addresses(shape) /\ Saved(mem) /\ PreparedARM(shape, reg, mem, k)
  BY DEF CallingARM
<1>3. /\ n \in Nat /\ m \in Nat /\ Words(shape) = n + m
      /\ \A i \in shape.argPtrs : i \in Nat /\ i < n
      /\ \A i \in shape.retPtrs : i \in Nat /\ i < m
  BY ShapeFacts DEF Words
<1>4. /\ DOMAIN mem' = DOMAIN mem
      /\ \A o \in DOMAIN mem : (o \div 8) - 1 < n => mem'[o] = mem[o]
      /\ \A o \in DOMAIN mem : ~((o \div 8) - 1 < n) /\ (o \div 8) - 1 - n \in shape.retPtrs =>
           mem'[o] = Pointer((o \div 8) - 1)
      /\ \A o \in DOMAIN mem : ~((o \div 8) - 1 < n) /\ ~((o \div 8) - 1 - n \in shape.retPtrs) =>
           mem'[o] = Data((o \div 8) - 1)
  BY <1>1
<1>5. /\ mem'[-296] = mem[-296] /\ mem'[-288] = mem[-288] /\ mem'[-280] = mem[-280]
      /\ mem'[-272] = mem[-272]
  <2>1. -296 \in DOMAIN mem /\ -288 \in DOMAIN mem /\ -280 \in DOMAIN mem /\ -272 \in DOMAIN mem
    BY <1>2, FrameWords
  <2>2. \A o \in Int : o < 0 => (o \div 8) - 1 < n
    BY <1>3
  <2>3. /\ -296 < 0 /\ -288 < 0 /\ -280 < 0 /\ -272 < 0
        /\ -296 \in Int /\ -288 \in Int /\ -280 \in Int /\ -272 \in Int
    OBVIOUS
  <2>4. \A o \in DOMAIN mem : o \in Int /\ o < 0 => mem'[o] = mem[o]
    BY <1>4, <2>2
  <2> QED BY <2>1, <2>3, <2>4
<1>6. Saved(mem') /\ PreparedARM(shape, reg', mem', k)
  <2> HIDE DEF k
  <2> QED BY <1>1, <1>2, <1>5 DEF Saved, PreparedARM
<1>7. CallingARM(shape, pc', reg', mem')
  <2>1. DOMAIN mem' = Addresses(shape)
    BY <1>2, <1>4
  <2> QED BY <1>1, <1>6, <2>1 DEF CallingARM
<1>8. AreaAfter(shape, mem')
  <2>1. SUFFICES ASSUME NEW i \in 0..Words(shape) - 1
                 PROVE  /\ i \in ArgBits(shape) => mem'[Area(i)] = Pointer(i)
                        /\ i \notin ArgBits(shape) => mem'[Area(i)] = Data(i)
    BY DEF AreaAfter
  <2>2. Area(i) \in DOMAIN mem /\ (Area(i) \div 8) - 1 = i
    <3>1. Area(i) \in DOMAIN mem
      BY <1>2, AddressesFacts
    <3> QED BY <3>1 DEF Area
  <2>3. /\ i < n => (i \in ArgBits(shape) <=> i \in shape.argPtrs)
        /\ ~(i < n) => (i \in ArgBits(shape) <=> i - n \in shape.retPtrs)
    BY <1>3 DEF ArgBits
  <2>4. CASE i < n
    <3>1. mem'[Area(i)] = mem[Area(i)]
      BY <1>4, <2>2, <2>4
    <3> QED BY <2>3, <2>4, <3>1 DEF AreaBefore
  <2>5. CASE ~(i < n)
    <3>1. /\ i - n \in shape.retPtrs => mem'[Area(i)] = Pointer(i)
          /\ ~(i - n \in shape.retPtrs) => mem'[Area(i)] = Data(i)
      BY <1>4, <2>2, <2>5
    <3> QED BY <2>3, <2>5, <3>1
  <2> QED BY <2>4, <2>5
<1> QED BY <1>1, <1>7, <1>8

\* Dispatch returns: the saved words, below its frame, and those of the area are as they were.
LEMMA ReturnsARM ==
  ASSUME DispatchReturns, arch = "arm64", shape \in Shapes, CallingARM(shape, pc, reg, mem),
         AreaAfter(shape, mem)
  PROVE  /\ phase' = "stub" /\ arch' = arch /\ shape' = shape
         /\ \A k : k = 29 + shape.retWords => StandsARM(shape, k, pc', reg', mem')
<1> DEFINE m == shape.retWords
<1>1. /\ M.sp = 31 /\ M.fp = 29 /\ M.g = 28 /\ M.regs = 0..31 /\ M.args = 8 /\ M.floats = 16
      /\ M.redZone = 1 /\ M.ints = [k \in 1..16 |-> k - 1] /\ Len(M.ints) = 16
  <2>1. [k \in 1..16 |-> k - 1] \in Seq(Nat) /\ Len([k \in 1..16 |-> k - 1]) = 16
    <3>1. PICK l \in Nat : l = 16
      OBVIOUS
    <3> DEFINE f == [k \in 1..16 |-> k - 1]
    <3>2. f \in [1..l -> Nat]
      BY <3>1
    <3> HIDE DEF f
    <3>3. f \in Seq(Nat) /\ Len(f) = l
      BY <3>2
    <3> QED BY <3>1, <3>3 DEF f
  <2> QED BY <2>1, MachineFacts
<1>2. /\ pc = 4 * Offset(ListARM(shape), 28 + m) /\ reg[31] = Addr(-288)
      /\ DOMAIN mem = Addresses(shape) /\ DOMAIN reg = 0..31
      /\ reg[28] = In(28) /\ Saved(mem)
  BY DEF CallingARM
<1>3. SP = -288 /\ CallSP = -288
  <2>1. SP = -288
    BY <1>1, <1>2, AddressFacts DEF SP
  <2> QED BY <2>1 DEF CallSP
<1>4. /\ phase' = "stub" /\ arch' = arch /\ shape' = shape /\ pc' = pc
      /\ mem' = [o \in DOMAIN mem |-> IF Below(o, CallSP) \/ o \in Outgoing THEN Junk ELSE mem[o]]
      /\ reg' = [r \in M.regs |-> IF r = M.sp THEN Addr(CallSP)
                                  ELSE IF r \in {M.fp, M.g} THEN reg[r]
                                  ELSE IF r \in ToSet(M.ints) THEN Res(r) ELSE Junk]
  BY DEF DispatchReturns
<1>5. Outgoing = {-288 + 8 + 8 * k : k \in 0..33}
  <2>1. 1 + 16 + 16 = 33
    OBVIOUS
  <2> QED BY <1>1, <1>3, <2>1 DEF Outgoing
<1>6. \A o \in DOMAIN mem : o \in Int /\ (o >= 0 \/ o = -296 \/ o = -288) => mem'[o] = mem[o]
  <2> SUFFICES ASSUME NEW o \in DOMAIN mem, o \in Int, o >= 0 \/ o = -296 \/ o = -288 PROVE mem'[o] = mem[o]
    OBVIOUS
  <2>1. ~Below(o, CallSP)
    BY <1>1, <1>3 DEF Below
  <2>2. o \notin Outgoing
    <3>1. \A k \in 0..33 : -288 + 8 + 8 * k <= -16 /\ -288 + 8 + 8 * k >= -280
      OBVIOUS
    <3> QED BY <1>5, <3>1
  <2> QED BY <1>4, <2>1, <2>2
<1>7. DOMAIN mem' = Addresses(shape) /\ Saved(mem')
  <2>1. -296 \in DOMAIN mem /\ -288 \in DOMAIN mem
    BY <1>2, FrameWords
  <2>2. mem'[-296] = mem[-296] /\ mem'[-288] = mem[-288]
    BY <1>6, <2>1
  <2> QED BY <1>2, <1>4, <2>2 DEF Saved
<1>8. AreaAfter(shape, mem')
  <2>1. ASSUME NEW i \in 0..Words(shape) - 1 PROVE mem'[Area(i)] = mem[Area(i)]
    <3>1. Area(i) \in DOMAIN mem /\ Area(i) \in Nat
      BY <1>2, AddressesFacts
    <3> QED BY <1>6, <3>1
  <2> QED BY <2>1 DEF AreaAfter
<1>9. /\ DOMAIN reg' = 0..31 /\ reg'[31] = Addr(-288) /\ reg'[28] = In(28)
  BY <1>1, <1>2, <1>3, <1>4
<1>10. ReturnedARM(reg')
  <2>1. SUFFICES ASSUME NEW t \in 0..15 PROVE reg'[t] = Res(t)
    BY DEF ReturnedARM
  <2>2. t \in 0..31 /\ t # 31 /\ t # 29 /\ t # 28
    OBVIOUS
  <2>3. t \in ToSet(M.ints)
    <3>1. t + 1 \in 1..16 /\ (t + 1) - 1 = t
      OBVIOUS
    <3>2. M.ints[t + 1] = t
      BY <1>1, <3>1
    <3> QED BY <1>1, <3>1, <3>2 DEF ToSet
  <2> QED BY <1>1, <1>4, <2>2, <2>3
<1>11. ASSUME NEW k, k = 29 + m PROVE StandsARM(shape, k, pc', reg', mem')
  <2>a. m \in Nat
    BY ShapeFacts
  <2>1. /\ ~(k <= 28 + m) /\ k >= 29 + m /\ ~(k <= 4) /\ ~(k = 2 \/ k = 3) /\ ~(k >= 30 + m)
        /\ k - 1 = 28 + m /\ k \in 4..30 + m
    BY <1>11, <2>a
  <2>2. DepthARM(m, k) = -288
    BY <2>1, <2>a, DepthsARM
  <2>3. pc' = 4 * Offset(ListARM(shape), k - 1)
    BY <1>2, <1>4, <2>1
  <2>4. FrameARM(shape, reg', mem', k)
    BY <1>7, <1>9, <2>1 DEF FrameARM
  <2> QED BY <1>8, <1>9, <1>10, <2>1, <2>2, <2>3, <2>4 DEF StandsARM
<1> QED BY <1>4, <1>11

-----------------------------------------------------------------------------
(* arm64: the invariant *)

StateARM ==
  /\ arch = "arm64" /\ arch \in Arches /\ shape \in Shapes
  /\ \/ phase = "stub" /\ \E k : AtARM(k, shape, pc, reg, mem)
     \/ /\ phase = "dispatch" /\ CallingARM(shape, pc, reg, mem) /\ target = Num(Dispatch)
        /\ AreaBefore(shape, mem, 20 + shape.retWords)
     \/ phase = "stored" /\ CallingARM(shape, pc, reg, mem) /\ AreaAfter(shape, mem)
     \/ /\ phase = "returned" /\ DoneARM(shape, pc, reg, mem) /\ target = reg[30]

\* the next instruction is one of the listing's
GoesARM ==
  /\ \E len : Advances(len)
  /\ \E j : j \in 1..31 + shape.retWords /\ StandsARM(shape, j, pc', reg', mem')

\* an instruction that is emitted, neither the call nor the return
OrdinaryARM(sh, k) ==
  /\ k \in 1..31 + sh.retWords /\ ListARM(sh)[k] # <<>>
  /\ k # 28 + sh.retWords /\ k # 31 + sh.retWords

\* Where an instruction of the listing is.
LEMMA PositionsARM ==
  ASSUME NEW m \in Nat, NEW k \in 1..31 + m
  PROVE  \/ k = 1 \/ k = 2 \/ k = 3 \/ k = 4 \/ k = 5 \/ k = 6 \/ k = 7 \/ k \in 8..7 + m
         \/ k \in 8 + m..22 + m \/ k = 23 + m \/ k = 24 + m \/ k = 25 + m \/ k = 26 + m
         \/ k = 27 + m \/ k = 28 + m \/ k = 29 + m \/ k = 30 + m \/ k = 31 + m
OBVIOUS

\* Every instruction but the call and the return leads to another.
LEMMA InstructionARM ==
  ASSUME NEW k, RunningARM(k), shape \in Shapes, OrdinaryARM(shape, k)
  PROVE  GoesARM
<1> DEFINE m == shape.retWords
<1>1. m \in Nat /\ ListsARM(shape, ListARM(shape), m)
  BY ShapeFacts, ListingARM
<1>a. m \in Nat
  BY <1>1
<1>0. /\ k \in 1..31 + m /\ ListARM(shape)[k] # <<>> /\ k # 28 + m /\ k # 31 + m
  BY DEF OrdinaryARM
<1>2. \/ k = 1 \/ k = 2 \/ k = 3 \/ k = 4 \/ k = 5 \/ k = 6 \/ k = 7 \/ k \in 8..7 + m
      \/ k \in 8 + m..22 + m \/ k = 23 + m \/ k = 24 + m \/ k = 25 + m \/ k = 26 + m
      \/ k = 27 + m \/ k = 29 + m \/ k = 30 + m
  <2> HIDE DEF m
  <2> QED BY <1>a, <1>0, PositionsARM
<1> DEFINE To(j) == (\E len : Advances(len)) /\ StandsARM(shape, j, pc', reg', mem')
<1>3. ASSUME NEW j, j \in 1..31 + m, To(j) PROVE GoesARM
  BY <1>3 DEF GoesARM
<1>4. /\ 1 + 1 \in 1..31 + m /\ 2 + 1 \in 1..31 + m /\ 3 + 1 \in 1..31 + m /\ 4 + 1 \in 1..31 + m
      /\ 5 + 1 \in 1..31 + m /\ 6 + 1 \in 1..31 + m /\ 7 + 1 \in 1..31 + m
      /\ 23 + m + 1 \in 1..31 + m /\ 24 + m + 1 \in 1..31 + m /\ 25 + m + 1 \in 1..31 + m
      /\ 26 + m + 1 \in 1..31 + m /\ 27 + m + 1 \in 1..31 + m
      /\ 30 + m \in 1..31 + m /\ 31 + m \in 1..31 + m
  <2> HIDE DEF m
  <2> QED BY <1>a
<1>5. CASE k = 1
  BY <1>3, <1>4, <1>5, FrameAddressARM
<1>6. CASE k = 2
  BY <1>3, <1>4, <1>6, SaveARM
<1>7. CASE k = 3
  BY <1>3, <1>4, <1>7, StackPointerARM
<1>8. CASE k = 4
  BY <1>3, <1>4, <1>8, FramePointerARM
<1>9. CASE k = 5
  BY <1>3, <1>4, <1>9, LastARM
<1>10. CASE k = 6
  BY <1>3, <1>4, <1>10, AreaAddressARM
<1>11. CASE k = 7
  BY <1>3, <1>4, <1>11, AreaArgumentARM
<1>12. CASE k = 23 + m
  BY <1>3, <1>4, <1>12, IndexARM
<1>13. CASE k = 24 + m
  BY <1>3, <1>4, <1>13, AddressARM1
<1>14. CASE k = 25 + m
  BY <1>3, <1>4, <1>14, AddressARM2
<1>15. CASE k = 26 + m
  BY <1>3, <1>4, <1>15, AddressARM3
<1>16. CASE k = 27 + m
  BY <1>3, <1>4, <1>16, AddressARM4
<1>17. CASE k = 29 + m
  BY <1>3, <1>4, <1>17, RestoreARM
<1>18. CASE k = 30 + m
  BY <1>3, <1>4, <1>18, UnframeARM
<1>19. CASE k \in 8..7 + m
  <2>1. PICK i : i = k - 7
    OBVIOUS
  <2>2. i \in 1..m /\ k = 7 + i /\ 7 + i + 1 \in 1..31 + m
    BY <1>a, <1>19, <2>1
  <2>3. i - 1 \in shape.retPtrs
    <3>1. \A q \in 1..m : q - 1 \notin shape.retPtrs => ListARM(shape)[7 + q] = <<>>
      BY <1>1 DEF ListsARM
    <3> QED BY <1>0, <2>2, <3>1
  <2>4. To(7 + i + 1)
    BY <2>2, <2>3, ClearARM
  <2> QED BY <1>3, <2>2, <2>4
<1>20. CASE k \in 8 + m..22 + m
  <2>1. PICK i : i = k - 7 - m
    OBVIOUS
  <2>2. i \in 1..15 /\ k = 7 + m + i /\ 7 + m + i + 1 \in 1..31 + m
    <3> HIDE DEF m
    <3>1. k \in Int /\ 8 + m <= k /\ k <= 22 + m
      BY <1>a, <1>20
    <3>2. i \in 1..15
      BY <1>a, <2>1, <3>1
    <3>3. k = 7 + m + i
      BY <1>a, <2>1, <3>1
    <3> QED BY <1>a, <3>2, <3>3
  <2>3. RunningARM(7 + m + i)
    BY <2>2
  <2>4. To(7 + m + i + 1)
    BY <2>2, <2>3, ShiftARM
  <2> QED BY <1>3, <2>2, <2>4
<1> QED BY <1>2, <1>5, <1>6, <1>7, <1>8, <1>9, <1>10, <1>11, <1>12, <1>13, <1>14, <1>15, <1>16, <1>17, <1>18, <1>19, <1>20

\* A step of the trampoline.
LEMMA StubARM ==
  ASSUME StateARM, phase = "stub", Next
  PROVE  StateARM'
<1> DEFINE m == shape.retWords
<1>1. arch = "arm64" /\ arch \in Arches /\ shape \in Shapes
  BY DEF StateARM
<1>2. PICK k : AtARM(k, shape, pc, reg, mem)
  BY DEF StateARM
<1>3. CASE AsyncPreempt
  BY <1>1, <1>2, <1>3, PreemptARM DEF StateARM
<1>4. CASE ~AsyncPreempt
  <2>1. k \in 1..31 + m /\ ListARM(shape)[k] # <<>> /\ StandsARM(shape, k, pc, reg, mem)
    BY <1>2 DEF AtARM
  <2>2. RunningARM(k)
    <3>1. pc = 4 * Offset(ListARM(shape), k - 1)
      BY <2>1 DEF StandsARM
    <3> QED BY <1>1, <1>4, <2>1, <3>1 DEF RunningARM, NextARM
  <2>3. CASE k = 28 + m
    <3>1. /\ phase' = "dispatch" /\ arch' = arch /\ shape' = shape /\ target' = Num(Dispatch)
          /\ CallingARM(shape, pc', reg', mem') /\ AreaBefore(shape, mem', 20 + shape.retWords)
      BY <2>2, <2>3, CallARM
    <3> QED BY <1>1, <3>1 DEF StateARM
  <2>4. CASE k = 31 + m
    <3>1. /\ phase' = "returned" /\ arch' = arch /\ shape' = shape /\ target' = reg'[30]
          /\ DoneARM(shape, pc', reg', mem')
      BY <2>2, <2>4, ReturnARM
    <3> QED BY <1>1, <3>1 DEF StateARM
  <2>5. CASE k # 28 + m /\ k # 31 + m
    <3>1. GoesARM
      <4>1. OrdinaryARM(shape, k)
        BY <2>1, <2>5 DEF OrdinaryARM
      <4> QED BY <1>1, <2>2, <4>1, InstructionARM
    <3>2. arch' = arch /\ shape' = shape /\ phase' = phase
      BY <3>1 DEF GoesARM, Advances
    <3>3. \E j : AtARM(j, shape, pc', reg', mem')
      <4>1. PICK j : j \in 1..31 + shape.retWords /\ StandsARM(shape, j, pc', reg', mem')
        BY <3>1 DEF GoesARM
      <4> QED BY <1>1, <4>1, SettleARM
    <3> QED BY <1>1, <3>2, <3>3 DEF StateARM
  <2> QED BY <2>3, <2>4, <2>5
<1> QED BY <1>3, <1>4

\* Dispatch's results.
LEMMA DispatchingARM ==
  ASSUME StateARM, phase = "dispatch", Next
  PROVE  StateARM'
<1>1. DispatchStores
  BY DEF Next, Push, Pop, Add, Move, Set, Keep, Store, Clear, StorePair, LoadPair, Call, Return,
         Executes, DispatchReturns, AsyncPreempt, Finished
<1>2. /\ arch = "arm64" /\ arch \in Arches /\ shape \in Shapes
      /\ CallingARM(shape, pc, reg, mem) /\ AreaBefore(shape, mem, 20 + shape.retWords)
  BY DEF StateARM
<1>3. /\ phase' = "stored" /\ arch' = arch /\ shape' = shape
      /\ CallingARM(shape, pc', reg', mem') /\ AreaAfter(shape, mem')
  BY <1>1, <1>2, StoresARM
<1> QED BY <1>2, <1>3 DEF StateARM

\* Dispatch's return.
LEMMA ReturningARM ==
  ASSUME StateARM, phase = "stored", Next
  PROVE  StateARM'
<1> DEFINE m == shape.retWords
<1>1. DispatchReturns
  BY DEF Next, Push, Pop, Add, Move, Set, Keep, Store, Clear, StorePair, LoadPair, Call, Return,
         Executes, DispatchStores, AsyncPreempt, Finished
<1>2. /\ arch = "arm64" /\ arch \in Arches /\ shape \in Shapes
      /\ CallingARM(shape, pc, reg, mem) /\ AreaAfter(shape, mem)
  BY DEF StateARM
<1>3. /\ phase' = "stub" /\ arch' = arch /\ shape' = shape
      /\ \A k : k = 29 + m => StandsARM(shape, k, pc', reg', mem')
  BY <1>1, <1>2, ReturnsARM
<1>4. 29 + m \in 1..31 + m
  BY <1>2, ShapeFacts
<1>5. \E j : AtARM(j, shape, pc', reg', mem')
  BY <1>2, <1>3, <1>4, SettleARM
<1> QED BY <1>2, <1>3, <1>5 DEF StateARM

\* The caller's call.
LEMMA InitARM ==
  ASSUME Init, arch = "arm64"
  PROVE  StateARM
<1> DEFINE m == shape.retWords
           n == shape.argWords
<1>1. arch \in Arches /\ shape \in Shapes /\ phase = "stub" /\ pc = 0
  BY DEF Init
<1>2. M.sp = 31 /\ M.regs = 0..31 /\ ARM!LR = 30
  BY MachineFacts DEF ARM!LR
<1>3. /\ DOMAIN reg = 0..31 /\ reg[31] = Addr(0) /\ reg[30] = Caller
      /\ \A x \in 0..31 : x # 31 /\ x # 30 => reg[x] = In(x)
  BY <1>2 DEF Init
<1>4. /\ DOMAIN mem = Addresses(shape)
      /\ \A o \in Addresses(shape) : o > 0 =>
           /\ (o \div 8) - 1 >= n => mem[o] = Stale((o \div 8) - 1)
           /\ ~((o \div 8) - 1 >= n) /\ (o \div 8) - 1 \in shape.argPtrs =>
                mem[o] = Pointer((o \div 8) - 1)
           /\ ~((o \div 8) - 1 >= n) /\ (o \div 8) - 1 \notin shape.argPtrs =>
                mem[o] = Data((o \div 8) - 1)
  <2>1. mem = [o \in Addresses(shape) |->
              IF o < 0 THEN Junk
              ELSE IF o = 0 THEN (IF arch = "amd64" THEN Caller ELSE Junk)
              ELSE LET i == o \div 8 - 1 IN
                   IF i >= shape.argWords THEN Stale(i)
                   ELSE IF i \in shape.argPtrs THEN Pointer(i) ELSE Data(i)]
    BY DEF Init
  <2>2. \A o \in Addresses(shape) : o \in Int
    BY <1>1, ShapeFacts DEF Addresses, Words
  <2> QED BY <2>1, <2>2
<1>5. /\ n \in Nat /\ m \in Nat /\ Words(shape) = n + m
      /\ \A i \in shape.retPtrs : i \in Nat
  BY <1>1, ShapeFacts DEF Words
<1>a. m \in Nat
  BY <1>5
<1>6. FrameARM(shape, reg, mem, 1)
  <2>1. 1 <= 28 + m /\ ~(1 >= 30 + m)
    BY <1>a
  <2> QED BY <1>3, <1>4, <2>1 DEF FrameARM
<1>7. IntsARM(shape, reg, 1)
  <2>1. SUFFICES ASSUME NEW t \in 1..15
                 PROVE  /\ 1 >= 24 + m - t => reg[t] = In(t - 1)
                        /\ 1 < 24 + m - t => reg[t] = In(t)
    BY DEF IntsARM
  <2>2. ~(1 >= 24 + m - t)
    BY <1>a
  <2>3. t \in 0..31 /\ t # 31 /\ t # 30
    OBVIOUS
  <2> QED BY <1>3, <2>2, <2>3
<1>8. PreparedARM(shape, reg, mem, 1)
  <2>1. /\ 1 <= 23 + m /\ ~(1 >= 24 + m) /\ ~(1 = 25 + m) /\ ~(1 = 26 + m) /\ ~(1 = 27 + m)
        /\ ~(1 = 28 + m)
    BY <1>a
  <2>2. reg[0] = In(0)
    BY <1>3
  <2> QED BY <2>1, <2>2 DEF PreparedARM
<1>9. AreaBefore(shape, mem, 1 - 8)
  <2>1. SUFFICES ASSUME NEW i \in 0..Words(shape) - 1
                 PROVE  /\ (i < n /\ i \in shape.argPtrs) => mem[Area(i)] = Pointer(i)
                        /\ (i < n /\ i \notin shape.argPtrs) => mem[Area(i)] = Data(i)
                        /\ ~(i >= n /\ i - n \in shape.retPtrs /\ i - n < 1 - 8)
                        /\ i >= n => mem[Area(i)] = Stale(i)
    BY DEF AreaBefore
  <2>2. /\ Area(i) \in Addresses(shape) /\ Area(i) > 0 /\ (Area(i) \div 8) - 1 = i
    <3>1. Area(i) \in Addresses(shape) /\ Area(i) \in Nat /\ Area(i) >= 8
      BY <1>1, AddressesFacts
    <3> QED BY <1>5, <3>1 DEF Area
  <2>3. /\ i >= n => mem[Area(i)] = Stale(i)
        /\ ~(i >= n) /\ i \in shape.argPtrs => mem[Area(i)] = Pointer(i)
        /\ ~(i >= n) /\ i \notin shape.argPtrs => mem[Area(i)] = Data(i)
    BY <1>4, <2>2
  <2>4. (i < n <=> ~(i >= n)) /\ ~(i >= n /\ i - n < 1 - 8)
    BY <1>5
  <2> QED BY <2>3, <2>4
<1>10. ASSUME NEW k, k = 1 PROVE StandsARM(shape, k, pc, reg, mem)
  <2>1. /\ k <= 28 + m /\ ~(k >= 29 + m) /\ k - 1 = 0
    BY <1>5, <1>10
  <2>2. pc = 4 * Offset(ListARM(shape), k - 1)
    <3>1. ListsARM(shape, ListARM(shape), m)
      BY <1>1, ListingARM
    <3>2. Offset(ListARM(shape), 0) = 0
      BY <3>1, OffsetsARM
    <3> QED BY <1>1, <2>1, <3>2
  <2>3. DepthARM(m, k) = 0
    BY <1>10 DEF DepthARM
  <2> QED BY <1>3, <1>6, <1>7, <1>8, <1>9, <1>10, <2>1, <2>2, <2>3 DEF StandsARM
<1>11. \E j : AtARM(j, shape, pc, reg, mem)
  <2>1. 1 \in 1..31 + m
    BY <1>5
  <2> QED BY <1>1, <1>10, <2>1, SettleARM
<1> QED BY <1>1, <1>11 DEF StateARM

\* Every step keeps it.
LEMMA InductiveARM ==
  ASSUME StateARM, [Next]_vars
  PROVE  StateARM'
<1>1. CASE UNCHANGED vars
  BY <1>1 DEF StateARM, vars
<1>2. CASE Next
  <2>1. phase \in {"stub", "dispatch", "stored", "returned"}
    BY DEF StateARM
  <2>2. CASE phase = "returned"
    <3>1. Finished
      BY <1>2, <2>2 DEF Next, Push, Pop, Add, Move, Set, Keep, Store, Clear, StorePair, LoadPair,
         Call, Return, Executes, DispatchStores, DispatchReturns, AsyncPreempt
    <3> QED BY <3>1 DEF Finished, StateARM, vars
  <2> QED BY <1>2, <2>1, <2>2, StubARM, DispatchingARM, ReturningARM
<1> QED BY <1>1, <1>2

-----------------------------------------------------------------------------
(* arm64: the stack pointer table *)

\* The prologue's length, which the table's first entry is up to.
LEMMA PrologueARM == PrologueLen("arm64") = 12
<1> DEFINE a == ARM!Sub(20, 31, 288)
           b == ARM!Stp(29, 30, 20, -8)
           c == ARM!Add(31, 20, 0)
           s == <<a, b, c>>
<1>1. ARM!Prologue = s
  BY DEF ARM!Prologue, ARM!FP, ARM!LR, ARM!SP, ARM!FrameSize
<1>2. a \in WordSeq /\ Len(a) = 1
  <2>1. DoesARM(a, "add", 20, 31, -288, ARM!NoImm)
    BY FixedForms
  <2> HIDE DEF a
  <2> QED BY <2>1, OneEach
<1>3. b \in WordSeq /\ Len(b) = 1
  <2>1. DoesARM(b, "storepair", 29, 20, -8, <<30, 0, 0, 0>>)
    BY FixedForms
  <2> HIDE DEF b
  <2> QED BY <2>1, OneEach
<1>4. c \in WordSeq /\ Len(c) = 1
  <2>1. DoesARM(c, "add", 31, 20, 0, ARM!NoImm)
    BY FixedForms
  <2> HIDE DEF c
  <2> QED BY <2>1, OneEach
<1> HIDE DEF a, b, c
<1>5. s \in Seq(WordSeq) /\ Len(s) = 3 /\ s[1] = a /\ s[2] = b /\ s[3] = c
  BY <1>2, <1>3, <1>4
<1> HIDE DEF s
<1>6. s \in Seq(Seq(BitSet)) /\ s # <<>>
  BY <1>5 DEF WordSeq
<1>7. Len(FlattenSeq(s)) = Offset(s, 3)
  BY <1>5, <1>6, FlattenFacts
<1>8. /\ Offset(s, 0) = 0 /\ \A k \in 1..3 : Offset(s, k) = Offset(s, k - 1) + Len(s[k])
  BY <1>5, <1>6, OffsetFacts
<1>9. Offset(s, 1) = 1 /\ Offset(s, 2) = 2 /\ Offset(s, 3) = 3
  <2>1. Offset(s, 1) = Offset(s, 1 - 1) + Len(s[1])
    BY <1>8
  <2>2. Offset(s, 2) = Offset(s, 2 - 1) + Len(s[2])
    BY <1>8
  <2>3. Offset(s, 3) = Offset(s, 3 - 1) + Len(s[3])
    BY <1>8
  <2>4. 1 - 1 = 0 /\ 2 - 1 = 1 /\ 3 - 1 = 2
    OBVIOUS
  <2>5. Len(s[1]) = 1 /\ Len(s[2]) = 1 /\ Len(s[3]) = 1
    BY <1>2, <1>3, <1>4, <1>5
  <2>6. Offset(s, 1) = 0 + 1
    BY <1>8, <2>1, <2>4, <2>5
  <2>7. Offset(s, 2) = 1 + 1
    BY <2>2, <2>4, <2>5, <2>6
  <2> QED BY <2>3, <2>4, <2>5, <2>6, <2>7
<1>10. PrologueLen("arm64") = 4 * Len(FlattenSeq(s))
  BY <1>1 DEF PrologueLen, CodeLen, StubCode
<1> QED BY <1>7, <1>9, <1>10

\* how long the code is, where its last instructions are, and that the words of a frame
\* are set up before the call
LengthsARM(L, m, len) ==
  /\ len = 4 * Offset(L, 31 + m) /\ Offset(L, 31 + m) <= 31 + m
  /\ Offset(L, 30 + m) + 1 = Offset(L, 31 + m) /\ Offset(L, 28 + m) + 3 = Offset(L, 31 + m)
  /\ 12 <= Offset(L, 28 + m)
  /\ \A k \in 0..31 + m : Offset(L, k) \in Nat /\ Offset(L, k) <= Offset(L, 31 + m)
  /\ \A k \in 1..31 + m : L[k] # <<>> => Offset(L, k - 1) < Offset(L, k)

\* One word for every instruction that is emitted.
LEMMA LengthsFactsARM ==
  ASSUME NEW sh \in Shapes, NEW L, L = ListARM(sh), NEW m, m = sh.retWords
  PROVE  LengthsARM(L, m, CodeLen("arm64", Code("arm64", sh)))
<1> DEFINE len == CodeLen("arm64", Code("arm64", sh))
<1>1. ListsARM(sh, L, m)
  BY ListingARM
<1>a. m \in Nat
  BY <1>1 DEF ListsARM
<1>2. L \in Seq(Seq(BitSet)) /\ Len(L) = 31 + m /\ \A k \in 1..31 + m : Len(L[k]) <= 1
  BY <1>1 DEF ListsARM, WordSeq
<1>3. L # <<>>
  BY <1>a, <1>2
<1>4. Code("arm64", sh) = FlattenSeq(L)
  BY DEF Code, StubCode, ListARM
<1>5. len = 4 * Offset(L, 31 + m)
  BY <1>2, <1>3, <1>4, FlattenFacts DEF CodeLen
<1>6. /\ Offset(L, 0) = 0 /\ \A k \in 0..31 + m : Offset(L, k) \in Nat
      /\ \A k \in 1..31 + m : Offset(L, k) = Offset(L, k - 1) + Len(L[k])
  BY <1>1, OffsetsARM
<1>7. /\ \A k \in 0..31 + m : Offset(L, k) <= k
      /\ \A k \in 0..31 + m : \A j \in 0..k : Offset(L, j) <= Offset(L, k)
  <2>1. \A k \in 1..Len(L) : Len(L[k]) <= 1
    BY <1>2
  <2>2. 1 \in {1, 15}
    OBVIOUS
  <2>3. /\ \A k \in 0..31 + m : Offset(L, k) <= 1 * k
        /\ \A k \in 0..31 + m : \A j \in 0..k : Offset(L, j) <= Offset(L, k)
    BY <1>2, <2>1, <2>2, OffsetBound
  <2>4. \A k \in 0..31 + m : 1 * k = k
    BY <1>a
  <2> QED BY <2>3, <2>4
<1> HIDE DEF len
<1>8. ASSUME NEW k \in 1..31 + m, L[k] # <<>> PROVE Offset(L, k - 1) < Offset(L, k)
  <2>1. L[k] \in Seq(BitSet)
    BY <1>2
  <2>2. Len(L[k]) \in Nat /\ Len(L[k]) # 0
    BY <1>8, <2>1, LenProperties, EmptySeq
  <2>3. k - 1 \in 0..31 + m
    BY <1>a
  <2> QED BY <1>6, <2>2, <2>3
<1>9. \A k \in 0..31 + m : Offset(L, k) \in Nat /\ Offset(L, k) <= Offset(L, 31 + m)
  <2>1. \A k \in 0..31 + m : k \in 0..31 + m /\ 31 + m \in 0..31 + m
    BY <1>a
  <2> QED BY <1>6, <1>7, <2>1
<1>10. /\ Offset(L, 29 + m) = Offset(L, 28 + m) + 1 /\ Offset(L, 30 + m) = Offset(L, 29 + m) + 1
       /\ Offset(L, 31 + m) = Offset(L, 30 + m) + 1
  <2>1. /\ 29 + m \in 1..31 + m /\ 30 + m \in 1..31 + m /\ 31 + m \in 1..31 + m
        /\ (29 + m) - 1 = 28 + m /\ (30 + m) - 1 = 29 + m /\ (31 + m) - 1 = 30 + m
    BY <1>a
  <2>2. Len(L[29 + m]) = 1 /\ Len(L[30 + m]) = 1 /\ Len(L[31 + m]) = 1
    BY <1>1 DEF ListsARM, DoesARM
  <2> QED BY <1>6, <2>1, <2>2
<1>11. 7 <= Offset(L, 22 + m)
  <2>1. ASSUME NEW k \in 1..7 PROVE Offset(L, k - 1) < Offset(L, k)
    <3>1. k \in 1..31 + m /\ k \notin 8..7 + m
      BY <1>a
    <3> QED BY <1>1, <1>8, <3>1, EmittedARM
  <2>2. \A k \in 0..7 : Offset(L, k) \in Nat
    <3>1. \A k \in 0..7 : k \in 0..31 + m
      BY <1>a
    <3> QED BY <1>6, <3>1
  <2>3. /\ Offset(L, 0) < Offset(L, 1) /\ Offset(L, 1) < Offset(L, 2) /\ Offset(L, 2) < Offset(L, 3)
        /\ Offset(L, 3) < Offset(L, 4) /\ Offset(L, 4) < Offset(L, 5) /\ Offset(L, 5) < Offset(L, 6)
        /\ Offset(L, 6) < Offset(L, 7)
    <3>1. /\ 1 - 1 = 0 /\ 2 - 1 = 1 /\ 3 - 1 = 2 /\ 4 - 1 = 3 /\ 5 - 1 = 4 /\ 6 - 1 = 5 /\ 7 - 1 = 6
          /\ 1 \in 1..7 /\ 2 \in 1..7 /\ 3 \in 1..7 /\ 4 \in 1..7 /\ 5 \in 1..7 /\ 6 \in 1..7 /\ 7 \in 1..7
      OBVIOUS
    <3> QED BY <2>1, <3>1
  <2>4. 7 <= Offset(L, 7)
    BY <2>2, <2>3
  <2>5. Offset(L, 7) <= Offset(L, 22 + m) /\ Offset(L, 22 + m) \in Nat
    <3>1. 22 + m \in 0..31 + m /\ 7 \in 0..22 + m
      BY <1>a
    <3> QED BY <1>6, <1>7, <3>1
  <2> QED BY <2>2, <2>4, <2>5
<1>12. 12 <= Offset(L, 28 + m)
  <2>1. /\ Offset(L, 22 + m) < Offset(L, 23 + m) /\ Offset(L, 23 + m) < Offset(L, 24 + m)
        /\ Offset(L, 24 + m) < Offset(L, 25 + m) /\ Offset(L, 25 + m) < Offset(L, 26 + m)
        /\ Offset(L, 26 + m) < Offset(L, 27 + m) /\ Offset(L, 27 + m) < Offset(L, 28 + m)
    <3>1. ASSUME NEW d \in 23..28 PROVE Offset(L, (d + m) - 1) < Offset(L, d + m)
      <4>1. PICK k : k = d + m
        OBVIOUS
      <4>2. k \in 1..31 + m /\ k \notin 8..7 + m
        BY <1>a, <4>1
      <4>3. L[k] # <<>>
        BY <1>1, <4>2, EmittedARM
      <4>4. Offset(L, k - 1) < Offset(L, k)
        BY <1>8, <4>2, <4>3
      <4> QED BY <4>1, <4>4
    <3>2. /\ (23 + m) - 1 = 22 + m /\ (24 + m) - 1 = 23 + m /\ (25 + m) - 1 = 24 + m
          /\ (26 + m) - 1 = 25 + m /\ (27 + m) - 1 = 26 + m /\ (28 + m) - 1 = 27 + m
          /\ 23 \in 23..28 /\ 24 \in 23..28 /\ 25 \in 23..28 /\ 26 \in 23..28 /\ 27 \in 23..28 /\ 28 \in 23..28
      BY <1>a
    <3> QED BY <3>1, <3>2
  <2>2. /\ Offset(L, 22 + m) \in Nat /\ Offset(L, 23 + m) \in Nat /\ Offset(L, 24 + m) \in Nat
        /\ Offset(L, 25 + m) \in Nat /\ Offset(L, 26 + m) \in Nat /\ Offset(L, 27 + m) \in Nat
        /\ Offset(L, 28 + m) \in Nat
    <3>1. /\ 22 + m \in 0..31 + m /\ 23 + m \in 0..31 + m /\ 24 + m \in 0..31 + m /\ 25 + m \in 0..31 + m
          /\ 26 + m \in 0..31 + m /\ 27 + m \in 0..31 + m /\ 28 + m \in 0..31 + m
      BY <1>a
    <3> QED BY <1>6, <3>1
  <2> QED BY <1>11, <2>1, <2>2
<1>13. Offset(L, 31 + m) <= 31 + m
  <2>1. 31 + m \in 0..31 + m
    BY <1>a
  <2> QED BY <1>7, <2>1
<1>14. Offset(L, 30 + m) + 1 = Offset(L, 31 + m) /\ Offset(L, 28 + m) + 3 = Offset(L, 31 + m)
  <2>1. Offset(L, 28 + m) \in Nat
    <3>1. 28 + m \in 0..31 + m
      BY <1>a
    <3> QED BY <1>6, <3>1
  <2> QED BY <1>10, <2>1
<1> QED BY <1>5, <1>8, <1>9, <1>12, <1>13, <1>14 DEF LengthsARM, len

\* The three entries of the table.
LEMMA EntriesARM ==
  ASSUME NEW len \in Nat, len < 65536, len > 16
  PROVE  /\ Tabulated(ARM!Entries(PrologueLen("arm64"), len)) /\ Len(ARM!Entries(PrologueLen("arm64"), len)) = 3
         /\ ARM!Entries(PrologueLen("arm64"), len)[1] = [pc |-> 12, spdelta |-> 0]
         /\ ARM!Entries(PrologueLen("arm64"), len)[2] = [pc |-> len - 4, spdelta |-> 288]
         /\ ARM!Entries(PrologueLen("arm64"), len)[3] = [pc |-> len, spdelta |-> 0]
<1> DEFINE E == ARM!Entries(PrologueLen("arm64"), len)
<1>1. E = <<[pc |-> 12, spdelta |-> 0], [pc |-> len - 4, spdelta |-> 288], [pc |-> len, spdelta |-> 0]>>
  <2>1. ARM!SPDelta = 288
    BY DEF ARM!SPDelta, ARM!FrameSize
  <2>2. E = <<[pc |-> PrologueLen("arm64"), spdelta |-> 0],
              [pc |-> len - 4, spdelta |-> ARM!SPDelta], [pc |-> len, spdelta |-> 0]>>
    BY DEF ARM!Entries
  <2> QED BY <2>1, <2>2, PrologueARM
<1>2. /\ E \in Seq([pc : Nat, spdelta : Int]) /\ Len(E) = 3
      /\ E[1] = [pc |-> 12, spdelta |-> 0] /\ E[2] = [pc |-> len - 4, spdelta |-> 288]
      /\ E[3] = [pc |-> len, spdelta |-> 0]
  <2>1. len - 4 \in Nat
    OBVIOUS
  <2> DEFINE r == [pc : Nat, spdelta : Int]
             a == [pc |-> 12, spdelta |-> 0]
             b == [pc |-> len - 4, spdelta |-> 288]
             c == [pc |-> len, spdelta |-> 0]
  <2>2. a \in r /\ b \in r /\ c \in r
    BY <2>1
  <2>3. E = <<a, b, c>>
    BY <1>1
  <2> HIDE DEF E, r, a, b, c
  <2>4. E \in Seq(r) /\ Len(E) = 3 /\ E[1] = a /\ E[2] = b /\ E[3] = c
    BY <2>2, <2>3
  <2> QED BY <2>4 DEF r, a, b, c
<1> HIDE DEF E
<1>3. /\ UpTo(E, 0) = 0 /\ UpTo(E, 1) = 12 /\ UpTo(E, 2) = len - 4 /\ UpTo(E, 3) = len
      /\ Value(E, 0) = -1 /\ Value(E, 1) = 0 /\ Value(E, 2) = 288 /\ Value(E, 3) = 0
  BY <1>2 DEF UpTo, Value
<1> DEFINE Fine(i, j) == /\ UpTo(E, j) < UpTo(E, i) /\ UpTo(E, i) - UpTo(E, j) \in Half
                         /\ PCTab!ZigZag(Value(E, i) - Value(E, j)) \in Half
                         /\ (i # 1 => Value(E, i) # Value(E, j))
<1>4. Fine(1, 0)
  BY <1>3 DEF Half, PCTab!ZigZag
<1>5. Fine(2, 1)
  BY <1>3 DEF Half, PCTab!ZigZag
<1>6. Fine(3, 2)
  BY <1>3 DEF Half, PCTab!ZigZag
<1>7. \A i \in 1..3 : Fine(i, i - 1)
  <2> SUFFICES ASSUME NEW i \in 1..3 PROVE Fine(i, i - 1)
    OBVIOUS
  <2>1. (i = 1 /\ i - 1 = 0) \/ (i = 2 /\ i - 1 = 1) \/ (i = 3 /\ i - 1 = 2)
    OBVIOUS
  <2> HIDE DEF Fine
  <2> QED BY <1>4, <1>5, <1>6, <2>1
<1>8. E # <<>>
  <2>1. Len(E) # 0
    BY <1>2
  <2>2. PICK r : E \in Seq(r)
    BY <1>2
  <2> QED BY <2>1, <2>2, EmptySeq
<1>9. Tabulated(E)
  <2>1. \A i \in 1..3 : /\ UpTo(E, i - 1) < UpTo(E, i) /\ PCCode(E, i) \in Groupable
                        /\ ValueCode(E, i) \in Groupable /\ (i # 1 => Value(E, i) # Value(E, i - 1))
    BY <1>7, HalfWide DEF PCCode, ValueCode
  <2> QED BY <1>2, <1>8, <2>1 DEF Tabulated
<1> QED BY <1>2, <1>9 DEF E

DeltaARM(sh, p) == PCTab!ReadPCValue(PCSP("arm64", CodeLen("arm64", Code("arm64", sh))), 4, p)

\* Where Dispatch returns to the runtime reads the frame's size.
LEMMA DeltaFactsARM ==
  ASSUME NEW sh \in Shapes, NEW m, m = sh.retWords
  PROVE  DeltaARM(sh, 4 * Offset(ListARM(sh), 28 + m)) = 288
<1> DEFINE L == ListARM(sh)
           len == CodeLen("arm64", Code("arm64", sh))
           E == ARM!Entries(PrologueLen("arm64"), len)
           x == Offset(L, 28 + m)
           n == Offset(L, 31 + m)
<1>1. LengthsARM(L, m, len)
  BY LengthsFactsARM
<1>2. m \in Nat /\ m <= 60
  BY ShapeFacts
<1>3. len = 4 * n /\ n <= 31 + m /\ x + 3 = n /\ 12 <= x /\ x \in Nat /\ n \in Nat
  <2>1. 28 + m \in 0..31 + m /\ 31 + m \in 0..31 + m
    BY <1>2
  <2> HIDE DEF L, len
  <2> QED BY <1>1, <2>1 DEF LengthsARM
<1> HIDE DEF n, len
<1>4. len \in Nat /\ len < 65536 /\ len > 16
  <2> HIDE DEF x
  <2> QED BY <1>2, <1>3
<1>5. /\ Tabulated(E) /\ Len(E) = 3 /\ UpTo(E, 1) = 12 /\ UpTo(E, 2) = len - 4 /\ E[2].spdelta = 288
  <2>1. /\ Tabulated(E) /\ Len(E) = 3
        /\ E[1] = [pc |-> 12, spdelta |-> 0] /\ E[2] = [pc |-> len - 4, spdelta |-> 288]
        /\ E[3] = [pc |-> len, spdelta |-> 0]
    BY <1>4, EntriesARM
  <2> HIDE DEF E
  <2> QED BY <2>1 DEF UpTo
<1>6. DeltaARM(sh, 4 * x) = PCTab!ReadPCValue(EncodePCSP(E), 4, 4 * x)
  BY DEF DeltaARM, PCSP, len
<1> HIDE DEF E, x
<1>7. InRange(E, 4, 2, 4 * x)
  <2> DEFINE i == 2
  <2>1. i - 1 = 1 /\ i \in 1..Len(E)
    BY <1>5
  <2> HIDE DEF i
  <2>2. UpTo(E, i - 1) = 12 /\ UpTo(E, i) = len - 4
    BY <1>5, <2>1 DEF i
  <2>3. 4 * x \in Nat /\ 12 * 4 <= 4 * x /\ 4 * x < (len - 4) * 4
    BY <1>3, <1>4
  <2>4. InRange(E, 4, i, 4 * x)
    BY <2>1, <2>2, <2>3 DEF InRange
  <2> QED BY <2>4 DEF i
<1>8. 4 \in {1, 4}
  OBVIOUS
<1>9. PCTab!ReadPCValue(EncodePCSP(E), 4, 4 * x) = E[2].spdelta
  BY <1>5, <1>7, <1>8, TableRoundTrip
<1> QED BY <1>5, <1>6, <1>9 DEF x

-----------------------------------------------------------------------------
(* arm64: what the invariant says of the properties *)

\* the k-th instruction is one of the processor's
DefinedARM(L, k) == \E op, a, b, n, imm : HasARM(L, k, op, a, b, n, imm) /\ op # "undefined"

\* Every instruction that is emitted is one of the processor's.
LEMMA AllDefinedARM ==
  ASSUME NEW sh, NEW L, NEW m, ListsARM(sh, L, m), NEW k \in 1..31 + m, L[k] # <<>>
  PROVE  DefinedARM(L, k)
<1>a. m \in Nat /\ k \in 1..Len(L)
  BY DEF ListsARM
<1>1. ASSUME NEW j, j = k, NEW op, NEW a, NEW b, NEW n, NEW imm,
             DoesARM(L[j], op, a, b, n, imm), op # "undefined"
      PROVE  DefinedARM(L, k)
  BY <1>a, <1>1 DEF DefinedARM, HasARM
<1>2. \/ k = 1 \/ k = 2 \/ k = 3 \/ k = 4 \/ k = 5 \/ k = 6 \/ k = 7 \/ k \in 8..7 + m
      \/ k \in 8 + m..22 + m \/ k = 23 + m \/ k = 24 + m \/ k = 25 + m \/ k = 26 + m
      \/ k = 27 + m \/ k = 28 + m \/ k = 29 + m \/ k = 30 + m \/ k = 31 + m
  BY <1>a, PositionsARM
<1>3. CASE k = 1 \/ k = 2 \/ k = 3 \/ k = 4 \/ k = 5 \/ k = 6 \/ k = 7
  <2>1. DoesARM(L[1], "add", 20, 31, -288, ARM!NoImm)
    BY DEF ListsARM
  <2>2. DoesARM(L[2], "storepair", 29, 20, -8, <<30, 0, 0, 0>>)
    BY DEF ListsARM
  <2>3. DoesARM(L[3], "add", 31, 20, 0, ARM!NoImm)
    BY DEF ListsARM
  <2>4. DoesARM(L[4], "add", 29, 31, -8, ARM!NoImm)
    BY DEF ListsARM
  <2>5. DoesARM(L[5], "store", 15, 31, 8, ARM!NoImm)
    BY DEF ListsARM
  <2>6. DoesARM(L[6], "add", 16, 31, 296, ARM!NoImm)
    BY DEF ListsARM
  <2>7. DoesARM(L[7], "store", 16, 31, 16, ARM!NoImm)
    BY DEF ListsARM
  <2> HIDE DEF DefinedARM
  <2> QED BY <1>1, <1>3, <2>1, <2>2, <2>3, <2>4, <2>5, <2>6, <2>7
<1>4. CASE k \in 8..7 + m
  <2>1. PICK i : i = k - 7
    OBVIOUS
  <2>2. i \in 1..m /\ k = 7 + i
    BY <1>a, <1>4, <2>1
  <2>3. /\ i - 1 \in sh.retPtrs =>
             DoesARM(L[7 + i], "clear", 31, 16, 8 * (sh.argWords + i - 1), ARM!NoImm)
        /\ i - 1 \notin sh.retPtrs => L[7 + i] = <<>>
    BY <2>2 DEF ListsARM
  <2> QED BY <1>1, <2>2, <2>3
<1>5. CASE k \in 8 + m..22 + m
  <2>1. PICK i : i = k - 7 - m
    OBVIOUS
  <2>2. i \in 1..15 /\ k = 7 + m + i
    <3>1. k \in Int /\ 8 + m <= k /\ k <= 22 + m
      BY <1>a, <1>5
    <3> QED BY <1>a, <2>1, <3>1
  <2>3. DoesARM(L[7 + m + i], "move", 16 - i, 15 - i, 0, ARM!NoImm)
    BY <2>2 DEF ListsARM
  <2> QED BY <1>1, <2>2, <2>3
<1>6. CASE \/ k = 23 + m \/ k = 24 + m \/ k = 25 + m \/ k = 26 + m \/ k = 27 + m
           \/ k = 28 + m \/ k = 29 + m \/ k = 30 + m \/ k = 31 + m
  <2>1. /\ DoesARM(L[23 + m], "set", 0, 0, 0, <<sh.index, 0, 0, 0>>)
        /\ DoesARM(L[24 + m], "set", 16, 0, 0, <<Dispatch[1], 0, 0, 0>>)
        /\ DoesARM(L[25 + m], "keep", 16, 0, 1, <<Dispatch[2], 0, 0, 0>>)
        /\ DoesARM(L[26 + m], "keep", 16, 0, 2, <<Dispatch[3], 0, 0, 0>>)
        /\ DoesARM(L[27 + m], "keep", 16, 0, 3, <<Dispatch[4], 0, 0, 0>>)
        /\ DoesARM(L[28 + m], "call", 16, 0, 0, ARM!NoImm)
        /\ DoesARM(L[29 + m], "loadpair", 29, 31, -8, <<30, 0, 0, 0>>)
        /\ DoesARM(L[30 + m], "add", 31, 31, 288, ARM!NoImm)
        /\ DoesARM(L[31 + m], "ret", 30, 0, 0, ARM!NoImm)
    BY DEF ListsARM
  <2> QED BY <1>1, <1>6, <2>1
<1> QED BY <1>2, <1>3, <1>4, <1>5, <1>6

\* Where the stack pointer is.
LEMMA CallPointerARM ==
  ASSUME StateARM, InDispatch
  PROVE  SP = -288 /\ CallSP = -288
<1>1. arch = "arm64" /\ M.sp = 31
  BY MachineFacts DEF StateARM
<1>2. reg[31] = Addr(-288)
  BY DEF StateARM, InDispatch, CallingARM
<1>3. SP = -288
  BY <1>1, <1>2, AddressFacts DEF SP
<1> QED BY <1>1, <1>3 DEF CallSP

\* arm64: the stack pointer, the program counter and the next instruction.
LEMMA TypeOKARM ==
  ASSUME StateARM
  PROVE  TypeOK
<1> DEFINE m == shape.retWords
           L == ListARM(shape)
           n == Offset(L, 31 + m)
<1>1. /\ arch = "arm64" /\ arch \in Arches /\ shape \in Shapes
      /\ phase \in {"stub", "dispatch", "stored", "returned"}
  BY DEF StateARM
<1>2. m \in Nat /\ m <= 60 /\ ListsARM(shape, L, m) /\ LengthsARM(L, m, Stub.len)
  <2>1. Stub.len = CodeLen("arm64", Code("arm64", shape))
    BY <1>1, StubFacts
  <2> QED BY <1>1, <2>1, ListingARM, ShapeFacts, LengthsFactsARM
<1>3. M.sp = 31 /\ M.regs = 0..31
  BY <1>1, MachineFacts
<1>b. n \in Nat /\ Stub.len = 4 * n /\ n <= 31 + m
  <2> HIDE DEF L, m
  <2>1. 31 + m \in 0..31 + m
    BY <1>2
  <2> QED BY <1>2, <2>1 DEF LengthsARM
<1>c. Stub.len <= ARM!BufferBytes
  <2> HIDE DEF n, m
  <2> QED BY <1>2, <1>b DEF ARM!BufferBytes
<1> DEFINE Goal(s) ==
                   /\ reg[31] = Addr(s) /\ (phase # "returned" => s \in DOMAIN mem)
                   /\ pc \in 0..Stub.len - 1 /\ (phase = "stub" => I.op # "undefined")
                   /\ DOMAIN reg = 0..31 /\ DOMAIN mem = Addresses(shape)
<1>d. ASSUME NEW e \in Nat, e < n, pc = 4 * e PROVE pc \in 0..Stub.len - 1
  <2> HIDE DEF n
  <2> QED BY <1>b, <1>d
<1>4. ASSUME NEW k \in 1..31 + m, L[k] # <<>>, pc = 4 * Offset(L, k - 1)
      PROVE  pc \in 0..Stub.len - 1
  <2>1. k - 1 \in 0..31 + m /\ k \in 0..31 + m
    BY <1>2
  <2>2. PICK e, f : e = Offset(L, k - 1) /\ f = Offset(L, k)
    OBVIOUS
  <2>3. e \in Nat /\ f \in Nat /\ e < f /\ f <= n
    <3> HIDE DEF L, m
    <3> QED BY <1>2, <1>4, <2>1, <2>2 DEF LengthsARM
  <2>4. e < n
    <3> HIDE DEF n
    <3> QED BY <1>b, <2>3
  <2>5. pc = 4 * e
    BY <1>4, <2>2
  <2> QED BY <1>d, <2>3, <2>4, <2>5
<1>e. -288 \in Addresses(shape) /\ 0 \in Addresses(shape)
  BY <1>1, FrameWords, AddressesFacts
<1>5. ASSUME phase = "stub" PROVE \E s : Goal(s)
  <2>1. PICK k : AtARM(k, shape, pc, reg, mem)
    BY <1>5 DEF StateARM
  <2>2. k \in 1..31 + m /\ L[k] # <<>> /\ pc = 4 * Offset(L, k - 1) /\ reg[31] = Addr(DepthARM(m, k))
        /\ DOMAIN reg = 0..31 /\ DOMAIN mem = Addresses(shape)
    BY <2>1 DEF AtARM, StandsARM, FrameARM
  <2>3. DepthARM(m, k) \in DOMAIN mem
    <3>1. DepthARM(m, k) \in {0, -288}
      BY DEF DepthARM
    <3> QED BY <1>e, <2>2, <3>1
  <2>4. I.op # "undefined"
    <3>1. PICK op, a, b, c, imm : HasARM(L, k, op, a, b, c, imm) /\ op # "undefined"
      <4>1. ListsARM(shape, L, m)
        BY <1>2
      <4>2. L[k] # <<>> /\ k \in 1..31 + m
        BY <2>2
      <4> HIDE DEF L, m
      <4> QED BY <4>1, <4>2, AllDefinedARM DEF DefinedARM
    <3>2. NextARM(L, k)
      BY <1>1, <2>2 DEF NextARM
    <3>3. Reads(op, a, b, c, imm, 4)
      <4> HIDE DEF L
      <4> QED BY <3>1, <3>2, ReadsARM
    <3> QED BY <3>1, <3>3 DEF Reads
  <2>5. pc \in 0..Stub.len - 1
    BY <1>4, <2>2
  <2>6. Goal(DepthARM(m, k))
    BY <2>2, <2>3, <2>4, <2>5
  <2> HIDE DEF Goal
  <2> QED BY <2>6
<1>6. ASSUME phase \in {"dispatch", "stored"} PROVE \E s : Goal(s)
  <2>1. CallingARM(shape, pc, reg, mem)
    BY <1>6 DEF StateARM
  <2>2. /\ pc = 4 * Offset(L, 28 + m) /\ reg[31] = Addr(-288) /\ DOMAIN reg = 0..31
        /\ DOMAIN mem = Addresses(shape)
    BY <2>1 DEF CallingARM
  <2>3. -288 \in DOMAIN mem
    BY <1>e, <2>2
  <2>4. pc \in 0..Stub.len - 1
    <3>1. PICK e : e = Offset(L, 28 + m)
      OBVIOUS
    <3>2. e \in Nat /\ e + 3 = n
      <4> HIDE DEF L, m
      <4>1. 28 + m \in 0..31 + m
        BY <1>2
      <4> QED BY <1>2, <3>1, <4>1 DEF LengthsARM
    <3>3. e < n
      <4> HIDE DEF n
      <4> QED BY <3>2
    <3> QED BY <1>d, <2>2, <3>1, <3>2, <3>3
  <2>5. Goal(-288)
    BY <1>6, <2>2, <2>3, <2>4
  <2> HIDE DEF Goal
  <2> QED BY <2>5
<1>7. ASSUME phase = "returned" PROVE \E s : Goal(s)
  <2>1. DoneARM(shape, pc, reg, mem)
    BY <1>7 DEF StateARM
  <2>2. /\ pc = 4 * Offset(L, 30 + m) /\ reg[31] = Addr(0) /\ DOMAIN reg = 0..31
        /\ DOMAIN mem = Addresses(shape)
    BY <2>1 DEF DoneARM
  <2>3. pc \in 0..Stub.len - 1
    <3>1. PICK e : e = Offset(L, 30 + m)
      OBVIOUS
    <3>2. e \in Nat /\ e + 1 = n
      <4> HIDE DEF L, m
      <4>1. 30 + m \in 0..31 + m
        BY <1>2
      <4> QED BY <1>2, <3>1, <4>1 DEF LengthsARM
    <3>3. e < n
      <4> HIDE DEF n
      <4> QED BY <3>2
    <3> QED BY <1>d, <2>2, <3>1, <3>2, <3>3
  <2>4. Goal(0)
    BY <1>7, <2>2, <2>3
  <2> HIDE DEF Goal
  <2> QED BY <2>4
<1>8. \E s : Goal(s)
  <2> HIDE DEF Goal
  <2> QED BY <1>1, <1>5, <1>6, <1>7
<1>9. PICK s : Goal(s)
  <2> HIDE DEF Goal
  <2> QED BY <1>8
<1>10. reg[M.sp].tag = "sp" /\ SP = s
  BY <1>3, <1>9, AddressFacts DEF SP
<1> QED BY <1>1, <1>3, <1>9, <1>10, <1>c DEF TypeOK

\* arm64: what is ready when Dispatch is called.
LEMMA CalledRightARM ==
  ASSUME StateARM
  PROVE  DispatchGetsTheCall
<1> SUFFICES ASSUME phase = "dispatch" PROVE DispatchGetsTheCall
  BY DEF DispatchGetsTheCall
<1> DEFINE m == shape.retWords
<1>1. arch = "arm64" /\ shape \in Shapes /\ CallingARM(shape, pc, reg, mem) /\ target = Num(Dispatch)
  BY DEF StateARM
<1>2. M.ints = [k \in 1..16 |-> k - 1] /\ M.args = 8 /\ M.g = 28
  BY <1>1, MachineFacts
<1>a. Len(M.ints) = 16 /\ \A k \in 1..16 : M.ints[k] = k - 1
  <2>1. PICK l \in Nat : l = 16
    OBVIOUS
  <2>2. DOMAIN M.ints = 1..l
    BY <1>2, <2>1
  <2>3. Len(M.ints) = l
    BY <1>2, <2>1, <2>2
  <2> QED BY <1>2, <2>1, <2>3
<1>3. CallSP = -288
  BY CallPointerARM DEF InDispatch
<1>4. m \in Nat
  BY <1>1, ShapeFacts
<1>5. reg[28] = In(28)
  BY <1>1 DEF CallingARM
<1>6. /\ reg[0] = Num(<<shape.index, 0, 0, 0>>) /\ mem[-280] = In(15) /\ mem[-272] = Addr(8)
  <2>1. 28 + m >= 24 + m /\ 28 + m >= 6 /\ 28 + m >= 8
    BY <1>4
  <2> QED BY <1>1, <2>1 DEF CallingARM, PreparedARM
<1>7. \A k \in 2..16 : reg[M.ints[k]] = In(M.ints[k - 1])
  <2> SUFFICES ASSUME NEW k \in 2..16 PROVE reg[M.ints[k]] = In(M.ints[k - 1])
    OBVIOUS
  <2>1. PICK t : t = k - 1
    OBVIOUS
  <2>2. t \in 1..15 /\ M.ints[k] = t /\ M.ints[k - 1] = t - 1
    <3>1. k \in 1..16 /\ k - 1 \in 1..16
      OBVIOUS
    <3> QED BY <1>a, <2>1, <3>1
  <2>3. 28 + m >= 24 + m - t
    BY <1>4, <2>2
  <2>4. reg[t] = In(t - 1)
    BY <1>1, <2>2, <2>3 DEF CallingARM, IntsARM
  <2> QED BY <2>2, <2>4
<1>8. Area(0) = 8 /\ CallSP + M.args = -280 /\ -280 + 8 = -272
  BY <1>2, <1>3 DEF Area
<1>9. M.ints[1] = 0 /\ M.ints[16] = 15
  BY <1>a
<1> QED BY <1>1, <1>2, <1>5, <1>6, <1>7, <1>8, <1>9, <1>a DEF DispatchGetsTheCall

\* The unwinder's stack pointer while Dispatch runs.
LEMMA FramesARM ==
  ASSUME StateARM
  PROVE  InDispatch => EntrySP(CallSP) = 0
<1> SUFFICES ASSUME InDispatch PROVE EntrySP(CallSP) = 0
  OBVIOUS
<1>1. arch = "arm64" /\ arch \in Arches /\ shape \in Shapes
  BY DEF StateARM
<1>2. SPDeltaAt(pc) = DeltaARM(shape, pc)
  <2>1. Stub.pcsp = PCSP("arm64", CodeLen("arm64", Code("arm64", shape))) /\ M.quantum = 4
    BY <1>1, StubFacts, MachineFacts
  <2> QED BY <2>1 DEF SPDeltaAt, DeltaARM
<1>3. pc = 4 * Offset(ListARM(shape), 28 + shape.retWords)
  BY DEF StateARM, InDispatch, CallingARM
<1>4. DeltaARM(shape, pc) = 288
  BY <1>1, <1>3, DeltaFactsARM
<1>5. CallSP = -288
  BY CallPointerARM
<1> QED BY <1>2, <1>4, <1>5 DEF EntrySP

\* The return address is where STP put it.
LEMMA UnwindsARM ==
  ASSUME StateARM, <<"arm64", 8>> \in Protected
  PROVE  Unwinds
<1>1. arch = "arm64"
  BY DEF StateARM
<1>2. ASSUME InDispatch PROVE SavedReturn = Caller
  <2>1. CallSP = -288
    BY <1>2, CallPointerARM
  <2>2. mem[-288] = Caller
    BY <1>2 DEF StateARM, InDispatch, CallingARM, Saved
  <2> QED BY <1>1, <2>1, <2>2 DEF SavedReturn
<1> QED BY <1>1, <1>2, FramesARM DEF Unwinds

\* arm64: the argument map, while Dispatch runs.
LEMMA MapIsTrueARM ==
  ASSUME StateARM
  PROVE  MapIsTrue
<1> SUFFICES ASSUME InDispatch PROVE MapIsTrue
  BY DEF MapIsTrue
<1>1. arch \in Arches /\ shape \in Shapes
  BY DEF StateARM
<1>2. (\E c \in Nat : c >= shape.retWords /\ AreaBefore(shape, mem, c)) \/ AreaAfter(shape, mem)
  <2>1. AreaBefore(shape, mem, 20 + shape.retWords) \/ AreaAfter(shape, mem)
    BY DEF StateARM, InDispatch
  <2>2. 20 + shape.retWords \in Nat /\ 20 + shape.retWords >= shape.retWords
    BY <1>1, ShapeFacts
  <2> QED BY <2>1, <2>2
<1>3. \A i \in 0..Words(shape) - 1 : Truth(shape, i, mem[Area(i)])
  BY <1>1, <1>2, AreaTruth
<1>4. EntrySP(CallSP) = 0
  BY FramesARM
<1> QED BY <1>1, <1>3, <1>4, MapFound

\* arm64: what the caller gets back.
LEMMA CallerRestoredARM ==
  ASSUME StateARM, <<"arm64", 8>> \in Protected
  PROVE  CallerRestored
<1> SUFFICES ASSUME phase = "returned" PROVE CallerRestored
  BY DEF CallerRestored
<1>1. arch = "arm64" /\ shape \in Shapes /\ DoneARM(shape, pc, reg, mem) /\ target = reg[30]
  BY DEF StateARM
<1>2. M.ints = [k \in 1..16 |-> k - 1] /\ M.fp = 29 /\ M.g = 28 /\ M.sp = 31
  BY <1>1, MachineFacts
<1>3. /\ reg[31] = Addr(0) /\ reg[29] = In(29) /\ reg[30] = Caller /\ reg[28] = In(28)
      /\ ReturnedARM(reg) /\ AreaAfter(shape, mem)
  BY <1>1 DEF DoneARM, Restored
<1>4. SP = 0
  BY <1>2, <1>3, AddressFacts DEF SP
<1>5. ASSUME NEW r \in ToSet(M.ints) PROVE reg[r] = Res(r)
  <2>1. PICK t \in 1..16 : r = M.ints[t]
    BY <1>2 DEF ToSet
  <2>2. r = t - 1
    BY <1>2, <2>1
  <2>3. r \in 0..15
    BY <2>2
  <2> QED BY <1>3, <2>3 DEF ReturnedARM
<1>6. ASSUME NEW i \in 0..Words(shape) - 1
      PROVE  mem[Area(i)] = IF i \in ArgBits(shape) THEN Pointer(i) ELSE Data(i)
  BY <1>3, <1>6 DEF AreaAfter
<1> QED BY <1>1, <1>2, <1>3, <1>4, <1>5, <1>6 DEF CallerRestored

-----------------------------------------------------------------------------
(* The theorems *)

\* The inductive invariant: either architecture's.
State == State64 \/ StateARM

\* It is true at the caller's call and kept by every step.
LEMMA Inductive ==
  /\ Init => State
  /\ State /\ [Next]_vars => State'
<1>1. ASSUME Init PROVE State
  <2>1. arch \in Arches
    BY <1>1 DEF Init
  <2>2. arch = "amd64" \/ arch = "arm64"
    BY <2>1, ArchAssumption
  <2> QED BY <1>1, <2>2, Init64, InitARM DEF State
<1>2. ASSUME State, [Next]_vars PROVE State'
  <2>1. CASE State64
    <3>1. State64'
      BY <1>2, <2>1, Inductive64
    <3> QED BY <3>1 DEF State
  <2>2. CASE StateARM
    <3>1. StateARM'
      BY <1>2, <2>2, InductiveARM
    <3> QED BY <3>1 DEF State
  <2> QED BY <1>2, <2>1, <2>2 DEF State
<1> QED BY <1>1, <1>2

\* It is true of every reachable state.
LEMMA Invariance == Spec => []State
<1>1. Init => State
  BY Inductive
<1>2. State /\ [Next]_vars => State'
  BY Inductive
<1> QED BY <1>1, <1>2, PTL DEF Spec

\* Whatever the shape and wherever Dispatch is: the stack pointer stays on the stack, and
\* from the first byte of the code to the return the processor meets only instructions
\* that jitStubCode emitted; on arm64 they fit its buffer.
THEOREM TrampolineStaysAMachine == Spec => []TypeOK
<1>1. State => TypeOK
  BY TypeOK64, TypeOKARM DEF State
<1> QED BY <1>1, Invariance, PTL

\* Dispatch is called with the index, the shifted arguments, the address of the caller's
\* stack area and the goroutine.
THEOREM DispatchIsCalledRight == Spec => []DispatchGetsTheCall
<1>1. State => DispatchGetsTheCall
  BY CalledRight64, CalledRightARM DEF State
<1> QED BY <1>1, Invariance, PTL

\* Where the collector looks while Dispatch runs, the argument map tells the truth.
THEOREM ArgumentMapIsTrue == Spec => []MapIsTrue
<1>1. State => MapIsTrue
  BY MapIsTrue64, MapIsTrueARM DEF State
<1> QED BY <1>1, Invariance, PTL

\* Where arm64 is not preempted between its STP and the ADD that moves its stack pointer,
\* the caller gets back what it had, and the results.
THEOREM CallerGetsItsFrameBack ==
  ASSUME "arm64" \in Arches => <<"arm64", 8>> \in Protected
  PROVE  Spec => []CallerRestored
<1>1. StateARM => <<"arm64", 8>> \in Protected
  BY DEF StateARM
<1>2. State => CallerRestored
  BY <1>1, CallerRestored64, CallerRestoredARM DEF State
<1> QED BY <1>2, Invariance, PTL

\* And the unwinder finds the caller.
THEOREM UnwinderFindsTheCaller ==
  ASSUME "arm64" \in Arches => <<"arm64", 8>> \in Protected
  PROVE  Spec => []Unwinds
<1>1. StateARM => <<"arm64", 8>> \in Protected
  BY DEF StateARM
<1>2. State => Unwinds
  BY <1>1, Unwinds64, UnwindsARM DEF State
<1> QED BY <1>2, Invariance, PTL
=============================================================================
