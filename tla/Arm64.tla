------------------------------- MODULE Arm64 -------------------------------
(***************************************************************************)
(* The trampoline of arm64 (jitcode_arm64.go), laid out as Amd64 is.  An   *)
(* instruction is one word, and a word the set of its bits that are one:   *)
(* the assembler's "or" of shifted fields is a union.                      *)
(***************************************************************************)
EXTENDS Integers, Sequences

FP == 29
LR == 30
SP == 31   \* and ZR: which of the two, the instruction says

FrameSize == 288
SPDelta == FrameSize

\* v << shift, of a v of at most 16 bits
Field(v, shift) ==
  {b \in shift..31 : b - shift < 16 /\ (v \div 2^(b - shift)) % 2 = 1}

-----------------------------------------------------------------------------
(* the assembler: one operator per form *)

Sub(d, s, n) == <<Field(\hd1, 24) \cup Field(n, 10) \cup Field(s, 5) \cup Field(d, 0)>>
Add(d, s, n) == <<Field(\h91, 24) \cup Field(n, 10) \cup Field(s, 5) \cup Field(d, 0)>>
Mov(d, s) == <<Field(\haa, 24) \cup Field(s, 16) \cup Field(31, 5) \cup Field(d, 0)>>

Str(r, base, d) == <<Field(\hf9, 24) \cup Field(d \div 8, 10) \cup Field(base, 5) \cup Field(r, 0)>>

Pair(r, r2, base, d) ==
  Field((d \div 8) % 128, 15) \cup Field(r2, 10) \cup Field(base, 5) \cup Field(r, 0)
Stp(r, r2, base, d) == <<Field(\ha9, 24) \cup Pair(r, r2, base, d)>>
Ldp(r, r2, base, d) == <<Field(\ha94, 20) \cup Pair(r, r2, base, d)>>
MovZ(d, n) == <<Field(\hd28, 20) \cup Field(n, 5) \cup Field(d, 0)>>

\* Mutant: the shift in bits, not in halfwords
MovKBits(d, n, lsl) == <<Field(\hf28, 20) \cup Field(lsl, 21) \cup Field(n, 5) \cup Field(d, 0)>>

MovK(d, n, lsl) == <<Field(\hf28, 20) \cup Field(lsl \div 16, 21) \cup Field(n, 5) \cup Field(d, 0)>>
Blr(r) == <<Field(\hd63f, 16) \cup Field(r, 5)>>
Ret == <<Field(\hd65f, 16) \cup Field(30, 5)>>

-----------------------------------------------------------------------------
(* jitStubCode *)

Clears(sh) ==
  [i \in 1..sh.retWords |->
     IF i - 1 \in sh.retPtrs THEN Str(31, 16, 8 * (sh.argWords + i - 1)) ELSE <<>>]

Prologue == <<Sub(20, SP, FrameSize), Stp(FP, LR, 20, -8), Add(SP, 20, 0)>>

Shift == [k \in 1..15 |-> Mov(16 - k, 15 - k)]

Listing(sh, dispatch) ==
  Prologue
    \o <<Sub(FP, SP, 8), Str(15, SP, 8), Add(16, SP, FrameSize + 8), Str(16, SP, 16)>>
    \o Clears(sh) \o Shift
    \o <<MovZ(0, sh.index), MovZ(16, dispatch[1]), MovK(16, dispatch[2], 16),
         MovK(16, dispatch[3], 32), MovK(16, dispatch[4], 48), Blr(16)>>
    \o <<Ldp(FP, LR, SP, -8), Add(SP, SP, FrameSize), Ret>>

\* start: the length of the prologue in bytes; len: of the code.  The buffer jitStubCode writes into
\* has room for BufferBytes of them.
BufferBytes == 512
Entries(start, len) ==
  <<[pc |-> start, spdelta |-> 0],
    [pc |-> len - 4, spdelta |-> SPDelta],
    [pc |-> len, spdelta |-> 0]>>

-----------------------------------------------------------------------------
(* the processor, as in Amd64 *)

\* the number written in n bits of a set of bits, from bit shift on
Bits(set, shift, n) ==
  LET value[k \in 0..n] ==
        IF k = 0 THEN 0 ELSE value[k - 1] + (IF shift + k - 1 \in set THEN 2^(k - 1) ELSE 0)
  IN value[n]

Signed7(v) == IF v >= 64 THEN v - 128 ELSE v

Ins(op, a, b, n, imm) == [op |-> op, a |-> a, b |-> b, n |-> n, imm |-> imm, len |-> 4]
NoImm == <<0, 0, 0, 0>>

\* the fields: the highest n bits say what the instruction is
Top(word, n) == Bits(word, 32 - n, n)
Rd(word) == Bits(word, 0, 5)
Rn(word) == Bits(word, 5, 5)
Mid(word) == Bits(word, 10, 6)
Imm12(word) == Bits(word, 10, 12)
Imm16(word) == Bits(word, 5, 16)
Halfword(word) == Bits(word, 21, 2)

Stored(word) == IF Rd(word) = 31 THEN "clear" ELSE "store"
WithPair(op, word) ==
  Ins(op, Rd(word), Rn(word), 8 * Signed7(Bits(word, 15, 7)), <<Bits(word, 10, 5), 0, 0, 0>>)

Decode(word) ==
  CASE Top(word, 10) = \h344 -> Ins("add", Rd(word), Rn(word), -Imm12(word), NoImm)   \* d1, shift 0
    [] Top(word, 10) = \h244 -> Ins("add", Rd(word), Rn(word), Imm12(word), NoImm)    \* 91, shift 0
    [] Top(word, 11) = \h550 /\ Mid(word) = 0 /\ Rn(word) = 31 ->
         Ins("move", Rd(word), Bits(word, 16, 5), 0, NoImm)
    [] Top(word, 10) = \h3e4 -> Ins(Stored(word), Rd(word), Rn(word), 8 * Imm12(word), NoImm)   \* f9 00
    [] Top(word, 10) = \h2a4 -> WithPair("storepair", word)                           \* a9 00
    [] Top(word, 10) = \h2a5 -> WithPair("loadpair", word)                            \* a9 40
    [] Top(word, 9) = \h1a5 ->                                                        \* d28
         Ins("set", Rd(word), 0, 0, [NoImm EXCEPT ![Halfword(word) + 1] = Imm16(word)])
    [] Top(word, 9) = \h1e5 ->                                                        \* f28
         Ins("keep", Rd(word), 0, Halfword(word), <<Imm16(word), 0, 0, 0>>)
    [] Top(word, 16) = \hd63f /\ Mid(word) = 0 /\ Rd(word) = 0 -> Ins("call", Rn(word), 0, 0, NoImm)
    [] Top(word, 16) = \hd65f /\ Mid(word) = 0 /\ Rd(word) = 0 -> Ins("ret", Rn(word), 0, 0, NoImm)
    [] OTHER -> Ins("undefined", 0, 0, 0, NoImm)
=============================================================================
