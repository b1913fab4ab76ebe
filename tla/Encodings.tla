----------------------------- MODULE Encodings -----------------------------
(***************************************************************************)
(* What jitTrampoline makes of a shape, apart from the shape: the machine  *)
(* code of a listing of instructions, in the encodings of both             *)
(* architectures, and the bytes of a stack pointer table.                  *)
(***************************************************************************)
EXTENDS Integers, SequencesExt

A64 == INSTANCE Amd64
ARM == INSTANCE Arm64
PCTab == INSTANCE PCTable

\* what emit and put append, one instruction after the other
StubCode(listing) == FlattenSeq(listing)

\* in bytes: an item of arm64's code is a word
CodeLen(a, code) == IF a = "amd64" THEN Len(code) ELSE 4 * Len(code)

\* where the prologue ends
PrologueLen(a) == CodeLen(a, StubCode(IF a = "amd64" THEN A64!Prologue ELSE ARM!Prologue))

\* the pairs of a table, and the zero that ends it
EncodePCSP(entries) == FlattenSeq(PCTab!EncodedPairs(entries)) \o <<0>>
=============================================================================
