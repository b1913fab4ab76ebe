------------------------------- MODULE Amd64 -------------------------------
(***************************************************************************)
(* The trampoline of amd64 (jitcode_amd64.go): the instructions            *)
(* jitStubCode emits for a shape, the bytes the assembler makes of them    *)
(* and the stack pointer table that goes with them; and, external, what    *)
(* the processor reads in those bytes.                                     *)
(*                                                                         *)
(* Registers are ModRM numbers.  An address or immediate of 64 bits is     *)
(* four 16-bit parts, the lowest first.                                    *)
(***************************************************************************)
EXTENDS Integers, Sequences

AX == 0
CX == 1
DX == 2
BX == 3
SP == 4
BP == 5
SI == 6
DI == 7
R8 == 8
R9 == 9
R10 == 10
R11 == 11
R12 == 12

\* Mutant: no room for Dispatch to spill its register arguments
ArgsOnly == \h10

FrameSize == \hd0

SPDelta == FrameSize + 8

Bytes(v, n) == [i \in 1..n |-> (v \div 256^(i - 1)) % 256]

\* the eight bytes of four parts
WideBytes(parts) ==
  Bytes(parts[1], 2) \o Bytes(parts[2], 2) \o Bytes(parts[3], 2) \o Bytes(parts[4], 2)

-----------------------------------------------------------------------------
(* the assembler: one operator per form *)

Bit3(r, weight) == IF r >= 8 THEN weight ELSE 0

\* REX.W, R extends reg, B extends rm
Rex(reg, rm) == \h48 + Bit3(reg, 4) + Bit3(rm, 1)

DispEncoding(d) ==
  IF d = 0 THEN [mod |-> 0, bytes |-> <<>>]
  ELSE IF -128 <= d /\ d <= 127 THEN [mod |-> 1, bytes |-> Bytes(d, 1)]
  ELSE [mod |-> 2, bytes |-> Bytes(d, 4)]

\* ModRM, the SIB byte that RSP as a base needs, and the displacement
Mem(reg, base, d) ==
  LET disp == DispEncoding(d) IN
  <<disp.mod * 64 + (reg % 8) * 8 + base>>
    \o (IF base % 8 = SP THEN <<\h24>> ELSE <<>>) \o disp.bytes

Push(r) == <<\h50 + r>>
Pop(r) == <<\h58 + r>>
SubSP(n) == <<\h48, \h81, \hec>> \o Bytes(n, 4)
AddSP(n) == <<\h48, \h81, \hc4>> \o Bytes(n, 4)
Mov(d, s) == <<Rex(s, d), \h89, \hc0 + (s % 8) * 8 + (d % 8)>>
MovToMem(base, d, s) == <<Rex(s, 0), \h89>> \o Mem(s, base, d)
MovImmToMem(base, d, n) == <<\h48, \hc7>> \o Mem(0, base, d) \o Bytes(n, 4)
Lea(r, base, d) == <<Rex(r, 0), \h8d>> \o Mem(r, base, d)
MovEAX(n) == <<\hb8>> \o Bytes(n, 4)
MovAbsR12(parts) == <<\h49, \hbc>> \o WideBytes(parts)
CallR12 == <<\h41, \hff, \hd4>>
Ret == <<\hc3>>

-----------------------------------------------------------------------------
(* jitStubCode *)

\* retPtrs is the set of the bits of the shape's mask
Clears(sh) ==
  [i \in 1..sh.retWords |->
     IF i - 1 \in sh.retPtrs THEN MovImmToMem(DX, 8 * (sh.argWords + i - 1), 0) ELSE <<>>]

Prologue == <<Push(BP), Mov(BP, SP), SubSP(FrameSize)>>
Epilogue == <<AddSP(FrameSize), Pop(BP), Ret>>

\* Mutant: upwards, each register overwritten before it is read
ShiftUpwards ==
  <<Mov(BX, AX), Mov(CX, BX), Mov(DI, CX), Mov(SI, DI), Mov(R8, SI),
    Mov(R9, R8), Mov(R10, R9), Mov(R11, R10)>>

Shift ==
  <<Mov(R11, R10), Mov(R10, R9), Mov(R9, R8), Mov(R8, SI), Mov(SI, DI),
    Mov(DI, CX), Mov(CX, BX), Mov(BX, AX)>>

Listing(sh, dispatch) ==
  Prologue
    \o <<MovToMem(SP, 0, R11), Lea(DX, SP, FrameSize + 16), MovToMem(SP, 8, DX)>>
    \o Clears(sh) \o Shift
    \o <<MovEAX(sh.index), MovAbsR12(dispatch), CallR12>>
    \o Epilogue

\* Mutant: the body's delta alone, as if SP moved at once
ConstantDelta(start, len) == <<[pc |-> len, spdelta |-> SPDelta]>>

\* start: the length of the prologue; len: of the code
Entries(start, len) ==
  <<[pc |-> 1, spdelta |-> 0],
    [pc |-> start, spdelta |-> 8],
    [pc |-> len - 2, spdelta |-> SPDelta],
    [pc |-> len - 1, spdelta |-> 8],
    [pc |-> len, spdelta |-> 0]>>

-----------------------------------------------------------------------------
(* The processor.  An instruction is what Trampoline executes: op with its *)
(* registers a and b, a displacement or small number n, four parts imm,    *)
(* and its length.                                                         *)

Number2(code, at) == code[at] + 256 * code[at + 1]
Number4(code, at) == Number2(code, at) + 65536 * Number2(code, at + 2)

Signed8(b) == IF b >= 128 THEN b - 256 ELSE b

\* a displacement at position at, of the kind that mod says
Displacement(code, at, mod) == CASE mod = 0 -> 0
                                 [] mod = 1 -> Signed8(code[at])
                                 [] mod = 2 -> Number4(code, at)
DispLen(mod) == CASE mod = 0 -> 0 [] mod = 1 -> 1 [] mod = 2 -> 4

\* the memory operand whose ModRM byte is at position at
Operand(code, at, extend) ==
  LET mod == code[at] \div 64
      sib == code[at] % 8 = SP
      from == at + (IF sib THEN 2 ELSE 1)
  IN [base |-> IF sib THEN code[at + 1] % 8 ELSE (code[at] % 8) + extend,
      disp |-> Displacement(code, from, mod), next |-> from + DispLen(mod)]

Ins(op, a, b, n, imm, len) == [op |-> op, a |-> a, b |-> b, n |-> n, imm |-> imm, len |-> len]
NoImm == <<0, 0, 0, 0>>

\* The instruction that begins at position from.  Its opcode op, after a prefix with
\* the bits w, r and b, has a ModRM byte at position at.
Undefined == Ins("undefined", 0, 0, 0, NoImm, 1)
WithRegisters(code, from, op, at, r, b) ==
  LET ext == (code[at] \div 8) % 8
      reg == ext + r
      rm == (code[at] % 8) + b
  IN CASE op = \hff /\ ext = 2 -> Ins("call", rm, 0, 0, NoImm, at + 1 - from)
       [] op = \h81 /\ ext = 0 -> Ins("add", rm, rm, Number4(code, at + 1), NoImm, at + 5 - from)
       [] op = \h81 /\ ext = 5 -> Ins("add", rm, rm, -Number4(code, at + 1), NoImm, at + 5 - from)
       [] op = \h89 -> Ins("move", rm, reg, 0, NoImm, at + 1 - from)
       [] OTHER -> Undefined
WithMemory(code, from, op, at, r, b) ==
  LET reg == ((code[at] \div 8) % 8) + r
      mem == Operand(code, at, b)
  IN CASE op = \h89 -> Ins("store", reg, mem.base, mem.disp, NoImm, mem.next - from)
       [] op = \h8d -> Ins("add", reg, mem.base, mem.disp, NoImm, mem.next - from)
       [] op = \hc7 /\ reg % 8 = 0 ->
            Ins("clear", 0, mem.base, mem.disp, NoImm, mem.next + 4 - from)
       [] OTHER -> Undefined

\* the immediate of n 16-bit parts at position at
Imm(code, at, n) == [k \in 1..4 |-> IF k <= n THEN Number2(code, at + 2 * k - 2) ELSE 0]

\* the opcode is at position at
Opcode(code, from, at, w, r, b) ==
  LET op == code[at] IN
  CASE op \in \h50..\h57 -> Ins("push", (op % 8) + b, 0, 0, NoImm, at + 1 - from)
    [] op \in \h58..\h5f -> Ins("pop", (op % 8) + b, 0, 0, NoImm, at + 1 - from)
    [] op = \hc3 -> Ins("ret", 0, 0, 0, NoImm, at + 1 - from)
    [] op \in \hb8..\hbf /\ w = 1 ->
         Ins("set", (op % 8) + b, 0, 0, Imm(code, at + 1, 4), at + 9 - from)
    [] op \in \hb8..\hbf /\ w = 0 ->
         Ins("set", (op % 8) + b, 0, 0, Imm(code, at + 1, 2), at + 5 - from)
    [] op \in {\hff, \h81, \h89, \h8d, \hc7} ->
         IF code[at + 1] >= \hc0 THEN WithRegisters(code, from, op, at + 1, r, b)
         ELSE WithMemory(code, from, op, at + 1, r, b)
    [] OTHER -> Undefined

\* the instruction at position at of code
Decode(code, at) ==
  LET rex == code[at] % 16 IN
  IF code[at] \in \h40..\h4f
  THEN Opcode(code, at, at + 1, rex \div 8, 8 * ((rex \div 4) % 2), 8 * (rex % 2))
  ELSE Opcode(code, at, at, 0, 0, 0)
=============================================================================
