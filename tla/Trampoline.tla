----------------------------- MODULE Trampoline -----------------------------
(***************************************************************************)
(* One call through a generated trampoline, instruction by instruction:    *)
(* the code jitStubCode emits for a shape, executed as the processor reads *)
(* its bytes, with the stack pointer table and the stack maps that         *)
(* buildJITModule (jit.go) hands the runtime.                              *)
(*                                                                         *)
(* The caller, Dispatch as its signature promises it to the Go ABI, the    *)
(* processor and the runtime's preemption are external.  Memory is the     *)
(* goroutine's stack in words of eight bytes, addressed from where the     *)
(* stack pointer is at the trampoline's entry.                             *)
(***************************************************************************)
EXTENDS Encodings

CONSTANTS
  Arches,     \* the architectures: a subset of {"amd64", "arm64"}
  Shapes,     \* stubShapes, their masks as sets of bit numbers
  Dispatch,   \* the address of Dispatch: four 16-bit parts, the lowest first
  Protected   \* <<arch, pc>> at which no preemption is considered

ASSUME ArchAssumption == Arches \subseteq {"amd64", "arm64"}

\* the width newTrampoline accepts (tramp.go:30), stackWindow in words; a type's
\* methods are counted in 16 bits
ASSUME ShapeAssumption ==
  \A sh \in Shapes : /\ sh.index \in Nat /\ sh.index < 65536
                     /\ sh.argWords \in Nat /\ sh.retWords \in Nat
                     /\ sh.argWords + sh.retWords <= 60
                     /\ sh.argPtrs \subseteq 0..sh.argWords - 1
                     /\ sh.retPtrs \subseteq 0..sh.retWords - 1

ASSUME DispatchAssumption == Dispatch \in [1..4 -> {n \in Nat : n < 65536}]

\* ints: the integer argument registers in order.  g: the goroutine register.
\* args: where stack arguments are, from the stack pointer at a call.
\* floats: floatArgRegs.  redZone: words below SP a signal leaves alone.
Machine ==
  [amd64 |-> [ints |-> <<0, 3, 1, 7, 6, 8, 9, 10, 11>>, sp |-> A64!SP, fp |-> A64!BP,
              g |-> 14, regs |-> 0..15, args |-> 0, floats |-> 15, redZone |-> 0,
              quantum |-> 1],
   arm64 |-> [ints |-> [k \in 1..16 |-> k - 1], sp |-> ARM!SP, fp |-> ARM!FP,
              g |-> 28, regs |-> 0..31, args |-> 8, floats |-> 16, redZone |-> 1,
              quantum |-> 4]]

-----------------------------------------------------------------------------
(* buildJITModule: what the runtime is told of a shape.  Of the tables it  *)
(* fills, the stack pointer table and the two stack maps say something     *)
(* of the shape; a map is a header of two 32-bit numbers, n and nbit, and  *)
(* its bits.                                                               *)

Byte4(n) == [i \in 1..4 |-> (n \div 256^(i - 1)) % 256]

\* Mutant: the results' bits counted from the start of the area
RetBitsFromZero(sh) == sh.argPtrs \cup sh.retPtrs

\* bit i: word i of the stack argument area holds a pointer
ArgBits(sh) == sh.argPtrs \cup {sh.argWords + i : i \in sh.retPtrs}

Words(sh) == sh.argWords + sh.retWords
ArgsMapSize(sh) == 8 + ((Words(sh) + 7) \div 8)
LocalsOff(sh) == ((ArgsMapSize(sh) + 3) \div 4) * 4

\* the gofunc block: the arguments' map at 0, the locals' map at LocalsOff
GoFunc(sh) ==
  LET bits == [k \in 1..ArgsMapSize(sh) - 8 |-> ARM!Bits(ArgBits(sh), 8 * (k - 1), 8)]
      pad == [k \in 1..LocalsOff(sh) - ArgsMapSize(sh) |-> 0]
  IN Byte4(1) \o Byte4(Words(sh)) \o bits \o pad \o Byte4(1) \o Byte4(0) \o <<0, 0, 0, 0>>

Code(a, sh) ==
  StubCode(IF a = "amd64" THEN A64!Listing(sh, Dispatch) ELSE ARM!Listing(sh, Dispatch))

PCSP(a, len) ==
  EncodePCSP(IF a = "amd64" THEN A64!Entries(PrologueLen(a), len) ELSE ARM!Entries(PrologueLen(a), len))

\* what jitTrampoline generates: for every architecture and shape, once
Generated ==
  [a \in Arches |-> [sh \in Shapes |->
     LET code == Code(a, sh) IN
     [code |-> code, len |-> CodeLen(a, code), pcsp |-> PCSP(a, CodeLen(a, code)),
      gofunc |-> GoFunc(sh), localsOff |-> LocalsOff(sh)]]]

-----------------------------------------------------------------------------
(* Values of a register or a word: a tag and what it is about.             *)

V(tag, n) == [tag |-> tag, n |-> n]
Addr(off) == V("sp", <<off>>)           \* an address on the stack
In(r) == V("in", <<r>>)                 \* what register r held at the entry
Res(r) == V("res", <<r>>)               \* what Dispatch returned in register r
Num(parts) == V("num", parts)
Nil == Num(<<0, 0, 0, 0>>)
Junk == V("junk", <<>>)
Caller == V("caller", <<>>)             \* the caller's return address
Here(pc) == V("pc", <<pc>>)             \* a return address in the trampoline
Pointer(i) == V("pointer", <<i>>)       \* word i of the area
Data(i) == V("data", <<i>>)
Stale(i) == V("stale", <<i>>)           \* word i, from an older frame

VARIABLES
  arch, shape,   \* what runs; never changes
  phase,         \* "stub", "dispatch", "stored" (its results) or "returned"
  pc,            \* byte offset in the code; the next instruction, or of a return
  target,        \* the value the last CALL or RET went to
  reg,           \* the registers
  mem            \* the stack: a function from the addresses of its words

vars == <<arch, shape, phase, pc, target, reg, mem>>

M == Machine[arch]
Stub == Generated[arch][shape]
SP == reg[M.sp].n[1]
Area(i) == 8 * (i + 1)                  \* the address of word i of the area
Shifted(v, n) == IF v.tag = "sp" THEN Addr(v.n[1] + n) ELSE Junk

\* the words from the lowest a frame reaches to the end of the area
Addresses(sh) == {8 * k : k \in -50..Words(sh)}

Init ==
  /\ arch \in Arches /\ shape \in Shapes
  /\ phase = "stub" /\ pc = 0 /\ target = Junk
  /\ reg = [r \in M.regs |-> IF r = M.sp THEN Addr(0)
                             ELSE IF arch = "arm64" /\ r = ARM!LR THEN Caller ELSE In(r)]
  /\ mem = [o \in Addresses(shape) |->
              IF o < 0 THEN Junk
              ELSE IF o = 0 THEN (IF arch = "amd64" THEN Caller ELSE Junk)
              ELSE LET i == o \div 8 - 1 IN
                   IF i >= shape.argWords THEN Stale(i)
                   ELSE IF i \in shape.argPtrs THEN Pointer(i) ELSE Data(i)]

-----------------------------------------------------------------------------
(* the instructions *)

I == IF arch = "amd64" THEN A64!Decode(Stub.code, pc + 1)
     ELSE ARM!Decode(Stub.code[(pc \div 4) + 1])

Executes(op) == phase = "stub" /\ I.op = op

Advance == /\ pc' = pc + I.len
           /\ UNCHANGED <<arch, shape, phase, target>>

At(r, off) == Shifted(reg[r], off).n[1]

Push ==
  /\ Executes("push")
  /\ mem' = [mem EXCEPT ![SP - 8] = reg[I.a]]
  /\ reg' = [reg EXCEPT ![M.sp] = Addr(SP - 8)]
  /\ Advance

Pop ==
  /\ Executes("pop")
  /\ reg' = [reg EXCEPT ![I.a] = mem[SP], ![M.sp] = Addr(SP + 8)]
  /\ Advance /\ UNCHANGED mem

\* ADD, SUB and LEA
Add ==
  /\ Executes("add")
  /\ reg' = [reg EXCEPT ![I.a] = Shifted(reg[I.b], I.n)]
  /\ Advance /\ UNCHANGED mem

Move ==
  /\ Executes("move")
  /\ reg' = [reg EXCEPT ![I.a] = reg[I.b]]
  /\ Advance /\ UNCHANGED mem

Set ==
  /\ Executes("set")
  /\ reg' = [reg EXCEPT ![I.a] = Num(I.imm)]
  /\ Advance /\ UNCHANGED mem

\* MOVK: one part of what the register holds
Keep ==
  /\ Executes("keep")
  /\ reg' = [reg EXCEPT ![I.a] =
               IF @.tag = "num" THEN Num([@.n EXCEPT ![I.n + 1] = I.imm[1]]) ELSE Junk]
  /\ Advance /\ UNCHANGED mem

Store ==
  /\ Executes("store")
  /\ mem' = [mem EXCEPT ![At(I.b, I.n)] = reg[I.a]]
  /\ Advance /\ UNCHANGED reg

Clear ==
  /\ Executes("clear")
  /\ mem' = [mem EXCEPT ![At(I.b, I.n)] = Nil]
  /\ Advance /\ UNCHANGED reg

StorePair ==
  /\ Executes("storepair")
  /\ mem' = [mem EXCEPT ![At(I.b, I.n)] = reg[I.a], ![At(I.b, I.n + 8)] = reg[I.imm[1]]]
  /\ Advance /\ UNCHANGED reg

LoadPair ==
  /\ Executes("loadpair")
  /\ reg' = [reg EXCEPT ![I.a] = mem[At(I.b, I.n)], ![I.imm[1]] = mem[At(I.b, I.n + 8)]]
  /\ Advance /\ UNCHANGED mem

Call ==
  /\ Executes("call")
  /\ target' = reg[I.a]
  /\ phase' = "dispatch"
  /\ pc' = pc + I.len
  /\ IF arch = "amd64"
       THEN /\ mem' = [mem EXCEPT ![SP - 8] = Here(pc + I.len)]
            /\ reg' = [reg EXCEPT ![M.sp] = Addr(SP - 8)]
       ELSE /\ reg' = [reg EXCEPT ![ARM!LR] = Here(pc + I.len)]
            /\ UNCHANGED mem
  /\ UNCHANGED <<arch, shape>>

Return ==
  /\ Executes("ret")
  /\ phase' = "returned"
  /\ IF arch = "amd64"
       THEN /\ target' = mem[SP]
            /\ reg' = [reg EXCEPT ![M.sp] = Addr(SP + 8)]
       ELSE target' = reg[I.a] /\ UNCHANGED reg
  /\ UNCHANGED <<arch, shape, pc, mem>>

-----------------------------------------------------------------------------
(* Dispatch and the runtime *)

\* the stack pointer of the trampoline at its call
CallSP == IF arch = "amd64" THEN SP + 8 ELSE SP

\* the area of the frame that belongs to Dispatch: two stack arguments and room
\* to spill its register arguments
Outgoing ==
  {CallSP + M.args + 8 * k : k \in 0..1 + Len(M.ints) + M.floats}

Below(o, sp) == o < sp - 8 * M.redZone

\* copies the results into the words of the area that hold results
DispatchStores ==
  /\ phase = "dispatch"
  /\ mem' = [o \in DOMAIN mem |->
               LET i == o \div 8 - 1 IN
               IF i < shape.argWords THEN mem[o]
               ELSE IF i - shape.argWords \in shape.retPtrs THEN Pointer(i) ELSE Data(i)]
  /\ phase' = "stored"
  /\ UNCHANGED <<arch, shape, pc, target, reg>>

\* returns to the instruction after the call
DispatchReturns ==
  /\ phase = "stored"
  /\ phase' = "stub"
  /\ mem' = [o \in DOMAIN mem |->
               IF Below(o, CallSP) \/ o \in Outgoing THEN Junk ELSE mem[o]]
  /\ reg' = [r \in M.regs |-> IF r = M.sp THEN Addr(CallSP)
                              ELSE IF r \in {M.fp, M.g} THEN reg[r]
                              ELSE IF r \in ToSet(M.ints) THEN Res(r) ELSE Junk]
  /\ UNCHANGED <<arch, shape, pc, target>>

\* A signal between two instructions switches to asyncPreempt, whose frame is
\* opened below the stack pointer, and later puts every register back.  The
\* points of Protected, where the code does not survive this, can be left out.
AsyncPreempt ==
  /\ phase = "stub"
  /\ <<arch, pc>> \notin Protected
  /\ mem' = [o \in DOMAIN mem |-> IF Below(o, SP) THEN Junk ELSE mem[o]]
  /\ UNCHANGED <<arch, shape, phase, pc, target, reg>>

Finished == phase = "returned" /\ UNCHANGED vars

Next ==
  \/ Push \/ Pop \/ Add \/ Move \/ Set \/ Keep \/ Store \/ Clear
  \/ StorePair \/ LoadPair \/ Call \/ Return
  \/ DispatchStores \/ DispatchReturns \/ AsyncPreempt \/ Finished

Spec == Init /\ [][Next]_vars

-----------------------------------------------------------------------------
(* what the runtime reads *)

SPDeltaAt(at) == PCTab!ReadPCValue(Stub.pcsp, M.quantum, at)

\* the unwinder's frame: the stack pointer at the entry, as it computes it
EntrySP(sp) == sp + SPDeltaAt(pc)

\* where it reads the return address of a trampoline that made a call
SavedReturn == IF arch = "amd64" THEN mem[EntrySP(CallSP)] ELSE mem[CallSP]

InDispatch == phase \in {"dispatch", "stored"}

\* stackmap, read from the bytes at offset off
MapLen(off) == A64!Number4(Stub.gofunc, off + 5)
Marked(i) == (Stub.gofunc[9 + (i \div 8)] \div 2^(i % 8)) % 2 = 1

-----------------------------------------------------------------------------
(* Properties *)

\* The machine stays a machine: the stack pointer is a word of the goroutine's
\* stack and every instruction the processor meets, up to the return, one that
\* the assembler meant: the bytes of none are taken for another.
TypeOK ==
  /\ phase \in {"stub", "dispatch", "stored", "returned"}
  /\ reg[M.sp].tag = "sp" /\ (phase # "returned" => SP \in DOMAIN mem)
  /\ pc \in 0..Stub.len - 1 /\ (phase = "stub" => I.op # "undefined")
  /\ DOMAIN reg = M.regs /\ DOMAIN mem = Addresses(shape)
  /\ arch = "arm64" => Stub.len <= ARM!BufferBytes

\* Dispatch is what gets called, and with the call: the method's index, every
\* integer argument register one further, the last of them on the stack, the
\* address of the caller's stack area, and its own goroutine.
DispatchGetsTheCall ==
  phase = "dispatch" =>
    LET last == Len(M.ints)
        arg == CallSP + M.args
    IN /\ target = Num(Dispatch)
       /\ reg[M.ints[1]] = Num(<<shape.index, 0, 0, 0>>)
       /\ \A k \in 2..last : reg[M.ints[k]] = In(M.ints[k - 1])
       /\ mem[arg] = In(M.ints[last])
       /\ mem[arg + 8] = Addr(Area(0))
       /\ reg[M.g] = In(M.g)

\* The argument map, read where the unwinder says the area is, tells the truth
\* at every safe point of Dispatch: a marked word holds a pointer or nil, never
\* an older frame's leftover, and no pointer is left out; the locals are empty.
MapIsTrue ==
  InDispatch =>
    /\ MapLen(0) = Words(shape) /\ MapLen(Stub.localsOff) = 0
    /\ \A i \in 0..MapLen(0) - 1 :
         LET word == mem[EntrySP(CallSP) + Area(i)] IN
         IF Marked(i) THEN word \in {Pointer(i), Nil} ELSE word # Pointer(i)

\* The caller gets back its stack pointer, frame pointer and goroutine, its
\* return address, the results where Dispatch put them, and its arguments'
\* words as they were, wherever the call was preempted but at the points of
\* Protected: on arm64 not between the STP of the prologue and the ADD behind it
\* (jitcode_arm64.go:134-135), where it is false (LinkRestored).
CallerRestored ==
  phase = "returned" =>
    /\ target = Caller
    /\ SP = (IF arch = "amd64" THEN 8 ELSE 0)
    /\ reg[M.fp] = In(M.fp) /\ reg[M.g] = In(M.g)
    /\ \A r \in ToSet(M.ints) : reg[r] = Res(r)
    /\ \A i \in 0..Words(shape) - 1 :
         mem[Area(i)] = IF i \in ArgBits(shape) THEN Pointer(i) ELSE Data(i)

\* An asynchronous preemption at any instruction, in the prologue and the epilogue
\* too, unwinds to the right frame, as the comments of pcspEntry and encodePCSP say.
EveryPCUnwinds == phase = "stub" => EntrySP(SP) = 0

\* What the epilogue's LDP loads is what the prologue's STP stored ("save FP and
\* LR", "restore FP and LR": jitcode_arm64.go:134, 164), also of a call preempted
\* in the prologue, which pcspEntry reckons with (jit.go:157-159).
LinkRestored == phase = "returned" => target = Caller /\ reg[M.fp] = In(M.fp)

\* From a safe point inside Dispatch, and on amd64 from an asynchronous preemption
\* at any instruction, the runtime finds the trampoline's frame: the table gives
\* the stack pointer at the entry, and the caller's return address is where it
\* looks for it, the latter on arm64 of a call not preempted at a point of Protected.
Unwinds ==
  /\ InDispatch => EntrySP(CallSP) = 0 /\ SavedReturn = Caller
  /\ arch = "amd64" => EveryPCUnwinds /\ (phase = "stub" => mem[0] = Caller)
=============================================================================
