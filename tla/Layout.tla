------------------------------- MODULE Layout -------------------------------
(***************************************************************************)
(* The frame layout of a method (abi.go) and the trampoline it gets        *)
(* (tramp.go): which argument and result lives in which registers or at    *)
(* which offset of the caller's stack area, and which of those words the   *)
(* garbage collector is told to be pointers.                               *)
(*                                                                         *)
(* The signature is built up one value at a time, as newABILayout walks it *)
(* with addArg, so every prefix of every signature is a state.             *)
(***************************************************************************)
EXTENDS Naturals, SequencesExt

CONSTANTS
  Types,         \* value types: see TypeRecord
  Word,          \* ptrSize
  IntRegs,       \* intArgRegs
  FloatRegs,     \* floatArgRegs
  FloatBytes,    \* floatRegSize
  Window,        \* stackWindow
  StubMaxWords,  \* stubMaxWords
  MaxIn, MaxOut  \* bounds on the number of arguments and of results

(***************************************************************************)
(* What the layout knows of a type.  A part is one assignIntN or           *)
(* assignFloatN of regAssign's walk over the type: n registers of size     *)
(* bytes each, those in ptrs holding pointers.  array: the walk ends at an *)
(* array longer than one.  ptrs: the offsets ptrOffsets finds in memory.   *)
(***************************************************************************)
Part == [float : BOOLEAN, offset : Nat, size : Nat, n : 1..8, ptrs : SUBSET Nat]

TypeRecord(t) ==
  /\ t.size \in Nat /\ t.align \in Nat \ {0} /\ t.array \in BOOLEAN
  /\ t.ptrs \subseteq {o \in 0..t.size : o + Word <= t.size /\ o % Word = 0}
  /\ t.ptrs # {} => t.align % Word = 0
  /\ t.parts \in Seq(Part)
  /\ \A i \in DOMAIN t.parts :
       LET part == t.parts[i] IN
       /\ part.offset + part.n * part.size <= t.size
       /\ part.ptrs \subseteq 0..part.n - 1
       /\ part.ptrs # {} => ~part.float /\ part.size = Word

ASSUME LayoutAssumption ==
  /\ \A t \in Types : TypeRecord(t)
  /\ {Word, IntRegs, FloatRegs, FloatBytes} \subseteq Nat \ {0}
  /\ {Window, StubMaxWords, MaxIn, MaxOut} \subseteq Nat

VARIABLES
  call,   \* abiLayout.call: the receiver and the arguments so far
  ret,    \* abiLayout.ret: the results so far
  ins,    \* the argument types
  outs,   \* the result types
  phase,  \* "args", "results" or "done"
  tramp   \* what newTrampoline returned: see Choose

vars == <<call, ret, ins, outs, phase, tramp>>

-----------------------------------------------------------------------------
(* seq: the register assignment of Go's internal ABI *)

NoSteps == [steps |-> <<>>, valueStart |-> <<>>, stackBytes |-> 0, iregs |-> 0, fregs |-> 0]

AlignUp(x, a) == ((x + a - 1) \div a) * a

StepsForValue(s, i) ==
  SubSeq(s.steps, s.valueStart[i] + 1,
         IF i < Len(s.valueStart) THEN s.valueStart[i + 1] ELSE Len(s.steps))

\* Mutant: off by one
IntsFitToo(s, n) == s.iregs + n <= IntRegs + 1

IntsFit(s, n) == s.iregs + n <= IntRegs

\* Mutant: off by one
FloatsFitToo(s, part) == s.fregs + part.n <= FloatRegs + 1 /\ part.size <= FloatBytes

FloatsFit(s, part) == s.fregs + part.n <= FloatRegs /\ part.size <= FloatBytes

RegStep(kind, part, k, reg) ==
  [kind |-> kind, offset |-> part.offset + k * part.size, size |-> part.size,
   stkOff |-> 0, reg |-> reg]

AssignIntN(s, part) ==
  [s EXCEPT
     !.steps = @ \o [k \in 1..part.n |->
                       RegStep(IF k - 1 \in part.ptrs THEN "pointer" ELSE "int",
                               part, k - 1, s.iregs + k - 1)],
     !.iregs = @ + part.n]

AssignFloatN(s, part) ==
  [s EXCEPT
     !.steps = @ \o [k \in 1..part.n |-> RegStep("float", part, k - 1, s.fregs + k - 1)],
     !.fregs = @ + part.n]

\* the walk over the parts stops where one does not fit, with what it has
\* assigned so far left in s
RegAssign(s, t) ==
  LET take(acc, part) ==
        IF acc.ok /\ ~part.float /\ IntsFit(acc.s, part.n)
          THEN [ok |-> TRUE, s |-> AssignIntN(acc.s, part)]
        ELSE IF acc.ok /\ part.float /\ FloatsFit(acc.s, part)
          THEN [ok |-> TRUE, s |-> AssignFloatN(acc.s, part)]
        ELSE [acc EXCEPT !.ok = FALSE]
      walked == FoldLeft(take, [ok |-> TRUE, s |-> s], t.parts)
  IN [walked EXCEPT !.ok = @ /\ ~t.array]

StackAssign(s, t) ==
  LET off == AlignUp(s.stackBytes, t.align) IN
  [s EXCEPT !.steps = Append(@, [kind |-> "stack", offset |-> 0, size |-> t.size,
                                 stkOff |-> off, reg |-> 0]),
            !.stackBytes = off + t.size]

\* Mutant: what regAssign took before it failed stays taken
PartlyTaken(s, tried) == tried

Restored(s, tried) == s

\* Mutant: what abi.go:11-12 says, that everything after a stack argument stays
\* on the stack
UntilStack(s) == \A i \in DOMAIN s.steps : s.steps[i].kind # "stack"

MayUseRegs(s) == TRUE

AddArg(s, t) ==
  LET begun == [s EXCEPT !.valueStart = Append(@, Len(s.steps))]
      tried == RegAssign(begun, t)
  IN IF t.size = 0 THEN [begun EXCEPT !.stackBytes = AlignUp(@, t.align)]
     ELSE IF tried.ok /\ MayUseRegs(s) THEN tried.s
     ELSE StackAssign(Restored(begun, tried.s), t)

\* the receiver: one pointer
Receiver == [size |-> Word, align |-> Word, array |-> FALSE, ptrs |-> {0},
             parts |-> <<[float |-> FALSE, offset |-> 0, size |-> Word, n |-> 1, ptrs |-> {0}]>>]

AddRcvr(s) == AddArg(s, Receiver)

-----------------------------------------------------------------------------
(* abiLayout *)

\* Mutant: results begin right behind the last argument
RetUnaligned == call.stackBytes

RetOffset == AlignUp(call.stackBytes, Word)
StackBytes == AlignUp(ret.stackBytes, Word)

PtrMask == {st.reg : st \in {x \in Range(call.steps) : x.kind = "pointer"}}

\* ptrOffsets of each value on the stack; the first value of s is number base + 1
PtrOffs(s, types, base) ==
  UNION {LET steps == StepsForValue(s, i + base) IN
         IF Len(steps) = 1 /\ steps[1].kind = "stack"
         THEN {steps[1].stkOff + o : o \in types[i].ptrs} ELSE {} : i \in DOMAIN types}

StackPtrOffs == PtrOffs(call, ins, 1)
RetStackPtrOffs == PtrOffs(ret, outs, 0)

\* the shape's bit maps
ArgPtrs == {off \div Word : off \in StackPtrOffs}

\* Mutant: not relative to the results' own words
RetPtrsFromBase == {off \div Word : off \in RetStackPtrOffs}

RetPtrs == {(off - RetOffset) \div Word : off \in RetStackPtrOffs}

\* Mutant: room for one register
OneWord(off, i) == AlignUp(off, Word) + Word

Gathered(off, i) == AlignUp(off, Word) + ins[i].size

Gathers(i) == Len(StepsForValue(call, i + 1)) > 1

\* argGather: where the arguments before the i'th end in the gather buffer
GatherEnd ==
  LET end[i \in 0..Len(ins)] ==
        IF i = 0 THEN 0
        ELSE IF Gathers(i) THEN Gathered(end[i - 1], i) ELSE end[i - 1]
  IN end

ArgGather(i) == AlignUp(GatherEnd[i - 1], Word)
GatherBytes == GatherEnd[Len(ins)]

(***************************************************************************)
(* newTrampoline: none for an area wider than the window, the prefetched   *)
(* slot for one without pointers, else one compiled for the shape.  None   *)
(* either when the shape is too wide, or when jitTrampoline gets no memory.*)
(***************************************************************************)
Choose ==
  IF StackBytes > Window THEN {"none"}
  ELSE IF StackPtrOffs = {} /\ RetStackPtrOffs = {} THEN {"slot"}
  ELSE IF \/ RetOffset > StubMaxWords * Word
          \/ StackBytes - RetOffset > StubMaxWords * Word THEN {"none"}
  ELSE {"precise", "none"}

-----------------------------------------------------------------------------
Init ==
  /\ call = AddRcvr(NoSteps)
  /\ ret = NoSteps
  /\ ins = <<>> /\ outs = <<>>
  /\ phase = "args"
  /\ tramp = "undecided"

AddIn(t) ==
  /\ phase = "args" /\ Len(ins) < MaxIn
  /\ call' = AddArg(call, t)
  /\ ins' = Append(ins, t)
  /\ UNCHANGED <<ret, outs, phase, tramp>>

EndArgs ==
  /\ phase = "args"
  /\ ret' = [ret EXCEPT !.stackBytes = RetOffset]
  /\ phase' = "results"
  /\ UNCHANGED <<call, ins, outs, tramp>>

AddOut(t) ==
  /\ phase = "results" /\ Len(outs) < MaxOut
  /\ ret' = AddArg(ret, t)
  /\ outs' = Append(outs, t)
  /\ UNCHANGED <<call, ins, phase, tramp>>

NewTrampoline ==
  /\ phase = "results"
  /\ tramp' \in Choose
  /\ phase' = "done"
  /\ UNCHANGED <<call, ret, ins, outs>>

Next ==
  \/ \E t \in Types : AddIn(t) \/ AddOut(t)
  \/ EndArgs
  \/ NewTrampoline

Spec == Init /\ [][Next]_vars

-----------------------------------------------------------------------------
(* Properties *)

Values == <<Receiver>> \o ins
OnStack(steps) == Len(steps) = 1 /\ steps[1].kind = "stack"

\* Every variable keeps to its domain; float registers do not run out.
TypeOK ==
  /\ \A s \in {call, ret} :
       /\ \A i \in DOMAIN s.steps :
            /\ s.steps[i].kind \in {"stack", "int", "pointer", "float"}
            /\ s.steps[i].kind = "float" => s.steps[i].reg \in 0..FloatRegs - 1
       /\ \A i \in DOMAIN s.valueStart : s.valueStart[i] \in 0..Len(s.steps)
       /\ s.stackBytes \in Nat /\ s.iregs \in Nat /\ s.fregs \in Nat
  /\ \A i \in DOMAIN ins : ins[i] \in Types
  /\ \A i \in DOMAIN outs : outs[i] \in Types
  /\ phase \in {"args", "results", "done"}
  /\ tramp \in {"undecided", "slot", "precise", "none"}

\* The values share out the first registers of each file, every register to one
\* step: a value that did not fit has given back what it took (addArg).
RegistersExclusive ==
  \A s \in {call, ret} :
    LET inInts == {i \in DOMAIN s.steps : s.steps[i].kind \in {"int", "pointer"}}
        inFloats == {i \in DOMAIN s.steps : s.steps[i].kind = "float"}
        regs(idx) == {s.steps[i].reg : i \in idx}
    IN /\ regs(inInts) = 0..s.iregs - 1 /\ s.iregs <= IntRegs
       /\ regs(inFloats) = 0..s.fregs - 1
       /\ \A i, j \in inInts : s.steps[i].reg = s.steps[j].reg => i = j
       /\ \A i, j \in inFloats : s.steps[i].reg = s.steps[j].reg => i = j

\* the registers a value of type t would take, by part and number in it
InRegs(t) == {x \in (DOMAIN t.parts) \X (0..7) : x[2] < t.parts[x[1]].n}

Words(t) == {<<t.parts[x[1]].offset + x[2] * t.parts[x[1]].size, t.parts[x[1]].size>> : x \in InRegs(t)}

Whole(s, types) ==
  /\ Len(s.valueStart) = Len(types)
  /\ \A i \in DOMAIN types :
       LET t == types[i]  steps == StepsForValue(s, i) IN
       IF OnStack(steps) THEN steps[1].size = t.size
       ELSE /\ {<<st.offset, st.size>> : st \in Range(steps)} = IF t.size = 0 THEN {} ELSE Words(t)
            /\ \A j \in DOMAIN steps : steps[j].kind # "stack"

\* Each value travels whole: as one piece on the stack, or every word of it in a
\* register of its own (stepsForValue splits the steps where the values meet).
ValuesWhole == Whole(call, Values) /\ Whole(ret, outs)

\* Values on the stack are aligned and do not overlap, and the results come in
\* words of their own behind the arguments, all within the caller's area: a
\* result copied back never overwrites an argument or what lies behind.
StackDisjoint ==
  LET args == {st \in Range(call.steps) : st.kind = "stack"}
      results == {st \in Range(ret.steps) : st.kind = "stack"}
      below(a, b) == a.stkOff + a.size <= b.stkOff
  IN /\ \A a, b \in args : a # b => below(a, b) \/ below(b, a)
     /\ \A a, b \in results : a # b => below(a, b) \/ below(b, a)
     /\ \A a \in args : a.stkOff + a.size <= RetOffset
     /\ \A r \in results : RetOffset <= r.stkOff /\ r.stkOff + r.size <= StackBytes
     /\ RetOffset % Word = 0
     /\ \A i \in DOMAIN ins : \A st \in Range(StepsForValue(call, i + 1)) :
          st.kind = "stack" => st.stkOff % ins[i].align = 0
     /\ \A i \in DOMAIN outs : \A st \in Range(StepsForValue(ret, i)) :
          st.kind = "stack" => st.stkOff % outs[i].align = 0

RegsOf(t, float) == Cardinality({x \in InRegs(t) : t.parts[x[1]].float = float})

Greedy(s, types) ==
  \A i \in DOMAIN types :
    LET t == types[i]
        before(kinds) == Cardinality({j \in 1..s.valueStart[i] : s.steps[j].kind \in kinds})
    IN OnStack(StepsForValue(s, i)) =>
         \/ t.array
         \/ before({"int", "pointer"}) + RegsOf(t, FALSE) > IntRegs
         \/ before({"float"}) + RegsOf(t, TRUE) > FloatRegs
         \/ \E p \in DOMAIN t.parts : t.parts[p].float /\ t.parts[p].size > FloatBytes

\* A value is on the stack only if Go's compiler puts it there: it has no
\* register form, or the registers the values before it have left do not do.
\* The caller is compiled by the Go ABI and knows nothing of this layout.
GreedyFit == Greedy(call, Values) /\ Greedy(ret, outs)

\* where the pointers of value i of types really are
PointersOf(s, types, i) ==
  LET steps == StepsForValue(s, i) IN
  IF OnStack(steps) THEN {<<"stack", steps[1].stkOff + o>> : o \in types[i].ptrs}
  ELSE {<<"register", st.reg>> : st \in {x \in Range(steps) : x.kind = "pointer"}}

\* What the collector is told of a call is what the call holds: the pointer
\* registers are ptrMask, the pointer words of the stack area those of the
\* shape, within its width; and the plain slot, which declares no word of the
\* area a pointer, serves only methods that move none through it.
PointersExact ==
  phase = "done" /\ tramp # "none" =>
    LET actual == UNION ({PointersOf(call, Values, i) : i \in DOMAIN Values}
                           \cup {{p \in PointersOf(ret, outs, i) : p[1] = "stack"} : i \in DOMAIN outs})
        inArea == IF tramp = "slot" THEN {}
                  ELSE {Word * w : w \in ArgPtrs} \cup {RetOffset + Word * w : w \in RetPtrs}
    IN /\ actual = {<<"register", r>> : r \in PtrMask} \cup {<<"stack", off>> : off \in inArea}
       /\ ArgPtrs \subseteq 0..(RetOffset \div Word) - 1
       /\ RetPtrs \subseteq 0..((StackBytes - RetOffset) \div Word) - 1

\* Arguments assembled from several registers get slots of the gather buffer
\* that do not overlap and can hold them (materializeArgs writes them all).
GatherDisjoint ==
  \A i, j \in {k \in DOMAIN ins : Gathers(k)} :
    /\ ArgGather(i) + ins[i].size <= GatherBytes
    /\ i < j => ArgGather(i) + ins[i].size <= ArgGather(j)

=============================================================================
