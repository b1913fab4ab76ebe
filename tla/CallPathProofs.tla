--------------------------- MODULE CallPathProofs ---------------------------
(***************************************************************************)
(* Proofs about CallPath, for any set of calls and callStates, any chain   *)
(* length and any bound on Proceed.                                        *)
(***************************************************************************)
EXTENDS CallPath, SequenceTheorems, TLAPS

-----------------------------------------------------------------------------
(* Words and frames *)

\* The objects of a call are words, and words are not the markers of Rets and
\* ArgsField (the tags tell them apart).
LEMMA WordFacts ==
  /\ \A c \in Calls : Arg(c) \in Word /\ New(c) \in Word /\ Own(c) \in Word
  /\ \A c \in Calls, n \in Nat : Ret(c, n) \in Word
  /\ Zero \in Word /\ Receiver \in Word /\ TargetData \in Word /\ Junk \in Word
  /\ Nil \notin Word /\ Nothing \notin Word /\ Nil # Nothing
  /\ \A c \in Calls : New(c) \notin {Nothing, InRegs, InSaved}
  /\ InRegs # InSaved /\ InRegs # Nothing /\ InSaved # Nothing
  /\ Zero # Nothing
BY DEF Word, Arg, New, Own, Ret, Zero, Receiver, TargetData, Junk, Nil, Nothing,
       InRegs, InSaved, Special, Obj

\* The results a frame receives leave the rest of the stack alone (Proceed
\* returns to its caller only).
LEMMA ReceiveFacts ==
  ASSUME NEW f \in Seq(FrameType), Len(f) > 0, NEW r \in Rets, NEW m \in Rets
  PROVE  /\ Receive(f, r, m) \in Seq(FrameType)
         /\ Len(Receive(f, r, m)) = Len(f)
         /\ Receive(f, r, m)[Len(f)] = [rets |-> r, means |-> m, tries |-> f[Len(f)].tries]
<1> DEFINE top == [rets |-> r, means |-> m, tries |-> f[Len(f)].tries]
<1>1. Len(f) \in 1..Len(f)
  OBVIOUS
<1>2. top \in FrameType
  BY <1>1, ElementOfSeq DEF FrameType
<1>3. QED
  BY <1>1, <1>2, ExceptSeq DEF Receive

\* Counting a Proceed changes nothing else of the frame.
LEMMA CountTryFacts ==
  ASSUME NEW f \in Seq(FrameType), Len(f) > 0, f[Len(f)].tries < MaxProceed
  PROVE  /\ CountTry(f) \in Seq(FrameType)
         /\ Len(CountTry(f)) = Len(f)
<1> DEFINE g == f[Len(f)]
          top == [rets |-> g.rets, means |-> g.means, tries |-> g.tries + 1]
<1>1. Len(f) \in 1..Len(f)
  OBVIOUS
<1>2. g \in FrameType
  BY <1>1, ElementOfSeq
<1>3. top \in FrameType
  BY <1>2, CallPathAssumption DEF FrameType
<1>4. QED
  BY <1>1, <1>3, ExceptSeq DEF CountTry

\* Leaving a frame uncovers the one below it.
LEMMA PopFacts ==
  ASSUME NEW f \in Seq(FrameType), Len(f) > 1
  PROVE  /\ Pop(f) \in Seq(FrameType)
         /\ Len(Pop(f)) = Len(f) - 1
<1>1. \A i \in 1..(Len(f) - 1) : f[i] \in FrameType
  BY ElementOfSeq
<1>2. QED
  BY <1>1, SubSeqProperties, 1 \in Int, Len(f) - 1 \in Int DEF Pop

\* The registers a call starts from, and those redial loads, are registers.
LEMMA RegisterFacts ==
  /\ \A v, w \in Word : Registers(v, w) \in [Regs -> Word]
  /\ \A ints \in [Regs -> Word] : Rebound(ints) \in [Regs -> Word]
  /\ ZeroRegs \in [Regs -> Word]
BY WordFacts DEF Registers, Regs, Rebound, ZeroRegs

\* A callState out of statePool.New, or zeroed, is well-typed.
LEMMA FreshFacts == FreshRegs \in RegBuf /\ FreshSaved \in Snapshot
BY RegisterFacts, WordFacts DEF FreshRegs, FreshSaved, RegBuf, Snapshot

\* The frame of an interceptor that has not called Proceed is well-typed.
LEMMA NewFrameType == NewFrame \in FrameType
BY CallPathAssumption DEF NewFrame, FrameType, Rets

\* The Invocation Dispatch writes over a pooled one is well-typed.
LEMMA NewInvocationType == NewInvocation \in Invocation
BY CallPathAssumption DEF NewInvocation, Invocation, ArgsField

\* Materialising or rewriting the arguments keeps the chain index.
LEMMA InvocationFacts ==
  ASSUME NEW i \in Invocation, NEW a \in ArgsField
  PROVE  /\ [i EXCEPT !.args = a] \in Invocation
         /\ [i EXCEPT !.args = a].next = i.next
         /\ [i EXCEPT !.args = a].args = a
         /\ [i EXCEPT !.args = a].hasSnap = i.hasSnap
         /\ [i EXCEPT !.args = a].direct = i.direct
BY Zenon DEF Invocation

\* So do taking the snapshot and leaving results in the registers.
LEMMA FlagFacts ==
  ASSUME NEW i \in Invocation
  PROVE  /\ [i EXCEPT !.hasSnap = TRUE] \in Invocation
         /\ [i EXCEPT !.hasSnap = TRUE].next = i.next
         /\ [i EXCEPT !.hasSnap = TRUE].args = i.args
         /\ [i EXCEPT !.hasSnap = TRUE].hasSnap = TRUE
         /\ [i EXCEPT !.hasSnap = TRUE].direct = i.direct
         /\ [i EXCEPT !.direct = TRUE] \in Invocation
         /\ [i EXCEPT !.direct = TRUE].next = i.next
         /\ [i EXCEPT !.direct = TRUE].args = i.args
         /\ [i EXCEPT !.direct = TRUE].hasSnap = i.hasSnap
         /\ [i EXCEPT !.direct = TRUE].direct = TRUE
BY Zenon DEF Invocation

\* Entering an interceptor moves the chain index only.
LEMMA NextFacts ==
  ASSUME NEW i \in Invocation, NEW n \in 0..ChainLen
  PROVE  /\ [i EXCEPT !.next = n] \in Invocation
         /\ [i EXCEPT !.next = n].next = n
         /\ [i EXCEPT !.next = n].args = i.args
         /\ [i EXCEPT !.next = n].hasSnap = i.hasSnap
         /\ [i EXCEPT !.next = n].direct = i.direct
BY Zenon DEF Invocation

-----------------------------------------------------------------------------
(* Types, ownership of the callStates and the shape of the stacks *)

Working == {"running", "target", "unwinding", "stored", "loaded"}

\* A call owns a callState exactly while Dispatch works on one.
Ownership == \A c \in Calls : pc[c] \in Working <=> own[c] # NoState

\* A call starts with Dispatch's frame alone, and every frame above it is an
\* interceptor the chain index has passed.
Stacks ==
  \A c \in Calls :
    /\ pc[c] \in {"idle", "entered"} => frames[c] = <<NewFrame>>
    /\ pc[c] \in Working => Top(c) <= inv[own[c]].next + 1

Shape == TypeOK /\ ExclusiveState /\ Ownership /\ Stacks

\* The initial state has the shape.
LEMMA InitShape == Init => Shape
<1> SUFFICES ASSUME Init PROVE Shape
  OBVIOUS
<1> USE DEF Init
<1>1. TypeOK
  <2>1. frames \in [Calls -> Seq(FrameType)] /\ \A c \in Calls : Top(c) \in 1..(ChainLen + 1)
    BY NewFrameType, CallPathAssumption DEF Top
  <2>2. regs \in [States -> RegBuf] /\ saved \in [States -> Snapshot]
    BY WordFacts, RegisterFacts DEF FreshRegs, FreshSaved, RegBuf, Snapshot
  <2>3. inv \in [States -> Invocation]
    BY NewInvocationType
  <2>4. heap \subseteq Word /\ out \in [Calls -> Word] /\ stackBuf \in [States -> Word]
    BY WordFacts
  <2>5. target \in [Calls -> TargetCall]
    BY RegisterFacts DEF NoTarget, TargetCall
  <2>6. QED
    BY <2>1, <2>2, <2>3, <2>4, <2>5 DEF TypeOK, Labels
<1>2. ExclusiveState /\ Ownership /\ Stacks
  BY DEF ExclusiveState, InFlight, Ownership, Stacks, Working
<1>3. QED
  BY <1>1, <1>2 DEF Shape

\* The part of TypeOK a step of Dispatch leaves to the words it moves.
WordTypes ==
  /\ regs \in [States -> RegBuf]
  /\ saved \in [States -> Snapshot]
  /\ stackBuf \in [States -> Word]
  /\ target \in [Calls -> TargetCall]
  /\ runs \in [Calls -> Nat]
  /\ out \in [Calls -> Word]
  /\ heap \subseteq Word
  /\ rewritten \in [Calls -> BOOLEAN]

\* What the shape says of a call Dispatch works on.
LEMMA WorkingFacts ==
  ASSUME Shape, NEW c \in Calls, pc[c] \in Working
  PROVE  /\ own[c] \in States /\ own[c] \notin pool
         /\ inv[own[c]] \in Invocation
         /\ frames[c] \in Seq(FrameType)
         /\ Top(c) = Len(frames[c]) /\ Top(c) \in 1..(ChainLen + 1)
         /\ Len(frames[c]) > 0 /\ Len(frames[c]) \in 1..Len(frames[c])
         /\ Top(c) <= inv[own[c]].next + 1
         /\ \A d \in Calls : own[d] = own[c] => d = c
BY CallPathAssumption
DEF Shape, TypeOK, Ownership, ExclusiveState, InFlight, NoState, Top, Stacks

\* A step of Dispatch touches its own label, stack and Invocation only.
Local(c) ==
  /\ pc' = [pc EXCEPT ![c] = pc'[c]]
  /\ frames' = [frames EXCEPT ![c] = frames'[c]]
  /\ inv' = [inv EXCEPT ![own[c]] = inv'[own[c]]]
  /\ UNCHANGED <<pool, own, kind>>

\* Such a step keeps the shape if Dispatch goes on working, with a stack the
\* chain index covers.
LEMMA WorkShape ==
  ASSUME Shape, NEW c \in Calls, pc[c] \in Working, Local(c),
         pc'[c] \in Working,
         frames'[c] \in Seq(FrameType), Len(frames'[c]) \in 1..(ChainLen + 1),
         inv'[own[c]] \in Invocation,
         Len(frames'[c]) <= inv'[own[c]].next + 1,
         WordTypes'
  PROVE  Shape'
<1> USE DEF Local
<1>1. own[c] \in States /\ \A d \in Calls : own[d] = own[c] => d = c
  BY WorkingFacts
<1>2. TypeOK'
  <2>1. pc' \in [Calls -> Labels]
    <3>1. pc \in [Calls -> Labels]
      BY DEF Shape, TypeOK
    <3> QED BY <3>1 DEF Labels, Working
  <2>5. inv' \in [States -> Invocation]
    <3>1. inv \in [States -> Invocation]
      BY DEF Shape, TypeOK
    <3> QED BY <1>1, <3>1
  <2>2. frames' \in [Calls -> Seq(FrameType)]
    BY DEF Shape, TypeOK
  <2>3. \A d \in Calls : Len(frames'[d]) \in 1..(ChainLen + 1)
    BY DEF Shape, TypeOK, Top
  <2>4. QED
    BY <2>1, <2>2, <2>3, <2>5 DEF Shape, TypeOK, WordTypes, Top
<1>3. ExclusiveState'
  BY DEF Shape, ExclusiveState, InFlight
<1>4. Ownership'
  BY DEF Shape, TypeOK, Ownership
<1>5. Stacks'
  BY <1>1 DEF Shape, TypeOK, Stacks, Top, Ownership, Working
<1>6. QED
  BY <1>2, <1>3, <1>4, <1>5 DEF Shape

\* Dispatch enters, and gets a callState nobody works on.
LEMMA EnterShape ==
  ASSUME Shape, NEW c \in Calls, Enter(c)
  PROVE  Shape'
<1>1. /\ pc[c] = "idle" /\ pc' = [pc EXCEPT ![c] = "entered"]
      /\ UNCHANGED <<pool, regs, saved, stackBuf, inv, kind, own, frames, target,
                     runs, out, heap, rewritten>>
  BY DEF Enter, Goto, dataVars
<1>2. TypeOK' /\ ExclusiveState' /\ Ownership' /\ Stacks'
  BY <1>1 DEF Shape, TypeOK, Labels, Top, ExclusiveState, InFlight, Ownership,
              Stacks, Working
<1>3. QED
  BY <1>2 DEF Shape

\* statePool.Get and the initialisation keep the memory well-typed and the
\* callState the call's own.
LEMMA GetStateShape ==
  ASSUME Shape, NEW c \in Calls, GetState(c)
  PROVE  Shape'
<1> DEFINE buf == [ints |-> Registers(Receiver, Arg(c)),
                   ptrs |-> Registers(Receiver, Arg(c)), stackPtr |-> Zero]
<1>1. PICK s \in pool \cup Unmade :
        /\ pool' = pool \ {s}
        /\ own' = [own EXCEPT ![c] = s]
        /\ regs' = [regs EXCEPT ![s] = buf]
        /\ inv' = [inv EXCEPT ![s] = NewInvocation]
  BY DEF GetState
<1>2. /\ pc[c] = "entered" /\ pc' = [pc EXCEPT ![c] = "running"]
      /\ UNCHANGED <<saved, stackBuf, kind, frames, target, runs, out, heap, rewritten>>
  BY DEF GetState, Goto
<1>3. s \in States /\ s # NoState /\ \A d \in Calls : own[d] # s
  BY <1>1, CallPathAssumption DEF Unmade, Owned, Shape, TypeOK, ExclusiveState,
                                  InFlight, NoState
<1>4. buf \in RegBuf /\ NewInvocation \in Invocation
  BY WordFacts, RegisterFacts, NewInvocationType DEF RegBuf
<1>5. TypeOK'
  <2>1. pool' \subseteq States /\ own' \in [Calls -> States \cup {NoState}]
    BY <1>1, <1>3 DEF Shape, TypeOK
  <2>2. regs' \in [States -> RegBuf] /\ inv' \in [States -> Invocation]
    BY <1>1, <1>3, <1>4 DEF Shape, TypeOK
  <2>3. QED
    BY <1>2, <2>1, <2>2 DEF Shape, TypeOK, Labels, Top
<1>6. ExclusiveState'
  BY <1>1, <1>3 DEF Shape, TypeOK, ExclusiveState, InFlight
<1>7. Ownership'
  BY <1>1, <1>2, <1>3 DEF Shape, TypeOK, Ownership, Working
<1>8. Stacks'
  <2>1. NewInvocation.next = 0 /\ Len(<<NewFrame>>) = 1
    BY DEF NewInvocation
  <2>2. ASSUME NEW d \in Calls, d # c, pc'[d] \in Working
        PROVE  Len(frames'[d]) <= inv'[own'[d]].next + 1
    BY <1>1, <1>2, <1>3, <2>2 DEF Shape, TypeOK, Stacks, Top, Ownership, Working
  <2>3. Len(frames'[c]) <= inv'[own'[c]].next + 1
    <3>1. own'[c] = s /\ inv'[s] = NewInvocation
      BY <1>1, <1>3 DEF Shape, TypeOK
    <3>2. frames'[c] = <<NewFrame>>
      BY <1>2 DEF Shape, Stacks
    <3>3. QED
      BY <2>1, <3>1, <3>2
  <2>4. QED
    BY <1>2, <2>2, <2>3 DEF Shape, TypeOK, Stacks, Top
<1>9. QED
  BY <1>5, <1>6, <1>7, <1>8 DEF Shape

\* Reading and rewriting the arguments.
LEMMA ArgsShape ==
  ASSUME Shape, NEW c \in Calls, ReadArgs(c) \/ SetArg(c)
  PROVE  Shape'
<1>1. pc[c] = "running" /\ pc[c] \in Working
  BY DEF ReadArgs, SetArg, InInterceptor, Working
<1>2. Materialised(own[c]) \in ArgsField /\ New(c) \in ArgsField
  BY <1>1, WorkingFacts DEF Materialised, ArgsField, Invocation
<1>3. PICK a \in ArgsField : inv' = [inv EXCEPT ![own[c]].args = a]
  <2>1. \/ inv' = [inv EXCEPT ![own[c]].args = Materialised(own[c])]
        \/ inv' = [inv EXCEPT ![own[c]].args = New(c)]
    BY Zenon DEF ReadArgs, SetArg
  <2>2. QED
    BY <1>2, <2>1, Zenon
<1>4. /\ inv' = [inv EXCEPT ![own[c]] = inv'[own[c]]]
      /\ inv'[own[c]] \in Invocation
      /\ inv'[own[c]].next = inv[own[c]].next
  <2> DEFINE i == [inv[own[c]] EXCEPT !.args = a]
  <2>1. i \in Invocation /\ i.next = inv[own[c]].next
    BY <1>1, WorkingFacts, InvocationFacts, Zenon
  <2>2. inv' = [inv EXCEPT ![own[c]] = i]
    BY <1>3, Zenon
  <2> HIDE DEF i
  <2>3. QED
    BY <1>1, <2>1, <2>2, WorkingFacts DEF Shape, TypeOK
<1>5. WordTypes' /\ UNCHANGED <<pool, own, kind, pc, frames>>
  BY WordFacts DEF ReadArgs, SetArg, callVars, Shape, TypeOK, WordTypes
<1>6. Local(c)
  BY <1>4, <1>5 DEF Local, Shape, TypeOK
<1>7. QED
  BY <1>1, <1>4, <1>5, <1>6, WorkingFacts, WorkShape

\* An update of the Invocation of a call at work is of its own callState.
LEMMA InvStep ==
  ASSUME Shape, NEW c \in Calls, pc[c] \in Working,
         NEW i \in Invocation, inv' = [inv EXCEPT ![own[c]] = i]
  PROVE  /\ inv' = [inv EXCEPT ![own[c]] = inv'[own[c]]]
         /\ inv'[own[c]] = i
BY WorkingFacts DEF Shape, TypeOK

\* The frame on top is a frame, and may call Proceed if the code does.
LEMMA TopFrameFacts ==
  ASSUME Shape, NEW c \in Calls, pc[c] \in Working
  PROVE  TopFrame(c) \in FrameType /\ TopFrame(c) = frames[c][Len(frames[c])]
BY WorkingFacts, ElementOfSeq DEF TopFrame

\* Only a running call may call Proceed, and its top frame has tries left.
LEMMA MayProceedFacts ==
  ASSUME Shape, NEW c \in Calls, MayProceed(c)
  PROVE  /\ pc[c] = "running" /\ pc[c] \in Working
         /\ frames[c][Len(frames[c])].tries < MaxProceed
<1>1. pc[c] = "running" /\ pc[c] \in Working
      /\ TopFrame(c).tries < (IF Top(c) = 1 THEN 1 ELSE MaxProceed)
  BY DEF MayProceed, Working
<1>2. TopFrame(c).tries \in Nat
  BY <1>1, TopFrameFacts, CallPathAssumption DEF FrameType
<1>3. TopFrame(c).tries < MaxProceed
  BY <1>1, <1>2, CallPathAssumption
<1>4. QED
  BY <1>1, <1>3, TopFrameFacts

\* A Proceed with links left enters the next interceptor.
LEMMA InterceptorShape ==
  ASSUME Shape, NEW c \in Calls, ProceedToInterceptor(c)
  PROVE  Shape'
<1> DEFINE s == own[c]
           f == Append(CountTry(frames[c]), NewFrame)
           i == [inv[s] EXCEPT !.next = inv[s].next + 1]
<1>1. /\ pc[c] = "running" /\ pc[c] \in Working
      /\ inv[s].next < ChainLen
      /\ frames[c][Top(c)].tries < (IF Top(c) = 1 THEN 1 ELSE MaxProceed)
      /\ UNCHANGED <<pool, regs, saved, stackBuf, pc, kind, own, target, runs,
                     out, heap, rewritten>>
  BY DEF ProceedToInterceptor, MayProceed, ChainLeft, TopFrame, Working
<1>2. inv' = [inv EXCEPT ![s] = i] /\ frames' = [frames EXCEPT ![c] = f]
  BY Zenon DEF ProceedToInterceptor
<1>3. /\ inv[s] \in Invocation /\ inv[s].next \in 0..ChainLen
      /\ inv[s].next + 1 \in 0..ChainLen
  BY <1>1, WorkingFacts, CallPathAssumption DEF Invocation
<1>4. i \in Invocation /\ i.next = inv[s].next + 1
  BY <1>3, NextFacts, Zenon
<1>5. frames[c] \in Seq(FrameType) /\ Top(c) = Len(frames[c]) /\ Len(frames[c]) > 0
      /\ Len(frames[c]) <= inv[s].next + 1
  BY <1>1, WorkingFacts
<1>6. f \in Seq(FrameType) /\ Len(f) = Len(frames[c]) + 1
  <2>1. frames[c][Len(frames[c])].tries < MaxProceed
    BY <1>1, <1>5, MayProceedFacts DEF ProceedToInterceptor
  <2>2. CountTry(frames[c]) \in Seq(FrameType)
        /\ Len(CountTry(frames[c])) = Len(frames[c])
    BY <1>5, <2>1, CountTryFacts
  <2>3. QED
    BY <2>2, NewFrameType, AppendProperties
<1> HIDE DEF i, f
<1>7. inv' = [inv EXCEPT ![s] = inv'[s]] /\ inv'[s] = i
  BY <1>1, <1>2, <1>4, InvStep
<1>8. frames' = [frames EXCEPT ![c] = frames'[c]] /\ frames'[c] = f
  BY <1>2 DEF Shape, TypeOK
<1>9. Local(c) /\ WordTypes' /\ pc'[c] \in Working
  BY <1>1, <1>7, <1>8 DEF Local, Shape, TypeOK, WordTypes
<1>10. Len(f) \in 1..(ChainLen + 1) /\ Len(f) <= i.next + 1
  <2> DEFINE m == Len(frames[c])
             x == inv[s].next
  <2>1. m \in Nat /\ m > 0 /\ m <= x + 1 /\ Len(f) = m + 1
    BY <1>5, <1>6, LenProperties
  <2>2. x \in 0..ChainLen /\ x + 1 \in 0..ChainLen /\ i.next = x + 1 /\ ChainLen \in Nat
    BY <1>3, <1>4, CallPathAssumption
  <2> HIDE DEF m, x
  <2>3. QED
    BY <2>1, <2>2
<1>11. QED
  BY <1>1, <1>4, <1>6, <1>7, <1>8, <1>9, <1>10, WorkShape

\* Steps of Dispatch that leave the Invocation's chain index and shorten the
\* stack, or exchange its top frame, keep the shape.
LEMMA StackStep ==
  ASSUME Shape, NEW c \in Calls, pc[c] \in Working,
         NEW l \in Working, pc' = [pc EXCEPT ![c] = l],
         NEW f \in Seq(FrameType), frames' = [frames EXCEPT ![c] = f],
         Len(f) \in 1..Len(frames[c]),
         NEW i \in Invocation, inv' = [inv EXCEPT ![own[c]] = i],
         i.next = inv[own[c]].next,
         UNCHANGED <<pool, own, kind>>,
         WordTypes'
  PROVE  Shape'
<1>1. inv' = [inv EXCEPT ![own[c]] = inv'[own[c]]] /\ inv'[own[c]] = i
  BY InvStep
<1>2. frames' = [frames EXCEPT ![c] = frames'[c]] /\ frames'[c] = f
  BY DEF Shape, TypeOK
<1>3. pc' = [pc EXCEPT ![c] = pc'[c]] /\ pc'[c] \in Working
  BY DEF Shape, TypeOK
<1>4. Local(c)
  BY <1>1, <1>2, <1>3 DEF Local
<1>5. /\ frames[c] \in Seq(FrameType) /\ Len(frames[c]) \in 1..(ChainLen + 1)
      /\ Len(frames[c]) <= inv[own[c]].next + 1
      /\ inv[own[c]].next \in 0..ChainLen
  BY WorkingFacts DEF Invocation
<1>6. Len(f) \in 1..(ChainLen + 1) /\ Len(f) <= i.next + 1
  BY <1>5, CallPathAssumption
<1>7. QED
  BY <1>1, <1>2, <1>3, <1>4, <1>6, WorkShape

\* A Proceed with no links left ends in callTarget.
LEMMA CallTargetShape ==
  ASSUME Shape, NEW c \in Calls, ProceedToMock(c) \/ ProceedFast(c) \/ ProceedReflect(c)
  PROVE  Shape'
<1> DEFINE s == own[c]
           f == CountTry(frames[c])
<1>1. /\ pc[c] = "running" /\ pc[c] \in Working
      /\ frames[c][Len(frames[c])].tries < MaxProceed
  BY MayProceedFacts DEF ProceedToMock, ProceedFast, ProceedReflect
<1>2. /\ s \in States /\ inv[s] \in Invocation
      /\ frames[c] \in Seq(FrameType) /\ Len(frames[c]) \in 1..(ChainLen + 1)
  BY <1>1, WorkingFacts
<1>3. f \in Seq(FrameType) /\ Len(f) = Len(frames[c]) /\ Len(f) \in 1..Len(frames[c])
  BY <1>1, <1>2, CountTryFacts
<1> HIDE DEF f
<1>4. CASE ProceedToMock(c)
  <2>1. /\ frames' = [frames EXCEPT ![c] = Receive(f, Zero, Zero)]
        /\ UNCHANGED <<pool, regs, saved, stackBuf, inv, pc, kind, own, target,
                       runs, out, heap, rewritten>>
    BY <1>4 DEF ProceedToMock, dataVars, f
  <2>2. /\ Receive(f, Zero, Zero) \in Seq(FrameType)
        /\ Len(Receive(f, Zero, Zero)) \in 1..Len(frames[c])
    <3>1. Zero \in Rets /\ Len(f) > 0
      BY <1>2, <1>3, WordFacts DEF Rets
    <3>2. QED
      BY <1>2, <1>3, <3>1, ReceiveFacts
  <2>3. pc' = [pc EXCEPT ![c] = pc[c]] /\ inv' = [inv EXCEPT ![s] = inv[s]] /\ WordTypes'
    BY <2>1 DEF Shape, TypeOK, WordTypes
  <2>4. QED
    BY <1>1, <1>2, <2>1, <2>2, <2>3, StackStep
<1>5. CASE ProceedFast(c)
  <2> DEFINE ints == Rebound(ArgRegs(s))
             i == [inv[s] EXCEPT !.hasSnap = TRUE]
             buf == [ints |-> ints, ptrs |-> Rebound(regs[s].ptrs), stackPtr |-> regs[s].stackPtr]
             snap == [ints |-> regs[s].ints, ptrs |-> regs[s].ptrs]
  <2>1. /\ frames' = [frames EXCEPT ![c] = f]
        /\ pc' = [pc EXCEPT ![c] = "target"]
        /\ runs' = [runs EXCEPT ![c] = runs[c] + 1]
        /\ regs' = [regs EXCEPT ![s] = buf]
        /\ target' = [target EXCEPT ![c] = [regs |-> ints, fast |-> TRUE]]
        /\ saved' = saved \/ saved' = [saved EXCEPT ![s] = snap]
        /\ UNCHANGED <<pool, stackBuf, kind, own, out, heap, rewritten>>
    BY <1>5 DEF ProceedFast, Goto, f
  <2>2. inv' = [inv EXCEPT ![s] = i] /\ i \in Invocation /\ i.next = inv[s].next
    <3>1. inv' = [inv EXCEPT ![s] = i]
      BY <1>5, Zenon DEF ProceedFast
    <3>2. QED
      BY <1>2, <3>1, FlagFacts, Zenon
  <2>3. snap \in Snapshot /\ buf \in RegBuf
        /\ [regs |-> ints, fast |-> TRUE] \in TargetCall
    <3>1. regs[s] \in RegBuf /\ saved[s] \in Snapshot
      BY <1>2 DEF Shape, TypeOK
    <3>2. /\ regs[s].ints \in [Regs -> Word] /\ regs[s].ptrs \in [Regs -> Word]
          /\ regs[s].stackPtr \in Word /\ saved[s].ints \in [Regs -> Word]
      BY <3>1 DEF RegBuf, Snapshot
    <3>3. ints \in [Regs -> Word] /\ Rebound(regs[s].ptrs) \in [Regs -> Word]
      BY <3>2, RegisterFacts DEF ArgRegs
    <3> HIDE DEF ints
    <3>4. QED
      BY <3>2, <3>3 DEF Snapshot, RegBuf, TargetCall
  <2> HIDE DEF ints, i, buf, snap
  <2>4. WordTypes'
    <3>1. saved' \in [States -> Snapshot]
      BY <1>2, <2>1, <2>3 DEF Shape, TypeOK
    <3>2. regs' \in [States -> RegBuf] /\ target' \in [Calls -> TargetCall]
          /\ runs' \in [Calls -> Nat]
      BY <1>2, <2>1, <2>3 DEF Shape, TypeOK
    <3>3. QED
      BY <2>1, <3>1, <3>2 DEF Shape, TypeOK, WordTypes
  <2>5. QED
    BY <1>1, <1>3, <2>1, <2>2, <2>4, StackStep DEF Working
<1>6. CASE ProceedReflect(c)
  <2> DEFINE tc == [regs |-> Registers(TargetData, ArgSeen(s)), fast |-> FALSE]
             i == [inv[s] EXCEPT !.args = Materialised(s)]
  <2>1. /\ frames' = [frames EXCEPT ![c] = f]
        /\ pc' = [pc EXCEPT ![c] = "target"]
        /\ runs' = [runs EXCEPT ![c] = runs[c] + 1]
        /\ target' = [target EXCEPT ![c] = tc]
        /\ UNCHANGED <<pool, regs, saved, stackBuf, kind, own, out, heap, rewritten>>
    BY <1>6 DEF ProceedReflect, Goto, f
  <2>2. Materialised(s) \in ArgsField
    BY <1>2 DEF Materialised, ArgsField, Invocation
  <2>3. inv' = [inv EXCEPT ![s] = i] /\ i \in Invocation /\ i.next = inv[s].next
    <3>1. inv' = [inv EXCEPT ![s] = i]
      BY <1>6, Zenon DEF ProceedReflect
    <3>2. QED
      BY <1>2, <2>2, <3>1, InvocationFacts, Zenon
  <2>4. tc \in TargetCall
    <3>1. regs[s].ints[1] \in Word /\ saved[s].ints[1] \in Word
      BY <1>2 DEF Shape, TypeOK, RegBuf, Snapshot, Regs
    <3>2. ArgSeen(s) \in Word
      BY <2>2, <3>1, WordFacts DEF ArgSeen, ArgsField, Materialised
    <3>3. QED
      BY <3>2, WordFacts, RegisterFacts DEF TargetCall
  <2> HIDE DEF tc, i
  <2>5. WordTypes'
    BY <1>2, <2>1, <2>4 DEF Shape, TypeOK, WordTypes
  <2>6. QED
    BY <1>1, <1>3, <2>1, <2>3, <2>5, StackStep DEF Working
<1>7. QED
  BY <1>4, <1>5, <1>6

\* The target's results, on either path, and whatever becomes of the frames
\* above Dispatch's.
LEMMA TargetReturnsShape ==
  ASSUME Shape, NEW c \in Calls, TargetReturns(c)
  PROVE  Shape'
<1> DEFINE s == own[c]
           r == Ret(c, runs[c])
<1>1. /\ pc[c] = "target" /\ pc[c] \in Working
      /\ pc' = [pc EXCEPT ![c] = "running"]
      /\ heap' = heap \cup {r}
      /\ UNCHANGED <<pool, saved, stackBuf, kind, own, target, runs, out, rewritten>>
  BY DEF TargetReturns, Goto, Working
<1>2. /\ s \in States /\ inv[s] \in Invocation
      /\ frames[c] \in Seq(FrameType) /\ Len(frames[c]) > 0
      /\ Len(frames[c]) \in 1..Len(frames[c])
      /\ regs[s] \in RegBuf
  BY <1>1, WorkingFacts DEF Shape, TypeOK
<1>3. r \in Word /\ r \in Rets /\ Nil \in Rets
  BY WordFacts DEF Rets, Shape, TypeOK
<1>4. /\ Receive(frames[c], Nil, r) \in Seq(FrameType)
      /\ Receive(frames[c], r, r) \in Seq(FrameType)
      /\ Len(Receive(frames[c], Nil, r)) \in 1..Len(frames[c])
      /\ Len(Receive(frames[c], r, r)) \in 1..Len(frames[c])
  BY <1>2, <1>3, ReceiveFacts
<1>5. CASE target[c].fast
  <2> DEFINE buf == [regs[s] EXCEPT !.ints = Registers(r, Junk)]
             i == [inv[s] EXCEPT !.direct = TRUE]
  <2>1. /\ regs' = [regs EXCEPT ![s] = buf] /\ inv' = [inv EXCEPT ![s] = i]
        /\ frames' = [frames EXCEPT ![c] = Receive(frames[c], Nil, r)]
    BY <1>5, Zenon DEF TargetReturns
  <2>2. i \in Invocation /\ i.next = inv[s].next
    BY <1>2, FlagFacts, Zenon
  <2>3. buf \in RegBuf
    <3>1. Registers(r, Junk) \in [Regs -> Word]
      BY <1>3, WordFacts, RegisterFacts
    <3>2. QED
      BY <1>2, <3>1, Zenon DEF RegBuf
  <2> HIDE DEF buf, i, r
  <2>4. WordTypes'
    BY <1>1, <1>2, <1>3, <2>1, <2>3 DEF Shape, TypeOK, WordTypes
  <2>5. QED
    BY <1>1, <1>4, <2>1, <2>2, <2>4, StackStep DEF Working
<1>6. CASE ~target[c].fast
  <2> HIDE DEF r
  <2>1. /\ frames' = [frames EXCEPT ![c] = Receive(frames[c], r, r)]
        /\ UNCHANGED <<regs, inv>>
    BY <1>6, Zenon DEF TargetReturns, r
  <2>2. inv' = [inv EXCEPT ![s] = inv[s]] /\ WordTypes'
    BY <1>1, <1>3, <2>1 DEF Shape, TypeOK, WordTypes
  <2>3. QED
    BY <1>1, <1>2, <1>4, <2>1, <2>2, StackStep DEF Working
<1>7. QED
  BY <1>5, <1>6

\* Returns and panics of interceptors keep Shape.
LEMMA FrameShape ==
  ASSUME Shape, NEW c \in Calls,
         ReturnProceeded(c) \/ ReturnOwn(c) \/ TargetPanics(c)
           \/ InterceptorPanics(c) \/ Unwind(c) \/ Recover(c)
  PROVE  Shape'
<1>1. pc[c] \in Working
  BY DEF ReturnProceeded, ReturnOwn, TargetPanics, InterceptorPanics, Unwind,
         Recover, InInterceptor, Working
<1>2. /\ inv[own[c]] \in Invocation
      /\ frames[c] \in Seq(FrameType) /\ Top(c) = Len(frames[c])
      /\ Len(frames[c]) > 0
      /\ Len(frames[c]) \in 1..Len(frames[c])
  BY <1>1, WorkingFacts
<1>3. /\ UNCHANGED <<pool, regs, saved, stackBuf, inv, kind, own, target, runs,
                     out, rewritten>>
      /\ heap' = heap \/ heap' = heap \cup {Own(c)}
  BY DEF ReturnProceeded, ReturnOwn, TargetPanics, InterceptorPanics, Unwind,
         Recover, ReturnFrom, dataVars
<1>4. inv' = [inv EXCEPT ![own[c]] = inv[own[c]]] /\ WordTypes'
  BY <1>3, WordFacts DEF Shape, TypeOK, WordTypes
<1>5. PICK l \in Working : pc' = [pc EXCEPT ![c] = l]
  <2>1. pc' = pc => pc' = [pc EXCEPT ![c] = pc[c]]
    BY DEF Shape, TypeOK
  <2>2. \/ pc' = pc
        \/ pc' = [pc EXCEPT ![c] = "running"]
        \/ pc' = [pc EXCEPT ![c] = "unwinding"]
    BY DEF ReturnProceeded, ReturnOwn, TargetPanics, InterceptorPanics, Unwind,
           Recover, ReturnFrom, Goto
  <2>3. "running" \in Working /\ "unwinding" \in Working
    BY DEF Working
  <2>4. QED
    BY <1>1, <2>1, <2>2, <2>3
<1>6. TopFrame(c) \in FrameType /\ Own(c) \in Rets /\ Nil \in Rets /\ Zero \in Rets
  BY <1>1, TopFrameFacts, WordFacts DEF Rets
<1>7. PICK f \in Seq(FrameType) :
        frames' = [frames EXCEPT ![c] = f] /\ Len(f) \in 1..Len(frames[c])
  <2>1. ASSUME Len(frames[c]) > 1
        PROVE  /\ Pop(frames[c]) \in Seq(FrameType)
               /\ Len(Pop(frames[c])) \in 1..Len(frames[c]) /\ Len(Pop(frames[c])) > 0
    BY <1>2, <2>1, PopFacts
  <2>2. CASE ReturnProceeded(c) \/ ReturnOwn(c)
    <3>1. PICK r \in Rets, m \in Rets :
            frames' = [frames EXCEPT ![c] = Receive(Pop(frames[c]), r, m)]
      BY <1>6, <2>2 DEF ReturnProceeded, ReturnOwn, ReturnFrom, FrameType
    <3>2. Len(frames[c]) > 1
      BY <1>2, <2>2 DEF ReturnProceeded, ReturnOwn, InInterceptor
    <3>3. /\ Receive(Pop(frames[c]), r, m) \in Seq(FrameType)
          /\ Len(Receive(Pop(frames[c]), r, m)) = Len(Pop(frames[c]))
      BY <2>1, <3>2, ReceiveFacts
    <3>4. QED
      BY <2>1, <3>1, <3>2, <3>3
  <2>3. CASE InterceptorPanics(c) \/ Unwind(c)
    <3>1. frames' = [frames EXCEPT ![c] = Pop(frames[c])] /\ Len(frames[c]) > 1
      BY <1>2, <2>3 DEF InterceptorPanics, Unwind, InInterceptor
    <3>2. QED
      BY <2>1, <3>1
  <2>4. CASE Recover(c)
    <3>1. frames' = [frames EXCEPT ![c] = Receive(frames[c], Nil, Zero)]
      BY <2>4 DEF Recover
    <3>2. /\ Receive(frames[c], Nil, Zero) \in Seq(FrameType)
          /\ Len(Receive(frames[c], Nil, Zero)) = Len(frames[c])
      BY <1>2, <1>6, ReceiveFacts
    <3>3. QED
      BY <1>2, <3>1, <3>2
  <2>5. CASE TargetPanics(c)
    <3>1. frames' = [frames EXCEPT ![c] = frames[c]]
      BY <2>5 DEF TargetPanics, Shape, TypeOK
    <3>2. QED
      BY <1>2, <3>1
  <2>6. QED
    BY <2>2, <2>3, <2>4, <2>5
<1>8. QED
  BY <1>1, <1>2, <1>3, <1>4, <1>5, <1>7, StackStep

\* Scattering and copying out the results.
LEMMA ResultsShape ==
  ASSUME Shape, NEW c \in Calls, StoreResults(c) \/ LoadResults(c)
  PROVE  Shape'
<1> DEFINE s == own[c]
<1>1. /\ pc[c] \in Working
      /\ \E l \in Working : pc' = [pc EXCEPT ![c] = l]
      /\ UNCHANGED <<pool, saved, inv, kind, own, frames, target, runs, heap, rewritten>>
  BY DEF StoreResults, LoadResults, Goto, Working, dataVars
<1>2. /\ s \in States /\ inv[s] \in Invocation /\ regs[s] \in RegBuf
      /\ frames[c] \in Seq(FrameType) /\ Len(frames[c]) \in 1..Len(frames[c])
  BY <1>1, WorkingFacts DEF Shape, TypeOK
<1>3. /\ regs[s].ints \in [Regs -> Word] /\ regs[s].ptrs \in [Regs -> Word]
      /\ regs[s].stackPtr \in Word
  BY <1>2 DEF RegBuf
<1>4. WordTypes'
  <2>1. CASE StoreResults(c)
    <3> DEFINE v == IF TopFrame(c).rets = Nil THEN Zero ELSE TopFrame(c).rets
    <3>1. v \in Word /\ UNCHANGED out
      BY <1>1, <2>1, TopFrameFacts, WordFacts DEF StoreResults, FrameType, Rets
    <3>2. \/ UNCHANGED <<regs, stackBuf>>
          \/ stackBuf' = [stackBuf EXCEPT ![s] = v] /\ regs' = ToStack(s, v)
          \/ UNCHANGED stackBuf /\ regs' = ToRegister(s, v)
      BY <2>1 DEF StoreResults
    <3> HIDE DEF v
    <3>3. ToStack(s, v) \in [States -> RegBuf]
      <4>1. [regs[s] EXCEPT !.stackPtr = v] \in RegBuf
        BY <1>2, <3>1, Zenon DEF RegBuf
      <4>2. ToStack(s, v) = [regs EXCEPT ![s] = [regs[s] EXCEPT !.stackPtr = v]]
        BY Zenon DEF ToStack
      <4>3. QED
        BY <1>2, <4>1, <4>2, Zenon DEF Shape, TypeOK
    <3>4. ToRegister(s, v) \in [States -> RegBuf]
      <4> DEFINE buf == [ints |-> [regs[s].ints EXCEPT ![0] = v],
                         ptrs |-> [regs[s].ptrs EXCEPT ![0] = v],
                         stackPtr |-> regs[s].stackPtr]
      <4>1. buf \in RegBuf
        BY <1>3, <3>1 DEF RegBuf
      <4>2. ToRegister(s, v) = [regs EXCEPT ![s] = buf]
        BY Zenon DEF ToRegister
      <4> HIDE DEF buf
      <4>3. QED
        BY <1>2, <4>1, <4>2 DEF Shape, TypeOK
    <3>5. QED
      BY <1>1, <1>2, <3>1, <3>2, <3>3, <3>4 DEF Shape, TypeOK, WordTypes
  <2>2. CASE LoadResults(c)
    <3>1. ResultWord(c) \in Word
      BY <1>2, <1>3 DEF ResultWord, Shape, TypeOK, Regs
    <3>2. out' = [out EXCEPT ![c] = ResultWord(c)] /\ UNCHANGED <<regs, stackBuf>>
      BY <2>2 DEF LoadResults, dataVars
    <3>3. QED
      BY <1>1, <3>1, <3>2 DEF Shape, TypeOK, WordTypes
  <2>3. QED
    BY <2>1, <2>2
<1>5. inv' = [inv EXCEPT ![s] = inv[s]] /\ frames' = [frames EXCEPT ![c] = frames[c]]
  BY <1>1 DEF Shape, TypeOK
<1>6. QED
  BY <1>1, <1>2, <1>4, <1>5, StackStep

\* The end of a call, with its callState back in the pool or abandoned.
LEMMA EndShape ==
  ASSUME Shape, NEW c \in Calls, PutState(c) \/ Return(c) \/ Abandon(c)
  PROVE  Shape'
<1>1. CASE PutState(c)
  <2>1. /\ pc[c] \in Working /\ pc' = [pc EXCEPT ![c] = "put"]
        /\ pool' = pool \cup {own[c]}
        /\ own' = [own EXCEPT ![c] = NoState]
        /\ UNCHANGED <<regs, saved, stackBuf, inv, kind, frames, target, runs,
                       out, heap, rewritten>>
    BY <1>1 DEF PutState, Goto, Working
  <2>2. own[c] \in States /\ \A d \in Calls : own[d] = own[c] => d = c
    BY <2>1, WorkingFacts
  <2>3. TypeOK'
    BY <2>1, <2>2 DEF Shape, TypeOK, Labels, Top
  <2>4. ExclusiveState'
    BY <2>1, <2>2 DEF Shape, TypeOK, ExclusiveState, InFlight
  <2>5. Ownership' /\ Stacks'
    BY <2>1, <2>2 DEF Shape, TypeOK, Ownership, Stacks, Working, Top
  <2>6. QED
    BY <2>3, <2>4, <2>5 DEF Shape
<1>2. CASE Return(c)
  <2>1. /\ pc[c] = "put" /\ pc' = [pc EXCEPT ![c] = "done"]
        /\ heap' \subseteq heap
        /\ UNCHANGED <<pool, regs, saved, stackBuf, inv, kind, own, frames, target,
                       runs, out, rewritten>>
    BY <1>2 DEF Return, Goto, dataVars
  <2>2. TypeOK' /\ ExclusiveState' /\ Ownership' /\ Stacks'
    BY <2>1 DEF Shape, TypeOK, Labels, Top, ExclusiveState, InFlight, Ownership,
                Stacks, Working
  <2>3. QED
    BY <2>2 DEF Shape
<1>3. CASE Abandon(c)
  <2> DEFINE s == own[c]
  <2>1. /\ pc[c] \in Working /\ pc' = [pc EXCEPT ![c] = "panicked"]
        /\ own' = [own EXCEPT ![c] = NoState]
        /\ regs' = [regs EXCEPT ![s] = FreshRegs]
        /\ saved' = [saved EXCEPT ![s] = FreshSaved]
        /\ stackBuf' = [stackBuf EXCEPT ![s] = Zero]
        /\ inv' = [inv EXCEPT ![s] = NewInvocation]
        /\ heap' \subseteq heap
        /\ UNCHANGED <<pool, kind, frames, target, runs, out, rewritten>>
    BY <1>3 DEF Abandon, Goto, Working
  <2>2. s \in States /\ \A d \in Calls : own[d] = s => d = c
    BY <2>1, WorkingFacts
  <2>3. TypeOK'
    <3>1. /\ regs' \in [States -> RegBuf] /\ saved' \in [States -> Snapshot]
          /\ stackBuf' \in [States -> Word] /\ inv' \in [States -> Invocation]
      BY <2>1, FreshFacts, NewInvocationType, WordFacts DEF Shape, TypeOK
    <3>2. QED
      BY <2>1, <3>1 DEF Shape, TypeOK, Labels, Top
  <2>4. ExclusiveState' /\ Ownership'
    BY <2>1, <2>2 DEF Shape, TypeOK, ExclusiveState, InFlight, Ownership, Working
  <2>5. Stacks'
    <3>1. ASSUME NEW d \in Calls, pc'[d] \in Working
          PROVE  d # c /\ pc[d] \in Working /\ inv'[own'[d]] = inv[own[d]]
      BY <2>1, <2>2, <3>1 DEF Shape, TypeOK, Ownership, Working
    <3>2. QED
      BY <2>1, <3>1 DEF Shape, TypeOK, Stacks, Top
  <2>6. QED
    BY <2>3, <2>4, <2>5 DEF Shape
<1>4. QED
  BY <1>1, <1>2, <1>3

\* A collection drops callStates no call owns.
LEMMA CollectShape ==
  ASSUME Shape, Collect
  PROVE  Shape'
<1>1. PICK dropped \in SUBSET pool :
        /\ pool' = pool \ dropped
        /\ regs' = [s \in States |-> IF s \in dropped THEN FreshRegs ELSE regs[s]]
        /\ saved' = [s \in States |-> IF s \in dropped THEN FreshSaved ELSE saved[s]]
        /\ stackBuf' = [s \in States |-> IF s \in dropped THEN Zero ELSE stackBuf[s]]
        /\ inv' = [s \in States |-> IF s \in dropped THEN NewInvocation ELSE inv[s]]
  BY DEF Collect
<1>2. /\ heap' \subseteq heap
      /\ UNCHANGED <<pc, kind, own, frames, target, runs, out, rewritten>>
  BY DEF Collect, callVars
<1>3. TypeOK'
  <2>1. regs' \in [States -> RegBuf] /\ saved' \in [States -> Snapshot]
    BY <1>1, FreshFacts DEF Shape, TypeOK
  <2>2. stackBuf' \in [States -> Word] /\ inv' \in [States -> Invocation]
    BY <1>1, NewInvocationType, WordFacts DEF Shape, TypeOK
  <2>3. QED
    BY <1>1, <1>2, <2>1, <2>2 DEF Shape, TypeOK, Top
<1>4. ExclusiveState' /\ Ownership'
  BY <1>1, <1>2 DEF Shape, ExclusiveState, InFlight, Ownership
<1>5. Stacks'
  <2>1. \A d \in Calls : pc[d] \in Working => own[d] \in States /\ own[d] \notin pool
    BY WorkingFacts
  <2>2. \A d \in Calls : pc[d] \in Working => inv'[own[d]] = inv[own[d]]
    BY <1>1, <2>1
  <2>3. QED
    BY <1>2, <2>2 DEF Shape, Stacks, Top
<1>6. QED
  BY <1>3, <1>4, <1>5 DEF Shape

\* The shape is inductive.
LEMMA NextShape == Shape /\ [Next]_vars => Shape'
<1> SUFFICES ASSUME Shape, [Next]_vars PROVE Shape'
  OBVIOUS
<1>1. ASSUME NEW c \in Calls, Step(c) PROVE Shape'
  BY <1>1, EnterShape, GetStateShape, ArgsShape, InterceptorShape, CallTargetShape,
     TargetReturnsShape, FrameShape, ResultsShape, EndShape DEF Step
<1>2. CASE Collect
  BY <1>2, CollectShape
<1>3. CASE UNCHANGED vars
  BY <1>3 DEF vars, dataVars, callVars, Shape, TypeOK, ExclusiveState, InFlight,
              Ownership, Stacks, Top
<1>4. QED
  BY <1>1, <1>2, <1>3 DEF Next

\* Types, for any number of calls and callStates and any chain.
THEOREM TypeCorrect == Spec => []TypeOK
<1>1. Shape => TypeOK
  BY DEF Shape
<1>2. QED
  BY <1>1, InitShape, NextShape, PTL DEF Spec

\* No callState is ever worked on by two calls, or handed out by the pool while
\* one call works on it (statePool.Get and Put in Dispatch).
THEOREM Exclusive == Spec => []ExclusiveState
<1>1. Shape => ExclusiveState
  BY DEF Shape
<1>2. QED
  BY <1>1, InitShape, NextShape, PTL DEF Spec

-----------------------------------------------------------------------------
(* What a step of one call leaves to the others *)

\* A step of another call neither moves this one nor writes its callState, and
\* frees none of its objects.
Untouched(d) ==
  /\ pc'[d] = pc[d] /\ kind'[d] = kind[d] /\ own'[d] = own[d]
  /\ frames'[d] = frames[d] /\ target'[d] = target[d]
  /\ runs'[d] = runs[d] /\ out'[d] = out[d] /\ rewritten'[d] = rewritten[d]
  /\ pc[d] \in Working =>
       /\ regs'[own[d]] = regs[own[d]] /\ saved'[own[d]] = saved[own[d]]
       /\ stackBuf'[own[d]] = stackBuf[own[d]] /\ inv'[own[d]] = inv[own[d]]
  /\ \A o \in heap : o.call = d => o \in heap'

\* The callStates of other calls are other callStates, by Exclusive.
LEMMA OthersUntouched ==
  ASSUME Shape, NEW c \in Calls, Step(c), NEW d \in Calls, d # c
  PROVE  Untouched(d)
<1>1. /\ pc'[d] = pc[d] /\ kind'[d] = kind[d] /\ own'[d] = own[d]
      /\ frames'[d] = frames[d] /\ target'[d] = target[d]
      /\ runs'[d] = runs[d] /\ out'[d] = out[d] /\ rewritten'[d] = rewritten[d]
  <2> USE DEF Shape, TypeOK, Goto, callVars, ReturnFrom
  <2>1. CASE Enter(c) \/ GetState(c) \/ ReadArgs(c) \/ SetArg(c)
    BY <2>1 DEF Enter, GetState, ReadArgs, SetArg
  <2>2. CASE ProceedToInterceptor(c) \/ ProceedToMock(c) \/ ProceedFast(c) \/ ProceedReflect(c)
    BY <2>2 DEF ProceedToInterceptor, ProceedToMock, ProceedFast, ProceedReflect
  <2>3. CASE TargetReturns(c) \/ TargetPanics(c) \/ ReturnProceeded(c) \/ ReturnOwn(c)
    BY <2>3 DEF TargetReturns, TargetPanics, ReturnProceeded, ReturnOwn
  <2>4. CASE InterceptorPanics(c) \/ Unwind(c) \/ Recover(c) \/ Abandon(c)
    BY <2>4 DEF InterceptorPanics, Unwind, Recover, Abandon
  <2>5. CASE StoreResults(c) \/ LoadResults(c) \/ PutState(c) \/ Return(c)
    BY <2>5 DEF StoreResults, LoadResults, PutState, Return
  <2>6. QED
    BY <2>1, <2>2, <2>3, <2>4, <2>5 DEF Step
<1>2. ASSUME NEW t \in States, t = own[d], pc[d] \in Working
      PROVE  /\ regs'[t] = regs[t] /\ saved'[t] = saved[t]
             /\ stackBuf'[t] = stackBuf[t] /\ inv'[t] = inv[t]
  <2>1. t # own[c] /\ t \notin pool \cup Unmade
    BY <1>2, WorkingFacts, CallPathAssumption DEF Unmade, Owned, NoState
  <2> USE <1>2, <2>1 DEF Shape, TypeOK, dataVars, ReturnFrom
  <2>2. CASE Enter(c) \/ GetState(c)
    BY <2>2 DEF Enter, GetState
  <2>3. CASE ReadArgs(c) \/ SetArg(c) \/ ProceedReflect(c)
    BY <2>3, Zenon DEF ReadArgs, SetArg, ProceedReflect
  <2>4. CASE ProceedToInterceptor(c) \/ ProceedToMock(c)
    BY <2>4 DEF ProceedToInterceptor, ProceedToMock
  <2>5. CASE ProceedFast(c)
    BY <2>5 DEF ProceedFast
  <2>6. CASE TargetReturns(c)
    BY <2>6 DEF TargetReturns
  <2>7. CASE \/ TargetPanics(c) \/ ReturnProceeded(c) \/ ReturnOwn(c)
             \/ InterceptorPanics(c) \/ Unwind(c) \/ Recover(c)
    BY <2>7 DEF TargetPanics, ReturnProceeded, ReturnOwn, InterceptorPanics, Unwind, Recover
  <2>8. CASE Abandon(c)
    BY <2>8 DEF Abandon
  <2>9. CASE StoreResults(c)
    BY <2>9 DEF StoreResults, ToStack, ToRegister
  <2>10. CASE LoadResults(c) \/ PutState(c) \/ Return(c)
    BY <2>10 DEF LoadResults, PutState, Return
  <2>11. QED
    BY <2>2, <2>3, <2>4, <2>5, <2>6, <2>7, <2>8, <2>9, <2>10 DEF Step
<1>3. \A o \in heap : o.call = d => o \in heap'
  <2>1. \/ heap \subseteq heap' \/ heap' = heap \ Forget(c)
        \/ heap' = heap \ (Forget(c) \ {out[c]})
    BY DEF Step, Enter, GetState, ReadArgs, SetArg, ProceedToInterceptor,
           ProceedToMock, ProceedFast, ProceedReflect, TargetReturns, TargetPanics,
           ReturnProceeded, ReturnOwn, InterceptorPanics, Unwind, Recover, Abandon,
           StoreResults, LoadResults, PutState, Return
  <2>2. \A o \in heap : o.call = d => o \notin Forget(c)
    BY DEF Forget
  <2>3. QED
    BY <2>1, <2>2
<1>4. pc[d] \in Working => own[d] \in States
  BY WorkingFacts
<1>5. QED
  BY <1>1, <1>2, <1>3, <1>4 DEF Untouched

-----------------------------------------------------------------------------
(* The arguments *)

\* where argRegs finds the argument registers
Source(s) ==
  [ints |-> IF inv[s].hasSnap THEN saved[s].ints ELSE regs[s].ints,
   ptrs |-> IF inv[s].hasSnap THEN saved[s].ptrs ELSE regs[s].ptrs]

\* Before the snapshot the live registers hold the caller's argument and after
\* it the snapshot does, with the mirror; a described value never outlives the
\* registers it describes; and the fast path always leaves a snapshot behind.
ArgsOf(c) ==
  LET s == own[c] IN
  /\ pc[c] \in {"idle", "entered"} => ~rewritten[c]
  /\ pc[c] \in {"idle", "entered", "running", "target", "unwinding"} => Wanted(c) \in heap
  /\ pc[c] \in {"running", "target", "unwinding"} =>
       /\ Source(s).ints[1] = Arg(c) /\ Source(s).ptrs[1] = Arg(c)
       /\ IF rewritten[c] THEN inv[s].args = New(c)
          ELSE inv[s].args \in {Nothing, IF inv[s].hasSnap THEN InSaved ELSE InRegs}
  /\ pc[c] = "target" =>
       /\ target[c].regs = Registers(TargetData, Wanted(c))
       /\ target[c].fast => inv[s].hasSnap

ArgsInv == Shape /\ \A c \in Calls : ArgsOf(c)

\* ArgsInv holds before any call is made.
LEMMA InitArgs == Init => ArgsInv
<1>1. ASSUME Init, NEW c \in Calls PROVE ArgsOf(c)
  BY <1>1 DEF Init, ArgsOf, Wanted
<1>2. QED
  BY <1>1, InitShape DEF ArgsInv

\* Steps of other calls leave the arguments of a call as they are.
LEMMA OthersArgs ==
  ASSUME Shape, NEW c \in Calls, ArgsOf(c), Untouched(c)
  PROVE  ArgsOf(c)'
<1>1. Wanted(c)' = Wanted(c) /\ Wanted(c).call = c
  BY DEF Untouched, Wanted, New, Arg, Obj
<1>2. pc[c] \in {"running", "target", "unwinding"} =>
        /\ pc[c] \in Working /\ Source(own[c])' = Source(own[c])
  BY DEF Untouched, Working, Source
<1>3. QED
  BY <1>1, <1>2 DEF Untouched, ArgsOf

\* A call enters, and gets a callState with its arguments in both places.
LEMMA GetStateArgs ==
  ASSUME Shape, NEW c \in Calls, ArgsOf(c), Enter(c) \/ GetState(c)
  PROVE  ArgsOf(c)'
<1>1. CASE Enter(c)
  BY <1>1 DEF Enter, Goto, dataVars, ArgsOf, Wanted, Shape, TypeOK
<1>2. CASE GetState(c)
  <2>1. PICK s \in pool \cup Unmade :
          /\ own' = [own EXCEPT ![c] = s]
          /\ regs' = [regs EXCEPT ![s] = [ints |-> Registers(Receiver, Arg(c)),
                                          ptrs |-> Registers(Receiver, Arg(c)),
                                          stackPtr |-> Zero]]
          /\ inv' = [inv EXCEPT ![s] = NewInvocation]
    BY <1>2 DEF GetState
  <2>2. /\ pc[c] = "entered" /\ pc'[c] = "running"
        /\ UNCHANGED <<heap, rewritten>>
    BY <1>2 DEF GetState, Goto, Shape, TypeOK
  <2>3. s \in States /\ own'[c] = s
    BY <2>1 DEF Unmade, Shape, TypeOK
  <2>4. /\ ~inv'[s].hasSnap /\ inv'[s].args = Nothing
        /\ regs'[s].ints[1] = Arg(c) /\ regs'[s].ptrs[1] = Arg(c)
    BY <2>1, <2>3 DEF NewInvocation, Registers, Regs, Shape, TypeOK
  <2>5. Source(s)'.ints[1] = Arg(c) /\ Source(s)'.ptrs[1] = Arg(c)
    BY <2>4 DEF Source
  <2>6. QED
    BY <2>2, <2>3, <2>4, <2>5 DEF ArgsOf, Wanted
<1>3. QED
  BY <1>1, <1>2

\* An interceptor reads the arguments where they are, or rewrites one.
LEMMA ReadWriteArgs ==
  ASSUME Shape, NEW c \in Calls, ArgsOf(c), ReadArgs(c) \/ SetArg(c)
  PROVE  ArgsOf(c)'
<1> DEFINE s == own[c]
<1>1. /\ pc[c] = "running" /\ pc[c] \in Working /\ s \in States /\ inv[s] \in Invocation
      /\ UNCHANGED <<regs, saved, pc, own, target>>
  BY WorkingFacts DEF ReadArgs, SetArg, InInterceptor, Working, callVars
<1>2. CASE ReadArgs(c)
  <2> DEFINE i == [inv[s] EXCEPT !.args = Materialised(s)]
  <2>1. inv' = [inv EXCEPT ![s] = i]
    BY <1>2, Zenon DEF ReadArgs
  <2>2. inv[s].args = Nothing /\ UNCHANGED <<heap, rewritten>>
    BY <1>2 DEF ReadArgs, callVars
  <2>3. ~rewritten[c] /\ Materialised(s) = (IF inv[s].hasSnap THEN InSaved ELSE InRegs)
    BY <1>1, <2>2, WordFacts DEF ArgsOf, Materialised
  <2>4. i.hasSnap = inv[s].hasSnap /\ i.args = Materialised(s)
    BY <1>1, <2>3, InvocationFacts, Zenon DEF ArgsField
  <2> HIDE DEF i
  <2>5. inv'[s] = i
    BY <1>1, <2>1 DEF Shape, TypeOK
  <2>6. Source(s)' = Source(s)
    BY <1>1, <2>4, <2>5 DEF Source
  <2>7. QED
    BY <1>1, <2>2, <2>3, <2>4, <2>5, <2>6 DEF ArgsOf, Wanted
<1>3. CASE SetArg(c)
  <2> DEFINE i == [inv[s] EXCEPT !.args = New(c)]
  <2>1. inv' = [inv EXCEPT ![s] = i]
    BY <1>3, Zenon DEF SetArg
  <2>2. heap' = heap \cup {New(c)} /\ rewritten'[c]
    BY <1>3 DEF SetArg, Shape, TypeOK
  <2>3. i.hasSnap = inv[s].hasSnap /\ i.args = New(c)
    BY <1>1, InvocationFacts, Zenon DEF ArgsField
  <2> HIDE DEF i
  <2>4. inv'[s] = i
    BY <1>1, <2>1 DEF Shape, TypeOK
  <2>5. Source(s)' = Source(s)
    BY <1>1, <2>3, <2>4 DEF Source
  <2>6. QED
    BY <1>1, <2>2, <2>3, <2>4, <2>5 DEF ArgsOf, Wanted
<1>4. QED
  BY <1>2, <1>3

\* Entering an interceptor or a mock touches no argument.
LEMMA ChainArgs ==
  ASSUME Shape, NEW c \in Calls, ArgsOf(c), ProceedToInterceptor(c) \/ ProceedToMock(c)
  PROVE  ArgsOf(c)'
<1> DEFINE s == own[c]
<1>1. /\ pc[c] = "running" /\ pc[c] \in Working /\ s \in States /\ inv[s] \in Invocation
      /\ UNCHANGED <<regs, saved, pc, own, target, heap, rewritten>>
  BY WorkingFacts DEF ProceedToInterceptor, ProceedToMock, MayProceed, Working, dataVars
<1>2. inv'[s].hasSnap = inv[s].hasSnap /\ inv'[s].args = inv[s].args
  <2>1. CASE ProceedToInterceptor(c)
    <3> DEFINE i == [inv[s] EXCEPT !.next = inv[s].next + 1]
    <3>1. inv' = [inv EXCEPT ![s] = i]
      BY <2>1, Zenon DEF ProceedToInterceptor
    <3>2. inv[s].next + 1 \in 0..ChainLen
      BY <1>1, <2>1, CallPathAssumption DEF ProceedToInterceptor, ChainLeft, Invocation
    <3>3. i.hasSnap = inv[s].hasSnap /\ i.args = inv[s].args
      BY <1>1, <3>2, NextFacts, Zenon
    <3> HIDE DEF i
    <3>4. QED
      BY <1>1, <3>1, <3>3 DEF Shape, TypeOK
  <2>2. CASE ProceedToMock(c)
    BY <2>2 DEF ProceedToMock, dataVars
  <2>3. QED
    BY <2>1, <2>2
<1>3. Source(s)' = Source(s)
  BY <1>1, <1>2 DEF Source
<1>4. QED
  BY <1>1, <1>2, <1>3 DEF ArgsOf, Wanted

\* The fast path calls the target with the argument of the snapshot, or with
\* the live one it snapshots first.
LEMMA FastArgs ==
  ASSUME Shape, NEW c \in Calls, ArgsOf(c), ProceedFast(c)
  PROVE  ArgsOf(c)'
<1> DEFINE s == own[c]
           ints == Rebound(ArgRegs(s))
           i == [inv[s] EXCEPT !.hasSnap = TRUE]
<1>1. /\ pc[c] = "running" /\ pc[c] \in Working /\ s \in States
      /\ inv[s] \in Invocation /\ regs[s] \in RegBuf /\ saved[s] \in Snapshot
  BY WorkingFacts DEF ProceedFast, MayProceed, Working, Shape, TypeOK
<1>2. /\ saved' = IF inv[s].hasSnap THEN saved
                  ELSE [saved EXCEPT ![s] = [ints |-> regs[s].ints, ptrs |-> regs[s].ptrs]]
      /\ target' = [target EXCEPT ![c] = [regs |-> ints, fast |-> TRUE]]
      /\ pc' = [pc EXCEPT ![c] = "target"]
      /\ inv[s].args = Nothing
      /\ UNCHANGED <<own, heap, rewritten>>
  BY DEF ProceedFast, OnFastPath, Goto
<1>3. inv' = [inv EXCEPT ![s] = i]
  BY Zenon DEF ProceedFast
<1>4. i.hasSnap /\ i.args = inv[s].args
  BY <1>1, FlagFacts, Zenon
<1> HIDE DEF i
<1>5. inv'[s] = i
  BY <1>1, <1>3 DEF Shape, TypeOK
<1>6. ~rewritten[c] /\ Source(s).ints[1] = Arg(c) /\ Source(s).ptrs[1] = Arg(c)
  BY <1>1, <1>2, WordFacts DEF ArgsOf
<1>7. saved'[s].ints[1] = Arg(c) /\ saved'[s].ptrs[1] = Arg(c)
  <2>1. CASE inv[s].hasSnap
    BY <1>2, <1>6, <2>1 DEF Source
  <2>2. CASE ~inv[s].hasSnap
    <3>1. saved'[s] = [ints |-> regs[s].ints, ptrs |-> regs[s].ptrs]
      BY <1>1, <1>2, <2>2 DEF Shape, TypeOK
    <3>2. QED
      BY <1>6, <2>2, <3>1 DEF Source
  <2>3. QED
    BY <2>1, <2>2
<1>8. Source(s)'.ints[1] = Arg(c) /\ Source(s)'.ptrs[1] = Arg(c)
  BY <1>2, <1>4, <1>5, <1>7 DEF Source
<1>9. ints = Registers(TargetData, Arg(c))
  <2>1. ArgRegs(s) \in [Regs -> Word] /\ ArgRegs(s)[1] = Arg(c)
    BY <1>1, <1>6 DEF ArgRegs, Source, RegBuf, Snapshot
  <2>2. QED
    BY <2>1 DEF Rebound, Registers, Regs
<1> HIDE DEF ints
<1>10. target'[c] = [regs |-> ints, fast |-> TRUE] /\ pc'[c] = "target"
  BY <1>2 DEF Shape, TypeOK
<1>11. QED
  BY <1>1, <1>2, <1>4, <1>5, <1>6, <1>8, <1>9, <1>10 DEF ArgsOf, Wanted

\* Reflection calls the target with the argument Args() shows.
LEMMA ReflectArgs ==
  ASSUME Shape, NEW c \in Calls, ArgsOf(c), ProceedReflect(c)
  PROVE  ArgsOf(c)'
<1> DEFINE s == own[c]
           i == [inv[s] EXCEPT !.args = Materialised(s)]
           tc == [regs |-> Registers(TargetData, ArgSeen(s)), fast |-> FALSE]
<1>1. /\ pc[c] = "running" /\ pc[c] \in Working /\ s \in States /\ inv[s] \in Invocation
  BY WorkingFacts DEF ProceedReflect, MayProceed, Working, Shape, TypeOK
<1>2. /\ target' = [target EXCEPT ![c] = tc]
      /\ pc' = [pc EXCEPT ![c] = "target"]
      /\ UNCHANGED <<regs, saved, own, heap, rewritten>>
  BY DEF ProceedReflect, Goto
<1>3. inv' = [inv EXCEPT ![s] = i]
  BY Zenon DEF ProceedReflect
<1>4. IF rewritten[c] THEN Materialised(s) = New(c)
      ELSE Materialised(s) = IF inv[s].hasSnap THEN InSaved ELSE InRegs
  BY <1>1, WordFacts DEF ArgsOf, Materialised
<1>5. ArgSeen(s) = Wanted(c)
  BY <1>1, <1>4, WordFacts DEF ArgsOf, ArgSeen, Wanted, Source
<1>6. i.hasSnap = inv[s].hasSnap /\ i.args = Materialised(s)
  <2>1. Materialised(s) \in ArgsField
    BY <1>4 DEF ArgsField
  <2>2. QED
    BY <1>1, <2>1, InvocationFacts, Zenon
<1> HIDE DEF i, tc
<1>7. inv'[s] = i /\ target'[c] = tc /\ pc'[c] = "target"
  BY <1>1, <1>2, <1>3 DEF Shape, TypeOK
<1>8. Source(s)' = Source(s) /\ Wanted(c)' = Wanted(c)
  BY <1>2, <1>6, <1>7 DEF Source, Wanted
<1>9. tc.regs = Registers(TargetData, Wanted(c)) /\ ~tc.fast
  BY <1>5 DEF tc
<1>10. QED
  BY <1>1, <1>2, <1>4, <1>6, <1>7, <1>8, <1>9 DEF ArgsOf

\* Results over the live registers do no harm: the fast path left a snapshot.
LEMMA TargetReturnsArgs ==
  ASSUME Shape, NEW c \in Calls, ArgsOf(c), TargetReturns(c)
  PROVE  ArgsOf(c)'
<1> DEFINE s == own[c]
<1>1. /\ pc[c] = "target" /\ pc[c] \in Working /\ pc' = [pc EXCEPT ![c] = "running"]
      /\ heap \subseteq heap'
      /\ UNCHANGED <<saved, own, rewritten>>
  BY DEF TargetReturns, Goto, Working
<1>2. s \in States /\ inv[s] \in Invocation
  BY <1>1, WorkingFacts
<1>3. CASE target[c].fast
  <2> DEFINE i == [inv[s] EXCEPT !.direct = TRUE]
  <2>1. inv' = [inv EXCEPT ![s] = i]
    BY <1>3, Zenon DEF TargetReturns
  <2>2. i.hasSnap = inv[s].hasSnap /\ i.args = inv[s].args
    BY <1>2, FlagFacts, Zenon
  <2> HIDE DEF i
  <2>3. inv'[s] = i
    BY <1>2, <2>1 DEF Shape, TypeOK
  <2>4. inv[s].hasSnap
    BY <1>1, <1>3 DEF ArgsOf
  <2>5. Source(s)' = Source(s)
    BY <1>1, <2>2, <2>3, <2>4 DEF Source
  <2>6. QED
    BY <1>1, <2>2, <2>3, <2>5 DEF ArgsOf, Wanted, Shape, TypeOK
<1>4. CASE ~target[c].fast
  <2>1. UNCHANGED <<regs, inv>>
    BY <1>4, Zenon DEF TargetReturns
  <2>2. Source(s)' = Source(s)
    BY <1>1, <2>1 DEF Source
  <2>3. QED
    BY <1>1, <2>1, <2>2 DEF ArgsOf, Wanted, Shape, TypeOK
<1>5. QED
  BY <1>3, <1>4

\* Leaving frames touches no argument, and after the last one nobody asks.
LEMMA FrameArgs ==
  ASSUME Shape, NEW c \in Calls, ArgsOf(c),
         ReturnProceeded(c) \/ ReturnOwn(c) \/ TargetPanics(c)
           \/ InterceptorPanics(c) \/ Unwind(c) \/ Recover(c)
  PROVE  ArgsOf(c)'
<1>1. /\ pc[c] \in {"running", "target", "unwinding"}
      /\ pc'[c] \in {"running", "unwinding"}
      /\ heap \subseteq heap'
      /\ UNCHANGED <<regs, saved, inv, own, rewritten>>
  BY DEF ReturnProceeded, ReturnOwn, TargetPanics, InterceptorPanics, Unwind,
         Recover, InInterceptor, ReturnFrom, Goto, dataVars, Shape, TypeOK
<1>2. Source(own[c])' = Source(own[c])
  BY <1>1 DEF Source
<1>3. QED
  BY <1>1, <1>2 DEF ArgsOf, Wanted

\* Once results are stored, nothing is claimed of a call's argument any more.
LEMMA EndArgs ==
  ASSUME Shape, NEW c \in Calls,
         StoreResults(c) \/ LoadResults(c) \/ PutState(c) \/ Return(c) \/ Abandon(c)
  PROVE  ArgsOf(c)'
<1>1. pc'[c] \in {"stored", "loaded", "put", "done", "panicked"}
  BY DEF StoreResults, LoadResults, PutState, Return, Abandon, Goto, Shape, TypeOK
<1>2. QED
  BY <1>1 DEF ArgsOf

\* A collection finds the argument: in prePtrs, in the mirror of the live
\* registers or of the snapshot, or in c.args.
LEMMA CollectArgs ==
  ASSUME Shape, NEW c \in Calls, ArgsOf(c), Collect
  PROVE  ArgsOf(c)'
<1> DEFINE s == own[c]
<1>1. heap' = heap \cap Reachable /\ UNCHANGED <<pc, own, target, rewritten>>
  BY DEF Collect, callVars
<1>2. pc[c] \in Working => s \in States /\ s \notin pool /\ s \in Owned
  BY WorkingFacts, CallPathAssumption DEF Owned, NoState
<1>3. pc[c] \in Working =>
        regs'[s] = regs[s] /\ saved'[s] = saved[s] /\ inv'[s] = inv[s]
  BY <1>2 DEF Collect
<1>4. OnStack(c) \subseteq Reachable
      /\ (pc[c] \in Working => Scanned(s) \subseteq Reachable)
  <2>1. OnStack(c) \in {OnStack(x) : x \in Calls}
    OBVIOUS
  <2>2. pc[c] \in Working => Scanned(s) \in {Scanned(x) : x \in pool \cup Owned}
    BY <1>2
  <2> HIDE DEF s
  <2>3. QED
    BY <2>1, <2>2, Zenon DEF Reachable
<1>5. CASE pc[c] \in {"idle", "entered"}
  <2>1. Arg(c) \in OnStack(c) /\ Wanted(c) = Arg(c)
    BY <1>5 DEF OnStack, PrePtrs, ArgsOf, Wanted
  <2>2. QED
    BY <1>1, <1>4, <1>5, <2>1 DEF ArgsOf, Wanted
<1>6. CASE pc[c] \in {"running", "target", "unwinding"}
  <2>1. pc[c] \in Working
    BY <1>6 DEF Working
  <2>2. Wanted(c) \in Scanned(s)
    <3>1. CASE rewritten[c]
      BY <1>6, <3>1 DEF ArgsOf, Wanted, Scanned
    <3>2. CASE ~rewritten[c]
      <4>1. Source(s).ptrs[1] \in Scanned(s)
        BY DEF Source, Scanned, Regs
      <4>2. QED
        BY <1>6, <3>2, <4>1 DEF ArgsOf, Wanted
    <3>3. QED
      BY <3>1, <3>2
  <2>3. Wanted(c) \in heap' /\ Wanted(c)' = Wanted(c)
    BY <1>1, <1>4, <1>6, <2>1, <2>2 DEF ArgsOf, Wanted
  <2>4. Source(s)' = Source(s)
    BY <1>1, <1>3, <2>1 DEF Source
  <2>5. QED
    BY <1>1, <1>3, <1>6, <2>1, <2>3, <2>4 DEF ArgsOf
<1>7. CASE pc[c] \notin {"idle", "entered", "running", "target", "unwinding"}
  BY <1>1, <1>7 DEF ArgsOf
<1>8. QED
  BY <1>5, <1>6, <1>7

\* ArgsInv is inductive: no step of Dispatch, Proceed or the collector breaks it.
LEMMA NextArgs == ArgsInv /\ [Next]_vars => ArgsInv'
<1> SUFFICES ASSUME ArgsInv, [Next]_vars PROVE ArgsInv'
  OBVIOUS
<1>1. Shape /\ Shape'
  BY NextShape DEF ArgsInv
<1>2. ASSUME NEW d \in Calls PROVE ArgsOf(d)'
  <2>1. ArgsOf(d)
    BY DEF ArgsInv
  <2>2. ASSUME NEW c \in Calls, Step(c), c # d PROVE ArgsOf(d)'
    BY <1>1, <2>1, <2>2, OthersUntouched, OthersArgs
  <2>3. CASE Step(d)
    BY <1>1, <2>1, <2>3, GetStateArgs, ReadWriteArgs, ChainArgs, FastArgs,
       ReflectArgs, TargetReturnsArgs, FrameArgs, EndArgs DEF Step
  <2>4. CASE Collect
    BY <1>1, <2>1, <2>4, CollectArgs
  <2>5. CASE UNCHANGED vars
    BY <2>1, <2>5 DEF vars, dataVars, callVars, ArgsOf, Wanted, Source
  <2>6. QED
    BY <2>2, <2>3, <2>4, <2>5 DEF Next
<1>3. QED
  BY <1>1, <1>2 DEF ArgsInv

\* The target always sees itself as receiver and the caller's argument, or the
\* one an interceptor put in its place, and so does a reader of Args().
THEOREM ArgsAlwaysPreserved == Spec => []ArgsPreserved
<1>1. ArgsInv => ArgsPreserved
  <2>1. ASSUME ArgsInv, NEW c \in Calls, pc[c] \in {"running", "target", "unwinding"}
        PROVE  ArgSeen(own[c]) = Wanted(c)
    BY <2>1, WordFacts DEF ArgsInv, ArgsOf, ArgSeen, Materialised, Wanted, Source
  <2>2. QED
    BY <2>1 DEF ArgsInv, ArgsOf, ArgsPreserved
<1>2. QED
  BY <1>1, InitArgs, NextArgs, PTL DEF Spec

\* No collection frees the argument while an interceptor or the target may use it.
THEOREM ArgsAlwaysAlive == Spec => []ArgsAlive
<1>1. ArgsInv => ArgsAlive
  BY DEF ArgsInv, ArgsOf, ArgsAlive
<1>2. QED
  BY <1>1, InitArgs, NextArgs, PTL DEF Spec

-----------------------------------------------------------------------------
(* The results *)

\* a result of this call that no collection has freed, or the nil pointer
Kept(c, w) == w = Zero \/ (w \in heap /\ w.call = c)

\* What Proceed handed the frame on top is what it means, or is left in the
\* registers by the fast path.
Carried(c) ==
  LET s == own[c]
      f == TopFrame(c)
  IN \/ f.rets = Nothing
     \/ f.rets = Nil /\ f.means = Zero
     \/ f.rets = Nil /\ inv[s].direct /\ regs[s].ints[0] = f.means
     \/ f.rets = f.means /\ Kept(c, f.rets)

\* the result word and the pointer mirrored next to it
Mirrored(c) ==
  LET s == own[c]
  IN IF kind[c] = "stack" THEN regs[s].stackPtr = stackBuf[s]
     ELSE regs[s].ptrs[0] = regs[s].ints[0]

Meant(c, w) ==
  frames[c][1].means # Zero \/ kind[c] = "mock" => w = frames[c][1].means

ResultsOf(c) ==
  LET s == own[c] IN
  /\ pc[c] \in Working /\ inv[s].direct => kind[c] = "static"
  /\ pc[c] = "target" /\ target[c].fast => kind[c] = "static"
  /\ pc[c] = "running" => Carried(c)
  /\ pc[c] \in {"stored", "loaded"} =>
       /\ Top(c) = 1
       /\ Meant(c, ResultWord(c))
       /\ ~StoredDirectly(c) => Mirrored(c) /\ Kept(c, ResultWord(c))
  /\ pc[c] = "loaded" => out[c] = ResultWord(c)
  /\ pc[c] \in {"put", "done"} => Meant(c, out[c])

ResultsInv == Shape /\ \A c \in Calls : ResultsOf(c)

\* ResultsInv holds before any call is made.
LEMMA InitResults == Init => ResultsInv
<1>1. ASSUME Init, NEW c \in Calls PROVE ResultsOf(c)
  BY <1>1 DEF Init, ResultsOf, Working
<1>2. QED
  BY <1>1, InitShape DEF ResultsInv

\* Steps of other calls leave the results of a call as they are.
LEMMA OthersResults ==
  ASSUME Shape, NEW c \in Calls, ResultsOf(c), Untouched(c)
  PROVE  ResultsOf(c)'
<1>1. \A w : Meant(c, w)' <=> Meant(c, w)
  BY DEF Untouched, Meant
<1>2. TopFrame(c)' = TopFrame(c) /\ Top(c)' = Top(c)
  BY DEF Untouched, TopFrame, Top
<1>3. CASE pc[c] = "running"
  <2>1. pc[c] \in Working
    BY <1>3 DEF Working
  <2>2. Carried(c) => Carried(c)'
    BY <1>2, <2>1 DEF Carried, Kept, Untouched
  <2>3. QED
    BY <1>3, <2>1, <2>2 DEF ResultsOf, Untouched
<1>4. CASE pc[c] \in {"stored", "loaded"}
  <2>1. pc[c] \in Working
    BY <1>4 DEF Working
  <2>2. /\ ResultWord(c)' = ResultWord(c)
        /\ StoredDirectly(c)' <=> StoredDirectly(c)
        /\ Mirrored(c)' <=> Mirrored(c)
    BY <1>2, <2>1 DEF Untouched, ResultWord, StoredDirectly, Mirrored
  <2>3. Kept(c, ResultWord(c)) => Kept(c, ResultWord(c))'
    BY <2>2 DEF Kept, Untouched
  <2>4. QED
    BY <1>1, <1>2, <1>4, <2>1, <2>2, <2>3 DEF ResultsOf, Untouched
<1>5. CASE pc[c] \notin {"running", "stored", "loaded"}
  BY <1>1, <1>5 DEF ResultsOf, Untouched
<1>6. QED
  BY <1>3, <1>4, <1>5

\* A call that starts has no results yet.
LEMMA GetStateResults ==
  ASSUME Shape, NEW c \in Calls, Enter(c) \/ GetState(c)
  PROVE  ResultsOf(c)'
<1>1. CASE Enter(c)
  <2>1. pc'[c] = "entered"
    BY <1>1 DEF Enter, Goto, Shape, TypeOK
  <2>2. QED
    BY <2>1 DEF ResultsOf, Working
<1>2. CASE GetState(c)
  <2>1. PICK s \in pool \cup Unmade :
          own' = [own EXCEPT ![c] = s] /\ inv' = [inv EXCEPT ![s] = NewInvocation]
    BY <1>2 DEF GetState
  <2>2. pc'[c] = "running" /\ pc[c] = "entered" /\ frames' = frames
    BY <1>2 DEF GetState, Goto, Shape, TypeOK
  <2>3. s \in States /\ own'[c] = s /\ ~inv'[s].direct
    BY <2>1 DEF Unmade, Shape, TypeOK, NewInvocation
  <2>4. TopFrame(c)'.rets = Nothing
    <3>1. frames'[c] = <<NewFrame>> /\ Len(<<NewFrame>>) = 1 /\ <<NewFrame>>[1] = NewFrame
      BY <2>2 DEF Shape, Stacks
    <3>2. TopFrame(c)' = NewFrame
      BY <3>1 DEF TopFrame, Top
    <3>3. QED
      BY <3>2 DEF NewFrame
  <2>5. QED
    BY <2>2, <2>3, <2>4 DEF ResultsOf, Carried
<1>3. QED
  BY <1>1, <1>2

\* Reading or rewriting arguments touches no result.
LEMMA ReadWriteResults ==
  ASSUME Shape, NEW c \in Calls, ResultsOf(c), ReadArgs(c) \/ SetArg(c)
  PROVE  ResultsOf(c)'
<1> DEFINE s == own[c]
<1>1. /\ pc[c] = "running" /\ pc[c] \in Working /\ s \in States /\ inv[s] \in Invocation
      /\ heap \subseteq heap'
      /\ UNCHANGED <<regs, pc, own, kind, frames>>
  BY WorkingFacts DEF ReadArgs, SetArg, InInterceptor, Working, callVars
<1>2. PICK a \in ArgsField : inv' = [inv EXCEPT ![s].args = a]
  <2>1. \/ inv' = [inv EXCEPT ![s].args = Materialised(s)]
        \/ inv' = [inv EXCEPT ![s].args = New(c)]
    BY Zenon DEF ReadArgs, SetArg
  <2>2. Materialised(s) \in ArgsField /\ New(c) \in ArgsField
    BY <1>1 DEF Materialised, ArgsField, Invocation
  <2>3. QED
    BY <2>1, <2>2, Zenon
<1>3. inv'[s].direct = inv[s].direct
  <2> DEFINE i == [inv[s] EXCEPT !.args = a]
  <2>1. inv' = [inv EXCEPT ![s] = i] /\ i.direct = inv[s].direct
    BY <1>1, <1>2, InvocationFacts, Zenon
  <2> HIDE DEF i
  <2>2. QED
    BY <1>1, <2>1 DEF Shape, TypeOK
<1>4. TopFrame(c)' = TopFrame(c)
  BY <1>1 DEF TopFrame, Top
<1>5. Carried(c)'
  BY <1>1, <1>3, <1>4 DEF ResultsOf, Carried, Kept
<1>6. QED
  BY <1>1, <1>3, <1>5 DEF ResultsOf

\* A new interceptor has no results yet, and a mock's are zero.
LEMMA ChainResults ==
  ASSUME Shape, NEW c \in Calls, ResultsOf(c), ProceedToInterceptor(c) \/ ProceedToMock(c)
  PROVE  ResultsOf(c)'
<1> DEFINE s == own[c]
           f == CountTry(frames[c])
<1>1. /\ pc[c] = "running" /\ pc[c] \in Working /\ s \in States /\ inv[s] \in Invocation
      /\ UNCHANGED <<pc, own, kind>>
  BY WorkingFacts DEF ProceedToInterceptor, ProceedToMock, MayProceed, Working, dataVars
<1>2. /\ f \in Seq(FrameType) /\ Len(f) = Len(frames[c]) /\ Len(f) > 0
  BY <1>1, WorkingFacts, MayProceedFacts, CountTryFacts DEF ProceedToInterceptor, ProceedToMock
<1> HIDE DEF f
<1>3. inv'[s].direct = inv[s].direct
  <2>1. CASE ProceedToInterceptor(c)
    <3> DEFINE i == [inv[s] EXCEPT !.next = inv[s].next + 1]
    <3>1. inv' = [inv EXCEPT ![s] = i]
      BY <2>1, Zenon DEF ProceedToInterceptor
    <3>2. inv[s].next + 1 \in 0..ChainLen
      BY <1>1, <2>1, CallPathAssumption DEF ProceedToInterceptor, ChainLeft, Invocation
    <3>3. i.direct = inv[s].direct
      BY <1>1, <3>2, NextFacts, Zenon
    <3> HIDE DEF i
    <3>4. QED
      BY <1>1, <3>1, <3>3 DEF Shape, TypeOK
  <2>2. CASE ProceedToMock(c)
    BY <2>2 DEF ProceedToMock, dataVars
  <2>3. QED
    BY <2>1, <2>2
<1>4. Carried(c)'
  <2>1. CASE ProceedToInterceptor(c)
    <3>1. frames'[c] = Append(f, NewFrame)
      BY <2>1 DEF ProceedToInterceptor, Shape, TypeOK, f
    <3>2. Append(f, NewFrame)[Len(f) + 1] = NewFrame /\ Len(Append(f, NewFrame)) = Len(f) + 1
      BY <1>2, NewFrameType, AppendProperties
    <3>3. TopFrame(c)' = NewFrame
      BY <3>1, <3>2 DEF TopFrame, Top
    <3>4. QED
      BY <3>3 DEF Carried, NewFrame
  <2>2. CASE ProceedToMock(c)
    <3>1. frames'[c] = Receive(f, Zero, Zero)
      BY <2>2 DEF ProceedToMock, Shape, TypeOK, f
    <3>2. Zero \in Rets
      BY WordFacts DEF Rets
    <3>3. TopFrame(c)' = [rets |-> Zero, means |-> Zero, tries |-> f[Len(f)].tries]
      BY <1>2, <3>1, <3>2, ReceiveFacts DEF TopFrame, Top
    <3>4. QED
      BY <3>3 DEF Carried, Kept
  <2>3. QED
    BY <2>1, <2>2
<1>5. QED
  BY <1>1, <1>3, <1>4 DEF ResultsOf

\* Only a static target is called on the fast path.
LEMMA CallTargetResults ==
  ASSUME Shape, NEW c \in Calls, ResultsOf(c), ProceedFast(c) \/ ProceedReflect(c)
  PROVE  ResultsOf(c)'
<1> DEFINE s == own[c]
<1>1. /\ pc[c] = "running" /\ pc[c] \in Working /\ s \in States /\ inv[s] \in Invocation
      /\ pc'[c] = "target" /\ UNCHANGED <<own, kind>>
  BY WorkingFacts DEF ProceedFast, ProceedReflect, MayProceed, Working, Goto, Shape, TypeOK
<1>2. inv'[s].direct = inv[s].direct
  <2>1. CASE ProceedFast(c)
    <3> DEFINE i == [inv[s] EXCEPT !.hasSnap = TRUE]
    <3>1. inv' = [inv EXCEPT ![s] = i] /\ i.direct = inv[s].direct
      BY <1>1, <2>1, FlagFacts, Zenon DEF ProceedFast
    <3> HIDE DEF i
    <3>2. QED
      BY <1>1, <3>1 DEF Shape, TypeOK
  <2>2. CASE ProceedReflect(c)
    <3> DEFINE i == [inv[s] EXCEPT !.args = Materialised(s)]
    <3>1. Materialised(s) \in ArgsField
      BY <1>1 DEF Materialised, ArgsField, Invocation
    <3>2. inv' = [inv EXCEPT ![s] = i] /\ i.direct = inv[s].direct
      BY <1>1, <2>2, <3>1, InvocationFacts, Zenon DEF ProceedReflect
    <3> HIDE DEF i
    <3>3. QED
      BY <1>1, <3>2 DEF Shape, TypeOK
  <2>3. QED
    BY <2>1, <2>2
<1>3. target'[c].fast => kind[c] = "static"
  BY DEF ProceedFast, ProceedReflect, OnFastPath, Shape, TypeOK
<1>4. QED
  BY <1>1, <1>2, <1>3 DEF ResultsOf

\* The frame on top after a Proceed comes back.
LEMMA ReceivedTop ==
  ASSUME NEW c \in Calls, NEW f \in Seq(FrameType), Len(f) > 0,
         NEW r \in Rets, NEW m \in Rets, frames'[c] = Receive(f, r, m)
  PROVE  TopFrame(c)'.rets = r /\ TopFrame(c)'.means = m
<1>1. TopFrame(c)' = Receive(f, r, m)[Len(Receive(f, r, m))]
  BY DEF TopFrame, Top
<1>2. /\ Len(Receive(f, r, m)) = Len(f)
      /\ Receive(f, r, m)[Len(f)] = [rets |-> r, means |-> m, tries |-> f[Len(f)].tries]
  BY ReceiveFacts
<1>3. QED
  BY <1>1, <1>2

\* The frame that receives the results of the target carries them: in the
\* registers, where the fast path has just put them, or as a value.
LEMMA TargetReturnsResults ==
  ASSUME Shape, NEW c \in Calls, ResultsOf(c), TargetReturns(c)
  PROVE  ResultsOf(c)'
<1> DEFINE s == own[c]
           r == Ret(c, runs[c])
<1>1. /\ pc[c] = "target" /\ pc[c] \in Working /\ pc'[c] = "running"
      /\ heap' = heap \cup {r}
      /\ UNCHANGED <<own, kind>>
  BY DEF TargetReturns, Goto, Working, Shape, TypeOK
<1>2. /\ s \in States /\ inv[s] \in Invocation /\ regs[s] \in RegBuf
      /\ frames[c] \in Seq(FrameType) /\ Len(frames[c]) > 0
  BY <1>1, WorkingFacts DEF Shape, TypeOK
<1>3. r \in Rets /\ Nil \in Rets /\ r.call = c
  BY WordFacts DEF Rets, Shape, TypeOK, Ret, Obj
<1>4. CASE target[c].fast
  <2> DEFINE buf == [regs[s] EXCEPT !.ints = Registers(r, Junk)]
             i == [inv[s] EXCEPT !.direct = TRUE]
  <2>1. /\ regs' = [regs EXCEPT ![s] = buf] /\ inv' = [inv EXCEPT ![s] = i]
        /\ frames' = [frames EXCEPT ![c] = Receive(frames[c], Nil, r)]
    BY <1>4, Zenon DEF TargetReturns
  <2>2. i.direct
    BY <1>2, FlagFacts, Zenon
  <2>3. buf.ints[0] = r
    <3>1. buf.ints = Registers(r, Junk)
      BY <1>2, Zenon DEF RegBuf
    <3>2. QED
      BY <3>1 DEF Registers, Regs
  <2> HIDE DEF buf, i, r
  <2>4. regs'[s] = buf /\ inv'[s] = i /\ frames'[c] = Receive(frames[c], Nil, r)
    BY <1>2, <2>1 DEF Shape, TypeOK
  <2>5. TopFrame(c)'.rets = Nil /\ TopFrame(c)'.means = r
    BY <1>2, <1>3, <2>4, ReceivedTop
  <2>6. kind[c] = "static"
    BY <1>1, <1>4 DEF ResultsOf
  <2>7. QED
    BY <1>1, <2>2, <2>3, <2>4, <2>5, <2>6 DEF ResultsOf, Carried
<1>5. CASE ~target[c].fast
  <2> HIDE DEF r
  <2>1. /\ frames' = [frames EXCEPT ![c] = Receive(frames[c], r, r)]
        /\ UNCHANGED <<regs, inv>>
    BY <1>5, Zenon DEF TargetReturns, r
  <2>2. frames'[c] = Receive(frames[c], r, r)
    BY <2>1 DEF Shape, TypeOK
  <2>3. TopFrame(c)'.rets = r /\ TopFrame(c)'.means = r
    BY <1>2, <1>3, <2>2, ReceivedTop
  <2>4. QED
    BY <1>1, <1>3, <2>1, <2>3 DEF ResultsOf, Carried, Kept
<1>6. QED
  BY <1>4, <1>5

\* An interceptor hands down what it carries, or results of its own; one that
\* swallows a panic carries the zero results.
LEMMA FrameResults ==
  ASSUME Shape, NEW c \in Calls, ResultsOf(c),
         ReturnProceeded(c) \/ ReturnOwn(c) \/ TargetPanics(c)
           \/ InterceptorPanics(c) \/ Unwind(c) \/ Recover(c)
  PROVE  ResultsOf(c)'
<1> DEFINE f == frames[c]
<1>1. pc[c] \in Working /\ UNCHANGED <<own, kind, inv, regs>>
  BY DEF ReturnProceeded, ReturnOwn, TargetPanics, InterceptorPanics, Unwind,
         Recover, InInterceptor, ReturnFrom, Working, dataVars
<1>2. f \in Seq(FrameType) /\ Top(c) = Len(f) /\ Len(f) > 0 /\ Len(f) \in Nat
  BY <1>1, WorkingFacts
<1>3. TopFrame(c) \in FrameType /\ Own(c) \in Rets /\ Nil \in Rets /\ Zero \in Rets
  BY <1>1, TopFrameFacts, WordFacts DEF Rets
<1>4. ASSUME NEW g \in Seq(FrameType), Len(g) > 0, NEW r \in Rets, NEW m \in Rets,
             frames' = [frames EXCEPT ![c] = Receive(g, r, m)]
      PROVE  TopFrame(c)'.rets = r /\ TopFrame(c)'.means = m
  <2>1. frames'[c] = Receive(g, r, m)
    BY <1>4 DEF Shape, TypeOK
  <2>2. QED
    BY <1>4, <2>1, ReceivedTop
<1>5. CASE ReturnProceeded(c)
  <2>1. /\ pc[c] = "running" /\ pc'[c] = "running" /\ Len(f) > 1
        /\ frames' = [frames EXCEPT ![c] = Receive(Pop(f), TopFrame(c).rets, TopFrame(c).means)]
        /\ UNCHANGED heap
    BY <1>2, <1>5 DEF ReturnProceeded, InInterceptor, ReturnFrom
  <2>2. Pop(f) \in Seq(FrameType) /\ Len(Pop(f)) > 0
    BY <1>2, <2>1, PopFacts
  <2>3. TopFrame(c)'.rets = TopFrame(c).rets /\ TopFrame(c)'.means = TopFrame(c).means
    BY <1>3, <1>4, <2>1, <2>2 DEF FrameType
  <2>4. QED
    BY <1>1, <2>1, <2>3 DEF ResultsOf, Carried, Kept
<1>6. CASE ReturnOwn(c)
  <2>1. /\ pc[c] = "running" /\ pc'[c] = "running" /\ Len(f) > 1
        /\ frames' = [frames EXCEPT ![c] = Receive(Pop(f), Own(c), Own(c))]
        /\ heap' = heap \cup {Own(c)}
    BY <1>2, <1>6 DEF ReturnOwn, InInterceptor, ReturnFrom
  <2>2. Pop(f) \in Seq(FrameType) /\ Len(Pop(f)) > 0
    BY <1>2, <2>1, PopFacts
  <2>3. TopFrame(c)'.rets = Own(c) /\ TopFrame(c)'.means = Own(c)
    BY <1>3, <1>4, <2>1, <2>2
  <2>4. Own(c).call = c
    BY DEF Own, Obj
  <2>5. QED
    BY <1>1, <2>1, <2>3, <2>4 DEF ResultsOf, Carried, Kept
<1>7. CASE Recover(c)
  <2>1. /\ pc'[c] = "running" /\ frames' = [frames EXCEPT ![c] = Receive(f, Nil, Zero)]
    BY <1>7 DEF Recover, Goto, Shape, TypeOK
  <2>2. TopFrame(c)'.rets = Nil /\ TopFrame(c)'.means = Zero
    BY <1>2, <1>3, <1>4, <2>1
  <2>3. QED
    BY <1>1, <2>1, <2>2 DEF ResultsOf, Carried
<1>8. CASE TargetPanics(c) \/ InterceptorPanics(c) \/ Unwind(c)
  <2>1. pc'[c] = "unwinding"
    BY <1>8 DEF TargetPanics, InterceptorPanics, Unwind, Goto, Shape, TypeOK
  <2>2. QED
    BY <1>1, <2>1 DEF ResultsOf
<1>9. QED
  BY <1>5, <1>6, <1>7, <1>8

\* storeResults leaves the result where Dispatch reads it, mirrored.
LEMMA StoreResultsResults ==
  ASSUME Shape, NEW c \in Calls, ResultsOf(c), StoreResults(c)
  PROVE  ResultsOf(c)'
<1> DEFINE s == own[c]
           fr == TopFrame(c)
           v == IF fr.rets = Nil THEN Zero ELSE fr.rets
<1>1. /\ pc[c] = "running" /\ pc[c] \in Working /\ Top(c) = 1 /\ fr.rets # Nothing
      /\ pc'[c] = "stored"
      /\ UNCHANGED <<own, kind, inv, frames, heap>>
  BY DEF StoreResults, Goto, Working, Shape, TypeOK
<1>2. s \in States /\ inv[s] \in Invocation /\ regs[s] \in RegBuf
  BY <1>1, WorkingFacts DEF Shape, TypeOK
<1>3. fr = frames[c][1] /\ frames'[c][1] = fr /\ Top(c)' = 1
      /\ (StoredDirectly(c)' <=> StoredDirectly(c))
  BY <1>1 DEF TopFrame, Top, StoredDirectly
<1>4. Carried(c) /\ (inv[s].direct => kind[c] = "static")
  BY <1>1 DEF ResultsOf
<1>5. CASE StoredDirectly(c)
  <2>1. UNCHANGED <<regs, stackBuf>>
    BY <1>5 DEF StoreResults
  <2>2. inv[s].direct /\ fr.rets = Nil /\ kind[c] = "static"
    BY <1>4, <1>5 DEF StoredDirectly
  <2>3. fr.means # Zero => regs[s].ints[0] = fr.means
    <3>1. Nil # Nothing /\ Nil # Zero /\ Nil \notin heap
      BY WordFacts DEF Shape, TypeOK
    <3>2. QED
      BY <1>4, <2>2, <3>1 DEF Carried, Kept
  <2>4. ResultWord(c)' = regs[s].ints[0]
    BY <1>1, <2>1, <2>2 DEF ResultWord
  <2>5. QED
    BY <1>1, <1>3, <1>5, <2>2, <2>3, <2>4 DEF ResultsOf, Meant
<1>6. CASE ~StoredDirectly(c)
  <2>1. ResultWord(c)' = v /\ Mirrored(c)'
    <3>1. CASE kind[c] = "stack"
      <4> DEFINE buf == [regs[s] EXCEPT !.stackPtr = v]
      <4>1. stackBuf' = [stackBuf EXCEPT ![s] = v] /\ regs' = ToStack(s, v)
        BY <1>6, <3>1 DEF StoreResults
      <4>2. regs' = [regs EXCEPT ![s] = buf]
        BY <4>1, Zenon DEF ToStack
      <4>3. buf.stackPtr = v
        BY <1>2, Zenon DEF RegBuf
      <4> HIDE DEF buf, v
      <4>4. regs'[s] = buf /\ stackBuf'[s] = v
        BY <1>2, <4>1, <4>2 DEF Shape, TypeOK
      <4>5. QED
        BY <1>1, <3>1, <4>3, <4>4 DEF ResultWord, Mirrored
    <3>2. CASE kind[c] # "stack"
      <4> DEFINE buf == [ints |-> [regs[s].ints EXCEPT ![0] = v],
                         ptrs |-> [regs[s].ptrs EXCEPT ![0] = v],
                         stackPtr |-> regs[s].stackPtr]
      <4>1. regs' = [regs EXCEPT ![s] = buf]
        BY <1>6, <3>2, Zenon DEF StoreResults, ToRegister
      <4>2. buf.ints[0] = v /\ buf.ptrs[0] = v
        BY <1>2 DEF RegBuf, Regs
      <4> HIDE DEF buf, v
      <4>3. regs'[s] = buf
        BY <1>2, <4>1 DEF Shape, TypeOK
      <4>4. QED
        BY <1>1, <3>2, <4>2, <4>3 DEF ResultWord, Mirrored
    <3>3. QED
      BY <3>1, <3>2
  <2>2. Kept(c, v) /\ (fr.means # Zero \/ kind[c] = "mock" => v = fr.means)
    <3>1. CASE fr.rets = Nil
      <4>1. ~inv[s].direct
        BY <1>6, <3>1 DEF StoredDirectly
      <4>2. fr.means = Zero
        BY <1>4, <3>1, <4>1, WordFacts DEF Carried, Kept, Shape, TypeOK
      <4>3. QED
        BY <3>1, <4>2 DEF Kept
    <3>2. CASE fr.rets # Nil
      BY <1>1, <1>4, <3>2 DEF Carried
    <3>3. QED
      BY <3>1, <3>2
  <2> HIDE DEF v
  <2>3. Kept(c, ResultWord(c))'
    BY <1>1, <2>1, <2>2 DEF Kept
  <2>4. Meant(c, ResultWord(c))'
    BY <1>1, <1>3, <2>1, <2>2 DEF Meant
  <2>5. QED
    BY <1>1, <1>3, <1>4, <2>1, <2>3, <2>4 DEF ResultsOf
<1>7. QED
  BY <1>5, <1>6

\* Dispatch copies the result out, gives the callState back and returns.
LEMMA EndResults ==
  ASSUME Shape, NEW c \in Calls, ResultsOf(c),
         LoadResults(c) \/ PutState(c) \/ Return(c) \/ Abandon(c)
  PROVE  ResultsOf(c)'
<1>1. CASE LoadResults(c)
  <2>1. /\ pc[c] = "stored" /\ pc[c] \in Working /\ pc'[c] = "loaded"
        /\ out'[c] = ResultWord(c)
        /\ UNCHANGED <<regs, stackBuf, inv, own, kind, frames, heap>>
    BY <1>1 DEF LoadResults, Goto, dataVars, Working, Shape, TypeOK
  <2>2. /\ ResultWord(c)' = ResultWord(c) /\ Top(c)' = Top(c)
        /\ (StoredDirectly(c)' <=> StoredDirectly(c))
        /\ (Mirrored(c)' <=> Mirrored(c))
    BY <2>1 DEF ResultWord, Top, TopFrame, StoredDirectly, Mirrored
  <2>3. /\ Meant(c, ResultWord(c)) => Meant(c, ResultWord(c))'
        /\ Kept(c, ResultWord(c)) => Kept(c, ResultWord(c))'
    BY <2>1, <2>2 DEF Meant, Kept
  <2>4. QED
    BY <2>1, <2>2, <2>3 DEF ResultsOf
<1>2. CASE PutState(c)
  <2>1. /\ pc[c] = "loaded" /\ pc'[c] = "put"
        /\ UNCHANGED <<out, kind, frames>>
    BY <1>2 DEF PutState, Goto, Shape, TypeOK
  <2>2. Meant(c, out[c])
    BY <2>1 DEF ResultsOf
  <2>3. QED
    BY <2>1, <2>2 DEF ResultsOf, Meant, Working
<1>3. CASE Return(c)
  <2>1. /\ pc[c] = "put" /\ pc'[c] = "done"
        /\ UNCHANGED <<out, kind, frames>>
    BY <1>3 DEF Return, Goto, Shape, TypeOK
  <2>2. QED
    BY <2>1 DEF ResultsOf, Meant, Working
<1>4. CASE Abandon(c)
  <2>1. pc'[c] = "panicked"
    BY <1>4 DEF Abandon, Goto, Shape, TypeOK
  <2>2. QED
    BY <2>1 DEF ResultsOf, Working
<1>5. QED
  BY <1>1, <1>2, <1>3, <1>4

\* A collection finds the results: in the frame that received them, or in the
\* mirror of the register or stack word they were scattered into.
LEMMA CollectResults ==
  ASSUME Shape, NEW c \in Calls, ResultsOf(c), Collect
  PROVE  ResultsOf(c)'
<1> DEFINE s == own[c]
<1>1. /\ heap' = heap \cap Reachable
      /\ UNCHANGED <<pc, kind, own, frames, target, out>>
  BY DEF Collect, callVars
<1>2. pc[c] \in Working => s \in States /\ s \notin pool /\ s \in Owned
  BY WorkingFacts, CallPathAssumption DEF Owned, NoState
<1>3. pc[c] \in Working =>
        regs'[s] = regs[s] /\ stackBuf'[s] = stackBuf[s] /\ inv'[s] = inv[s]
  BY <1>2 DEF Collect
<1>4. OnStack(c) \subseteq Reachable
      /\ (pc[c] \in Working => Scanned(s) \subseteq Reachable)
  <2>1. OnStack(c) \in {OnStack(x) : x \in Calls}
    OBVIOUS
  <2>2. pc[c] \in Working => Scanned(s) \in {Scanned(x) : x \in pool \cup Owned}
    BY <1>2
  <2> HIDE DEF s
  <2>3. QED
    BY <2>1, <2>2, Zenon DEF Reachable
<1>5. TopFrame(c)' = TopFrame(c) /\ Top(c)' = Top(c) /\ (\A w : Meant(c, w)' <=> Meant(c, w))
  BY <1>1 DEF TopFrame, Top, Meant
<1>6. CASE pc[c] = "running"
  <2>1. pc[c] \in Working
    BY <1>6 DEF Working
  <2>2. TopFrame(c).rets \in Reachable
    <3>1. Top(c) \in 1..Top(c)
      BY <2>1, WorkingFacts
    <3>2. TopFrame(c).rets \in OnStack(c)
      BY <1>6, <3>1 DEF OnStack, TopFrame
    <3>3. QED
      BY <1>4, <3>2
  <2>3. Kept(c, TopFrame(c).rets) => Kept(c, TopFrame(c).rets)'
    BY <1>1, <1>5, <2>2 DEF Kept
  <2>4. Carried(c)'
    BY <1>1, <1>3, <1>5, <1>6, <2>1, <2>3 DEF ResultsOf, Carried
  <2>5. QED
    BY <1>1, <1>3, <1>6, <2>1, <2>4 DEF ResultsOf
<1>7. CASE pc[c] \in {"stored", "loaded"}
  <2>1. pc[c] \in Working
    BY <1>7 DEF Working
  <2>2. /\ ResultWord(c)' = ResultWord(c)
        /\ (StoredDirectly(c)' <=> StoredDirectly(c))
        /\ (Mirrored(c)' <=> Mirrored(c))
    BY <1>1, <1>3, <1>5, <2>1 DEF ResultWord, StoredDirectly, Mirrored
  <2>3. ASSUME ~StoredDirectly(c) PROVE Kept(c, ResultWord(c))'
    <3>1. Mirrored(c) /\ Kept(c, ResultWord(c))
      BY <1>7, <2>3 DEF ResultsOf
    <3>2. ResultWord(c) \in Scanned(s)
      BY <3>1 DEF Mirrored, ResultWord, Scanned, Regs
    <3>3. ResultWord(c) \in Reachable
      BY <1>4, <2>1, <3>2
    <3>4. QED
      BY <1>1, <2>2, <3>1, <3>3 DEF Kept
  <2>4. Meant(c, ResultWord(c)) => Meant(c, ResultWord(c))'
    BY <1>1, <2>2 DEF Meant
  <2>5. QED
    BY <1>1, <1>3, <1>5, <1>7, <2>1, <2>2, <2>3, <2>4 DEF ResultsOf
<1>8. CASE pc[c] \notin {"running", "stored", "loaded"}
  BY <1>1, <1>3, <1>5, <1>8 DEF ResultsOf
<1>9. QED
  BY <1>6, <1>7, <1>8

\* ResultsInv is inductive: no step of Dispatch, Proceed or the collector breaks it.
LEMMA NextResults == ResultsInv /\ [Next]_vars => ResultsInv'
<1> SUFFICES ASSUME ResultsInv, [Next]_vars PROVE ResultsInv'
  OBVIOUS
<1>1. Shape /\ Shape'
  BY NextShape DEF ResultsInv
<1>2. ASSUME NEW d \in Calls PROVE ResultsOf(d)'
  <2>1. ResultsOf(d)
    BY DEF ResultsInv
  <2>2. ASSUME NEW c \in Calls, Step(c), c # d PROVE ResultsOf(d)'
    BY <1>1, <2>1, <2>2, OthersUntouched, OthersResults
  <2>3. CASE Step(d)
    BY <1>1, <2>1, <2>3, GetStateResults, ReadWriteResults, ChainResults,
       CallTargetResults, TargetReturnsResults, FrameResults, StoreResultsResults,
       EndResults DEF Step
  <2>4. CASE Collect
    BY <1>1, <2>1, <2>4, CollectResults
  <2>5. CASE UNCHANGED vars
    BY <2>1, <2>5 DEF vars, dataVars, callVars, ResultsOf, Carried, Kept, Mirrored,
                      Meant, ResultWord, StoredDirectly, TopFrame, Top
  <2>6. QED
    BY <2>2, <2>3, <2>4, <2>5 DEF Next
<1>3. QED
  BY <1>1, <1>2 DEF ResultsInv

\* The caller gets the result the outermost Proceed stood for.
THEOREM AlwaysDeliveredIsMeant == Spec => []DeliveredIsMeant
<1>1. ResultsInv => DeliveredIsMeant
  BY DEF ResultsInv, ResultsOf, Meant, DeliveredIsMeant
<1>2. QED
  BY <1>1, InitResults, NextResults, PTL DEF Spec

\* A scattered result outlives every collection until the callState is put back.
THEOREM StoredResultAlwaysAlive == Spec => []StoredResultAlive
<1>1. ResultsInv => StoredResultAlive
  BY DEF ResultsInv, ResultsOf, Kept, StoredResultAlive
<1>2. QED
  BY <1>1, InitResults, NextResults, PTL DEF Spec

-----------------------------------------------------------------------------
(* The call path implements AroundAdvice *)

\* What an interceptor may hand on: results of its own, or those of the target,
\* of its last run; a mock has no target.
Passed(c) ==
  {Own(c)} \cup (IF kind[c] = "mock" THEN {Zero} ELSE {Ret(c, n) : n \in {runs[c]} \ {0}})

\* Whatever the frame on top has received is a result that may be handed on:
\* no result of an earlier run survives a later one.
LastRunOf(c) ==
  /\ kind[c] = "mock" => runs[c] = 0
  /\ pc[c] = "target" => kind[c] # "mock" /\ runs[c] # 0
  /\ pc[c] = "running" /\ TopFrame(c).rets # Nothing => TopFrame(c).means \in Passed(c)
  /\ pc[c] \in {"stored", "loaded", "put", "done"} => frames[c][1].means \in Passed(c)

AdviceInv == ArgsInv /\ ResultsInv /\ \A c \in Calls : LastRunOf(c)

\* Only the target's runs and the interceptors decide what a call passes on; a
\* swallowed panic, which Recover stands for, is left out.
LEMMA LastRunKept ==
  ASSUME Shape, NEW c \in Calls, LastRunOf(c), Step(c), "recover" \notin Habits
  PROVE  LastRunOf(c)'
<1> DEFINE f == frames[c]
<1>0. /\ f \in Seq(FrameType) /\ Len(f) \in 1..(ChainLen + 1) /\ Len(f) > 0 /\ Top(c) = Len(f)
      /\ runs[c] \in Nat /\ TopFrame(c) \in FrameType
  <2>1. f \in Seq(FrameType) /\ Len(f) \in 1..(ChainLen + 1) /\ runs[c] \in Nat /\ Top(c) = Len(f)
    BY DEF Shape, TypeOK, Top
  <2>2. Len(f) > 0 /\ Len(f) \in 1..Len(f)
    BY <2>1, CallPathAssumption
  <2> QED BY <2>1, <2>2, ElementOfSeq DEF TopFrame
<1>1. ASSUME UNCHANGED <<kind, runs>>, pc'[c] = pc[c], f' = f
      PROVE  LastRunOf(c)'
  <2>1. TopFrame(c)' = TopFrame(c) /\ Passed(c)' = Passed(c)
    BY <1>1 DEF TopFrame, Top, Passed
  <2> QED BY <1>1, <2>1 DEF LastRunOf
<1>2. ASSUME UNCHANGED <<kind, runs>>, pc'[c] = "running",
             TopFrame(c)'.rets # Nothing => TopFrame(c)'.means \in Passed(c)
      PROVE  LastRunOf(c)'
  <2>1. Passed(c)' = Passed(c)
    BY <1>2 DEF Passed
  <2> QED BY <1>2, <2>1 DEF LastRunOf
<1>3. ASSUME UNCHANGED <<kind, runs>>, pc'[c] \in {"entered", "unwinding", "panicked"}
      PROVE  LastRunOf(c)'
  BY <1>3 DEF LastRunOf
<1>4. ASSUME NEW g \in Seq(FrameType), Len(g) > 0, NEW r \in Rets, NEW m \in Rets,
             frames' = [frames EXCEPT ![c] = Receive(g, r, m)]
      PROVE  TopFrame(c)'.rets = r /\ TopFrame(c)'.means = m
  <2>1. frames'[c] = Receive(g, r, m)
    BY <1>4 DEF Shape, TypeOK
  <2> QED BY <1>4, <2>1, ReceivedTop
<1>5. CASE Enter(c) \/ TargetPanics(c) \/ InterceptorPanics(c) \/ Abandon(c)
  BY <1>3, <1>5 DEF Enter, TargetPanics, InterceptorPanics, Abandon, Goto, Shape, TypeOK
<1>6. CASE Unwind(c)
  BY <1>3, <1>6 DEF Unwind
<1>7. CASE ReadArgs(c) \/ SetArg(c)
  BY <1>1, <1>7 DEF ReadArgs, SetArg, callVars
<1>8. CASE GetState(c)
  <2>1. pc[c] = "entered" /\ pc'[c] = "running" /\ UNCHANGED <<kind, runs, frames>>
    BY <1>8 DEF GetState, Goto, Shape, TypeOK
  <2>2. TopFrame(c)'.rets = Nothing
    <3>1. frames'[c] = <<NewFrame>> /\ Len(<<NewFrame>>) = 1 /\ <<NewFrame>>[1] = NewFrame
      BY <2>1 DEF Shape, Stacks
    <3>2. TopFrame(c)' = NewFrame
      BY <3>1 DEF TopFrame, Top
    <3> QED BY <3>2 DEF NewFrame
  <2> QED BY <1>2, <2>1, <2>2
<1>9. ASSUME MayProceed(c)
      PROVE  /\ pc[c] = "running"
             /\ CountTry(f) \in Seq(FrameType) /\ Len(CountTry(f)) = Len(f)
  BY <1>0, <1>9, MayProceedFacts, CountTryFacts
<1>10. CASE ProceedToInterceptor(c)
  <2> DEFINE g == CountTry(f)
  <2>1. /\ MayProceed(c) /\ pc'[c] = pc[c] /\ UNCHANGED <<kind, runs>>
        /\ frames'[c] = Append(g, NewFrame)
    BY <1>10 DEF ProceedToInterceptor, Shape, TypeOK
  <2>2. g \in Seq(FrameType) /\ pc'[c] = "running"
    BY <1>9, <2>1
  <2> HIDE DEF g
  <2>3. Append(g, NewFrame)[Len(g) + 1] = NewFrame /\ Len(Append(g, NewFrame)) = Len(g) + 1
    BY <2>2, NewFrameType, AppendProperties
  <2>4. TopFrame(c)' = NewFrame
    BY <2>1, <2>3 DEF TopFrame, Top
  <2> QED BY <1>2, <2>1, <2>2, <2>4 DEF NewFrame
<1>11. CASE ProceedToMock(c)
  <2>1. /\ MayProceed(c) /\ pc'[c] = pc[c] /\ UNCHANGED <<kind, runs>> /\ kind[c] = "mock"
        /\ frames' = [frames EXCEPT ![c] = Receive(CountTry(f), Zero, Zero)]
    BY <1>11 DEF ProceedToMock
  <2>2. TopFrame(c)'.means = Zero
    BY <1>0, <1>4, <1>9, <2>1, WordFacts DEF Rets
  <2> QED BY <1>2, <1>9, <2>1, <2>2 DEF Passed
<1>12. CASE ProceedFast(c) \/ ProceedReflect(c)
  <2>1. pc'[c] = "target" /\ kind' = kind /\ runs'[c] = runs[c] + 1 /\ kind[c] # "mock"
    BY <1>12 DEF ProceedFast, ProceedReflect, OnFastPath, Goto, Shape, TypeOK
  <2> QED BY <1>0, <2>1 DEF LastRunOf
<1>13. CASE TargetReturns(c)
  <2> DEFINE r == Ret(c, runs[c])
  <2>1. /\ pc[c] = "target" /\ pc'[c] = "running" /\ UNCHANGED <<kind, runs>>
        /\ \E q \in {Nil, r} : frames' = [frames EXCEPT ![c] = Receive(f, q, r)]
    BY <1>13 DEF TargetReturns, Goto, Shape, TypeOK
  <2>2. r \in Rets /\ Nil \in Rets
    BY <1>0, WordFacts DEF Rets
  <2>3. TopFrame(c)'.means = r
    BY <1>0, <1>4, <2>1, <2>2
  <2>4. r \in Passed(c)
    BY <2>1 DEF LastRunOf, Passed
  <2> QED BY <1>2, <2>1, <2>3, <2>4
<1>14. CASE ReturnProceeded(c)
  <2>1. /\ pc[c] = "running" /\ pc'[c] = "running" /\ Len(f) > 1 /\ UNCHANGED <<kind, runs>>
        /\ TopFrame(c).rets # Nothing
        /\ frames' = [frames EXCEPT ![c] = Receive(Pop(f), TopFrame(c).rets, TopFrame(c).means)]
    BY <1>0, <1>14 DEF ReturnProceeded, InInterceptor, ReturnFrom
  <2>2. Pop(f) \in Seq(FrameType) /\ Len(Pop(f)) > 0
    BY <1>0, <2>1, PopFacts
  <2>3. TopFrame(c)'.means = TopFrame(c).means
    BY <1>0, <1>4, <2>1, <2>2 DEF FrameType
  <2> QED BY <1>2, <2>1, <2>3 DEF LastRunOf
<1>15. CASE ReturnOwn(c)
  <2>1. /\ pc'[c] = "running" /\ Len(f) > 1 /\ UNCHANGED <<kind, runs>>
        /\ frames' = [frames EXCEPT ![c] = Receive(Pop(f), Own(c), Own(c))]
    BY <1>0, <1>15 DEF ReturnOwn, InInterceptor, ReturnFrom
  <2>2. Pop(f) \in Seq(FrameType) /\ Len(Pop(f)) > 0
    BY <1>0, <2>1, PopFacts
  <2>3. TopFrame(c)'.means = Own(c)
    BY <1>4, <2>1, <2>2, WordFacts DEF Rets
  <2> QED BY <1>2, <2>1, <2>3 DEF Passed
<1>16. CASE Recover(c)
  BY <1>16 DEF Recover
<1>17. CASE StoreResults(c) \/ LoadResults(c) \/ PutState(c) \/ Return(c)
  <2>1. UNCHANGED <<kind, runs, frames>> /\ pc'[c] \in {"stored", "loaded", "put", "done"}
    BY <1>17 DEF StoreResults, LoadResults, PutState, Return, Goto, Shape, TypeOK
  <2>2. frames[c][1].means \in Passed(c)
    <3>1. CASE StoreResults(c)
      BY <3>1 DEF StoreResults, LastRunOf, TopFrame
    <3>2. CASE LoadResults(c) \/ PutState(c) \/ Return(c)
      BY <3>2 DEF LoadResults, PutState, Return, LastRunOf
    <3> QED BY <1>17, <3>1, <3>2
  <2>3. Passed(c)' = Passed(c)
    BY <2>1 DEF Passed
  <2> QED BY <2>1, <2>2, <2>3 DEF LastRunOf
<1> QED
  BY <1>5, <1>6, <1>7, <1>8, <1>10, <1>11, <1>12, <1>13, <1>14, <1>15, <1>16, <1>17 DEF Step

\* AdviceInv is inductive when no interceptor swallows a panic.
LEMMA NextAdvice ==
  ASSUME "recover" \notin Habits, AdviceInv, [Next]_vars
  PROVE  AdviceInv'
<1>1. Shape
  BY DEF AdviceInv, ArgsInv
<1>2. ASSUME NEW d \in Calls
      PROVE  LastRunOf(d)'
  <2>1. LastRunOf(d)
    BY DEF AdviceInv
  <2>2. ASSUME Untouched(d)
        PROVE  LastRunOf(d)'
    <3>1. TopFrame(d)' = TopFrame(d) /\ Passed(d)' = Passed(d)
      BY <2>2 DEF Untouched, TopFrame, Top, Passed
    <3> QED BY <2>1, <2>2, <3>1 DEF Untouched, LastRunOf
  <2>3. ASSUME NEW c \in Calls, Step(c), c # d
        PROVE  LastRunOf(d)'
    BY <1>1, <2>2, <2>3, OthersUntouched
  <2>4. CASE Step(d)
    BY <1>1, <2>1, <2>4, LastRunKept
  <2>5. CASE UNCHANGED callVars
    BY <2>1, <2>5 DEF callVars, LastRunOf, TopFrame, Top, Passed
  <2> QED BY <2>3, <2>4, <2>5 DEF Next, Collect, vars
<1> QED BY <1>2, NextArgs, NextResults DEF AdviceInv

\* What the caller of a call that has returned received was passed on.
LEMMA OutcomeFacts ==
  ASSUME AdviceInv, NEW c \in Calls, pc[c] \in {"put", "done"}
  PROVE  \/ out[c] = Own(c)
         \/ out[c] = Zero /\ runs[c] = 0
         \/ out[c] = Ret(c, runs[c]) /\ runs[c] # 0
<1>1. frames[c][1].means \in Passed(c) /\ Meant(c, out[c]) /\ (kind[c] = "mock" => runs[c] = 0)
  BY DEF AdviceInv, LastRunOf, ResultsInv, ResultsOf
<1>2. Own(c) # Zero /\ \A n : Ret(c, n) # Zero
  BY DEF Own, Ret, Zero, Obj, Special
<1> QED BY <1>1, <1>2 DEF Meant, Passed

\* A step that moves none of these does not show.
LEMMA Hidden ==
  ASSUME UNCHANGED <<runs, target, rewritten>>,
         \A c \in Calls : PhaseOf(c)' = PhaseOf(c) /\ OutcomeOf(c)' = OutcomeOf(c)
  PROVE  UNCHANGED Abstract!vars
<1>1. \A c \in Calls : GivenOf(c)' = GivenOf(c)
  BY DEF GivenOf
<1> QED BY <1>1 DEF Abstract!vars

\* What a step of another call shows of this one is nothing.
LEMMA Unseen ==
  ASSUME NEW d \in Calls, Untouched(d)
  PROVE  /\ PhaseOf(d)' = PhaseOf(d) /\ GivenOf(d)' = GivenOf(d)
         /\ OutcomeOf(d)' = OutcomeOf(d)
         /\ rewritten'[d] = rewritten[d] /\ runs'[d] = runs[d]
BY DEF Untouched, PhaseOf, GivenOf, OutcomeOf

\* GetState opens the call.
LEMMA GetStateOpens ==
  ASSUME Shape, NEW c \in Calls, GetState(c)
  PROVE  Abstract!Open(c)
<1> DEFINE ph == [d \in Calls |-> PhaseOf(d)]
<1>1. /\ pc[c] = "entered" /\ pc' = [pc EXCEPT ![c] = "running"]
      /\ UNCHANGED <<runs, target, rewritten, out>>
  BY DEF GetState, Goto
<1>2. PhaseOf(c) = "idle" /\ PhaseOf(c)' = "open"
  BY <1>1 DEF PhaseOf, Shape, TypeOK
<1>3. \A d \in Calls : d # c => PhaseOf(d)' = PhaseOf(d)
  BY <1>1 DEF PhaseOf, Shape, TypeOK
<1>4. ph' = [ph EXCEPT ![c] = "open"]
  BY <1>2, <1>3
<1>5. \A d \in Calls : GivenOf(d)' = GivenOf(d) /\ OutcomeOf(d)' = OutcomeOf(d)
  BY <1>1 DEF GivenOf, OutcomeOf, Shape, TypeOK
<1> QED BY <1>1, <1>2, <1>4, <1>5 DEF Abstract!Open

\* SetArg replaces the argument in force.
LEMMA SetArgReplaces ==
  ASSUME Shape, NEW c \in Calls, SetArg(c)
  PROVE  Abstract!Replace(c)
<1> DEFINE cur == [d \in Calls |-> IF rewritten[d] THEN "replaced" ELSE "original"]
<1>1. /\ pc[c] = "running" /\ rewritten' = [rewritten EXCEPT ![c] = TRUE]
      /\ UNCHANGED <<pc, runs, target, out>>
  BY DEF SetArg, InInterceptor
<1>2. cur' = [cur EXCEPT ![c] = "replaced"]
  BY <1>1 DEF Shape, TypeOK
<1>3. PhaseOf(c) = "open"
  BY <1>1 DEF PhaseOf
<1>4. \A d \in Calls : /\ PhaseOf(d)' = PhaseOf(d) /\ GivenOf(d)' = GivenOf(d)
                      /\ OutcomeOf(d)' = OutcomeOf(d)
  BY <1>1 DEF PhaseOf, GivenOf, OutcomeOf
<1> QED BY <1>1, <1>2, <1>3, <1>4 DEF Abstract!Replace

\* A run of the target, on either path, is given the argument in force.
LEMMA CallTargetRuns ==
  ASSUME Shape, ArgsInv', NEW c \in Calls, ProceedFast(c) \/ ProceedReflect(c)
  PROVE  Abstract!Run(c)
<1> DEFINE gi == [d \in Calls |-> GivenOf(d)]
<1> DEFINE cur == [d \in Calls |-> IF rewritten[d] THEN "replaced" ELSE "original"]
<1>1. /\ pc[c] = "running" /\ pc' = [pc EXCEPT ![c] = "target"]
      /\ runs' = [runs EXCEPT ![c] = runs[c] + 1] /\ UNCHANGED <<rewritten, out>>
      /\ \A d \in Calls : d # c => target'[d] = target[d]
  BY DEF ProceedFast, ProceedReflect, MayProceed, Goto, Shape, TypeOK
<1>2. pc'[c] = "target" /\ runs[c] \in Nat /\ runs'[c] = runs[c] + 1
  BY <1>1 DEF Shape, TypeOK
<1>3. target'[c].regs = Registers(TargetData, Wanted(c)')
  BY <1>2 DEF ArgsInv, ArgsOf
<1>4. target'[c].regs[1] = Wanted(c) /\ runs'[c] # 0
  BY <1>1, <1>2, <1>3 DEF Registers, Regs, Wanted
<1>5. GivenOf(c)' = cur[c]
  BY <1>1, <1>4 DEF GivenOf, Wanted, Arg, New, Obj
<1>6. \A d \in Calls : d # c => GivenOf(d)' = GivenOf(d)
  BY <1>1 DEF GivenOf, Shape, TypeOK
<1>7. gi' = [gi EXCEPT ![c] = cur[c]]
  BY <1>5, <1>6
<1>8. PhaseOf(c) = "open"
  BY <1>1 DEF PhaseOf
<1>9. \A d \in Calls : PhaseOf(d)' = PhaseOf(d) /\ OutcomeOf(d)' = OutcomeOf(d)
  <2>1. TAKE d \in Calls
  <2>2. CASE d = c
    BY <1>1, <1>2, <2>2 DEF PhaseOf, OutcomeOf
  <2>3. CASE d # c
    BY <1>1, <2>3 DEF PhaseOf, OutcomeOf, Shape, TypeOK
  <2> QED BY <2>2, <2>3
<1> QED BY <1>1, <1>7, <1>8, <1>9 DEF Abstract!Run

\* Return hands the caller the result of the last run, of an interceptor, or zero.
LEMMA ReturnFinishes ==
  ASSUME AdviceInv, NEW c \in Calls, Return(c)
  PROVE  Abstract!Finish(c)
<1> DEFINE ph == [d \in Calls |-> PhaseOf(d)]
<1> DEFINE oc == [d \in Calls |-> OutcomeOf(d)]
<1>0. Shape
  BY DEF AdviceInv, ArgsInv
<1>1. /\ pc[c] = "put" /\ pc' = [pc EXCEPT ![c] = "done"]
      /\ UNCHANGED <<runs, target, rewritten, out>>
  BY DEF Return, Goto
<1>2. pc'[c] = "done" /\ PhaseOf(c) = "open" /\ PhaseOf(c)' = "over"
  BY <1>0, <1>1 DEF PhaseOf, Shape, TypeOK
<1>3. \A d \in Calls : d # c => PhaseOf(d)' = PhaseOf(d) /\ OutcomeOf(d)' = OutcomeOf(d)
  BY <1>0, <1>1 DEF PhaseOf, OutcomeOf, Shape, TypeOK
<1>4. ph' = [ph EXCEPT ![c] = "over"]
  BY <1>2, <1>3
<1>5. OutcomeOf(c)' \in {Abstract!Own, IF runs[c] = 0 THEN Abstract!Zero
                                       ELSE Abstract!ResultOf(runs[c])}
  <2>1. \/ out[c] = Own(c)
        \/ out[c] = Zero /\ runs[c] = 0
        \/ out[c] = Ret(c, runs[c]) /\ runs[c] # 0
    BY <1>1, OutcomeFacts
  <2>2. Own(c) # Zero /\ Own(c) # Ret(c, runs[c]) /\ Ret(c, runs[c]) # Zero
    BY DEF Own, Ret, Zero, Obj, Special
  <2> QED BY <1>1, <1>2, <2>1, <2>2
          DEF OutcomeOf, Outcome, Abstract!Own, Abstract!Zero, Abstract!ResultOf
<1>6. oc' = [oc EXCEPT ![c] = OutcomeOf(c)']
  BY <1>3
<1>7. \A d \in Calls : GivenOf(d)' = GivenOf(d)
  BY <1>1 DEF GivenOf
<1> QED BY <1>1, <1>2, <1>4, <1>5, <1>6, <1>7 DEF Abstract!Finish

\* A panic that leaves Dispatch leaves the call.
LEMMA AbandonPanics ==
  ASSUME Shape, NEW c \in Calls, Abandon(c)
  PROVE  Abstract!Panic(c)
<1> DEFINE ph == [d \in Calls |-> PhaseOf(d)]
<1>1. /\ pc[c] = "unwinding" /\ pc' = [pc EXCEPT ![c] = "panicked"]
      /\ UNCHANGED <<runs, target, rewritten, out>>
  BY DEF Abandon, Goto
<1>2. PhaseOf(c) = "open" /\ PhaseOf(c)' = "panicked"
  BY <1>1 DEF PhaseOf, Shape, TypeOK
<1>3. \A d \in Calls : d # c => PhaseOf(d)' = PhaseOf(d)
  BY <1>1 DEF PhaseOf, Shape, TypeOK
<1>4. ph' = [ph EXCEPT ![c] = "panicked"]
  BY <1>2, <1>3
<1>5. \A d \in Calls : GivenOf(d)' = GivenOf(d) /\ OutcomeOf(d)' = OutcomeOf(d)
  BY <1>1 DEF GivenOf, OutcomeOf, Shape, TypeOK
<1> QED BY <1>1, <1>2, <1>4, <1>5 DEF Abstract!Panic

\* Every other step of a call changes neither its phase nor its outcome.
LEMMA OtherStepsHidden ==
  ASSUME Shape, NEW c \in Calls, Step(c)
  PROVE  \/ GetState(c) \/ SetArg(c) \/ ProceedFast(c) \/ ProceedReflect(c)
         \/ Return(c) \/ Abandon(c) \/ UNCHANGED Abstract!vars
<1> SUFFICES ASSUME ~(\/ GetState(c) \/ SetArg(c) \/ ProceedFast(c) \/ ProceedReflect(c)
                      \/ Return(c) \/ Abandon(c))
             PROVE  UNCHANGED Abstract!vars
  OBVIOUS
<1> DEFINE open == {"running", "target", "unwinding", "stored", "loaded", "put"}
<1>1. /\ UNCHANGED <<runs, target, rewritten>>
      /\ \/ pc[c] = "idle" /\ pc'[c] = "entered"
         \/ pc[c] \in open /\ pc'[c] \in open
  <2> USE DEF Shape, TypeOK, Goto, callVars, ReturnFrom, InInterceptor, MayProceed
  <2>1. CASE Enter(c) \/ ReadArgs(c) \/ ProceedToInterceptor(c) \/ ProceedToMock(c)
    BY <2>1 DEF Enter, ReadArgs, ProceedToInterceptor, ProceedToMock
  <2>2. CASE TargetReturns(c) \/ TargetPanics(c) \/ ReturnProceeded(c) \/ ReturnOwn(c)
    BY <2>2 DEF TargetReturns, TargetPanics, ReturnProceeded, ReturnOwn
  <2>3. CASE InterceptorPanics(c) \/ Unwind(c) \/ Recover(c)
    BY <2>3 DEF InterceptorPanics, Unwind, Recover
  <2>4. CASE StoreResults(c) \/ LoadResults(c) \/ PutState(c)
    BY <2>4 DEF StoreResults, LoadResults, PutState
  <2> QED BY <2>1, <2>2, <2>3, <2>4 DEF Step
<1>2. PhaseOf(c)' = PhaseOf(c) /\ OutcomeOf(c)' = OutcomeOf(c)
  BY <1>1 DEF PhaseOf, OutcomeOf
<1>3. \A d \in Calls : d # c => PhaseOf(d)' = PhaseOf(d) /\ OutcomeOf(d)' = OutcomeOf(d)
  BY OthersUntouched, Unseen
<1> QED BY <1>1, <1>2, <1>3, Hidden

\* Every step of the program is a step of the value semantics, or does not show.
LEMMA NextImplements ==
  ASSUME AdviceInv, AdviceInv', [Next]_vars
  PROVE  [Abstract!Next]_(Abstract!vars)
<1>0. Shape /\ ArgsInv'
  BY DEF AdviceInv, ArgsInv
<1>1. ASSUME NEW c \in Calls, Step(c)
      PROVE  Abstract!Next \/ UNCHANGED Abstract!vars
  BY <1>0, <1>1, GetStateOpens, SetArgReplaces, CallTargetRuns, ReturnFinishes,
     AbandonPanics, OtherStepsHidden DEF Abstract!Next
<1>2. CASE UNCHANGED callVars
  <2>1. UNCHANGED <<runs, target, rewritten, pc, out>>
    BY <1>2 DEF callVars
  <2>2. \A d \in Calls : PhaseOf(d)' = PhaseOf(d) /\ OutcomeOf(d)' = OutcomeOf(d)
    BY <2>1 DEF PhaseOf, OutcomeOf
  <2> QED BY <2>1, <2>2, Hidden
<1> QED BY <1>1, <1>2 DEF Next, Collect, vars

\* No call is open at first.
LEMMA InitImplements == Init => Abstract!Init /\ AdviceInv
<1> SUFFICES ASSUME Init PROVE Abstract!Init /\ AdviceInv
  OBVIOUS
<1>1. \A c \in Calls : LastRunOf(c)
  BY DEF Init, LastRunOf, TopFrame, Top, NewFrame
<1>2. \A c \in Calls : pc[c] = "idle" /\ ~rewritten[c] /\ runs[c] = 0
  BY DEF Init
<1>3. ASSUME NEW c \in Calls
      PROVE  PhaseOf(c) = "idle" /\ GivenOf(c) = "none" /\ OutcomeOf(c) = Outcome("none", 0)
  <2>1. PhaseOf(c) = "idle"
    BY <1>2 DEF PhaseOf
  <2>2. GivenOf(c) = "none"
    <3>1. target[c].regs[1] = Zero
      BY DEF Init, NoTarget, ZeroRegs, Regs
    <3> QED BY <1>2, <3>1 DEF GivenOf, Arg, New, Zero, Obj, Special
  <2>3. OutcomeOf(c) = Outcome("none", 0)
    BY <1>2 DEF OutcomeOf
  <2> QED BY <2>1, <2>2, <2>3
<1>4. runs = [c \in Calls |-> 0]
  BY DEF Init
<1>5. Abstract!Init
  BY <1>2, <1>3, <1>4 DEF Abstract!Init, Abstract!None, Outcome
<1> QED BY <1>1, <1>5, InitArgs, InitResults DEF AdviceInv

\* With interceptors that swallow no panic, the call path implements AroundAdvice: for
\* any calls in flight, callStates and collections, what interceptors and callers see is
\* the value semantics (Dispatch, callTarget, storeResults).
THEOREM CallPathImplementsAdvice ==
  ASSUME "recover" \notin Habits
  PROVE  Spec => ImplementsAroundAdvice
<1>1. AdviceInv /\ [Next]_vars => AdviceInv'
  BY NextAdvice
<1>2. AdviceInv /\ AdviceInv' /\ [Next]_vars => [Abstract!Next]_(Abstract!vars)
  BY NextImplements
<1> QED BY <1>1, <1>2, InitImplements, PTL DEF Spec, ImplementsAroundAdvice, Abstract!Spec
=============================================================================
