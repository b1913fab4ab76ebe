------------------------------ MODULE CallPath ------------------------------
(***************************************************************************)
(* One proxied call from the trampoline to the caller and back: Dispatch   *)
(* (dispatch_amd64.go, dispatch_arm64.go), the interceptor chain           *)
(* (invocation.go) and the register spill area it works on                 *)
(* (materialize.go), for any number of calls in flight that share the pool *)
(* of callStates and one garbage collector.                                *)
(*                                                                         *)
(* A method here has one pointer argument and one pointer result.          *)
(* Register 0 carries the receiver on the way in and the result on the way *)
(* out; register 1 carries the argument on the way in and is clobbered on  *)
(* the way out.  A word is a record naming the object it points at.        *)
(***************************************************************************)
EXTENDS Naturals, Sequences, FiniteSets

CONSTANTS
  Calls,      \* proxied calls, each made once, on any goroutine
  States,     \* callState objects: pooled, owned by a call, or not yet made
  Kinds,      \* which call targets: see KindsDomain
  Habits,     \* what interceptors do besides proceeding: see HabitsDomain
  ChainLen,   \* length of the interceptor chain
  MaxProceed  \* bound on how often one interceptor calls Proceed

(***************************************************************************)
(* What callTarget finds: a target that implements the interface and takes *)
(* everything in registers, the same with a result on the stack, a target  *)
(* reachable through a bound method value only, or no target at all.       *)
(***************************************************************************)
KindsDomain == {"static", "stack", "bound", "mock"}

(***************************************************************************)
(* "args" reads the arguments, "set" rewrites one, "own" returns results   *)
(* of the interceptor's own, "panic" panics, "recover" runs Proceed under  *)
(* a recover and goes on with no results.                                  *)
(***************************************************************************)
HabitsDomain == {"args", "set", "own", "panic", "recover"}

ASSUME CallPathAssumption ==
  /\ "none" \notin States
  /\ Kinds \subseteq KindsDomain
  /\ Habits \subseteq HabitsDomain
  /\ ChainLen \in Nat
  /\ MaxProceed \in Nat \ {0}

VARIABLES
  pool,       \* the callStates in statePool
  regs,       \* callState.regs: [ints, ptrs, stackPtr]
  saved,      \* callState.saved, the snapshot: [ints, ptrs]
  stackBuf,   \* callState.stackBuf: the stack result word
  inv,        \* callState.inv: [next, args, hasSnap, direct]
  pc,         \* where each call is
  kind,       \* the kind of method each call is of
  own,        \* the callState each call works on
  frames,     \* per call: Dispatch's frame and one per running interceptor
  target,     \* what the running target was called with, and how
  runs,       \* how often the target has been run
  out,        \* the result words Dispatch holds, then the caller
  heap,       \* objects not yet collected, of calls in flight and delivered
  rewritten   \* history: an interceptor has replaced the argument

dataVars == <<pool, regs, saved, stackBuf, inv>>
callVars == <<pc, kind, own, frames, target, runs, out, rewritten>>
vars == <<dataVars, callVars, heap>>

-----------------------------------------------------------------------------
Regs == {0, 1}
NoState == "none"

Obj(tag, c, n) == [tag |-> tag, call |-> c, n |-> n]
Special(tag) == Obj(tag, "any", 0)
Arg(c) == Obj("arg", c, 0)          \* the argument the caller passed
New(c) == Obj("new", c, 0)          \* the one an interceptor put in its place
Own(c) == Obj("own", c, 0)          \* a result an interceptor made up
Ret(c, n) == Obj("ret", c, n)       \* the result of the n'th run of the target
Zero == Special("zero")             \* the nil pointer: m.zeros
Receiver == Special("proxy")        \* the *Proxy the call arrived on
TargetData == Special("target")     \* m.targetData
Junk == Special("junk")             \* a register the callee left dirty

Word == [tag : {"arg", "new", "own"}, call : Calls, n : {0}]
          \cup [tag : {"ret"}, call : Calls, n : Nat]
          \cup {Zero, Receiver, TargetData, Junk}

(***************************************************************************)
(* The results an interceptor or callTarget returns: nothing yet, nil, or  *)
(* one value.  A frame also remembers what that outcome means to a reader  *)
(* of the interceptor: on the register fast path Proceed returns nil while *)
(* the results sit in the registers.                                       *)
(***************************************************************************)
Nothing == Special("nothing")
Nil == Special("nil")
Rets == Word \cup {Nothing, Nil}
NewFrame == [rets |-> Nothing, means |-> Nothing, tries |-> 0]

(***************************************************************************)
(* c.args: not materialised, described in place in the live registers or   *)
(* in the snapshot, or rewritten.                                          *)
(***************************************************************************)
InRegs == Special("inRegs")
InSaved == Special("inSaved")
ArgsField == {Nothing, InRegs, InSaved} \cup {New(c) : c \in Calls}

ZeroRegs == [r \in Regs |-> Zero]
FreshRegs == [ints |-> ZeroRegs, ptrs |-> ZeroRegs, stackPtr |-> Zero]
FreshSaved == [ints |-> ZeroRegs, ptrs |-> ZeroRegs]
NewInvocation == [next |-> 0, args |-> Nothing, hasSnap |-> FALSE,
                  direct |-> FALSE]
NoTarget == [regs |-> ZeroRegs, fast |-> FALSE]

Registers(r0, r1) == [r \in Regs |-> IF r = 0 THEN r0 ELSE r1]

Top(c) == Len(frames[c])
TopFrame(c) == frames[c][Top(c)]
InInterceptor(c) == pc[c] = "running" /\ Top(c) > 1

\* the stack f once its top frame is left, once a Proceed of its top frame has
\* come back with r, and once its top frame has called Proceed once more
Pop(f) == SubSeq(f, 1, Len(f) - 1)
Receive(f, r, m) ==
  [f EXCEPT ![Len(f)] = [rets |-> r, means |-> m, tries |-> @.tries]]
CountTry(f) ==
  [f EXCEPT ![Len(f)] = [rets |-> @.rets, means |-> @.means, tries |-> @.tries + 1]]

Goto(c, label) == pc' = [pc EXCEPT ![c] = label]

-----------------------------------------------------------------------------
Init ==
  /\ pool = {}
  /\ regs = [s \in States |-> FreshRegs]
  /\ saved = [s \in States |-> FreshSaved]
  /\ stackBuf = [s \in States |-> Zero]
  /\ inv = [s \in States |-> NewInvocation]
  /\ pc = [c \in Calls |-> "idle"]
  /\ kind \in [Calls -> Kinds]
  /\ own = [c \in Calls |-> NoState]
  /\ frames = [c \in Calls |-> <<NewFrame>>]
  /\ target = [c \in Calls |-> NoTarget]
  /\ runs = [c \in Calls |-> 0]
  /\ out = [c \in Calls |-> Zero]
  /\ heap = {Arg(c) : c \in Calls}
  /\ rewritten = [c \in Calls |-> FALSE]

(***************************************************************************)
(* The first lines of Dispatch: the registers the layout marks as pointers *)
(* are copied into prePtrs, a local the collector scans, before anything   *)
(* that may allocate.                                                      *)
(***************************************************************************)
Enter(c) ==
  /\ pc[c] = "idle"
  /\ Goto(c, "entered")
  /\ UNCHANGED <<dataVars, kind, own, frames, target, runs, out, heap, rewritten>>

\* Mutant: the mirror is filled after pool.Get
NoPrePtrs(c) == {}

PrePtrs(c) == IF pc[c] = "entered" THEN {Receiver, Arg(c)} ELSE {}

Owned == {own[c] : c \in Calls} \ {NoState}
Unmade == States \ (pool \cup Owned)

(***************************************************************************)
(* statePool.Get and the initialisation of the callState.  The Get takes   *)
(* any pooled object or makes one; its snapshot and its stack buffer keep  *)
(* whatever the previous call left in them.                                *)
(***************************************************************************)
GetState(c) ==
  /\ pc[c] = "entered"
  /\ \E s \in pool \cup Unmade :
       /\ pool' = pool \ {s}
       /\ own' = [own EXCEPT ![c] = s]
       /\ regs' = [regs EXCEPT ![s] =
                     [ints |-> Registers(Receiver, Arg(c)),
                      ptrs |-> Registers(Receiver, Arg(c)),
                      stackPtr |-> Zero]]
       /\ inv' = [inv EXCEPT ![s] = NewInvocation]
  /\ Goto(c, "running")
  /\ UNCHANGED <<saved, stackBuf, kind, frames, target, runs, out, heap, rewritten>>

-----------------------------------------------------------------------------
(* Reading and rewriting the arguments *)

ArgRegs(s) == IF inv[s].hasSnap THEN saved[s].ints ELSE regs[s].ints

\* Mutant: argRegs forgets the snapshot
MaterialisedLive(s) == IF inv[s].args # Nothing THEN inv[s].args ELSE InRegs

\* c.args after Args(): materialised on first use, where the originals are
Materialised(s) ==
  IF inv[s].args # Nothing THEN inv[s].args
  ELSE IF inv[s].hasSnap THEN InSaved ELSE InRegs

\* the argument a reader of Args() finds: an in-place value is a reference
ArgSeen(s) ==
  LET a == Materialised(s)
  IN CASE a = InRegs -> regs[s].ints[1]
       [] a = InSaved -> saved[s].ints[1]
       [] OTHER -> a

ReadArgs(c) ==
  LET s == own[c] IN
  /\ "args" \in Habits
  /\ InInterceptor(c)
  /\ inv[s].args = Nothing
  /\ inv' = [inv EXCEPT ![s].args = Materialised(s)]
  /\ UNCHANGED <<pool, regs, saved, stackBuf, callVars, heap>>

SetArg(c) ==
  LET s == own[c] IN
  /\ "set" \in Habits
  /\ InInterceptor(c)
  /\ ~rewritten[c]
  /\ inv' = [inv EXCEPT ![s].args = New(c)]
  /\ heap' = heap \cup {New(c)}
  /\ rewritten' = [rewritten EXCEPT ![c] = TRUE]
  /\ UNCHANGED <<pool, regs, saved, stackBuf, pc, kind, own, frames, target, runs, out>>

-----------------------------------------------------------------------------
(* Proceed and callTarget *)

\* Dispatch calls Proceed once; an interceptor as often as it likes
MayProceed(c) ==
  /\ pc[c] = "running"
  /\ TopFrame(c).tries < (IF Top(c) = 1 THEN 1 ELSE MaxProceed)

\* Mutant: one link too many
ChainLeftOffByOne(s) == inv[s].next <= ChainLen

ChainLeft(s) == inv[s].next < ChainLen

ProceedToInterceptor(c) ==
  LET s == own[c] IN
  /\ MayProceed(c)
  /\ ChainLeft(s)
  /\ inv' = [inv EXCEPT ![s].next = @ + 1]
  /\ frames' = [frames EXCEPT ![c] = Append(CountTry(@), NewFrame)]
  /\ UNCHANGED <<pool, regs, saved, stackBuf, pc, kind, own, target, runs, out, heap, rewritten>>

ProceedToMock(c) ==
  /\ MayProceed(c)
  /\ ~ChainLeft(own[c])
  /\ kind[c] = "mock"
  /\ frames' = [frames EXCEPT ![c] = Receive(CountTry(@), Zero, Zero)]
  /\ UNCHANGED <<dataVars, pc, kind, own, target, runs, out, heap, rewritten>>

\* Mutant: the fast path ignores materialised arguments
OnFastPathAlways(c) == kind[c] = "static"

OnFastPath(c) == inv[own[c]].args = Nothing /\ kind[c] = "static"

\* the callState's registers once the receiver is rebound to the target
Rebound(ints) == [ints EXCEPT ![0] = TargetData]

(***************************************************************************)
(* The register fast path: the first one snapshots the argument registers, *)
(* a later one replays them from the snapshot; then redial loads the       *)
(* registers and calls the target's code.                                  *)
(***************************************************************************)
ProceedFast(c) ==
  LET s == own[c]
      ints == Rebound(ArgRegs(s))
  IN
  /\ MayProceed(c)
  /\ ~ChainLeft(s)
  /\ OnFastPath(c)
  /\ saved' = IF inv[s].hasSnap THEN saved
              ELSE [saved EXCEPT ![s] = [ints |-> regs[s].ints, ptrs |-> regs[s].ptrs]]
  /\ inv' = [inv EXCEPT ![s].hasSnap = TRUE]
  /\ regs' = [regs EXCEPT ![s] = [ints |-> ints, ptrs |-> Rebound(@.ptrs),
                                   stackPtr |-> @.stackPtr]]
  /\ target' = [target EXCEPT ![c] = [regs |-> ints, fast |-> TRUE]]
  /\ frames' = [frames EXCEPT ![c] = CountTry(@)]
  /\ runs' = [runs EXCEPT ![c] = @ + 1]
  /\ Goto(c, "target")
  /\ UNCHANGED <<pool, stackBuf, kind, own, out, heap, rewritten>>

\* targetFn.Call(c.Args()): the arguments go by value, through reflect
ProceedReflect(c) ==
  LET s == own[c] IN
  /\ MayProceed(c)
  /\ ~ChainLeft(s)
  /\ kind[c] # "mock" /\ ~OnFastPath(c)
  /\ inv' = [inv EXCEPT ![s].args = Materialised(s)]
  /\ target' = [target EXCEPT ![c] =
                  [regs |-> Registers(TargetData, ArgSeen(s)), fast |-> FALSE]]
  /\ frames' = [frames EXCEPT ![c] = CountTry(@)]
  /\ runs' = [runs EXCEPT ![c] = @ + 1]
  /\ Goto(c, "target")
  /\ UNCHANGED <<pool, regs, saved, stackBuf, kind, own, out, heap, rewritten>>

(***************************************************************************)
(* redial stores the result registers over the argument registers and      *)
(* returns nil with c.direct set; reflect hands the results back.          *)
(***************************************************************************)
TargetReturns(c) ==
  LET s == own[c]
      r == Ret(c, runs[c])
  IN
  /\ pc[c] = "target"
  /\ heap' = heap \cup {r}
  /\ IF target[c].fast
     THEN /\ regs' = [regs EXCEPT ![s].ints = Registers(r, Junk)]
          /\ inv' = [inv EXCEPT ![s].direct = TRUE]
          /\ frames' = [frames EXCEPT ![c] = Receive(@, Nil, r)]
     ELSE /\ frames' = [frames EXCEPT ![c] = Receive(@, r, r)]
          /\ UNCHANGED <<regs, inv>>
  /\ Goto(c, "running")
  /\ UNCHANGED <<pool, saved, stackBuf, kind, own, target, runs, out, rewritten>>

-----------------------------------------------------------------------------
(* Returning from an interceptor, and panics *)

ReturnFrom(c, r, m) ==
  /\ frames' = [frames EXCEPT ![c] = Receive(Pop(@), r, m)]
  /\ UNCHANGED <<dataVars, pc, kind, own, target, runs, out, rewritten>>

\* return c.Proceed()
ReturnProceeded(c) ==
  /\ InInterceptor(c)
  /\ TopFrame(c).rets # Nothing
  /\ ReturnFrom(c, TopFrame(c).rets, TopFrame(c).means)
  /\ UNCHANGED heap

\* results of the interceptor's own, whether or not it called Proceed
ReturnOwn(c) ==
  /\ "own" \in Habits
  /\ InInterceptor(c)
  /\ ReturnFrom(c, Own(c), Own(c))
  /\ heap' = heap \cup {Own(c)}

TargetPanics(c) ==
  /\ "panic" \in Habits
  /\ pc[c] = "target"
  /\ Goto(c, "unwinding")
  /\ UNCHANGED <<dataVars, kind, own, frames, target, runs, out, heap, rewritten>>

InterceptorPanics(c) ==
  /\ "panic" \in Habits
  /\ InInterceptor(c)
  /\ Goto(c, "unwinding")
  /\ frames' = [frames EXCEPT ![c] = Pop(@)]
  /\ UNCHANGED <<dataVars, kind, own, target, runs, out, heap, rewritten>>

Unwind(c) ==
  /\ pc[c] = "unwinding"
  /\ Top(c) > 1
  /\ frames' = [frames EXCEPT ![c] = Pop(@)]
  /\ UNCHANGED <<dataVars, pc, kind, own, target, runs, out, heap, rewritten>>

\* the interceptor swallows the panic: its Proceed produced no results
Recover(c) ==
  /\ "recover" \in Habits
  /\ pc[c] = "unwinding"
  /\ Top(c) > 1
  /\ frames' = [frames EXCEPT ![c] = Receive(@, Nil, Zero)]
  /\ Goto(c, "running")
  /\ UNCHANGED <<dataVars, kind, own, target, runs, out, heap, rewritten>>

\* what only a call that is over used to point at no longer matters
Forget(c) == {o \in heap : o.call = c}

\* no defer: a panic through Dispatch leaves its callState to the collector
Abandon(c) ==
  LET s == own[c] IN
  /\ pc[c] = "unwinding"
  /\ Top(c) = 1
  /\ Goto(c, "panicked")
  /\ own' = [own EXCEPT ![c] = NoState]
  /\ regs' = [regs EXCEPT ![s] = FreshRegs]
  /\ saved' = [saved EXCEPT ![s] = FreshSaved]
  /\ stackBuf' = [stackBuf EXCEPT ![s] = Zero]
  /\ inv' = [inv EXCEPT ![s] = NewInvocation]
  /\ heap' = heap \ Forget(c)
  /\ UNCHANGED <<pool, kind, frames, target, runs, out, rewritten>>

-----------------------------------------------------------------------------
(* storeResults and the tail of Dispatch *)

\* Mutant: results of an interceptor's own are suppressed too
DirectAlways(c) == inv[own[c]].direct

StoredDirectly(c) == inv[own[c]].direct /\ TopFrame(c).rets = Nil

\* Mutant: a stack result is scattered without its mirror
ToStackUnmirrored(s, v) == regs

(***************************************************************************)
(* scatterValue: the word goes into a register or into the stack buffer;   *)
(* since no one scans either, its mirror in regBuf goes with it.           *)
(***************************************************************************)
ToStack(s, v) == [regs EXCEPT ![s].stackPtr = v]
ToRegister(s, v) ==
  [regs EXCEPT ![s] = [ints |-> [@.ints EXCEPT ![0] = v],
                       ptrs |-> [@.ptrs EXCEPT ![0] = v],
                       stackPtr |-> @.stackPtr]]

StoreResults(c) ==
  LET s == own[c]
      v == IF TopFrame(c).rets = Nil THEN Zero ELSE TopFrame(c).rets
  IN
  /\ pc[c] = "running"
  /\ Top(c) = 1
  /\ TopFrame(c).rets # Nothing
  /\ \/ /\ StoredDirectly(c)
        /\ UNCHANGED <<regs, stackBuf>>
     \/ /\ ~StoredDirectly(c) /\ kind[c] = "stack"
        /\ stackBuf' = [stackBuf EXCEPT ![s] = v]
        /\ regs' = ToStack(s, v)
     \/ /\ ~StoredDirectly(c) /\ kind[c] # "stack"
        /\ regs' = ToRegister(s, v)
        /\ UNCHANGED stackBuf
  /\ Goto(c, "stored")
  /\ UNCHANGED <<pool, saved, inv, kind, own, frames, target, runs, out, heap, rewritten>>

ResultWord(c) ==
  IF kind[c] = "stack" THEN stackBuf[own[c]] ELSE regs[own[c]].ints[0]

\* ri := regs.ints, and the stack results copied back to the caller's area
LoadResults(c) ==
  /\ pc[c] = "stored"
  /\ out' = [out EXCEPT ![c] = ResultWord(c)]
  /\ Goto(c, "loaded")
  /\ UNCHANGED <<dataVars, kind, own, frames, target, runs, heap, rewritten>>

\* Mutant: the callState goes back to the pool before its results are read
PutStateEarly(c) ==
  /\ pc[c] = "stored"
  /\ own[c] \notin pool
  /\ pool' = pool \cup {own[c]}
  /\ UNCHANGED <<regs, saved, stackBuf, inv, callVars, heap>>

PutState(c) ==
  /\ pc[c] = "loaded"
  /\ pool' = pool \cup {own[c]}
  /\ own' = [own EXCEPT ![c] = NoState]
  /\ Goto(c, "put")
  /\ UNCHANGED <<regs, saved, stackBuf, inv, kind, frames, target, runs, out, heap, rewritten>>

Return(c) ==
  /\ pc[c] = "put"
  /\ Goto(c, "done")
  /\ heap' = heap \ (Forget(c) \ {out[c]})
  /\ UNCHANGED <<dataVars, kind, own, frames, target, runs, out, rewritten>>

-----------------------------------------------------------------------------
(* The collector *)

\* the words of a callState typed as pointers; ints and stackBuf are not
Scanned(s) ==
  {regs[s].ptrs[r] : r \in Regs} \cup {saved[s].ptrs[r] : r \in Regs}
    \cup {regs[s].stackPtr, inv[s].args}

OnStack(c) ==
  CASE pc[c] = "idle" -> {Arg(c)}
    [] pc[c] = "entered" -> PrePtrs(c)
    [] pc[c] \in {"running", "unwinding"} -> {frames[c][i].rets : i \in 1..Top(c)}
    [] pc[c] = "target" ->
         {frames[c][i].rets : i \in 1..Top(c)} \cup {target[c].regs[r] : r \in Regs}
    [] pc[c] = "done" -> {out[c]}
    [] OTHER -> {}

Reachable ==
  (UNION {OnStack(c) : c \in Calls}) \cup (UNION {Scanned(s) : s \in pool \cup Owned})

(***************************************************************************)
(* A collection frees every object no scanned word points at, and          *)
(* sync.Pool drops any part of what it holds.                              *)
(***************************************************************************)
Collect ==
  /\ heap' = heap \cap Reachable
  /\ \E dropped \in SUBSET pool :
       /\ pool' = pool \ dropped
       /\ regs' = [s \in States |-> IF s \in dropped THEN FreshRegs ELSE regs[s]]
       /\ saved' = [s \in States |-> IF s \in dropped THEN FreshSaved ELSE saved[s]]
       /\ stackBuf' = [s \in States |-> IF s \in dropped THEN Zero ELSE stackBuf[s]]
       /\ inv' = [s \in States |-> IF s \in dropped THEN NewInvocation ELSE inv[s]]
  /\ UNCHANGED callVars

Step(c) ==
  \/ Enter(c) \/ GetState(c) \/ ReadArgs(c) \/ SetArg(c)
  \/ ProceedToInterceptor(c) \/ ProceedToMock(c)
  \/ ProceedFast(c) \/ ProceedReflect(c)
  \/ TargetReturns(c) \/ TargetPanics(c)
  \/ ReturnProceeded(c) \/ ReturnOwn(c)
  \/ InterceptorPanics(c) \/ Unwind(c) \/ Recover(c) \/ Abandon(c)
  \/ StoreResults(c) \/ LoadResults(c) \/ PutState(c) \/ Return(c)

Next ==
  \/ \E c \in Calls : Step(c)
  \/ Collect

Spec == Init /\ [][Next]_vars

-----------------------------------------------------------------------------
(* Properties *)

Labels == {"idle", "entered", "running", "target", "unwinding", "stored",
           "loaded", "put", "done", "panicked"}
RegBuf == [ints : [Regs -> Word], ptrs : [Regs -> Word], stackPtr : Word]
Snapshot == [ints : [Regs -> Word], ptrs : [Regs -> Word]]
Invocation == [next : 0..ChainLen, args : ArgsField,
               hasSnap : BOOLEAN, direct : BOOLEAN]
FrameType == [rets : Rets, means : Rets, tries : 0..MaxProceed]
TargetCall == [regs : [Regs -> Word], fast : BOOLEAN]

\* Every variable keeps to its domain; the chain index stays within the chain
\* and the frames within the interceptors entered (Invocation, callState).
TypeOK ==
  /\ pool \subseteq States
  /\ regs \in [States -> RegBuf]
  /\ saved \in [States -> Snapshot]
  /\ stackBuf \in [States -> Word]
  /\ inv \in [States -> Invocation]
  /\ pc \in [Calls -> Labels]
  /\ kind \in [Calls -> Kinds]
  /\ own \in [Calls -> States \cup {NoState}]
  /\ frames \in [Calls -> Seq(FrameType)]
  /\ \A c \in Calls : Top(c) \in 1..(ChainLen + 1)
  /\ target \in [Calls -> TargetCall]
  /\ runs \in [Calls -> Nat]
  /\ out \in [Calls -> Word]
  /\ heap \subseteq Word
  /\ rewritten \in [Calls -> BOOLEAN]

InFlight(c) == own[c] # NoState

\* Until Put, a callState belongs to one call: no other call works on it and
\* the pool does not hand it out (statePool.Get and Put in Dispatch).
ExclusiveState ==
  \A c \in Calls : InFlight(c) =>
    /\ own[c] \notin pool
    /\ \A d \in Calls : own[d] = own[c] => d = c

\* the argument the target must see, whatever path the call takes
Wanted(c) == IF rewritten[c] THEN New(c) ELSE Arg(c)

\* After any sequence of Proceed, Args and SetArg, on either path, with results
\* already over the live registers or not, the target is called on itself with
\* the caller's argument, or the one an interceptor replaced it by, and an
\* interceptor that reads the arguments finds the same (callTarget, argRegs).
ArgsPreserved ==
  \A c \in Calls :
    /\ pc[c] = "target" =>
         target[c].regs = Registers(TargetData, Wanted(c))
    /\ pc[c] \in {"running", "target", "unwinding"} => ArgSeen(own[c]) = Wanted(c)

\* As long as an interceptor or the target may still use it, no collection
\* frees that argument, although ints holds it unscanned (prePtrs, regBuf.ptrs
\* and the ptrs of the snapshot).
ArgsAlive ==
  \A c \in Calls :
    pc[c] \in {"entered", "running", "target", "unwinding"} => Wanted(c) \in heap

\* A result storeResults scattered into the unscanned registers or stack buffer
\* is not freed before Dispatch gives the callState back (mirrorStepPtr).
StoredResultAlive ==
  \A c \in Calls :
    /\ pc[c] = "stored" /\ ~StoredDirectly(c) => ResultWord(c) \in heap \cup {Zero}
    /\ pc[c] = "loaded" /\ ~StoredDirectly(c) => out[c] \in heap \cup {Zero}

\* The caller receives the result the outermost Proceed stands for: that of the
\* last run of the target its interceptors passed on, in the registers or as a
\* value, or the one an interceptor put in its place (callTarget, storeResults).
\* Zero results are left out: SwallowedPanicGivesZeros is about them.
DeliveredIsMeant ==
  \A c \in Calls :
    LET m == frames[c][1].means IN
    pc[c] = "done" /\ (m # Zero \/ kind[c] = "mock") => out[c] = m

-----------------------------------------------------------------------------
(* The call path implements the value semantics of AroundAdvice *)

PhaseOf(c) ==
  CASE pc[c] \in {"idle", "entered"} -> "idle"
    [] pc[c] = "done" -> "over"
    [] pc[c] = "panicked" -> "panicked"
    [] OTHER -> "open"

GivenOf(c) ==
  CASE runs[c] = 0 -> "none"
    [] target[c].regs[1] = Arg(c) -> "original"
    [] target[c].regs[1] = New(c) -> "replaced"
    [] OTHER -> "garbage"

Outcome(by, n) == [by |-> by, run |-> n]
OutcomeOf(c) ==
  IF pc[c] # "done" THEN Outcome("none", 0)
  ELSE CASE out[c] = Own(c) -> Outcome("interceptor", 0)
         [] out[c] = Zero -> Outcome("nobody", 0)
         [] out[c] = Ret(c, runs[c]) -> Outcome("target", runs[c])
         [] OTHER -> Outcome("garbage", 0)

Abstract == INSTANCE AroundAdvice WITH
  phase <- [c \in Calls |-> PhaseOf(c)],
  current <- [c \in Calls |-> IF rewritten[c] THEN "replaced" ELSE "original"],
  runs <- runs,
  given <- [c \in Calls |-> GivenOf(c)],
  outcome <- [c \in Calls |-> OutcomeOf(c)]

\* Seen through the mapping, every step of the call path is a step of the
\* value semantics or none: pooled memory, the snapshot, values described in
\* place and results left in registers do not show (as long as no interceptor
\* swallows a panic: SwallowedPanicGivesZeros).
ImplementsAroundAdvice == Abstract!Spec

-----------------------------------------------------------------------------
(* What the documentation says and the code does not do *)

\* "zeros holds the zero value of every result, used when nobody calls Proceed
\* or when the target panics and the panic is swallowed" (invocation.go:32-33).
SwallowedPanicGivesZeros ==
  \A c \in Calls :
    pc[c] = "done" /\ frames[c][1].means = Zero => out[c] = Zero

\* "Proceed may be called more than once; every call re-executes the remaining
\* chain and the target" (invocation.go:132-133): no run of the target has
\* skipped an interceptor.
EveryInterceptorRuns ==
  \A c \in Calls : pc[c] = "target" => Top(c) = ChainLen + 1

\* The result the caller receives has not been collected on its way out:
\* "a collection between the scatter and dispatch copying them back to the
\* caller's argument area would otherwise drop them" (materialize.go:207-210).
DeliveredAlive ==
  \A c \in Calls : pc[c] = "done" => out[c] \in heap \cup {Zero}
=============================================================================
