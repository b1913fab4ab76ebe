# A TLA+ project for go-weave

go-weave builds interface proxies at run time: a forged itab whose methods all
lead into assembly trampolines, a `Dispatch` that runs an interceptor chain on
the spilled registers of the call, and two packages on top of it, `chaos` (fault
injection) and `mockito` (mocks and spies).  This directory models the parts of
it that have state worth exploring, checks them with TLC on small instances, and
proves the most important properties with TLAPS for every value of the constants.

Paths below are relative to the repository (`src/`).

## 1. Inventory

| Component | Source | State | Operations | Here |
|---|---|---|---|---|
| Call path | `dispatch_*.go`, `invocation.go`, `materialize.go`, `redial_*.s` | pool of `callState`s: live registers (`ints`, mirror `ptrs`, `stackPtr`), snapshot `saved`, `stackBuf`, `Invocation{next,args,hasSnap,direct}` | `Dispatch`, `Proceed`, `callTarget`, `Args`, `SetArg`, `storeResults` | `CallPath`, `AroundAdvice`, `CallPathProofs` |
| ABI layout | `abi*.go`, `tramp.go`, `precise.go` | `abiSeq` steps, register counts, stack bytes; the shape's pointer maps | `addRcvr`, `addArg`, `newABILayout`, `newTrampoline` | `Layout`, `LayoutProofs` |
| Proxies and itabs | `proxy.go`, `rt.go` | a forged itab per interface type and target | `New`, `NewOf`, `slotCode`, `forgeITab` | `Layout` (`newMethod`'s choice), `Registry` |
| Runtime JIT | `jit*.go`, `jitcode_*.go`, `jitmem*.go`, `moduledata_*.go` | stubs by shape under `jitMu`; roots; the runtime's module list | `jitStubCode`, `encodePCSP`, `buildJITModule`, `jitTrampoline`, `registerModule` | `PCTable`, `Amd64`, `Arm64`, `Encodings`, `Trampoline`, `TrampolineProofs`; `MemoTable`, `Registry`, `RegistryProofs` |
| Chaos rules | `chaos/chaos.go` | a rule set; the compiled plan | `validateSet`, `match` | `RuleSet`, `InjectorProofs` |
| Chaos injector | `chaos/chaos.go`, `chaos/inject.go` | current plan, binders' tables, budgets, sampling counters | `New`, `Set`, `Disable`, `Enable`, `intercept` | `Injector`, `InjectorProofs` |
| Chaos specs | `chaos/spec.go`, `chaos/chaos.go` | none of its own; the rules and slices handed over | `Spec.Rule`, `check`, `Set`, `Rules`, `Disable`, `Enable` | `ControlPlane`, `ControlPlaneProofs` |
| Mockito | `mockito/*.go` | call log and marks, stubs, goroutine-keyed last call and matchers, order cursors | calls, `When`, `Verify`, `Timeout`, `InOrder`, `Any` | `Mockito`, `MockitoProofs` |
| Goroutine keys, runtime links | `internal/gls`, `internal/rt` | none | | not modelled |
| Examples, scripts | `examples/`, `scripts/` | none | | not modelled |

How they interact.  `proxy.go` asks the layout for each method where its words
travel and which trampoline describes them to the collector; the trampoline
spills the registers and calls `Dispatch`; `Dispatch` takes a `callState` from a
pool all calls share and runs the interceptors, which call back into `Proceed`.
The garbage collector is a further actor at every point that may allocate: the
register words are raw integers to it, and the code keeps typed mirrors.  Chaos
and mockito are interceptors: every one of their calls arrives on an arbitrary
goroutine, while their control operations (`Set`; `When`, `Verify`) run on others.

Which behaviours are hard, and what makes each part correct:

* **Call path.**  The register fast path destroys the argument registers and
  leaves results in them, arguments may be values described *in place*,
  interceptors may run the target again, replace arguments, panic or recover,
  and the memory comes back from a pool.  Correct means: the target always gets
  the caller's argument or its replacement, the caller gets the result the chain
  stands for, calls do not disturb each other, and nothing in use is freed.
* **Layout.**  Greedy register assignment with backtracking, alignment and
  offsets.  Correct means: what the Go compiler would do, no register or byte
  used twice, and the pointer maps say exactly what is a pointer.
* **Injector.**  Lock-free readers against a control plane: a plan is read, then a
  table, then a budget, then a counter.  Correct means: one plan decides a call,
  the owner in that plan acts, when it is due, about as often as promised.
* **Mockito.**  `When(m.Hello("x"))` is three steps of one goroutine, and others
  call the mock in between.  Correct means: stubs and verifications are about
  the right call, and counts, marks and order are those of the calls under test.
* **JIT.**  The code of a trampoline exists only as bytes the package emits, and the
  runtime may stop in it at any instruction.  Correct means: `Dispatch` gets the
  call, the caller its results, and the tables say where the frame and its
  pointers are.  A trampoline's module must be on the runtime's list, walked
  without `jitMu`, before its code runs, once per shape; what it needs must stay
  reachable; and a failed allocation must not be cached.
* **Control plane.**  Rules are values that share slices with whoever pushed
  them.  Correct means: what is injected is what the documents said when they
  were set, and nothing done to those slices later shows.

`PROJECT.json` lists the hazards line by line with the properties that cover them.

## 2. Plan

| # | Module | Composes or refines | Runs | Proofs | State |
|---|---|---|---|---|---|
| 1 | `CallPath` | pool, registers, chain, collector | `callpath`, two divergences | type and five safety invariants | done |
| 2 | `AroundAdvice` | abstract specification of a call; `CallPath` implements it | `callpath_refines` | step simulation, without `Recover` | done |
| 3 | `RuleSet` | used by `Injector` | through `injector` | validation gives a strict order; `Match` finds the owner | done |
| 4 | `Injector` | EXTENDS `RuleSet` | `injector` | type and all five safety invariants | done |
| 5 | `Mockito` | | `mockito`, one divergence | type and all six safety invariants | done |
| 6 | `Layout` | | `layout` | type and all six safety invariants | done |
| 7 | `Registry` | `jitTrampoline` and `registerModule` against stack scans and the collector; implements `MemoTable` | `registry`, with liveness | type, slots, list, scans, the refinement | done |
| 8 | `Trampoline` | EXTENDS `Encodings`, which composes `Amd64` and `Arm64` (emit and decode code) and `PCTable` (encodes and reads tables) | `trampoline`, one divergence | type and all four safety invariants, the table's round trip | done |
| 9 | `ControlPlane` | EXTENDS `RuleSet` | `control_plane` | type and what is injected | done |
| 10 | liveness of calls | a call whose target returns is delivered; a waiting verification ends | to come | out of the prover's reach | planned |

## 3. The modules

### `CallPath`

One proxied call from trampoline to caller, any number of them in flight.  A
method has one pointer argument and one pointer result, so every word is a record
naming the object it points at, and "the right word" and "still allocated" are
both plain statements.  `Kinds` tells the three ways `callTarget` goes (`static`:
redial through registers; `stack`, `bound`: through reflect; `mock`: no target).
`Habits` are what interceptors do besides proceeding; each is an action they may
or may not take.

| Model | Code |
|---|---|
| `Enter`, `PrePtrs` | the first lines of `Dispatch`, before anything allocates |
| `GetState` | `statePool.Get`, register copy, `inv` reset; snapshot and stack buffer stay as they were |
| `ReadArgs`, `SetArg` | `Args`, `SetArg` with `argRegs` and `materializeArgs` |
| `ProceedToInterceptor`, `ProceedToMock`, `ProceedFast`, `ProceedReflect` | the four ways out of `Proceed` and `callTarget` |
| `TargetReturns`, `TargetPanics` | `redial` or `reflect.Value.Call` coming back |
| `ReturnProceeded`, `ReturnOwn`, `InterceptorPanics`, `Unwind`, `Recover`, `Abandon` | the interceptor's and the panicking side of the chain; `Dispatch` has no defer |
| `StoreResults`, `LoadResults`, `PutState`, `Return` | `storeResults` and the tail of `Dispatch` |
| `Collect` | a collection at any moment: frees what no scanned word points at, and empties any part of the pool |

`frames[c][i].means` remembers what an interceptor's return value stands for: on
the fast path `Proceed` returns nil while the result is in a register.  It is a
history variable, as are `rewritten` and `runs`.  `Recover` is off in the runs
for which it would only repeat the divergence of `callpath_swallow`.

### `AroundAdvice`

The value semantics promised to authors of interceptors: while a call is open the
argument may be replaced, the target may run any number of times and each run
gets the argument in force, and the caller receives the last run's result, an
interceptor's own, or zero.  `CallPath` ends with the refinement mapping.

### `RuleSet` and `Injector`

`RuleSet` holds the conditions of rules: which sets `validateSet` accepts, which
rule `match` finds, and the definitions the package documentation uses (covers,
more specific, owns).  `Injector` adds time and goroutines.  Plans and tables are
numbered in the order they are published, so that *the pointer equals* becomes
*the number equals*.  Every atomic load, store and add of `intercept` and
`resolve` is one action; the control operations are one action each, since they
hold `in.mu` and calls see them only through the one store of the plan.  Rates
are a set of sampled ordinals per rule (the hash is a fixed function of the
ordinal), durations are whether a rule delays, and a clock gives the windows.

### `Mockito`

One mock.  Each critical section of `state.mu` is one action, and the
goroutine-keyed maps are functions on goroutines.  `Trigger`, `PopLast`,
`Rollback` are the three steps of a recording; `Rollback` then goes on as the
Stubber, Verifier or InOrder it was for.  `made` numbers the calls, so the history
variables (`real`, `marked`, `passed`, `leaked`, `trigger`) can say which call an
entry of the log is.  A trigger may panic, whatever answers it (a stub told to, an
answer, a spy's target, results that do not fit), and then never gets to its rollback.

### `Layout`

The signature is built one value at a time as `newABILayout` walks it, so every
prefix of every signature over `Types` is a state.  A type is what the code asks
reflect about it: size, alignment, the register parts of `regAssign`'s walk, and
the pointer offsets.  `NewTrampoline` is the choice `newTrampoline` makes;
the memory `jitTrampoline` needs may be missing, so a precise one may be `none`.

The comment at `abi.go:10-12` says that a value that does not fit goes to the
stack *and everything after it stays on the stack*; `addArg` (`abi.go:74-92`)
restores the registers and lets later values use them, which is what the Go ABI
does.  The operator `UntilStack` is the rule of the comment: put in the code's
place it breaks `GreedyFit`.  The comment at `dispatch_amd64.go:80-82` is out of date
too: it says that layouts with pointers in their stack arguments are rejected, but
`newTrampoline` makes a precise trampoline for them, whose map has their words
(`PointersExact`).

### `Trampoline`, `Encodings`, `Amd64`, `Arm64`, `PCTable`

`Amd64` and `Arm64` have, for each mnemonic the generators use, the bytes the
assembler of `jitcode_*.go` makes of it, the sequence `jitStubCode` emits for a
shape, and the entries of its stack pointer table.  What the processor reads in
those bytes (`Decode`) is external and written from the instruction sets, not
from the assembler, so that a wrong bit in an encoding is a wrong instruction or
none.  `PCTable` has the pairs `encodePCSP` writes and, external, the runtime's
reader; `Encodings` puts the instructions of a listing, or the pairs of a table,
one after the other into the bytes the code appends.

A listing has one place for every word of results, with no bytes in it for a word that
is not cleared, so that the place of an instruction in the listing depends on the
widths of a shape only.  `Decode` goes field by field, as a processor does: prefix,
opcode, operand.  A varint is written in as many groups of seven bits as a 32-bit
number needs, and the table is read pair by pair (`Step`).

`Trampoline` executes the result.  Memory is the goroutine's stack in words;
a value is a tag and what it is about (`In(r)`: what register r held at entry).
One action per kind of instruction; `DispatchStores` and `DispatchReturns` do
what `Dispatch`'s signature lets it do to registers and to its own frame area;
`AsyncPreempt` overwrites all a signal may overwrite, between any two
instructions.  The properties read the tables as the runtime does, from the
bytes of `buildJITModule`'s `gofunc` block and stack pointer table.

`CallerRestored` needs one exception on arm64 (`Protected`).  The prologue saves the
frame pointer and the link register below the stack pointer (`STP R29, R30, [R20, #-8]`)
and moves it only with the next instruction (`jitcode_arm64.go:133-135`).  A signal
that switches to `asyncPreempt` between the two opens its frame over what was saved,
and the model lets it overwrite that.  `Trampoline.cfg` leaves this one point out, so
`CallerRestored`, and `Unwinds` as far as it says where the return address is, claim
nothing of a call preempted there.  `TrampolineLink.cfg` puts the point back, and TLC
finds that the caller does not get its registers back (`LinkRestored`).

### `Registry` and `MemoTable`

The package's `init` (the goroutine `Main`) fills the stubs of the generic slots;
then goroutines call `NewOf`.  The model follows the code of a method at a time:

| Model | Code |
|---|---|
| `NewOf`, `SlotCode`, `TooWide`, `Forge`, `Recover` | `NewOf`, `slotCode`, `newTrampoline`, `forgeITab`, and a caller that recovers the panic |
| `Lock`, `Hit`, `AllocFails`, `Alloc`, `Cache` | `jitTrampoline` under `jitMu`: the lookup, the memory that may be missing, the last lines |
| `BuildJITModule`, `Link`, `MoveTail`, `Root` | `buildJITModule`'s roots, the two assignments of `registerModule`, the module's root |
| `Collect`, `StartScan`, `Scan` | the collector and `findfunc`'s walk of the module list; external |

`MemoTable` is the abstract table: a shape has one code for good, no two shapes
share one, a failed request leaves no trace.

### `ControlPlane`

Documents become rules (`Spec.Rule`, `SpecAction.action`), rules are checked, cloned
and compiled (`rebuild`).  `shared` says whether the client's slices of actions are
the injector's; `Edit` is a client that writes into one.  `inForce` is a history
variable: what the rules meant when they were set, by `Meaning`, which applies a
list of actions one by one as the package documentation describes it, where the
code adds latencies up and keeps the last error and panic.

## 4. Runs

Passing runs:

| Run | What it shows |
|---|---|
| `callpath` | two calls over two pooled states, one interceptor with every habit, all four kinds of target, collections anywhere: `ExclusiveState`, `ArgsPreserved`, `ArgsAlive`, `StoredResultAlive`, `DeliveredIsMeant` |
| `callpath_refines` | two calls that fight for one pooled state, chain of two: every step is a step of `AroundAdvice` or none |
| `injector` | two goroutines, two proxies, a layered and a budgeted rule set and one that is rejected, `Set`, `Disable` and `Enable` at any time, a clock that goes from before a window to after it: `CallUsesItsPlan`, `OwnerDecides`, `FaultsAreDue`, `OrdinalsDistinct`, `BoundedOverrun` |
| `mockito` | two goroutines that both call and record: `RecordsItsTrigger`, `LogLengthExact`, `LogIsReal`, `MarksFollowCalls`, `CursorIsPast`, `AtLeastStands` |
| `trampoline` | both architectures, stack areas at the edges of what a shape can be, a preemption between any two instructions but arm64's `STP` and the `ADD` behind it (`Protected`): `DispatchGetsTheCall`, `MapIsTrue`, `CallerRestored`, `Unwinds` |
| `registry` | `init`, then two goroutines that build proxies with shared and distinct shapes, memory that runs out, scans and collections between any two steps: `SlotsMatch`, `ListKeepsAll`, `ScanIsSafe`, `ConstructionEnds`, `ImplementsMemoTable` |
| `control_plane` | documents with every list of up to two actions and every reason to reject one, pushed, read back and written into: `PlanIsWhatWasSet` |
| `layout` | all signatures of three arguments and two results over nine types: `RegistersExclusive`, `ValuesWhole`, `StackDisjoint`, `GreedyFit`, `PointersExact`, `GatherDisjoint` |

Runs that find the code and its own comments or documentation apart:

| Run | The statement | What the code does |
|---|---|---|
| `callpath_swallow` | a swallowed panic gives zero results (`invocation.go:32-33`) | a `direct` left over from an earlier `Proceed` keeps the argument words in the result registers |
| `callpath_result` | results are mirrored so that a collection cannot drop them (`materialize.go:207-210`) | true of `storeResults`, not of what `redial` stores |
| `mockito_rollback` | rollback removes the trigger (`mockito/mock.go:138-139`) | it removes the last call, whoever made it |
| `trampoline_unwind` | a preemption in the prologue or the epilogue still unwinds to the right frame (`jit.go:159`) | `encodePCSP` (`jit.go:183`) writes differences of byte offsets, the runtime multiplies them by `PCQuantum`, 4 on arm64 (`docs/en/04-pclntab.md:136-137`): the first range reaches four times as far as meant |

Further configurations reproduce disagreements that are smaller, or of which a
listed run already shows the kind.  They are not among the listed runs; TLC finds
each violated:

| cfg | Property | What it shows |
|---|---|---|
| `CallPathChain.cfg` | `EveryInterceptorRuns` | `next` is never put back: a second `Proceed` goes straight to the target (`invocation.go:132-133`) |
| `InjectorMaxCount.cfg` | `MaxCountHolds` | check and count are two steps (`chaos/chaos.go:140`) |
| `InjectorDisable.cfg` | `CountSurvivesDisable` | `Disable` and `Enable` start the count over (`chaos/chaos.go:142-143`) |
| `MockitoSequence.cfg` | `OneGroupPerCall` | a trigger consumes a group of `ThenReturn` (`mockito/README.md:80-81`) |
| `TrampolineLink.cfg` | `LinkRestored` | arm64's `STP` saves the frame and link registers below a stack pointer that the next instruction moves (`jitcode_arm64.go:134-135`); a preemption between the two, which `jit.go:157-159` reckons with, overwrites them, and `LDP` (`jitcode_arm64.go:164`) does not "restore FP and LR" |
| `ControlPlaneOverflow.cfg` | `PlanIsWhatWasSet` | a sum of latencies overflows `int64` and the delay is skipped (`chaos/chaos.go:283`) |

Each passing property holds for the code as it is; where the statement above
fails, the property that does hold says how far (`BoundedOverrun`,
`LogLengthExact`, `LogIsReal` with its `intact`, `CallerRestored` with its `Protected`, `Unwinds`: on arm64 from inside
`Dispatch`, where every stack scan that is not an asynchronous preemption starts).

### Bounds

* `callpath`: two calls are enough for every hazard listed, since each is about
  one `callState` and its next user; two Proceeds give first-then-replay, which a
  third would only repeat (`hasSnap` and `direct` are then fixed).  `chain` of two
  in the refinement run gives an interceptor below another.
* `injector`: `MaxPlans` 2 and `MaxBindings` 2 let a call hold an old plan and a
  racing call put its older table over the new one, which the next call must not
  take.  `MaxCalls` 3 over two goroutines lets a budget of one be overrun and then be
  found spent.  The window begins and ends at 2 and the clock goes from 1 to
  `MaxClock` 3, so a call can come before, inside and after it, or begin inside and
  fault after.  `FaultsAreDue` has two mutants, each of which forgets one end of it.
* `mockito`: `MaxMade` 3 is a trigger, a call of another goroutine in the middle
  and one more, which the cursor and the marks can be wrong about.  It also caps
  what counts can reach, so `hi = MaxMade` is "no upper limit".
* `layout`: few registers (4 and 3) so that three arguments fill them; the window
  and the stub width are small so that both limits are met.
* `trampoline`: the shapes are the first and the last generic trampoline, one
  without any words, arguments of 0, 1, 7, 8, 14 to 17 words (where
  displacements outgrow a byte and maps a byte) and full windows of pointers.
  The parts of `DispatchAddress` are all different, so that a lost or misplaced
  one shows. A call takes about thirty steps, so executions end.
* `registry`: `SlotCount` 1 and `MaxMethods` 2 give a method with a stub and one beyond
  the last; the interfaces share a shape, differ in the index, differ in the area, and
  fail late.  `MaxPages` 4 is all shapes they ask for.
* `control_plane`: two actions are enough for one to follow the one that decides, and
  for latencies to add up.  `Width` 4 holds every sum; 3 does not.

The cfgs of `CallPath`, `Injector`, `Mockito` and `Layout` say `CHECK_DEADLOCK FALSE`:
calls come to an end, bounds are reached, and a signature is complete.  The other
three check deadlock.

### Fairness

`Registry` alone assumes fairness.  `Fairness` says two things of each goroutine:

* `WF_vars(Construct(t))`: one that can go on inside `NewOf` or `jitTrampoline` does.  There
  is nothing to wait for there, and the Go scheduler preempts running goroutines.
* `SF_vars(Lock(t))`: one that waits for `jitMu` gets it although others take it in
  between.  Weak fairness is not enough, since the mutex is not free all the time.
  `sync.Mutex` hands itself to a waiter that has waited a millisecond.

Nothing is assumed of clients (`NewOf`, `Recover`), of the collector or of scans.
`ConstructionEnds` then says that every construction ends with a proxy or a panic,
also after others failed.  No liveness is claimed elsewhere; the refinements are
of safety.

## 5. Proofs

All proofs are for every value of the constants, from the assumptions named in
the modules (`CallPathAssumption`, `RuleSetAssumption`, `InjectorAssumption`,
`MockitoAssumption`, `RegistryAssumption`, `LayoutAssumption`, `ControlPlaneAssumption`;
`ArchAssumption`, `ShapeAssumption` and `DispatchAssumption` of `Trampoline`)
and nothing else, but for the four theorems whose hypotheses are discussed below
(`CallPathImplementsAdvice`, `PlanAlwaysWhatWasSet`, `CallerGetsItsFrameBack`,
`UnwinderFindsTheCaller`).  Every invariant and refinement a passing run checks is
proved; `ConstructionEnds`, which is liveness, is not.

### The call path (`CallPathProofs`)

For any sets of calls and callStates, any chain length, and any habits and kinds:

* `TypeCorrect`: `Spec => []TypeOK`.
* `Exclusive`: `Spec => []ExclusiveState`.
* `ArgsAlwaysPreserved`, `ArgsAlwaysAlive`: arguments.
* `AlwaysDeliveredIsMeant`, `StoredResultAlwaysAlive`: results.

None of these is inductive alone.  The argument has three layers, each resting on
the ones before:

1. `Shape` adds to the type and exclusivity which labels go with having a
   callState, and how the chain index and the frames go together.  It says that
   a step of one call leaves the callState of another alone, which every later
   step uses (`OthersUntouched`).
2. `ArgsInv` says where the original argument of a call is at each moment
   (`Source`: in the live registers until the first fast path, then in the
   snapshot), that its mirror is with it, and what `c.args` may hold (`ArgsOf`).
   It implies both argument properties: what is in a mirror is `Reachable`,
   hence survives `Collect`.
3. `ResultsInv` says what a frame's return value stands for (`Carried`), that
   a nil which means a direct result has that result in register 0 (`Kept`),
   that a scattered result has its mirror (`Mirrored`), and that what Dispatch
   holds is what the outermost frame means (`Meant`).

`CallPathImplementsAdvice`: `Spec => ImplementsAroundAdvice`, by a step simulation
on top of the three layers: an action of `CallPath` is one of `AroundAdvice` or
changes none of the mapped variables.  `GetState` is `Open`, `SetArg` is `Replace`, the
steps that hand the target its argument are `Run`, `Abandon` is `Panic`, and `Return` is
`Finish`, where
`ResultsInv` says that what the caller gets is the last run's result, an
interceptor's own or zero.  The hypothesis is `"recover" \notin Habits`: an
interceptor that swallows a panic can make the caller receive argument words
(`callpath_swallow`), so without it the statement is false of the code, and
`callpath_refines` leaves the habit out for the same reason.

### Rule sets (`InjectorProofs`)

* `ValidIsStrictOrder`: for any rule set, `validateSet`'s two conditions on the
  set hold exactly when the rules that can meet on a call are strictly ordered by
  specificity.  The code checks two patterns; the theorem says no other pair can
  be ambiguous, and that neither check refuses a set that would have been fine.
* `MatchFindsOwner`: in a plan compiled from such a set, the four lookups of
  `match` find the rule that owns the call, and nothing only if no rule covers it.

### The injector (`InjectorProofs`)

For any number of goroutines, proxies, rule sets, plans, tables and calls:

* `InjectorTypeCorrect`, `CallAlwaysUsesItsPlan`, `OwnerAlwaysDecides` from the
  invariant `Routing`: published plans are valid and never change, a binder holds
  only tables made for it, and a call that is past `resolve` holds a table of the
  plan it loaded (`CallInv`).  It is needed because `cur` may go back to an older
  table; what saves the call is that it compares that table's plan with its own.
* `FaultsAlwaysDue`, from `WindowInv`: past the window check the call is due, and
  the clock does not go back.
* `OrdinalsAlwaysDistinct`, from `OrdinalInv`: an ordinal held is one its table's
  counter has passed.
* `OverrunAlwaysBounded`, from `BudgetInv`: the count plus the calls that have
  passed the check and not yet counted stays below `MaxCount` plus the number of
  goroutines.  The pending calls are what makes it inductive.

A step is either a call's own or leaves it `Untouched`, so each invariant is
proved once for a call's own steps and once for all others.

### The registry (`RegistryProofs`)

For any number of goroutines, interfaces, stubs and pages:

* `RegistryTypeCorrect`: `Spec => []TypeOK`, which includes that whoever is inside
  `jitTrampoline` holds `jitMu`.
* `SlotsAlwaysMatch`: `Spec => []SlotsMatch`.
* `RegistryImplementsMemoTable`: `Spec => ImplementsMemoTable`, the refinement.
* `ListAlwaysKeepsAll`: `Spec => []ListKeepsAll`.
* `ScanAlwaysSafe`: `Spec => []ScanIsSafe`.

The layers:

1. `Base`: the page a goroutine is making is the newest, made for the shape it wants,
   which the table does not have (`Own`); a code in the table was made for its shape
   and is no longer being made (`Table`); the codes a goroutine has collected are the
   table's (`Answers`); the stubs are complete before anything else runs (`Boot`).
2. `Slots`: so are the codes of an itab.  It holds on because the table only grows.
   With `Table` it gives `SlotsMatch`; and `Base` alone gives the refinement, in which
   `Hit`, `SlotCode` and `Cache` are the steps that answer.
3. `Walkable`: the list has the finished modules in the order they were made, with its
   tail at the last but between the two assignments of `registerModule` (`List`);
   what a module needs is rooted or on its maker's stack (`Alive`); a scan has not
   passed what it looks for (`Ahead`).  That what can run is on the list follows
   from `Slots`.  `ListKeepsAll` follows the list with a recursive function
   (`Walk`), whose value `List` and an induction along the modules give.

### Mockito (`MockitoProofs`)

For any goroutines, methods, values and assertions, and any bounds: `TypeCorrect`,
`RecordingIsItsOwn`, `LengthIsExact`, `LogHoldsRealCalls`, `MarksStayWithCalls`,
`CursorStaysPast` and `TimedAtLeastStands`, one for each property of the run.

They come from one invariant, `IInv`: the properties themselves and what their
steps need.  `Logs` and `Ordered` say that the entries of the log are numbered in
the order the calls were made, so that a call is in it at most once; `Histories`
that what was counted, passed or leaked has been made; `Typed`, that a
goroutine which is not idle is at work on a call of its own, with an assertion of
its own; `Finite`, that the sets whose sizes make up the length of the log are finite.
`LogSteps` and `RecordingSteps` reduce the many actions to the few things they do
to the log (nothing, append one call, drop the last, write marks), and each
property is then proved once for each of these.

### The layout (`LayoutProofs`)

For any types, any registers and any number of arguments and results:
`LayoutTypeCorrect`, `RegistersAlwaysExclusive`, `ValuesAlwaysWhole`,
`StackAlwaysDisjoint`, `FitAlwaysGreedy`, `GatherAlwaysDisjoint` and
`PointersAlwaysExact`, one for each property of the run.

`Inv` says `Holding` of the call and of the results: the steps that take registers
take those below the count, each one (`RegsOK`); the values' steps follow each other
without a gap (`Starts`); the steps on the stack do not go backwards (`Stacked`); and each
value has no step, or one for each of its words, or one on the stack that is
aligned and for which there was no room in registers (`Valued`).  It is needed
because the properties are about the finished plan, where what was tried and given
back no longer shows.  `AddArgFacts` says what `addArg` does in one of these three
ways.  Below it `WalkIs` and `TakeFacts` describe `regAssign`'s walk over the parts of
a type, which stops at the first that does not fit; `UptoFacts` counts the
registers it has taken by then, and `NotFitting` shows that a walk which failed could
not have succeeded: then the registers left do not do for the value.
`PointersExact` also needs that the receiver is never on the stack
(`ReceiverInRegister`), since the stack maps do not mention it.

### The control plane (`ControlPlaneProofs`)

* `ControlPlaneTypeCorrect`: `Spec => []TypeOK`, for any documents.
* `PlanAlwaysWhatWasSet`: `Spec => []PlanIsWhatWasSet`, for documents of at most `L`
  actions that each delay at most `B`, with `L * B < 2^(Width - 1)`.  The bound is
  what the code needs and does not check: without it the sum of a rule's delays
  wraps around and the delay is skipped (`ControlPlaneOverflow.cfg`, an instance that
  just misses the bound; that of `ControlPlane.cfg` meets it).  With the 64 bits of a
  `time.Duration` it is 292 years.

The invariant says that the client never shares a slice with the injector
(`shared = FALSE`), that the plan is the one `rebuild` compiles from the rules in force,
and that `inForce` is what these rules mean.  The theorem then equates the
code's one pass over the actions (`Flatten`, a fold) with the documented meaning
applied action by action (`Meaning`, a recursive function): what one action adds is the
same in both.

### The trampoline (`TrampolineProofs`, `DataProofs`)

For both architectures, every shape `newTrampoline` accepts (up to 60 words, any of
them pointers, any method index of 16 bits), wherever `Dispatch` is loaded and however
often the code is preempted: `TrampolineStaysAMachine`, `DispatchIsCalledRight`,
`ArgumentMapIsTrue`, `CallerGetsItsFrameBack` and `UnwinderFindsTheCaller`, one for each
property of the run.  The last two suppose that on arm64 no preemption falls on the one
instruction between saving the frame and moving the stack pointer
(`<<"arm64", 8>> \in Protected`), as the run does; without that `CallerRestored` is false.
It says nothing about amd64, where `Protected` may be empty.

TLC runs the code of the shapes it is given; the proof is about the generator (1, 4 and
what 2 says of sequences are in `DataProofs`):

1. *Forms.*  For each mnemonic the generators use, `Decode` of the bytes, or of the
   word, that the assembler makes is that instruction with its operands and its length,
   in any code it is found in.  On amd64 this rests on little-endian bytes being read
   back (`Number4` of `Bytes`) and on the three kinds of displacement; on arm64 on the
   fields of a word being disjoint, so that `Bits` of a union of `Field`s is the one
   field asked for.
2. *Places.*  `FlattenSeq` of the listing puts the bytes of its k-th entry at the sum of
   the lengths before it.  So the processor, at the offset of k, executes k.
3. *Machine.*  The inductive invariant says for each k what the registers and the stack
   hold before it: which argument registers the shift has moved and which it has not,
   which words of results are cleared, what the prologue has saved.  A word below the
   stack pointer that the code still needs is nowhere in it, which is why a preemption
   keeps it, and why arm64 needs the exception.  One lemma per instruction goes from k
   to k + 1; results without a pointer have an empty entry, which is skipped.
4. *Tables.*  `TableRoundTrip`: what `encodePCSP` writes for ascending ranges, the
   runtime's reader reads back, range by range, where a range is as long as the entry
   says, times the quantum.  On arm64 the ranges are four times as long as meant, so the
   table is right where `Dispatch` returns to, and `Unwinds` claims no more there.  The
   bit of word i in the argument map is set just when i is in `ArgBits`.

`InDispatch` and the return are then two more positions of the invariant, at which the
properties can be read off.

### Data (`DataProofs`)

What the recursive definitions, folds and encodings compute, for every input; the
proofs of `Layout`, `Registry` and `ControlPlane` use its first part.

The library states induction about an operator, which these provers cannot
instantiate.  `SetInduction` and `BoundedInduction` state it about a set, which they can.
`RunExists` and `FoldExists` show that an equation over `0..n`, or over
the subsets of `1..n` as the community modules' `FoldLeft` has it, has a solution; with
uniqueness by induction a recursive function or a fold is then known to
satisfy its equation.  That is how `Walk`, `Meaning`, `GatherEnd`, `Flatten`,
`RegAssign`, `FlattenSeq`, `Bits` and the tables' reader are reasoned about for every
input.

### What only TLC checks

* `ConstructionEnds` and its fairness: liveness is beyond this prover.
* That what `CallerRestored` says fails at the one instruction `Protected` names.  The
  proofs say that it holds everywhere else; that the exception is needed is the
  counterexample with `TrampolineLink.cfg`.
* `EveryPCUnwinds` on arm64, which does not hold (`trampoline_unwind`); on amd64 it is
  part of `Unwinds`.
* The refinement of `AroundAdvice` with `Recover`, which does not hold.

## 6. What is not modelled, and why

* `Arg(i).Set` on a value described in place, several arguments or results, and
  how single words are converted: `CallPath` abstracts what a word holds.  The
  layout of many values is `Layout`'s subject.
* How mnemonics are parsed (`jitcode_*.go`): the model starts from the instruction each
  line of text stands for.  The layouts of `moduledata`, `_func` and `rfunc` in each Go
  version: constants with no behaviour, checked by nobody but the runtime.
* The pages' write protection and the instruction cache on Apple Silicon
  (`jitmem_darwin_arm64.go`, `jit_darwin.go`), which depend on the platform.
* `targetITab`, whose outcome is one of `CallPath`'s kinds of target, and the `init` that
  compares the runtime's itab layout with the expected one before anything runs.
* A context's end is not told apart from the timer in `EndWait`; in `Injector`
  durations are abstracted to whether a rule delays; their sum is `ControlPlane`'s.
* Several mocks, a mock called from inside an answer, and the data race of filling
  in a stub while it is in use: `Mockito` makes each change of a stub one step.
* `Enabled`, `VerifyNoInteractions` and `VerifyNoMoreInteractions` only
  read; the last reads what `MarksFollowCalls` is about.
* `internal/gls` and `internal/rt` call into the platform; examples and scripts
  are clients.
