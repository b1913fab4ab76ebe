------------------------------ MODULE Mockito ------------------------------
(***************************************************************************)
(* One mock or spy of the mockito package: its call log and stubs          *)
(* (mock.go), the last call and the matchers each goroutine left behind    *)
(* (gls.go, matcher.go), recording-style When (stub.go), Verify            *)
(* (verify.go) and InOrder (inorder.go).                                   *)
(*                                                                         *)
(* When(m.Hello("ada")) is three steps of one goroutine: a real call of    *)
(* the mock, the trigger; popLast; rollback, which takes the trigger out   *)
(* of the log.  Every critical section of state.mu is one step.  A call is *)
(* a method (its code pointer) with one argument.                          *)
(***************************************************************************)
EXTENDS Naturals, Sequences, FiniteSets, SequencesExt

CONSTANTS
  Goroutines,   \* goroutines using the mock
  Recorders,    \* those that also stub and verify: the test's own
  Methods,      \* the methods of the mocked interface
  Values,       \* the argument values calls are made with
  Placeholder,  \* the zero value Any() stands in for an argument
  Checks,       \* assertions: Times, AtLeast, AtMost, Between, as intervals
  MaxMade,      \* bound on the number of calls made, triggers included
  MaxStubs,     \* bound on the number of stubs
  MaxGroups     \* bound on the groups of one stub

ASSUME MockitoAssumption ==
  /\ Recorders \subseteq Goroutines
  /\ Placeholder \in Values
  /\ Checks \subseteq [lo : 0..MaxMade, hi : 0..MaxMade]
  /\ MaxMade \in Nat /\ MaxStubs \in Nat /\ MaxGroups \in Nat

VARIABLES
  calls,     \* state.calls: the call log
  verified,  \* state.verified
  stubs,     \* state.stubs, all methods together, oldest first
  lasts,     \* lasts: each goroutine's last call, or None
  matchers,  \* matchers: what each goroutine pushed since its last call
  pos,       \* the cursor of each goroutine's InOrder
  pc,        \* where each goroutine is
  pending,   \* the pendingCall it popped: of its Stubber or Verifier
  stub,      \* the stub it is building, or 0
  check,     \* the assertion it is waiting for: an interval of counts
  made,      \* history: calls made so far, which numbers them
  trigger,   \* history: the trigger of the recording a goroutine is in
  real,      \* history: the log of the calls that are no triggers
  marked,    \* history: calls some verification has counted
  passed,    \* history: the call each InOrder verified last
  leaked,    \* history: triggers that panicked, and so were never rolled back
  intact,    \* history: each rollback has met its own trigger
  shaken     \* history: goroutines whose wait was over when another rolled back

logVars == <<calls, verified>>
glsVars == <<lasts, matchers>>
goVars == <<pc, pending, stub, check>>
historyVars == <<made, trigger, real, marked, passed, leaked, intact, shaken>>
vars == <<logVars, stubs, glsVars, pos, goVars, historyVars>>

-----------------------------------------------------------------------------
None == [method |-> "none", arg |-> Placeholder, any |-> FALSE]
NoTrigger == [id |-> 0, call |-> None]
NoCheck == [lo |-> 0, hi |-> 0]

Pendings == [method : Methods, arg : Values, any : BOOLEAN]
Entries == [id : 1..MaxMade, method : Methods, arg : Values]

Holds(chk, n) == chk.lo <= n /\ n <= chk.hi

\* same code pointer, and every argument equal or matched (argsMatch)
Matches(p, method, arg) == p.method = method /\ (p.any \/ p.arg = arg)
CountOf(p, log) ==
  Cardinality({i \in 1..Len(log) : Matches(p, log[i].method, log[i].arg)})

Init ==
  /\ calls = <<>> /\ verified = <<>>
  /\ stubs = <<>>
  /\ lasts = [g \in Goroutines |-> None]
  /\ matchers = [g \in Goroutines |-> FALSE]
  /\ pos = [g \in Goroutines |-> 0]
  /\ pc = [g \in Goroutines |-> "idle"]
  /\ pending = [g \in Goroutines |-> None]
  /\ stub = [g \in Goroutines |-> 0]
  /\ check = [g \in Goroutines |-> NoCheck]
  /\ made = 0
  /\ trigger = [g \in Goroutines |-> NoTrigger]
  /\ real = <<>>
  /\ marked = {}
  /\ passed = [g \in Goroutines |-> 0]
  /\ leaked = {}
  /\ intact = TRUE
  /\ shaken = {}

Goto(g, label) == pc' = [pc EXCEPT ![g] = label]

-----------------------------------------------------------------------------
(* A call of the mock: state.intercept *)

\* Any(), evaluated as an argument of the call it is wrapped in
PushMatcher(g) ==
  /\ g \in Recorders
  /\ pc[g] = "idle" /\ ~matchers[g]
  /\ matchers' = [matchers EXCEPT ![g] = TRUE]
  /\ UNCHANGED <<logVars, stubs, lasts, pos, goVars, historyVars>>

\* findStub: the latest that matches, or 0
FindStub(method, arg) ==
  LET hits == {j \in 1..Len(stubs) : Matches(stubs[j].on, method, arg)}
  IN IF hits = {} THEN 0 ELSE CHOOSE j \in hits : \A k \in hits : j >= k

\* what answers a call: a stub that panics, one that computes its results, the
\* next ThenReturn group of one, or neither (also of one not yet complete): the
\* spy's target or zero values.  All but zero values may panic: an answer and a
\* target of their own accord, a group (or none) when it does not fit the results.
Response(method, arg) ==
  LET j == FindStub(method, arg) IN
  IF j = 0 THEN "default"
  ELSE IF stubs[j].panics THEN "panic"
  ELSE IF stubs[j].answers THEN "answer"
  ELSE IF stubs[j].groups = 0 THEN "default"
  ELSE "group"

\* what a call leaves in the log, and with its goroutine
Recorded(g, method, arg) ==
  /\ made < MaxMade
  /\ made' = made + 1
  /\ calls' = Append(calls, [id |-> made + 1, method |-> method, arg |-> arg])
  /\ verified' = Append(verified, FALSE)
  /\ lasts' = [lasts EXCEPT ![g] = [method |-> method, arg |-> arg, any |-> matchers[g]]]
  /\ matchers' = [matchers EXCEPT ![g] = FALSE]

\* the stub whose group answers the call counts it as handed out
Consumed(method, arg, isReal) ==
  LET j == FindStub(method, arg)
      st == stubs[j]
  IN IF Response(method, arg) = "group"
     THEN [stubs EXCEPT ![j] =
             [st EXCEPT !.consumed = @ + 1, !.toReal = IF isReal THEN @ + 1 ELSE @]]
     ELSE stubs

\* a call of the code under test, which recovers if it panics: that leaves the
\* same behind
Call(g, method, arg) ==
  /\ pc[g] = "idle" /\ ~matchers[g]
  /\ Recorded(g, method, arg)
  /\ stubs' = Consumed(method, arg, TRUE)
  /\ real' = Append(real, [id |-> made + 1, method |-> method, arg |-> arg])
  /\ UNCHANGED <<pos, goVars, trigger, marked, passed, leaked, intact, shaken>>

\* the call inside When(...), Verify(...) or InOrder.Verify(...); when it panics,
\* which a ThenPanic stub does and other responses may (the model does not tell
\* a mock, whose zero values do not, from a spy), the goroutine never gets to
\* popLast, and goes on after a recover
Trigger(g, method, arg) ==
  /\ g \in Recorders
  /\ pc[g] = "idle"
  /\ matchers[g] => arg = Placeholder
  /\ Recorded(g, method, arg)
  /\ stubs' = Consumed(method, arg, FALSE)
  /\ \/ /\ Response(method, arg) # "panic"
        /\ Goto(g, "triggered")
        /\ trigger' = [trigger EXCEPT ![g] =
             [id |-> made + 1,
              call |-> [method |-> method, arg |-> arg, any |-> matchers[g]]]]
        /\ UNCHANGED leaked
     \/ /\ leaked' = leaked \cup {made + 1}
        /\ UNCHANGED <<pc, trigger>>
  /\ UNCHANGED <<pos, pending, stub, check, real, marked, passed, intact, shaken>>

-----------------------------------------------------------------------------
(* whenRecorded, verifyRecorded, InOrder.verify *)

\* Mutant: the end of the log, whoever made that call
NewestCall(g) ==
  IF calls = <<>> THEN lasts[g]
  ELSE [lasts[g] EXCEPT !.method = Last(calls).method, !.arg = Last(calls).arg]

LastOf(g) == lasts[g]

PopLast(g) ==
  /\ pc[g] = "triggered"
  /\ pending' = [pending EXCEPT ![g] = LastOf(g)]
  /\ lasts' = [lasts EXCEPT ![g] = None]
  /\ Goto(g, "popped")
  /\ UNCHANGED <<logVars, stubs, matchers, pos, stub, check, historyVars>>

\* Mutant: guarded by n > 1
DropLastOfMany(s) == IF Len(s) <= 1 THEN s ELSE Front(s)

\* Mutant: the oldest call, not the newest
DropFirst(s) == IF s = <<>> THEN s ELSE Tail(s)

DropLast(s) == IF s = <<>> THEN s ELSE Front(s)

\* Mutant: the marks are not truncated with the log
KeepMarks(marks) == marks

\* Mutant: the marks are cut at the other end
DropOldestMark(marks) == IF marks = <<>> THEN marks ELSE Tail(marks)

DropMark(marks) == DropLast(marks)

\* the last call of the log, whoever made it
Rollback(g) ==
  /\ pc[g] = "popped"
  /\ calls' = DropLast(calls)
  /\ verified' = DropMark(verified)
  /\ intact' = (intact /\ calls # <<>> /\ Last(calls).id = trigger[g].id)
  /\ shaken' = shaken \cup {h \in Goroutines \ {g} : pc[h] = "asserting"}
  /\ \E next \in {"stubbing", "verifying", "ordering"} : Goto(g, next)
  /\ UNCHANGED <<stubs, glsVars, pos, pending, stub, check, made, trigger, real, marked, passed, leaked>>

\* a Stubber or Verifier is dropped, after Count() or nothing
Leave(g) ==
  /\ pc' = [pc EXCEPT ![g] = "idle"]
  /\ pending' = [pending EXCEPT ![g] = None]
  /\ stub' = [stub EXCEPT ![g] = 0]
  /\ check' = [check EXCEPT ![g] = NoCheck]
  /\ trigger' = [trigger EXCEPT ![g] = NoTrigger]
  /\ shaken' = shaken \ {g}

Drop(g) ==
  /\ pc[g] \in {"stubbing", "building", "verifying", "ordering"}
  /\ Leave(g)
  /\ UNCHANGED <<logVars, stubs, glsVars, pos, made, real, marked, passed, leaked, intact>>

-----------------------------------------------------------------------------
(* The Stubber: stubOrCreate, then the rule is filled in without the lock *)

AddStub(g) ==
  /\ pc[g] = "stubbing"
  /\ Len(stubs) < MaxStubs
  /\ stubs' = Append(stubs, [on |-> pending[g], groups |-> 0, answers |-> FALSE,
                             panics |-> FALSE, consumed |-> 0, toReal |-> 0])
  /\ stub' = [stub EXCEPT ![g] = Len(stubs) + 1]
  /\ Goto(g, "created")
  /\ UNCHANGED <<logVars, glsVars, pos, pending, check, historyVars>>

Fill(g, st) ==
  /\ pc[g] \in {"created", "building"}
  /\ stubs' = [stubs EXCEPT ![stub[g]] = st]
  /\ Goto(g, "building")
  /\ UNCHANGED <<logVars, glsVars, pos, pending, stub, check, historyVars>>

ThenReturn(g) ==
  LET st == stubs[stub[g]] IN
  /\ stub[g] # 0 /\ st.groups < MaxGroups
  /\ Fill(g, [st EXCEPT !.groups = @ + 1])

ThenAnswer(g) ==
  /\ stub[g] # 0
  /\ Fill(g, [stubs[stub[g]] EXCEPT !.answers = TRUE])

ThenPanic(g) ==
  /\ stub[g] # 0
  /\ Fill(g, [stubs[stub[g]] EXCEPT !.panics = TRUE])

-----------------------------------------------------------------------------
(* The Verifier *)

\* Verifier.Timeout and an assertion, before the first look at the log
Wait(g) ==
  /\ pc[g] = "verifying"
  /\ \E chk \in Checks : check' = [check EXCEPT ![g] = chk]
  /\ Goto(g, "waiting")
  /\ UNCHANGED <<logVars, stubs, glsVars, pos, pending, stub, historyVars>>

\* Mutant: wait reports success when it times out, too
WaitEnds(g) == TRUE

WaitIsOver(g) == Holds(check[g], CountOf(pending[g], calls))

\* Verifier.wait: once the count holds, assert counts again
Poll(g) ==
  /\ pc[g] = "waiting"
  /\ WaitIsOver(g)
  /\ Goto(g, "asserting")
  /\ UNCHANGED <<logVars, stubs, glsVars, pos, pending, stub, check, historyVars>>

Expire(g) ==
  /\ pc[g] = "waiting"
  /\ ~WaitIsOver(g)
  /\ Leave(g)
  /\ UNCHANGED <<logVars, stubs, glsVars, pos, made, real, marked, passed, leaked, intact>>

Hits(p) == {i \in 1..Len(calls) : Matches(p, calls[i].method, calls[i].arg)}

\* countLocked(true): a call is marked whether or not the assertion holds
AssertCount(g) ==
  /\ pc[g] \in {"verifying", "asserting"}
  /\ verified' = [i \in 1..Len(calls) |-> verified[i] \/ i \in Hits(pending[g])]
  /\ marked' = marked \cup {calls[i].id : i \in Hits(pending[g])}
  /\ Leave(g)
  /\ UNCHANGED <<calls, stubs, glsVars, pos, made, real, passed, leaked, intact>>

-----------------------------------------------------------------------------
(* InOrder *)

\* Mutant: the cursor does not move past the match
StayAt(last) == last - 1

PastMatch(last) == last

\* InOrderVerifier.Times(n): the n'th match from the cursor on, or a panic that
\* leaves the cursor alone; n = 0 asserts that nothing matches
InOrderTimes(g) ==
  LET ahead == {i \in Hits(pending[g]) : i > pos[g]} IN
  /\ pc[g] = "ordering"
  /\ \E n \in 0..MaxMade :
       LET found == {i \in ahead : Cardinality({j \in ahead : j <= i}) = n} IN
       IF found = {} THEN UNCHANGED <<pos, passed>>
       ELSE LET last == CHOOSE i \in found : TRUE IN
            /\ pos' = [pos EXCEPT ![g] = PastMatch(last)]
            /\ passed' = [passed EXCEPT ![g] = calls[last].id]
  /\ Leave(g)
  /\ UNCHANGED <<logVars, stubs, glsVars, made, real, marked, leaked, intact>>

-----------------------------------------------------------------------------
Next ==
  \E g \in Goroutines :
    \/ PushMatcher(g)
    \/ \E method \in Methods, arg \in Values : Call(g, method, arg) \/ Trigger(g, method, arg)
    \/ PopLast(g) \/ Rollback(g) \/ Drop(g)
    \/ AddStub(g) \/ ThenReturn(g) \/ ThenAnswer(g) \/ ThenPanic(g)
    \/ Wait(g) \/ Poll(g) \/ Expire(g) \/ AssertCount(g)
    \/ InOrderTimes(g)

Spec == Init /\ [][Next]_vars

-----------------------------------------------------------------------------
(* Properties *)

Recording(g) == pc[g] \in {"triggered", "popped"}

\* Every variable keeps to its domain, and the marks line up with the log:
\* state.verified grows and shrinks with state.calls.
TypeOK ==
  /\ calls \in Seq(Entries) /\ verified \in Seq(BOOLEAN)
  /\ Len(verified) = Len(calls)
  /\ \A j \in 1..Len(stubs) :
       stubs[j] \in [on : Pendings, groups : 0..MaxGroups, answers : BOOLEAN,
                     panics : BOOLEAN, consumed : 0..MaxMade, toReal : 0..MaxMade]
  /\ lasts \in [Goroutines -> Pendings \cup {None}]
  /\ matchers \in [Goroutines -> BOOLEAN]
  /\ pos \in [Goroutines -> 0..MaxMade]
  /\ pc \in [Goroutines -> {"idle", "triggered", "popped", "stubbing", "created",
                             "building", "verifying", "waiting", "asserting", "ordering"}]
  /\ pending \in [Goroutines -> Pendings \cup {None}]
  /\ stub \in [Goroutines -> 0..Len(stubs)]
  /\ check \in [Goroutines -> Checks \cup {NoCheck}]

\* A Stubber or Verifier is about the call its goroutine has just recorded, with
\* the matchers wrapped in that call, whatever other goroutines call meanwhile
\* (recordLast and takeMatchers key everything by goroutine).
RecordsItsTrigger ==
  \A g \in Goroutines :
    /\ pc[g] = "triggered" => lasts[g] = trigger[g].call
    /\ pc[g] \notin {"idle", "triggered"} => pending[g] = trigger[g].call

\* However goroutines interleave, the log is as long as the calls under test,
\* the recordings not yet rolled back and the triggers that panicked make it: a
\* count over all calls is right even when a rollback took the wrong one.
LogLengthExact ==
  Len(calls) = Len(real) + Cardinality({g \in Goroutines : Recording(g)})
                 + Cardinality(leaked)

\* The calls of a log are in the order they were made, each once.
Numbered(log) == \A i, j \in 1..Len(log) : i < j => log[i].id < log[j].id

\* The log keeps the order of the calls, and as long as each rollback has met
\* its own trigger, what it holds beside triggers not rolled back is exactly
\* the calls under test, so every Verify and InOrder counts those.
LogIsReal ==
  /\ Numbered(calls) /\ Numbered(real)
  /\ intact =>
       LET triggers == leaked \cup {trigger[g].id : g \in {h \in Goroutines : Recording(h)}}
       IN {e \in Range(calls) : e.id \notin triggers} = Range(real)

\* A call is marked verified if and only if a verification has counted it: the
\* marks stay with their calls while rollbacks shorten the log and calls of
\* other goroutines lengthen it (VerifyNoMoreInteractions reads them).
MarksFollowCalls ==
  \A i \in 1..Len(calls) : verified[i] <=> calls[i].id \in marked

\* What an InOrder looks at next was made after what it verified last, even
\* when rollbacks have cut the log below its cursor.
CursorIsPast ==
  \A g \in Goroutines : \A i \in (pos[g] + 1)..Len(calls) : calls[i].id > passed[g]

\* A timed AtLeast whose wait was satisfied does not fail when it counts again
\* to mark the calls, unless another goroutine's rollback came in between
\* (assert counts a second time after wait, under a new lock).
AtLeastStands ==
  \A g \in Goroutines :
    pc[g] = "asserting" /\ check[g].hi = MaxMade /\ g \notin shaken =>
      Holds(check[g], CountOf(pending[g], calls))

-----------------------------------------------------------------------------
(* What the documentation says and the code does not do *)

\* "rollback removes the last recorded call - the recording-style trigger call,
\* which must not count toward verification" (mock.go:138-139): with no
\* recording under way, and none that panicked before its rollback, the log holds
\* the calls under test.
TriggersDoNotCount ==
  leaked = {} /\ (\A g \in Goroutines : ~Recording(g)) => calls = real

\* "the values are returned one per call" (mockito/README.md:80-81): a stub has
\* handed out as many groups as calls under test have asked it for one.
OneGroupPerCall ==
  \A j \in 1..Len(stubs) : stubs[j].consumed = stubs[j].toReal
=============================================================================
