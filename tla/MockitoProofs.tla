--------------------------- MODULE MockitoProofs ---------------------------
(***************************************************************************)
(* What holds of every mock, for any goroutines, methods and values.       *)
(*                                                                         *)
(* IInv strengthens the invariants of Mockito by what their steps need:    *)
(* calls are numbered in the order they are made (Logs, Ordered), what was *)
(* counted, passed or leaked has been made (Histories), and a goroutine    *)
(* that is not idle is at work on a call of its own (Typed).  LogSteps and *)
(* RecordingSteps reduce the actions to the few things they do to the log. *)
(***************************************************************************)
EXTENDS Mockito, FiniteSetTheorems, SequenceTheorems, TLAPS

\* Where a goroutine can be.
Labels == {"idle", "triggered", "popped", "stubbing", "created", "building",
           "verifying", "waiting", "asserting", "ordering"}

\* The stubs of the mock, as TypeOK has them.
Stubs == [on : Pendings, groups : 0..MaxGroups, answers : BOOLEAN,
          panics : BOOLEAN, consumed : 0..MaxMade, toReal : 0..MaxMade]

\* The log, its marks and the history of real calls: typed, numbered by made,
\* and no longer than the number of calls made.
Logs ==
  /\ made \in 0..MaxMade
  /\ calls \in Seq(Entries) /\ real \in Seq(Entries)
  /\ verified \in Seq(BOOLEAN) /\ Len(verified) = Len(calls)
  /\ Len(calls) <= made
  /\ \A i \in 1..Len(calls) : calls[i].id <= made
  /\ \A i \in 1..Len(real) : real[i].id <= made

\* Calls that were marked, leaked, passed or skipped have been made.
Histories ==
  /\ marked \subseteq 1..made /\ leaked \subseteq 1..made
  /\ passed \in [Goroutines -> 0..made] /\ pos \in [Goroutines -> 0..made]

\* A stub has handed out at most one group per call made.
StubsTyped ==
  /\ stubs \in Seq(Stubs)
  /\ \A j \in 1..Len(stubs) : stubs[j].consumed <= made /\ stubs[j].toReal <= made

\* What each goroutine holds; a goroutine that is not idle has recorded a call
\* of the mock, and one that still has to roll it back knows its number.
Typed ==
  /\ lasts \in [Goroutines -> Pendings \cup {None}]
  /\ matchers \in [Goroutines -> BOOLEAN]
  /\ pc \in [Goroutines -> Labels]
  /\ pending \in [Goroutines -> Pendings \cup {None}]
  /\ stub \in [Goroutines -> 0..Len(stubs)]
  /\ check \in [Goroutines -> Checks \cup {NoCheck}]
  /\ trigger \in [Goroutines -> [id : 0..made, call : Pendings \cup {None}]]
  /\ \A g \in Goroutines :
        /\ pc[g] # "idle" => trigger[g].call \in Pendings
        /\ Recording(g) => trigger[g].id # 0

\* The goroutines whose trigger is still in the log.
Recordings == {g \in Goroutines : Recording(g)}
\* Finitely many goroutines are recording, though Goroutines may be infinite.
Finite == IsFiniteSet(Recordings)
\* Both logs are in the order the calls were made.
Ordered == Numbered(calls) /\ Numbered(real)

\* rollback's truncation keeps every entry but the last.
LEMMA DropLastFacts ==
  ASSUME NEW S, NEW s \in Seq(S)
  PROVE  /\ DropLast(s) \in Seq(S)
         /\ Len(DropLast(s)) = IF s = <<>> THEN 0 ELSE Len(s) - 1
         /\ Len(DropLast(s)) <= Len(s)
         /\ \A i \in 1..Len(DropLast(s)) : i \in 1..Len(s) /\ DropLast(s)[i] = s[i]
<1>1. CASE s = <<>>
  BY <1>1 DEF DropLast
<1>2. CASE s # <<>>
  <2>1. Len(s) \in Nat /\ Len(s) # 0
    BY <1>2, EmptySeq, LenProperties
  <2>2. DropLast(s) = SubSeq(s, 1, Len(s) - 1)
    BY <1>2 DEF DropLast, Front
  <2>3. /\ SubSeq(s, 1, Len(s) - 1) \in Seq(S)
        /\ Len(SubSeq(s, 1, Len(s) - 1)) = Len(s) - 1
        /\ \A i \in 1..(Len(s) - 1) : SubSeq(s, 1, Len(s) - 1)[i] = s[i]
    <3>1. \A i \in 1..(Len(s) - 1) : s[i] \in S
      BY <2>1, ElementOfSeq
    <3> DEFINE n == Len(s) - 1
    <3>2. n \in Int /\ 1 \in Int /\ n \in Nat /\ \A i \in 1..n : s[i] \in S
      BY <2>1, <3>1
    <3> HIDE DEF n
    <3>3. (1 <= n => n = n - 1 + 1) /\ (~ 1 <= n => n = 0)
      BY <3>2
    <3>4. n - 1 + 1 = n /\ \A i \in 1..n : 1 + i - 1 = i
      BY <3>2
    <3>5. /\ SubSeq(s, 1, n) \in Seq(S)
          /\ Len(SubSeq(s, 1, n)) = IF 1 <= n THEN n - 1 + 1 ELSE 0
          /\ \A i \in 1..n - 1 + 1 : SubSeq(s, 1, n)[i] = s[1 + i - 1]
      BY <3>2, SubSeqProperties
    <3>6. Len(SubSeq(s, 1, n)) = n /\ \A i \in 1..n : SubSeq(s, 1, n)[i] = s[i]
      BY <3>3, <3>4, <3>5
    <3> QED BY <3>5, <3>6 DEF n
  <2> QED BY <1>2, <2>1, <2>2, <2>3
<1> QED BY <1>1, <1>2

\* A call that may still be made is a well-typed entry of the log.
LEMMA EntryTyped ==
  ASSUME made \in 0..MaxMade, made < MaxMade, NEW method \in Methods, NEW arg \in Values
  PROVE  [id |-> made + 1, method |-> method, arg |-> arg] \in Entries
<1>1. made + 1 \in 1..MaxMade
  BY MockitoAssumption
<1> QED BY <1>1 DEF Entries

\* what a step does with the log
Grows(e) ==
  /\ made < MaxMade /\ made' = made + 1
  /\ e \in [id : {made + 1}, method : Methods, arg : Values]
  /\ calls' = Append(calls, e) /\ verified' = Append(verified, FALSE)
  /\ real' \in {real, Append(real, e)}
  /\ leaked' \in {leaked, leaked \cup {made + 1}}
  /\ UNCHANGED <<marked, passed, pos>>
Shrinks ==
  /\ calls' = DropLast(calls) /\ verified' = DropLast(verified)
  /\ UNCHANGED <<made, real, marked, leaked, passed, pos>>
Stays == UNCHANGED <<calls, verified, made, real, marked, leaked, passed, pos>>

\* Every step makes one of four changes to the log: intercept adds a call to
\* it, rollback takes the last off, a verification marks or passes calls, or it
\* stays as it is.
LEMMA LogSteps ==
  ASSUME [Next]_vars
  PROVE  \/ \E e : Grows(e)
         \/ Shrinks
         \/ \E g \in Goroutines : AssertCount(g) \/ InOrderTimes(g)
         \/ Stays
<1> USE DEF vars, logVars, glsVars, goVars, historyVars
<1>1. CASE UNCHANGED vars
  BY <1>1 DEF Stays
<1>2. ASSUME NEW g \in Goroutines, NEW method \in Methods, NEW arg \in Values,
             Call(g, method, arg) \/ Trigger(g, method, arg)
      PROVE  Grows([id |-> made + 1, method |-> method, arg |-> arg])
  BY <1>2 DEF Call, Trigger, Recorded, Grows
<1>3. ASSUME NEW g \in Goroutines, Rollback(g)
      PROVE  Shrinks
  BY <1>3 DEF Rollback, DropMark, Shrinks
<1>4. ASSUME NEW g \in Goroutines,
             \/ PushMatcher(g) \/ PopLast(g) \/ Drop(g)
             \/ AddStub(g) \/ ThenReturn(g) \/ ThenAnswer(g) \/ ThenPanic(g)
             \/ Wait(g) \/ Poll(g) \/ Expire(g)
      PROVE  Stays
  BY <1>4 DEF PushMatcher, PopLast, Drop, AddStub, ThenReturn, ThenAnswer, ThenPanic,
              Fill, Wait, Poll, Expire, Stays
<1> QED BY <1>1, <1>2, <1>3, <1>4 DEF Next

\* Every step keeps Logs.
LEMMA LogsKept ==
  ASSUME Logs, [Next]_vars
  PROVE  Logs'
<1> USE MockitoAssumption
<1>1. ASSUME NEW e, Grows(e)
      PROVE  Logs'
  <2>1. made + 1 \in 1..MaxMade /\ made' = made + 1 /\ made \in Nat
    BY <1>1 DEF Logs, Grows
  <2>2. e \in Entries /\ e.id = made + 1
    BY <1>1, <2>1 DEF Grows, Entries
  <2>3. /\ calls' \in Seq(Entries) /\ Len(calls') = Len(calls) + 1
        /\ \A i \in 1..Len(calls) : calls'[i] = calls[i]
        /\ calls'[Len(calls) + 1] = e
    BY <1>1, <2>2, AppendProperties DEF Logs, Grows
  <2>4. verified' \in Seq(BOOLEAN) /\ Len(verified') = Len(verified) + 1
    BY <1>1, AppendProperties DEF Logs, Grows
  <2>5. Len(calls) \in Nat /\ Len(real) \in Nat
    BY LenProperties DEF Logs
  <2>6. \A i \in 1..Len(calls') : calls'[i].id <= made'
    <3>1. ASSUME NEW i \in 1..Len(calls')
          PROVE  calls'[i].id <= made'
      <4>1. CASE i = Len(calls) + 1
        BY <4>1, <2>1, <2>2, <2>3
      <4>2. CASE i \in 1..Len(calls)
        <5>1. calls[i] \in Entries /\ calls[i].id <= made
          BY <4>2, ElementOfSeq DEF Logs
        <5>2. calls'[i] = calls[i]
          BY <4>2, <2>3
        <5>3. calls[i].id \in Nat
          BY <5>1 DEF Entries
        <5> QED BY <5>1, <5>2, <5>3, <2>1
      <4> QED BY <4>1, <4>2, <2>3, <2>5
    <3> QED BY <3>1
  <2>7. real' \in Seq(Entries) /\ \A i \in 1..Len(real') : real'[i].id <= made'
    <3>1. ASSUME NEW i \in 1..Len(real)
          PROVE  real[i].id <= made'
      <4>1. real[i] \in Entries /\ real[i].id <= made
        BY ElementOfSeq DEF Logs
      <4> QED BY <4>1, <2>1 DEF Entries
    <3>2. CASE real' = real
      BY <3>1, <3>2 DEF Logs
    <3>3. CASE real' = Append(real, e)
      <4>1. /\ real' \in Seq(Entries) /\ Len(real') = Len(real) + 1
            /\ \A i \in 1..Len(real) : real'[i] = real[i]
            /\ real'[Len(real) + 1] = e
        BY <3>3, <2>2, AppendProperties DEF Logs
      <4>2. ASSUME NEW i \in 1..Len(real')
            PROVE  i \in 1..Len(real) \/ i = Len(real) + 1
        BY <4>1, <2>5
      <4> QED BY <4>1, <4>2, <3>1, <2>1, <2>2
    <3> QED BY <3>2, <3>3, <1>1 DEF Grows
  <2> QED BY <2>1, <2>3, <2>4, <2>5, <2>6, <2>7 DEF Logs
<1>2. CASE Shrinks
  <2>1. /\ calls' \in Seq(Entries) /\ Len(calls') <= Len(calls)
        /\ \A i \in 1..Len(calls') : i \in 1..Len(calls) /\ calls'[i] = calls[i]
    BY <1>2, DropLastFacts DEF Shrinks, Logs
  <2>2. verified' \in Seq(BOOLEAN) /\ Len(verified') = Len(calls')
    <3>1. calls = <<>> <=> verified = <<>>
      BY EmptySeq, LenProperties DEF Logs
    <3> QED BY <3>1, <1>2, DropLastFacts DEF Shrinks, Logs
  <2>3. Len(calls') <= made'
    BY <2>1, <1>2, LenProperties DEF Shrinks, Logs
  <2> QED BY <2>1, <2>2, <2>3, <1>2 DEF Shrinks, Logs
<1>3. ASSUME NEW g \in Goroutines, AssertCount(g)
      PROVE  Logs'
  <2>1. UNCHANGED <<calls, made, real>>
    BY <1>3 DEF AssertCount
  <2>2. verified' \in Seq(BOOLEAN) /\ Len(verified') = Len(calls)
    <3>1. Len(calls) \in Nat
      BY LenProperties DEF Logs
    <3>2. verified' \in [1..Len(calls) -> BOOLEAN]
      BY <1>3 DEF AssertCount
    <3> QED BY <3>1, <3>2, SeqDef
  <2> QED BY <2>1, <2>2 DEF Logs
<1>4. CASE UNCHANGED <<calls, made, real, verified>>
  BY <1>4 DEF Logs
<1>5. ASSUME NEW g \in Goroutines, InOrderTimes(g)
      PROVE  UNCHANGED <<calls, made, real, verified>>
  BY <1>5 DEF InOrderTimes, logVars
<1> QED BY <1>1, <1>2, <1>3, <1>4, <1>5, LogSteps DEF Stays

\* The logged calls are numbered from 1 to made.
LEMMA LogFacts ==
  ASSUME Logs
  PROVE  /\ made \in Nat /\ Len(calls) \in Nat
         /\ \A i \in 1..Len(calls) : calls[i] \in Entries /\ calls[i].id \in 1..made
<1>1. made \in Nat /\ Len(calls) \in Nat
  BY MockitoAssumption, LenProperties DEF Logs
<1>2. ASSUME NEW i \in 1..Len(calls)
      PROVE  calls[i] \in Entries /\ calls[i].id \in 1..made
  <2>1. calls[i] \in Entries /\ calls[i].id <= made
    BY ElementOfSeq DEF Logs
  <2>2. calls[i].id \in Nat /\ calls[i].id >= 1
    BY <2>1, MockitoAssumption DEF Entries
  <2> QED BY <1>1, <2>1, <2>2
<1> QED BY <1>1, <1>2

\* Every step keeps Histories.
LEMMA HistoriesKept ==
  ASSUME Logs, Histories, [Next]_vars
  PROVE  Histories'
<1>0. made \in Nat /\ \A i \in 1..Len(calls) : calls[i] \in Entries /\ calls[i].id \in 1..made
  BY LogFacts
<1>1. ASSUME NEW e, Grows(e)
      PROVE  Histories'
  <2>1. 1..made' = 1..made \cup {made + 1} /\ 0..made \subseteq 0..made'
    BY <1>0, <1>1 DEF Grows
  <2> QED BY <2>1, <1>1 DEF Grows, Histories
<1>2. CASE Shrinks
  BY <1>2 DEF Shrinks, Histories
<1>3. ASSUME NEW g \in Goroutines, AssertCount(g)
      PROVE  Histories'
  <2>1. \A i \in Hits(pending[g]) : calls[i].id \in 1..made
    BY <1>0 DEF Hits
  <2> QED BY <2>1, <1>3 DEF AssertCount, Histories
<1>4. ASSUME NEW g \in Goroutines, InOrderTimes(g)
      PROVE  Histories'
  <2>1. UNCHANGED <<made, marked, leaked>>
    BY <1>4 DEF InOrderTimes
  <2>2. \/ UNCHANGED <<pos, passed>>
        \/ \E last \in 1..Len(calls) : /\ pos' = [pos EXCEPT ![g] = last]
                                      /\ passed' = [passed EXCEPT ![g] = calls[last].id]
    BY <1>4 DEF InOrderTimes, PastMatch, Hits
  <2>3. \A last \in 1..Len(calls) : last \in 0..made /\ calls[last].id \in 0..made
    BY <1>0, LenProperties DEF Logs
  <2> QED BY <2>1, <2>2, <2>3 DEF Histories
<1>5. CASE Stays
  BY <1>5 DEF Stays, Histories
<1> QED BY <1>1, <1>2, <1>3, <1>4, <1>5, LogSteps

\* A call made now comes after everything in a log.
LEMMA NumberedAppend ==
  ASSUME Logs, NEW log \in Seq(Entries), \A i \in 1..Len(log) : log[i].id <= made,
         Numbered(log), NEW e \in Entries, e.id = made + 1
  PROVE  Numbered(Append(log, e))
<1>1. /\ Len(Append(log, e)) = Len(log) + 1
      /\ \A i \in 1..Len(log) : Append(log, e)[i] = log[i]
      /\ Append(log, e)[Len(log) + 1] = e
      /\ Len(log) \in Nat
  BY AppendProperties, LenProperties
<1>2. ASSUME NEW i \in 1..Len(log) + 1, NEW j \in 1..Len(log) + 1, i < j
      PROVE  Append(log, e)[i].id < Append(log, e)[j].id
  <2>1. i \in 1..Len(log)
    BY <1>1, <1>2
  <2>2. CASE j \in 1..Len(log)
    BY <1>1, <1>2, <2>1, <2>2 DEF Numbered
  <2>3. CASE j = Len(log) + 1
    <3>1. log[i].id <= made /\ log[i] \in Entries /\ made \in Nat
      BY <2>1, ElementOfSeq, MockitoAssumption DEF Logs
    <3>2. log[i].id < made + 1
      BY <3>1, MockitoAssumption DEF Entries
    <3> QED BY <1>1, <2>1, <2>3, <3>2
  <2> QED BY <1>1, <2>2, <2>3
<1> QED BY <1>1, <1>2 DEF Numbered

\* Every step keeps both logs in order: intercept appends and rollback
\* truncates.
LEMMA OrderedKept ==
  ASSUME Logs, Ordered, [Next]_vars
  PROVE  Ordered'
<1>1. ASSUME NEW e, Grows(e)
      PROVE  Ordered'
  <2>1. e \in Entries /\ e.id = made + 1
    <3>1. made + 1 \in 1..MaxMade
      BY <1>1, MockitoAssumption DEF Logs, Grows
    <3> QED BY <3>1, <1>1 DEF Grows, Entries
  <2>2. Numbered(Append(calls, e)) /\ Numbered(Append(real, e))
    BY <2>1, NumberedAppend DEF Logs, Ordered
  <2> QED BY <1>1, <2>2 DEF Grows, Ordered, Numbered
<1>2. CASE Shrinks
  <2>1. /\ Len(calls') <= Len(calls)
        /\ \A i \in 1..Len(calls') : i \in 1..Len(calls) /\ calls'[i] = calls[i]
    BY <1>2, DropLastFacts DEF Shrinks, Logs
  <2> QED BY <1>2, <2>1 DEF Shrinks, Ordered, Numbered
<1>3. CASE UNCHANGED <<calls, real>>
  BY <1>3 DEF Ordered, Numbered
<1>4. ASSUME NEW g \in Goroutines, AssertCount(g) \/ InOrderTimes(g)
      PROVE  UNCHANGED <<calls, real>>
  BY <1>4 DEF AssertCount, InOrderTimes, logVars
<1> QED BY <1>1, <1>2, <1>3, <1>4, LogSteps DEF Stays

\* Every step keeps the marks with their calls.  The log must be in order: a
\* mark is found by its place, the call that was counted by its number.
LEMMA MarksKept ==
  ASSUME Logs, Histories, Ordered, MarksFollowCalls, [Next]_vars
  PROVE  MarksFollowCalls'
<1>0. /\ made \in Nat /\ Len(calls) \in Nat
      /\ \A i \in 1..Len(calls) : calls[i] \in Entries /\ calls[i].id \in 1..made
  BY LogFacts
<1>1. ASSUME NEW e, Grows(e)
      PROVE  MarksFollowCalls'
  <2>1. e \in Entries /\ e.id = made + 1
    <3>1. made + 1 \in 1..MaxMade
      BY <1>1, MockitoAssumption DEF Logs, Grows
    <3> QED BY <3>1, <1>1 DEF Grows, Entries
  <2>2. /\ Len(calls') = Len(calls) + 1
        /\ \A i \in 1..Len(calls) : calls'[i] = calls[i] /\ verified'[i] = verified[i]
        /\ calls'[Len(calls) + 1] = e /\ ~ verified'[Len(calls) + 1]
    <3>1. /\ Len(calls') = Len(calls) + 1
          /\ \A i \in 1..Len(calls) : calls'[i] = calls[i]
          /\ calls'[Len(calls) + 1] = e
      BY <1>1, <2>1, AppendProperties DEF Logs, Grows
    <3>2. /\ \A i \in 1..Len(verified) : verified'[i] = verified[i]
          /\ ~ verified'[Len(verified) + 1]
      <4>1. verified \in Seq(BOOLEAN)
        BY DEF Logs
      <4>2. \A i \in 1..Len(verified) : Append(verified, FALSE)[i] = verified[i]
        BY ONLY <4>1, AppendProperties
      <4>3. ~ Append(verified, FALSE)[Len(verified) + 1]
        BY ONLY <4>1, AppendProperties, Zenon
      <4> QED BY <1>1, <4>2, <4>3, Zenon DEF Grows
    <3> QED BY <3>1, <3>2 DEF Logs
  <2>3. e.id \notin marked
    BY <2>1, <1>0 DEF Histories
  <2>4. ASSUME NEW i \in 1..Len(calls')
        PROVE  i \in 1..Len(calls) \/ i = Len(calls) + 1
    BY <2>2, <1>0
  <2>5. marked' = marked
    BY <1>1 DEF Grows
  <2> QED BY <2>2, <2>3, <2>4, <2>5 DEF MarksFollowCalls
<1>2. CASE Shrinks
  <2>1. /\ Len(calls') <= Len(calls)
        /\ \A i \in 1..Len(calls') : i \in 1..Len(calls) /\ calls'[i] = calls[i]
    BY <1>2, DropLastFacts DEF Shrinks, Logs
  <2>2. Len(verified') = Len(calls') /\ \A i \in 1..Len(verified') : verified'[i] = verified[i]
    <3>1. calls = <<>> <=> verified = <<>>
      BY EmptySeq, LenProperties DEF Logs
    <3> QED BY <3>1, <1>2, DropLastFacts DEF Shrinks, Logs
  <2> QED BY <1>2, <2>1, <2>2 DEF Shrinks, MarksFollowCalls
<1>3. ASSUME NEW g \in Goroutines, AssertCount(g)
      PROVE  MarksFollowCalls'
  <2> DEFINE H == Hits(pending[g])
  <2>1. H \subseteq 1..Len(calls)
    BY DEF Hits
  <2>2. \A i, j \in 1..Len(calls) : calls[i].id = calls[j].id => i = j
    <3>1. ASSUME NEW i \in 1..Len(calls), NEW j \in 1..Len(calls), i < j
          PROVE  calls[i].id # calls[j].id
      BY <3>1, <1>0 DEF Ordered, Numbered
    <3>2. \A i, j \in 1..Len(calls) : i < j \/ i = j \/ j < i
      BY <1>0
    <3> QED BY <3>1, <3>2
  <2>3. /\ calls' = calls
        /\ verified' = [i \in 1..Len(calls) |-> verified[i] \/ i \in H]
        /\ marked' = marked \cup {calls[i].id : i \in H}
    BY <1>3 DEF AssertCount
  <2> HIDE DEF H
  <2>4. ASSUME NEW i \in 1..Len(calls)
        PROVE  verified'[i] <=> calls[i].id \in marked'
    <3>1. verified'[i] <=> verified[i] \/ i \in H
      BY <2>3
    <3>2. verified[i] <=> calls[i].id \in marked
      BY DEF MarksFollowCalls
    <3>3. i \in H <=> calls[i].id \in {calls[k].id : k \in H}
      BY <2>1, <2>2
    <3> QED BY <2>3, <3>1, <3>2, <3>3
  <2> QED BY <2>3, <2>4 DEF MarksFollowCalls
<1>4. ASSUME NEW g \in Goroutines, InOrderTimes(g)
      PROVE  UNCHANGED <<calls, verified, marked>>
  BY <1>4 DEF InOrderTimes, logVars
<1>5. CASE UNCHANGED <<calls, verified, marked>>
  BY <1>5 DEF MarksFollowCalls
<1> QED BY <1>1, <1>2, <1>3, <1>4, <1>5, LogSteps DEF Stays

\* Every step keeps each InOrder past what it verified last.
LEMMA CursorKept ==
  ASSUME Logs, Histories, Ordered, CursorIsPast, [Next]_vars
  PROVE  CursorIsPast'
<1>0. /\ made \in Nat /\ Len(calls) \in Nat
      /\ \A i \in 1..Len(calls) : calls[i] \in Entries /\ calls[i].id \in 1..made
  BY LogFacts
<1>1. ASSUME NEW e, Grows(e)
      PROVE  CursorIsPast'
  <2>1. e \in Entries /\ e.id = made + 1
    <3>1. made + 1 \in 1..MaxMade
      BY <1>1, MockitoAssumption DEF Logs, Grows
    <3> QED BY <3>1, <1>1 DEF Grows, Entries
  <2>2. /\ Len(calls') = Len(calls) + 1
        /\ \A i \in 1..Len(calls) : calls'[i] = calls[i]
        /\ calls'[Len(calls) + 1] = e
        /\ UNCHANGED <<pos, passed>>
    BY <1>1, <2>1, AppendProperties DEF Logs, Grows
  <2>3. ASSUME NEW g \in Goroutines, NEW i \in (pos[g] + 1)..(Len(calls) + 1)
        PROVE  calls'[i].id > passed[g]
    <3>1. passed[g] \in 0..made /\ pos[g] \in 0..made
      BY DEF Histories
    <3>2. CASE i = Len(calls) + 1
      BY <3>1, <3>2, <2>1, <2>2, <1>0
    <3>3. CASE i \in (pos[g] + 1)..Len(calls)
      <4>1. i \in 1..Len(calls)
        BY <3>1, <3>3, <1>0
      <4> QED BY <4>1, <2>2, <3>3 DEF CursorIsPast
    <3> QED BY <3>1, <3>2, <3>3, <1>0
  <2> QED BY <2>2, <2>3 DEF CursorIsPast
<1>2. CASE Shrinks
  <2>1. /\ Len(calls') <= Len(calls) /\ Len(calls') \in Nat
        /\ \A i \in 1..Len(calls') : i \in 1..Len(calls) /\ calls'[i] = calls[i]
    BY <1>2, DropLastFacts, LenProperties DEF Shrinks, Logs
  <2>2. ASSUME NEW g \in Goroutines, NEW i \in (pos[g] + 1)..Len(calls')
        PROVE  calls'[i].id > passed[g]
    <3>1. i \in 1..Len(calls') /\ i \in (pos[g] + 1)..Len(calls)
      BY <2>1, <1>0 DEF Histories
    <3> QED BY <2>1, <3>1 DEF CursorIsPast
  <2> QED BY <1>2, <2>2 DEF Shrinks, CursorIsPast
<1>3. ASSUME NEW g \in Goroutines, InOrderTimes(g)
      PROVE  CursorIsPast'
  <2>1. calls' = calls
    BY <1>3 DEF InOrderTimes, logVars
  <2>2. \/ UNCHANGED <<pos, passed>>
        \/ \E last \in 1..Len(calls) : /\ pos' = [pos EXCEPT ![g] = last]
                                      /\ passed' = [passed EXCEPT ![g] = calls[last].id]
    BY <1>3 DEF InOrderTimes, PastMatch, Hits
  <2>3. CASE UNCHANGED <<pos, passed>>
    BY <2>1, <2>3 DEF CursorIsPast
  <2>4. ASSUME NEW last \in 1..Len(calls), pos' = [pos EXCEPT ![g] = last],
               passed' = [passed EXCEPT ![g] = calls[last].id]
        PROVE  CursorIsPast'
    <3>1. ASSUME NEW i \in (last + 1)..Len(calls)
          PROVE  calls[i].id > calls[last].id
      <4>1. i \in 1..Len(calls) /\ last < i
        BY <1>0
      <4>2. calls[last].id < calls[i].id
        BY <4>1 DEF Ordered, Numbered
      <4> QED BY <1>0, <4>1, <4>2
    <3>2. ASSUME NEW h \in Goroutines, NEW i \in (pos'[h] + 1)..Len(calls)
          PROVE  calls[i].id > passed'[h]
      <4>1. CASE h = g
        <5>1. pos'[h] = last /\ passed'[h] = calls[last].id
          BY <4>1, <2>4 DEF Histories
        <5> QED BY <5>1, <3>1
      <4>2. CASE h # g
        <5>1. pos'[h] = pos[h] /\ passed'[h] = passed[h]
          BY <4>2, <2>4 DEF Histories
        <5> QED BY <5>1 DEF CursorIsPast
      <4> QED BY <4>1, <4>2
    <3> QED BY <2>1, <3>2 DEF CursorIsPast
  <2> QED BY <2>2, <2>3, <2>4
<1>4. ASSUME NEW g \in Goroutines, AssertCount(g)
      PROVE  UNCHANGED <<calls, pos, passed>>
  BY <1>4 DEF AssertCount
<1>5. CASE UNCHANGED <<calls, pos, passed>>
  BY <1>5 DEF CursorIsPast
<1> QED BY <1>1, <1>2, <1>3, <1>4, <1>5, LogSteps DEF Stays

\* A call that takes a group keeps the stubs typed.
LEMMA ConsumedTyped ==
  ASSUME StubsTyped, made \in 0..MaxMade, made < MaxMade, NEW method, NEW arg,
         NEW isReal \in BOOLEAN
  PROVE  /\ Consumed(method, arg, isReal) \in Seq(Stubs)
         /\ Len(Consumed(method, arg, isReal)) = Len(stubs)
         /\ \A j \in 1..Len(stubs) : /\ Consumed(method, arg, isReal)[j].consumed <= made + 1
                                     /\ Consumed(method, arg, isReal)[j].toReal <= made + 1
<1> DEFINE x == FindStub(method, arg)
           st == [stubs[x] EXCEPT !.consumed = @ + 1, !.toReal = IF isReal THEN @ + 1 ELSE @]
<1>0. made \in Nat /\ MaxMade \in Nat /\ made + 1 \in 0..MaxMade
  BY MockitoAssumption
<1>1. /\ Len(stubs) \in Nat /\ DOMAIN stubs = 1..Len(stubs)
      /\ \A j \in 1..Len(stubs) : /\ stubs[j] \in Stubs
                                  /\ stubs[j].consumed <= made /\ stubs[j].toReal <= made
  BY LenProperties, ElementOfSeq DEF StubsTyped
<1>2. CASE Consumed(method, arg, isReal) = stubs
  <2>1. \A j \in 1..Len(stubs) : stubs[j].consumed <= made + 1 /\ stubs[j].toReal <= made + 1
    BY <1>0, <1>1 DEF Stubs
  <2> QED BY <1>2, <2>1 DEF StubsTyped
<1>3. CASE Consumed(method, arg, isReal) = [stubs EXCEPT ![x] = st]
  <2>1. ASSUME x \in 1..Len(stubs)
        PROVE  st \in Stubs /\ st.consumed <= made + 1 /\ st.toReal <= made + 1
    <3>1. /\ stubs[x] \in Stubs
          /\ stubs[x].consumed \in 0..made /\ stubs[x].toReal \in 0..made
      BY <2>1, <1>0, <1>1 DEF Stubs
    <3> HIDE DEF x
    <3>2. /\ stubs[x].consumed + 1 \in 0..MaxMade /\ stubs[x].toReal + 1 \in 0..MaxMade
          /\ stubs[x].consumed + 1 <= made + 1 /\ stubs[x].toReal + 1 <= made + 1
          /\ stubs[x].toReal <= made + 1
      BY <3>1, <1>0
    <3> QED BY <3>1, <3>2 DEF Stubs
  <2> HIDE DEF st, x
  <2>2. [stubs EXCEPT ![x] = st] \in [1..Len(stubs) -> Stubs]
    BY <1>1, <2>1
  <2>3. /\ [stubs EXCEPT ![x] = st] \in Seq(Stubs)
        /\ Len([stubs EXCEPT ![x] = st]) = Len(stubs)
    BY <2>2, <1>1, SeqDef, LenProperties
  <2>4. \A j \in 1..Len(stubs) : /\ [stubs EXCEPT ![x] = st][j].consumed <= made + 1
                                 /\ [stubs EXCEPT ![x] = st][j].toReal <= made + 1
    <3>1. ASSUME NEW j \in 1..Len(stubs)
          PROVE  /\ [stubs EXCEPT ![x] = st][j].consumed <= made + 1
                 /\ [stubs EXCEPT ![x] = st][j].toReal <= made + 1
      <4>1. CASE j = x
        BY <4>1, <1>1, <2>1
      <4>2. CASE j # x
        <5>1. stubs[j].consumed <= made + 1 /\ stubs[j].toReal <= made + 1
          BY <1>0, <1>1 DEF Stubs
        <5> QED BY <4>2, <5>1, <1>1
      <4> QED BY <4>1, <4>2
    <3> QED BY <3>1
  <2> QED BY <1>3, <2>3, <2>4
<1> QED BY <1>2, <1>3 DEF Consumed

\* Every step keeps the stubs typed, and neither stubs nor numbers of calls are
\* taken back.
LEMMA StubsKept ==
  ASSUME Logs, StubsTyped, Typed, RecordsItsTrigger, [Next]_vars
  PROVE  StubsTyped' /\ Len(stubs') >= Len(stubs) /\ made' >= made
<1> USE DEF vars, logVars, glsVars, goVars, historyVars
<1>0. /\ made \in 0..MaxMade /\ MaxMade \in Nat /\ made \in Nat
      /\ Len(stubs) \in Nat /\ DOMAIN stubs = 1..Len(stubs)
      /\ \A j \in 1..Len(stubs) : stubs[j] \in Stubs
  BY MockitoAssumption, LenProperties, ElementOfSeq DEF Logs, StubsTyped
<1>1. ASSUME NEW g \in Goroutines, NEW method \in Methods, NEW arg \in Values,
             NEW isReal \in BOOLEAN,
             Recorded(g, method, arg), stubs' = Consumed(method, arg, isReal)
      PROVE  StubsTyped' /\ Len(stubs') >= Len(stubs) /\ made' >= made
  <2>1. made < MaxMade /\ made' = made + 1
    BY <1>1 DEF Recorded
  <2> QED BY <1>0, <1>1, <2>1, ConsumedTyped DEF StubsTyped
<1>2. ASSUME NEW g \in Goroutines, AddStub(g)
      PROVE  StubsTyped' /\ Len(stubs') >= Len(stubs) /\ made' >= made
  <2> DEFINE st == [on |-> pending[g], groups |-> 0, answers |-> FALSE,
                    panics |-> FALSE, consumed |-> 0, toReal |-> 0]
  <2>1. made' = made /\ stubs' = Append(stubs, st)
    BY <1>2 DEF AddStub
  <2>2. pending[g] \in Pendings
    BY <1>2 DEF AddStub, Typed, RecordsItsTrigger
  <2>3. st \in Stubs /\ st.consumed <= made /\ st.toReal <= made
    BY <1>0, <2>2, MockitoAssumption DEF Stubs
  <2> HIDE DEF st
  <2>4. /\ stubs' \in Seq(Stubs) /\ Len(stubs') = Len(stubs) + 1
        /\ \A i \in 1..Len(stubs) : stubs'[i] = stubs[i]
        /\ stubs'[Len(stubs) + 1] = st
    BY <2>1, <2>3, AppendProperties DEF StubsTyped
  <2>5. ASSUME NEW i \in 1..Len(stubs')
        PROVE  i \in 1..Len(stubs) \/ i = Len(stubs) + 1
    BY <2>4, <1>0
  <2>6. Len(stubs') >= Len(stubs) /\ made' >= made
    <3>1. Len(stubs) + 1 >= Len(stubs) /\ made >= made
      BY <1>0
    <3> QED BY <3>1, <2>1, <2>4
  <2> QED BY <2>1, <2>3, <2>4, <2>5, <2>6 DEF StubsTyped
<1>3. ASSUME NEW g \in Goroutines, NEW st \in Stubs, stub[g] # 0, Fill(g, st),
             st.consumed = stubs[stub[g]].consumed, st.toReal = stubs[stub[g]].toReal
      PROVE  StubsTyped' /\ Len(stubs') >= Len(stubs) /\ made' >= made
  <2>1. made' = made /\ stubs' = [stubs EXCEPT ![stub[g]] = st]
    BY <1>3 DEF Fill
  <2>2. stub[g] \in 1..Len(stubs)
    BY <1>0, <1>3 DEF Typed
  <2>3. stubs' \in [1..Len(stubs) -> Stubs]
    BY <1>0, <2>1
  <2>4. stubs' \in Seq(Stubs) /\ Len(stubs') = Len(stubs)
    BY <2>3, <1>0, SeqDef, LenProperties
  <2>5. \A j \in 1..Len(stubs) : stubs'[j].consumed <= made /\ stubs'[j].toReal <= made
    BY <1>0, <1>3, <2>1, <2>2 DEF StubsTyped
  <2> QED BY <1>0, <2>1, <2>4, <2>5 DEF StubsTyped
<1>4. ASSUME NEW g \in Goroutines, ThenReturn(g) \/ ThenAnswer(g) \/ ThenPanic(g)
      PROVE  \E st \in Stubs : /\ stub[g] # 0 /\ Fill(g, st)
                               /\ st.consumed = stubs[stub[g]].consumed
                               /\ st.toReal = stubs[stub[g]].toReal
  <2>1. stub[g] # 0
    BY <1>4 DEF ThenReturn, ThenAnswer, ThenPanic
  <2>2. stub[g] \in 1..Len(stubs) /\ stubs[stub[g]] \in Stubs
    BY <1>0, <2>1 DEF Typed
  <2> DEFINE s == stubs[stub[g]]
  <2>3. CASE ThenReturn(g)
    <3>1. s.groups < MaxGroups /\ Fill(g, [s EXCEPT !.groups = @ + 1])
      BY <2>3 DEF ThenReturn
    <3>2. [s EXCEPT !.groups = @ + 1] \in Stubs
      <4>1. s.groups + 1 \in 0..MaxGroups
        BY <2>2, <3>1, MockitoAssumption DEF Stubs
      <4> QED BY <2>2, <4>1 DEF Stubs
    <3> WITNESS [s EXCEPT !.groups = @ + 1] \in Stubs
    <3> QED BY <2>1, <2>2, <3>1 DEF Stubs
  <2>4. CASE ThenAnswer(g)
    <3>1. Fill(g, [s EXCEPT !.answers = TRUE])
      BY <2>4 DEF ThenAnswer
    <3>2. [s EXCEPT !.answers = TRUE] \in Stubs
      BY <2>2 DEF Stubs
    <3> WITNESS [s EXCEPT !.answers = TRUE] \in Stubs
    <3> QED BY <2>1, <2>2, <3>1 DEF Stubs
  <2>5. CASE ThenPanic(g)
    <3>1. Fill(g, [s EXCEPT !.panics = TRUE])
      BY <2>5 DEF ThenPanic
    <3>2. [s EXCEPT !.panics = TRUE] \in Stubs
      BY <2>2 DEF Stubs
    <3> WITNESS [s EXCEPT !.panics = TRUE] \in Stubs
    <3> QED BY <2>1, <2>2, <3>1 DEF Stubs
  <2> QED BY <1>4, <2>3, <2>4, <2>5
<1>5. CASE UNCHANGED <<stubs, made>>
  BY <1>0, <1>5 DEF StubsTyped
<1>6. ASSUME NEW g \in Goroutines,
             \/ PushMatcher(g) \/ PopLast(g) \/ Rollback(g) \/ Drop(g)
             \/ Wait(g) \/ Poll(g) \/ Expire(g) \/ AssertCount(g) \/ InOrderTimes(g)
      PROVE  UNCHANGED <<stubs, made>>
  BY <1>6 DEF PushMatcher, PopLast, Rollback, Drop, Wait, Poll, Expire, AssertCount, InOrderTimes
<1>7. ASSUME NEW g \in Goroutines, NEW method \in Methods, NEW arg \in Values,
             Call(g, method, arg) \/ Trigger(g, method, arg)
      PROVE  /\ Recorded(g, method, arg)
             /\ \E isReal \in BOOLEAN : stubs' = Consumed(method, arg, isReal)
  BY <1>7 DEF Call, Trigger
<1> QED BY <1>1, <1>2, <1>3, <1>4, <1>5, <1>6, <1>7 DEF Next

\* A goroutine that drops its Stubber or Verifier keeps Typed and
\* RecordsItsTrigger.
LEMMA LeaveKeeps ==
  ASSUME Logs, StubsTyped, Typed, RecordsItsTrigger, NEW g \in Goroutines, Leave(g),
         ~ Recording(g), UNCHANGED <<made, stubs, lasts, matchers>>
  PROVE  Typed' /\ RecordsItsTrigger'
<1>1. Typed'
  <2>1. /\ lasts' \in [Goroutines -> Pendings \cup {None}]
        /\ matchers' \in [Goroutines -> BOOLEAN]
        /\ pc' \in [Goroutines -> Labels]
        /\ pending' \in [Goroutines -> Pendings \cup {None}]
    BY DEF Typed, Leave, Labels
  <2>2. stub' \in [Goroutines -> 0..Len(stubs')]
    <3>1. 0 \in 0..Len(stubs)
      BY LenProperties DEF StubsTyped
    <3> QED BY <3>1 DEF Typed, Leave
  <2>3. check' \in [Goroutines -> Checks \cup {NoCheck}]
    BY DEF Typed, Leave
  <2>4. NoTrigger \in [id : 0..made, call : Pendings \cup {None}]
    <3>1. 0 \in 0..made
      BY MockitoAssumption DEF Logs
    <3> QED BY <3>1 DEF NoTrigger
  <2>5. trigger' \in [Goroutines -> [id : 0..made', call : Pendings \cup {None}]]
    BY <2>4 DEF Typed, Leave
  <2>6. ASSUME NEW h \in Goroutines
        PROVE  /\ pc'[h] # "idle" => trigger'[h].call \in Pendings
               /\ Recording(h)' => trigger'[h].id # 0
    BY DEF Typed, Leave, Recording
  <2> QED BY <2>1, <2>2, <2>3, <2>5, <2>6 DEF Typed
<1>2. RecordsItsTrigger'
  BY DEF Typed, RecordsItsTrigger, Leave, Labels
<1> QED BY <1>1, <1>2

\* Every step keeps Typed and RecordsItsTrigger: only g writes what is filed
\* under g.
LEMMA TypedKept ==
  ASSUME Logs, StubsTyped, Typed, RecordsItsTrigger, [Next]_vars
  PROVE  Typed' /\ RecordsItsTrigger'
<1> USE DEF vars, logVars, glsVars, goVars, historyVars
<1>0. /\ made \in 0..MaxMade /\ MaxMade \in Nat /\ made \in Nat /\ Len(stubs) \in Nat
      /\ 0..made \subseteq 0..made' /\ 0..Len(stubs) \subseteq 0..Len(stubs')
  <2>1. /\ made \in 0..MaxMade /\ MaxMade \in Nat /\ made \in Nat /\ Len(stubs) \in Nat
        /\ made' \in Nat /\ Len(stubs') \in Nat
    BY MockitoAssumption, LogsKept, StubsKept, LenProperties DEF Logs, StubsTyped
  <2>2. Len(stubs') >= Len(stubs) /\ made' >= made
    BY StubsKept
  <2> QED BY <2>1, <2>2
\* steps that leave the trigger and what is popped alone, and move pc within a stage
<1>1. ASSUME UNCHANGED <<pc, pending, trigger, check, stub>>,
             NEW g \in Goroutines, pc[g] = "idle",
             lasts' \in [Goroutines -> Pendings \cup {None}],
             matchers' \in [Goroutines -> BOOLEAN],
             \A h \in Goroutines \ {g} : lasts'[h] = lasts[h]
      PROVE  Typed' /\ RecordsItsTrigger'
  <2>1. /\ stub' \in [Goroutines -> 0..Len(stubs')]
        /\ trigger' \in [Goroutines -> [id : 0..made', call : Pendings \cup {None}]]
    <3>1. \A h \in Goroutines : trigger[h] \in [id : 0..made', call : Pendings \cup {None}]
      BY <1>0 DEF Typed
    <3> QED BY <3>1, <1>0, <1>1 DEF Typed
  <2>2. Typed'
    BY <1>1, <2>1 DEF Typed, Recording
  <2> QED BY <1>1, <2>2 DEF RecordsItsTrigger
<1>2. ASSUME NEW g \in Goroutines, pc[g] \notin {"idle", "triggered"},
             NEW l \in Labels \ {"idle", "triggered", "popped"},
             pc' = [pc EXCEPT ![g] = l],
             stub' \in [Goroutines -> 0..Len(stubs')],
             check' \in [Goroutines -> Checks \cup {NoCheck}],
             UNCHANGED <<lasts, matchers, pending, trigger, made>>
      PROVE  Typed' /\ RecordsItsTrigger'
  <2>1. /\ lasts' \in [Goroutines -> Pendings \cup {None}]
        /\ matchers' \in [Goroutines -> BOOLEAN]
        /\ pc' \in [Goroutines -> Labels]
        /\ pending' \in [Goroutines -> Pendings \cup {None}]
        /\ trigger' \in [Goroutines -> [id : 0..made', call : Pendings \cup {None}]]
    BY <1>2 DEF Typed
  <2>2. ASSUME NEW h \in Goroutines
        PROVE  /\ pc'[h] # "idle" => trigger'[h].call \in Pendings
               /\ Recording(h)' => trigger'[h].id # 0
    BY <1>2 DEF Typed, Recording
  <2>3. Typed'
    BY <1>2, <2>1, <2>2 DEF Typed
  <2> QED BY <1>2, <2>3 DEF Typed, RecordsItsTrigger
<1>3. ASSUME NEW g \in Goroutines, NEW method \in Methods, NEW arg \in Values,
             Recorded(g, method, arg)
      PROVE  /\ lasts' \in [Goroutines -> Pendings \cup {None}]
             /\ matchers' \in [Goroutines -> BOOLEAN]
             /\ \A h \in Goroutines \ {g} : lasts'[h] = lasts[h]
             /\ lasts'[g] = [method |-> method, arg |-> arg, any |-> matchers[g]]
             /\ lasts'[g] \in Pendings
             /\ made' = made + 1
  <2>1. [method |-> method, arg |-> arg, any |-> matchers[g]] \in Pendings
    BY DEF Pendings, Typed
  <2> QED BY <2>1, <1>3 DEF Recorded, Typed
<1>4. ASSUME NEW g \in Goroutines, PushMatcher(g)
      PROVE  Typed' /\ RecordsItsTrigger'
  BY <1>4, <1>1 DEF PushMatcher, Typed
<1>5. ASSUME NEW g \in Goroutines, NEW method \in Methods, NEW arg \in Values,
             Call(g, method, arg)
      PROVE  Typed' /\ RecordsItsTrigger'
  BY <1>5, <1>1, <1>3 DEF Call
<1>6. ASSUME NEW g \in Goroutines, NEW method \in Methods, NEW arg \in Values,
             Trigger(g, method, arg)
      PROVE  Typed' /\ RecordsItsTrigger'
  <2>1. Recorded(g, method, arg) /\ pc[g] = "idle" /\ UNCHANGED <<pending, check, stub>>
    BY <1>6 DEF Trigger
  <2>2. CASE UNCHANGED <<pc, trigger>>
    BY <2>1, <2>2, <1>1, <1>3
  <2>3. CASE /\ Goto(g, "triggered")
             /\ trigger' = [trigger EXCEPT ![g] =
                  [id |-> made + 1, call |-> [method |-> method, arg |-> arg, any |-> matchers[g]]]]
    <3> DEFINE t == [id |-> made + 1, call |-> lasts'[g]]
    <3>1. trigger' = [trigger EXCEPT ![g] = t] /\ pc' = [pc EXCEPT ![g] = "triggered"]
      BY <2>1, <2>3, <1>3 DEF Goto
    <3>2. t \in [id : 0..made', call : Pendings \cup {None}] /\ t.id # 0 /\ t.call \in Pendings
          /\ t.call = lasts'[g]
      <4>0. made' = made + 1
        BY <2>1, <1>3
      <4>1. made + 1 \in 0..made' /\ made + 1 # 0
        BY <1>0, <4>0
      <4> QED BY <4>1, <2>1, <1>3
    <3> HIDE DEF t
    <3>3. trigger' \in [Goroutines -> [id : 0..made', call : Pendings \cup {None}]]
      <4>1. \A h \in Goroutines : trigger[h] \in [id : 0..made', call : Pendings \cup {None}]
        BY <1>0 DEF Typed
      <4> QED BY <4>1, <3>1, <3>2 DEF Typed
    <3>4. /\ pc' \in [Goroutines -> Labels]
          /\ stub' \in [Goroutines -> 0..Len(stubs')]
          /\ pending' \in [Goroutines -> Pendings \cup {None}]
          /\ check' \in [Goroutines -> Checks \cup {NoCheck}]
      BY <1>0, <2>1, <3>1 DEF Typed, Labels
    <3>5. ASSUME NEW h \in Goroutines
          PROVE  /\ pc'[h] # "idle" => trigger'[h].call \in Pendings
                 /\ Recording(h)' => trigger'[h].id # 0
                 /\ pc'[h] = "triggered" => lasts'[h] = trigger'[h].call
                 /\ pc'[h] \notin {"idle", "triggered"} => pending'[h] = trigger'[h].call
      <4>1. CASE h = g
        BY <4>1, <3>1, <3>2 DEF Typed, Recording
      <4>2. CASE h # g
        <5>1. /\ pc'[h] = pc[h] /\ trigger'[h] = trigger[h] /\ lasts'[h] = lasts[h]
              /\ pending'[h] = pending[h]
          BY <4>2, <3>1, <2>1, <1>3 DEF Typed
        <5> QED BY <5>1 DEF Typed, RecordsItsTrigger, Recording
      <4> QED BY <4>1, <4>2
    <3> QED BY <2>1, <1>3, <3>3, <3>4, <3>5 DEF Typed, RecordsItsTrigger
  <2> QED BY <2>2, <2>3, <1>6 DEF Trigger
<1>7. ASSUME NEW g \in Goroutines, PopLast(g)
      PROVE  Typed' /\ RecordsItsTrigger'
  <2>1. /\ pc[g] = "triggered" /\ pc' = [pc EXCEPT ![g] = "popped"]
        /\ pending' = [pending EXCEPT ![g] = lasts[g]]
        /\ lasts' = [lasts EXCEPT ![g] = None]
        /\ UNCHANGED <<stubs, matchers, stub, check, made, trigger>>
    BY <1>7 DEF PopLast, Goto, LastOf
  <2>2. lasts[g] = trigger[g].call
    BY <2>1 DEF RecordsItsTrigger
  <2>3. Typed'
    BY <2>1, <2>2 DEF Typed, Recording, Labels
  <2>4. RecordsItsTrigger'
    BY <2>1, <2>2 DEF Typed, RecordsItsTrigger
  <2> QED BY <2>3, <2>4
<1>8. ASSUME NEW g \in Goroutines, Rollback(g)
      PROVE  Typed' /\ RecordsItsTrigger'
  <2>1. PICK l \in {"stubbing", "verifying", "ordering"} : pc' = [pc EXCEPT ![g] = l]
    BY <1>8 DEF Rollback, Goto
  <2>2. /\ pc[g] = "popped"
        /\ UNCHANGED <<lasts, matchers, pending, trigger, made, stub, check, stubs>>
    BY <1>8 DEF Rollback
  <2>3. /\ stub' \in [Goroutines -> 0..Len(stubs')]
        /\ check' \in [Goroutines -> Checks \cup {NoCheck}]
    BY <2>2 DEF Typed
  <2>4. l \in Labels \ {"idle", "triggered", "popped"}
    BY DEF Labels
  <2> QED BY <1>2, <2>1, <2>2, <2>3, <2>4
<1>9. ASSUME NEW g \in Goroutines,
             Drop(g) \/ Expire(g) \/ AssertCount(g) \/ InOrderTimes(g)
      PROVE  Typed' /\ RecordsItsTrigger'
  <2>1. Leave(g) /\ UNCHANGED <<made, stubs, lasts, matchers>>
    BY <1>9 DEF Drop, Expire, AssertCount, InOrderTimes
  <2>2. ~ Recording(g)
    BY <1>9 DEF Drop, Expire, AssertCount, InOrderTimes, Recording
  <2> QED BY <2>1, <2>2, LeaveKeeps
<1>10. ASSUME NEW g \in Goroutines, AddStub(g)
       PROVE  Typed' /\ RecordsItsTrigger'
  <2>1. Len(stubs') = Len(stubs) + 1
    <3> DEFINE st == [on |-> pending[g], groups |-> 0, answers |-> FALSE,
                      panics |-> FALSE, consumed |-> 0, toReal |-> 0]
    <3>1. pending[g] \in Pendings
      BY <1>10 DEF AddStub, Typed, RecordsItsTrigger
    <3>2. st \in Stubs
      BY <1>0, <3>1, MockitoAssumption DEF Stubs
    <3>3. stubs' = Append(stubs, st)
      BY <1>10 DEF AddStub
    <3> HIDE DEF st
    <3> QED BY <3>2, <3>3, AppendProperties DEF StubsTyped
  <2>2. stub' \in [Goroutines -> 0..Len(stubs')]
    <3>1. Len(stubs) + 1 \in 0..Len(stubs')
      BY <2>1, <1>0
    <3>2. stub' = [stub EXCEPT ![g] = Len(stubs) + 1]
      BY <1>10 DEF AddStub
    <3> QED BY <3>1, <3>2, <1>0 DEF Typed
  <2>3. check' \in [Goroutines -> Checks \cup {NoCheck}]
    BY <1>10 DEF AddStub, Typed
  <2>4. "created" \in Labels \ {"idle", "triggered", "popped"}
    BY DEF Labels
  <2>5. /\ pc[g] = "stubbing" /\ pc' = [pc EXCEPT ![g] = "created"]
        /\ UNCHANGED <<lasts, matchers, pending, trigger, made>>
    BY <1>10 DEF AddStub, Goto
  <2> QED BY <1>2, <2>2, <2>3, <2>4, <2>5
<1>11. ASSUME NEW g \in Goroutines, ThenReturn(g) \/ ThenAnswer(g) \/ ThenPanic(g)
       PROVE  Typed' /\ RecordsItsTrigger'
  <2>1. /\ pc[g] \in {"created", "building"} /\ pc' = [pc EXCEPT ![g] = "building"]
        /\ UNCHANGED <<lasts, matchers, pending, trigger, made, stub, check>>
    BY <1>11 DEF ThenReturn, ThenAnswer, ThenPanic, Fill, Goto
  <2>2. /\ stub' \in [Goroutines -> 0..Len(stubs')]
        /\ check' \in [Goroutines -> Checks \cup {NoCheck}]
    BY <2>1, <1>0 DEF Typed
  <2>3. "building" \in Labels \ {"idle", "triggered", "popped"}
    BY DEF Labels
  <2> QED BY <1>2, <2>1, <2>2, <2>3
<1>12. ASSUME NEW g \in Goroutines, Wait(g) \/ Poll(g)
       PROVE  Typed' /\ RecordsItsTrigger'
  <2>1. PICK l \in {"waiting", "asserting"} : pc' = [pc EXCEPT ![g] = l]
    BY <1>12 DEF Wait, Poll, Goto
  <2>2. /\ pc[g] \in {"verifying", "waiting"}
        /\ UNCHANGED <<lasts, matchers, pending, trigger, made, stub, stubs>>
    BY <1>12 DEF Wait, Poll
  <2>3. check' \in [Goroutines -> Checks \cup {NoCheck}]
    <3>1. CASE check' = check
      BY <3>1 DEF Typed
    <3>2. CASE \E chk \in Checks : check' = [check EXCEPT ![g] = chk]
      BY <3>2 DEF Typed
    <3> QED BY <1>12, <3>1, <3>2 DEF Wait, Poll
  <2>4. stub' \in [Goroutines -> 0..Len(stubs')]
    BY <2>2 DEF Typed
  <2>5. l \in Labels \ {"idle", "triggered", "popped"}
    BY DEF Labels
  <2> QED BY <1>2, <2>1, <2>2, <2>3, <2>4, <2>5
<1>13. CASE UNCHANGED vars
  BY <1>13 DEF Typed, Recording, RecordsItsTrigger
<1> QED
  BY <1>4, <1>5, <1>6, <1>7, <1>8, <1>9, <1>10, <1>11, <1>12, <1>13 DEF Next

\* A call under test.
Called(e) ==
  /\ Grows(e) /\ real' = Append(real, e) /\ UNCHANGED <<leaked, intact>>
  /\ Recordings' = Recordings /\ \A h \in Recordings : trigger'[h] = trigger[h]
\* A call that a recording makes, until its rollback.
TriggerKept(g, e) ==
  /\ Grows(e) /\ UNCHANGED <<real, leaked, intact>>
  /\ g \in Goroutines \ Recordings /\ Recordings' = Recordings \cup {g}
  /\ trigger'[g].id = made + 1 /\ \A h \in Recordings : trigger'[h] = trigger[h]
\* A call that a recording makes and that panics.
TriggerLost(e) ==
  /\ Grows(e) /\ UNCHANGED <<real, intact>> /\ leaked' = leaked \cup {made + 1}
  /\ Recordings' = Recordings /\ \A h \in Recordings : trigger'[h] = trigger[h]
\* The rollback of g's recording.
RolledBack(g) ==
  /\ Shrinks
  /\ g \in Recordings /\ Recordings' = Recordings \ {g}
  /\ intact' = (intact /\ calls # <<>> /\ Last(calls).id = trigger[g].id)
  /\ UNCHANGED trigger
\* A step that the calls and the recordings do not see.
Aside ==
  /\ UNCHANGED <<calls, real, leaked, intact, made>>
  /\ Recordings' = Recordings /\ \A h \in Recordings : trigger'[h] = trigger[h]

\* What a step does with the log, together with what it does with the
\* recordings under way.
LEMMA RecordingSteps ==
  ASSUME Typed, [Next]_vars
  PROVE  \/ \E e : Called(e) \/ TriggerLost(e) \/ \E g \in Goroutines : TriggerKept(g, e)
         \/ \E g \in Goroutines : RolledBack(g)
         \/ Aside
<1> USE DEF vars, logVars, glsVars, goVars, historyVars
<1>1. ASSUME UNCHANGED pc
      PROVE  Recordings' = Recordings
  BY <1>1 DEF Recordings, Recording
<1>2. ASSUME NEW g \in Goroutines, NEW l \in Labels, pc' = [pc EXCEPT ![g] = l],
             Recording(g) <=> l \in {"triggered", "popped"}
      PROVE  Recordings' = Recordings
  BY <1>2 DEF Recordings, Recording, Typed
<1>3. ASSUME NEW g \in Goroutines, NEW method \in Methods, NEW arg \in Values,
             Call(g, method, arg)
      PROVE  Called([id |-> made + 1, method |-> method, arg |-> arg])
  BY <1>1, <1>3 DEF Call, Recorded, Grows, Called
<1>4. ASSUME NEW g \in Goroutines, NEW method \in Methods, NEW arg \in Values,
             Trigger(g, method, arg)
      PROVE  LET e == [id |-> made + 1, method |-> method, arg |-> arg]
             IN TriggerLost(e) \/ TriggerKept(g, e)
  <2> DEFINE e == [id |-> made + 1, method |-> method, arg |-> arg]
             t == [id |-> made + 1, call |-> [method |-> method, arg |-> arg, any |-> matchers[g]]]
  <2>1. pc[g] = "idle" /\ UNCHANGED <<real, intact, marked, passed, pos>>
    BY <1>4 DEF Trigger
  <2>2. \/ pc' = [pc EXCEPT ![g] = "triggered"] /\ trigger' = [trigger EXCEPT ![g] = t] /\ leaked' = leaked
        \/ leaked' = leaked \cup {made + 1} /\ UNCHANGED <<pc, trigger>>
    BY <1>4 DEF Trigger, Goto
  <2>3. Grows(e)
    BY <1>4, <2>1, <2>2 DEF Trigger, Recorded, Grows
  <2>4. t.id = made + 1
    OBVIOUS
  <2> HIDE DEF e, t
  <2>5. ASSUME pc' = [pc EXCEPT ![g] = "triggered"], trigger' = [trigger EXCEPT ![g] = t], leaked' = leaked
        PROVE  TriggerKept(g, e)
    <3>1. g \in Goroutines \ Recordings /\ Recordings' = Recordings \cup {g}
      BY <2>1, <2>5 DEF Recordings, Recording, Typed
    <3>2. trigger'[g] = t /\ \A h \in Recordings : trigger'[h] = trigger[h]
      BY <2>5, <3>1 DEF Typed, Recordings
    <3> QED BY <2>1, <2>3, <2>4, <2>5, <3>1, <3>2 DEF TriggerKept
  <2>6. ASSUME leaked' = leaked \cup {made + 1}, UNCHANGED <<pc, trigger>>
        PROVE  TriggerLost(e)
    BY <2>1, <2>3, <2>6, <1>1 DEF TriggerLost
  <2> QED BY <2>2, <2>5, <2>6 DEF e
<1>5. ASSUME NEW g \in Goroutines, Rollback(g)
      PROVE  RolledBack(g)
  <2>1. PICK l \in {"stubbing", "verifying", "ordering"} : pc' = [pc EXCEPT ![g] = l]
    BY <1>5 DEF Rollback, Goto
  <2>2. pc[g] = "popped"
    BY <1>5 DEF Rollback
  <2>3. g \in Recordings /\ Recordings' = Recordings \ {g}
    BY <2>1, <2>2 DEF Recordings, Recording, Typed
  <2> QED BY <1>5, <2>3 DEF Rollback, DropMark, Shrinks, RolledBack
<1>6. ASSUME NEW g \in Goroutines,
             Drop(g) \/ Expire(g) \/ AssertCount(g) \/ InOrderTimes(g)
      PROVE  Aside
  <2>1. /\ UNCHANGED <<calls, real, leaked, intact, made>>
        /\ pc' = [pc EXCEPT ![g] = "idle"] /\ trigger' = [trigger EXCEPT ![g] = NoTrigger]
        /\ ~ Recording(g)
    BY <1>6 DEF Drop, Expire, AssertCount, InOrderTimes, Leave, Recording
  <2>2. Recordings' = Recordings
    BY <1>2, <2>1 DEF Labels
  <2>3. \A h \in Recordings : trigger'[h] = trigger[h]
    BY <2>1 DEF Recordings, Typed
  <2> QED BY <2>1, <2>2, <2>3 DEF Aside
<1>7. ASSUME NEW g \in Goroutines, PopLast(g)
      PROVE  Aside
  <2>1. /\ UNCHANGED <<calls, real, leaked, intact, made, trigger>>
        /\ pc' = [pc EXCEPT ![g] = "popped"] /\ pc[g] = "triggered"
    BY <1>7 DEF PopLast, Goto
  <2>2. Recordings' = Recordings
    BY <1>2, <2>1 DEF Labels, Recording
  <2> QED BY <2>1, <2>2 DEF Aside
<1>8. ASSUME NEW g \in Goroutines,
             \/ AddStub(g) \/ ThenReturn(g) \/ ThenAnswer(g) \/ ThenPanic(g)
             \/ Wait(g) \/ Poll(g)
      PROVE  Aside
  <2>1. UNCHANGED <<calls, real, leaked, intact, made, trigger>>
    BY <1>8 DEF AddStub, ThenReturn, ThenAnswer, ThenPanic, Fill, Wait, Poll
  <2>2. pc[g] \in {"stubbing", "created", "building", "verifying", "waiting"}
    BY <1>8 DEF AddStub, ThenReturn, ThenAnswer, ThenPanic, Fill, Wait, Poll
  <2>3. \E l \in {"created", "building", "waiting", "asserting"} : pc' = [pc EXCEPT ![g] = l]
    BY <1>8 DEF AddStub, ThenReturn, ThenAnswer, ThenPanic, Fill, Wait, Poll, Goto
  <2>4. Recordings' = Recordings
    BY <1>2, <2>2, <2>3 DEF Labels, Recording
  <2> QED BY <2>1, <2>4 DEF Aside
<1>9. ASSUME UNCHANGED <<calls, real, leaked, intact, made, trigger, pc>>
      PROVE  Aside
  BY <1>1, <1>9 DEF Aside
<1>10. ASSUME NEW g \in Goroutines, PushMatcher(g)
       PROVE  UNCHANGED <<calls, real, leaked, intact, made, trigger, pc>>
  BY <1>10 DEF PushMatcher
<1> QED
  BY <1>3, <1>4, <1>5, <1>6, <1>7, <1>8, <1>9, <1>10 DEF Next

\* intercept adds one entry, numbered made + 1, to a log.
LEMMA GrowsBy ==
  ASSUME Logs, NEW e, Grows(e)
  PROVE  /\ e \in Entries /\ e.id = made + 1 /\ made \in Nat
         /\ Len(calls') = Len(calls) + 1 /\ Len(Append(real, e)) = Len(real) + 1
         /\ Range(calls') = Range(calls) \cup {e}
         /\ Range(Append(real, e)) = Range(real) \cup {e}
<1>1. e \in Entries /\ e.id = made + 1 /\ made \in Nat
  <2>1. made + 1 \in 1..MaxMade /\ made \in Nat
    BY MockitoAssumption DEF Logs, Grows
  <2> QED BY <2>1 DEF Grows, Entries
<1>2. ASSUME NEW log \in Seq(Entries)
      PROVE  Len(Append(log, e)) = Len(log) + 1 /\ Range(Append(log, e)) = Range(log) \cup {e}
  <2>1. /\ Append(log, e) \in Seq(Entries) /\ Len(Append(log, e)) = Len(log) + 1
        /\ \A i \in 1..Len(log) : Append(log, e)[i] = log[i]
        /\ Append(log, e)[Len(log) + 1] = e
        /\ Len(log) \in Nat
    BY <1>1, AppendProperties, LenProperties
  <2>2. DOMAIN log = 1..Len(log) /\ DOMAIN Append(log, e) = 1..Len(log) \cup {Len(log) + 1}
    BY <2>1, LenProperties
  <2> QED BY <2>1, <2>2 DEF Range
<1> QED BY <1>1, <1>2 DEF Logs, Grows

\* Every step keeps the length of the log exact: whoever's call a rollback
\* takes, it takes one, and one recording ends with it.
LEMMA CountedKept ==
  ASSUME Logs, Histories, Typed, Finite, LogLengthExact, [Next]_vars
  PROVE  Finite' /\ LogLengthExact'
<1>0. /\ Len(calls) \in Nat /\ Len(real) \in Nat /\ made \in Nat
      /\ IsFiniteSet(leaked) /\ Cardinality(leaked) \in Nat
      /\ IsFiniteSet(Recordings) /\ Cardinality(Recordings) \in Nat
      /\ Len(calls) = Len(real) + Cardinality(Recordings) + Cardinality(leaked)
  <2>1. Len(calls) \in Nat /\ Len(real) \in Nat /\ made \in Nat
    BY LenProperties, MockitoAssumption DEF Logs
  <2>2. IsFiniteSet(leaked)
    <3>1. IsFiniteSet(1..made)
      BY <2>1, FS_Interval
    <3> QED BY <3>1, FS_Subset DEF Histories
  <2>3. Cardinality(leaked) \in Nat /\ Cardinality(Recordings) \in Nat
    BY <2>2, FS_CardinalityType DEF Finite
  <2> QED BY <2>1, <2>2, <2>3 DEF Finite, LogLengthExact, Recordings
<1> SUFFICES /\ IsFiniteSet(Recordings')
             /\ Len(calls') = Len(real') + Cardinality(Recordings') + Cardinality(leaked')
  BY DEF Finite, LogLengthExact, Recordings, Recording
<1>1. ASSUME NEW e, Called(e)
      PROVE  /\ IsFiniteSet(Recordings')
             /\ Len(calls') = Len(real') + Cardinality(Recordings') + Cardinality(leaked')
  BY <1>0, <1>1, GrowsBy DEF Called
<1>2. ASSUME NEW e, TriggerLost(e)
      PROVE  /\ IsFiniteSet(Recordings')
             /\ Len(calls') = Len(real') + Cardinality(Recordings') + Cardinality(leaked')
  <2>1. made + 1 \notin leaked
    BY <1>0 DEF Histories
  <2>2. Cardinality(leaked') = Cardinality(leaked) + 1
    BY <1>0, <1>2, <2>1, FS_AddElement DEF TriggerLost
  <2> QED BY <1>0, <1>2, <2>2, GrowsBy DEF TriggerLost
<1>3. ASSUME NEW e, NEW g \in Goroutines, TriggerKept(g, e)
      PROVE  /\ IsFiniteSet(Recordings')
             /\ Len(calls') = Len(real') + Cardinality(Recordings') + Cardinality(leaked')
  <2>1. IsFiniteSet(Recordings') /\ Cardinality(Recordings') = Cardinality(Recordings) + 1
    BY <1>0, <1>3, FS_AddElement DEF TriggerKept
  <2> QED BY <1>0, <1>3, <2>1, GrowsBy DEF TriggerKept
<1>4. ASSUME NEW g \in Goroutines, RolledBack(g)
      PROVE  /\ IsFiniteSet(Recordings')
             /\ Len(calls') = Len(real') + Cardinality(Recordings') + Cardinality(leaked')
  <2>1. IsFiniteSet(Recordings') /\ Cardinality(Recordings') = Cardinality(Recordings) - 1
    BY <1>0, <1>4, FS_RemoveElement DEF RolledBack
  <2>2. Cardinality(Recordings) # 0
    BY <1>0, <1>4, FS_EmptySet DEF RolledBack
  <2>3. calls # <<>>
    BY <1>0, <2>2, EmptySeq, LenProperties DEF Logs
  <2>4. Len(calls') = Len(calls) - 1
    BY <1>4, <2>3, DropLastFacts DEF RolledBack, Shrinks, Logs
  <2>5. real' = real /\ leaked' = leaked
    BY <1>4 DEF RolledBack, Shrinks
  <2> QED BY <1>0, <2>1, <2>4, <2>5
<1>5. CASE Aside
  BY <1>0, <1>5 DEF Aside
<1> QED BY <1>1, <1>2, <1>3, <1>4, <1>5, RecordingSteps

\* The numbers of the triggers that are still to be rolled back, or never will
\* be.
TriggerIds == leaked \cup {trigger[g].id : g \in {h \in Goroutines : Recording(h)}}

\* Every step keeps the log real: while rollbacks meet their own triggers, the
\* call a rollback takes is the one whose number leaves TriggerIds.
LEMMA RealKept ==
  ASSUME Logs, Histories, Typed, Ordered, LogIsReal, [Next]_vars
  PROVE  LogIsReal'
<1>0. /\ made \in Nat /\ Len(calls) \in Nat
      /\ \A e \in Range(calls) : e.id \in 1..made
      /\ TriggerIds \subseteq 0..made
  <2>1. /\ made \in Nat /\ Len(calls) \in Nat
        /\ \A e \in Range(calls) : e.id \in 1..made
    BY LogFacts, LenProperties DEF Range, Logs
  <2>2. TriggerIds \subseteq 0..made
    <3>1. \A h \in Goroutines : trigger[h].id \in 0..made
      BY DEF Typed
    <3>2. 1..made \subseteq 0..made
      BY <2>1
    <3> QED BY <3>1, <3>2 DEF Histories, TriggerIds
  <2> QED BY <2>1, <2>2
<1> SUFFICES ASSUME intact'
             PROVE  {e \in Range(calls') : e.id \notin TriggerIds'} = Range(real')
  BY OrderedKept DEF LogIsReal, Ordered, TriggerIds, Recording
<1>1. ASSUME intact
      PROVE  {e \in Range(calls) : e.id \notin TriggerIds} = Range(real)
  BY <1>1 DEF LogIsReal, TriggerIds
<1>2. ASSUME Recordings' = Recordings, \A h \in Recordings : trigger'[h] = trigger[h]
      PROVE  {trigger'[h].id : h \in Recordings'} = {trigger[h].id : h \in Recordings}
  BY <1>2
<1>3. /\ TriggerIds = leaked \cup {trigger[h].id : h \in Recordings}
      /\ TriggerIds' = leaked' \cup {trigger'[h].id : h \in Recordings'}
  BY DEF TriggerIds, Recordings, Recording
<1>4. ASSUME NEW e, Called(e)
      PROVE  {c \in Range(calls') : c.id \notin TriggerIds'} = Range(real')
  <2>1. TriggerIds' = TriggerIds /\ intact /\ real' = Append(real, e)
    BY <1>2, <1>3, <1>4 DEF Called
  <2>2. e.id \notin TriggerIds
    BY <1>0, <1>4, GrowsBy DEF Called
  <2> QED BY <1>1, <1>4, <2>1, <2>2, GrowsBy DEF Called
<1>5. ASSUME NEW e, TriggerLost(e) \/ \E g \in Goroutines : TriggerKept(g, e)
      PROVE  {c \in Range(calls') : c.id \notin TriggerIds'} = Range(real')
  <2>1. CASE TriggerLost(e)
    <3>1. TriggerIds' = TriggerIds \cup {made + 1} /\ intact /\ real' = real /\ Grows(e)
      BY <1>2, <1>3, <2>1 DEF TriggerLost
    <3> QED BY <1>0, <1>1, <3>1, GrowsBy
  <2>2. ASSUME NEW g \in Goroutines, TriggerKept(g, e)
        PROVE  {c \in Range(calls') : c.id \notin TriggerIds'} = Range(real')
    <3>1. {trigger'[h].id : h \in Recordings'} = {trigger[h].id : h \in Recordings} \cup {made + 1}
      BY <2>2 DEF TriggerKept
    <3>2. TriggerIds' = TriggerIds \cup {made + 1} /\ intact /\ real' = real /\ Grows(e)
      BY <1>3, <2>2, <3>1 DEF TriggerKept
    <3> QED BY <1>0, <1>1, <3>2, GrowsBy
  <2> QED BY <1>5, <2>1, <2>2
<1>6. ASSUME NEW g \in Goroutines, RolledBack(g)
      PROVE  {c \in Range(calls') : c.id \notin TriggerIds'} = Range(real')
  <2> DEFINE t == trigger[g].id
  <2>1. intact /\ calls # <<>> /\ Last(calls).id = t /\ UNCHANGED <<trigger, leaked, real>>
    BY <1>6 DEF RolledBack, Shrinks
  <2>2. g \in Recordings /\ Recordings' = Recordings \ {g} /\ calls' = DropLast(calls)
    BY <1>6 DEF RolledBack, Shrinks
  <2>3. t \in TriggerIds /\ TriggerIds' \subseteq TriggerIds /\ TriggerIds \subseteq TriggerIds' \cup {t}
    BY <1>3, <2>1, <2>2
  <2>4. /\ Range(calls) = Range(calls') \cup {Last(calls)}
        /\ \A e \in Range(calls') : e.id # t
    <3>1. Len(calls) # 0 /\ Last(calls) = calls[Len(calls)]
      BY <2>1, EmptySeq, LenProperties DEF Logs, Last
    <3>2. /\ Len(calls') = Len(calls) - 1
          /\ \A i \in 1..Len(calls') : i \in 1..Len(calls) /\ calls'[i] = calls[i]
      BY <2>1, <2>2, DropLastFacts DEF Logs
    <3>3. DOMAIN calls = 1..Len(calls) /\ DOMAIN calls' = 1..Len(calls')
      BY LogsKept, LenProperties DEF Logs
    <3>4. 1..Len(calls) = 1..Len(calls') \cup {Len(calls)}
      BY <1>0, <3>1, <3>2
    <3>5. \A i \in 1..Len(calls') : calls[i].id < calls[Len(calls)].id
      <4>1. \A i \in 1..Len(calls') : i < Len(calls) /\ i \in 1..Len(calls) /\ Len(calls) \in 1..Len(calls)
        BY <1>0, <3>1, <3>2
      <4> QED BY <4>1 DEF Ordered, Numbered
    <3>6. \A i \in 1..Len(calls') : calls'[i].id # t
      <4>1. \A i \in 1..Len(calls) : calls[i].id \in Nat
        BY LogFacts, <1>0
      <4> QED BY <4>1, <3>1, <3>2, <3>5, <2>1, <1>0
    <3> QED BY <3>1, <3>2, <3>3, <3>4, <3>6 DEF Range
  <2> HIDE DEF t
  <2> QED BY <1>1, <2>1, <2>3, <2>4
<1>7. CASE Aside
  <2>1. TriggerIds' = TriggerIds
    BY <1>2, <1>3, <1>7 DEF Aside
  <2>2. intact /\ calls' = calls /\ real' = real
    BY <1>7 DEF Aside
  <2>3. Range(calls') = Range(calls) /\ Range(real') = Range(real)
    BY <2>2
  <2>4. {c \in Range(calls) : c.id \notin TriggerIds} = Range(real)
    BY <1>1, <2>2
  <2> QED BY <2>1, <2>3, <2>4
<1>8. CASE \E e : Called(e) \/ TriggerLost(e) \/ \E g \in Goroutines : TriggerKept(g, e)
  <2>1. PICK e : Called(e) \/ TriggerLost(e) \/ \E g \in Goroutines : TriggerKept(g, e)
    BY <1>8
  <2>2. CASE Called(e)
    BY <1>4, <2>2
  <2>3. CASE TriggerLost(e) \/ \E g \in Goroutines : TriggerKept(g, e)
    BY <1>5, <2>3
  <2> QED BY <2>1, <2>2, <2>3
<1> QED BY <1>6, <1>7, <1>8, RecordingSteps

\* A count is at most the length of the log.
LEMMA CountBounds ==
  ASSUME NEW p, NEW log \in Seq(Entries)
  PROVE  /\ IsFiniteSet({i \in 1..Len(log) : Matches(p, log[i].method, log[i].arg)})
         /\ CountOf(p, log) \in Nat /\ CountOf(p, log) <= Len(log)
<1> DEFINE hits == {i \in 1..Len(log) : Matches(p, log[i].method, log[i].arg)}
<1>1. Len(log) \in Nat
  BY LenProperties
<1>2. IsFiniteSet(1..Len(log)) /\ Cardinality(1..Len(log)) = Len(log)
  BY <1>1, FS_Interval
<1>3. hits \subseteq 1..Len(log)
  OBVIOUS
<1> HIDE DEF hits
<1>4. IsFiniteSet(hits) /\ Cardinality(hits) <= Len(log)
  BY <1>2, <1>3, FS_Subset
<1> QED BY <1>4, FS_CardinalityType DEF hits, CountOf

\* A count never falls when a call is added.
LEMMA CountGrows ==
  ASSUME NEW p, NEW log \in Seq(Entries), NEW e \in Entries
  PROVE  CountOf(p, log) <= CountOf(p, Append(log, e))
<1> DEFINE old == {i \in 1..Len(log) : Matches(p, log[i].method, log[i].arg)}
           longer == Append(log, e)
           new == {i \in 1..Len(longer) : Matches(p, longer[i].method, longer[i].arg)}
<1>1. /\ longer \in Seq(Entries) /\ Len(longer) = Len(log) + 1 /\ Len(log) \in Nat
      /\ \A i \in 1..Len(log) : longer[i] = log[i]
  BY AppendProperties, LenProperties
<1>2. IsFiniteSet(new)
  BY <1>1, CountBounds
<1>3. CountOf(p, log) = Cardinality(old) /\ CountOf(p, longer) = Cardinality(new)
  BY DEF CountOf
<1> HIDE DEF longer
<1>4. old \subseteq new
  BY <1>1
<1> HIDE DEF old, new
<1>5. Cardinality(old) <= Cardinality(new)
  BY <1>2, <1>4, FS_Subset
<1> QED BY <1>3, <1>5 DEF longer

\* g stays where it asserts, with the same log
Undisturbed(g) ==
  /\ calls' = calls
  /\ pc'[g] = "asserting" =>
       /\ pc[g] = "asserting" /\ pending'[g] = pending[g] /\ check'[g] = check[g]
       /\ g \in shaken => g \in shaken'

\* Every step keeps a satisfied AtLeast satisfied: only a rollback can lower a
\* count, and that is when shaken gains every goroutine that is between its
\* wait and its assert.
LEMMA AtLeastKept ==
  ASSUME Logs, Typed, AtLeastStands, [Next]_vars
  PROVE  AtLeastStands'
<1> USE DEF vars, logVars, glsVars, goVars, historyVars
<1> SUFFICES ASSUME NEW g \in Goroutines, pc'[g] = "asserting", check'[g].hi = MaxMade,
                    g \notin shaken'
             PROVE  Holds(check'[g], CountOf(pending'[g], calls'))
  BY DEF AtLeastStands, Holds, CountOf, Matches
<1>0. pc[g] = "asserting" /\ check[g].hi = MaxMade /\ g \notin shaken
         => Holds(check[g], CountOf(pending[g], calls))
  BY DEF AtLeastStands
<1>1. ASSUME Undisturbed(g)
      PROVE  Holds(check'[g], CountOf(pending'[g], calls'))
  BY <1>0, <1>1 DEF Undisturbed
<1>2. ASSUME NEW h \in Goroutines, NEW method \in Methods, NEW arg \in Values,
             Call(h, method, arg) \/ Trigger(h, method, arg)
      PROVE  Holds(check'[g], CountOf(pending'[g], calls'))
  <2> DEFINE e == [id |-> made + 1, method |-> method, arg |-> arg]
             p == pending[g]
  <2>1. /\ pc[g] = "asserting" /\ UNCHANGED <<pending, check, shaken>>
        /\ calls' = Append(calls, e) /\ made < MaxMade
    <3>1. pc' = pc \/ pc' = [pc EXCEPT ![h] = "triggered"]
      BY <1>2 DEF Call, Trigger, Goto
    <3>2. pc[g] = "asserting"
      BY <3>1 DEF Typed
    <3> QED BY <1>2, <3>2 DEF Call, Trigger, Recorded
  <2>2. check[g].lo <= CountOf(p, calls)
    BY <1>0, <2>1 DEF Holds
  <2>3. e \in Entries
    BY <2>1, EntryTyped DEF Logs
  <2>4. CountOf(p, calls) <= CountOf(p, calls') /\ CountOf(p, calls') <= Len(calls')
        /\ CountOf(p, calls) \in Nat /\ CountOf(p, calls') \in Nat
    BY <2>1, <2>3, CountGrows, CountBounds, LogsKept DEF Logs
  <2>5. Len(calls') <= MaxMade /\ Len(calls') \in Nat
    <3>1. Len(calls') <= made' /\ made' \in 0..MaxMade /\ Len(calls') \in Nat
      BY LogsKept, LenProperties DEF Logs
    <3> QED BY <3>1, MockitoAssumption
  <2>6. check[g].lo \in Nat /\ check[g].hi = MaxMade
    <3>1. check[g] \in [lo : 0..MaxMade, hi : 0..MaxMade]
      BY MockitoAssumption DEF Typed, NoCheck
    <3> QED BY <3>1, <2>1
  <2>7. check[g].lo <= CountOf(p, calls') /\ CountOf(p, calls') <= check[g].hi
    BY <2>2, <2>4, <2>5, <2>6, MockitoAssumption
  <2> QED BY <2>1, <2>7 DEF Holds
<1>3. ASSUME NEW h \in Goroutines, Rollback(h)
      PROVE  FALSE
  <2>1. PICK l \in {"stubbing", "verifying", "ordering"} : pc' = [pc EXCEPT ![h] = l]
    BY <1>3 DEF Rollback, Goto
  <2>2. shaken' = shaken \cup {k \in Goroutines \ {h} : pc[k] = "asserting"}
    BY <1>3 DEF Rollback
  <2> QED BY <2>1, <2>2 DEF Typed
<1>4. ASSUME NEW h \in Goroutines,
             Drop(h) \/ Expire(h) \/ AssertCount(h) \/ InOrderTimes(h)
      PROVE  Undisturbed(g)
  <2>1. calls' = calls /\ Leave(h)
    BY <1>4 DEF Drop, Expire, AssertCount, InOrderTimes
  <2>2. h # g
    BY <2>1 DEF Leave, Typed
  <2> QED BY <2>1, <2>2 DEF Leave, Typed, Undisturbed
<1>5. ASSUME NEW h \in Goroutines, Poll(h)
      PROVE  Holds(check'[g], CountOf(pending'[g], calls'))
  <2>1. UNCHANGED <<calls, pending, check, shaken>> /\ pc' = [pc EXCEPT ![h] = "asserting"]
    BY <1>5 DEF Poll, Goto
  <2>2. CASE h = g
    BY <1>5, <2>1, <2>2 DEF Poll, WaitIsOver
  <2>3. CASE h # g
    BY <1>1, <2>1, <2>3 DEF Undisturbed, Typed
  <2> QED BY <2>2, <2>3
<1>6. ASSUME NEW h \in Goroutines,
             \/ PushMatcher(h) \/ PopLast(h) \/ AddStub(h)
             \/ ThenReturn(h) \/ ThenAnswer(h) \/ ThenPanic(h) \/ Wait(h)
      PROVE  Undisturbed(g)
  <2>1. calls' = calls /\ shaken' = shaken
    BY <1>6 DEF PushMatcher, PopLast, AddStub, ThenReturn, ThenAnswer, ThenPanic, Fill, Wait
  <2>2. CASE UNCHANGED <<pc, pending, check>>
    BY <2>1, <2>2 DEF Undisturbed
  <2>3. CASE \E l \in {"popped", "created", "building", "waiting"} : pc' = [pc EXCEPT ![h] = l]
    <3>1. h # g
      BY <2>3 DEF Typed
    <3>2. pc'[g] = pc[g]
      BY <2>3, <3>1 DEF Typed
    <3>3. \/ UNCHANGED pending
          \/ \E p : pending' = [pending EXCEPT ![h] = p]
      BY <1>6 DEF PushMatcher, PopLast, AddStub, ThenReturn, ThenAnswer, ThenPanic, Fill, Wait
    <3>4. \/ UNCHANGED check
          \/ \E c : check' = [check EXCEPT ![h] = c]
      BY <1>6 DEF PushMatcher, PopLast, AddStub, ThenReturn, ThenAnswer, ThenPanic, Fill, Wait
    <3>5. pending'[g] = pending[g] /\ check'[g] = check[g]
      BY <3>1, <3>3, <3>4 DEF Typed
    <3> QED BY <2>1, <3>2, <3>5 DEF Undisturbed
  <2>4. \/ UNCHANGED <<pc, pending, check>>
        \/ \E l \in {"popped", "created", "building", "waiting"} : pc' = [pc EXCEPT ![h] = l]
    BY <1>6 DEF PushMatcher, PopLast, AddStub, ThenReturn, ThenAnswer, ThenPanic, Fill, Wait, Goto
  <2> QED BY <2>2, <2>3, <2>4
<1>7. CASE UNCHANGED vars
  BY <1>1, <1>7 DEF Undisturbed
<1> QED BY <1>1, <1>2, <1>3, <1>4, <1>5, <1>6, <1>7 DEF Next

\* A mock that nothing has called satisfies every part of the invariant.
LEMMA InitHolds ==
  ASSUME Init
  PROVE  /\ Logs /\ Histories /\ StubsTyped /\ Typed /\ RecordsItsTrigger /\ Finite /\ Ordered
         /\ LogLengthExact /\ LogIsReal /\ MarksFollowCalls /\ CursorIsPast /\ AtLeastStands
<1>1. /\ \A S : <<>> \in Seq(S)
      /\ Len(<<>>) = 0 /\ MaxMade \in Nat
  BY MockitoAssumption, EmptySeq
<1>2. Logs /\ Histories /\ StubsTyped /\ Ordered
  BY <1>1 DEF Init, Logs, Histories, StubsTyped, Ordered, Numbered
<1>3. Typed /\ RecordsItsTrigger
  BY <1>1 DEF Init, Typed, RecordsItsTrigger, Labels, NoTrigger, NoCheck, Recording
<1>4. Recordings = {}
  BY DEF Init, Recordings, Recording
<1>5. Finite /\ LogLengthExact
  <2>1. IsFiniteSet({}) /\ Cardinality({}) = 0
    BY FS_EmptySet
  <2>2. Len(calls) = 0 /\ Len(real) = 0 /\ leaked = {}
    BY <1>1 DEF Init
  <2>3. Len(calls) = Len(real) + Cardinality(Recordings) + Cardinality(leaked)
    BY <1>4, <2>1, <2>2
  <2> QED BY <1>4, <2>1, <2>3 DEF Finite, LogLengthExact, Recordings
<1>6. LogIsReal
  BY <1>1, <1>2 DEF Init, LogIsReal, Ordered, Range
<1>7. MarksFollowCalls /\ CursorIsPast /\ AtLeastStands
  BY <1>1 DEF Init, MarksFollowCalls, CursorIsPast, AtLeastStands
<1> QED BY <1>2, <1>3, <1>5, <1>6, <1>7

\* The inductive invariant
IInv ==
  /\ Logs /\ Histories /\ StubsTyped /\ Typed /\ RecordsItsTrigger /\ Finite /\ Ordered
  /\ LogLengthExact /\ LogIsReal /\ MarksFollowCalls /\ CursorIsPast /\ AtLeastStands

\* The invariant holds in every state, for any goroutines, methods, values and
\* assertions, and for every bound on calls, stubs and groups.
THEOREM Inductive == Spec => []IInv
<1>1. Init => IInv
  BY InitHolds DEF IInv
<1>2. IInv /\ [Next]_vars => IInv'
  BY LogsKept, HistoriesKept, StubsKept, TypedKept, OrderedKept, CountedKept, RealKept,
     MarksKept, CursorKept, AtLeastKept DEF IInv
<1> QED BY <1>1, <1>2, PTL DEF Spec

\* Mockito.TypeOK: everything keeps to its domain, and state.verified grows and
\* shrinks with state.calls.
THEOREM TypeCorrect == Spec => []TypeOK
<1>1. IInv => TypeOK
  <2> SUFFICES ASSUME IInv PROVE TypeOK
    OBVIOUS
  <2>1. \A j \in 1..Len(stubs) : stubs[j] \in Stubs
    BY ElementOfSeq DEF IInv, StubsTyped
  <2>2. pos \in [Goroutines -> 0..MaxMade]
    <3>1. 0..made \subseteq 0..MaxMade
      BY MockitoAssumption DEF IInv, Logs
    <3> QED BY <3>1 DEF IInv, Histories
  <2> QED BY <2>1, <2>2 DEF IInv, Logs, Typed, Stubs, Labels, TypeOK
<1> QED BY <1>1, Inductive, PTL

\* Mockito.RecordsItsTrigger: a Stubber or Verifier is about the call its own
\* goroutine has just recorded, for any number of goroutines (gls.go files
\* lasts and matchers by goroutine).
THEOREM RecordingIsItsOwn == Spec => []RecordsItsTrigger
<1>1. IInv => RecordsItsTrigger
  BY DEF IInv
<1> QED BY <1>1, Inductive, PTL

\* Mockito.LogLengthExact: the log is as long as the calls under test, the
\* recordings under way and the triggers that panicked make it, even when a
\* rollback took the call of another goroutine.
THEOREM LengthIsExact == Spec => []LogLengthExact
<1>1. IInv => LogLengthExact
  BY DEF IInv
<1> QED BY <1>1, Inductive, PTL

\* Mockito.LogIsReal: while every rollback has met its own trigger, the log
\* holds the calls under test, in order, and triggers still to be rolled back.
THEOREM LogHoldsRealCalls == Spec => []LogIsReal
<1>1. IInv => LogIsReal
  BY DEF IInv
<1> QED BY <1>1, Inductive, PTL

\* Mockito.MarksFollowCalls: a call is marked verified if and only if some
\* verification has counted it.
THEOREM MarksStayWithCalls == Spec => []MarksFollowCalls
<1>1. IInv => MarksFollowCalls
  BY DEF IInv
<1> QED BY <1>1, Inductive, PTL

\* Mockito.CursorIsPast: what an InOrder looks at next was made after what it
\* verified last, even when rollbacks have cut the log below its cursor.
THEOREM CursorStaysPast == Spec => []CursorIsPast
<1>1. IInv => CursorIsPast
  BY DEF IInv
<1> QED BY <1>1, Inductive, PTL

\* Mockito.AtLeastStands: an AtLeast whose wait was satisfied holds when assert
\* counts again, unless another goroutine rolled back in between.
THEOREM TimedAtLeastStands == Spec => []AtLeastStands
<1>1. IInv => AtLeastStands
  BY DEF IInv
<1> QED BY <1>1, Inductive, PTL
=============================================================================
