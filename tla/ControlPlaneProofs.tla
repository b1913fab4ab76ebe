------------------------- MODULE ControlPlaneProofs -------------------------
(***************************************************************************)
(* Proofs about ControlPlane: for any documents, durations and edits, the  *)
(* rules in force are the valid ones last set and the plan is compiled     *)
(* from them; and, while no sum of delays leaves a time.Duration, a fault  *)
(* does what the list of actions it came from says.                        *)
(***************************************************************************)
EXTENDS ControlPlane, DataProofs, SequenceTheorems, FunctionTheorems, FiniteSetTheorems, TLAPS

-----------------------------------------------------------------------------
(* Durations *)

\* A power of two is positive.
LEMMA PowerPositive ==
  ASSUME NEW w \in Nat
  PROVE  2^w \in Nat /\ 2^w > 0
<1>1. IsFiniteSet(1..w) /\ Cardinality(1..w) = w
  BY FS_Interval
<1> DEFINE S == SUBSET (1..w)
<1>2. IsFiniteSet(S) /\ Cardinality(S) = 2^w
  BY <1>1, FS_SUBSET
<1>3. S # {}
  OBVIOUS
<1> HIDE DEF S
<1>4. Cardinality(S) \in Nat /\ Cardinality(S) # 0
  BY <1>2, <1>3, FS_CardinalityType, FS_EmptySet
<1> QED BY <1>2, <1>4

\* The next one is twice as large.
LEMMA PowerDoubles ==
  ASSUME NEW w \in Nat
  PROVE  2^(w + 1) = 2^w + 2^w
<1> DEFINE A == SUBSET (1..w)
           B == {s \cup {w + 1} : s \in A}
           f == [s \in A |-> s \cup {w + 1}]
<1>1. /\ IsFiniteSet(A) /\ Cardinality(A) = 2^w
      /\ IsFiniteSet(SUBSET (1..w + 1)) /\ Cardinality(SUBSET (1..w + 1)) = 2^(w + 1)
  <2>1. IsFiniteSet(1..w) /\ Cardinality(1..w) = w
    BY FS_Interval
  <2>2. IsFiniteSet(1..w + 1) /\ Cardinality(1..w + 1) = w + 1
    <3>1. w + 1 \in Nat /\ ~(1 > w + 1) /\ w + 1 - 1 + 1 = w + 1
      OBVIOUS
    <3> QED BY <3>1, FS_Interval
  <2> QED BY <2>1, <2>2, FS_SUBSET
<1>2. f \in Bijection(A, B)
  <2>1. f \in [A -> B] /\ \A t \in B : \E s \in A : f[s] = t
    OBVIOUS
  <2>2. ASSUME NEW s \in A, NEW t \in A, f[s] = f[t] PROVE s = t
    <3>1. s \cup {w + 1} = t \cup {w + 1} /\ w + 1 \notin s /\ w + 1 \notin t
      BY <2>2
    <3> QED BY <3>1
  <2> HIDE DEF f, A, B
  <2> QED BY <2>1, <2>2 DEF Bijection, Injection, Surjection, IsInjective
<1>3. A \cap B = {} /\ A \cup B = SUBSET (1..w + 1)
  <2>1. ASSUME NEW t \in SUBSET (1..w + 1), t \notin A PROVE t \in B
    <3>1. w + 1 \in t
      BY <2>1
    <3>2. t \ {w + 1} \in A /\ t = (t \ {w + 1}) \cup {w + 1}
      BY <3>1
    <3> HIDE DEF A
    <3> QED BY <3>2
  <2>2. ASSUME NEW t \in A PROVE t \in SUBSET (1..w + 1) /\ w + 1 \notin t
    OBVIOUS
  <2>3. ASSUME NEW t \in B PROVE t \in SUBSET (1..w + 1) /\ w + 1 \in t
    <3>1. PICK s \in A : t = s \cup {w + 1}
      OBVIOUS
    <3> QED BY <2>2, <3>1
  <2> HIDE DEF A, B
  <2> QED BY <2>1, <2>2, <2>3
<1> HIDE DEF A, B, f
<1>4. IsFiniteSet(B) /\ Cardinality(B) = Cardinality(A)
  BY <1>1, <1>2, FS_Bijection DEF ExistsBijection
<1>5. Cardinality(A \cup B) = Cardinality(A) + Cardinality(B) - Cardinality(A \cap B)
  BY <1>1, <1>4, FS_Union
<1>6. Cardinality(A \cap B) = 0
  BY <1>3, FS_EmptySet
<1>7. 2^(w + 1) = 2^w + 2^w - 0
  BY <1>1, <1>3, <1>4, <1>5, <1>6
<1>8. 2^w \in Nat
  BY PowerPositive
<1> QED BY <1>7, <1>8

\* A sum of Width bits is a number, and the sum itself while it fits.
LEMMA DurationFacts ==
  ASSUME NEW n \in Int
  PROVE  Duration(n) \in Int /\ (n \in Nat /\ n < 2^(Width - 1) => Duration(n) = n)
<1> DEFINE h == 2^(Width - 1)
           d == 2^Width
<1>1. Width - 1 \in Nat /\ Width - 1 + 1 = Width
  <2>1. Width \in Nat \ {0}
    BY ControlPlaneAssumption
  <2> QED BY <2>1
<1>2. h \in Nat /\ h > 0 /\ d = h + h
  BY <1>1, PowerPositive, PowerDoubles
<1>3. Duration(n) = ((n + h) % d) - h
  BY DEF Duration
<1> HIDE DEF h, d
<1>4. d \in Nat /\ d > 0 /\ n + h \in Int
  BY <1>2
<1>5. (n + h) % d \in Int
  BY <1>4
<1>6. ASSUME n \in Nat, n < h PROVE (n + h) % d = n + h
  BY <1>2, <1>6
<1>7. Duration(n) \in Int /\ (n \in Nat /\ n < h => Duration(n) = n)
  BY <1>2, <1>3, <1>5, <1>6
<1> QED BY <1>7 DEF h

-----------------------------------------------------------------------------
(* Exactly one field of an action is set *)

\* Exactly one of three holds when the count is one: the conjunction convertible and
\* checkRule test.
LEMMA CountFacts ==
  ASSUME NEW p \in BOOLEAN, NEW q \in BOOLEAN, NEW r \in BOOLEAN, Count(<<p, q, r>>) = 1
  PROVE  (p \/ q \/ r) /\ ~(p /\ q) /\ ~(p /\ r) /\ ~(q /\ r)
<1> DEFINE S == {x \in 1..3 : <<p, q, r>>[x]}
<1>1. DOMAIN <<p, q, r>> = 1..3
  OBVIOUS
<1>2. Cardinality(S) = 1
  BY <1>1, Zenon DEF Count
<1>3. S \subseteq 1..3 /\ (1 \in S <=> p) /\ (2 \in S <=> q) /\ (3 \in S <=> r)
  OBVIOUS
<1> HIDE DEF S
<1>4. IsFiniteSet(S)
  <2>1. \A a, b \in Int : IsFiniteSet(a..b)
    BY FS_Interval
  <2>2. 1 \in Int /\ 3 \in Int
    OBVIOUS
  <2>3. IsFiniteSet(1..3)
    BY <2>1, <2>2, Zenon
  <2> QED BY <1>3, <2>3, FS_Subset
<1>5. PICK x : S = {x}
  BY <1>2, <1>4, FS_Singleton
<1> QED BY <1>3, <1>5

-----------------------------------------------------------------------------
(* rebuild's loop over the actions of a rule *)

NoFault == [latency |-> 0, err |-> FALSE, panic |-> FALSE]

Apply(c, a) ==
  IF a.latency > 0 THEN [c EXCEPT !.latency = Duration(@ + a.latency)]
  ELSE IF a.err THEN [c EXCEPT !.err = TRUE]
  ELSE IF a.panic THEN [c EXCEPT !.panic = TRUE] ELSE c

\* Flatten is that loop: what it has after the last action.
LEMMA FlattenIs ==
  ASSUME NEW acts \in Seq(Action), NEW f \in [0..Len(acts) -> Action],
         f[0] = NoFault, \A k \in 1..Len(acts) : f[k] = Apply(f[k - 1], acts[k])
  PROVE  Flatten(acts) = f[Len(acts)]
<1> DEFINE n == Len(acts)
           F == [x \in Action \X (1..n) |-> Apply(x[1], acts[x[2]])]
<1>1. n \in Nat /\ DOMAIN acts = 1..n /\ (\A k \in 1..n : acts[k] \in Action)
  BY LenProperties, ElementOfSeq
<1>2. ASSUME NEW c \in Action, NEW a \in Action PROVE Apply(c, a) \in Action
  <2> DEFINE d == Duration(c.latency + a.latency)
  <2>1. d \in Int
    <3>1. c.latency + a.latency \in Int
      BY <1>2 DEF Action
    <3> QED BY <3>1, DurationFacts
  <2> HIDE DEF d
  <2>2. /\ [c EXCEPT !.latency = d] \in Action /\ [c EXCEPT !.err = TRUE] \in Action
        /\ [c EXCEPT !.panic = TRUE] \in Action
    BY <1>2, <2>1 DEF Action
  <2> QED BY <1>2, <2>2 DEF Apply, d
<1>3. NoFault \in Action
  BY DEF NoFault, Action
<1> HIDE DEF n
<1>4. F \in [Action \X (1..n) -> Action]
  BY <1>1, <1>2
<1>5. PICK h \in [SUBSET (1..n) -> Action] :
        /\ h[{}] = NoFault
        /\ \A s \in SUBSET (1..n) : s # {} => h[s] = F[<<h[s \ {Max(s)}], Max(s)>>]
  <2> HIDE DEF F
  <2>1. \E h : IsFold(h, Action, NoFault, F, n)
    BY <1>1, <1>3, <1>4, FoldExists
  <2> QED BY <2>1 DEF IsFold
<1> DEFINE Body(g, s) == IF s = {} THEN NoFault ELSE Apply(g[s \ {Max(s)}], acts[Max(s)])
<1>6. ASSUME NEW s \in SUBSET (1..n) PROVE h[s] = Body(h, s)
  <2>1. CASE s = {}
    BY <1>5, <2>1
  <2>2. CASE s # {}
    <3>1. Max(s) \in 1..n /\ s \ {Max(s)} \in SUBSET (1..n)
      <4>1. Max(s) \in s
        BY <1>1, <2>2, MaxFacts
      <4> QED BY <4>1
    <3>2. h[s \ {Max(s)}] \in Action
      BY <3>1
    <3>3. h[s] = F[<<h[s \ {Max(s)}], Max(s)>>]
      <4> HIDE DEF F
      <4> QED BY <1>5, <2>2
    <3> QED BY <2>2, <3>1, <3>2, <3>3
  <2> QED BY <2>1, <2>2
<1>7. ASSUME NEW g, g = [s \in SUBSET (1..n) |-> Body(g, s)]
      PROVE  g = h
  <2> DEFINE T == {s \in SUBSET (1..n) : g[s] = h[s]}
  <2>1. \A s \in SUBSET (1..n) : g[s] = Body(g, s)
    <3> HIDE DEF Body
    <3> QED BY <1>7
  <2>2. {} \in T
    <3>1. {} \in SUBSET (1..n)
      OBVIOUS
    <3>2. g[{}] = Body(g, {}) /\ h[{}] = Body(h, {})
      <4> HIDE DEF Body
      <4> QED BY <1>6, <2>1, <3>1
    <3> QED BY <3>1, <3>2
  <2>3. ASSUME NEW s \in SUBSET (1..n), s # {}, s \ {Max(s)} \in T PROVE s \in T
    <3>1. g[s] = Body(g, s) /\ h[s] = Body(h, s)
      <4> HIDE DEF Body
      <4> QED BY <1>6, <2>1
    <3>2. Body(g, s) = Body(h, s)
      BY <2>3
    <3> QED BY <3>1, <3>2
  <2> HIDE DEF T
  <2>4. SUBSET (1..n) \subseteq T
    BY <1>1, <2>2, <2>3, IndexInduction
  <2>5. \A s \in SUBSET (1..n) : g[s] = h[s]
    BY <2>4 DEF T
  <2>6. g = [s \in SUBSET (1..n) |-> g[s]] /\ h = [s \in SUBSET (1..n) |-> h[s]]
    <3> HIDE DEF Body
    <3> QED BY <1>7
  <2> QED BY <2>5, <2>6
<1>8. Flatten(acts) = h[1..n]
  <2> DEFINE iter == CHOOSE g : g = [s \in SUBSET (DOMAIN acts) |-> Body(g, s)]
  <2>1. Flatten(acts) = iter[DOMAIN acts]
    BY DEF Flatten, FoldLeft, MapThenFoldSet, Apply, NoFault
  <2> HIDE DEF iter
  <2>2. h = [s \in SUBSET (1..n) |-> Body(h, s)]
    <3> HIDE DEF Body
    <3> QED BY <1>6
  <2>3. iter = CHOOSE g : g = [s \in SUBSET (1..n) |-> Body(g, s)]
    <3> HIDE DEF Body
    <3> QED BY <1>1 DEF iter
  <2>4. iter = h
    <3> DEFINE Fix(g) == g = [s \in SUBSET (1..n) |-> Body(g, s)]
    <3>1. Fix(h) /\ \A g : Fix(g) => g = h
      <4> HIDE DEF Body
      <4> QED BY <1>7, <2>2
    <3>2. iter = CHOOSE g : Fix(g)
      BY <2>3
    <3> HIDE DEF Fix
    <3> QED BY <3>1, <3>2
  <2> QED BY <1>1, <2>1, <2>4
<1>9. ASSUME NEW k \in 1..n PROVE h[1..k] = Apply(h[1..k - 1], acts[k])
  <2>1. 1..k \in SUBSET (1..n) /\ 1..k # {} /\ Max(1..k) = k /\ (1..k) \ {k} = 1..k - 1
    BY <1>1, PrefixFacts
  <2>2. h[1..k] = Body(h, 1..k)
    <3> HIDE DEF Body
    <3> QED BY <1>6, <2>1
  <2> QED BY <2>1, <2>2
<1>10. h[1..n] = f[n]
  <2> DEFINE S == {k \in 0..n : h[1..k] = f[k]}
  <2>1. 0 \in S
    <3>1. 1..0 = {} /\ {} \in SUBSET (1..n)
      OBVIOUS
    <3>2. h[{}] = Body(h, {})
      <4> HIDE DEF Body
      <4> QED BY <1>6, <3>1
    <3> QED BY <1>1, <3>1, <3>2
  <2>2. ASSUME NEW k \in 0..n - 1, k \in S PROVE k + 1 \in S
    <3>1. k + 1 \in 1..n /\ k + 1 - 1 = k /\ k + 1 \in 0..n
      BY <1>1
    <3>2. h[1..k + 1] = Apply(h[1..k], acts[k + 1]) /\ f[k + 1] = Apply(f[k], acts[k + 1])
      BY <1>9, <3>1 DEF n
    <3> QED BY <2>2, <3>1, <3>2
  <2> HIDE DEF S
  <2>3. n \in S
    <3>1. 0..n \subseteq S
      BY <1>1, <2>1, <2>2, BoundedInduction
    <3> QED BY <1>1, <3>1
  <2> QED BY <2>3 DEF S
<1> QED BY <1>8, <1>10 DEF n

-----------------------------------------------------------------------------
(* What the documentation says of the list *)

OutcomeOf(a) == IF a.err THEN "error" ELSE IF a.panic THEN "panic" ELSE "call"

\* Meaning is the run its equation defines.
LEMMA MeaningIs ==
  ASSUME NEW acts \in Seq(Action), NEW m,
         m = [i \in 0..Len(acts) |->
                IF i = 0 THEN [delay |-> 0, outcome |-> "call"]
                ELSE IF m[i - 1].outcome # "call" THEN m[i - 1]
                ELSE [delay |-> m[i - 1].delay + acts[i].latency, outcome |-> OutcomeOf(acts[i])]]
  PROVE  Meaning(acts) = m[Len(acts)]
<1> DEFINE n == Len(acts)
           Step(g, i) == IF i = 0 THEN [delay |-> 0, outcome |-> "call"]
                         ELSE IF g[i - 1].outcome # "call" THEN g[i - 1]
                         ELSE [delay |-> g[i - 1].delay + acts[i].latency,
                               outcome |-> OutcomeOf(acts[i])]
           Fix(g) == g = [i \in 0..n |-> Step(g, i)]
           run == CHOOSE g : Fix(g)
<1>1. n \in Nat
  BY LenProperties
<1>2. ASSUME NEW g, Fix(g) PROVE g = m
  <2> DEFINE S == {i \in 0..n : g[i] = m[i]}
  <2>1. /\ \A i \in 0..n : g[i] = Step(g, i) /\ m[i] = Step(m, i)
        /\ g = [i \in 0..n |-> g[i]] /\ m = [i \in 0..n |-> m[i]]
    <3>1. m = [i \in 0..n |-> Step(m, i)]
      OBVIOUS
    <3> HIDE DEF Step
    <3> QED BY <1>2, <3>1
  <2>2. 0 \in S
    <3>1. 0 \in 0..n /\ Step(g, 0) = Step(m, 0)
      BY <1>1
    <3> HIDE DEF Step
    <3> QED BY <2>1, <3>1
  <2>3. ASSUME NEW i \in 0..n - 1, i \in S PROVE i + 1 \in S
    <3>1. i + 1 \in 0..n /\ i + 1 # 0 /\ i + 1 - 1 = i
      BY <1>1
    <3>2. Step(g, i + 1) = Step(m, i + 1)
      BY <2>3, <3>1
    <3> HIDE DEF Step
    <3> QED BY <2>1, <3>1, <3>2
  <2> HIDE DEF S
  <2>4. \A i \in 0..n : g[i] = m[i]
    BY <1>1, <2>2, <2>3, BoundedInduction DEF S
  <2> QED BY <2>1, <2>4
<1>3. Meaning(acts) = run[n]
  BY DEF Meaning, OutcomeOf
<1>4. Fix(m)
  OBVIOUS
<1>5. run = m
  <2> HIDE DEF Fix
  <2> QED BY <1>2, <1>4
<1> QED BY <1>3, <1>5

\* what check demands of a rule's actions
Sound(acts) ==
  /\ acts # <<>>
  /\ \A i \in DOMAIN acts :
       LET a == acts[i] IN
       a.latency >= 0 /\ Count(<<a.latency > 0, a.err, a.panic>>) = 1
  /\ OnlyLastDecides(acts)

\* no more than L actions, no delay above B
Within(acts, B, L) == Len(acts) <= L /\ \A i \in DOMAIN acts : acts[i].latency <= B

\* Two actions with the same fields are the same action.
LEMMA SameAction ==
  ASSUME NEW x \in Action, NEW y \in Action,
         x.latency = y.latency, x.err = y.err, x.panic = y.panic
  PROVE  x = y
BY DEF Action

\* Setting one flag of a merged action leaves its other fields (chaos/inject.go).
LEMMA SetOneFlag ==
  ASSUME NEW c \in Action
  PROVE  /\ [c EXCEPT !.err = TRUE] = [latency |-> c.latency, err |-> TRUE, panic |-> c.panic]
         /\ [c EXCEPT !.panic = TRUE] = [latency |-> c.latency, err |-> c.err, panic |-> TRUE]
<1> DEFINE e == [c EXCEPT !.err = TRUE]
           p == [c EXCEPT !.panic = TRUE]
           x == [latency |-> c.latency, err |-> TRUE, panic |-> c.panic]
           y == [latency |-> c.latency, err |-> c.err, panic |-> TRUE]
<1>1. e \in Action /\ p \in Action
  BY DEF Action
<1>2. x \in Action /\ y \in Action
  BY DEF Action
<1>3. e.latency = c.latency /\ e.err = TRUE /\ e.panic = c.panic
  BY DEF Action
<1>4. p.latency = c.latency /\ p.err = c.err /\ p.panic = TRUE
  BY DEF Action
<1>5. x.latency = c.latency /\ x.err = TRUE /\ x.panic = c.panic
  OBVIOUS
<1>6. y.latency = c.latency /\ y.err = c.err /\ y.panic = TRUE
  OBVIOUS
<1>7. SUFFICES e = x /\ p = y
  OBVIOUS
<1> HIDE DEF e, p, x, y
<1> QED BY <1>1, <1>2, <1>3, <1>4, <1>5, <1>6, SameAction

\* A faulted call gets what the list of actions says, while no sum overflows.
LEMMA EffectIsMeaning ==
  ASSUME NEW acts \in Seq(Action), Sound(acts), NEW B \in Nat, NEW L \in Nat,
         Within(acts, B, L), L * B < 2^(Width - 1)
  PROVE  Effect(Flatten(acts)) = Meaning(acts)
<1> DEFINE n == Len(acts)
           F == [x \in Nat \X (1..n) |-> x[1] + acts[x[2]].latency]
<1>1. n \in Nat /\ n > 0 /\ DOMAIN acts = 1..n /\ \A k \in 1..n : acts[k] \in Action
  BY LenProperties, ElementOfSeq, EmptySeq DEF Sound
<1>2. \A k \in 1..n : acts[k].latency \in 0..B
  <2> TAKE k \in 1..n
  <2>1. acts[k].latency \in Int
    BY <1>1 DEF Action
  <2>2. acts[k].latency >= 0
    BY <1>1 DEF Sound
  <2>3. acts[k].latency <= B
    BY <1>1 DEF Within
  <2> QED BY <2>1, <2>2, <2>3
<1>3. \A k \in 1..n :
        /\ acts[k].latency > 0 => ~acts[k].err /\ ~acts[k].panic
        /\ acts[k].err => acts[k].latency = 0 /\ ~acts[k].panic
        /\ acts[k].panic => acts[k].latency = 0
        /\ acts[k].latency > 0 \/ acts[k].err \/ acts[k].panic
        /\ k # n => ~acts[k].err /\ ~acts[k].panic
  <2> TAKE k \in 1..n
  <2>1. acts[k].err \in BOOLEAN /\ acts[k].panic \in BOOLEAN /\ (acts[k].latency > 0) \in BOOLEAN
    BY <1>1 DEF Action
  <2>2. Count(<<acts[k].latency > 0, acts[k].err, acts[k].panic>>) = 1
    BY <1>1 DEF Sound
  <2>3. /\ acts[k].latency > 0 \/ acts[k].err \/ acts[k].panic
        /\ ~(acts[k].latency > 0 /\ acts[k].err) /\ ~(acts[k].latency > 0 /\ acts[k].panic)
        /\ ~(acts[k].err /\ acts[k].panic)
    BY <2>1, <2>2, CountFacts
  <2>4. acts[k].err \/ acts[k].panic => k = n
    BY <1>1 DEF Sound, OnlyLastDecides, Decides
  <2>5. acts[k].latency \in Nat
    BY <1>2
  <2> QED BY <2>3, <2>4, <2>5
<1>4. PICK d : IsRun(d, Nat, 0, F, n)
  <2>1. F \in [Nat \X (1..n) -> Nat]
    BY <1>2
  <2> HIDE DEF F, n
  <2> QED BY <1>1, <2>1, RunExists
<1> HIDE DEF n
<1>5. d \in [0..n -> Nat] /\ d[0] = 0 /\ \A k \in 1..n : d[k] = d[k - 1] + acts[k].latency
  <2>1. d \in [0..n -> Nat] /\ d[0] = 0 /\ \A k \in 1..n : d[k] = F[<<d[k - 1], k>>]
    <3> HIDE DEF F
    <3> QED BY <1>4 DEF IsRun
  <2>2. ASSUME NEW k \in 1..n PROVE d[k - 1] \in Nat
    <3>1. k - 1 \in 0..n
      BY <1>1
    <3> QED BY <2>1, <3>1
  <2> QED BY <2>1, <2>2
<1> HIDE DEF F
<1>6. \A k \in 0..n : d[k] <= k * B
  <2> DEFINE S == {k \in 0..n : d[k] <= k * B}
  <2>1. 0 \in S
    BY <1>1, <1>5
  <2>2. ASSUME NEW k \in 0..n - 1, k \in S PROVE k + 1 \in S
    <3>1. k + 1 \in 0..n /\ k + 1 \in 1..n /\ k + 1 - 1 = k /\ k \in 0..n
      BY <1>1
    <3>2. d[k + 1] = d[k] + acts[k + 1].latency /\ acts[k + 1].latency \in 0..B
      BY <1>2, <1>5, <3>1
    <3>3. (k + 1) * B = k * B + B /\ k * B \in Nat /\ d[k] \in Nat
      BY <1>5, <3>1
    <3> QED BY <2>2, <3>1, <3>2, <3>3
  <2> HIDE DEF S
  <2> QED BY <1>1, <2>1, <2>2, BoundedInduction DEF S
<1>7. \A k \in 0..n : d[k] \in Nat /\ Duration(d[k]) = d[k]
  <2> TAKE k \in 0..n
  <2>1. d[k] \in Nat /\ d[k] <= k * B /\ k <= L
    BY <1>1, <1>5, <1>6 DEF Within, n
  <2>2. k * B <= L * B /\ k * B \in Nat /\ L * B \in Nat
    BY <2>1
  <2>3. d[k] < 2^(Width - 1)
    <3> DEFINE h == 2^(Width - 1)
    <3>1. h \in Nat
      <4>1. Width \in Nat \ {0}
        BY ControlPlaneAssumption
      <4>2. Width - 1 \in Nat
        BY <4>1
      <4> QED BY <4>2, PowerPositive
    <3>2. L * B < h
      OBVIOUS
    <3> HIDE DEF h
    <3>3. d[k] < h
      BY <2>1, <2>2, <3>1, <3>2
    <3> QED BY <3>3 DEF h
  <2>4. d[k] \in Int
    BY <2>1
  <2> QED BY <2>1, <2>3, <2>4, DurationFacts
<1> DEFINE f == [k \in 0..n |->
                   IF k = 0 THEN NoFault
                   ELSE [latency |-> d[k], err |-> acts[k].err, panic |-> acts[k].panic]]
           m == [k \in 0..n |->
                   IF k = 0 THEN [delay |-> 0, outcome |-> "call"]
                   ELSE [delay |-> d[k], outcome |-> OutcomeOf(acts[k])]]
<1>8. ASSUME NEW k \in 1..n
      PROVE  /\ k - 1 \in 0..n /\ k \in 0..n /\ k # 0
             /\ f[k - 1] = [latency |-> d[k - 1], err |-> FALSE, panic |-> FALSE]
             /\ m[k - 1] = [delay |-> d[k - 1], outcome |-> "call"]
             /\ f[k] = [latency |-> d[k], err |-> acts[k].err, panic |-> acts[k].panic]
             /\ m[k] = [delay |-> d[k], outcome |-> OutcomeOf(acts[k])]
  <2>1. k - 1 \in 0..n /\ k \in 0..n /\ k # 0
    BY <1>1
  <2>2. CASE k = 1
    <3>1. k - 1 = 0 /\ d[k - 1] = 0
      BY <1>5, <2>2
    <3> QED BY <2>1, <3>1 DEF NoFault
  <2>3. CASE k # 1
    <3>1. k - 1 \in 1..n /\ k - 1 # n /\ k - 1 # 0
      BY <1>1, <2>3
    <3>2. acts[k - 1].err = FALSE /\ acts[k - 1].panic = FALSE
      <4>1. ~acts[k - 1].err /\ ~acts[k - 1].panic
        BY <1>3, <3>1
      <4>2. acts[k - 1].err \in BOOLEAN /\ acts[k - 1].panic \in BOOLEAN
        BY <1>1, <3>1 DEF Action
      <4> QED BY <4>1, <4>2
    <3> QED BY <2>1, <3>1, <3>2 DEF OutcomeOf
  <2> QED BY <2>2, <2>3
<1>9. ASSUME NEW k \in 1..n PROVE f[k] = Apply(f[k - 1], acts[k])
  <2> DEFINE a == acts[k]  c == [latency |-> d[k - 1], err |-> FALSE, panic |-> FALSE]
  <2>1. /\ a.err \in BOOLEAN /\ a.panic \in BOOLEAN /\ a.latency \in Nat
        /\ d[k] = d[k - 1] + a.latency /\ d[k - 1] \in Nat /\ Duration(d[k]) = d[k]
    BY <1>1, <1>2, <1>5, <1>7, <1>8 DEF Action
  <2>2. f[k - 1] = c /\ f[k] = [latency |-> d[k], err |-> a.err, panic |-> a.panic]
    BY <1>8
  <2>5. c \in Action /\ c.latency = d[k - 1] /\ c.err = FALSE /\ c.panic = FALSE
    BY <2>1 DEF Action
  <2>3. CASE a.latency > 0
    <3>1. a.err = FALSE /\ a.panic = FALSE
      BY <1>3, <2>1, <2>3
    <3>2. Apply(c, a) = [c EXCEPT !.latency = d[k]]
      BY <2>1, <2>3 DEF Apply
    <3> QED BY <2>2, <3>1, <3>2
  <2>4. CASE ~(a.latency > 0)
    <3>1. d[k] = d[k - 1]
      BY <2>1, <2>4
    <3>2. (a.err /\ a.panic = FALSE) \/ (a.err = FALSE /\ a.panic)
      BY <1>3, <2>1, <2>4
    <3>3. CASE a.err /\ a.panic = FALSE
      <4>1. Apply(c, a) = [c EXCEPT !.err = TRUE]
        BY <2>4, <3>3 DEF Apply
      <4>2. a.err = TRUE
        BY <2>1, <3>3
      <4>3. [c EXCEPT !.err = TRUE] = [latency |-> d[k - 1], err |-> TRUE, panic |-> FALSE]
        <5> HIDE DEF c
        <5> QED BY SetOneFlag, <2>5, Zenon
      <4>4. f[k] = [latency |-> d[k - 1], err |-> TRUE, panic |-> FALSE]
        BY <2>2, <3>1, <3>3, <4>2, Zenon
      <4> QED BY <2>2, <4>1, <4>3, <4>4, Zenon
    <3>4. CASE a.err = FALSE /\ a.panic
      <4>1. Apply(c, a) = [c EXCEPT !.panic = TRUE]
        BY <2>4, <3>4 DEF Apply
      <4>2. a.panic = TRUE
        BY <2>1, <3>4
      <4>3. [c EXCEPT !.panic = TRUE] = [latency |-> d[k - 1], err |-> FALSE, panic |-> TRUE]
        <5> HIDE DEF c
        <5> QED BY SetOneFlag, <2>5, Zenon
      <4>4. f[k] = [latency |-> d[k - 1], err |-> FALSE, panic |-> TRUE]
        BY <2>2, <3>1, <3>4, <4>2, Zenon
      <4> QED BY <2>2, <4>1, <4>3, <4>4, Zenon
    <3> QED BY <3>2, <3>3, <3>4
  <2> QED BY <2>3, <2>4
<1>10. Flatten(acts) = f[n]
  <2>1. f \in [0..n -> Action]
    <3>1. ASSUME NEW k \in 0..n PROVE f[k] \in Action
      <4>1. CASE k = 0
        BY <4>1 DEF NoFault, Action
      <4>2. CASE k # 0
        <5>1. k \in 1..n /\ d[k] \in Int
          BY <1>7, <4>2
        <5> QED BY <1>1, <4>2, <5>1 DEF Action
      <4> QED BY <4>1, <4>2
    <3>2. f = [k \in 0..n |-> f[k]]
      OBVIOUS
    <3> HIDE DEF f
    <3> QED BY <3>1, <3>2
  <2>2. f[0] = NoFault
    BY <1>1
  <2> HIDE DEF f
  <2> QED BY <1>9, <2>1, <2>2, FlattenIs DEF n
<1>11. Meaning(acts) = m[n]
  <2> DEFINE Step(g, i) == IF i = 0 THEN [delay |-> 0, outcome |-> "call"]
                           ELSE IF g[i - 1].outcome # "call" THEN g[i - 1]
                           ELSE [delay |-> g[i - 1].delay + acts[i].latency,
                                 outcome |-> OutcomeOf(acts[i])]
  <2>1. ASSUME NEW i \in 0..n PROVE m[i] = Step(m, i)
    <3>1. CASE i = 0
      BY <3>1
    <3>2. CASE i # 0
      <4>1. i \in 1..n
        BY <3>2
      <4>2. d[i] = d[i - 1] + acts[i].latency
        BY <1>5, <4>1
      <4>3. m[i - 1] = [delay |-> d[i - 1], outcome |-> "call"]
            /\ m[i] = [delay |-> d[i], outcome |-> OutcomeOf(acts[i])]
        BY <1>8, <4>1
      <4> HIDE DEF m
      <4> QED BY <3>2, <4>2, <4>3
    <3> QED BY <3>1, <3>2
  <2>2. m = [i \in 0..n |-> m[i]]
    OBVIOUS
  <2> HIDE DEF m
  <2>3. m = [i \in 0..n |-> Step(m, i)]
    <3> HIDE DEF Step
    <3> QED BY <2>1, <2>2
  <2> QED BY <2>3, MeaningIs DEF n
<1>12. n \in 1..n /\ d[n] \in Nat
  BY <1>1, <1>7
<1>13. /\ f[n] = [latency |-> d[n], err |-> acts[n].err, panic |-> acts[n].panic]
       /\ m[n] = [delay |-> d[n], outcome |-> OutcomeOf(acts[n])]
  BY <1>8, <1>12
<1>14. Effect(f[n]) = [delay |-> d[n], outcome |-> OutcomeOf(acts[n])]
  <2>1. (IF d[n] > 0 THEN d[n] ELSE 0) = d[n]
    BY <1>12
  <2>2. ~(acts[n].err /\ acts[n].panic)
    BY <1>3, <1>12
  <2> HIDE DEF f
  <2> QED BY <1>13, <2>1, <2>2 DEF Effect, OutcomeOf
<1> QED BY <1>10, <1>11, <1>13, <1>14

-----------------------------------------------------------------------------
(* The inductive invariant of the injector and its client *)

Rule == [iface : Ifaces \cup {Wildcard}, method : Methods \cup {Wildcard},
         rate : {"in", "out"}, maxCount : Int, from : Nat, until : Nat,
         actions : Seq(Action)]

\* The client's slices are never those of the injector, so the rules in force are
\* the valid ones last set, and the plan is compiled from them.
Inv ==
  /\ enabled \in BOOLEAN /\ shared = FALSE
  /\ mine \in Seq(Rule) /\ rules \in Seq(Rule)
  /\ ValidSet(rules)
  /\ plan = Rebuilt(rules, enabled)
  /\ inForce = Meant(rules)

\* The parts of a function over 1..n are those of a sequence.
LEMMA SeqIs ==
  ASSUME NEW S, NEW n \in Nat, NEW f \in [1..n -> S]
  PROVE  f \in Seq(S) /\ Len(f) = n /\ DOMAIN f = 1..n
<1>1. f \in Seq(S)
  BY SeqDef
<1> QED BY <1>1, LenProperties

\* A document that converts is a list of rules (Spec.Rule, SpecAction.action).
LEMMA ConvertFacts ==
  ASSUME NEW s \in SpecDomain, Convertible(s)
  PROVE  /\ ToRule(s) \in Rule /\ Len(ToRule(s).actions) = Len(s.actions)
         /\ \A i \in 1..Len(s.actions) :
              ToRule(s).actions[i].latency \in {0} \cup {DurationOf[t] : t \in DOMAIN DurationOf}
<1> DEFINE n == Len(s.actions)
           Spec0 == [latency : STRING, error : BOOLEAN, panic : BOOLEAN]
           acts == [i \in 1..n |-> ToAction(s.actions[i])]
<1>1. s.actions \in Seq(Spec0)
  BY DEF SpecDomain
<1>2. n \in Nat /\ DOMAIN s.actions = 1..n /\ \A i \in 1..n : s.actions[i] \in Spec0
  BY <1>1, LenProperties, ElementOfSeq
<1>3. ASSUME NEW i \in 1..n
      PROVE  /\ ToAction(s.actions[i]) \in Action
             /\ ToAction(s.actions[i]).latency \in {0} \cup {DurationOf[t] : t \in DOMAIN DurationOf}
  <2> DEFINE a == s.actions[i]
  <2>1. a \in Spec0 /\ (a.latency # "" => a.latency \in DOMAIN DurationOf)
    BY <1>2 DEF Convertible, Usable
  <2>2. \A t \in DOMAIN DurationOf : DurationOf[t] \in Int
    <3>1. \A t \in DOMAIN DurationOf :
            DurationOf[t] \in -(2^(Width - 1))..2^(Width - 1) - 1
      BY ControlPlaneAssumption, Zenon
    <3>2. ASSUME NEW x, NEW y PROVE x..y \subseteq Int
      OBVIOUS
    <3> QED BY <3>1, <3>2, Zenon
  <2> HIDE DEF a
  <2>3. (IF a.latency = "" THEN 0 ELSE DurationOf[a.latency]) \in Int
    <3>1. CASE a.latency = ""
      <4>1. ASSUME NEW t, NEW e, t = e PROVE (IF t = e THEN 0 ELSE DurationOf[t]) \in Int
        BY <4>1
      <4> QED BY <3>1, <4>1, Zenon
    <3>2. CASE a.latency # ""
      BY <2>1, <2>2, <3>2, Zenon
    <3> QED BY <3>1, <3>2
  <2>4. ToAction(a) \in Action
    BY <2>1, <2>3 DEF ToAction, Action
  <2>5. ToAction(a).latency \in {0} \cup {DurationOf[t] : t \in DOMAIN DurationOf}
    BY <2>1 DEF ToAction
  <2> QED BY <2>4, <2>5 DEF a
<1>4. acts \in Seq(Action) /\ Len(acts) = n
  <2>1. acts \in [1..n -> Action]
    BY <1>3
  <2> HIDE DEF acts, n
  <2> QED BY <1>2, <2>1, SeqIs
<1>5. Time(s.from) \in Nat /\ Time(s.until) \in Nat
  <2>1. \A t \in DOMAIN TimeOf : TimeOf[t] \in Nat
    BY ControlPlaneAssumption
  <2>2. s.from \in DOMAIN TimeOf \cup {""} /\ s.until \in DOMAIN TimeOf \cup {""}
    BY DEF Convertible
  <2> QED BY <2>1, <2>2 DEF Time
<1>6. ToRule(s) = [iface |-> s.iface, method |-> s.method, rate |-> s.rate,
                   maxCount |-> s.maxCount, from |-> Time(s.from), until |-> Time(s.until),
                   actions |-> acts]
  BY <1>2 DEF ToRule
<1>7. ToRule(s) \in Rule
  <2>1. /\ s.iface \in Ifaces \cup {Wildcard} /\ s.method \in Methods \cup {Wildcard}
        /\ s.rate \in {"in", "out"} /\ s.maxCount \in Int
    BY DEF SpecDomain
  <2> HIDE DEF acts
  <2> QED BY <1>4, <1>5, <1>6, <2>1 DEF Rule
<1>8. ToRule(s).actions = acts
  BY <1>6
<1> QED BY <1>3, <1>4, <1>7, <1>8

\* A write of a into action i of rule k changes that action and nothing else.
Edited(rs, new, k, i, a) ==
  /\ new \in Seq(Rule) /\ DOMAIN new = DOMAIN rs
  /\ \A j \in DOMAIN rs : j # k => new[j] = rs[j]
  /\ Len(new[k].actions) = Len(rs[k].actions)
  /\ \A j \in DOMAIN rs[k].actions :
       new[k].actions[j] = IF j = i THEN a ELSE rs[k].actions[j]

\* A write into a slice of actions leaves a list of rules a list of rules.
LEMMA EditFacts ==
  ASSUME NEW rs \in Seq(Rule), NEW k \in DOMAIN rs, NEW i \in DOMAIN rs[k].actions,
         NEW a \in Action, NEW new, new = [rs EXCEPT ![k].actions[i] = a]
  PROVE  Edited(rs, new, k, i, a)
<1> DEFINE acts == [rs[k].actions EXCEPT ![i] = a]
           rule == [rs[k] EXCEPT !.actions = acts]
<1>1. rs[k] \in Rule
  BY ElementOfSeq, LenProperties
<1>2. rs[k].actions \in Seq(Action)
  BY <1>1 DEF Rule
<1>3. acts \in Seq(Action) /\ Len(acts) = Len(rs[k].actions)
  BY <1>2, ExceptSeq, LenProperties
<1>4. \A j \in DOMAIN rs[k].actions : acts[j] = IF j = i THEN a ELSE rs[k].actions[j]
  BY <1>2, Zenon
<1> HIDE DEF acts
<1>5. rule \in Rule /\ rule.actions = acts
  BY <1>1, <1>3 DEF Rule
<1>6. new = [rs EXCEPT ![k] = rule]
  BY Zenon DEF acts
<1> HIDE DEF rule
<1>7. new \in Seq(Rule) /\ DOMAIN new = DOMAIN rs
  BY <1>5, <1>6, ExceptSeq, LenProperties
<1>8. new[k] = rule /\ \A j \in DOMAIN rs : j # k => new[j] = rs[j]
  BY <1>6
<1>9. new[k].actions = acts
  BY <1>5, <1>8
<1> QED BY <1>3, <1>4, <1>6, <1>7, <1>8, <1>9 DEF Edited

\* Nothing is set at first.
LEMMA InitInv == Init => Inv
<1> SUFFICES ASSUME Init PROVE Inv
  OBVIOUS
<1>1. <<>> \in Seq(Rule) /\ RulesOf(<<>>) = {} /\ DOMAIN <<>> = {}
  BY EmptySeq DEF RulesOf
<1>2. ValidSet(<<>>)
  BY <1>1 DEF ValidSet, ValidConditions
<1>3. Rebuilt(<<>>, TRUE) = <<>>
  <2> DEFINE p == Rebuilt(<<>>, TRUE)
  <2>1. p = [c \in {} |-> Compiled(CHOOSE r \in RulesOf(<<>>) : SameCondition(r, c))]
    BY <1>1 DEF Rebuilt
  <2>2. 1..0 = {}
    OBVIOUS
  <2>3. p \in [1..0 -> Rule]
    BY <2>1, <2>2
  <2> HIDE DEF p
  <2>4. p \in Seq(Rule) /\ Len(p) = 0
    BY <2>3, SeqIs
  <2> QED BY <2>4, EmptySeq DEF p
<1>4. Meant(<<>>) = {}
  BY <1>1 DEF Meant
<1> QED BY <1>1, <1>2, <1>3, <1>4 DEF Init, Inv

\* Every call of the injector and every write of its client keeps Inv.
LEMMA NextInv == Inv /\ [Next]_vars => Inv'
<1> SUFFICES ASSUME Inv, [Next]_vars PROVE Inv'
  OBVIOUS
<1> USE DEF Inv
<1>1. CASE Convert
  <2>1. PICK doc \in Documents :
          /\ \A k \in DOMAIN doc : Convertible(doc[k])
          /\ mine' = [k \in DOMAIN doc |-> ToRule(doc[k])]
          /\ shared' = FALSE /\ UNCHANGED <<rules, enabled, plan, inForce>>
    BY <1>1, Zenon DEF Convert
  <2>2. doc \in Seq(SpecDomain)
    BY ControlPlaneAssumption
  <2>3. Len(doc) \in Nat /\ DOMAIN doc = 1..Len(doc) /\ \A k \in 1..Len(doc) : doc[k] \in SpecDomain
    BY <2>2, LenProperties, ElementOfSeq
  <2>4. mine' \in [1..Len(doc) -> Rule]
    BY <2>1, <2>3, ConvertFacts
  <2>5. mine' \in Seq(Rule)
    BY <2>3, <2>4, SeqIs
  <2> QED BY <2>1, <2>5
<1>2. CASE Set
  BY <1>2 DEF Set, Cloned
<1>3. CASE Disable \/ Enable
  BY <1>3 DEF Disable, Enable
<1>4. CASE ReadBack
  BY <1>4 DEF ReadBack, Cloned
<1>5. CASE Edit
  <2>1. PICK k \in DOMAIN mine, a \in Edits : \E i \in DOMAIN mine[k].actions :
          /\ mine' = [mine EXCEPT ![k].actions[i] = a]
          /\ rules' = IF shared THEN [rules EXCEPT ![k].actions[i] = a] ELSE rules
          /\ UNCHANGED <<shared, enabled, plan, inForce>>
    BY <1>5, Zenon DEF Edit
  <2>2. PICK i \in DOMAIN mine[k].actions :
          /\ mine' = [mine EXCEPT ![k].actions[i] = a]
          /\ rules' = IF shared THEN [rules EXCEPT ![k].actions[i] = a] ELSE rules
          /\ UNCHANGED <<shared, enabled, plan, inForce>>
    BY <2>1
  <2>3. a \in Action
    BY ControlPlaneAssumption
  <2>4. mine' \in Seq(Rule)
    BY <2>2, <2>3, EditFacts DEF Edited, Inv
  <2>5. rules' = rules
    BY <2>2
  <2> QED BY <2>2, <2>4, <2>5
<1>6. CASE UNCHANGED vars
  BY <1>6 DEF vars
<1> QED BY <1>1, <1>2, <1>3, <1>4, <1>5, <1>6 DEF Next

\* The rules the injector holds would pass Validate again and the plan is of them,
\* whatever the client does to slices it pushed or read back (Set, Rules, rebuild).
THEOREM ControlPlaneTypeCorrect == Spec => []TypeOK
<1>1. Inv => TypeOK
  <2>1. ASSUME NEW rs \in Seq(Rule), NEW r \in RulesOf(rs) PROVE r.actions \in Seq(Action)
    <3>1. r \in Rule
      BY ElementOfSeq, LenProperties DEF RulesOf
    <3> QED BY <3>1 DEF Rule
  <2> QED BY <2>1 DEF Inv, TypeOK
<1> QED BY <1>1, InitInv, NextInv, PTL DEF Spec

-----------------------------------------------------------------------------
(* The plan does what was set *)

\* what arrives has at most L actions a rule, and no delay above B
Modest(B, L) ==
  /\ \A doc \in Documents : \A k \in DOMAIN doc : Len(doc[k].actions) <= L
  /\ \A t \in DOMAIN DurationOf : DurationOf[t] <= B
  /\ \A a \in Edits : a.latency <= B

AllWithin(rs, B, L) == \A k \in DOMAIN rs : Within(rs[k].actions, B, L)

\* Conversions and edits keep to those bounds, so what is set does.
LEMMA NextWithin ==
  ASSUME NEW B \in Nat, NEW L \in Nat, Modest(B, L), Inv, [Next]_vars,
         AllWithin(mine, B, L), AllWithin(rules, B, L)
  PROVE  AllWithin(mine, B, L)' /\ AllWithin(rules, B, L)'
<1>1. CASE Convert
  <2>1. PICK doc \in Documents :
          /\ \A k \in DOMAIN doc : Convertible(doc[k])
          /\ mine' = [k \in DOMAIN doc |-> ToRule(doc[k])]
          /\ shared' = FALSE /\ UNCHANGED <<rules, enabled, plan, inForce>>
    BY <1>1, Zenon DEF Convert
  <2>2. doc \in Seq(SpecDomain)
    BY ControlPlaneAssumption
  <2>3. DOMAIN doc = 1..Len(doc) /\ \A k \in 1..Len(doc) : doc[k] \in SpecDomain
    BY <2>2, LenProperties, ElementOfSeq
  <2>4. ASSUME NEW k \in DOMAIN mine' PROVE Within(mine'[k].actions, B, L)
    <3>1. k \in DOMAIN doc /\ mine'[k] = ToRule(doc[k])
      BY <2>1
    <3>2. /\ ToRule(doc[k]) \in Rule /\ Len(ToRule(doc[k]).actions) = Len(doc[k].actions)
          /\ \A i \in 1..Len(doc[k].actions) :
               ToRule(doc[k]).actions[i].latency \in {0} \cup {DurationOf[t] : t \in DOMAIN DurationOf}
      BY <2>1, <2>3, <3>1, ConvertFacts
    <3>3. Len(doc[k].actions) <= L
      BY <3>1 DEF Modest
    <3>4. ToRule(doc[k]).actions \in Seq(Action)
      BY <3>2 DEF Rule
    <3>5. DOMAIN ToRule(doc[k]).actions = 1..Len(doc[k].actions)
      BY <3>2, <3>4, LenProperties
    <3>6. \A x \in {0} \cup {DurationOf[t] : t \in DOMAIN DurationOf} : x <= B
      BY DEF Modest
    <3> QED BY <3>1, <3>2, <3>3, <3>5, <3>6 DEF Within
  <2> QED BY <2>1, <2>4 DEF AllWithin
<1>2. CASE Set
  BY <1>2 DEF Set, Cloned, AllWithin
<1>3. CASE Disable \/ Enable
  BY <1>3 DEF Disable, Enable, AllWithin
<1>4. CASE ReadBack
  BY <1>4 DEF ReadBack, Cloned, AllWithin
<1>5. CASE Edit
  <2>1. PICK k \in DOMAIN mine, a \in Edits : \E i \in DOMAIN mine[k].actions :
          /\ mine' = [mine EXCEPT ![k].actions[i] = a]
          /\ rules' = IF shared THEN [rules EXCEPT ![k].actions[i] = a] ELSE rules
    BY <1>5, Zenon DEF Edit
  <2>2. PICK i \in DOMAIN mine[k].actions :
          /\ mine' = [mine EXCEPT ![k].actions[i] = a]
          /\ rules' = IF shared THEN [rules EXCEPT ![k].actions[i] = a] ELSE rules
    BY <2>1
  <2>3. a \in Action /\ a.latency <= B
    BY ControlPlaneAssumption DEF Modest
  <2>4. mine \in Seq(Rule) /\ rules' = rules
    BY <2>2 DEF Inv
  <2>5. /\ mine' \in Seq(Rule) /\ DOMAIN mine' = DOMAIN mine
        /\ \A j \in DOMAIN mine : j # k => mine'[j] = mine[j]
        /\ Len(mine'[k].actions) = Len(mine[k].actions)
        /\ \A j \in DOMAIN mine[k].actions :
              mine'[k].actions[j] = IF j = i THEN a ELSE mine[k].actions[j]
    <3>1. mine \in Seq(Rule) /\ a \in Action /\ mine' = [mine EXCEPT ![k].actions[i] = a]
      BY <2>2, <2>3, <2>4
    <3>2. Edited(mine, mine', k, i, a)
      BY <3>1, EditFacts
    <3> QED BY <3>2 DEF Edited
  <2>6. DOMAIN mine'[k].actions = DOMAIN mine[k].actions
    <3>1. mine[k] \in Rule /\ mine'[k] \in Rule
      BY <2>4, <2>5, ElementOfSeq, LenProperties
    <3>2. mine[k].actions \in Seq(Action) /\ mine'[k].actions \in Seq(Action)
      BY <3>1 DEF Rule
    <3> QED BY <2>5, <3>2, LenProperties
  <2>7. ASSUME NEW j \in DOMAIN mine PROVE Within(mine'[j].actions, B, L)
    <3>1. Within(mine[j].actions, B, L)
      BY DEF AllWithin
    <3>2. CASE j = k
      BY <2>3, <2>5, <2>6, <3>1, <3>2 DEF Within
    <3>3. CASE j # k
      BY <2>5, <3>1, <3>3
    <3> QED BY <3>2, <3>3
  <2> QED BY <2>4, <2>5, <2>7 DEF AllWithin
<1>6. CASE UNCHANGED vars
  BY <1>6 DEF vars, AllWithin
<1> QED BY <1>1, <1>2, <1>3, <1>4, <1>5, <1>6 DEF Next

\* A plan compiled from rules within those bounds does what the rules say.
LEMMA PlanIsMeant ==
  ASSUME NEW B \in Nat, NEW L \in Nat, L * B < 2^(Width - 1), Inv, AllWithin(rules, B, L)
  PROVE  PlanIsWhatWasSet
<1> SUFFICES ASSUME enabled PROVE
      /\ DOMAIN plan = {ConditionOf(m.rule) : m \in inForce}
      /\ \A m \in inForce :
           LET c == plan[ConditionOf(m.rule)] IN
           /\ Effect(c.does) = m.means
           /\ c = [c EXCEPT !.rate = m.rule.rate, !.maxCount = m.rule.maxCount,
                            !.from = m.rule.from, !.until = m.rule.until]
  BY DEF PlanIsWhatWasSet
<1> DEFINE Chosen(c) == CHOOSE r \in RulesOf(rules) : SameCondition(r, c)
           Said(r) == [rule |-> [r EXCEPT !.actions = <<>>], means |-> Meaning(r.actions)]
<1>1. plan = [c \in {ConditionOf(r) : r \in RulesOf(rules)} |-> Compiled(Chosen(c))]
  BY DEF Inv, Rebuilt
<1>2. inForce = {Said(r) : r \in RulesOf(rules)}
  BY DEF Inv, Meant
<1>3. ASSUME NEW r \in RulesOf(rules)
      PROVE  /\ r \in Rule /\ Check(r) /\ Within(r.actions, B, L)
             /\ Chosen(ConditionOf(r)) = r
  <2>1. PICK j \in DOMAIN rules : r = rules[j]
    BY DEF RulesOf
  <2>2. r \in Rule
    BY <2>1, ElementOfSeq, LenProperties DEF Inv
  <2>3. Check(r) /\ Within(r.actions, B, L)
    BY <2>1 DEF Inv, ValidSet, AllWithin
  <2>4. SameCondition(r, ConditionOf(r))
    BY DEF SameCondition, ConditionOf
  <2>5. Chosen(ConditionOf(r)) \in RulesOf(rules) /\ SameCondition(Chosen(ConditionOf(r)), ConditionOf(r))
    BY <2>4
  <2> HIDE DEF Chosen
  <2>6. PICK i \in DOMAIN rules : Chosen(ConditionOf(r)) = rules[i]
    BY <2>5 DEF RulesOf
  <2>7. SameCondition(rules[i], rules[j])
    BY <2>1, <2>5, <2>6 DEF SameCondition, ConditionOf
  <2>8. i = j
    BY <2>7 DEF Inv, ValidSet, ValidConditions
  <2> QED BY <2>1, <2>2, <2>3, <2>6, <2>8
<1> HIDE DEF Chosen
<1>4. ASSUME NEW r \in RulesOf(rules)
      PROVE  /\ ConditionOf(Said(r).rule) = ConditionOf(r) /\ Said(r).means = Meaning(r.actions)
             /\ Said(r).rule.rate = r.rate /\ Said(r).rule.maxCount = r.maxCount
             /\ Said(r).rule.from = r.from /\ Said(r).rule.until = r.until
  BY <1>3 DEF ConditionOf, Rule
<1> HIDE DEF Said
<1>5. DOMAIN plan = {ConditionOf(m.rule) : m \in inForce}
  BY <1>1, <1>2, <1>4
<1>6. ASSUME NEW m \in inForce
      PROVE  LET c == plan[ConditionOf(m.rule)] IN
             /\ Effect(c.does) = m.means
             /\ c = [c EXCEPT !.rate = m.rule.rate, !.maxCount = m.rule.maxCount,
                              !.from = m.rule.from, !.until = m.rule.until]
  <2>1. PICK r \in RulesOf(rules) : m = Said(r)
    BY <1>2
  <2>2. plan[ConditionOf(m.rule)] = Compiled(r)
    BY <1>1, <1>3, <1>4, <2>1
  <2>3. r.actions \in Seq(Action)
    BY <1>3 DEF Rule
  <2>4. Sound(r.actions)
    BY <1>3, Zenon DEF Check, Sound
  <2>5. Effect(Flatten(r.actions)) = Meaning(r.actions)
    BY <1>3, <2>3, <2>4, EffectIsMeaning
  <2>6. Effect(Compiled(r).does) = m.means
    BY <1>4, <2>1, <2>5 DEF Compiled
  <2>7. Compiled(r) = [Compiled(r) EXCEPT !.rate = m.rule.rate, !.maxCount = m.rule.maxCount,
                                          !.from = m.rule.from, !.until = m.rule.until]
    <3>1. m.rule.rate = r.rate /\ m.rule.maxCount = r.maxCount
          /\ m.rule.from = r.from /\ m.rule.until = r.until
      BY <1>4, <2>1
    <3>2. Compiled(r) = [Compiled(r) EXCEPT !.rate = r.rate, !.maxCount = r.maxCount,
                                            !.from = r.from, !.until = r.until]
      <4> DEFINE c == Compiled(r)
      <4>1. c.rate = r.rate /\ c.maxCount = r.maxCount /\ c.from = r.from /\ c.until = r.until
        BY DEF Compiled
      <4>2. c \in [rate : {r.rate}, maxCount : {r.maxCount}, from : {r.from},
                   until : {r.until}, does : {c.does}]
        BY DEF Compiled
      <4> HIDE DEF c
      <4>3. c = [c EXCEPT !.rate = r.rate, !.maxCount = r.maxCount,
                          !.from = r.from, !.until = r.until]
        BY <4>1, <4>2
      <4> QED BY <4>3 DEF c
    <3> QED BY <3>1, <3>2, Zenon
  <2> QED BY <2>2, <2>6, <2>7
<1> QED BY <1>5, <1>6

\* While injection is on, a faulted call gets what the rules last set say, action by
\* action, whatever was done since to the slices they came in (cloneRules, rebuild), as
\* long as no rule's delays can add up to more than a time.Duration holds: without that
\* bound the sum wraps around (ControlPlaneOverflow.cfg).
THEOREM PlanAlwaysWhatWasSet ==
  ASSUME NEW B \in Nat, NEW L \in Nat, Modest(B, L), L * B < 2^(Width - 1)
  PROVE  Spec => []PlanIsWhatWasSet
<1> DEFINE All == Inv /\ AllWithin(mine, B, L) /\ AllWithin(rules, B, L)
<1>1. Init => All
  <2>1. Init => AllWithin(mine, B, L) /\ AllWithin(rules, B, L)
    BY DEF Init, AllWithin
  <2> QED BY <2>1, InitInv
<1>2. All /\ [Next]_vars => All'
  BY NextInv, NextWithin
<1>3. All => PlanIsWhatWasSet
  BY PlanIsMeant
<1> QED BY <1>1, <1>2, <1>3, PTL DEF Spec
=============================================================================
