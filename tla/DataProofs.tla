----------------------------- MODULE DataProofs -----------------------------
(***************************************************************************)
(* What the models' recursive definitions, folds and encodings compute,    *)
(* for every input: induction, in a form the provers can instantiate       *)
(* (about a set, where the library's NatInduction is about an operator);   *)
(* then what Encodings is made of: sequences joined end to end, numbers    *)
(* and their digits, the stack pointer table, and what a processor decodes *)
(* from each form of the two assemblers.                                   *)
(***************************************************************************)
EXTENDS Encodings, WellFoundedInduction, SequenceTheorems, FunctionTheorems, FiniteSetTheorems, TLAPS

\* Every natural number is in a set that has 0 and, with each number, the next:
\* how a walk, a fold or a count of the models is reasoned about.
THEOREM SetInduction ==
  ASSUME NEW S, S \subseteq Nat, 0 \in S, \A n \in S : n + 1 \in S
  PROVE  S = Nat
<1> DEFINE Less == {p \in Nat \X Nat : p[1] < p[2]}
           Missing == Nat \ S
<1>1. IsWellFoundedOn(Less, Nat)
  BY NatLessThanWellFounded DEF OpToRel
<1> SUFFICES ASSUME Missing # {} PROVE FALSE
  OBVIOUS
<1>2. \E x \in Missing : \A y \in Missing : ~ (<<y, x>> \in Less)
  <2> HIDE DEF Less
  <2>1. Missing \subseteq Nat /\ Missing # {}
    OBVIOUS
  <2> HIDE DEF Missing
  <2> QED BY <1>1, <2>1, WFMin
<1>3. PICK x \in Missing : \A y \in Missing : ~ (<<y, x>> \in Less)
  BY <1>2
<1>4. x \in Nat /\ x # 0 /\ x - 1 \in Nat /\ x - 1 < x
  OBVIOUS
<1>5. x - 1 \notin Missing
  <2>1. <<x - 1, x>> \in Less
    BY <1>4
  <2> QED BY <1>3, <2>1
<1>6. x - 1 + 1 \in S
  BY <1>4, <1>5
<1> QED BY <1>4, <1>6

\* The same up to a bound.
THEOREM BoundedInduction ==
  ASSUME NEW n \in Nat, NEW S, 0 \in S, \A k \in 0..n - 1 : k \in S => k + 1 \in S
  PROVE  0..n \subseteq S
<1> DEFINE T == {k \in Nat : k <= n => k \in S}
<1>1. T = Nat
  <2>1. T \subseteq Nat /\ 0 \in T
    OBVIOUS
  <2>2. ASSUME NEW k \in T PROVE k + 1 \in T
    <3>1. k \in Nat /\ (k <= n => k \in S)
      OBVIOUS
    <3>2. k + 1 <= n => k \in 0..n - 1 /\ k <= n
      BY <3>1
    <3> QED BY <3>1, <3>2
  <2> HIDE DEF T
  <2> QED BY <2>1, <2>2, SetInduction
<1> QED BY <1>1

-----------------------------------------------------------------------------
(* Recursive functions: an equation over 0..n that refers to the number     *)
(* before has a solution, so CHOOSE, which is what the definition of a      *)
(* recursive function stands for, finds one.                                *)

\* f is a run of n steps through V from b, the k'th of which does what F says
IsRun(f, V, b, F, n) ==
  /\ f \in [0..n -> V]
  /\ f[0] = b
  /\ \A k \in 1..n : f[k] = F[<<f[k - 1], k>>]

\* There is such a run, whatever the steps do.
THEOREM RunExists ==
  ASSUME NEW n \in Nat, NEW V, NEW b \in V, NEW F \in [V \X (1..n) -> V]
  PROVE  \E f : IsRun(f, V, b, F, n)
<1> DEFINE Run(f, m) == f[0] = b /\ \A k \in 1..m : f[k] = F[<<f[k - 1], k>>]
           S == {m \in 0..n : \E f \in [0..m -> V] : Run(f, m)}
<1>1. 0 \in S
  <2> DEFINE f == [k \in 0..0 |-> b]
  <2>1. f \in [0..0 -> V] /\ f[0] = b /\ 1..0 = {}
    OBVIOUS
  <2> HIDE DEF f
  <2>2. Run(f, 0)
    BY <2>1
  <2> HIDE DEF Run
  <2> QED BY <2>1, <2>2
<1>2. ASSUME NEW m \in 0..n - 1, m \in S PROVE m + 1 \in S
  <2>1. PICK f \in [0..m -> V] : Run(f, m)
    BY <1>2
  <2> DEFINE v == F[<<f[m], m + 1>>]
             g == [k \in 0..m + 1 |-> IF k = m + 1 THEN v ELSE f[k]]
  <2>2. v \in V
    <3>1. f[m] \in V /\ m + 1 \in 1..n
      OBVIOUS
    <3> QED BY <3>1
  <2> HIDE DEF v
  <2>3. g \in [0..m + 1 -> V]
    <3>1. ASSUME NEW k \in 0..m + 1 PROVE (IF k = m + 1 THEN v ELSE f[k]) \in V
      <4>1. CASE k = m + 1
        BY <2>2, <4>1
      <4>2. CASE k # m + 1
        <5>1. k \in 0..m
          BY <4>2
        <5> QED BY <4>2, <5>1
      <4> QED BY <4>1, <4>2
    <3> QED BY <3>1
  <2>4. ASSUME NEW k \in 1..m + 1 PROVE g[k] = F[<<g[k - 1], k>>]
    <3>1. CASE k = m + 1
      <4>1. k - 1 = m /\ m \in 0..m + 1 /\ m # m + 1
        BY <3>1
      <4>2. g[k - 1] = f[m] /\ g[k] = v
        BY <3>1, <4>1
      <4> QED BY <3>1, <4>2 DEF v
    <3>2. CASE k # m + 1
      <4>1. k \in 1..m /\ k - 1 # m + 1 /\ k - 1 \in 0..m + 1
        BY <3>2
      <4>2. g[k - 1] = f[k - 1] /\ g[k] = f[k]
        BY <3>2, <4>1
      <4> QED BY <2>1, <4>1, <4>2
    <3> QED BY <3>1, <3>2
  <2>5. g[0] = b
    <3>1. g[0] = f[0]
      OBVIOUS
    <3> QED BY <2>1, <3>1
  <2> HIDE DEF g
  <2>6. Run(g, m + 1)
    BY <2>4, <2>5
  <2> HIDE DEF Run
  <2> QED BY <2>3, <2>6
<1>3. n \in S
  <2> HIDE DEF S
  <2> QED BY <1>1, <1>2, BoundedInduction
<1> QED BY <1>3 DEF IsRun

-----------------------------------------------------------------------------
(* Folds: FoldLeft of the community modules recurses over sets of indices,  *)
(* taking their largest away.                                               *)

\* A set of indices has a largest one.
LEMMA MaxFacts ==
  ASSUME NEW n \in Nat, NEW s \in SUBSET (1..n), s # {}
  PROVE  Max(s) \in s /\ \A y \in s : Max(s) >= y
<1> DEFINE Top(t) == \E x \in t : \A y \in t : x >= y
           S == {k \in 0..n : \A t \in SUBSET (1..k) : t # {} => Top(t)}
<1>1. 0 \in S
  <2>1. 1..0 = {}
    OBVIOUS
  <2>2. \A t \in SUBSET (1..0) : t = {}
    BY <2>1
  <2> HIDE DEF Top
  <2>3. \A t \in SUBSET (1..0) : t # {} => Top(t)
    BY <2>2
  <2>4. 0 \in 0..n
    OBVIOUS
  <2> QED BY <2>3, <2>4, Zenon
<1>2. ASSUME NEW k \in 0..n - 1, k \in S PROVE k + 1 \in S
  <2>1. ASSUME NEW t \in SUBSET (1..k + 1), t # {} PROVE Top(t)
    <3>1. CASE k + 1 \in t
      BY <3>1
    <3>2. CASE k + 1 \notin t
      <4>1. t \in SUBSET (1..k)
        BY <3>2
      <4> HIDE DEF Top
      <4> QED BY <1>2, <2>1, <4>1
    <3> QED BY <3>1, <3>2
  <2> HIDE DEF Top
  <2> QED BY <2>1
<1>3. n \in S
  <2> HIDE DEF S
  <2> QED BY <1>1, <1>2, BoundedInduction
<1>4. Top(s)
  <2> HIDE DEF Top
  <2> QED BY <1>3
<1> QED BY <1>4, Zenon DEF Max

\* Every set of indices is reached by adding larger and larger ones.
THEOREM IndexInduction ==
  ASSUME NEW n \in Nat, NEW T, {} \in T,
         \A s \in SUBSET (1..n) : s # {} /\ s \ {Max(s)} \in T => s \in T
  PROVE  SUBSET (1..n) \subseteq T
<1> DEFINE S == {k \in 0..n : SUBSET (1..k) \subseteq T}
<1>1. 0 \in S
  <2>1. 1..0 = {}
    OBVIOUS
  <2>2. \A s \in SUBSET (1..0) : s = {}
    BY <2>1
  <2>3. SUBSET (1..0) \subseteq T /\ 0 \in 0..n
    BY <2>2
  <2> QED BY <2>3, Zenon
<1>2. ASSUME NEW k \in 0..n - 1, k \in S PROVE k + 1 \in S
  <2>1. ASSUME NEW s \in SUBSET (1..k + 1) PROVE s \in T
    <3>1. s \in SUBSET (1..n)
      <4>1. 1..k + 1 \subseteq 1..n
        OBVIOUS
      <4> QED BY <4>1
    <3>2. CASE s = {}
      BY <3>2
    <3>3. CASE s # {}
      <4>1. Max(s) \in s /\ \A y \in s : Max(s) >= y
        BY <3>1, <3>3, MaxFacts
      <4>2. s \ {Max(s)} \in SUBSET (1..k)
        <5> DEFINE x == Max(s)
        <5>1. x \in s /\ \A y \in s : x >= y
          BY <4>1
        <5> HIDE DEF x
        <5>2. \A y \in s \ {x} : y \in 1..k
          BY <5>1
        <5>3. s \ {x} \in SUBSET (1..k)
          BY <5>2
        <5> QED BY <5>3 DEF x
      <4> QED BY <1>2, <3>1, <3>3, <4>2
    <3> QED BY <3>2, <3>3
  <2> QED BY <2>1
<1>3. n \in S
  <2> HIDE DEF S
  <2> QED BY <1>1, <1>2, BoundedInduction
<1> QED BY <1>3

\* The first k indices, and what is left when their largest is taken away.
LEMMA PrefixFacts ==
  ASSUME NEW n \in Nat, NEW k \in 1..n
  PROVE  1..k \in SUBSET (1..n) /\ 1..k # {} /\ Max(1..k) = k /\ (1..k) \ {k} = 1..k - 1
<1>1. 1..k \in SUBSET (1..n) /\ k \in 1..k
  OBVIOUS
<1>2. Max(1..k) \in 1..k /\ Max(1..k) >= k
  BY <1>1, MaxFacts
<1>3. Max(1..k) = k
  BY <1>2
<1> QED BY <1>1, <1>3

\* f is the table of a fold over the indices up to n through V from b, in which F
\* says what each index does
IsFold(f, V, b, F, n) ==
  /\ f \in [SUBSET (1..n) -> V]
  /\ f[{}] = b
  /\ \A s \in SUBSET (1..n) : s # {} => f[s] = F[<<f[s \ {Max(s)}], Max(s)>>]

\* There is such a table, whatever the indices do.
THEOREM FoldExists ==
  ASSUME NEW n \in Nat, NEW V, NEW b \in V, NEW F \in [V \X (1..n) -> V]
  PROVE  \E f : IsFold(f, V, b, F, n)
<1> DEFINE Step(f, s) == IF s = {} THEN b ELSE F[<<f[s \ {Max(s)}], Max(s)>>]
           Table(f, m) == \A s \in SUBSET (1..m) : f[s] = Step(f, s)
           S == {m \in 0..n : \E f \in [SUBSET (1..m) -> V] : Table(f, m)}
<1>1. 0 \in S
  <2> DEFINE f == [s \in SUBSET (1..0) |-> b]
  <2>1. f \in [SUBSET (1..0) -> V] /\ \A s \in SUBSET (1..0) : s = {} /\ f[s] = b
    OBVIOUS
  <2>2. Table(f, 0)
    BY <2>1, Zenon
  <2> HIDE DEF Table, f
  <2> QED BY <2>1, <2>2
<1>2. ASSUME NEW m \in 0..n - 1, m \in S PROVE m + 1 \in S
  <2>1. PICK f \in [SUBSET (1..m) -> V] : Table(f, m)
    BY <1>2
  <2> DEFINE g == [s \in SUBSET (1..m + 1) |->
                     IF m + 1 \in s THEN F[<<f[s \ {m + 1}], m + 1>>] ELSE f[s]]
  <2>2. ASSUME NEW s \in SUBSET (1..m + 1)
        PROVE  /\ s \ {m + 1} \in SUBSET (1..m) /\ m + 1 \in 1..n
               /\ m + 1 \notin s => s \in SUBSET (1..m)
               /\ m + 1 \in s => Max(s) = m + 1
               /\ s \in SUBSET (1..n)
    <3>1. s \in SUBSET (1..n) /\ m + 1 \in 1..n /\ s \ {m + 1} \in SUBSET (1..m)
      OBVIOUS
    <3>2. ASSUME m + 1 \in s PROVE Max(s) = m + 1
      <4>1. Max(s) \in s /\ Max(s) >= m + 1
        BY <3>1, <3>2, MaxFacts
      <4>2. Max(s) \in 1..m + 1
        BY <4>1
      <4> QED BY <4>1, <4>2
    <3> QED BY <3>1, <3>2
  <2>3. g \in [SUBSET (1..m + 1) -> V]
    <3>1. ASSUME NEW s \in SUBSET (1..m + 1)
          PROVE  (IF m + 1 \in s THEN F[<<f[s \ {m + 1}], m + 1>>] ELSE f[s]) \in V
      <4>1. f[s \ {m + 1}] \in V /\ (m + 1 \notin s => f[s] \in V) /\ m + 1 \in 1..n
        BY <2>2
      <4>2. F[<<f[s \ {m + 1}], m + 1>>] \in V
        BY <4>1
      <4> QED BY <4>1, <4>2
    <3> QED BY <3>1
  <2>4. ASSUME NEW s \in SUBSET (1..m) PROVE g[s] = f[s]
    <3>1. s \in SUBSET (1..m + 1) /\ m + 1 \notin s
      OBVIOUS
    <3> QED BY <3>1
  <2>5. ASSUME NEW s \in SUBSET (1..m + 1) PROVE g[s] = Step(g, s)
    <3>1. CASE m + 1 \in s
      <4>1. Max(s) = m + 1 /\ s # {}
        BY <2>2, <3>1
      <4>2. g[s \ {m + 1}] = f[s \ {m + 1}]
        <5>1. s \ {m + 1} \in SUBSET (1..m)
          BY <2>2
        <5> HIDE DEF g
        <5> QED BY <2>4, <5>1
      <4>3. g[s] = F[<<f[s \ {m + 1}], m + 1>>]
        BY <3>1
      <4> HIDE DEF g
      <4> QED BY <4>1, <4>2, <4>3
    <3>2. CASE m + 1 \notin s
      <4>1. s \in SUBSET (1..m) /\ s \ {Max(s)} \in SUBSET (1..m)
        BY <2>2, <3>2
      <4> HIDE DEF g
      <4>2. g[s] = f[s] /\ g[s \ {Max(s)}] = f[s \ {Max(s)}]
        BY <2>4, <4>1
      <4>3. f[s] = Step(f, s)
        BY <2>1, <4>1
      <4> QED BY <4>2, <4>3
    <3> QED BY <3>1, <3>2
  <2> HIDE DEF g, Step
  <2>6. Table(g, m + 1)
    BY <2>5
  <2> HIDE DEF Table
  <2> QED BY <2>3, <2>6
<1>3. n \in S
  <2> HIDE DEF S
  <2> QED BY <1>1, <1>2, BoundedInduction
<1>4. PICK f \in [SUBSET (1..n) -> V] : Table(f, n)
  BY <1>3
<1>5. {} \in SUBSET (1..n)
  OBVIOUS
<1> QED BY <1>4, <1>5 DEF IsFold

-----------------------------------------------------------------------------
(* sequences joined end to end, and numbers in digits *)

Offsets(seqs) ==
  CHOOSE p \in [0..Len(seqs) -> Nat] :
    p[0] = 0 /\ \A k \in 1..Len(seqs) : p[k] = p[k - 1] + Len(seqs[k])

Offset(seqs, k) == Offsets(seqs)[k]

\* Each of them begins where the one before ends.
LEMMA OffsetFacts ==
  ASSUME NEW S, NEW seqs \in Seq(Seq(S))
  PROVE  /\ Offset(seqs, 0) = 0
         /\ \A k \in 0..Len(seqs) : Offset(seqs, k) \in Nat
         /\ \A k \in 1..Len(seqs) : /\ Offset(seqs, k - 1) \in Nat /\ Len(seqs[k]) \in Nat
                                    /\ Offset(seqs, k) = Offset(seqs, k - 1) + Len(seqs[k])
<1> DEFINE n == Len(seqs)
           F == [x \in Nat \X (1..n) |-> x[1] + Len(seqs[x[2]])]
<1>1. n \in Nat /\ \A k \in 1..n : seqs[k] \in Seq(S) /\ Len(seqs[k]) \in Nat
  BY ElementOfSeq, LenProperties
<1> HIDE DEF n
<1>2. F \in [Nat \X (1..n) -> Nat]
  BY <1>1
<1>3. PICK p : IsRun(p, Nat, 0, F, n)
  <2> HIDE DEF F
  <2> QED BY <1>1, <1>2, RunExists
<1>4. p \in [0..n -> Nat] /\ p[0] = 0 /\ \A k \in 1..n : p[k] = p[k - 1] + Len(seqs[k])
  <2>1. ASSUME NEW k \in 1..n PROVE p[k] = p[k - 1] + Len(seqs[k])
    <3>1. p[k - 1] \in Nat /\ p[k] = F[<<p[k - 1], k>>]
      <4> HIDE DEF F
      <4> QED BY <1>1, <1>3 DEF IsRun
    <3> QED BY <3>1
  <2> QED BY <1>3, <2>1 DEF IsRun
<1>5. /\ Offsets(seqs) \in [0..n -> Nat] /\ Offsets(seqs)[0] = 0
      /\ \A k \in 1..n : Offsets(seqs)[k] = Offsets(seqs)[k - 1] + Len(seqs[k])
  BY <1>4 DEF Offsets, n
<1>6. \A k \in 1..n : k - 1 \in 0..n /\ k \in 0..n
  BY <1>1
<1> QED BY <1>1, <1>5, <1>6 DEF Offset, n

\* The flattened sequence, one of the sequences after the other.
LEMMA JoinIs ==
  ASSUME NEW S, NEW seqs \in Seq(Seq(S)), seqs # <<>>,
         NEW f \in [1..Len(seqs) -> Seq(S)], f[1] = seqs[1],
         \A k \in 2..Len(seqs) : f[k] = f[k - 1] \o seqs[k]
  PROVE  FlattenSeq(seqs) = f[Len(seqs)]
<1> DEFINE n == Len(seqs)
           Body(g, i) == IF i = 1 THEN seqs[i] ELSE g[i - 1] \o seqs[i]
           Solves(g) == g = [i \in 1..n |-> Body(g, i)]
<1>1. /\ n \in Nat /\ n # 0
      /\ f \in [1..n -> Seq(S)] /\ f[1] = seqs[1] /\ \A k \in 2..n : f[k] = f[k - 1] \o seqs[k]
  BY EmptySeq, LenProperties
<1> HIDE DEF n
<1>2. Solves(f)
  <2>1. ASSUME NEW i \in 1..n PROVE f[i] = Body(f, i)
    <3>1. i = 1 \/ i \in 2..n
      BY <1>1
    <3> QED BY <1>1, <3>1
  <2>2. f = [i \in 1..n |-> f[i]]
    BY <1>1
  <2> HIDE DEF Body
  <2> QED BY <2>1, <2>2
<1>3. ASSUME NEW g, Solves(g) PROVE g[n] = f[n]
  <2> DEFINE m == n - 1
             T == {k \in 0..m : g[k + 1] = f[k + 1]}
  <2>1. ASSUME NEW i \in 1..n PROVE g[i] = Body(g, i)
    <3> HIDE DEF Body
    <3> QED BY <1>3
  <2>2. m \in Nat /\ n = m + 1
    BY <1>1
  <2>3. 0 \in T
    <3>1. 1 \in 1..n
      BY <1>1
    <3> QED BY <1>1, <2>1, <2>2, <3>1
  <2> HIDE DEF m
  <2>4. \A k \in 0..m - 1 : k \in T => k + 1 \in T
    <3> SUFFICES ASSUME NEW k \in 0..m - 1, k \in T PROVE k + 1 \in T
      OBVIOUS
    <3> DEFINE i == k + 2
    <3>1. i \in 2..n /\ i \in 1..n /\ i # 1 /\ i - 1 = k + 1 /\ (k + 1) + 1 = i /\ k + 1 \in 0..m
      BY <2>2
    <3> HIDE DEF i
    <3>2. g[i] = g[k + 1] \o seqs[i]
      BY <2>1, <3>1
    <3>3. f[i] = f[k + 1] \o seqs[i]
      BY <1>1, <3>1
    <3> QED BY <3>1, <3>2, <3>3
  <2>5. 0..m \subseteq T
    <3> HIDE DEF T
    <3> QED BY <2>2, <2>3, <2>4, BoundedInduction
  <2> QED BY <2>2, <2>5
<1> DEFINE Made == CHOOSE g : Solves(g)
<1>4. Solves(Made)
  <2> HIDE DEF Solves
  <2> QED BY <1>2
<1>5. Made[n] = f[n]
  <2> HIDE DEF Solves, Made
  <2> QED BY <1>3, <1>4
<1>6. FlattenSeq(seqs) = Made[n]
  <2>1. ~(Len(seqs) = 0)
    BY <1>1 DEF n
  <2> USE DEF n
  <2>2. FlattenSeq(seqs) = Made[Len(seqs)]
    BY <2>1, Zenon DEF FlattenSeq
  <2> HIDE DEF Made
  <2> QED BY <2>2
<1> QED BY <1>5, <1>6 DEF n

\* Every sequence is found in the flattened one at its offset.
LEMMA FlattenFacts ==
  ASSUME NEW S, NEW seqs \in Seq(Seq(S)), seqs # <<>>
  PROVE  /\ FlattenSeq(seqs) \in Seq(S)
         /\ Len(FlattenSeq(seqs)) = Offset(seqs, Len(seqs))
         /\ \A k \in 1..Len(seqs) : \A i \in 1..Len(seqs[k]) :
              FlattenSeq(seqs)[Offset(seqs, k - 1) + i] = seqs[k][i]
<1> DEFINE n == Len(seqs)
           F == [x \in Seq(S) \X (1..n) |-> x[1] \o seqs[x[2]]]
           off(k) == Offset(seqs, k)
<1>1. n \in Nat /\ n # 0 /\ \A k \in 1..n : seqs[k] \in Seq(S) /\ Len(seqs[k]) \in Nat
  BY EmptySeq, ElementOfSeq, LenProperties
<1>2. F \in [Seq(S) \X (1..n) -> Seq(S)]
  <2> HIDE DEF n
  <2>1. ASSUME NEW x \in Seq(S) \X (1..n) PROVE x[1] \o seqs[x[2]] \in Seq(S)
    <3>1. x[1] \in Seq(S) /\ seqs[x[2]] \in Seq(S)
      BY <1>1
    <3> QED BY <3>1, ConcatProperties
  <2> QED BY <2>1
<1>3. PICK f : IsRun(f, Seq(S), <<>>, F, n)
  <2>1. <<>> \in Seq(S)
    OBVIOUS
  <2> HIDE DEF F, n
  <2> QED BY <1>1, <1>2, <2>1, RunExists
<1>4. /\ f \in [0..n -> Seq(S)] /\ f[0] = <<>>
      /\ \A k \in 1..n : f[k] = f[k - 1] \o seqs[k]
  <2> HIDE DEF n
  <2>1. ASSUME NEW k \in 1..n PROVE f[k] = f[k - 1] \o seqs[k]
    <3>1. f[k - 1] \in Seq(S) /\ f[k] = F[<<f[k - 1], k>>]
      <4> HIDE DEF F
      <4> QED BY <1>1, <1>3 DEF IsRun
    <3> QED BY <3>1
  <2> QED BY <1>3, <2>1 DEF IsRun
<1> HIDE DEF F
<1>5. off(0) = 0 /\ (\A k \in 0..n : off(k) \in Nat)
      /\ \A k \in 1..n : off(k) = off(k - 1) + Len(seqs[k])
  BY OffsetFacts
<1> HIDE DEF n, off
<1>6. FlattenSeq(seqs) = f[n]
  <2> DEFINE h == [k \in 1..n |-> f[k]]
  <2>1. h \in [1..n -> Seq(S)]
    BY <1>1, <1>4
  <2>2. h[1] = seqs[1]
    <3>1. 1 \in 1..n /\ 1 - 1 = 0
      BY <1>1
    <3>2. f[1] = <<>> \o seqs[1] /\ seqs[1] \in Seq(S)
      BY <1>1, <1>4, <3>1
    <3>3. f[1] = seqs[1]
      BY <3>2, ConcatEmptySeq
    <3> QED BY <3>1, <3>3
  <2>3. \A k \in 2..n : h[k] = h[k - 1] \o seqs[k]
    <3> SUFFICES ASSUME NEW k \in 2..n PROVE h[k] = h[k - 1] \o seqs[k]
      OBVIOUS
    <3>1. k \in 1..n /\ k - 1 \in 1..n
      BY <1>1
    <3> QED BY <1>4, <3>1
  <2>4. FlattenSeq(seqs) = h[n]
    <3> HIDE DEF h
    <3> QED BY <2>1, <2>2, <2>3, JoinIs DEF n
  <2> QED BY <1>1, <2>4
<1> DEFINE Good(k) == /\ Len(f[k]) = off(k)
                      /\ \A j \in 1..k : \A i \in 1..Len(seqs[j]) : f[k][off(j - 1) + i] = seqs[j][i]
                      /\ \A j \in 1..k : off(j) <= off(k)
           T == {k \in 0..n : Good(k)}
<1>7. 0 \in T
  <2>1. 1..0 = {} /\ 0 \in 0..n /\ Len(<<>>) = 0
    BY <1>1
  <2>2. Len(f[0]) = off(0)
    BY <1>4, <1>5, <2>1
  <2> QED BY <2>1, <2>2
<1>8. \A k \in 0..n - 1 : k \in T => k + 1 \in T
  <2> SUFFICES ASSUME NEW k \in 0..n - 1, k \in T PROVE k + 1 \in T
    OBVIOUS
  <2> DEFINE s == f[k]
             t == seqs[k + 1]
  <2>1. k + 1 \in 1..n /\ k \in 0..n /\ (k + 1) - 1 = k
    BY <1>1
  <2>2. s \in Seq(S) /\ t \in Seq(S) /\ Len(s) \in Nat /\ Len(t) \in Nat
    BY <1>1, <1>4, <2>1, LenProperties
  <2>3. f[k + 1] = s \o t
    BY <1>4, <2>1
  <2>4. off(k + 1) = off(k) + Len(t) /\ off(k) \in Nat
    BY <1>5, <2>1
  <2> HIDE DEF s, t
  <2>5. /\ Len(s \o t) = Len(s) + Len(t)
        /\ \A i \in 1..Len(s) + Len(t) :
             (s \o t)[i] = IF i <= Len(s) THEN s[i] ELSE t[i - Len(s)]
    BY <2>2, ConcatProperties
  <2>6. Len(s) = off(k)
    BY DEF s
  <2>7. Len(f[k + 1]) = off(k + 1)
    BY <2>3, <2>4, <2>5, <2>6
  <2>8. ASSUME NEW j \in 1..k + 1, NEW i \in 1..Len(seqs[j])
        PROVE  f[k + 1][off(j - 1) + i] = seqs[j][i]
    <3>1. CASE j = k + 1
      <4>1. off(k) + i \in 1..Len(s) + Len(t) /\ ~(off(k) + i <= Len(s)) /\ (off(k) + i) - Len(s) = i
        BY <2>2, <2>4, <2>6, <2>8, <3>1 DEF t
      <4>2. (s \o t)[off(k) + i] = t[i]
        BY <2>5, <4>1
      <4> QED BY <2>1, <2>3, <3>1, <4>2 DEF t
    <3>2. CASE j # k + 1
      <4>1. j \in 1..k /\ j \in 1..n /\ j - 1 \in 0..n
        BY <1>1, <3>2
      <4>2. s[off(j - 1) + i] = seqs[j][i]
        BY <4>1 DEF s
      <4>3. off(j) = off(j - 1) + Len(seqs[j]) /\ off(j - 1) \in Nat /\ off(j) <= off(k)
        BY <1>5, <4>1
      <4>4. Len(seqs[j]) \in Nat
        BY <1>1, <4>1
      <4>5. off(j - 1) + i \in 1..Len(s) + Len(t) /\ off(j - 1) + i <= Len(s)
        <5>1. i \in Nat /\ 1 <= i /\ i <= Len(seqs[j])
          BY <2>8, <4>4
        <5>2. off(j - 1) + i <= off(j) /\ 1 <= off(j - 1) + i
          BY <4>3, <4>4, <5>1
        <5>3. off(j - 1) + i <= off(k) /\ off(j - 1) + i \in Nat
          BY <2>4, <4>3, <4>4, <5>1, <5>2
        <5> QED BY <2>2, <2>6, <5>2, <5>3
      <4> QED BY <2>3, <2>5, <4>2, <4>5
    <3> QED BY <3>1, <3>2
  <2>9. ASSUME NEW j \in 1..k + 1 PROVE off(j) <= off(k + 1)
    <3>1. CASE j = k + 1
      BY <1>5, <2>1, <3>1
    <3>2. CASE j # k + 1
      <4>1. j \in 1..k /\ j \in 0..n
        BY <1>1, <3>2
      <4> QED BY <1>5, <2>2, <2>4, <4>1
    <3> QED BY <3>1, <3>2
  <2>10. k + 1 \in 0..n
    BY <1>1
  <2> QED BY <2>7, <2>8, <2>9, <2>10
<1>9. Good(n)
  <2>1. 0..n \subseteq T
    <3> HIDE DEF T
    <3> QED BY <1>1, <1>7, <1>8, BoundedInduction
  <2> QED BY <1>1, <2>1
<1>10. f[n] \in Seq(S)
  BY <1>1, <1>4
<1> QED BY <1>6, <1>9, <1>10 DEF n, off

\* From any of them, when the last is not empty, the next that is not: nothing lies
\* between.
LEMMA SkipEmpty ==
  ASSUME NEW S, NEW seqs \in Seq(Seq(S)), NEW k \in 1..Len(seqs), seqs[Len(seqs)] # <<>>
  PROVE  \E j \in k..Len(seqs) : /\ seqs[j] # <<>> /\ Offset(seqs, j - 1) = Offset(seqs, k - 1)
                                 /\ \A i \in k..j - 1 : seqs[i] = <<>>
<1> DEFINE n == Len(seqs)
           off(i) == Offset(seqs, i)
           Next1(j) == /\ seqs[j] # <<>> /\ off(j - 1) = off(k - 1)
                       /\ \A i \in k..j - 1 : seqs[i] = <<>>
           Found == \E j \in k..n : Next1(j)
           T == {d \in 0..n - k : Found \/ (/\ off(k + d - 1) = off(k - 1)
                                            /\ \A i \in k..k + d - 1 : seqs[i] = <<>>)}
<1>1. n \in Nat /\ k \in 1..n /\ n - k \in Nat
  BY LenProperties
<1>2. \A i \in 1..n : off(i - 1) \in Nat /\ off(i) = off(i - 1) + Len(seqs[i])
  BY OffsetFacts
<1>3. seqs[n] # <<>>
  OBVIOUS
<1> HIDE DEF n, off
<1>4. 0 \in T
  BY <1>1
<1>5. \A d \in 0..(n - k) - 1 : d \in T => d + 1 \in T
  <2> SUFFICES ASSUME NEW d \in 0..(n - k) - 1, d \in T PROVE d + 1 \in T
    OBVIOUS
  <2> DEFINE i == k + d
  <2>1. i \in k..n /\ i \in 1..n /\ k + (d + 1) - 1 = i /\ d + 1 \in 0..n - k
    BY <1>1
  <2>2. Found \/ (off(i - 1) = off(k - 1) /\ \A h \in k..i - 1 : seqs[h] = <<>>)
    OBVIOUS
  <2> HIDE DEF i
  <2>3. CASE Found
    <3> HIDE DEF Found
    <3> QED BY <2>1, <2>3
  <2>4. CASE ~Found /\ seqs[i] = <<>>
    <3>1. Len(seqs[i]) = 0
      BY <2>4
    <3>2. off(i) = off(k - 1)
      BY <1>2, <2>1, <2>2, <2>4, <3>1
    <3>3. ASSUME NEW h \in k..i PROVE seqs[h] = <<>>
      <4>1. h = i \/ h \in k..i - 1
        BY <2>1
      <4> QED BY <2>2, <2>4, <4>1
    <3> QED BY <2>1, <3>2, <3>3
  <2>5. CASE ~Found /\ seqs[i] # <<>>
    <3>1. Next1(i)
      BY <2>2, <2>5
    <3> QED BY <2>1, <2>5, <3>1
  <2> QED BY <2>3, <2>4, <2>5
<1>6. n - k \in T
  <2> DEFINE m == n - k
  <2>1. m \in Nat /\ \A d \in 0..m - 1 : d \in T => d + 1 \in T
    BY <1>1, <1>5
  <2> HIDE DEF m, T
  <2>2. 0..m \subseteq T
    BY <1>4, <2>1, BoundedInduction
  <2> QED BY <2>1, <2>2 DEF m
<1>7. CASE off(k + (n - k) - 1) = off(k - 1) /\ \A i \in k..k + (n - k) - 1 : seqs[i] = <<>>
  <2>1. k + (n - k) - 1 = n - 1 /\ n \in k..n
    BY <1>1
  <2>2. Next1(n)
    BY <1>3, <1>7, <2>1
  <2> QED BY <2>1, <2>2 DEF n, off
<1> QED BY <1>6, <1>7 DEF n, off

\* Sequences of at most c elements, one word or an instruction of amd64: a bound of the
\* offsets, and their order.
LEMMA OffsetBound ==
  ASSUME NEW S, NEW seqs \in Seq(Seq(S)), NEW c \in {1, 15},
         \A k \in 1..Len(seqs) : Len(seqs[k]) <= c
  PROVE  /\ \A k \in 0..Len(seqs) : Offset(seqs, k) <= c * k
         /\ \A k \in 0..Len(seqs) : \A j \in 0..k : Offset(seqs, j) <= Offset(seqs, k)
<1> DEFINE n == Len(seqs)
           off(i) == Offset(seqs, i)
           Good(k) == off(k) <= c * k /\ \A j \in 0..k : off(j) <= off(k)
           T == {k \in 0..n : Good(k)}
<1>1. n \in Nat /\ \A i \in 1..n : Len(seqs[i]) <= c
  BY LenProperties
<1>2. /\ off(0) = 0 /\ \A i \in 0..n : off(i) \in Nat
      /\ \A i \in 1..n : off(i) = off(i - 1) + Len(seqs[i])
  BY OffsetFacts
<1>3. \A i \in 1..n : Len(seqs[i]) \in 0..c
  <2>1. \A i \in 1..n : seqs[i] \in Seq(S) /\ Len(seqs[i]) \in Nat
    BY ElementOfSeq, LenProperties
  <2>2. \A x \in Nat : x <= c => x \in 0..c
    OBVIOUS
  <2> HIDE DEF n
  <2> QED BY <1>1, <2>1, <2>2, Zenon
<1> HIDE DEF n, off
<1>4. 0 \in T
  BY <1>1, <1>2
<1>5. \A k \in 0..n - 1 : k \in T => k + 1 \in T
  <2> SUFFICES ASSUME NEW k \in 0..n - 1, k \in T PROVE k + 1 \in T
    OBVIOUS
  <2>1. /\ k + 1 \in 1..n /\ (k + 1) - 1 = k /\ k \in 0..n /\ k + 1 \in 0..n
        /\ off(k) <= c * k /\ \A j \in 0..k : off(j) <= off(k)
    BY <1>1
  <2>2. off(k + 1) = off(k) + Len(seqs[k + 1]) /\ Len(seqs[k + 1]) \in 0..c /\ off(k) \in Nat
    BY <1>2, <1>3, <2>1
  <2>3. ASSUME NEW j \in 0..k + 1 PROVE off(j) <= off(k + 1)
    <3>1. CASE j = k + 1
      BY <1>2, <2>1, <3>1
    <3>2. CASE j # k + 1
      <4>1. j \in 0..k /\ j \in 0..n
        BY <1>1, <3>2
      <4>2. off(j) <= off(k) /\ off(j) \in Nat
        BY <1>2, <2>1, <4>1
      <4> QED BY <2>2, <4>2
    <3> QED BY <3>1, <3>2
  <2>4. off(k + 1) <= c * (k + 1)
    <3>1. k \in Nat
      BY <1>1
    <3>2. \A x \in Nat, y \in 0..c : x <= c * k => x + y <= c * (k + 1)
      BY <3>1
    <3> QED BY <2>1, <2>2, <3>2
  <2> QED BY <2>1, <2>3, <2>4
<1>6. 0..n \subseteq T
  <2> HIDE DEF T
  <2> QED BY <1>1, <1>4, <1>5, BoundedInduction
<1> QED BY <1>6 DEF n, off

-----------------------------------------------------------------------------
(* amd64: the instructions of one byte, and numbers written in bytes *)

\* quantified over by name: the provers unfold a range of numerals
Byte == 0..255

Half == {n \in Nat : n < 65536}

ByteSeq == Seq(Byte)

Located(code, at, bytes) == \A i \in 1..Len(bytes) : code[at + i - 1] = bytes[i]

\* wherever the processor meets these bytes, it executes this instruction
Means64(bytes, ins) ==
  /\ bytes \in ByteSeq /\ Len(bytes) = ins.len /\ ins.len \in 1..15
  /\ \A code, at : at \in Nat /\ Located(code, at, bytes) => A64!Decode(code, at) = ins

\* The bytes of a number, the lowest first.
LEMMA BytesFacts ==
  ASSUME NEW v \in Nat
  PROVE  /\ A64!Bytes(v, 1) \in ByteSeq /\ Len(A64!Bytes(v, 1)) = 1
         /\ A64!Bytes(v, 2) \in ByteSeq /\ Len(A64!Bytes(v, 2)) = 2
         /\ A64!Bytes(v, 4) \in ByteSeq /\ Len(A64!Bytes(v, 4)) = 4
         /\ A64!Bytes(v, 1)[1] = v % 256
         /\ A64!Bytes(v, 2)[1] = v % 256 /\ A64!Bytes(v, 2)[2] = (v \div 256) % 256
         /\ A64!Bytes(v, 4)[1] = v % 256 /\ A64!Bytes(v, 4)[2] = (v \div 256) % 256
         /\ A64!Bytes(v, 4)[3] = (v \div 65536) % 256
         /\ A64!Bytes(v, 4)[4] = (v \div 16777216) % 256
<1>1. 256^0 = 1 /\ 256^1 = 256 /\ 256^2 = 65536 /\ 256^3 = 16777216
  OBVIOUS
<1>2. ASSUME NEW n \in {1, 2, 4}
      PROVE  A64!Bytes(v, n) \in ByteSeq /\ Len(A64!Bytes(v, n)) = n
  <2>1. \A i \in 1..n : i \in {1, 2, 3, 4}
    OBVIOUS
  <2>2. \A i \in 1..n : (v \div 256^(i - 1)) % 256 \in 0..255
    BY <1>1, <2>1
  <2> QED BY <2>2 DEF A64!Bytes, ByteSeq, Byte
<1>3. /\ A64!Bytes(v, 1)[1] = (v \div 256^0) % 256
      /\ A64!Bytes(v, 2)[1] = (v \div 256^0) % 256
      /\ A64!Bytes(v, 2)[2] = (v \div 256^1) % 256
      /\ A64!Bytes(v, 4)[1] = (v \div 256^0) % 256
      /\ A64!Bytes(v, 4)[2] = (v \div 256^1) % 256
      /\ A64!Bytes(v, 4)[3] = (v \div 256^2) % 256
      /\ A64!Bytes(v, 4)[4] = (v \div 256^3) % 256
  BY DEF A64!Bytes
<1> QED BY <1>1, <1>2, <1>3

\* The prefix with the bits w, r and b.
LEMMA RexPrefix ==
  ASSUME NEW code, NEW at \in Nat, NEW w \in 0..1, NEW r \in 0..1, NEW b \in 0..1,
         code[at] = 64 + 8 * w + 4 * r + b
  PROVE  A64!Decode(code, at) = A64!Opcode(code, at, at + 1, w, 8 * r, 8 * b)
<1> DEFINE rex == code[at] % 16
<1>1. code[at] \in 64..79 /\ rex = 8 * w + 4 * r + b
  OBVIOUS
<1> HIDE DEF rex
<1>2. rex \div 8 = w /\ (rex \div 4) % 2 = r /\ rex % 2 = b
  BY <1>1
<1> QED BY <1>1, <1>2 DEF A64!Decode, rex

\* Without it.
LEMMA NoPrefix ==
  ASSUME NEW code, NEW at \in Nat, code[at] \in 80..255
  PROVE  A64!Decode(code, at) = A64!Opcode(code, at, at, 0, 0, 0)
BY DEF A64!Decode

\* The opcodes that a ModRM byte follows.
LEMMA ModRM ==
  ASSUME NEW code, NEW from, NEW at \in Nat, NEW w, NEW r, NEW b,
         NEW op \in {255, 129, 137, 141, 199}, code[at] = op
  PROVE  A64!Opcode(code, from, at, w, r, b) =
           IF code[at + 1] >= 192 THEN A64!WithRegisters(code, from, op, at + 1, r, b)
           ELSE A64!WithMemory(code, from, op, at + 1, r, b)
<1>1. op \notin 80..87 /\ op \notin 88..95 /\ op # 195 /\ op \notin 184..191
  OBVIOUS
<1> QED BY <1>1 DEF A64!Opcode

\* The instructions of one byte (jitcode_amd64.go:110-198).
LEMMA OneByteForms ==
  /\ Means64(A64!Push(5), A64!Ins("push", 5, 0, 0, A64!NoImm, 1))
  /\ Means64(A64!Pop(5), A64!Ins("pop", 5, 0, 0, A64!NoImm, 1))
  /\ Means64(A64!Ret, A64!Ins("ret", 0, 0, 0, A64!NoImm, 1))
<1>1. ASSUME NEW code, NEW at \in Nat
      PROVE  /\ code[at] = 85 => A64!Decode(code, at) = A64!Ins("push", 5, 0, 0, A64!NoImm, 1)
             /\ code[at] = 93 => A64!Decode(code, at) = A64!Ins("pop", 5, 0, 0, A64!NoImm, 1)
             /\ code[at] = 195 => A64!Decode(code, at) = A64!Ins("ret", 0, 0, 0, A64!NoImm, 1)
  <2>1. CASE code[at] \in {85, 93, 195}
    <3>1. A64!Decode(code, at) = A64!Opcode(code, at, at, 0, 0, 0)
      BY <2>1, NoPrefix
    <3> QED BY <2>1, <3>1 DEF A64!Opcode
  <2> QED BY <2>1
<1>2. A64!Push(5) = <<85>> /\ A64!Pop(5) = <<93>> /\ A64!Ret = <<195>>
  BY DEF A64!Push, A64!Pop, A64!Ret
<1>3. /\ A64!Ins("push", 5, 0, 0, A64!NoImm, 1).len = 1
      /\ A64!Ins("pop", 5, 0, 0, A64!NoImm, 1).len = 1
      /\ A64!Ins("ret", 0, 0, 0, A64!NoImm, 1).len = 1
  BY DEF A64!Ins
<1>4. Means64(<<85>>, A64!Ins("push", 5, 0, 0, A64!NoImm, 1))
  BY <1>1, <1>3 DEF Means64, Located, ByteSeq, Byte
<1>5. Means64(<<93>>, A64!Ins("pop", 5, 0, 0, A64!NoImm, 1))
  BY <1>1, <1>3 DEF Means64, Located, ByteSeq, Byte
<1>6. Means64(<<195>>, A64!Ins("ret", 0, 0, 0, A64!NoImm, 1))
  BY <1>1, <1>3 DEF Means64, Located, ByteSeq, Byte
<1> QED BY <1>2, <1>4, <1>5, <1>6

\* MOV between registers.
LEMMA MovForm64 ==
  ASSUME NEW d \in 0..15, NEW s \in 0..15
  PROVE  Means64(A64!Mov(d, s), A64!Ins("move", d, s, 0, A64!NoImm, 3))
<1> DEFINE ins == A64!Ins("move", d, s, 0, A64!NoImm, 3)
           r == IF s >= 8 THEN 1 ELSE 0
           b == IF d >= 8 THEN 1 ELSE 0
           rex == 72 + 4 * r + b
           modrm == 192 + (s % 8) * 8 + (d % 8)
<1>1. r \in 0..1 /\ b \in 0..1 /\ (s % 8) + 8 * r = s /\ (d % 8) + 8 * b = d
  OBVIOUS
<1>2. A64!Mov(d, s) = <<rex, 137, modrm>>
  <2>1. A64!Rex(s, d) = rex
    BY DEF A64!Rex, A64!Bit3
  <2> HIDE DEF rex
  <2> QED BY <2>1 DEF A64!Mov
<1>3. modrm \in 192..255 /\ (modrm % 8) + 8 * b = d /\ ((modrm \div 8) % 8) + 8 * r = s
  <2>1. \A x, y \in 0..7 : LET m == 192 + x * 8 + y IN
          m \in 192..255 /\ m % 8 = y /\ (m \div 8) % 8 = x
    OBVIOUS
  <2>2. s % 8 \in 0..7 /\ d % 8 \in 0..7
    OBVIOUS
  <2> HIDE DEF r, b
  <2>3. modrm \in 192..255 /\ modrm % 8 = d % 8 /\ (modrm \div 8) % 8 = s % 8
    BY <2>1, <2>2
  <2> HIDE DEF modrm
  <2> QED BY <1>1, <2>3
<1>4. rex \in 72..77 /\ rex = 64 + 8 * 1 + 4 * r + b
  BY <1>1
<1> HIDE DEF r, b, rex, modrm
<1>5. ASSUME NEW code, NEW at \in Nat, code[at] = rex, code[at + 1] = 137, code[at + 2] = modrm
      PROVE  A64!Decode(code, at) = ins
  <2>1. A64!Decode(code, at) = A64!Opcode(code, at, at + 1, 1, 8 * r, 8 * b)
    BY <1>1, <1>4, <1>5, RexPrefix
  <2>2. A64!Opcode(code, at, at + 1, 1, 8 * r, 8 * b) =
          A64!WithRegisters(code, at, 137, at + 2, 8 * r, 8 * b)
    <3>1. (at + 1) + 1 = at + 2 /\ at + 1 \in Nat /\ code[at + 2] >= 192
      BY <1>3, <1>5
    <3> QED BY <1>5, <3>1, ModRM
  <2> QED BY <1>3, <1>5, <2>1, <2>2 DEF A64!WithRegisters
<1>6. ins.len = 3
  BY DEF A64!Ins
<1> HIDE DEF ins
<1>7. Means64(<<rex, 137, modrm>>, ins)
  BY <1>3, <1>4, <1>5, <1>6 DEF Means64, Located, ByteSeq, Byte
<1> QED BY <1>2, <1>7 DEF ins

-----------------------------------------------------------------------------
(* The stack pointer table: what encodePCSP writes the runtime reads *)

\* a number of 32 bits, and a few more
Groupable == {n \in Nat : n < 34359738368}

Digit(u, j) == u \div 128^j

\* The groups of seven bits of a number of 35, each of the rest of the one before.
LEMMA DigitFacts ==
  ASSUME NEW u \in Groupable
  PROVE  /\ Digit(u, 0) = u /\ Digit(u, 5) = 0
         /\ \A j \in 0..5 : Digit(u, j) \in Nat
         /\ \A j \in 0..4 : Digit(u, j) = (Digit(u, j) % 128) + 128 * Digit(u, j + 1)
         /\ \A j \in 0..5 : u < 128^j => Digit(u, j) = 0
<1>1. /\ 128^0 = 1 /\ 128^1 = 128 /\ 128^2 = 16384 /\ 128^3 = 2097152
      /\ 128^4 = 268435456 /\ 128^5 = 34359738368
  BY SMT
<1>2. /\ Digit(u, 0) = u \div 1 /\ Digit(u, 1) = u \div 128 /\ Digit(u, 2) = u \div 16384
      /\ Digit(u, 3) = u \div 2097152 /\ Digit(u, 4) = u \div 268435456
      /\ Digit(u, 5) = u \div 34359738368
  BY <1>1, SMT DEF Digit
<1>3. u \in Nat /\ u < 34359738368
  BY SMT DEF Groupable
<1>4. Digit(u, 0) = u /\ Digit(u, 5) = 0
  BY <1>2, <1>3, SMT
<1>5. /\ u = (u % 128) + 128 * (u \div 128)
      /\ u \div 128 = ((u \div 128) % 128) + 128 * (u \div 16384)
      /\ u \div 16384 = ((u \div 16384) % 128) + 128 * (u \div 2097152)
      /\ u \div 2097152 = ((u \div 2097152) % 128) + 128 * (u \div 268435456)
      /\ u \div 268435456 = ((u \div 268435456) % 128) + 128 * (u \div 34359738368)
  BY <1>3, SMT
<1>6. ASSUME NEW j \in 0..4 PROVE Digit(u, j) = (Digit(u, j) % 128) + 128 * Digit(u, j + 1)
  <2>1. j = 0 \/ j = 1 \/ j = 2 \/ j = 3 \/ j = 4
    OBVIOUS
  <2>2. 0 + 1 = 1 /\ 1 + 1 = 2 /\ 2 + 1 = 3 /\ 3 + 1 = 4 /\ 4 + 1 = 5
    OBVIOUS
  <2> QED BY <1>2, <1>4, <1>5, <2>1, <2>2, SMT
<1>7. ASSUME NEW j \in 0..5 PROVE Digit(u, j) \in Nat /\ (u < 128^j => Digit(u, j) = 0)
  <2>1. j = 0 \/ j = 1 \/ j = 2 \/ j = 3 \/ j = 4 \/ j = 5
    OBVIOUS
  <2>2. /\ u \div 128 \in Nat /\ u \div 16384 \in Nat /\ u \div 2097152 \in Nat
        /\ u \div 268435456 \in Nat
        /\ (u < 1 => u = 0) /\ (u < 128 => u \div 128 = 0) /\ (u < 16384 => u \div 16384 = 0)
        /\ (u < 2097152 => u \div 2097152 = 0) /\ (u < 268435456 => u \div 268435456 = 0)
    BY <1>3, SMT
  <2>3. CASE j = 0
    BY <1>1, <1>3, <1>4, <2>2, <2>3, SMT
  <2>4. CASE j = 1
    BY <1>1, <1>2, <2>2, <2>4, SMT
  <2>5. CASE j = 2
    BY <1>1, <1>2, <2>2, <2>5, SMT
  <2>6. CASE j = 3
    BY <1>1, <1>2, <2>2, <2>6, SMT
  <2>7. CASE j = 4
    BY <1>1, <1>2, <2>2, <2>7, SMT
  <2>8. CASE j = 5
    BY <1>4, <2>8, SMT
  <2> QED BY <2>1, <2>3, <2>4, <2>5, <2>6, <2>7, <2>8
<1> QED BY <1>4, <1>6, <1>7

\* encodePCSP writes a number in as many bytes as it has groups, all but the last marked.
LEMMA VarintFacts ==
  ASSUME NEW u \in Groupable
  PROVE  /\ PCTab!Groups(u) \in 1..5 /\ PCTab!Varint(u) \in ByteSeq
         /\ Len(PCTab!Varint(u)) = PCTab!Groups(u) /\ Digit(u, PCTab!Groups(u)) = 0
         /\ \A i \in 1..PCTab!Groups(u) :
              /\ PCTab!Varint(u)[i] % 128 = Digit(u, i - 1) % 128
              /\ PCTab!Varint(u)[i] >= 128 <=> i < PCTab!Groups(u)
<1> DEFINE n == PCTab!Groups(u)
           v == PCTab!Varint(u)
<1>1. n \in 1..5 /\ u < 128^n
  <2>1. /\ 128^0 = 1 /\ 128^1 = 128 /\ 128^2 = 16384 /\ 128^3 = 2097152
        /\ 128^4 = 268435456 /\ 128^5 = 34359738368
    BY SMT
  <2>2. u \in Nat /\ u < 34359738368
    BY SMT DEF Groupable
  <2>3. 2 - 1 = 1 /\ 3 - 1 = 2 /\ 4 - 1 = 3 /\ 5 - 1 = 4
    OBVIOUS
  <2>4. \E k \in 1..5 : u < 128^k /\ (k = 1 \/ u >= 128^(k - 1))
    <3>1. CASE u < 128
      BY <2>1, <3>1, SMT
    <3>2. CASE u >= 128 /\ u < 16384
      BY <2>1, <2>3, <3>2, SMT
    <3>3. CASE u >= 16384 /\ u < 2097152
      BY <2>1, <2>3, <3>3, SMT
    <3>4. CASE u >= 2097152 /\ u < 268435456
      BY <2>1, <2>3, <3>4, SMT
    <3>5. CASE u >= 268435456
      BY <2>1, <2>2, <2>3, <3>5, SMT
    <3> QED BY SMT, <2>2, <3>1, <3>2, <3>3, <3>4, <3>5
  <2>5. n \in 1..5 /\ u < 128^n /\ (n = 1 \/ u >= 128^(n - 1))
    BY <2>4, Zenon DEF PCTab!Groups
  <2> QED BY <2>5
<1>2. v = [i \in 1..n |-> (Digit(u, i - 1) % 128) + (IF i < n THEN 128 ELSE 0)]
  BY DEF PCTab!Varint, Digit
<1> HIDE DEF n, v
<1>3. \A i \in 1..n : i - 1 \in 0..5 /\ Digit(u, i - 1) \in Nat
  <2>1. \A i \in 1..n : i - 1 \in 0..5
    BY <1>1
  <2>2. \A j \in 0..5 : Digit(u, j) \in Nat
    BY DigitFacts
  <2> QED BY <2>1, <2>2
<1>4. \A i \in 1..n : Digit(u, i - 1) % 128 \in 0..127
  BY <1>3
<1>5. ASSUME NEW i \in 1..n
      PROVE  v[i] \in Byte /\ v[i] % 128 = Digit(u, i - 1) % 128 /\ (v[i] >= 128 <=> i < n)
  <2>1. PICK d : d = Digit(u, i - 1) % 128
    OBVIOUS
  <2>2. d \in 0..127
    BY <1>4, <2>1
  <2>3. v[i] = d + (IF i < n THEN 128 ELSE 0)
    BY <1>2, <2>1
  <2>4. CASE i < n
    BY <2>1, <2>2, <2>3, <2>4 DEF Byte
  <2>5. CASE ~(i < n)
    BY <2>1, <2>2, <2>3, <2>5 DEF Byte
  <2> QED BY <2>4, <2>5
<1>6. v \in [1..n -> Byte]
  <2> DEFINE e(i) == (Digit(u, i - 1) % 128) + (IF i < n THEN 128 ELSE 0)
  <2>1. v = [i \in 1..n |-> e(i)] /\ \A i \in 1..n : v[i] \in Byte
    BY <1>2, <1>5
  <2> HIDE DEF e
  <2> QED BY <2>1
<1>7. n \in Nat
  BY <1>1
<1>8. v \in Seq(Byte) /\ Len(v) = n
  BY <1>6, <1>7, LenProperties
<1>9. Digit(u, n) = 0
  <2>1. n \in 0..5
    BY <1>1
  <2>2. \A j \in 0..5 : u < 128^j => Digit(u, j) = 0
    BY DigitFacts
  <2> QED BY <1>1, <2>1, <2>2, Zenon
<1> QED BY <1>1, <1>5, <1>8, <1>9 DEF n, v, ByteSeq

\* the number u is written in tab at position at
Written7(tab, at, u) ==
  /\ at \in Nat /\ Len(tab) \in Nat /\ u \in Groupable /\ Located(tab, at, PCTab!Varint(u))
  /\ at + Len(PCTab!Varint(u)) - 1 <= Len(tab)

\* at i the first byte that is not marked
Unmarked(tab, at, i) == tab[i] < 128 /\ \A j \in at..i - 1 : tab[j] >= 128

\* readvarint reads the number that was written.
LEMMA ReadVarintFacts ==
  ASSUME NEW tab, NEW at, NEW u, Written7(tab, at, u)
  PROVE  /\ PCTab!ReadVarint(tab, at).n = u
         /\ PCTab!ReadVarint(tab, at).next = at + Len(PCTab!Varint(u))
<1> DEFINE n == PCTab!Groups(u)
           last == CHOOSE i \in at..Len(tab) : Unmarked(tab, at, i)
           Body(g, i) == (tab[i] % 128) + (IF i = last THEN 0 ELSE 128 * g[i + 1])
           Solves(g) == g = [i \in at..last |-> Body(g, i)]
           value == CHOOSE g : Solves(g)
<1>0. /\ at \in Nat /\ Len(tab) \in Nat /\ u \in Groupable /\ Located(tab, at, PCTab!Varint(u))
      /\ at + Len(PCTab!Varint(u)) - 1 <= Len(tab)
  BY DEF Written7
<1>1. /\ n \in 1..5 /\ Len(PCTab!Varint(u)) = n /\ Digit(u, n) = 0 /\ PCTab!Varint(u) \in ByteSeq
      /\ \A i \in 1..n : /\ PCTab!Varint(u)[i] % 128 = Digit(u, i - 1) % 128
                         /\ PCTab!Varint(u)[i] >= 128 <=> i < n
  BY <1>0, VarintFacts
<1> HIDE DEF n
<1>a. n \in Nat /\ n >= 1 /\ n <= 5 /\ at \in Nat
  BY <1>0, <1>1
<1>2. ASSUME NEW i \in 1..n
      PROVE  /\ tab[at + i - 1] \in 0..255 /\ tab[at + i - 1] % 128 = Digit(u, i - 1) % 128
             /\ tab[at + i - 1] >= 128 <=> i < n
  <2>1. tab[at + i - 1] = PCTab!Varint(u)[i]
    BY <1>0, <1>1 DEF Located
  <2>2. PCTab!Varint(u)[i] \in 0..255
    <3>1. PCTab!Varint(u) \in Seq(Byte) /\ i \in 1..Len(PCTab!Varint(u))
      BY <1>1 DEF ByteSeq
    <3>2. PCTab!Varint(u)[i] \in Byte
      BY <3>1, ElementOfSeq
    <3> QED BY <3>2 DEF Byte
  <2> QED BY <1>1, <2>1, <2>2
<1>3. at + n - 1 \in at..Len(tab) /\ Unmarked(tab, at, at + n - 1)
  <2>1. at + n - 1 \in at..Len(tab)
    BY <1>0, <1>1, <1>a
  <2>2. tab[at + n - 1] < 128
    <3>1. n \in 1..n
      BY <1>a
    <3>2. tab[at + n - 1] \in 0..255 /\ ~(tab[at + n - 1] >= 128)
      BY <1>2, <3>1, <1>a
    <3> QED BY <3>2
  <2>3. ASSUME NEW j \in at..(at + n - 1) - 1 PROVE tab[j] >= 128
    <3>1. PICK i : i = j - at + 1
      OBVIOUS
    <3>2. i \in 1..n /\ i < n /\ at + i - 1 = j
      BY <1>a, <3>1
    <3>3. tab[at + i - 1] >= 128
      BY <1>2, <3>2
    <3> QED BY <3>2, <3>3, Zenon
  <2> QED BY <2>1, <2>2, <2>3, Zenon DEF Unmarked
<1>4. ASSUME NEW i \in at..Len(tab), Unmarked(tab, at, i) PROVE i = at + n - 1
  <2>1. CASE i < at + n - 1
    <3>1. PICK k : k = i - at + 1
      OBVIOUS
    <3>2. k \in 1..n /\ k < n /\ at + k - 1 = i
      BY <1>0, <1>a, <2>1, <3>1
    <3>3. tab[at + k - 1] >= 128 /\ tab[at + k - 1] \in 0..255
      BY <1>2, <3>2
    <3>4. tab[i] < 128
      BY <1>4 DEF Unmarked
    <3>5. tab[i] >= 128 /\ tab[i] \in 0..255
      BY <3>2, <3>3, Zenon
    <3>6. PICK e : e = tab[i]
      OBVIOUS
    <3>7. e >= 128 /\ e < 128 /\ e \in 0..255
      BY <3>4, <3>5, <3>6, Zenon
    <3> QED BY <3>7
  <2>2. CASE i > at + n - 1
    <3>1. at + n - 1 \in at..i - 1
      BY <1>0, <1>a, <2>2
    <3>2. tab[at + n - 1] >= 128
      BY <1>4, <3>1 DEF Unmarked
    <3>3. tab[at + n - 1] < 128
      BY <1>3 DEF Unmarked
    <3>4. tab[at + n - 1] \in 0..255
      <4>1. \A k \in 1..n : tab[at + k - 1] \in 0..255
        BY <1>2
      <4>2. n \in 1..n
        BY <1>a
      <4> QED BY <4>1, <4>2, Zenon
    <3>5. PICK e : e = tab[at + n - 1]
      OBVIOUS
    <3>6. e >= 128 /\ e < 128 /\ e \in 0..255
      BY <3>2, <3>3, <3>4, <3>5, Zenon
    <3> QED BY <3>6
  <2> QED BY <1>0, <1>a, <2>1, <2>2
<1>5. last = at + n - 1
  <2>1. last \in at..Len(tab) /\ Unmarked(tab, at, last)
    BY <1>3
  <2> QED BY <1>4, <2>1
<1> HIDE DEF last
<1>6. \A j \in 0..4 : Digit(u, j) = (Digit(u, j) % 128) + 128 * Digit(u, j + 1)
  BY <1>0, DigitFacts
<1>7. \A j \in 0..5 : Digit(u, j) \in Nat
  BY <1>0, DigitFacts
<1>8. ASSUME NEW i \in at..last
      PROVE  Digit(u, i - at) = (tab[i] % 128) + (IF i = last THEN 0 ELSE 128 * Digit(u, i - at + 1))
  <2>1. PICK k : k = i - at + 1
    OBVIOUS
  <2>2. k \in 1..n /\ at + k - 1 = i /\ i - at = k - 1 /\ k - 1 \in 0..4 /\ (i = last <=> k = n)
        /\ k - 1 + 1 = k
    BY <1>5, <1>a, <2>1
  <2>3. tab[i] % 128 = Digit(u, k - 1) % 128
    BY <1>2, <2>2
  <2>4. Digit(u, k - 1) = (Digit(u, k - 1) % 128) + 128 * Digit(u, k - 1 + 1)
    BY <1>6, <2>2
  <2>5. CASE i = last
    <3>1. Digit(u, k - 1 + 1) = 0
      BY <1>1, <2>2, <2>5
    <3>2. Digit(u, k - 1) \in Nat
      BY <1>7, <2>2
    <3> QED BY <2>2, <2>3, <2>4, <2>5, <3>1, <3>2
  <2>6. CASE i # last
    BY <2>2, <2>3, <2>4, <2>6
  <2> QED BY <2>5, <2>6
<1>9. Solves([i \in at..last |-> Digit(u, i - at)])
  <2> DEFINE g == [i \in at..last |-> Digit(u, i - at)]
  <2>1. ASSUME NEW i \in at..last PROVE g[i] = Body(g, i)
    <3>1. CASE i = last
      BY <1>8, <3>1
    <3>2. CASE i # last
      <4>1. i + 1 \in at..last /\ (i + 1) - at = i - at + 1
        BY <1>5, <1>a, <3>2
      <4>2. g[i + 1] = Digit(u, i - at + 1)
        <5>1. \A j \in at..last : g[j] = Digit(u, j - at)
          OBVIOUS
        <5>2. g[i + 1] = Digit(u, (i + 1) - at)
          <6> HIDE DEF g
          <6> QED BY <4>1, <5>1, Zenon
        <5> HIDE DEF g
        <5> QED BY <4>1, <5>2
      <4> HIDE DEF g
      <4>3. Digit(u, i - at) = (tab[i] % 128) + 128 * g[i + 1]
        BY <1>8, <3>2, <4>2
      <4> QED BY <3>2, <4>3 DEF g
    <3> QED BY <3>1, <3>2
  <2>2. g = [i \in at..last |-> g[i]]
    OBVIOUS
  <2> HIDE DEF g, Body
  <2>3. Solves(g)
    BY <2>1, <2>2
  <2> QED BY <2>3 DEF g
<1>10. Solves(value)
  <2> HIDE DEF Solves
  <2> QED BY <1>9
<1>11. \A i \in at..last : value[i] = Body(value, i)
  <2> HIDE DEF value, Body
  <2> QED BY <1>10
<1> HIDE DEF value
<1>12. value[at] = Digit(u, 0)
  <2> DEFINE m == n - 1
             T == {k \in 0..m : value[last - k] = Digit(u, m - k)}
  <2>1. m \in Nat /\ last = at + m /\ m + 1 = n /\ m <= 4
    BY <1>5, <1>a
  <2> HIDE DEF m
  <2>2. 0 \in T
    <3>1. last \in at..last /\ last - 0 = last /\ last - at = m /\ m - 0 = m /\ 0 \in 0..m
      BY <1>a, <2>1
    <3>2. value[last] = (tab[last] % 128) + 0
      BY <1>11, <3>1
    <3>3. Digit(u, m) = (tab[last] % 128) + 0
      BY <1>8, <3>1
    <3> QED BY <3>1, <3>2, <3>3
  <2>3. ASSUME NEW k \in 0..m - 1, k \in T PROVE k + 1 \in T
    <3>1. PICK i : i = last - (k + 1)
      OBVIOUS
    <3>2. /\ i \in at..last /\ i # last /\ i + 1 = last - k /\ i - at + 1 = m - k
          /\ i - at = m - (k + 1) /\ k + 1 \in 0..m
      BY <1>a, <2>1, <3>1
    <3>3. value[last - k] = Digit(u, m - k)
      BY <2>3
    <3>4. value[i] = (tab[i] % 128) + 128 * value[i + 1]
      BY <1>11, <3>2
    <3>5. Digit(u, i - at) = (tab[i] % 128) + 128 * Digit(u, i - at + 1)
      BY <1>8, <3>2
    <3>6. value[last - (k + 1)] = Digit(u, m - (k + 1))
      BY <3>1, <3>2, <3>3, <3>4, <3>5
    <3> QED BY <3>2, <3>6
  <2>4. \A k \in 0..m - 1 : k \in T => k + 1 \in T
    BY <2>3
  <2>5. 0..m \subseteq T
    <3> HIDE DEF T
    <3> QED BY <2>1, <2>2, <2>4, BoundedInduction
  <2>6. m \in T /\ last - m = at /\ m - m = 0
    BY <1>a, <2>1, <2>5
  <2> QED BY <2>6
<1>13. Digit(u, 0) = u
  BY <1>0, DigitFacts
<1>14. PCTab!ReadVarint(tab, at) = [n |-> value[at], next |-> last + 1]
  BY Zenon DEF PCTab!ReadVarint, value, last, Unmarked
<1>15. last + 1 = at + n
  BY <1>5, <1>a
<1> QED BY <1>1, <1>12, <1>13, <1>14, <1>15

\* the bound and the value of the k-th entry; before the first, those the runtime starts with
UpTo(E, k) == IF k = 0 THEN 0 ELSE E[k].pc

Value(E, k) == IF k = 0 THEN -1 ELSE E[k].spdelta

\* what the table says of an entry
ValueCode(E, i) == PCTab!ZigZag(Value(E, i) - Value(E, i - 1))

PCCode(E, i) == UpTo(E, i) - UpTo(E, i - 1)

Pairs(E) == [i \in DOMAIN E |-> PCTab!Varint(ValueCode(E, i)) \o PCTab!Varint(PCCode(E, i))]

\* a table the format can hold: bounds ascend, and no entry but the first says zero
Tabulated(E) ==
  /\ E \in Seq([pc : Nat, spdelta : Int]) /\ E # <<>>
  /\ \A i \in 1..Len(E) : /\ UpTo(E, i - 1) < UpTo(E, i) /\ PCCode(E, i) \in Groupable
                          /\ ValueCode(E, i) \in Groupable
                          /\ i # 1 => Value(E, i) # Value(E, i - 1)

\* The sign goes to the lowest bit and back.
LEMMA ZigZagFacts ==
  ASSUME NEW n \in Int
  PROVE  PCTab!ZigZag(n) \in Nat /\ PCTab!UnZigZag(PCTab!ZigZag(n)) = n /\ (PCTab!ZigZag(n) = 0 => n = 0)
<1>1. CASE n >= 0
  <2>1. PCTab!ZigZag(n) = 2 * n
    BY <1>1 DEF PCTab!ZigZag
  <2>2. (2 * n) % 2 = 0 /\ (2 * n) \div 2 = n
    BY <1>1
  <2> QED BY <1>1, <2>1, <2>2 DEF PCTab!UnZigZag
<1>2. CASE n < 0
  <2>1. PICK k : k = -n
    OBVIOUS
  <2>2. k \in Nat /\ k >= 1 /\ n = -k /\ -2 * n - 1 = 2 * k - 1
    BY <1>2, <2>1
  <2>3. PCTab!ZigZag(n) = 2 * k - 1
    BY <1>2, <2>2 DEF PCTab!ZigZag
  <2>4. (2 * k - 1) % 2 = 1 /\ (2 * k - 1) \div 2 = k - 1 /\ 2 * k - 1 \in Nat /\ 2 * k - 1 # 0
    BY <2>2
  <2>5. PCTab!UnZigZag(2 * k - 1) = -(k - 1) - 1
    BY <2>4 DEF PCTab!UnZigZag
  <2> QED BY <2>2, <2>3, <2>4, <2>5
<1> QED BY <1>1, <1>2

\* The bounds of a table, from 0 on, ascend.
LEMMA EntryFacts ==
  ASSUME NEW E, Tabulated(E)
  PROVE  /\ Len(E) \in Nat /\ Len(E) # 0 /\ DOMAIN E = 1..Len(E)
         /\ UpTo(E, 0) = 0 /\ Value(E, 0) = -1
         /\ \A k \in 0..Len(E) : UpTo(E, k) \in Nat /\ Value(E, k) \in Int
         /\ \A k \in 1..Len(E) : UpTo(E, k) = E[k].pc /\ Value(E, k) = E[k].spdelta
         /\ \A k \in 0..Len(E) : \A j \in 0..k : UpTo(E, j) <= UpTo(E, k)
<1> DEFINE n == Len(E)
           S == [pc : Nat, spdelta : Int]
<1>1. E \in Seq(S) /\ E # <<>> /\ \A i \in 1..n : UpTo(E, i - 1) < UpTo(E, i)
  BY DEF Tabulated
<1>2. n \in Nat /\ n # 0 /\ DOMAIN E = 1..n
  <2> HIDE DEF S
  <2> QED BY <1>1, EmptySeq, LenProperties
<1>3. \A k \in 1..n : E[k].pc \in Nat /\ E[k].spdelta \in Int
  <2>1. \A k \in 1..n : E[k] \in S
    <3> HIDE DEF S
    <3> QED BY <1>1, ElementOfSeq
  <2> QED BY <2>1
<1> HIDE DEF n
<1>4. /\ UpTo(E, 0) = 0 /\ Value(E, 0) = -1
      /\ \A k \in 1..n : UpTo(E, k) = E[k].pc /\ Value(E, k) = E[k].spdelta
  BY <1>2 DEF UpTo, Value
<1>5. ASSUME NEW k \in 0..n PROVE UpTo(E, k) \in Nat /\ Value(E, k) \in Int
  <2>1. k = 0 \/ k \in 1..n
    BY <1>2
  <2> QED BY <1>3, <1>4, <2>1
<1> DEFINE Below1(k) == \A j \in 0..k : UpTo(E, j) <= UpTo(E, k)
           T == {k \in 0..n : Below1(k)}
<1>6. 0 \in T
  <2>1. \A j \in 0..0 : j = 0
    OBVIOUS
  <2>2. UpTo(E, 0) <= UpTo(E, 0) /\ 0 \in 0..n
    BY <1>2, <1>4
  <2>3. Below1(0)
    BY <2>1, <2>2
  <2> HIDE DEF Below1
  <2> QED BY <2>2, <2>3
<1>7. ASSUME NEW k \in 0..n - 1, k \in T PROVE k + 1 \in T
  <2>1. k \in Nat /\ k + 1 \in 1..n /\ k + 1 \in 0..n /\ (k + 1) - 1 = k /\ k \in 0..n
    BY <1>2
  <2>2. UpTo(E, k) < UpTo(E, k + 1)
    <3>1. \A i \in 1..n : UpTo(E, i - 1) < UpTo(E, i)
      BY <1>1 DEF n
    <3>2. UpTo(E, (k + 1) - 1) < UpTo(E, k + 1)
      BY <2>1, <3>1, Zenon
    <3> QED BY <2>1, <3>2
  <2>3. ASSUME NEW j \in 0..k + 1 PROVE UpTo(E, j) <= UpTo(E, k + 1)
    <3>1. CASE j = k + 1
      BY <1>5, <2>1, <3>1
    <3>2. CASE j # k + 1
      <4>a. k \in Nat /\ n \in Nat /\ k + 1 <= n
        BY <1>2, <2>1
      <4>1. j \in 0..k /\ j \in 0..n
        BY <4>a, <3>2
      <4>2. UpTo(E, j) <= UpTo(E, k)
        BY <1>7, <4>1
      <4>3. UpTo(E, j) \in Nat /\ UpTo(E, k) \in Nat /\ UpTo(E, k + 1) \in Nat
        BY <1>5, <2>1, <4>1
      <4> QED BY <2>2, <4>2, <4>3
    <3> QED BY <3>1, <3>2
  <2> QED BY <2>1, <2>3
<1>8. \A k \in 0..n - 1 : k \in T => k + 1 \in T
  BY <1>7
<1>9. 0..n \subseteq T
  <2> HIDE DEF T
  <2> QED BY <1>2, <1>6, <1>8, BoundedInduction
<1>10. \A k \in 0..n : Below1(k)
  <2> HIDE DEF Below1
  <2> QED BY <1>9
<1> QED BY <1>2, <1>4, <1>5, <1>10 DEF n

\* The table is its pairs, and a zero.
LEMMA EncodesPairs ==
  ASSUME NEW E, Tabulated(E)
  PROVE  EncodePCSP(E) = FlattenSeq(Pairs(E)) \o <<0>>
<1>1. Len(E) \in Nat /\ DOMAIN E = 1..Len(E) /\ Len(E) # 0
  BY EntryFacts
<1> DEFINE p == [i \in DOMAIN E |->
                   IF i = 1 THEN PCTab!EncodeEntry(E[1], -1, 0)
                   ELSE PCTab!EncodeEntry(E[i], E[i - 1].spdelta, E[i - 1].pc)]
<1>2. ASSUME NEW i \in DOMAIN E PROVE p[i] = Pairs(E)[i]
  <2>1. CASE i = 1
    <3>1. p[i] = PCTab!Varint(PCTab!ZigZag(E[1].spdelta - (-1))) \o PCTab!Varint(E[1].pc - 0)
      BY <2>1 DEF PCTab!EncodeEntry
    <3>2. Value(E, i) = E[1].spdelta /\ Value(E, i - 1) = -1 /\ UpTo(E, i) = E[1].pc /\ UpTo(E, i - 1) = 0
      BY <2>1 DEF Value, UpTo
    <3> QED BY <3>1, <3>2 DEF Pairs, ValueCode, PCCode
  <2>2. CASE i # 1
    <3>1. p[i] = PCTab!Varint(PCTab!ZigZag(E[i].spdelta - E[i - 1].spdelta)) \o PCTab!Varint(E[i].pc - E[i - 1].pc)
      BY <2>2 DEF PCTab!EncodeEntry
    <3>2. i # 0 /\ i - 1 # 0
      BY <1>1, <2>2
    <3>3. Value(E, i) = E[i].spdelta /\ Value(E, i - 1) = E[i - 1].spdelta /\ UpTo(E, i) = E[i].pc
          /\ UpTo(E, i - 1) = E[i - 1].pc
      BY <3>2 DEF Value, UpTo
    <3> QED BY <3>1, <3>3 DEF Pairs, ValueCode, PCCode
  <2> QED BY <2>1, <2>2
<1>3. p = [i \in DOMAIN E |-> p[i]] /\ Pairs(E) = [i \in DOMAIN E |-> Pairs(E)[i]]
  BY DEF Pairs
<1>4. p = Pairs(E)
  <2> HIDE DEF p
  <2> QED BY <1>2, <1>3
<1> QED BY <1>4 DEF EncodePCSP, PCTab!EncodedPairs

\* Each number of the table is where the runtime looks for it.
LEMMA PairsWritten ==
  ASSUME NEW E, Tabulated(E), NEW tab, tab = EncodePCSP(E), NEW p, p = Pairs(E)
  PROVE  /\ Len(tab) \in Nat /\ Len(E) <= Len(tab) /\ Offset(p, 0) = 0
         /\ \A i \in 1..Len(E) :
              /\ Written7(tab, Offset(p, i - 1) + 1, ValueCode(E, i))
              /\ Written7(tab, Offset(p, i - 1) + 1 + Len(PCTab!Varint(ValueCode(E, i))), PCCode(E, i))
              /\ Offset(p, i - 1) + 1 + Len(PCTab!Varint(ValueCode(E, i))) + Len(PCTab!Varint(PCCode(E, i)))
                   = Offset(p, i) + 1
<1> DEFINE n == Len(E)
           flat == FlattenSeq(p)
           a(i) == PCTab!Varint(ValueCode(E, i))
           b(i) == PCTab!Varint(PCCode(E, i))
<1>1. n \in Nat /\ n # 0 /\ DOMAIN E = 1..n
  BY EntryFacts
<1>2. ASSUME NEW i \in 1..n
      PROVE  /\ ValueCode(E, i) \in Groupable /\ PCCode(E, i) \in Groupable
             /\ a(i) \in ByteSeq /\ Len(a(i)) \in 1..5 /\ b(i) \in ByteSeq /\ Len(b(i)) \in 1..5
             /\ p[i] = a(i) \o b(i)
  <2>1. ValueCode(E, i) \in Groupable /\ PCCode(E, i) \in Groupable
    BY DEF Tabulated
  <2>2. a(i) \in ByteSeq /\ Len(a(i)) \in 1..5
    BY <2>1, VarintFacts
  <2>3. b(i) \in ByteSeq /\ Len(b(i)) \in 1..5
    BY <2>1, VarintFacts
  <2>4. p[i] = a(i) \o b(i)
    BY <1>1 DEF Pairs
  <2> QED BY <2>1, <2>2, <2>3, <2>4
<1> HIDE DEF a, b, n
<1>3. ASSUME NEW i \in 1..n
      PROVE  /\ p[i] \in ByteSeq /\ Len(p[i]) = Len(a(i)) + Len(b(i))
             /\ \A j \in 1..Len(a(i)) : p[i][j] = a(i)[j]
             /\ \A j \in 1..Len(b(i)) : p[i][Len(a(i)) + j] = b(i)[j]
  <2>1. a(i) \in Seq(Byte) /\ b(i) \in Seq(Byte) /\ p[i] = a(i) \o b(i)
    BY <1>2 DEF ByteSeq
  <2> DEFINE s == a(i)
             t == b(i)
  <2> HIDE DEF s, t
  <2>2. s \in Seq(Byte) /\ t \in Seq(Byte) /\ p[i] = s \o t
    BY <2>1 DEF s, t
  <2>3. /\ p[i] \in Seq(Byte) /\ Len(p[i]) = Len(s) + Len(t) /\ Len(s) \in Nat /\ Len(t) \in Nat
        /\ \A k \in 1..Len(s) + Len(t) : p[i][k] = IF k <= Len(s) THEN s[k] ELSE t[k - Len(s)]
    BY <2>2, ConcatProperties, LenProperties
  <2>4. \A j \in 1..Len(s) : p[i][j] = s[j]
    BY <2>3
  <2>5. ASSUME NEW j \in 1..Len(t) PROVE p[i][Len(s) + j] = t[j]
    <3>1. Len(s) + j \in 1..Len(s) + Len(t) /\ ~(Len(s) + j <= Len(s)) /\ (Len(s) + j) - Len(s) = j
      BY <2>3
    <3> QED BY <2>3, <3>1
  <2> QED BY <2>3, <2>4, <2>5 DEF s, t, ByteSeq
<1>4. /\ p \in Seq(Seq(Byte)) /\ Len(p) = n /\ p # <<>>
  <2>1. p = [i \in 1..n |-> p[i]]
    <3>1. Pairs(E) = [i \in DOMAIN E |-> Pairs(E)[i]]
      BY DEF Pairs
    <3> QED BY <1>1, <3>1
  <2>2. \A i \in 1..n : p[i] \in Seq(Byte)
    BY <1>3 DEF ByteSeq
  <2>3. p \in [1..n -> Seq(Byte)]
    BY <2>1, <2>2, Zenon
  <2>4. p \in Seq(Seq(Byte))
    BY <1>1, <2>3
  <2>5. Len(p) = n
    BY <1>1, <2>3, <2>4, LenProperties
  <2> QED BY <1>1, <2>4, <2>5, EmptySeq
<1>5. flat = FlattenSeq(p)
  OBVIOUS
<1> HIDE DEF flat
<1>6. /\ flat \in Seq(Byte) /\ Len(flat) = Offset(p, n)
      /\ \A k \in 1..n : \A i \in 1..Len(p[k]) : flat[Offset(p, k - 1) + i] = p[k][i]
  BY <1>4, <1>5, FlattenFacts
<1>7. /\ Offset(p, 0) = 0 /\ (\A k \in 0..n : Offset(p, k) \in Nat)
      /\ \A k \in 1..n : Offset(p, k) = Offset(p, k - 1) + Len(p[k])
  BY <1>4, OffsetFacts
<1>8. tab = flat \o <<0>>
  BY EncodesPairs DEF flat
<1>9. Len(tab) = Len(flat) + 1 /\ \A k \in 1..Len(flat) : tab[k] = flat[k]
  BY <1>6, <1>8
<1> DEFINE off(k) == Offset(p, k)
           T == {k \in 0..n : off(k) >= k}
<1>10. \A k \in 0..n : off(k) >= k
  <2>1. 0 \in T
    BY <1>1, <1>7
  <2>2. ASSUME NEW k \in 0..n - 1, k \in T PROVE k + 1 \in T
    <3>1. k + 1 \in 1..n /\ k + 1 \in 0..n /\ (k + 1) - 1 = k /\ k \in 0..n /\ k \in Nat
      BY <1>1
    <3>2. off(k + 1) = off(k) + Len(p[k + 1])
      BY <1>7, <3>1
    <3>3. Len(p[k + 1]) \in Nat /\ Len(p[k + 1]) >= 1
      <4>1. PICK j : j = k + 1
        OBVIOUS
      <4>2. Len(p[j]) = Len(a(j)) + Len(b(j)) /\ Len(a(j)) \in 1..5 /\ Len(b(j)) \in 1..5
        BY <1>2, <1>3, <3>1, <4>1
      <4>a. PICK x \in 1..5, y \in 1..5 : Len(p[j]) = x + y
        BY <4>2
      <4>3. Len(p[j]) \in Nat /\ Len(p[j]) >= 1
        BY <4>a
      <4> QED BY <4>1, <4>3
    <3>4. off(k) \in Nat /\ off(k) >= k
      BY <1>7, <2>2, <3>1
    <3> QED BY <3>1, <3>2, <3>3, <3>4
  <2>3. \A k \in 0..n - 1 : k \in T => k + 1 \in T
    BY <2>2
  <2>4. 0..n \subseteq T
    <3> HIDE DEF T
    <3> QED BY <1>1, <2>1, <2>3, BoundedInduction
  <2> QED BY <2>4
<1> DEFINE U == {k \in 0..n : off(n - k) <= off(n)}
<1>11. \A k \in 0..n : off(k) <= off(n)
  <2>1. 0 \in U
    BY <1>1, <1>7
  <2>2. ASSUME NEW k \in 0..n - 1, k \in U PROVE k + 1 \in U
    <3>1. PICK j : j = n - k
      OBVIOUS
    <3>2. j \in 1..n /\ j \in 0..n /\ j - 1 \in 0..n /\ n - (k + 1) = j - 1 /\ n \in 0..n /\ k + 1 \in 0..n
      BY <1>1, <3>1
    <3>3. off(j) = off(j - 1) + Len(p[j])
      BY <1>7, <3>2
    <3>4. Len(p[j]) \in Nat
      BY <1>2, <1>3, <3>2
    <3>5. off(j) <= off(n)
      BY <2>2, <3>1
    <3>6. off(j) \in Nat /\ off(j - 1) \in Nat /\ off(n) \in Nat
      BY <1>7, <3>2
    <3> HIDE DEF off
    <3> QED BY <3>2, <3>3, <3>4, <3>5, <3>6
  <2>3. \A k \in 0..n - 1 : k \in U => k + 1 \in U
    BY <2>2
  <2>4. 0..n \subseteq U
    <3> HIDE DEF U
    <3> QED BY <1>1, <2>1, <2>3, BoundedInduction
  <2>5. ASSUME NEW k \in 0..n PROVE off(k) <= off(n)
    <3>1. n - k \in 0..n /\ n - (n - k) = k
      BY <1>1
    <3>2. off(n - (n - k)) <= off(n)
      BY <2>4, <3>1
    <3> QED BY <3>1, <3>2
  <2> QED BY <2>5
<1>12. Len(tab) \in Nat /\ n <= Len(tab)
  <2>1. n \in 0..n /\ off(n) \in Nat /\ off(n) >= n
    BY <1>1, <1>7, <1>10
  <2> QED BY <1>1, <1>6, <1>9, <2>1
<1>13. ASSUME NEW i \in 1..n
       PROVE  /\ Written7(tab, off(i - 1) + 1, ValueCode(E, i))
              /\ Written7(tab, off(i - 1) + 1 + Len(a(i)), PCCode(E, i))
              /\ off(i - 1) + 1 + Len(a(i)) + Len(b(i)) = off(i) + 1
  <2>1. /\ off(i - 1) \in Nat /\ off(i) \in Nat /\ off(i) = off(i - 1) + Len(p[i]) /\ off(i) <= Len(flat)
        /\ Len(flat) \in Nat
    <3>1. i \in 0..n /\ i - 1 \in 0..n /\ n \in 0..n
      BY <1>1
    <3> QED BY <1>6, <1>7, <1>11, <3>1
  <2>2. /\ Len(a(i)) \in Nat /\ Len(b(i)) \in Nat /\ Len(p[i]) = Len(a(i)) + Len(b(i))
        /\ ValueCode(E, i) \in Groupable /\ PCCode(E, i) \in Groupable
    BY <1>2, <1>3
  <2> DEFINE o == off(i - 1)
             la == Len(a(i))
             lb == Len(b(i))
  <2>3. ASSUME NEW j \in 1..Len(p[i]) PROVE tab[o + j] = p[i][j]
    <3>1. flat[o + j] = p[i][j]
      BY <1>6
    <3>2. o + j \in 1..Len(flat)
      BY <2>1, <2>2
    <3> QED BY <1>9, <3>1, <3>2
  <2>4. ASSUME NEW j \in 1..la PROVE tab[o + 1 + j - 1] = a(i)[j]
    <3>1. j \in 1..Len(p[i]) /\ o + 1 + j - 1 = o + j
      BY <2>1, <2>2
    <3>2. p[i][j] = a(i)[j]
      BY <1>3
    <3> QED BY <2>3, <3>1, <3>2
  <2>5. ASSUME NEW j \in 1..lb PROVE tab[o + 1 + la + j - 1] = b(i)[j]
    <3>1. la + j \in 1..Len(p[i]) /\ o + 1 + la + j - 1 = o + (la + j)
      BY <2>1, <2>2
    <3>2. p[i][la + j] = b(i)[j]
      BY <1>3
    <3> QED BY <2>3, <3>1, <3>2
  <2>6. /\ o + 1 \in Nat /\ o + 1 + la \in Nat /\ o + 1 + la - 1 <= Len(tab) /\ Len(tab) \in Nat
        /\ o + 1 + la + lb - 1 <= Len(tab) /\ o + 1 + la + lb = off(i) + 1
    <3>1. o \in Nat /\ la \in Nat /\ lb \in Nat /\ off(i) = o + (la + lb)
      BY <2>1, <2>2
    <3>2. off(i) <= Len(flat) /\ Len(tab) = Len(flat) + 1 /\ Len(flat) \in Nat
      BY <2>1, <1>9
    <3> HIDE DEF o, la, lb, off
    <3> QED BY <3>1, <3>2
  <2>7. Written7(tab, o + 1, ValueCode(E, i))
    <3>1. Located(tab, o + 1, a(i))
      BY <2>4 DEF Located
    <3> QED BY <2>2, <2>6, <3>1 DEF Written7, a
  <2>8. Written7(tab, o + 1 + la, PCCode(E, i))
    <3>1. Located(tab, o + 1 + la, b(i))
      BY <2>5 DEF Located
    <3> HIDE DEF la, o
    <3> QED BY <2>2, <2>6, <3>1 DEF Written7, b
  <2> QED BY <2>6, <2>7, <2>8
<1> QED BY <1>7, <1>12, <1>13 DEF n, a, b

\* the reader after k pairs
Cursor(E, p, q, pcx, k) ==
  [at |-> Offset(p, k) + 1, pc |-> UpTo(E, k) * q, val |-> Value(E, k), done |-> pcx < UpTo(E, k) * q]

\* The range of the i-th entry.
InRange(E, q, i, pcx) ==
  pcx \in Nat /\ i \in 1..Len(E) /\ UpTo(E, i - 1) * q <= pcx /\ pcx < UpTo(E, i) * q

\* step takes the reader from one pair to the next.
LEMMA StepReads ==
  ASSUME NEW E, Tabulated(E), NEW q \in {1, 4}, NEW pcx, NEW i \in 1..Len(E),
         NEW j, InRange(E, q, j, pcx), i <= j
  PROVE  PCTab!Step(EncodePCSP(E), q, pcx, Cursor(E, Pairs(E), q, pcx, i - 1))
           = Cursor(E, Pairs(E), q, pcx, i)
<1> DEFINE tab == EncodePCSP(E)
           p == Pairs(E)
           c == Cursor(E, p, q, pcx, i - 1)
           u == ValueCode(E, i)
           d == PCCode(E, i)
           o == Offset(p, i - 1) + 1
           uv == PCTab!ReadVarint(tab, c.at)
           pd == PCTab!ReadVarint(tab, uv.next)
<1>1. /\ Len(E) \in Nat /\ UpTo(E, 0) = 0
      /\ \A k \in 0..Len(E) : UpTo(E, k) \in Nat /\ Value(E, k) \in Int
      /\ \A k \in 0..Len(E) : \A l \in 0..k : UpTo(E, l) <= UpTo(E, k)
  BY EntryFacts
<1>2. i - 1 \in 0..Len(E) /\ i \in 0..Len(E) /\ i \in Nat /\ i # 0
  BY <1>1
<1>3. /\ Written7(tab, o, u) /\ Written7(tab, o + Len(PCTab!Varint(u)), d)
      /\ o + Len(PCTab!Varint(u)) + Len(PCTab!Varint(d)) = Offset(p, i) + 1
  <2> HIDE DEF tab, p
  <2> QED BY PairsWritten DEF tab, p
<1>4. c.at = o /\ c.pc = UpTo(E, i - 1) * q /\ c.val = Value(E, i - 1) /\ c.done = (pcx < UpTo(E, i - 1) * q)
  BY DEF Cursor
<1> HIDE DEF c, tab, p, o, u, d
<1>5. uv.n = u /\ uv.next = o + Len(PCTab!Varint(u))
  BY <1>3, <1>4, ReadVarintFacts
<1>6. pd.n = d /\ pd.next = Offset(p, i) + 1
  BY <1>3, <1>5, ReadVarintFacts
<1> HIDE DEF uv, pd
<1>7. ~c.done
  <2>1. /\ pcx \in Nat /\ j \in 1..Len(E) /\ UpTo(E, j - 1) * q <= pcx
    BY DEF InRange
  <2>2. j - 1 \in 0..Len(E) /\ i - 1 \in 0..j - 1
    BY <1>1, <1>2, <2>1
  <2>3. UpTo(E, i - 1) <= UpTo(E, j - 1) /\ UpTo(E, i - 1) \in Nat /\ UpTo(E, j - 1) \in Nat
    BY <1>1, <1>2, <2>2
  <2> DEFINE x == UpTo(E, i - 1)
             y == UpTo(E, j - 1)
  <2> HIDE DEF x, y
  <2>4. x <= y /\ x \in Nat /\ y \in Nat /\ y * q <= pcx
    BY <2>1, <2>3 DEF x, y
  <2>5. ~(pcx < x * q)
    <3>1. CASE q = 1
      BY <2>1, <2>4, <3>1
    <3>2. CASE q = 4
      BY <2>1, <2>4, <3>2
    <3> QED BY <3>1, <3>2
  <2> QED BY <1>4, <2>5 DEF x
<1>8. ~(uv.n = 0 /\ c.pc # 0)
  <2>1. CASE i = 1
    <3>1. UpTo(E, i - 1) = 0
      BY <1>1, <2>1
    <3> QED BY <1>4, <3>1
  <2>2. CASE i # 1
    <3>1. Value(E, i) # Value(E, i - 1)
      BY <2>2 DEF Tabulated
    <3>2. PICK x : x = Value(E, i) - Value(E, i - 1)
      OBVIOUS
    <3>3. x \in Int /\ x # 0
      BY <1>1, <1>2, <3>1, <3>2
    <3>4. PCTab!ZigZag(x) # 0
      BY <3>3, ZigZagFacts
    <3> QED BY <1>5, <3>2, <3>4 DEF u, ValueCode
  <2> QED BY <2>1, <2>2
<1>9. c.val + PCTab!UnZigZag(uv.n) = Value(E, i)
  <2>1. PICK x : x = Value(E, i) - Value(E, i - 1)
    OBVIOUS
  <2>2. x \in Int /\ Value(E, i - 1) + x = Value(E, i)
    BY <1>1, <1>2, <2>1
  <2>3. PCTab!UnZigZag(PCTab!ZigZag(x)) = x
    BY <2>2, ZigZagFacts
  <2>4. uv.n = PCTab!ZigZag(x)
    BY <1>5, <2>1 DEF u, ValueCode
  <2> QED BY <1>4, <2>2, <2>3, <2>4
<1>10. c.pc + pd.n * q = UpTo(E, i) * q
  <2>1. pd.n = UpTo(E, i) - UpTo(E, i - 1)
    BY <1>6 DEF d, PCCode
  <2> DEFINE x == UpTo(E, i - 1)
             y == UpTo(E, i)
  <2>2. x \in Nat /\ y \in Nat
    BY <1>1, <1>2
  <2> HIDE DEF x, y
  <2>3. x * q + (y - x) * q = y * q
    <3>1. CASE q = 1
      BY <2>2, <3>1
    <3>2. CASE q = 4
      BY <2>2, <3>2
    <3> QED BY <3>1, <3>2
  <2> QED BY <1>4, <2>1, <2>3 DEF x, y
<1>11. PCTab!Step(tab, q, pcx, c) = [at |-> pd.next, pc |-> c.pc + pd.n * q,
          val |-> c.val + PCTab!UnZigZag(uv.n), done |-> pcx < c.pc + pd.n * q]
  BY <1>7, <1>8, Zenon DEF PCTab!Step, uv, pd
<1>12. PCTab!Step(tab, q, pcx, c) = Cursor(E, p, q, pcx, i)
  BY <1>6, <1>9, <1>10, <1>11 DEF Cursor
<1> QED BY <1>12 DEF tab, p, c

\* The runtime reads, in the range of each entry, the value of that entry.
THEOREM TableRoundTrip ==
  ASSUME NEW E, Tabulated(E), NEW q \in {1, 4}, NEW pcx, NEW i, InRange(E, q, i, pcx)
  PROVE  PCTab!ReadPCValue(EncodePCSP(E), q, pcx) = E[i].spdelta
<1> DEFINE tab == EncodePCSP(E)
           p == Pairs(E)
           n == Len(tab)
           start == [at |-> 1, pc |-> 0, val |-> -1, done |-> FALSE]
           cur(k) == Cursor(E, p, q, pcx, k)
           Body(g, k) == IF k = 0 THEN start ELSE PCTab!Step(tab, q, pcx, g[k - 1])
           Solves(g) == g = [k \in 0..n |-> Body(g, k)]
           f == [k \in 0..n |-> IF k <= i THEN cur(k) ELSE cur(i)]
<1>1. /\ n \in Nat /\ Len(E) <= n /\ Offset(p, 0) = 0
  BY PairsWritten
<1>2. /\ Len(E) \in Nat /\ UpTo(E, 0) = 0 /\ Value(E, 0) = -1
      /\ \A k \in 1..Len(E) : Value(E, k) = E[k].spdelta
  BY EntryFacts
<1>3. /\ pcx \in Nat /\ i \in 1..Len(E) /\ pcx < UpTo(E, i) * q
  BY DEF InRange
<1>4. cur(0) = start
  <2>1. UpTo(E, 0) * q = 0 /\ ~(pcx < 0) /\ 0 + 1 = 1
    BY <1>2, <1>3
  <2>2. (pcx < UpTo(E, 0) * q) = FALSE
    BY <2>1
  <2> QED BY <1>1, <1>2, <2>1, <2>2 DEF Cursor
<1>5. ASSUME NEW k \in 1..n
      PROVE  PCTab!Step(tab, q, pcx, IF k - 1 <= i THEN cur(k - 1) ELSE cur(i)) = IF k <= i THEN cur(k) ELSE cur(i)
  <2>1. CASE k <= i
    <3>1. k - 1 <= i /\ k \in 1..Len(E)
      BY <1>1, <1>2, <1>3, <2>1
    <3>2. PCTab!Step(tab, q, pcx, cur(k - 1)) = cur(k)
      <4> HIDE DEF n
      <4> QED BY <2>1, <3>1, StepReads
    <3> HIDE DEF cur, tab
    <3> QED BY <2>1, <3>1, <3>2
  <2>2. CASE ~(k <= i)
    <3>1. (k - 1 <= i => k - 1 = i) /\ ~(k <= i)
      BY <1>1, <1>2, <1>3, <2>2
    <3>2. cur(i).done
      BY <1>3 DEF Cursor
    <3>3. PCTab!Step(tab, q, pcx, cur(i)) = cur(i)
      <4> HIDE DEF cur, tab
      <4> QED BY <3>2, Zenon DEF PCTab!Step
    <3> HIDE DEF cur, tab
    <3> QED BY <3>1, <3>3
  <2> QED BY <2>1, <2>2
<1> HIDE DEF tab, n, cur, start
<1>6. Solves(f)
  <2>1. ASSUME NEW k \in 0..n PROVE f[k] = Body(f, k)
    <3>1. CASE k = 0
      <4>1. f[0] = cur(0)
        BY <1>1, <1>2, <1>3
      <4> QED BY <1>4, <3>1, <4>1
    <3>2. CASE k # 0
      <4>1. k \in 1..n /\ k - 1 \in 0..n
        BY <1>1, <3>2
      <4>2. f[k - 1] = (IF k - 1 <= i THEN cur(k - 1) ELSE cur(i)) /\ f[k] = (IF k <= i THEN cur(k) ELSE cur(i))
        BY <4>1
      <4> HIDE DEF f
      <4>3. PCTab!Step(tab, q, pcx, f[k - 1]) = f[k]
        BY <1>5, <4>1, <4>2
      <4> QED BY <3>2, <4>3
    <3> QED BY <3>1, <3>2
  <2>2. f = [k \in 0..n |-> f[k]]
    OBVIOUS
  <2> HIDE DEF f, Body
  <2> QED BY <2>1, <2>2
<1>7. ASSUME NEW g, Solves(g) PROVE g[n] = f[n]
  <2>1. \A k \in 0..n : g[k] = Body(g, k)
    <3> HIDE DEF Body
    <3> QED BY <1>7
  <2>2. \A k \in 0..n : f[k] = Body(f, k)
    <3> HIDE DEF Body, f
    <3> QED BY <1>6
  <2> HIDE DEF f, Solves
  <2> DEFINE T == {k \in 0..n : g[k] = f[k]}
  <2>3. 0 \in T
    <3>1. 0 \in 0..n
      BY <1>1
    <3> QED BY <2>1, <2>2, <3>1
  <2>4. ASSUME NEW k \in 0..n - 1, k \in T PROVE k + 1 \in T
    <3>1. k + 1 \in 0..n /\ k + 1 # 0 /\ (k + 1) - 1 = k
      BY <1>1
    <3>2. g[k + 1] = Body(g, k + 1) /\ f[k + 1] = Body(f, k + 1)
      BY <2>1, <2>2, <3>1
    <3>3. g[k + 1] = PCTab!Step(tab, q, pcx, g[(k + 1) - 1]) /\ f[k + 1] = PCTab!Step(tab, q, pcx, f[(k + 1) - 1])
      BY <3>1, <3>2
    <3>4. g[k] = f[k]
      BY <2>4
    <3> QED BY <3>1, <3>3, <3>4
  <2>5. \A k \in 0..n - 1 : k \in T => k + 1 \in T
    BY <2>4
  <2>6. 0..n \subseteq T
    <3> HIDE DEF T
    <3> QED BY <1>1, <2>3, <2>5, BoundedInduction
  <2> QED BY <1>1, <2>6
<1> DEFINE after == CHOOSE g : Solves(g)
<1>8. Solves(after)
  <2> HIDE DEF Solves, f
  <2> QED BY <1>6
<1>9. after[n] = f[n]
  <2> HIDE DEF Solves, after, f
  <2> QED BY <1>7, <1>8
<1>10. f[n] = cur(i)
  <2>1. n \in 0..n /\ (n <= i => n = i)
    BY <1>1, <1>2, <1>3
  <2> QED BY <2>1
<1>11. PCTab!ReadPCValue(tab, q, pcx) = after[Len(tab)].val
  BY Zenon DEF PCTab!ReadPCValue, start, n
<1>12. cur(i).val = E[i].spdelta
  BY <1>2, <1>3 DEF Cursor, cur
<1> QED BY <1>9, <1>10, <1>11, <1>12 DEF tab, n

-----------------------------------------------------------------------------
(* amd64: what the processor reads in the instructions of several bytes *)

\* Bytes one after the other are found one after the other.
LEMMA LocatedConcat ==
  ASSUME NEW code, NEW at \in Nat, NEW s \in ByteSeq, NEW t \in ByteSeq
  PROVE  /\ s \o t \in ByteSeq /\ Len(s \o t) = Len(s) + Len(t) /\ Len(s) \in Nat /\ Len(t) \in Nat
         /\ Located(code, at, s \o t) =>
              Located(code, at, s) /\ Located(code, at + Len(s), t)
<1>1. /\ s \o t \in ByteSeq /\ Len(s \o t) = Len(s) + Len(t) /\ Len(s) \in Nat /\ Len(t) \in Nat
      /\ \A i \in 1..Len(s) + Len(t) : (s \o t)[i] = IF i <= Len(s) THEN s[i] ELSE t[i - Len(s)]
  BY ConcatProperties, LenProperties DEF ByteSeq
<1>2. ASSUME Located(code, at, s \o t), NEW i \in 1..Len(s) PROVE code[at + i - 1] = s[i]
  <2>1. i \in 1..Len(s) + Len(t) /\ i <= Len(s)
    BY <1>1
  <2> QED BY <1>1, <1>2, <2>1 DEF Located
<1>3. ASSUME Located(code, at, s \o t), NEW i \in 1..Len(t)
      PROVE  code[at + Len(s) + i - 1] = t[i]
  <2> DEFINE j == Len(s) + i
  <2>1. /\ j \in 1..Len(s) + Len(t) /\ ~(j <= Len(s)) /\ j - Len(s) = i
        /\ at + Len(s) + i - 1 = at + j - 1
    BY <1>1
  <2> HIDE DEF j
  <2> QED BY <1>1, <1>3, <2>1 DEF Located
<1> QED BY <1>1, <1>2, <1>3 DEF Located

\* A number's bytes are read as the number.
LEMMA LocatedNumber ==
  ASSUME NEW code, NEW at \in Nat, NEW v \in Half
  PROVE  /\ A64!Bytes(v, 1) \in ByteSeq /\ Len(A64!Bytes(v, 1)) = 1
         /\ A64!Bytes(v, 2) \in ByteSeq /\ Len(A64!Bytes(v, 2)) = 2
         /\ A64!Bytes(v, 4) \in ByteSeq /\ Len(A64!Bytes(v, 4)) = 4
         /\ v <= 255 /\ Located(code, at, A64!Bytes(v, 1)) => code[at] = v
         /\ Located(code, at, A64!Bytes(v, 2)) => A64!Number2(code, at) = v
         /\ Located(code, at, A64!Bytes(v, 4)) =>
              /\ A64!Number2(code, at) = v /\ A64!Number2(code, at + 2) = 0
              /\ A64!Number4(code, at) = v
<1>0. v \in Nat /\ v < 65536
  BY DEF Half
<1>1. /\ A64!Bytes(v, 1) \in ByteSeq /\ Len(A64!Bytes(v, 1)) = 1
      /\ A64!Bytes(v, 2) \in ByteSeq /\ Len(A64!Bytes(v, 2)) = 2
      /\ A64!Bytes(v, 4) \in ByteSeq /\ Len(A64!Bytes(v, 4)) = 4
  BY <1>0, BytesFacts
<1>2. /\ A64!Bytes(v, 1)[1] = v % 256
      /\ A64!Bytes(v, 2)[1] = v % 256 /\ A64!Bytes(v, 2)[2] = (v \div 256) % 256
      /\ A64!Bytes(v, 4)[1] = v % 256 /\ A64!Bytes(v, 4)[2] = (v \div 256) % 256
      /\ A64!Bytes(v, 4)[3] = (v \div 65536) % 256
      /\ A64!Bytes(v, 4)[4] = (v \div 16777216) % 256
  BY <1>0, BytesFacts
<1>3. /\ (v % 256) + 256 * ((v \div 256) % 256) = v
      /\ (v \div 65536) % 256 = 0 /\ (v \div 16777216) % 256 = 0
      /\ v <= 255 => v % 256 = v
  BY <1>0
<1>4. ASSUME Located(code, at, A64!Bytes(v, 1)) PROVE code[at] = v % 256
  <2>1. code[at + 1 - 1] = A64!Bytes(v, 1)[1]
    BY <1>1, <1>4 DEF Located
  <2> QED BY <1>2, <2>1
<1>5. ASSUME Located(code, at, A64!Bytes(v, 2)) PROVE A64!Number2(code, at) = v
  <2>1. code[at + 1 - 1] = A64!Bytes(v, 2)[1] /\ code[at + 2 - 1] = A64!Bytes(v, 2)[2]
    BY <1>1, <1>5 DEF Located
  <2> QED BY <1>2, <1>3, <2>1 DEF A64!Number2
<1>6. ASSUME Located(code, at, A64!Bytes(v, 4))
      PROVE  /\ A64!Number2(code, at) = v /\ A64!Number2(code, at + 2) = 0
             /\ A64!Number4(code, at) = v
  <2>1. /\ code[at + 1 - 1] = A64!Bytes(v, 4)[1] /\ code[at + 2 - 1] = A64!Bytes(v, 4)[2]
        /\ code[at + 3 - 1] = A64!Bytes(v, 4)[3] /\ code[at + 4 - 1] = A64!Bytes(v, 4)[4]
    BY <1>1, <1>6 DEF Located
  <2>2. A64!Number2(code, at) = v /\ A64!Number2(code, at + 2) = 0
    BY <1>2, <1>3, <2>1 DEF A64!Number2
  <2> QED BY <1>0, <2>2 DEF A64!Number4
<1>7. v <= 255 /\ Located(code, at, A64!Bytes(v, 1)) => code[at] = v
  BY <1>3, <1>4
<1> QED BY <1>1, <1>5, <1>6, <1>7

\* The memory operand that Mem writes, of either base the listing uses.
LEMMA OperandFacts ==
  ASSUME NEW code, NEW at \in Nat, NEW src \in 0..15, NEW base \in {2, 4}, NEW d \in Half
  PROVE  /\ A64!Mem(src, base, d) \in ByteSeq /\ Len(A64!Mem(src, base, d)) \in 1..6
         /\ Located(code, at, A64!Mem(src, base, d)) =>
              /\ code[at] \in 0..191 /\ (code[at] \div 8) % 8 = src % 8
              /\ A64!Operand(code, at, 0) =
                   [base |-> base, disp |-> d, next |-> at + Len(A64!Mem(src, base, d))]
<1> DEFINE mod == IF d = 0 THEN 0 ELSE IF d <= 127 THEN 1 ELSE 2
           disp == IF d = 0 THEN <<>> ELSE IF d <= 127 THEN A64!Bytes(d, 1) ELSE A64!Bytes(d, 4)
           modrm == mod * 64 + (src % 8) * 8 + base
           sib == IF base = 4 THEN <<36>> ELSE <<>>
           head == <<modrm>> \o sib
           len == IF d = 0 THEN 0 ELSE IF d <= 127 THEN 1 ELSE 4
           next == at + (IF base = 4 THEN 2 ELSE 1) + len
<1>0. d \in Nat
  BY DEF Half
<1>1. A64!Mem(src, base, d) = head \o disp
  <2>1. -128 <= d /\ (d > 127 <=> ~(d <= 127))
    BY <1>0
  <2>2. A64!DispEncoding(d) = [mod |-> mod, bytes |-> disp]
    BY <2>1 DEF A64!DispEncoding
  <2>3. base % 8 = A64!SP <=> base = 4
    BY DEF A64!SP
  <2> HIDE DEF mod, disp
  <2> HIDE DEF modrm, sib, head
  <2> QED BY <2>2, <2>3 DEF A64!Mem, modrm, sib, head
<1>2. /\ modrm \in 0..191 /\ (modrm \div 8) % 8 = src % 8
      /\ modrm % 8 = base /\ modrm \div 64 = mod
  <2>1. \A x \in 0..2, y, z \in 0..7 : LET m == x * 64 + y * 8 + z IN
          m \in 0..191 /\ (m \div 8) % 8 = y /\ m % 8 = z /\ m \div 64 = x
    OBVIOUS
  <2>2. mod \in 0..2 /\ src % 8 \in 0..7 /\ base \in 0..7
    OBVIOUS
  <2> HIDE DEF mod
  <2> QED BY <2>1, <2>2
<1>3. disp \in ByteSeq /\ Len(disp) = len
  <2>1. <<>> \in ByteSeq /\ Len(<<>>) = 0
    BY DEF ByteSeq
  <2>2. /\ A64!Bytes(d, 1) \in ByteSeq /\ Len(A64!Bytes(d, 1)) = 1
        /\ A64!Bytes(d, 4) \in ByteSeq /\ Len(A64!Bytes(d, 4)) = 4
    BY LocatedNumber
  <2>3. CASE d = 0
    BY <2>1, <2>3
  <2>4. CASE d # 0 /\ d <= 127
    BY <2>2, <2>4
  <2>5. CASE d # 0 /\ ~(d <= 127)
    BY <2>2, <2>5
  <2> QED BY <2>3, <2>4, <2>5
<1> HIDE DEF modrm, disp
<1>4. /\ <<modrm>> \in ByteSeq /\ Len(<<modrm>>) = 1
      /\ sib \in ByteSeq /\ Len(sib) = (IF base = 4 THEN 1 ELSE 0)
  <2>1. modrm \in Byte /\ 36 \in Byte
    BY <1>2 DEF Byte
  <2>2. \A a \in Byte : <<a>> \in ByteSeq /\ Len(<<a>>) = 1
    BY DEF ByteSeq
  <2>3. <<>> \in ByteSeq /\ Len(<<>>) = 0
    BY DEF ByteSeq
  <2> QED BY <2>1, <2>2, <2>3
<1> HIDE DEF sib
<1>5. /\ head \in ByteSeq /\ Len(head) = (IF base = 4 THEN 2 ELSE 1)
      /\ Located(code, at, head) => Located(code, at, <<modrm>>) /\ Located(code, at + 1, sib)
  <2>1. /\ head \in ByteSeq /\ Len(head) = Len(<<modrm>>) + Len(sib)
        /\ Located(code, at, head) =>
             Located(code, at, <<modrm>>) /\ Located(code, at + Len(<<modrm>>), sib)
    BY <1>4, LocatedConcat
  <2> HIDE DEF head
  <2> QED BY <1>4, <2>1
<1> HIDE DEF head
<1>6. /\ head \o disp \in ByteSeq /\ Len(head \o disp) = Len(head) + Len(disp)
      /\ Located(code, at, head \o disp) =>
           Located(code, at, head) /\ Located(code, at + Len(head), disp)
  BY <1>3, <1>5, LocatedConcat
<1>7. Len(head \o disp) \in 1..6 /\ next = at + Len(head \o disp)
  BY <1>3, <1>5, <1>6
<1>8. ASSUME Located(code, at, head \o disp)
      PROVE  /\ code[at] = modrm
             /\ A64!Operand(code, at, 0) = [base |-> base, disp |-> d, next |-> next]
  <2> DEFINE from == at + (IF base = 4 THEN 2 ELSE 1)
  <2>1. code[at] = modrm
    <3>1. Located(code, at, <<modrm>>)
      BY <1>5, <1>6, <1>8
    <3> QED BY <3>1 DEF Located
  <2>2. base = 4 => code[at + 1] = 36
    <3>1. base = 4 => Located(code, at + 1, <<36>>)
      BY <1>5, <1>6, <1>8 DEF sib
    <3> QED BY <3>1 DEF Located
  <2>3. from \in Nat /\ from = at + (IF code[at] % 8 = 4 THEN 2 ELSE 1) /\ from = at + Len(head)
    BY <1>2, <1>5, <2>1
  <2>4. Located(code, from, disp)
    BY <1>6, <1>8, <2>3
  <2> HIDE DEF from
  <2>5. mod = 1 => A64!Signed8(code[from]) = d
    <3> SUFFICES ASSUME mod = 1 PROVE A64!Signed8(code[from]) = d
      OBVIOUS
    <3>1. d <= 127 /\ d <= 255 /\ ~(d >= 128) /\ disp = A64!Bytes(d, 1)
      BY <1>0 DEF disp
    <3>2. code[from] = d
      BY <2>3, <2>4, <3>1, LocatedNumber
    <3> QED BY <3>1, <3>2 DEF A64!Signed8
  <2>6. mod = 2 => A64!Number4(code, from) = d
    <3> SUFFICES ASSUME mod = 2 PROVE A64!Number4(code, from) = d
      OBVIOUS
    <3>1. disp = A64!Bytes(d, 4)
      BY DEF disp
    <3> QED BY <2>3, <2>4, <3>1, LocatedNumber
  <2>7. code[at] \div 64 = mod /\ code[at] % 8 = base
    BY <1>2, <2>1
  <2>9. /\ mod \in {0, 1, 2} /\ (mod = 0 <=> len = 0) /\ (mod = 1 <=> len = 1) /\ (mod = 2 <=> len = 4)
        /\ (mod = 0 => d = 0) /\ next = from + len
    BY DEF from
  <2> HIDE DEF mod, len, next
  <2>10. A64!Displacement(code, from, mod) = d /\ A64!DispLen(mod) = len
    <3>1. CASE mod = 0
      BY <2>9, <3>1 DEF A64!Displacement, A64!DispLen
    <3>2. CASE mod = 1
      BY <2>5, <2>9, <3>2 DEF A64!Displacement, A64!DispLen
    <3>3. CASE mod = 2
      BY <2>6, <2>9, <3>3 DEF A64!Displacement, A64!DispLen
    <3> QED BY <2>9, <3>1, <3>2, <3>3
  <2>11. CASE base = 4
    <3>1. code[at] % 8 = 4 /\ from = at + 2 /\ code[at + 1] % 8 = base
      BY <2>2, <2>7, <2>11 DEF from
    <3>2. A64!Operand(code, at, 0) = [base |-> code[at + 1] % 8,
                                      disp |-> A64!Displacement(code, at + 2, code[at] \div 64),
                                      next |-> at + 2 + A64!DispLen(code[at] \div 64)]
      BY <3>1 DEF A64!Operand, A64!SP
    <3> QED BY <2>1, <2>7, <2>9, <2>10, <3>1, <3>2
  <2>12. CASE base # 4
    <3>1. code[at] % 8 = base /\ from = at + 1 /\ (code[at] % 8) + 0 = base
      BY <2>7, <2>12 DEF from
    <3>2. A64!Operand(code, at, 0) = [base |-> (code[at] % 8) + 0,
                                      disp |-> A64!Displacement(code, at + 1, code[at] \div 64),
                                      next |-> at + 1 + A64!DispLen(code[at] \div 64)]
      BY <2>12, <3>1 DEF A64!Operand, A64!SP
    <3> QED BY <2>1, <2>7, <2>9, <2>10, <3>1, <3>2
  <2> QED BY <2>11, <2>12
<1> HIDE DEF next, mod
<1> QED BY <1>1, <1>2, <1>6, <1>7, <1>8

\* an opcode and what follows it, after a prefix with these bits
Leads(w, r, b, op, tail, ins) ==
  \A code, at : at \in Nat /\ code[at + 1] = op /\ Located(code, at + 2, tail)
                => A64!Opcode(code, at, at + 1, w, 8 * r, 8 * b) = ins

\* A prefix and what it introduces.
LEMMA RexMeans ==
  ASSUME NEW w \in 0..1, NEW r \in 0..1, NEW b \in 0..1, NEW rex \in Byte,
         rex = 64 + 8 * w + 4 * r + b, NEW op \in Byte, NEW tail \in ByteSeq, NEW ins,
         ins.len = 2 + Len(tail), ins.len \in 1..15,
         Leads(w, r, b, op, tail, ins)
  PROVE  Means64(<<rex, op>> \o tail, ins)
<1> DEFINE head == <<rex, op>>
<1>1. head \in ByteSeq /\ Len(head) = 2
  BY DEF ByteSeq
<1>2. head \o tail \in ByteSeq /\ Len(head \o tail) = Len(head) + Len(tail)
  <2> HIDE DEF head
  <2> QED BY <1>1, LocatedConcat, 0 \in Nat
<1>3. ASSUME NEW code, NEW at \in Nat, Located(code, at, head \o tail)
      PROVE  A64!Decode(code, at) = ins
  <2>1. Located(code, at, head) /\ Located(code, at + Len(head), tail)
    <3> HIDE DEF head
    <3> QED BY <1>1, <1>3, LocatedConcat
  <2>2. code[at] = rex /\ code[at + 1] = op
    BY <2>1 DEF Located
  <2> HIDE DEF head
  <2>3. A64!Decode(code, at) = A64!Opcode(code, at, at + 1, w, 8 * r, 8 * b)
    BY <2>2, RexPrefix
  <2> QED BY <1>1, <2>1, <2>2, <2>3 DEF Leads
<1> HIDE DEF head
<1> QED BY <1>1, <1>2, <1>3 DEF Means64, head

\* A prefix and an instruction with a memory operand.
LEMMA MemoryForms ==
  ASSUME NEW src \in 0..15, NEW base \in {2, 4}, NEW d \in Half
  PROVE  /\ Means64(A64!MovToMem(base, d, src),
                    A64!Ins("store", src, base, d, A64!NoImm, 2 + Len(A64!Mem(src, base, d))))
         /\ Means64(A64!Lea(src, base, d),
                    A64!Ins("add", src, base, d, A64!NoImm, 2 + Len(A64!Mem(src, base, d))))
<1> DEFINE w == 1
           r == IF src >= 8 THEN 1 ELSE 0
           b == 0
           rex == 72 + 4 * r
           m == A64!Mem(src, base, d)
           ins(op) == A64!Ins(op, src, base, d, A64!NoImm, 2 + Len(m))
<1>1. w \in 0..1 /\ r \in 0..1 /\ b \in 0..1 /\ 8 * b = 0 /\ w = 1 /\ (src % 8) + 8 * r = src
  OBVIOUS
<1>2. A64!Rex(src, 0) = rex
  BY DEF A64!Rex, A64!Bit3
<1>3. rex \in Byte /\ rex = 64 + 8 * w + 4 * r + b
  BY <1>1 DEF Byte
<1> HIDE DEF w, r, b, rex
<1>4. m \in ByteSeq /\ Len(m) \in 1..6
  BY OperandFacts, 0 \in Nat
<1>5. ASSUME NEW code, NEW at \in Nat, Located(code, at + 2, m)
      PROVE  /\ code[at + 1] = 137 => A64!Opcode(code, at, at + 1, w, 8 * r, 8 * b) = ins("store")
             /\ code[at + 1] = 141 => A64!Opcode(code, at, at + 1, w, 8 * r, 8 * b) = ins("add")
  <2>1. /\ code[at + 2] \in 0..191 /\ (code[at + 2] \div 8) % 8 = src % 8
        /\ A64!Operand(code, at + 2, 0) = [base |-> base, disp |-> d, next |-> at + 2 + Len(m)]
    BY <1>5, OperandFacts, at + 2 \in Nat
  <2> HIDE DEF m
  <2>2. /\ at + 1 \in Nat /\ (at + 1) + 1 = at + 2 /\ ~(code[at + 2] >= 192)
        /\ at + 2 + Len(m) - at = 2 + Len(m)
    <3>1. \A x \in 1..6 : at + 2 + x - at = 2 + x
      OBVIOUS
    <3>2. \A x \in 0..191 : ~(x >= 192)
      OBVIOUS
    <3> DEFINE len == Len(m)
               first == code[at + 2]
    <3>3. len \in 1..6 /\ first \in 0..191
      BY <1>4, <2>1
    <3> HIDE DEF len, first
    <3>4. ~(first >= 192) /\ at + 2 + len - at = 2 + len
      BY <3>1, <3>2, <3>3
    <3> QED BY <3>4 DEF len, first
  <2>3. ASSUME NEW op \in {137, 141}, code[at + 1] = op
        PROVE  A64!Opcode(code, at, at + 1, w, 8 * r, 8 * b) =
                 A64!WithMemory(code, at, op, at + 2, 8 * r, 0)
    BY <1>1, <2>2, <2>3, ModRM
  <2>4. /\ A64!WithMemory(code, at, 137, at + 2, 8 * r, 0) = ins("store")
        /\ A64!WithMemory(code, at, 141, at + 2, 8 * r, 0) = ins("add")
    BY <1>1, <2>1, <2>2 DEF A64!WithMemory
  <2> HIDE DEF ins
  <2> QED BY <2>3, <2>4
<1> HIDE DEF m
<1>6. /\ ins("store").len = 2 + Len(m) /\ ins("add").len = 2 + Len(m) /\ 2 + Len(m) \in 1..15
      /\ 137 \in Byte /\ 141 \in Byte
  <2>1. 137 \in Byte /\ 141 \in Byte
    BY DEF Byte
  <2>2. \A x \in 1..6 : 2 + x \in 1..15
    OBVIOUS
  <2> QED BY <1>4, <2>1, <2>2 DEF A64!Ins
<1>7. A64!MovToMem(base, d, src) = <<rex, 137>> \o m /\ A64!Lea(src, base, d) = <<rex, 141>> \o m
  BY <1>2 DEF A64!MovToMem, A64!Lea, m
<1> HIDE DEF ins
<1>8. Leads(w, r, b, 137, m, ins("store")) /\ Leads(w, r, b, 141, m, ins("add"))
  BY <1>5 DEF Leads
<1>9. Means64(<<rex, 137>> \o m, ins("store")) /\ Means64(<<rex, 141>> \o m, ins("add"))
  BY <1>1, <1>3, <1>4, <1>6, <1>8, RexMeans
<1> QED BY <1>7, <1>9 DEF ins, m

\* Clearing a result's word: an operand and an immediate.
LEMMA ClearForm64 ==
  ASSUME NEW d \in Half
  PROVE  Means64(A64!MovImmToMem(2, d, 0),
                 A64!Ins("clear", 0, 2, d, A64!NoImm, 6 + Len(A64!Mem(0, 2, d))))
<1> DEFINE m == A64!Mem(0, 2, d)
           zero == A64!Bytes(0, 4)
           ins == A64!Ins("clear", 0, 2, d, A64!NoImm, 6 + Len(m))
           w == 1
           z == 0
<1>0. w \in 0..1 /\ z \in 0..1 /\ 8 * z = 0 /\ w = 1 /\ z = 0
  OBVIOUS
<1> HIDE DEF w, z
<1>1. m \in ByteSeq /\ Len(m) \in 1..6
  BY OperandFacts, 0 \in Nat, 0 \in 0..15, 2 \in {2, 4}
<1>2. zero \in ByteSeq /\ Len(zero) = 4
  BY BytesFacts, 0 \in Nat
<1> HIDE DEF zero
<1>3. ASSUME NEW code, NEW at \in Nat, code[at + 1] = 199, Located(code, at + 2, m \o zero)
      PROVE  A64!Opcode(code, at, at + 1, w, 8 * z, 8 * z) = ins
  <2>1. Located(code, at + 2, m)
    BY <1>1, <1>2, <1>3, LocatedConcat, at + 2 \in Nat
  <2>2. /\ code[at + 2] \in 0..191 /\ (code[at + 2] \div 8) % 8 = 0
        /\ A64!Operand(code, at + 2, 0) = [base |-> 2, disp |-> d, next |-> at + 2 + Len(m)]
    <3>1. 0 % 8 = 0 /\ at + 2 \in Nat /\ 0 \in 0..15 /\ 2 \in {2, 4}
      OBVIOUS
    <3> QED BY <2>1, <3>1, OperandFacts
  <2> HIDE DEF m
  <2>3. /\ at + 1 \in Nat /\ (at + 1) + 1 = at + 2 /\ ~(code[at + 2] >= 192)
        /\ at + 2 + Len(m) + 4 - at = 6 + Len(m) /\ (0 + 0) % 8 = 0
    <3>1. \A x \in 1..6 : at + 2 + x + 4 - at = 6 + x
      OBVIOUS
    <3>2. \A x \in 0..191 : ~(x >= 192)
      OBVIOUS
    <3> DEFINE len == Len(m)
               first == code[at + 2]
    <3>3. len \in 1..6 /\ first \in 0..191
      BY <1>1, <2>2
    <3> HIDE DEF len, first
    <3>4. ~(first >= 192) /\ at + 2 + len + 4 - at = 6 + len
      BY <3>1, <3>2, <3>3
    <3> QED BY <3>4 DEF len, first
  <2>4. A64!Opcode(code, at, at + 1, w, 8 * z, 8 * z) = A64!WithMemory(code, at, 199, at + 2, 0, 0)
    BY <1>0, <1>3, <2>3, ModRM
  <2>5. A64!WithMemory(code, at, 199, at + 2, 0, 0) = ins
    BY <2>2, <2>3 DEF A64!WithMemory
  <2> QED BY <2>4, <2>5
<1>4. A64!MovImmToMem(2, d, 0) = <<72, 199>> \o m \o zero
  BY DEF A64!MovImmToMem, zero
<1>5. <<72, 199>> \o m \o zero = <<72, 199>> \o (m \o zero)
  <2>1. <<72, 199>> \in ByteSeq
    BY DEF ByteSeq, Byte
  <2> HIDE DEF m
  <2> QED BY <1>1, <1>2, <2>1, ConcatAssociative DEF ByteSeq
<1> HIDE DEF m
<1>6. m \o zero \in ByteSeq /\ Len(m \o zero) = Len(m) + 4
  BY <1>1, <1>2, LocatedConcat, 0 \in Nat
<1>7. /\ ins.len = 2 + Len(m \o zero) /\ ins.len \in 1..15
      /\ 72 \in Byte /\ 199 \in Byte /\ 72 = 64 + 8 * w + 4 * z + z
  <2>1. 72 \in Byte /\ 199 \in Byte /\ 72 = 64 + 8 * w + 4 * z + z
    BY <1>0 DEF Byte
  <2>2. \A x \in 1..6 : 6 + x \in 1..15 /\ 6 + x = 2 + (x + 4)
    OBVIOUS
  <2> QED BY <1>1, <1>6, <2>1, <2>2 DEF A64!Ins
<1> HIDE DEF ins
<1>8. Leads(w, z, z, 199, m \o zero, ins)
  BY <1>3 DEF Leads
<1> DEFINE tail == m \o zero
<1>9. tail \in ByteSeq /\ ins.len = 2 + Len(tail) /\ Leads(w, z, z, 199, tail, ins)
  BY <1>6, <1>7, <1>8
<1> HIDE DEF tail
<1>10. Means64(<<72, 199>> \o tail, ins)
  BY <1>0, <1>7, <1>9, RexMeans
<1> QED BY <1>4, <1>5, <1>10 DEF ins, m, tail

\* Moving the stack pointer by the frame, and the call.
LEMMA FrameForms64 ==
  /\ Means64(A64!SubSP(208), A64!Ins("add", 4, 4, -208, A64!NoImm, 7))
  /\ Means64(A64!AddSP(208), A64!Ins("add", 4, 4, 208, A64!NoImm, 7))
  /\ Means64(A64!CallR12, A64!Ins("call", 12, 0, 0, A64!NoImm, 3))
<1> DEFINE n == A64!Bytes(208, 4)
           sub == A64!Ins("add", 4, 4, -208, A64!NoImm, 7)
           add == A64!Ins("add", 4, 4, 208, A64!NoImm, 7)
           call == A64!Ins("call", 12, 0, 0, A64!NoImm, 3)
           subHead == <<72, 129, 236>>
           addHead == <<72, 129, 196>>
           callCode == <<65, 255, 212>>
           w == 1
           z == 0
<1>1. n \in ByteSeq /\ Len(n) = 4
  BY BytesFacts, 208 \in Nat
<1>2. 208 \in Half
  BY DEF Half
<1>3. /\ subHead \in ByteSeq /\ Len(subHead) = 3 /\ addHead \in ByteSeq /\ Len(addHead) = 3
      /\ callCode \in ByteSeq /\ Len(callCode) = 3
  BY DEF ByteSeq, Byte
<1>4. sub.len = 7 /\ add.len = 7 /\ call.len = 3 /\ 7 \in 1..15 /\ 3 \in 1..15
  BY DEF A64!Ins
<1>5. w \in 0..1 /\ z \in 0..1 /\ 8 * z = 0 /\ 8 * w = 8
  OBVIOUS
<1>6. ASSUME NEW code, NEW at \in Nat, code[at] = 72, code[at + 1] = 129, code[at + 2] \in {196, 236},
             Located(code, at + 3, n)
      PROVE  A64!Decode(code, at) = IF code[at + 2] = 236 THEN sub ELSE add
  <2>1. A64!Decode(code, at) = A64!Opcode(code, at, at + 1, w, 8 * z, 8 * z)
    <3>1. code[at] = 64 + 8 * w + 4 * z + z
      BY <1>6
    <3> HIDE DEF w, z
    <3> QED BY <1>5, <3>1, RexPrefix
  <2>2. at + 1 \in Nat /\ (at + 1) + 1 = at + 2 /\ code[at + 2] >= 192 /\ at + 3 \in Nat
        /\ at + 2 + 5 - at = 7 /\ at + 2 + 1 = at + 3
    BY <1>6
  <2> HIDE DEF w, z, sub, add
  <2>3. A64!Opcode(code, at, at + 1, w, 8 * z, 8 * z) =
          A64!WithRegisters(code, at, 129, at + 2, 8 * z, 8 * z)
    BY <1>6, <2>2, ModRM
  <2>4. A64!Number4(code, at + 3) = 208
    <3> HIDE DEF n
    <3>1. Located(code, at + 3, A64!Bytes(208, 4))
      BY <1>6 DEF n
    <3> QED BY <1>2, <2>2, <3>1, LocatedNumber
  <2>5. CASE code[at + 2] = 236
    <3>1. A64!WithRegisters(code, at, 129, at + 2, 8 * z, 8 * z) = sub
      BY <1>5, <2>2, <2>4, <2>5 DEF A64!WithRegisters, sub
    <3> QED BY <2>1, <2>3, <2>5, <3>1
  <2>6. CASE code[at + 2] = 196
    <3>1. A64!WithRegisters(code, at, 129, at + 2, 8 * z, 8 * z) = add
      BY <1>5, <2>2, <2>4, <2>6 DEF A64!WithRegisters, add
    <3> QED BY <2>1, <2>3, <2>6, <3>1
  <2> QED BY <1>6, <2>5, <2>6
<1>7. ASSUME NEW code, NEW at \in Nat, code[at] = 65, code[at + 1] = 255, code[at + 2] = 212
      PROVE  A64!Decode(code, at) = call
  <2>1. A64!Decode(code, at) = A64!Opcode(code, at, at + 1, z, 8 * z, 8 * w)
    <3>1. code[at] = 64 + 8 * z + 4 * z + w
      BY <1>7
    <3> HIDE DEF w, z
    <3> QED BY <1>5, <3>1, RexPrefix
  <2>2. at + 1 \in Nat /\ (at + 1) + 1 = at + 2 /\ code[at + 2] >= 192 /\ at + 2 + 1 - at = 3
    BY <1>7
  <2> HIDE DEF w, z
  <2>3. A64!Opcode(code, at, at + 1, z, 8 * z, 8 * w) =
          A64!WithRegisters(code, at, 255, at + 2, 8 * z, 8 * w)
    BY <1>7, <2>2, ModRM
  <2> QED BY <1>5, <1>7, <2>1, <2>2, <2>3 DEF A64!WithRegisters
<1> HIDE DEF n, sub, add, call
<1>8. ASSUME NEW code, NEW at \in Nat
      PROVE  /\ Located(code, at, subHead \o n) =>
                  /\ code[at] = 72 /\ code[at + 1] = 129 /\ code[at + 2] = 236
                  /\ Located(code, at + 3, n)
             /\ Located(code, at, addHead \o n) =>
                  /\ code[at] = 72 /\ code[at + 1] = 129 /\ code[at + 2] = 196
                  /\ Located(code, at + 3, n)
             /\ Located(code, at, callCode) =>
                  code[at] = 65 /\ code[at + 1] = 255 /\ code[at + 2] = 212
             /\ subHead \o n \in ByteSeq /\ Len(subHead \o n) = 7
             /\ addHead \o n \in ByteSeq /\ Len(addHead \o n) = 7
  <2>1. /\ Located(code, at, subHead) => code[at] = 72 /\ code[at + 1] = 129 /\ code[at + 2] = 236
        /\ Located(code, at, addHead) => code[at] = 72 /\ code[at + 1] = 129 /\ code[at + 2] = 196
        /\ Located(code, at, callCode) => code[at] = 65 /\ code[at + 1] = 255 /\ code[at + 2] = 212
    <3>1. Located(code, at, subHead) => code[at] = 72 /\ code[at + 1] = 129 /\ code[at + 2] = 236
      BY DEF Located
    <3>2. Located(code, at, addHead) => code[at] = 72 /\ code[at + 1] = 129 /\ code[at + 2] = 196
      BY DEF Located
    <3>3. Located(code, at, callCode) => code[at] = 65 /\ code[at + 1] = 255 /\ code[at + 2] = 212
      BY DEF Located
    <3> QED BY <3>1, <3>2, <3>3
  <2> HIDE DEF subHead, addHead, callCode
  <2>2. /\ subHead \o n \in ByteSeq /\ Len(subHead \o n) = 7
        /\ Located(code, at, subHead \o n) => Located(code, at, subHead) /\ Located(code, at + 3, n)
    <3> HIDE DEF w, z
    <3>1. subHead \in ByteSeq /\ n \in ByteSeq
      BY <1>1, <1>3
    <3>2. /\ subHead \o n \in ByteSeq /\ Len(subHead \o n) = Len(subHead) + Len(n)
          /\ Located(code, at, subHead \o n) =>
               Located(code, at, subHead) /\ Located(code, at + Len(subHead), n)
      BY <3>1, LocatedConcat
    <3> QED BY <1>1, <1>3, <3>2
  <2>3. /\ addHead \o n \in ByteSeq /\ Len(addHead \o n) = 7
        /\ Located(code, at, addHead \o n) => Located(code, at, addHead) /\ Located(code, at + 3, n)
    <3> HIDE DEF w, z
    <3>1. addHead \in ByteSeq /\ n \in ByteSeq
      BY <1>1, <1>3
    <3>2. /\ addHead \o n \in ByteSeq /\ Len(addHead \o n) = Len(addHead) + Len(n)
          /\ Located(code, at, addHead \o n) =>
               Located(code, at, addHead) /\ Located(code, at + Len(addHead), n)
      BY <3>1, LocatedConcat
    <3> QED BY <1>1, <1>3, <3>2
  <2> QED BY <2>1, <2>2, <2>3
<1>9. A64!SubSP(208) = subHead \o n /\ A64!AddSP(208) = addHead \o n /\ A64!CallR12 = callCode
  BY DEF A64!SubSP, A64!AddSP, A64!CallR12, n
<1> HIDE DEF subHead, addHead, callCode
<1>10. 236 # 196
  OBVIOUS
<1>11. Means64(subHead \o n, sub)
  BY <1>4, <1>6, <1>8, 0 \in Nat DEF Means64
<1>12. Means64(addHead \o n, add)
  BY <1>4, <1>6, <1>8, <1>10, 0 \in Nat DEF Means64
<1>13. Means64(callCode, call)
  BY <1>3, <1>4, <1>7, <1>8 DEF Means64
<1> QED BY <1>9, <1>11, <1>12, <1>13 DEF sub, add, call

\* The method's index.
LEMMA IndexForm ==
  ASSUME NEW v \in Half
  PROVE  Means64(A64!MovEAX(v), A64!Ins("set", 0, 0, 0, <<v, 0, 0, 0>>, 5))
<1> DEFINE n == A64!Bytes(v, 4)
           ins == A64!Ins("set", 0, 0, 0, <<v, 0, 0, 0>>, 5)
           head == <<184>>
<1>1. n \in ByteSeq /\ Len(n) = 4
  BY BytesFacts DEF Half
<1>2. head \in ByteSeq /\ Len(head) = 1
  BY DEF ByteSeq, Byte
<1>3. ASSUME NEW code, NEW at \in Nat, code[at] = 184, Located(code, at + 1, n)
      PROVE  A64!Decode(code, at) = ins
  <2>1. A64!Number2(code, at + 1) = v /\ A64!Number2(code, at + 1 + 2) = 0
    BY <1>3, LocatedNumber, at + 1 \in Nat
  <2>2. A64!Imm(code, at + 1, 2) = <<v, 0, 0, 0>>
    <3>1. /\ at + 1 + 2 * 1 - 2 = at + 1 /\ at + 1 + 2 * 2 - 2 = at + 1 + 2
      OBVIOUS
    <3>2. A64!Imm(code, at + 1, 2) =
            [k \in 1..4 |-> IF k <= 2 THEN A64!Number2(code, at + 1 + 2 * k - 2) ELSE 0]
      BY DEF A64!Imm
    <3>3. ASSUME NEW k \in 1..4
          PROVE  (IF k <= 2 THEN A64!Number2(code, at + 1 + 2 * k - 2) ELSE 0) = <<v, 0, 0, 0>>[k]
      <4>1. CASE k = 1
        BY <2>1, <3>1, <4>1
      <4>2. CASE k = 2
        BY <2>1, <3>1, <4>2
      <4>3. CASE k \in {3, 4}
        BY <4>3
      <4> QED BY <4>1, <4>2, <4>3
    <3>4. <<v, 0, 0, 0>> = [k \in 1..4 |-> <<v, 0, 0, 0>>[k]]
      OBVIOUS
    <3> QED BY <3>2, <3>3, <3>4
  <2>3. A64!Decode(code, at) = A64!Opcode(code, at, at, 0, 0, 0)
    BY <1>3, NoPrefix
  <2>4. A64!Opcode(code, at, at, 0, 0, 0) =
          A64!Ins("set", 0, 0, 0, A64!Imm(code, at + 1, 2), 5)
    <3>1. /\ 184 \notin 80..87 /\ 184 \notin 88..95 /\ 184 # 195 /\ 184 \in 184..191
          /\ (184 % 8) + 0 = 0 /\ at + 5 - at = 5
      OBVIOUS
    <3> QED BY <1>3, <3>1 DEF A64!Opcode
  <2> QED BY <2>2, <2>3, <2>4
<1>4. ins.len = 5 /\ 5 \in 1..15
  BY DEF A64!Ins
<1> HIDE DEF n, ins
<1>5. ASSUME NEW code, NEW at \in Nat
      PROVE  /\ head \o n \in ByteSeq /\ Len(head \o n) = 5
             /\ Located(code, at, head \o n) => code[at] = 184 /\ Located(code, at + 1, n)
  <2>1. Located(code, at, head) => code[at] = 184
    BY DEF Located
  <2> HIDE DEF head
  <2>2. /\ head \o n \in ByteSeq /\ Len(head \o n) = 5
        /\ Located(code, at, head \o n) => Located(code, at, head) /\ Located(code, at + 1, n)
    <3>1. /\ head \o n \in ByteSeq /\ Len(head \o n) = Len(head) + Len(n)
          /\ Located(code, at, head \o n) =>
               Located(code, at, head) /\ Located(code, at + Len(head), n)
      BY <1>1, <1>2, LocatedConcat
    <3> QED BY <1>1, <1>2, <3>1
  <2> QED BY <2>1, <2>2
<1>6. A64!MovEAX(v) = head \o n
  BY DEF A64!MovEAX, n
<1> HIDE DEF head
<1>7. Means64(head \o n, ins)
  BY <1>3, <1>4, <1>5, 0 \in Nat DEF Means64
<1> QED BY <1>6, <1>7 DEF ins

\* The address of Dispatch, which R12 gets.
LEMMA AddressForm ==
  ASSUME NEW p \in [1..4 -> Half]
  PROVE  Means64(A64!MovAbsR12(p), A64!Ins("set", 12, 0, 0, p, 10))
<1> DEFINE a == A64!Bytes(p[1], 2)
           b == A64!Bytes(p[2], 2)
           c == A64!Bytes(p[3], 2)
           d == A64!Bytes(p[4], 2)
           tail == a \o b \o c \o d
           ins == A64!Ins("set", 12, 0, 0, p, 10)
           w == 1
           z == 0
<1>1. p[1] \in Half /\ p[2] \in Half /\ p[3] \in Half /\ p[4] \in Half
  OBVIOUS
<1>2. /\ a \in ByteSeq /\ Len(a) = 2 /\ b \in ByteSeq /\ Len(b) = 2
      /\ c \in ByteSeq /\ Len(c) = 2 /\ d \in ByteSeq /\ Len(d) = 2
  BY <1>1, LocatedNumber, 0 \in Nat
<1>3. ASSUME NEW code, NEW at \in Nat
      PROVE  /\ tail \in ByteSeq /\ Len(tail) = 8
             /\ Located(code, at, tail) =>
                  /\ A64!Number2(code, at) = p[1] /\ A64!Number2(code, at + 2) = p[2]
                  /\ A64!Number2(code, at + 4) = p[3] /\ A64!Number2(code, at + 6) = p[4]
  <2>1. /\ Located(code, at, a) => A64!Number2(code, at) = p[1]
        /\ Located(code, at + 2, b) => A64!Number2(code, at + 2) = p[2]
        /\ Located(code, at + 4, c) => A64!Number2(code, at + 4) = p[3]
        /\ Located(code, at + 6, d) => A64!Number2(code, at + 6) = p[4]
    BY <1>1, LocatedNumber, at + 2 \in Nat, at + 4 \in Nat, at + 6 \in Nat
  <2> HIDE DEF a, b, c, d
  <2> DEFINE ab == a \o b
             abc == ab \o c
  <2>2. /\ ab \in ByteSeq /\ Len(ab) = 4
        /\ Located(code, at, ab) => Located(code, at, a) /\ Located(code, at + 2, b)
    <3>1. /\ ab \in ByteSeq /\ Len(ab) = Len(a) + Len(b)
          /\ Located(code, at, ab) =>
               Located(code, at, a) /\ Located(code, at + Len(a), b)
      BY <1>2, LocatedConcat
    <3> QED BY <1>2, <3>1
  <2> HIDE DEF ab
  <2>3. /\ abc \in ByteSeq /\ Len(abc) = 6
        /\ Located(code, at, abc) => Located(code, at, ab) /\ Located(code, at + 4, c)
    <3>0. ab \in ByteSeq /\ c \in ByteSeq
      BY <1>2, <2>2
    <3>1. /\ abc \in ByteSeq /\ Len(abc) = Len(ab) + Len(c)
          /\ Located(code, at, abc) =>
               Located(code, at, ab) /\ Located(code, at + Len(ab), c)
      BY <3>0, LocatedConcat
    <3> QED BY <1>2, <2>2, <3>1
  <2> HIDE DEF abc
  <2> DEFINE all == abc \o d
  <2>4. /\ all \in ByteSeq /\ Len(all) = 8
        /\ Located(code, at, all) => Located(code, at, abc) /\ Located(code, at + 6, d)
    <3>0. abc \in ByteSeq /\ d \in ByteSeq
      BY <1>2, <2>3
    <3>1. /\ all \in ByteSeq /\ Len(all) = Len(abc) + Len(d)
          /\ Located(code, at, all) =>
               Located(code, at, abc) /\ Located(code, at + Len(abc), d)
      BY <3>0, LocatedConcat
    <3> QED BY <1>2, <2>3, <3>1
  <2>5. tail = all
    BY DEF ab, abc
  <2> HIDE DEF all, tail
  <2> QED BY <2>1, <2>2, <2>3, <2>4, <2>5
<1>4. A64!MovAbsR12(p) = <<73, 188>> \o tail
  BY DEF A64!MovAbsR12, A64!WideBytes
<1> HIDE DEF tail, w, z
<1>5. w \in 0..1 /\ z \in 0..1 /\ w = 1 /\ z = 0 /\ 8 * z = 0 /\ 8 * w = 8
  BY DEF w, z
<1>6. ASSUME NEW code, NEW at \in Nat, code[at + 1] = 188, Located(code, at + 2, tail)
      PROVE  A64!Opcode(code, at, at + 1, w, 8 * z, 8 * w) = ins
  <2>1. A64!Imm(code, at + 2, 4) = p
    <3>1. ASSUME NEW k \in 1..4 PROVE A64!Number2(code, at + 2 + 2 * k - 2) = p[k]
      <4>1. /\ A64!Number2(code, at + 2) = p[1] /\ A64!Number2(code, at + 2 + 2) = p[2]
            /\ A64!Number2(code, at + 2 + 4) = p[3] /\ A64!Number2(code, at + 2 + 6) = p[4]
        BY <1>3, <1>6, at + 2 \in Nat
      <4>2. /\ at + 2 + 2 * 1 - 2 = at + 2 /\ at + 2 + 2 * 2 - 2 = at + 2 + 2
            /\ at + 2 + 2 * 3 - 2 = at + 2 + 4 /\ at + 2 + 2 * 4 - 2 = at + 2 + 6
        OBVIOUS
      <4>3. k \in {1, 2, 3, 4}
        OBVIOUS
      <4> QED BY <4>1, <4>2, <4>3
    <3>2. A64!Imm(code, at + 2, 4) =
            [k \in 1..4 |-> IF k <= 4 THEN A64!Number2(code, at + 2 + 2 * k - 2) ELSE 0]
      BY DEF A64!Imm
    <3>3. \A k \in 1..4 : (IF k <= 4 THEN A64!Number2(code, at + 2 + 2 * k - 2) ELSE 0) = p[k]
      BY <3>1
    <3>4. p = [k \in 1..4 |-> p[k]]
      OBVIOUS
    <3> QED BY <3>2, <3>3, <3>4
  <2>2. A64!Opcode(code, at, at + 1, w, 8 * z, 8 * w) =
          A64!Ins("set", 12, 0, 0, A64!Imm(code, at + 2, 4), 10)
    <3>1. /\ 188 \notin 80..87 /\ 188 \notin 88..95 /\ 188 # 195 /\ 188 \in 184..191
          /\ (188 % 8) + 8 = 12 /\ at + 1 + 9 - at = 10 /\ (at + 1) + 1 = at + 2
      OBVIOUS
    <3> QED BY <1>5, <1>6, <3>1 DEF A64!Opcode
  <2> QED BY <2>1, <2>2
<1>7. ins.len = 10 /\ 10 \in 1..15
  BY DEF A64!Ins
<1> HIDE DEF ins
<1>8. Leads(w, z, w, 188, tail, ins)
  BY <1>6 DEF Leads
<1>9. 73 \in Byte /\ 188 \in Byte /\ 73 = 64 + 8 * w + 4 * z + w
  BY <1>5 DEF Byte
<1>10. tail \in ByteSeq /\ ins.len = 2 + Len(tail)
  <2>1. tail \in ByteSeq /\ Len(tail) = 8
    BY <1>3, 0 \in Nat
  <2> QED BY <1>7, <2>1
<1>11. Means64(<<73, 188>> \o tail, ins)
  BY <1>5, <1>7, <1>8, <1>9, <1>10, RexMeans
<1> QED BY <1>4, <1>11 DEF ins

-----------------------------------------------------------------------------
(* Several sequences joined *)

\* u is s and then t
Joins(u, s, t) ==
  /\ Len(u) = Len(s) + Len(t)
  /\ \A i \in 1..Len(s) : u[i] = s[i]
  /\ \A i \in 1..Len(t) : u[Len(s) + i] = t[i]

\* Where the elements of two sequences are in their concatenation.
LEMMA ConcatParts ==
  ASSUME NEW S, NEW s \in Seq(S), NEW t \in Seq(S)
  PROVE  s \o t \in Seq(S) /\ Joins(s \o t, s, t)
<1> DEFINE n == Len(s)
           m == Len(t)
<1>1. /\ s \o t \in Seq(S) /\ Len(s \o t) = n + m /\ n \in Nat /\ m \in Nat
      /\ \A i \in 1..n + m : (s \o t)[i] = IF i <= n THEN s[i] ELSE t[i - n]
  BY ConcatProperties, LenProperties
<1> HIDE DEF n, m
<1>2. \A i \in 1..n : i \in 1..n + m /\ i <= n
  BY <1>1
<1>3. \A i \in 1..m : n + i \in 1..n + m /\ ~(n + i <= n) /\ (n + i) - n = i
  BY <1>1
<1>4. /\ \A i \in 1..n : (s \o t)[i] = s[i]
      /\ \A i \in 1..m : (s \o t)[n + i] = t[i]
  BY <1>1, <1>2, <1>3
<1> QED BY <1>1, <1>4 DEF n, m, Joins

\* u is six sequences one after the other, as either listing is
SixOf(u, S, a, b, c, d, e, f) ==
  /\ a \in Seq(S) /\ b \in Seq(S) /\ c \in Seq(S) /\ d \in Seq(S) /\ e \in Seq(S) /\ f \in Seq(S)
  /\ u = a \o b \o c \o d \o e \o f

\* t is in u, after the first n elements
Placed(u, n, t) == \A i \in 1..Len(t) : u[n + i] = t[i]

\* Where the elements of the six are.
LEMMA SixParts ==
  ASSUME NEW S, NEW all, NEW a, NEW b, NEW c, NEW d, NEW e, NEW f, SixOf(all, S, a, b, c, d, e, f)
  PROVE  /\ all \in Seq(S)
         /\ Len(all) = Len(a) + Len(b) + Len(c) + Len(d) + Len(e) + Len(f)
         /\ Placed(all, 0, a) /\ Placed(all, Len(a), b) /\ Placed(all, Len(a) + Len(b), c)
         /\ Placed(all, Len(a) + Len(b) + Len(c), d)
         /\ Placed(all, Len(a) + Len(b) + Len(c) + Len(d), e)
         /\ Placed(all, Len(a) + Len(b) + Len(c) + Len(d) + Len(e), f)
<1> DEFINE na == Len(a)
           nb == Len(b)
           nc == Len(c)
           nd == Len(d)
           ne == Len(e)
           nf == Len(f)
<1>a. /\ a \in Seq(S) /\ b \in Seq(S) /\ c \in Seq(S) /\ d \in Seq(S) /\ e \in Seq(S) /\ f \in Seq(S)
      /\ na \in Nat /\ nb \in Nat /\ nc \in Nat /\ nd \in Nat /\ ne \in Nat /\ nf \in Nat
      /\ Len(a) = na /\ Len(b) = nb /\ Len(c) = nc /\ Len(d) = nd /\ Len(e) = ne /\ Len(f) = nf
      /\ all = a \o b \o c \o d \o e \o f
  BY LenProperties DEF SixOf
<1> HIDE DEF na, nb, nc, nd, ne, nf
<1> DEFINE ab == a \o b
           abc == ab \o c
           abcd == abc \o d
           abcde == abcd \o e
           n2 == na + nb
           n3 == n2 + nc
           n4 == n3 + nd
           n5 == n4 + ne
<1>0. n2 \in Nat /\ n3 \in Nat /\ n4 \in Nat /\ n5 \in Nat /\ na \in 0..n2 /\ n2 \in 0..n3 /\ n3 \in 0..n4 /\ n4 \in 0..n5
      /\ nb = n2 - na /\ nc = n3 - n2 /\ nd = n4 - n3 /\ ne = n5 - n4
  BY <1>a
<1>1. all = abcde \o f
  BY <1>a
<1>2. /\ ab \in Seq(S) /\ Len(ab) = n2 /\ \A i \in 1..na : ab[i] = a[i]
      /\ \A i \in 1..nb : ab[na + i] = b[i]
  <2>1. a \in Seq(S) /\ b \in Seq(S) /\ Len(a) = na /\ Len(b) = nb
    BY <1>a
  <2>2. ab \in Seq(S) /\ Joins(ab, a, b)
    BY <2>1, ConcatParts
  <2> QED BY <2>1, <2>2 DEF Joins
<1> HIDE DEF ab, n2
<1>3. /\ abc \in Seq(S) /\ Len(abc) = n3 /\ \A i \in 1..n2 : abc[i] = ab[i]
      /\ \A i \in 1..nc : abc[n2 + i] = c[i]
  <2>1. ab \in Seq(S) /\ c \in Seq(S) /\ Len(ab) = n2 /\ Len(c) = nc
    BY <1>2, <1>a
  <2>2. abc \in Seq(S) /\ Joins(abc, ab, c)
    BY <2>1, ConcatParts
  <2> QED BY <2>1, <2>2 DEF Joins
<1> HIDE DEF abc, n3
<1>4. /\ abcd \in Seq(S) /\ Len(abcd) = n4 /\ \A i \in 1..n3 : abcd[i] = abc[i]
      /\ \A i \in 1..nd : abcd[n3 + i] = d[i]
  <2>1. abc \in Seq(S) /\ d \in Seq(S) /\ Len(abc) = n3 /\ Len(d) = nd
    BY <1>3, <1>a
  <2>2. abcd \in Seq(S) /\ Joins(abcd, abc, d)
    BY <2>1, ConcatParts
  <2> QED BY <2>1, <2>2 DEF Joins
<1> HIDE DEF abcd, n4
<1>5. /\ abcde \in Seq(S) /\ Len(abcde) = n5 /\ \A i \in 1..n4 : abcde[i] = abcd[i]
      /\ \A i \in 1..ne : abcde[n4 + i] = e[i]
  <2>1. abcd \in Seq(S) /\ e \in Seq(S) /\ Len(abcd) = n4 /\ Len(e) = ne
    BY <1>4, <1>a
  <2>2. abcde \in Seq(S) /\ Joins(abcde, abcd, e)
    BY <2>1, ConcatParts
  <2> QED BY <2>1, <2>2 DEF Joins
<1> HIDE DEF abcde, n5
<1>6. /\ all \in Seq(S) /\ Len(all) = n5 + nf /\ \A i \in 1..n5 : all[i] = abcde[i]
      /\ \A i \in 1..nf : all[n5 + i] = f[i]
  <2>1. abcde \in Seq(S) /\ f \in Seq(S) /\ Len(abcde) = n5 /\ Len(f) = nf
    BY <1>5, <1>a
  <2>2. abcde \o f \in Seq(S) /\ Joins(abcde \o f, abcde, f)
    BY <2>1, ConcatParts
  <2> QED BY <2>1, <2>2, <1>1 DEF Joins
<1>7. \A i \in 1..ne : all[n4 + i] = e[i]
  <2>1. \A i \in 1..ne : n4 + i \in 1..n5
    BY <1>0
  <2> QED BY <1>5, <1>6, <2>1
<1>8. /\ \A i \in 1..n4 : all[i] = abcd[i]
      /\ \A i \in 1..nd : all[n3 + i] = d[i]
  <2>1. (\A i \in 1..n4 : i \in 1..n5) /\ \A i \in 1..nd : n3 + i \in 1..n4
    BY <1>0
  <2> QED BY <1>4, <1>5, <1>6, <2>1
<1>9. /\ \A i \in 1..n3 : all[i] = abc[i]
      /\ \A i \in 1..nc : all[n2 + i] = c[i]
  <2>1. (\A i \in 1..n3 : i \in 1..n4) /\ \A i \in 1..nc : n2 + i \in 1..n3
    BY <1>0
  <2> QED BY <1>3, <1>4, <1>8, <2>1
<1>10. /\ \A i \in 1..na : all[i] = a[i]
       /\ \A i \in 1..nb : all[na + i] = b[i]
  <2>1. /\ \A i \in 1..na : i \in 1..n2 /\ i \in 1..n3
        /\ \A i \in 1..nb : na + i \in 1..n2 /\ na + i \in 1..n3
    BY <1>0
  <2> QED BY <1>2, <1>3, <1>9, <2>1
<1>11. /\ Placed(all, 0, a) /\ Placed(all, na, b) /\ Placed(all, n2, c) /\ Placed(all, n3, d)
       /\ Placed(all, n4, e) /\ Placed(all, n5, f)
  <2>1. \A i \in 1..na : all[0 + i] = a[i]
    BY <1>a, <1>10
  <2> QED BY <1>a, <1>6, <1>7, <1>8, <1>9, <1>10, <2>1 DEF Placed
<1>12. n2 = na + nb /\ n3 = na + nb + nc /\ n4 = na + nb + nc + nd /\ n5 = na + nb + nc + nd + ne
  BY DEF n2, n3, n4, n5
<1>13. all \in Seq(S) /\ Len(all) = na + nb + nc + nd + ne + nf
  BY <1>6, <1>12
<1> QED BY <1>11, <1>12, <1>13 DEF na, nb, nc, nd, ne, nf

-----------------------------------------------------------------------------
(* Numbers and their bits *)

Bit(v, j) == (v \div 2^j) % 2 = 1

Low(v, j) == v % 2^j

\* The powers of two that come up.
LEMMA Powers ==
  /\ 2^0 = 1 /\ 2^1 = 2 /\ 2^2 = 4 /\ 2^3 = 8 /\ 2^4 = 16 /\ 2^5 = 32 /\ 2^6 = 64 /\ 2^7 = 128
  /\ 2^8 = 256 /\ 2^9 = 512 /\ 2^10 = 1024 /\ 2^11 = 2048 /\ 2^12 = 4096 /\ 2^13 = 8192
  /\ 2^14 = 16384 /\ 2^15 = 32768 /\ 2^16 = 65536
BY SMT

\* A number up to a bit, and what that bit adds.
LEMMA LowFacts ==
  ASSUME NEW v \in Half
  PROVE  /\ Low(v, 0) = 0
         /\ \A j \in 0..15 : /\ 2^j \in Nat /\ 2^(j + 1) = 2^j + 2^j
                             /\ Low(v, j) \in Nat /\ Low(v, j) < 2^j
                             /\ Low(v, j + 1) = Low(v, j) + (IF Bit(v, j) THEN 2^j ELSE 0)
         /\ \A j \in 0..16 : v < 2^j => Low(v, j) = v
<1>1. v \in Nat /\ v < 65536
  BY SMT DEF Half
<1> DEFINE Step(j) == /\ 2^j \in Nat /\ 2^(j + 1) = 2^j + 2^j
                      /\ Low(v, j) \in Nat /\ Low(v, j) < 2^j
                      /\ Low(v, j + 1) = Low(v, j) + (IF Bit(v, j) THEN 2^j ELSE 0)
                      /\ (v < 2^j => Low(v, j) = v)
<1>2. ASSUME NEW j, j = 0 PROVE Step(j)
  <2>1. 2^j = 1 /\ 2^(j + 1) = 2
    BY <1>2, Powers, SMT
  <2>2. Low(v, j) = v % 1 /\ Low(v, j + 1) = v % 2 /\ (Bit(v, j) <=> (v \div 1) % 2 = 1)
    BY <2>1 DEF Low, Bit
  <2>3. /\ v % 1 \in Nat /\ v % 1 < 1 /\ (v < 1 => v % 1 = v)
        /\ v % 2 = (v % 1) + (IF (v \div 1) % 2 = 1 THEN 1 ELSE 0)
    BY <1>1, SMT
  <2> QED BY <2>1, <2>2, <2>3, SMT
<1>3. ASSUME NEW j, j = 1 PROVE Step(j)
  <2>1. 2^j = 2 /\ 2^(j + 1) = 4
    BY <1>3, Powers, SMT
  <2>2. Low(v, j) = v % 2 /\ Low(v, j + 1) = v % 4 /\ (Bit(v, j) <=> (v \div 2) % 2 = 1)
    BY <2>1 DEF Low, Bit
  <2>3. /\ v % 2 \in Nat /\ v % 2 < 2 /\ (v < 2 => v % 2 = v)
        /\ v % 4 = (v % 2) + (IF (v \div 2) % 2 = 1 THEN 2 ELSE 0)
    BY <1>1, SMT
  <2> QED BY <2>1, <2>2, <2>3, SMT
<1>4. ASSUME NEW j, j = 2 PROVE Step(j)
  <2>1. 2^j = 4 /\ 2^(j + 1) = 8
    BY <1>4, Powers, SMT
  <2>2. Low(v, j) = v % 4 /\ Low(v, j + 1) = v % 8 /\ (Bit(v, j) <=> (v \div 4) % 2 = 1)
    BY <2>1 DEF Low, Bit
  <2>3. /\ v % 4 \in Nat /\ v % 4 < 4 /\ (v < 4 => v % 4 = v)
        /\ v % 8 = (v % 4) + (IF (v \div 4) % 2 = 1 THEN 4 ELSE 0)
    BY <1>1, SMT
  <2> QED BY <2>1, <2>2, <2>3, SMT
<1>5. ASSUME NEW j, j = 3 PROVE Step(j)
  <2>1. 2^j = 8 /\ 2^(j + 1) = 16
    BY <1>5, Powers, SMT
  <2>2. Low(v, j) = v % 8 /\ Low(v, j + 1) = v % 16 /\ (Bit(v, j) <=> (v \div 8) % 2 = 1)
    BY <2>1 DEF Low, Bit
  <2>3. /\ v % 8 \in Nat /\ v % 8 < 8 /\ (v < 8 => v % 8 = v)
        /\ v % 16 = (v % 8) + (IF (v \div 8) % 2 = 1 THEN 8 ELSE 0)
    BY <1>1, SMT
  <2> QED BY <2>1, <2>2, <2>3, SMT
<1>6. ASSUME NEW j, j = 4 PROVE Step(j)
  <2>1. 2^j = 16 /\ 2^(j + 1) = 32
    BY <1>6, Powers, SMT
  <2>2. Low(v, j) = v % 16 /\ Low(v, j + 1) = v % 32 /\ (Bit(v, j) <=> (v \div 16) % 2 = 1)
    BY <2>1 DEF Low, Bit
  <2>3. /\ v % 16 \in Nat /\ v % 16 < 16 /\ (v < 16 => v % 16 = v)
        /\ v % 32 = (v % 16) + (IF (v \div 16) % 2 = 1 THEN 16 ELSE 0)
    BY <1>1, SMT
  <2> QED BY <2>1, <2>2, <2>3, SMT
<1>7. ASSUME NEW j, j = 5 PROVE Step(j)
  <2>1. 2^j = 32 /\ 2^(j + 1) = 64
    BY <1>7, Powers, SMT
  <2>2. Low(v, j) = v % 32 /\ Low(v, j + 1) = v % 64 /\ (Bit(v, j) <=> (v \div 32) % 2 = 1)
    BY <2>1 DEF Low, Bit
  <2>3. /\ v % 32 \in Nat /\ v % 32 < 32 /\ (v < 32 => v % 32 = v)
        /\ v % 64 = (v % 32) + (IF (v \div 32) % 2 = 1 THEN 32 ELSE 0)
    BY <1>1, SMT
  <2> QED BY <2>1, <2>2, <2>3, SMT
<1>8. ASSUME NEW j, j = 6 PROVE Step(j)
  <2>1. 2^j = 64 /\ 2^(j + 1) = 128
    BY <1>8, Powers, SMT
  <2>2. Low(v, j) = v % 64 /\ Low(v, j + 1) = v % 128 /\ (Bit(v, j) <=> (v \div 64) % 2 = 1)
    BY <2>1 DEF Low, Bit
  <2>3. /\ v % 64 \in Nat /\ v % 64 < 64 /\ (v < 64 => v % 64 = v)
        /\ v % 128 = (v % 64) + (IF (v \div 64) % 2 = 1 THEN 64 ELSE 0)
    BY <1>1, SMT
  <2> QED BY <2>1, <2>2, <2>3, SMT
<1>9. ASSUME NEW j, j = 7 PROVE Step(j)
  <2>1. 2^j = 128 /\ 2^(j + 1) = 256
    BY <1>9, Powers, SMT
  <2>2. Low(v, j) = v % 128 /\ Low(v, j + 1) = v % 256 /\ (Bit(v, j) <=> (v \div 128) % 2 = 1)
    BY <2>1 DEF Low, Bit
  <2>3. /\ v % 128 \in Nat /\ v % 128 < 128 /\ (v < 128 => v % 128 = v)
        /\ v % 256 = (v % 128) + (IF (v \div 128) % 2 = 1 THEN 128 ELSE 0)
    BY <1>1, SMT
  <2> QED BY <2>1, <2>2, <2>3, SMT
<1>10. ASSUME NEW j, j = 8 PROVE Step(j)
  <2>1. 2^j = 256 /\ 2^(j + 1) = 512
    BY <1>10, Powers, SMT
  <2>2. Low(v, j) = v % 256 /\ Low(v, j + 1) = v % 512 /\ (Bit(v, j) <=> (v \div 256) % 2 = 1)
    BY <2>1 DEF Low, Bit
  <2>3. /\ v % 256 \in Nat /\ v % 256 < 256 /\ (v < 256 => v % 256 = v)
        /\ v % 512 = (v % 256) + (IF (v \div 256) % 2 = 1 THEN 256 ELSE 0)
    BY <1>1, SMT
  <2> QED BY <2>1, <2>2, <2>3, SMT
<1>11. ASSUME NEW j, j = 9 PROVE Step(j)
  <2>1. 2^j = 512 /\ 2^(j + 1) = 1024
    BY <1>11, Powers, SMT
  <2>2. Low(v, j) = v % 512 /\ Low(v, j + 1) = v % 1024 /\ (Bit(v, j) <=> (v \div 512) % 2 = 1)
    BY <2>1 DEF Low, Bit
  <2>3. /\ v % 512 \in Nat /\ v % 512 < 512 /\ (v < 512 => v % 512 = v)
        /\ v % 1024 = (v % 512) + (IF (v \div 512) % 2 = 1 THEN 512 ELSE 0)
    BY <1>1, SMT
  <2> QED BY <2>1, <2>2, <2>3, SMT
<1>12. ASSUME NEW j, j = 10 PROVE Step(j)
  <2>1. 2^j = 1024 /\ 2^(j + 1) = 2048
    BY <1>12, Powers, SMT
  <2>2. Low(v, j) = v % 1024 /\ Low(v, j + 1) = v % 2048 /\ (Bit(v, j) <=> (v \div 1024) % 2 = 1)
    BY <2>1 DEF Low, Bit
  <2>3. /\ v % 1024 \in Nat /\ v % 1024 < 1024 /\ (v < 1024 => v % 1024 = v)
        /\ v % 2048 = (v % 1024) + (IF (v \div 1024) % 2 = 1 THEN 1024 ELSE 0)
    BY <1>1, SMT
  <2> QED BY <2>1, <2>2, <2>3, SMT
<1>13. ASSUME NEW j, j = 11 PROVE Step(j)
  <2>1. 2^j = 2048 /\ 2^(j + 1) = 4096
    BY <1>13, Powers, SMT
  <2>2. Low(v, j) = v % 2048 /\ Low(v, j + 1) = v % 4096 /\ (Bit(v, j) <=> (v \div 2048) % 2 = 1)
    BY <2>1 DEF Low, Bit
  <2>3. /\ v % 2048 \in Nat /\ v % 2048 < 2048 /\ (v < 2048 => v % 2048 = v)
        /\ v % 4096 = (v % 2048) + (IF (v \div 2048) % 2 = 1 THEN 2048 ELSE 0)
    BY <1>1, SMT
  <2> QED BY <2>1, <2>2, <2>3, SMT
<1>14. ASSUME NEW j, j = 12 PROVE Step(j)
  <2>1. 2^j = 4096 /\ 2^(j + 1) = 8192
    BY <1>14, Powers, SMT
  <2>2. Low(v, j) = v % 4096 /\ Low(v, j + 1) = v % 8192 /\ (Bit(v, j) <=> (v \div 4096) % 2 = 1)
    BY <2>1 DEF Low, Bit
  <2>3. /\ v % 4096 \in Nat /\ v % 4096 < 4096 /\ (v < 4096 => v % 4096 = v)
        /\ v % 8192 = (v % 4096) + (IF (v \div 4096) % 2 = 1 THEN 4096 ELSE 0)
    BY <1>1, SMT
  <2> QED BY <2>1, <2>2, <2>3, SMT
<1>15. ASSUME NEW j, j = 13 PROVE Step(j)
  <2>1. 2^j = 8192 /\ 2^(j + 1) = 16384
    BY <1>15, Powers, SMT
  <2>2. Low(v, j) = v % 8192 /\ Low(v, j + 1) = v % 16384 /\ (Bit(v, j) <=> (v \div 8192) % 2 = 1)
    BY <2>1 DEF Low, Bit
  <2>3. /\ v % 8192 \in Nat /\ v % 8192 < 8192 /\ (v < 8192 => v % 8192 = v)
        /\ v % 16384 = (v % 8192) + (IF (v \div 8192) % 2 = 1 THEN 8192 ELSE 0)
    BY <1>1, SMT
  <2> QED BY <2>1, <2>2, <2>3, SMT
<1>16. ASSUME NEW j, j = 14 PROVE Step(j)
  <2>1. 2^j = 16384 /\ 2^(j + 1) = 32768
    BY <1>16, Powers, SMT
  <2>2. Low(v, j) = v % 16384 /\ Low(v, j + 1) = v % 32768 /\ (Bit(v, j) <=> (v \div 16384) % 2 = 1)
    BY <2>1 DEF Low, Bit
  <2>3. /\ v % 16384 \in Nat /\ v % 16384 < 16384 /\ (v < 16384 => v % 16384 = v)
        /\ v % 32768 = (v % 16384) + (IF (v \div 16384) % 2 = 1 THEN 16384 ELSE 0)
    BY <1>1, SMT
  <2> QED BY <2>1, <2>2, <2>3, SMT
<1>17. ASSUME NEW j, j = 15 PROVE Step(j)
  <2>1. 2^j = 32768 /\ 2^(j + 1) = 65536
    BY <1>17, Powers, SMT
  <2>2. Low(v, j) = v % 32768 /\ Low(v, j + 1) = v % 65536 /\ (Bit(v, j) <=> (v \div 32768) % 2 = 1)
    BY <2>1 DEF Low, Bit
  <2>3. /\ v % 32768 \in Nat /\ v % 32768 < 32768 /\ (v < 32768 => v % 32768 = v)
        /\ v % 65536 = (v % 32768) + (IF (v \div 32768) % 2 = 1 THEN 32768 ELSE 0)
    BY <1>1, SMT
  <2> QED BY <2>1, <2>2, <2>3, SMT
<1>18. \A j \in 0..15 : Step(j)
  <2> SUFFICES ASSUME NEW j \in 0..15 PROVE Step(j)
    OBVIOUS
  <2>1. \/ j = 0 \/ j = 1 \/ j = 2 \/ j = 3 \/ j = 4 \/ j = 5 \/ j = 6 \/ j = 7 \/ j = 8 \/ j = 9
        \/ j = 10 \/ j = 11 \/ j = 12 \/ j = 13 \/ j = 14 \/ j = 15
    OBVIOUS
  <2> HIDE DEF Step
  <2> QED BY <2>1, <1>2, <1>3, <1>4, <1>5, <1>6, <1>7, <1>8, <1>9, <1>10, <1>11, <1>12, <1>13, <1>14, <1>15, <1>16, <1>17
<1>19. Low(v, 16) = v /\ Low(v, 0) = 0
  BY <1>1, Powers, SMT DEF Low
<1>20. ASSUME NEW j \in 0..16, v < 2^j PROVE Low(v, j) = v
  <2>1. j = 16 \/ j \in 0..15
    OBVIOUS
  <2> QED BY <1>18, <1>19, <1>20, <2>1
<1> QED BY <1>18, <1>19, <1>20

\* the number v is written in n bits of set from shift on
Shows(set, shift, n, v) == \A j \in 0..n - 1 : shift + j \in set <=> Bit(v, j)

\* The number that Bits reads has n bits, and is v when the bits are those of v.
LEMMA BitsFacts ==
  ASSUME NEW set, NEW shift \in Nat, NEW n \in 0..16
  PROVE  /\ ARM!Bits(set, shift, n) \in Nat /\ ARM!Bits(set, shift, n) < 2^n
         /\ \A v \in Half : v < 2^n =>
              (ARM!Bits(set, shift, n) = v <=> Shows(set, shift, n, v))
<1> DEFINE Term(k) == IF shift + k - 1 \in set THEN 2^(k - 1) ELSE 0
           Body(g, k) == IF k = 0 THEN 0 ELSE g[k - 1] + Term(k)
           Solves(g) == g = [k \in 0..n |-> Body(g, k)]
           value == CHOOSE g : Solves(g)
           F == [x \in Nat \X (1..n) |-> x[1] + Term(x[2])]
<1>0. n \in Nat /\ n <= 16
  OBVIOUS
<1>1. \A j \in 0..15 : 2^j \in Nat /\ 2^(j + 1) = 2^j + 2^j
  <2>1. 0 \in Half
    BY SMT DEF Half
  <2> QED BY <2>1, LowFacts
<1>2. ASSUME NEW k \in 1..n PROVE Term(k) \in Nat
  <2>1. k - 1 \in 0..15
    BY <1>0
  <2> QED BY <1>1, <2>1
<1> HIDE DEF Term
<1>3. F \in [Nat \X (1..n) -> Nat]
  <2>1. ASSUME NEW x \in Nat \X (1..n) PROVE x[1] + Term(x[2]) \in Nat
    <3>1. x[1] \in Nat /\ Term(x[2]) \in Nat
      BY <1>2
    <3> QED BY <3>1
  <2> QED BY <2>1
<1>4. PICK f : IsRun(f, Nat, 0, F, n)
  <2> HIDE DEF F
  <2> QED BY <1>0, <1>3, RunExists
<1>5. f \in [0..n -> Nat] /\ f[0] = 0 /\ \A k \in 1..n : f[k] = f[k - 1] + Term(k)
  <2>1. ASSUME NEW k \in 1..n PROVE f[k] = f[k - 1] + Term(k)
    <3>1. k - 1 \in 0..n
      BY <1>0
    <3>2. f[k - 1] \in Nat /\ f[k] = F[<<f[k - 1], k>>]
      <4> HIDE DEF F
      <4> QED BY <1>4, <3>1 DEF IsRun
    <3> QED BY <3>2
  <2> QED BY <1>4, <2>1 DEF IsRun
<1> HIDE DEF F
<1>6. Solves(f)
  <2>1. ASSUME NEW k \in 0..n PROVE f[k] = Body(f, k)
    <3>1. k = 0 \/ k \in 1..n
      BY <1>0
    <3> QED BY <1>5, <3>1
  <2>2. f = [k \in 0..n |-> f[k]]
    BY <1>5
  <2> HIDE DEF Body
  <2> QED BY <2>1, <2>2
<1>7. ASSUME NEW g, Solves(g) PROVE g[n] = f[n]
  <2> DEFINE T == {k \in 0..n : g[k] = f[k]}
  <2>1. \A k \in 0..n : g[k] = Body(g, k)
    <3> HIDE DEF Body
    <3> QED BY <1>7
  <2>2. 0 \in T
    BY <1>0, <1>5, <2>1
  <2>3. \A k \in 0..n - 1 : k \in T => k + 1 \in T
    <3> SUFFICES ASSUME NEW k \in 0..n - 1, k \in T PROVE k + 1 \in T
      OBVIOUS
    <3>1. k + 1 \in 1..n /\ k + 1 \in 0..n /\ k + 1 # 0 /\ (k + 1) - 1 = k
      BY <1>0
    <3>2. g[k + 1] = g[(k + 1) - 1] + Term(k + 1) /\ f[k + 1] = f[(k + 1) - 1] + Term(k + 1)
      BY <1>5, <2>1, <3>1
    <3> QED BY <3>1, <3>2
  <2>4. 0..n \subseteq T
    <3> HIDE DEF T
    <3> QED BY <1>0, <2>2, <2>3, BoundedInduction
  <2> QED BY <1>0, <2>4
<1>8. ARM!Bits(set, shift, n) = f[n]
  <2>1. Solves(value)
    <3> HIDE DEF Solves
    <3> QED BY <1>6
  <2>2. value[n] = f[n]
    <3> HIDE DEF Solves, value
    <3> QED BY <1>7, <2>1
  <2>3. ARM!Bits(set, shift, n) = value[n]
    BY Zenon DEF ARM!Bits, Term
  <2> QED BY <2>2, <2>3
<1> HIDE DEF Solves, value
\* each term is a power of two or zero, as the set has it
<1>9. ASSUME NEW j \in 0..n - 1
      PROVE  /\ j + 1 \in 1..n /\ j \in 0..15 /\ j \in 0..n /\ j + 1 \in 0..n
             /\ f[j + 1] = f[j] + (IF shift + j \in set THEN 2^j ELSE 0)
  <2>1. j + 1 \in 1..n /\ j \in 0..15 /\ j \in 0..n /\ j + 1 \in 0..n /\ (j + 1) - 1 = j
    BY <1>0
  <2>2. f[j + 1] = f[(j + 1) - 1] + Term(j + 1)
    BY <1>5, <2>1
  <2>3. Term(j + 1) = IF shift + j \in set THEN 2^j ELSE 0
    <3>1. shift + (j + 1) - 1 = shift + j
      BY <2>1
    <3> QED BY <2>1, <3>1 DEF Term
  <2> QED BY <2>1, <2>2, <2>3
<1>10. \A k \in 0..n : f[k] < 2^k
  <2> DEFINE T == {k \in 0..n : f[k] < 2^k}
  <2>1. 0 \in T
    BY <1>0, <1>5, Powers
  <2>2. \A k \in 0..n - 1 : k \in T => k + 1 \in T
    <3> SUFFICES ASSUME NEW k \in 0..n - 1, k \in T PROVE k + 1 \in T
      OBVIOUS
    <3>1. f[k] \in Nat /\ 2^k \in Nat /\ 2^(k + 1) = 2^k + 2^k /\ k + 1 \in 0..n
      BY <1>1, <1>5, <1>9
    <3>2. f[k + 1] = f[k] + (IF shift + k \in set THEN 2^k ELSE 0) /\ f[k] < 2^k
      BY <1>9
    <3>3. f[k + 1] < 2^(k + 1)
      <4>1. PICK e, p : e = f[k] /\ p = 2^k
        OBVIOUS
      <4>2. f[k + 1] = e \/ f[k + 1] = e + p
        BY <3>1, <3>2, <4>1
      <4>3. e \in Nat /\ p \in Nat /\ e < p /\ 2^(k + 1) = p + p
        BY <3>1, <3>2, <4>1
      <4> QED BY <4>2, <4>3
    <3> QED BY <3>1, <3>3
  <2>3. 0..n \subseteq T
    <3> HIDE DEF T
    <3> QED BY <1>0, <2>1, <2>2, BoundedInduction
  <2> QED BY <2>3
<1>11. ASSUME NEW v \in Half, v < 2^n, Shows(set, shift, n, v) PROVE f[n] = v
  <2> DEFINE T == {k \in 0..n : f[k] = Low(v, k)}
  <2>1. 0 \in T
    BY <1>0, <1>5, LowFacts
  <2>2. \A k \in 0..n - 1 : k \in T => k + 1 \in T
    <3> SUFFICES ASSUME NEW k \in 0..n - 1, k \in T PROVE k + 1 \in T
      OBVIOUS
    <3>1. Low(v, k + 1) = Low(v, k) + (IF Bit(v, k) THEN 2^k ELSE 0)
      BY <1>9, LowFacts
    <3>2. f[k + 1] = f[k] + (IF shift + k \in set THEN 2^k ELSE 0) /\ k + 1 \in 0..n
      BY <1>9
    <3>3. shift + k \in set <=> Bit(v, k)
      BY <1>11 DEF Shows
    <3> QED BY <3>1, <3>2, <3>3
  <2>3. 0..n \subseteq T
    <3> HIDE DEF T
    <3> QED BY <1>0, <2>1, <2>2, BoundedInduction
  <2>4. f[n] = Low(v, n)
    BY <1>0, <2>3
  <2> QED BY <1>0, <1>11, <2>4, LowFacts
<1>12. ASSUME NEW v \in Half, v < 2^n, f[n] = v PROVE Shows(set, shift, n, v)
  <2> DEFINE Agree(k) == f[k] = Low(v, k) /\ \A j \in k..n - 1 : shift + j \in set <=> Bit(v, j)
             T == {d \in 0..n : Agree(n - d)}
  <2>1. 0 \in T
    <3>1. n - 0 = n /\ n..n - 1 = {}
      BY <1>0
    <3>2. Low(v, n) = v
      BY <1>12, LowFacts
    <3> QED BY <1>0, <1>12, <3>1, <3>2
  <2>2. \A d \in 0..n - 1 : d \in T => d + 1 \in T
    <3> SUFFICES ASSUME NEW d \in 0..n - 1, d \in T PROVE d + 1 \in T
      OBVIOUS
    <3>1. PICK k : k = n - (d + 1)
      OBVIOUS
    <3>2. k \in 0..n - 1 /\ n - d = k + 1 /\ d + 1 \in 0..n
      BY <1>0, <3>1
    <3>3. f[k + 1] = Low(v, k + 1) /\ \A j \in k + 1..n - 1 : shift + j \in set <=> Bit(v, j)
      BY <3>2
    <3>4. Low(v, k + 1) = Low(v, k) + (IF Bit(v, k) THEN 2^k ELSE 0)
      BY <1>9, <3>2, LowFacts
    <3>5. f[k + 1] = f[k] + (IF shift + k \in set THEN 2^k ELSE 0)
      BY <1>9, <3>2
    <3>6. /\ f[k] \in Nat /\ f[k] < 2^k /\ 2^k \in Nat /\ Low(v, k) \in Nat /\ Low(v, k) < 2^k
      BY <1>1, <1>5, <1>9, <1>10, <3>2, LowFacts
    <3>7. f[k] = Low(v, k) /\ (shift + k \in set <=> Bit(v, k))
      <4>1. PICK e, p, l : e = f[k] /\ p = 2^k /\ l = Low(v, k)
        OBVIOUS
      <4>2. e \in Nat /\ p \in Nat /\ l \in Nat /\ e < p /\ l < p
        BY <3>6, <4>1
      <4>3. e + (IF shift + k \in set THEN p ELSE 0) = l + (IF Bit(v, k) THEN p ELSE 0)
        BY <3>3, <3>4, <3>5, <4>1, Zenon
      <4>4. CASE shift + k \in set
        <5>1. e + p = l + (IF Bit(v, k) THEN p ELSE 0)
          BY <4>3, <4>4
        <5>2. CASE Bit(v, k)
          <6>1. e + p = l + p
            BY <5>1, <5>2
          <6>2. e = l
            BY <4>2, <6>1
          <6> QED BY <4>1, <4>4, <5>2, <6>2
        <5>3. CASE ~Bit(v, k)
          <6>1. e + p = l + 0
            BY <5>1, <5>3
          <6> QED BY <4>2, <6>1
        <5> QED BY <5>2, <5>3
      <4>5. CASE ~(shift + k \in set)
        <5>1. e + 0 = l + (IF Bit(v, k) THEN p ELSE 0)
          BY <4>3, <4>5
        <5>2. CASE Bit(v, k)
          <6>1. e + 0 = l + p
            BY <5>1, <5>2
          <6> QED BY <4>2, <6>1
        <5>3. CASE ~Bit(v, k)
          <6>1. e + 0 = l + 0
            BY <5>1, <5>3
          <6>2. e = l
            BY <4>2, <6>1
          <6> QED BY <4>1, <4>5, <5>3, <6>2
        <5> QED BY <5>2, <5>3
      <4> QED BY <4>4, <4>5
    <3>8. ASSUME NEW j \in k..n - 1 PROVE shift + j \in set <=> Bit(v, j)
      <4>1. j = k \/ j \in k + 1..n - 1
        BY <1>0, <3>2
      <4> QED BY <3>3, <3>7, <4>1
    <3> QED BY <3>1, <3>2, <3>7, <3>8
  <2>3. 0..n \subseteq T
    <3> HIDE DEF T
    <3> QED BY <1>0, <2>1, <2>2, BoundedInduction
  <2>4. n \in T /\ n - n = 0
    BY <1>0, <2>3
  <2> QED BY <2>4 DEF Shows
<1>13. f[n] \in Nat /\ f[n] < 2^n
  BY <1>0, <1>5, <1>10
<1> QED BY <1>8, <1>11, <1>12, <1>13

-----------------------------------------------------------------------------
(* arm64: words as sets of bits *)

\* The bits of a number and of twice the number.
LEMMA BitDouble ==
  ASSUME NEW v \in Nat, NEW b \in 0..1
  PROVE  (Bit(2 * v + b, 0) <=> b = 1) /\ \A j \in 0..14 : Bit(2 * v + b, j + 1) <=> Bit(v, j)
<1> DEFINE Step(j) == Bit(2 * v + b, j + 1) <=> Bit(v, j)
<1>1. ASSUME NEW j, j = 0 PROVE Step(j)
  <2>1. 2^j = 1 /\ 2^(j + 1) = 2
    BY <1>1, Powers, SMT
  <2>2. (2 * v + b) \div 2 = v \div 1
    BY SMT
  <2> QED BY <2>1, <2>2 DEF Bit
<1>2. ASSUME NEW j, j = 1 PROVE Step(j)
  <2>1. 2^j = 2 /\ 2^(j + 1) = 4
    BY <1>2, Powers, SMT
  <2>2. (2 * v + b) \div 4 = v \div 2
    BY SMT
  <2> QED BY <2>1, <2>2 DEF Bit
<1>3. ASSUME NEW j, j = 2 PROVE Step(j)
  <2>1. 2^j = 4 /\ 2^(j + 1) = 8
    BY <1>3, Powers, SMT
  <2>2. (2 * v + b) \div 8 = v \div 4
    BY SMT
  <2> QED BY <2>1, <2>2 DEF Bit
<1>4. ASSUME NEW j, j = 3 PROVE Step(j)
  <2>1. 2^j = 8 /\ 2^(j + 1) = 16
    BY <1>4, Powers, SMT
  <2>2. (2 * v + b) \div 16 = v \div 8
    BY SMT
  <2> QED BY <2>1, <2>2 DEF Bit
<1>5. ASSUME NEW j, j = 4 PROVE Step(j)
  <2>1. 2^j = 16 /\ 2^(j + 1) = 32
    BY <1>5, Powers, SMT
  <2>2. (2 * v + b) \div 32 = v \div 16
    BY SMT
  <2> QED BY <2>1, <2>2 DEF Bit
<1>6. ASSUME NEW j, j = 5 PROVE Step(j)
  <2>1. 2^j = 32 /\ 2^(j + 1) = 64
    BY <1>6, Powers, SMT
  <2>2. (2 * v + b) \div 64 = v \div 32
    BY SMT
  <2> QED BY <2>1, <2>2 DEF Bit
<1>7. ASSUME NEW j, j = 6 PROVE Step(j)
  <2>1. 2^j = 64 /\ 2^(j + 1) = 128
    BY <1>7, Powers, SMT
  <2>2. (2 * v + b) \div 128 = v \div 64
    BY SMT
  <2> QED BY <2>1, <2>2 DEF Bit
<1>8. ASSUME NEW j, j = 7 PROVE Step(j)
  <2>1. 2^j = 128 /\ 2^(j + 1) = 256
    BY <1>8, Powers, SMT
  <2>2. (2 * v + b) \div 256 = v \div 128
    BY SMT
  <2> QED BY <2>1, <2>2 DEF Bit
<1>9. ASSUME NEW j, j = 8 PROVE Step(j)
  <2>1. 2^j = 256 /\ 2^(j + 1) = 512
    BY <1>9, Powers, SMT
  <2>2. (2 * v + b) \div 512 = v \div 256
    BY SMT
  <2> QED BY <2>1, <2>2 DEF Bit
<1>10. ASSUME NEW j, j = 9 PROVE Step(j)
  <2>1. 2^j = 512 /\ 2^(j + 1) = 1024
    BY <1>10, Powers, SMT
  <2>2. (2 * v + b) \div 1024 = v \div 512
    BY SMT
  <2> QED BY <2>1, <2>2 DEF Bit
<1>11. ASSUME NEW j, j = 10 PROVE Step(j)
  <2>1. 2^j = 1024 /\ 2^(j + 1) = 2048
    BY <1>11, Powers, SMT
  <2>2. (2 * v + b) \div 2048 = v \div 1024
    BY SMT
  <2> QED BY <2>1, <2>2 DEF Bit
<1>12. ASSUME NEW j, j = 11 PROVE Step(j)
  <2>1. 2^j = 2048 /\ 2^(j + 1) = 4096
    BY <1>12, Powers, SMT
  <2>2. (2 * v + b) \div 4096 = v \div 2048
    BY SMT
  <2> QED BY <2>1, <2>2 DEF Bit
<1>13. ASSUME NEW j, j = 12 PROVE Step(j)
  <2>1. 2^j = 4096 /\ 2^(j + 1) = 8192
    BY <1>13, Powers, SMT
  <2>2. (2 * v + b) \div 8192 = v \div 4096
    BY SMT
  <2> QED BY <2>1, <2>2 DEF Bit
<1>14. ASSUME NEW j, j = 13 PROVE Step(j)
  <2>1. 2^j = 8192 /\ 2^(j + 1) = 16384
    BY <1>14, Powers, SMT
  <2>2. (2 * v + b) \div 16384 = v \div 8192
    BY SMT
  <2> QED BY <2>1, <2>2 DEF Bit
<1>15. ASSUME NEW j, j = 14 PROVE Step(j)
  <2>1. 2^j = 16384 /\ 2^(j + 1) = 32768
    BY <1>15, Powers, SMT
  <2>2. (2 * v + b) \div 32768 = v \div 16384
    BY SMT
  <2> QED BY <2>1, <2>2 DEF Bit
<1>16. \A j \in 0..14 : Step(j)
  <2> SUFFICES ASSUME NEW j \in 0..14 PROVE Step(j)
    OBVIOUS
  <2>1. \/ j = 0 \/ j = 1 \/ j = 2 \/ j = 3 \/ j = 4 \/ j = 5 \/ j = 6 \/ j = 7 \/ j = 8 \/ j = 9
        \/ j = 10 \/ j = 11 \/ j = 12 \/ j = 13 \/ j = 14
    OBVIOUS
  <2> HIDE DEF Step
  <2> QED BY <2>1, <1>1, <1>2, <1>3, <1>4, <1>5, <1>6, <1>7, <1>8, <1>9, <1>10, <1>11, <1>12, <1>13, <1>14, <1>15
<1>17. Bit(2 * v + b, 0) <=> b = 1
  <2>1. 2^0 = 1 /\ (2 * v + b) \div 1 = 2 * v + b /\ (2 * v + b) % 2 = b
    BY SMT
  <2> QED BY <2>1 DEF Bit
<1> QED BY <1>16, <1>17

\* A number has no bit from its width on.
LEMMA NoHighBit ==
  ASSUME NEW v \in Half, NEW w \in 0..16, v < 2^w, NEW j \in w..15
  PROVE  ~Bit(v, j)
<1>1. \A i \in 0..15 : /\ 2^i \in Nat /\ 2^(i + 1) = 2^i + 2^i
                       /\ Low(v, i + 1) = Low(v, i) + (IF Bit(v, i) THEN 2^i ELSE 0)
  BY LowFacts
<1>2. v \in Nat
  BY SMT DEF Half
<1> DEFINE T == {d \in 0..16 - w : v < 2^(w + d)}
<1>3. 0 \in T
  OBVIOUS
<1>4. \A d \in 0..(16 - w) - 1 : d \in T => d + 1 \in T
  <2> SUFFICES ASSUME NEW d \in 0..(16 - w) - 1, d \in T PROVE d + 1 \in T
    OBVIOUS
  <2>1. PICK i : i = w + d
    OBVIOUS
  <2>2. i \in 0..15 /\ w + (d + 1) = i + 1 /\ d + 1 \in 0..16 - w
    BY <2>1
  <2>3. v < 2^i
    BY <2>1
  <2>4. PICK p : p = 2^i
    OBVIOUS
  <2>5. p \in Nat /\ v < p /\ 2^(i + 1) = p + p
    BY <1>1, <2>2, <2>3, <2>4
  <2>6. v < 2^(i + 1)
    BY <1>2, <2>5
  <2> QED BY <2>2, <2>6
<1>5. 0..16 - w \subseteq T
  <2>1. 16 - w \in Nat
    OBVIOUS
  <2> HIDE DEF T
  <2> QED BY <1>3, <1>4, <2>1, BoundedInduction
<1>6. v < 2^j /\ v < 2^(j + 1)
  <2>1. j - w \in 0..16 - w /\ (j + 1) - w \in 0..16 - w /\ w + (j - w) = j /\ w + ((j + 1) - w) = j + 1
    OBVIOUS
  <2>2. v < 2^(w + (j - w)) /\ v < 2^(w + ((j + 1) - w))
    BY <1>5, <2>1
  <2> QED BY <2>1, <2>2
<1>7. j \in 0..15 /\ j \in 0..16 /\ j + 1 \in 0..16
  OBVIOUS
<1>8. Low(v, j) = v /\ Low(v, j + 1) = v
  BY <1>6, <1>7, LowFacts
<1>9. PICK p : p = 2^j
  OBVIOUS
<1>10. p \in Nat /\ v < p /\ v = v + (IF Bit(v, j) THEN p ELSE 0)
  BY <1>1, <1>6, <1>7, <1>8, <1>9
<1> QED BY <1>2, <1>10

\* f holds the w bits of v from bit from on, and nothing else
Lies(f, from, w, v) ==
  \A b \in Nat : b \in f <=> from <= b /\ b < from + w /\ Bit(v, b - from)

\* What the assembler's shift does.
LEMMA FieldFacts ==
  ASSUME NEW v \in Half, NEW w \in 0..16, v < 2^w, NEW shift \in Nat, shift + w <= 32
  PROVE  Lies(ARM!Field(v, shift), shift, w, v)
<1> SUFFICES ASSUME NEW b \in Nat
             PROVE  b \in ARM!Field(v, shift) <=> shift <= b /\ b < shift + w /\ Bit(v, b - shift)
  BY DEF Lies
<1>1. b \in ARM!Field(v, shift) <=> b \in shift..31 /\ b - shift < 16 /\ Bit(v, b - shift)
  BY DEF ARM!Field, Bit
<1>2. ASSUME b \in shift..31, b - shift < 16, Bit(v, b - shift) PROVE b < shift + w
  <2>1. PICK j : j = b - shift
    OBVIOUS
  <2>2. CASE j \in w..15
    BY <1>2, <2>1, <2>2, NoHighBit
  <2>3. CASE j \notin w..15
    BY <1>2, <2>1, <2>3
  <2> QED BY <2>2, <2>3
<1>3. shift <= b /\ b < shift + w => b \in shift..31 /\ b - shift < 16
  OBVIOUS
<1>4. b \in shift..31 => shift <= b
  OBVIOUS
<1> QED BY <1>1, <1>2, <1>3, <1>4

\* A field of a number whose lowest bit is zero begins one bit later.
LEMMA LiesDouble ==
  ASSUME NEW f, NEW from \in Nat, NEW w \in 0..15, NEW v \in Nat, Lies(f, from, w + 1, 2 * v)
  PROVE  Lies(f, from + 1, w, v)
<1> SUFFICES ASSUME NEW b \in Nat
             PROVE  b \in f <=> from + 1 <= b /\ b < from + 1 + w /\ Bit(v, b - (from + 1))
  BY DEF Lies
<1>1. b \in f <=> from <= b /\ b < from + (w + 1) /\ Bit(2 * v, b - from)
  BY DEF Lies
<1>2. 2 * v + 0 = 2 * v /\ 0 \in 0..1 /\ 0 # 1
  OBVIOUS
<1>3. CASE b = from
  <2>1. b - from = 0
    BY <1>3
  <2>2. ~Bit(2 * v, 0)
    <3>1. Bit(2 * v + 0, 0) <=> 0 = 1
      BY <1>2, BitDouble
    <3> QED BY <1>2, <3>1
  <2>3. ~(from + 1 <= b)
    BY <1>3
  <2> QED BY <1>1, <2>1, <2>2, <2>3
<1>4. CASE from + 1 <= b /\ b < from + 1 + w
  <2>1. PICK j : j = b - (from + 1)
    OBVIOUS
  <2>2. j \in 0..14 /\ b - from = j + 1 /\ from <= b /\ b < from + (w + 1)
    BY <1>4, <2>1
  <2>3. Bit(2 * v + 0, j + 1) <=> Bit(v, j)
    BY <1>2, <2>2, BitDouble
  <2> QED BY <1>1, <1>2, <1>4, <2>1, <2>2, <2>3
<1>5. CASE b # from /\ ~(from + 1 <= b /\ b < from + 1 + w)
  <2>1. ~(from <= b /\ b < from + (w + 1))
    BY <1>5
  <2> QED BY <1>1, <1>5, <2>1
<1> QED BY <1>3, <1>4, <1>5

Doubles(n) == 2^n \in Nat /\ 2^(n + 1) = 2^n + 2^n /\ 2^n <= 32768

\* Each power is twice the one before.
LEMMA PowerFacts ==
  ASSUME NEW n \in 0..15
  PROVE  Doubles(n)
<1>1. \/ n = 0 \/ n = 1 \/ n = 2 \/ n = 3 \/ n = 4 \/ n = 5 \/ n = 6 \/ n = 7 \/ n = 8 \/ n = 9
      \/ n = 10 \/ n = 11 \/ n = 12 \/ n = 13 \/ n = 14 \/ n = 15
  OBVIOUS
<1>2. PICK p : p = 2^n
  OBVIOUS
<1>3. \/ p = 2^0 \/ p = 2^1 \/ p = 2^2 \/ p = 2^3 \/ p = 2^4 \/ p = 2^5 \/ p = 2^6 \/ p = 2^7
      \/ p = 2^8 \/ p = 2^9 \/ p = 2^10 \/ p = 2^11 \/ p = 2^12 \/ p = 2^13 \/ p = 2^14 \/ p = 2^15
  BY <1>1, <1>2, Zenon
<1>4. p <= 32768
  BY <1>3, Powers, SMT
<1>5. 0 \in Half
  BY SMT DEF Half
<1>6. 2^n \in Nat /\ 2^(n + 1) = 2^n + 2^n
  BY <1>5, LowFacts
<1> QED BY <1>2, <1>4, <1>6 DEF Doubles

\* One bit more.
LEMMA BitsStep ==
  ASSUME NEW word, NEW s \in Nat, NEW n \in 0..15
  PROVE  ARM!Bits(word, s, n + 1) = 2 * ARM!Bits(word, s + 1, n) + (IF s \in word THEN 1 ELSE 0)
<1>1. PICK v, b : v = ARM!Bits(word, s + 1, n) /\ b = IF s \in word THEN 1 ELSE 0
  OBVIOUS
<1>2. v \in Nat /\ v < 2^n /\ b \in 0..1 /\ s + 1 \in Nat /\ n \in 0..16 /\ n + 1 \in 0..16
  <2>1. n \in 0..16 /\ s + 1 \in Nat /\ n + 1 \in 0..16
    OBVIOUS
  <2>2. b \in 0..1
    BY <1>1
  <2> QED BY <1>1, <2>1, <2>2, BitsFacts
<1>3. 2^n \in Nat /\ 2^(n + 1) = 2^n + 2^n /\ 2^n <= 32768
  <2>1. Doubles(n)
    BY PowerFacts
  <2> QED BY <2>1 DEF Doubles
<1>4. 2 * v + b \in Half /\ v \in Half /\ 2 * v + b < 2^(n + 1)
  <2>1. PICK p : p = 2^n
    OBVIOUS
  <2>2. v \in Nat /\ v < p /\ p \in Nat /\ p <= 32768 /\ 2^(n + 1) = p + p
    BY <1>2, <1>3, <2>1
  <2> QED BY <1>2, <2>2, SMT DEF Half
<1>5. Shows(word, s + 1, n, v)
  BY <1>1, <1>2, <1>4, BitsFacts
<1>6. Shows(word, s, n + 1, 2 * v + b)
  <2> SUFFICES ASSUME NEW j \in 0..(n + 1) - 1 PROVE s + j \in word <=> Bit(2 * v + b, j)
    BY DEF Shows
  <2>1. CASE j = 0
    <3>1. Bit(2 * v + b, 0) <=> b = 1
      BY <1>2, BitDouble
    <3>2. s + 0 = s
      OBVIOUS
    <3>3. s \in word <=> b = 1
      BY <1>1
    <3> QED BY <2>1, <3>1, <3>2, <3>3
  <2>2. CASE j # 0
    <3>1. PICK i : i = j - 1
      OBVIOUS
    <3>2. i \in 0..14 /\ i \in 0..n - 1 /\ j = i + 1 /\ (s + 1) + i = s + j
      BY <2>2, <3>1
    <3>3. Bit(2 * v + b, i + 1) <=> Bit(v, i)
      BY <1>2, <3>2, BitDouble
    <3>4. (s + 1) + i \in word <=> Bit(v, i)
      BY <1>5, <3>2 DEF Shows
    <3> QED BY <3>2, <3>3, <3>4
  <2> QED BY <2>1, <2>2
<1>7. ARM!Bits(word, s, n + 1) = 2 * v + b
  BY <1>2, <1>4, <1>6, BitsFacts
<1> QED BY <1>1, <1>7

\* How the highest bits go together.
LEMMA TopFacts ==
  ASSUME NEW word
  PROVE  /\ ARM!Top(word, 9) \in Nat /\ ARM!Top(word, 10) \in Nat /\ ARM!Top(word, 11) \in Nat /\ ARM!Top(word, 16) \in Nat
         /\ ARM!Top(word, 10) = 2 * ARM!Top(word, 9) + (IF 22 \in word THEN 1 ELSE 0)
         /\ ARM!Top(word, 11) = 2 * ARM!Top(word, 10) + (IF 21 \in word THEN 1 ELSE 0)
         /\ ARM!Top(word, 16) \div 32 = ARM!Top(word, 11)
<1> DEFINE B(s) == ARM!Bits(word, s, 32 - s)
           e(s) == IF s \in word THEN 1 ELSE 0
<1>1. \A s \in 16..23 : B(s) \in Nat
  <2> SUFFICES ASSUME NEW s \in 16..23 PROVE ARM!Bits(word, s, 32 - s) \in Nat
    OBVIOUS
  <2>1. s \in Nat /\ 32 - s \in 0..16
    OBVIOUS
  <2> QED BY <2>1, BitsFacts
<1>2. \A s \in 16..22 : B(s) = 2 * B(s + 1) + e(s)
  <2> SUFFICES ASSUME NEW s \in 16..22
               PROVE  ARM!Bits(word, s, 32 - s) = 2 * ARM!Bits(word, s + 1, 32 - (s + 1)) + e(s)
    OBVIOUS
  <2>1. PICK n : n = 32 - (s + 1)
    OBVIOUS
  <2>2. s \in Nat /\ n \in 0..15 /\ 32 - s = n + 1
    BY <2>1
  <2>3. ARM!Bits(word, s, n + 1) = 2 * ARM!Bits(word, s + 1, n) + e(s)
    BY <2>2, BitsStep
  <2> QED BY <2>1, <2>2, <2>3
<1>3. ARM!Top(word, 9) = B(23) /\ ARM!Top(word, 10) = B(22) /\ ARM!Top(word, 11) = B(21) /\ ARM!Top(word, 16) = B(16)
  <2>1. /\ 32 - 9 = 23 /\ 32 - 10 = 22 /\ 32 - 11 = 21 /\ 32 - 16 = 16
        /\ 32 - 23 = 9 /\ 32 - 22 = 10 /\ 32 - 21 = 11
    OBVIOUS
  <2> QED BY <2>1, Zenon DEF ARM!Top
<1>4. \A s \in 16..22 : e(s) \in 0..1
  OBVIOUS
<1> HIDE DEF B
<1>5. B(22) = 2 * B(23) + e(22) /\ B(21) = 2 * B(22) + e(21)
  <2>1. B(22) = 2 * B(22 + 1) + e(22) /\ B(21) = 2 * B(21 + 1) + e(21)
    BY <1>2
  <2> QED BY <2>1
<1> HIDE DEF e
<1>6. B(16) \div 32 = B(21)
  <2>1. /\ B(16) = 2 * B(17) + e(16) /\ B(17) = 2 * B(18) + e(17) /\ B(18) = 2 * B(19) + e(18)
        /\ B(19) = 2 * B(20) + e(19) /\ B(20) = 2 * B(21) + e(20)
    <3>1. /\ B(16) = 2 * B(16 + 1) + e(16) /\ B(17) = 2 * B(17 + 1) + e(17)
          /\ B(18) = 2 * B(18 + 1) + e(18) /\ B(19) = 2 * B(19 + 1) + e(19)
          /\ B(20) = 2 * B(20 + 1) + e(20)
      BY <1>2
    <3> QED BY <3>1
  <2>2. /\ e(16) \in 0..1 /\ e(17) \in 0..1 /\ e(18) \in 0..1 /\ e(19) \in 0..1 /\ e(20) \in 0..1
        /\ B(21) \in Nat
    BY <1>1, <1>4
  <2> QED BY <2>1, <2>2
<1>7. B(23) \in Nat /\ B(22) \in Nat /\ B(21) \in Nat /\ B(16) \in Nat
  BY <1>1
<1> QED BY <1>3, <1>5, <1>6, <1>7 DEF e

\* what Decode makes of the fields, instruction by instruction
SubOf(word) == ARM!Ins("add", ARM!Rd(word), ARM!Rn(word), -ARM!Imm12(word), ARM!NoImm)

AddOf(word) == ARM!Ins("add", ARM!Rd(word), ARM!Rn(word), ARM!Imm12(word), ARM!NoImm)

MoveOf(word) == ARM!Ins("move", ARM!Rd(word), ARM!Bits(word, 16, 5), 0, ARM!NoImm)

StoreOf(word) == ARM!Ins(ARM!Stored(word), ARM!Rd(word), ARM!Rn(word), 8 * ARM!Imm12(word), ARM!NoImm)

SetOf(word) ==
  ARM!Ins("set", ARM!Rd(word), 0, 0, [ARM!NoImm EXCEPT ![ARM!Halfword(word) + 1] = ARM!Imm16(word)])

KeepOf(word) == ARM!Ins("keep", ARM!Rd(word), 0, ARM!Halfword(word), <<ARM!Imm16(word), 0, 0, 0>>)

CallOf(word) == ARM!Ins("call", ARM!Rn(word), 0, 0, ARM!NoImm)

RetOf(word) == ARM!Ins("ret", ARM!Rn(word), 0, 0, ARM!NoImm)

\* No instruction's highest bits are another's.
LEMMA DecodeFacts ==
  ASSUME NEW word
  PROVE  /\ ARM!Top(word, 10) = 836 => ARM!Decode(word) = SubOf(word)
         /\ ARM!Top(word, 10) = 580 => ARM!Decode(word) = AddOf(word)
         /\ (ARM!Top(word, 11) = 1360 /\ ARM!Mid(word) = 0 /\ ARM!Rn(word) = 31) =>
              ARM!Decode(word) = MoveOf(word)
         /\ ARM!Top(word, 10) = 996 => ARM!Decode(word) = StoreOf(word)
         /\ ARM!Top(word, 10) = 676 => ARM!Decode(word) = ARM!WithPair("storepair", word)
         /\ ARM!Top(word, 10) = 677 => ARM!Decode(word) = ARM!WithPair("loadpair", word)
         /\ ARM!Top(word, 9) = 421 => ARM!Decode(word) = SetOf(word)
         /\ ARM!Top(word, 9) = 485 => ARM!Decode(word) = KeepOf(word)
         /\ (ARM!Top(word, 16) = 54847 /\ ARM!Mid(word) = 0 /\ ARM!Rd(word) = 0) =>
              ARM!Decode(word) = CallOf(word)
         /\ (ARM!Top(word, 16) = 54879 /\ ARM!Mid(word) = 0 /\ ARM!Rd(word) = 0) =>
              ARM!Decode(word) = RetOf(word)
<1> DEFINE t9 == ARM!Top(word, 9)
           t10 == ARM!Top(word, 10)
           t11 == ARM!Top(word, 11)
           t16 == ARM!Top(word, 16)
           copied == t11 = 1360 /\ ARM!Mid(word) = 0 /\ ARM!Rn(word) = 31
           called == t16 = 54847 /\ ARM!Mid(word) = 0 /\ ARM!Rd(word) = 0
           left == t16 = 54879 /\ ARM!Mid(word) = 0 /\ ARM!Rd(word) = 0
<1>1. ARM!Decode(word) = CASE t10 = 836 -> SubOf(word)
                           [] t10 = 580 -> AddOf(word)
                           [] copied -> MoveOf(word)
                           [] t10 = 996 -> StoreOf(word)
                           [] t10 = 676 -> ARM!WithPair("storepair", word)
                           [] t10 = 677 -> ARM!WithPair("loadpair", word)
                           [] t9 = 421 -> SetOf(word)
                           [] t9 = 485 -> KeepOf(word)
                           [] called -> CallOf(word)
                           [] left -> RetOf(word)
                           [] OTHER -> ARM!Ins("undefined", 0, 0, 0, ARM!NoImm)
  BY DEF ARM!Decode, SubOf, AddOf, MoveOf, StoreOf, SetOf, KeepOf, CallOf, RetOf
<1>2. \E e22, e21 \in 0..1 : t9 \in Nat /\ t10 = 2 * t9 + e22 /\ t11 = 2 * t10 + e21 /\ t16 \div 32 = t11
  BY TopFacts
<1> HIDE DEF t9, t10, t11
<1>3. t16 \in Nat /\ t10 \in Nat /\ t11 \in Nat
  BY TopFacts DEF t10, t11
<1> HIDE DEF t16
<1>4. /\ (t10 = 836 => t9 = 418) /\ (t10 = 580 => t9 = 290) /\ (t11 = 1360 => t10 = 680 /\ t9 = 340)
      /\ (t10 = 996 => t9 = 498) /\ (t10 = 676 => t9 = 338) /\ (t10 = 677 => t9 = 338)
      /\ (t9 = 421 => t10 = 842 \/ t10 = 843) /\ (t9 = 485 => t10 = 970 \/ t10 = 971)
      /\ (t16 = 54847 => t11 = 1713 /\ t10 = 856 /\ t9 = 428)
      /\ (t16 = 54879 => t11 = 1714 /\ t10 = 857 /\ t9 = 428)
      /\ (t9 = 421 => t11 # 1360) /\ (t9 = 485 => t11 # 1360)
  BY <1>2, <1>3
<1>5. /\ t10 = 836 => ARM!Decode(word) = SubOf(word)
      /\ t10 = 580 => ARM!Decode(word) = AddOf(word)
  BY <1>1, <1>4
<1>6. copied => ARM!Decode(word) = MoveOf(word)
  BY <1>1, <1>4
<1>7. /\ t10 = 996 => ARM!Decode(word) = StoreOf(word)
      /\ t10 = 676 => ARM!Decode(word) = ARM!WithPair("storepair", word)
      /\ t10 = 677 => ARM!Decode(word) = ARM!WithPair("loadpair", word)
  BY <1>1, <1>4
<1>8. /\ t9 = 421 => ARM!Decode(word) = SetOf(word)
      /\ t9 = 485 => ARM!Decode(word) = KeepOf(word)
  BY <1>1, <1>4
<1>9. /\ called => ARM!Decode(word) = CallOf(word)
      /\ left => ARM!Decode(word) = RetOf(word)
  BY <1>1, <1>4
<1> QED BY <1>5, <1>6, <1>7, <1>8, <1>9 DEF t9, t10, t11, t16

\* And back: zero bits below a number double it.
LEMMA LiesBack ==
  ASSUME NEW f, NEW from \in Nat, NEW w \in 0..15, NEW v \in Nat, Lies(f, from + 1, w, v)
  PROVE  Lies(f, from, w + 1, 2 * v)
<1> SUFFICES ASSUME NEW b \in Nat
             PROVE  b \in f <=> from <= b /\ b < from + (w + 1) /\ Bit(2 * v, b - from)
  BY DEF Lies
<1>1. b \in f <=> from + 1 <= b /\ b < from + 1 + w /\ Bit(v, b - (from + 1))
  BY DEF Lies
<1>2. 2 * v + 0 = 2 * v /\ 0 \in 0..1 /\ 0 # 1
  OBVIOUS
<1>3. CASE b = from
  <2>1. b - from = 0
    BY <1>3
  <2>2. ~Bit(2 * v, 0)
    <3>1. Bit(2 * v + 0, 0) <=> 0 = 1
      BY <1>2, BitDouble
    <3> QED BY <1>2, <3>1
  <2>3. ~(from + 1 <= b)
    BY <1>3
  <2> QED BY <1>1, <2>1, <2>2, <2>3
<1>4. CASE from + 1 <= b /\ b < from + 1 + w
  <2>1. PICK j : j = b - (from + 1)
    OBVIOUS
  <2>2. j \in 0..14 /\ b - from = j + 1 /\ from <= b /\ b < from + (w + 1)
    BY <1>4, <2>1
  <2>3. Bit(2 * v + 0, j + 1) <=> Bit(v, j)
    BY <1>2, <2>2, BitDouble
  <2> QED BY <1>1, <1>2, <1>4, <2>1, <2>2, <2>3
<1>5. CASE b # from /\ ~(from + 1 <= b /\ b < from + 1 + w)
  <2>1. ~(from <= b /\ b < from + (w + 1))
    BY <1>5
  <2> QED BY <1>1, <1>5, <2>1
<1> QED BY <1>3, <1>4, <1>5

\* v is a number of w bits
FitsBits(v, w) == v \in Half /\ v < 2^w

\* from bit from on, w bits of word are those of f
Agrees(word, f, from, w) == \A b \in Nat : from <= b /\ b < from + w => (b \in word <=> b \in f)

\* f has no other bits
InField(f, from, w) == f \subseteq Nat /\ \A b \in Nat : b \in f => from <= b /\ b < from + w

\* A field of a word is read as the number that was put there.
LEMMA SliceFacts ==
  ASSUME NEW word, NEW f, NEW from \in Nat, NEW w \in 0..16, NEW v, FitsBits(v, w),
         Lies(f, from, w, v), Agrees(word, f, from, w)
  PROVE  ARM!Bits(word, from, w) = v
<1>1. v \in Half /\ v < 2^w
  BY DEF FitsBits
<1>2. Shows(word, from, w, v)
  <2> SUFFICES ASSUME NEW j \in 0..w - 1 PROVE from + j \in word <=> Bit(v, j)
    BY DEF Shows
  <2>1. PICK b : b = from + j
    OBVIOUS
  <2>2. b \in Nat /\ from <= b /\ b < from + w /\ b - from = j
    BY <2>1
  <2>3. b \in word <=> b \in f
    BY <2>2 DEF Agrees
  <2>4. b \in f <=> Bit(v, j)
    BY <2>2 DEF Lies
  <2> QED BY <2>1, <2>3, <2>4
<1> QED BY <1>1, <1>2, BitsFacts

\* The assembler's shift puts a number where its bits fit.
LEMMA PlacedField ==
  ASSUME NEW v, NEW w \in 0..16, NEW shift \in Nat, shift + w <= 32, FitsBits(v, w)
  PROVE  Lies(ARM!Field(v, shift), shift, w, v) /\ InField(ARM!Field(v, shift), shift, w)
<1>1. v \in Half /\ v < 2^w
  BY DEF FitsBits
<1>2. Lies(ARM!Field(v, shift), shift, w, v)
  BY <1>1, FieldFacts
<1>3. ARM!Field(v, shift) \subseteq Nat
  BY DEF ARM!Field
<1> QED BY <1>2, <1>3 DEF InField, Lies

\* The numbers of the assembler's fields.
LEMMA FitsFacts ==
  /\ FitsBits(209, 8) /\ FitsBits(145, 8) /\ FitsBits(170, 8) /\ FitsBits(249, 8) /\ FitsBits(169, 8)
  /\ FitsBits(2708, 12) /\ FitsBits(3368, 12) /\ FitsBits(3880, 12) /\ FitsBits(54847, 16) /\ FitsBits(54879, 16)
  /\ FitsBits(127, 7) /\ FitsBits(836, 10) /\ FitsBits(580, 10) /\ FitsBits(1360, 11) /\ FitsBits(996, 10)
  /\ FitsBits(676, 10) /\ FitsBits(677, 10) /\ FitsBits(421, 9) /\ FitsBits(485, 9)
  /\ \A r \in 0..31 : FitsBits(r, 5)
  /\ \A n \in Nat : n < 4096 => FitsBits(n, 12)
  /\ \A n \in Half : FitsBits(n, 16)
  /\ \A n \in 0..3 : FitsBits(n, 2)
<1>1. /\ 209 < 2^8 /\ 145 < 2^8 /\ 170 < 2^8 /\ 249 < 2^8 /\ 169 < 2^8
      /\ 2708 < 2^12 /\ 3368 < 2^12 /\ 3880 < 2^12 /\ 54847 < 2^16 /\ 54879 < 2^16
      /\ 127 < 2^7 /\ 836 < 2^10 /\ 580 < 2^10 /\ 1360 < 2^11 /\ 996 < 2^10
      /\ 676 < 2^10 /\ 677 < 2^10 /\ 421 < 2^9 /\ 485 < 2^9
  BY Powers, SMT
<1>2. /\ 209 \in Half /\ 145 \in Half /\ 170 \in Half /\ 249 \in Half /\ 169 \in Half
      /\ 2708 \in Half /\ 3368 \in Half /\ 3880 \in Half /\ 54847 \in Half /\ 54879 \in Half
      /\ 127 \in Half /\ 836 \in Half /\ 580 \in Half /\ 1360 \in Half /\ 996 \in Half
      /\ 676 \in Half /\ 677 \in Half /\ 421 \in Half /\ 485 \in Half
  BY SMT DEF Half
<1>3. \A r \in 0..31 : r \in Half /\ r < 2^5
  BY Powers, SMT DEF Half
<1>4. \A n \in Nat : n < 4096 => n \in Half /\ n < 2^12
  BY Powers, SMT DEF Half
<1>5. \A n \in Half : n \in Half /\ n < 2^16
  BY Powers, SMT DEF Half
<1>6. \A n \in 0..3 : n \in Half /\ n < 2^2
  BY Powers, SMT DEF Half
<1>7. /\ FitsBits(209, 8) /\ FitsBits(145, 8) /\ FitsBits(170, 8) /\ FitsBits(249, 8) /\ FitsBits(169, 8)
      /\ FitsBits(2708, 12) /\ FitsBits(3368, 12) /\ FitsBits(3880, 12) /\ FitsBits(54847, 16) /\ FitsBits(54879, 16)
  BY <1>1, <1>2, SMT DEF FitsBits
<1>8. /\ FitsBits(127, 7) /\ FitsBits(836, 10) /\ FitsBits(580, 10) /\ FitsBits(1360, 11) /\ FitsBits(996, 10)
      /\ FitsBits(676, 10) /\ FitsBits(677, 10) /\ FitsBits(421, 9) /\ FitsBits(485, 9)
  BY <1>1, <1>2, SMT DEF FitsBits
<1>9. (\A r \in 0..31 : FitsBits(r, 5)) /\ \A n \in 0..3 : FitsBits(n, 2)
  BY <1>3, <1>6, Zenon DEF FitsBits
<1>10. \A n \in Nat : n < 4096 => FitsBits(n, 12)
  BY <1>4, Zenon DEF FitsBits
<1>11. \A n \in Half : FitsBits(n, 16)
  BY <1>5, Zenon DEF FitsBits
<1> QED BY <1>7, <1>8, <1>9, <1>10, <1>11

\* The highest bits of each instruction, without the zeros that follow them.
LEMMA Heads ==
  /\ Lies(ARM!Field(209, 24), 22, 10, 836) /\ Lies(ARM!Field(145, 24), 22, 10, 580)
  /\ Lies(ARM!Field(170, 24), 21, 11, 1360) /\ Lies(ARM!Field(249, 24), 22, 10, 996)
  /\ Lies(ARM!Field(169, 24), 22, 10, 676) /\ Lies(ARM!Field(2708, 20), 22, 10, 677)
  /\ Lies(ARM!Field(3368, 20), 23, 9, 421) /\ Lies(ARM!Field(3880, 20), 23, 9, 485)
  /\ Lies(ARM!Field(54847, 16), 16, 16, 54847) /\ Lies(ARM!Field(54879, 16), 16, 16, 54879)
<1>1. ASSUME NEW v \in Nat, FitsBits(v, 8), NEW v4, v4 = 4 * v
      PROVE  Lies(ARM!Field(v, 24), 22, 10, v4) /\ Lies(ARM!Field(v, 24), 21, 11, 2 * v4)
  <2> DEFINE f == ARM!Field(v, 24)
  <2>1. Lies(f, 24, 8, v)
    BY <1>1, PlacedField
  <2> HIDE DEF f
  <2>2. /\ 24 = 23 + 1 /\ 23 = 22 + 1 /\ 22 = 21 + 1 /\ 9 = 8 + 1 /\ 10 = 9 + 1 /\ 11 = 10 + 1
        /\ 2 * v \in Nat /\ 2 * (2 * v) \in Nat /\ 2 * (2 * v) = v4
        /\ 21 \in Nat /\ 22 \in Nat /\ 23 \in Nat /\ 8 \in 0..15 /\ 9 \in 0..15 /\ 10 \in 0..15
    BY <1>1
  <2>3. Lies(f, 23, 8 + 1, 2 * v)
    BY <2>1, <2>2, LiesBack
  <2>4. Lies(f, 22, 9 + 1, 2 * (2 * v))
    BY <2>2, <2>3, LiesBack
  <2>5. Lies(f, 21, 10 + 1, 2 * (2 * (2 * v)))
    BY <2>2, <2>4, LiesBack
  <2> QED BY <2>2, <2>4, <2>5 DEF f
<1>2. ASSUME NEW v \in Nat, FitsBits(8 * v, 12)
      PROVE  Lies(ARM!Field(8 * v, 20), 23, 9, v)
  <2> DEFINE f == ARM!Field(8 * v, 20)
  <2>1. Lies(f, 20, 12, 8 * v)
    BY <1>2, PlacedField
  <2> HIDE DEF f
  <2>2. /\ 12 = 11 + 1 /\ 11 = 10 + 1 /\ 10 = 9 + 1 /\ 21 = 20 + 1 /\ 22 = 21 + 1 /\ 23 = 22 + 1
        /\ 2 * v \in Nat /\ 2 * (2 * v) \in Nat /\ 2 * (2 * (2 * v)) = 8 * v
        /\ 20 \in Nat /\ 21 \in Nat /\ 22 \in Nat /\ 11 \in 0..15 /\ 9 \in 0..15 /\ 10 \in 0..15
    OBVIOUS
  <2>3. Lies(f, 21, 11, 2 * (2 * v))
    BY <2>1, <2>2, LiesDouble
  <2>4. Lies(f, 22, 10, 2 * v)
    BY <2>2, <2>3, LiesDouble
  <2>5. Lies(f, 23, 9, v)
    BY <2>2, <2>4, LiesDouble
  <2> QED BY <2>5 DEF f
<1>3. /\ 836 = 4 * 209 /\ 580 = 4 * 145 /\ 1360 = 2 * 680 /\ 680 = 4 * 170 /\ 996 = 4 * 249 /\ 676 = 4 * 169
      /\ 209 \in Nat /\ 145 \in Nat /\ 170 \in Nat /\ 249 \in Nat /\ 169 \in Nat
  OBVIOUS
<1>4. /\ Lies(ARM!Field(209, 24), 22, 10, 836) /\ Lies(ARM!Field(145, 24), 22, 10, 580)
      /\ Lies(ARM!Field(249, 24), 22, 10, 996) /\ Lies(ARM!Field(169, 24), 22, 10, 676)
      /\ Lies(ARM!Field(170, 24), 21, 11, 2 * 680)
  BY <1>1, <1>3, FitsFacts
<1>5. Lies(ARM!Field(170, 24), 21, 11, 1360)
  BY <1>3, <1>4
<1>6. ASSUME NEW v \in Nat, v \in {421, 485}, NEW w, w = 8 * v
      PROVE  Lies(ARM!Field(w, 20), 23, 9, v)
  <2>1. w \in {3368, 3880}
    BY <1>6
  <2>2. FitsBits(w, 12)
    BY <2>1, FitsFacts
  <2> QED BY <1>2, <1>6, <2>2
<1>7. Lies(ARM!Field(3368, 20), 23, 9, 421) /\ Lies(ARM!Field(3880, 20), 23, 9, 485)
  <2>1. 3368 = 8 * 421 /\ 3880 = 8 * 485 /\ 421 \in Nat /\ 485 \in Nat
    OBVIOUS
  <2> QED BY <1>6, <2>1
<1>8. Lies(ARM!Field(2708, 20), 22, 10, 677)
  <2> DEFINE f == ARM!Field(2708, 20)
  <2>1. Lies(f, 20, 12, 2708)
    BY FitsFacts, PlacedField
  <2> HIDE DEF f
  <2>2. /\ 12 = 11 + 1 /\ 11 = 10 + 1 /\ 21 = 20 + 1 /\ 22 = 21 + 1 /\ 2708 = 2 * 1354 /\ 1354 = 2 * 677
        /\ 20 \in Nat /\ 21 \in Nat /\ 11 \in 0..15 /\ 10 \in 0..15 /\ 1354 \in Nat /\ 677 \in Nat
    OBVIOUS
  <2>3. Lies(f, 21, 11, 1354)
    BY <2>1, <2>2, LiesDouble
  <2>4. Lies(f, 22, 10, 677)
    BY <2>2, <2>3, LiesDouble
  <2> QED BY <2>4 DEF f
<1>9. Lies(ARM!Field(54847, 16), 16, 16, 54847) /\ Lies(ARM!Field(54879, 16), 16, 16, 54879)
  BY FitsFacts, PlacedField
<1> QED BY <1>4, <1>5, <1>7, <1>8, <1>9

-----------------------------------------------------------------------------
(* arm64: what the processor reads in each word *)

BitSet == SUBSET Nat

\* one word, and the instruction it is
DoesARM(words, op, a, b, n, imm) ==
  /\ words \in Seq(BitSet) /\ Len(words) = 1
  /\ ARM!Decode(words[1]) = ARM!Ins(op, a, b, n, imm)

\* What is said of one word.
LEMMA OneWordForm ==
  ASSUME NEW word \in BitSet, NEW op, NEW a, NEW b, NEW n, NEW imm,
         ARM!Decode(word) = ARM!Ins(op, a, b, n, imm)
  PROVE  DoesARM(<<word>>, op, a, b, n, imm)
BY DEF DoesARM

\* the fields of most words, and of MOVZ and MOVK
Composed(word, head, mid, n, d) ==
  \A b : b \in word <=> b \in head \/ b \in mid \/ b \in ARM!Field(n, 5) \/ b \in ARM!Field(d, 0)

Wide16(word, head, hw, n, d) ==
  \A b : b \in word <=> b \in head \/ b \in ARM!Field(hw, 21) \/ b \in ARM!Field(n, 5)
                        \/ b \in ARM!Field(d, 0)

\* Zero has no bits.
LEMMA NoField == \A shift \in Nat : ARM!Field(0, shift) = {}
<1> SUFFICES ASSUME NEW shift \in Nat, NEW b \in shift..31
             PROVE  ~(b - shift < 16 /\ (0 \div 2^(b - shift)) % 2 = 1)
  BY DEF ARM!Field
<1>1. SUFFICES ASSUME b - shift < 16 PROVE (0 \div 2^(b - shift)) % 2 # 1
  OBVIOUS
<1>2. PICK j : j = b - shift
  OBVIOUS
<1>3. j \in 0..15
  BY <1>1, <1>2
<1>4. PICK p : p = 2^j
  OBVIOUS
<1>5. p \in Nat /\ p > 0
  <2>1. 0 \in Half
    BY SMT DEF Half
  <2>2. 2^j \in Nat /\ Low(0, j) \in Nat /\ Low(0, j) < 2^j
    BY <1>3, <2>1, LowFacts
  <2> QED BY <1>4, <2>2
<1>6. (0 \div p) % 2 = 0
  <2>1. 0 \div p = 0
    BY <1>5, SMT
  <2> QED BY <2>1
<1> QED BY <1>2, <1>4, <1>6

\* head is the highest w bits of a word, from bit from on, and the number there is t
Headed(head, from, w, t) ==
  from \in 16..22 /\ w = 32 - from /\ Lies(head, from, w, t) /\ FitsBits(t, w) /\ head \subseteq Nat

\* The heads of the words that are composed so.
LEMMA HeadFacts ==
  /\ Headed(ARM!Field(209, 24), 22, 10, 836) /\ Headed(ARM!Field(145, 24), 22, 10, 580)
  /\ Headed(ARM!Field(170, 24), 21, 11, 1360) /\ Headed(ARM!Field(249, 24), 22, 10, 996)
  /\ Headed(ARM!Field(169, 24), 22, 10, 676) /\ Headed(ARM!Field(2708, 20), 22, 10, 677)
  /\ Headed(ARM!Field(54847, 16), 16, 16, 54847) /\ Headed(ARM!Field(54879, 16), 16, 16, 54879)
<1>1. \A v, shift : shift \in Nat => ARM!Field(v, shift) \subseteq Nat
  BY DEF ARM!Field
<1>2. 16 \in Nat /\ 20 \in Nat /\ 24 \in Nat
  OBVIOUS
<1> QED BY <1>1, <1>2, Heads, FitsFacts DEF Headed

\* what the decoder reads in such a word
Spelled(word, from, w, t, mid, p, n, d) ==
  /\ word \in BitSet /\ ARM!Bits(word, from, w) = t /\ ARM!Rn(word) = n /\ ARM!Rd(word) = d
  /\ Agrees(word, mid, 10, p)

\* The fields of most words: what the instruction is, two registers, and between them
\* what else it takes.
LEMMA ComposedFacts ==
  ASSUME NEW word, NEW head, NEW mid, NEW n \in 0..31, NEW d \in 0..31, Composed(word, head, mid, n, d),
         NEW from, NEW w, NEW t, Headed(head, from, w, t), NEW p, p = from - 10, InField(mid, 10, p)
  PROVE  Spelled(word, from, w, t, mid, p, n, d)
<1> DEFINE N == ARM!Field(n, 5)
           D == ARM!Field(d, 0)
<1>0. from \in 16..22 /\ w = 32 - from /\ Lies(head, from, w, t) /\ FitsBits(t, w) /\ head \subseteq Nat
  BY DEF Headed
<1>1. Lies(N, 5, 5, n) /\ InField(N, 5, 5) /\ Lies(D, 0, 5, d) /\ InField(D, 0, 5) /\ FitsBits(n, 5) /\ FitsBits(d, 5)
  BY FitsFacts, PlacedField
<1>2. \A b : b \in word <=> b \in head \/ b \in mid \/ b \in N \/ b \in D
  BY DEF Composed
<1>3. \A b \in Nat : b \in head => from <= b /\ b < from + w
  BY <1>0 DEF Lies
<1> HIDE DEF N, D
<1>4. /\ \A b \in Nat : b \in mid => 10 <= b /\ b < 10 + p
      /\ \A b \in Nat : b \in N => 5 <= b /\ b < 5 + 5
      /\ \A b \in Nat : b \in D => b < 0 + 5
  BY <1>1 DEF InField
<1>5. Agrees(word, head, from, w)
  BY <1>0, <1>2, <1>4 DEF Agrees
<1>6. Agrees(word, mid, 10, p)
  BY <1>0, <1>2, <1>3, <1>4 DEF Agrees
<1>7. Agrees(word, N, 5, 5)
  BY <1>0, <1>2, <1>3, <1>4 DEF Agrees
<1>8. Agrees(word, D, 0, 5)
  BY <1>0, <1>2, <1>3, <1>4 DEF Agrees
<1>9. word \subseteq Nat
  BY <1>0, <1>1, <1>2 DEF InField
<1>10. w \in 0..16 /\ from \in Nat
  BY <1>0
<1>11. ARM!Bits(word, from, w) = t
  BY <1>0, <1>5, <1>10, SliceFacts
<1>12. ARM!Rn(word) = n
  BY <1>1, <1>7, SliceFacts DEF ARM!Rn
<1>13. ARM!Rd(word) = d
  BY <1>1, <1>8, SliceFacts DEF ARM!Rd
<1> QED BY <1>6, <1>9, <1>11, <1>12, <1>13 DEF BitSet, Spelled

\* the highest nine
Headed9(head, t) == Lies(head, 23, 9, t) /\ FitsBits(t, 9) /\ head \subseteq Nat

Worded(word, t, hw, n, d) ==
  /\ word \in BitSet /\ ARM!Top(word, 9) = t /\ ARM!Halfword(word) = hw
  /\ ARM!Imm16(word) = n /\ ARM!Rd(word) = d

\* The fields of MOVZ and MOVK.
LEMMA Wide16Facts ==
  ASSUME NEW word, NEW head, NEW hw \in 0..3, NEW n \in Half, NEW d \in 0..31, Wide16(word, head, hw, n, d),
         NEW t, Headed9(head, t)
  PROVE  Worded(word, t, hw, n, d)
<1> DEFINE H == ARM!Field(hw, 21)
           N == ARM!Field(n, 5)
           D == ARM!Field(d, 0)
<1>0. Lies(head, 23, 9, t) /\ FitsBits(t, 9) /\ head \subseteq Nat
  BY DEF Headed9
<1>1. /\ Lies(H, 21, 2, hw) /\ InField(H, 21, 2) /\ FitsBits(hw, 2)
      /\ Lies(N, 5, 16, n) /\ InField(N, 5, 16) /\ FitsBits(n, 16)
      /\ Lies(D, 0, 5, d) /\ InField(D, 0, 5) /\ FitsBits(d, 5)
  BY FitsFacts, PlacedField
<1>2. \A b : b \in word <=> b \in head \/ b \in H \/ b \in N \/ b \in D
  BY DEF Wide16
<1>3. \A b \in Nat : b \in head => 23 <= b /\ b < 23 + 9
  BY <1>0 DEF Lies
<1> HIDE DEF H, N, D
<1>4. /\ \A b \in Nat : b \in H => 21 <= b /\ b < 21 + 2
      /\ \A b \in Nat : b \in N => 5 <= b /\ b < 5 + 16
      /\ \A b \in Nat : b \in D => b < 0 + 5
  BY <1>1 DEF InField
<1>5. Agrees(word, head, 23, 9)
  BY <1>2, <1>4 DEF Agrees
<1>6. Agrees(word, H, 21, 2)
  BY <1>2, <1>3, <1>4 DEF Agrees
<1>7. Agrees(word, N, 5, 16)
  BY <1>2, <1>3, <1>4 DEF Agrees
<1>8. Agrees(word, D, 0, 5)
  BY <1>2, <1>3, <1>4 DEF Agrees
<1>9. word \subseteq Nat
  BY <1>0, <1>1, <1>2 DEF InField
<1>10. 23 = 32 - 9 /\ 23 \in Nat /\ 21 \in Nat /\ 5 \in Nat
  OBVIOUS
<1>11. ARM!Bits(word, 23, 9) = t
  BY <1>0, <1>5, <1>10, SliceFacts
<1>12. ARM!Top(word, 9) = t
  BY <1>10, <1>11 DEF ARM!Top
<1>13. ARM!Halfword(word) = hw
  BY <1>1, <1>6, <1>10, SliceFacts DEF ARM!Halfword
<1>14. ARM!Imm16(word) = n
  BY <1>1, <1>7, <1>10, SliceFacts DEF ARM!Imm16
<1>15. ARM!Rd(word) = d
  BY <1>1, <1>8, <1>10, SliceFacts DEF ARM!Rd
<1> QED BY <1>9, <1>12, <1>13, <1>14, <1>15 DEF BitSet, Worded

\* Where a word has no bit a zero is read.
LEMMA ZeroSlice ==
  ASSUME NEW word, NEW from \in Nat, NEW w \in 0..16, from + w <= 32, Agrees(word, {}, from, w), FitsBits(0, w)
  PROVE  ARM!Bits(word, from, w) = 0
<1>1. ARM!Field(0, from) = {} /\ Lies(ARM!Field(0, from), from, w, 0)
  BY NoField, PlacedField
<1> QED BY <1>1, SliceFacts

\* what fits an instruction as a number, and as an offset in words
Low12(n) == n \in Nat /\ n < 4096

Scaled(disp, q) == Low12(q) /\ disp = 8 * q

\* SUB and ADD.
LEMMA AddForms ==
  ASSUME NEW d \in 0..31, NEW s \in 0..31, NEW n, Low12(n)
  PROVE  /\ DoesARM(ARM!Sub(d, s, n), "add", d, s, -n, ARM!NoImm)
         /\ DoesARM(ARM!Add(d, s, n), "add", d, s, n, ARM!NoImm)
<1> DEFINE mid == ARM!Field(n, 10)
           word(head) == head \cup mid \cup ARM!Field(s, 5) \cup ARM!Field(d, 0)
<1>1. ARM!Sub(d, s, n) = <<word(ARM!Field(209, 24))>> /\ ARM!Add(d, s, n) = <<word(ARM!Field(145, 24))>>
  BY DEF ARM!Sub, ARM!Add
<1>2. Lies(mid, 10, 12, n) /\ InField(mid, 10, 12) /\ FitsBits(n, 12)
  BY FitsFacts, PlacedField DEF Low12
<1>3. ASSUME NEW head, NEW t, Headed(head, 22, 10, t), NEW v, v = word(head)
      PROVE  /\ v \in BitSet /\ ARM!Top(v, 10) = t /\ ARM!Rn(v) = s /\ ARM!Rd(v) = d /\ ARM!Imm12(v) = n
  <2>1. Composed(v, head, mid, s, d)
    BY <1>3 DEF Composed
  <2>2. 12 = 22 - 10 /\ 22 = 32 - 10 /\ 10 \in Nat /\ 12 \in 0..16
    OBVIOUS
  <2> HIDE DEF mid
  <2>3. v \in BitSet /\ ARM!Bits(v, 22, 10) = t /\ ARM!Rn(v) = s /\ ARM!Rd(v) = d /\ Agrees(v, mid, 10, 12)
    <3>1. Spelled(v, 22, 10, t, mid, 12, s, d)
      BY <1>2, <1>3, <2>1, <2>2, ComposedFacts
    <3> QED BY <3>1 DEF Spelled
  <2>4. ARM!Imm12(v) = n
    BY <1>2, <2>2, <2>3, SliceFacts DEF ARM!Imm12
  <2>5. ARM!Top(v, 10) = t
    BY <2>2, <2>3 DEF ARM!Top
  <2> QED BY <2>3, <2>4, <2>5
<1>4. Headed(ARM!Field(209, 24), 22, 10, 836) /\ Headed(ARM!Field(145, 24), 22, 10, 580)
  BY HeadFacts
<1> HIDE DEF word
<1>5. PICK v : v = word(ARM!Field(209, 24))
  OBVIOUS
<1>6. PICK u : u = word(ARM!Field(145, 24))
  OBVIOUS
<1>7. /\ v \in BitSet /\ ARM!Top(v, 10) = 836 /\ ARM!Rn(v) = s /\ ARM!Rd(v) = d /\ ARM!Imm12(v) = n
      /\ u \in BitSet /\ ARM!Top(u, 10) = 580 /\ ARM!Rn(u) = s /\ ARM!Rd(u) = d /\ ARM!Imm12(u) = n
  BY <1>3, <1>4, <1>5, <1>6
<1>8. /\ ARM!Decode(v) = ARM!Ins("add", d, s, -n, ARM!NoImm)
      /\ ARM!Decode(u) = ARM!Ins("add", d, s, n, ARM!NoImm)
  BY <1>7, DecodeFacts DEF SubOf, AddOf
<1> QED BY <1>1, <1>5, <1>6, <1>7, <1>8, OneWordForm

\* MOV between registers.
LEMMA MovFormARM ==
  ASSUME NEW d \in 0..31, NEW s \in 0..31
  PROVE  DoesARM(ARM!Mov(d, s), "move", d, s, 0, ARM!NoImm)
<1> DEFINE head == ARM!Field(170, 24)
           mid == ARM!Field(s, 16)
           word == head \cup mid \cup ARM!Field(31, 5) \cup ARM!Field(d, 0)
<1>1. ARM!Mov(d, s) = <<word>>
  BY DEF ARM!Mov
<1>2. Lies(mid, 16, 5, s) /\ InField(mid, 16, 5) /\ FitsBits(s, 5)
  BY FitsFacts, PlacedField
<1>3. Headed(head, 21, 11, 1360)
  BY HeadFacts
<1>4. Composed(word, head, mid, 31, d)
  BY DEF Composed
<1> HIDE DEF head, mid, word
<1>5. InField(mid, 10, 11)
  BY <1>2 DEF InField
<1>6. 21 = 32 - 11 /\ 11 = 21 - 10 /\ 31 \in 0..31
  OBVIOUS
<1>7. /\ word \in BitSet /\ ARM!Bits(word, 21, 11) = 1360 /\ ARM!Rn(word) = 31 /\ ARM!Rd(word) = d
      /\ Agrees(word, mid, 10, 11)
  <2>1. Spelled(word, 21, 11, 1360, mid, 11, 31, d)
    BY <1>3, <1>4, <1>5, <1>6, ComposedFacts
  <2> QED BY <2>1 DEF Spelled
<1>8. Agrees(word, mid, 16, 5) /\ Agrees(word, {}, 10, 6)
  BY <1>2, <1>7 DEF Agrees, InField
<1>9. ARM!Bits(word, 16, 5) = s
  BY <1>2, <1>8, SliceFacts
<1>10. ARM!Mid(word) = 0
  <2>1. 0 \in Half /\ 0 < 2^6
    BY Powers, SMT DEF Half
  <2>2. FitsBits(0, 6)
    BY <2>1 DEF FitsBits
  <2> QED BY <1>8, <2>2, ZeroSlice DEF ARM!Mid
<1>11. ARM!Top(word, 11) = 1360
  BY <1>6, <1>7 DEF ARM!Top
<1>12. ARM!Decode(word) = ARM!Ins("move", d, s, 0, ARM!NoImm)
  BY <1>7, <1>9, <1>10, <1>11, DecodeFacts DEF MoveOf
<1> QED BY <1>1, <1>7, <1>12, OneWordForm

\* STR, of the zero register too.
LEMMA StrForm ==
  ASSUME NEW r \in 0..31, NEW base \in 0..31, NEW q, NEW disp, Scaled(disp, q)
  PROVE  /\ r # 31 => DoesARM(ARM!Str(r, base, disp), "store", r, base, disp, ARM!NoImm)
         /\ r = 31 => DoesARM(ARM!Str(r, base, disp), "clear", r, base, disp, ARM!NoImm)
<1> DEFINE head == ARM!Field(249, 24)
           mid == ARM!Field(q, 10)
           word == head \cup mid \cup ARM!Field(base, 5) \cup ARM!Field(r, 0)
<1>1. ARM!Str(r, base, disp) = <<word>>
  <2>1. disp \div 8 = q
    BY DEF Scaled, Low12
  <2> QED BY <2>1 DEF ARM!Str
<1>2. Lies(mid, 10, 12, q) /\ InField(mid, 10, 12) /\ FitsBits(q, 12)
  BY FitsFacts, PlacedField DEF Scaled, Low12
<1>3. PICK t : t = 996
  OBVIOUS
<1>4. Headed(head, 22, 10, t) /\ Composed(word, head, mid, base, r)
  BY <1>3, HeadFacts DEF Composed
<1> HIDE DEF head, mid, word
<1>5. 12 = 22 - 10 /\ 22 = 32 - 10 /\ 10 \in Nat /\ 12 \in 0..16
  OBVIOUS
<1>6. /\ word \in BitSet /\ ARM!Bits(word, 22, 10) = 996 /\ ARM!Rn(word) = base /\ ARM!Rd(word) = r
      /\ Agrees(word, mid, 10, 12)
  <2>1. Spelled(word, 22, 10, t, mid, 12, base, r)
    BY <1>2, <1>4, <1>5, ComposedFacts
  <2> QED BY <1>3, <2>1 DEF Spelled
<1>7. ARM!Imm12(word) = q
  BY <1>2, <1>5, <1>6, SliceFacts DEF ARM!Imm12
<1>8. ARM!Top(word, 10) = 996
  BY <1>5, <1>6 DEF ARM!Top
<1>9. ARM!Decode(word) = ARM!Ins(ARM!Stored(word), r, base, disp, ARM!NoImm)
  <2>1. ARM!Decode(word) = StoreOf(word)
    BY <1>8, DecodeFacts
  <2>2. 8 * ARM!Imm12(word) = disp
    BY <1>7 DEF Scaled
  <2> QED BY <1>6, <2>1, <2>2 DEF StoreOf
<1>10. (r # 31 => ARM!Stored(word) = "store") /\ (r = 31 => ARM!Stored(word) = "clear")
  BY <1>6 DEF ARM!Stored
<1> QED BY <1>1, <1>6, <1>9, <1>10, OneWordForm

\* STP and LDP of the frame pointer and the link register, below base.
LEMMA PairForms ==
  ASSUME NEW base \in 0..31, NEW disp \in Int, disp + 8 = 0
  PROVE  /\ DoesARM(ARM!Stp(29, 30, base, disp), "storepair", 29, base, disp, <<30, 0, 0, 0>>)
         /\ DoesARM(ARM!Ldp(29, 30, base, disp), "loadpair", 29, base, disp, <<30, 0, 0, 0>>)
<1> DEFINE low == ARM!Field(127, 15)
           second == ARM!Field(30, 10)
           mid == low \cup second
           word(head) == head \cup (mid \cup ARM!Field(base, 5) \cup ARM!Field(29, 0))
<1>1. /\ ARM!Stp(29, 30, base, disp) = <<word(ARM!Field(169, 24))>>
      /\ ARM!Ldp(29, 30, base, disp) = <<word(ARM!Field(2708, 20))>>
  <2>1. (disp \div 8) % 128 = 127
    <3>1. PICK y \in Int : y = disp \div 8
      OBVIOUS
    <3>2. y + 1 = 0
      BY <3>1
    <3>3. y % 128 = 127
      BY <3>2
    <3> QED BY <3>1, <3>3
  <2>2. ARM!Pair(29, 30, base, disp) = mid \cup ARM!Field(base, 5) \cup ARM!Field(29, 0)
    BY <2>1 DEF ARM!Pair
  <2> QED BY <2>2 DEF ARM!Stp, ARM!Ldp
<1>2. /\ Lies(low, 15, 7, 127) /\ InField(low, 15, 7) /\ FitsBits(127, 7)
      /\ Lies(second, 10, 5, 30) /\ InField(second, 10, 5) /\ FitsBits(30, 5)
  BY FitsFacts, PlacedField
<1> HIDE DEF low, second
<1>3. InField(mid, 10, 12)
  BY <1>2 DEF InField
<1>4. ASSUME NEW head, NEW t, Headed(head, 22, 10, t), NEW v, v = word(head)
      PROVE  /\ v \in BitSet /\ ARM!Top(v, 10) = t
             /\ \A op : ARM!WithPair(op, v) = ARM!Ins(op, 29, base, disp, <<30, 0, 0, 0>>)
  <2>1. Composed(v, head, mid, base, 29)
    BY <1>4 DEF Composed
  <2>2. 12 = 22 - 10 /\ 22 = 32 - 10 /\ 10 \in Nat /\ 12 \in 0..16 /\ 29 \in 0..31
    OBVIOUS
  <2> HIDE DEF mid
  <2>3. v \in BitSet /\ ARM!Bits(v, 22, 10) = t /\ ARM!Rn(v) = base /\ ARM!Rd(v) = 29 /\ Agrees(v, mid, 10, 12)
    <3>1. Spelled(v, 22, 10, t, mid, 12, base, 29)
      BY <1>3, <1>4, <2>1, <2>2, ComposedFacts
    <3> QED BY <3>1 DEF Spelled
  <2>4. Agrees(v, low, 15, 7) /\ Agrees(v, second, 10, 5)
    BY <1>2, <2>3 DEF Agrees, InField, mid
  <2>5. ARM!Bits(v, 15, 7) = 127
    BY <1>2, <2>4, SliceFacts
  <2>6. ARM!Bits(v, 10, 5) = 30
    BY <1>2, <2>4, SliceFacts
  <2>7. 8 * ARM!Signed7(127) = disp
    BY DEF ARM!Signed7
  <2>8. \A op : ARM!WithPair(op, v) = ARM!Ins(op, 29, base, disp, <<30, 0, 0, 0>>)
    BY <2>3, <2>5, <2>6, <2>7, Zenon DEF ARM!WithPair
  <2>9. ARM!Top(v, 10) = t
    BY <2>2, <2>3 DEF ARM!Top
  <2> QED BY <2>3, <2>8, <2>9
<1>5. Headed(ARM!Field(169, 24), 22, 10, 676) /\ Headed(ARM!Field(2708, 20), 22, 10, 677)
  BY HeadFacts
<1> HIDE DEF word
<1>6. PICK v : v = word(ARM!Field(169, 24))
  OBVIOUS
<1>7. PICK u : u = word(ARM!Field(2708, 20))
  OBVIOUS
<1>8. /\ v \in BitSet /\ ARM!Top(v, 10) = 676
      /\ ARM!WithPair("storepair", v) = ARM!Ins("storepair", 29, base, disp, <<30, 0, 0, 0>>)
  BY <1>4, <1>5, <1>6
<1>9. /\ u \in BitSet /\ ARM!Top(u, 10) = 677
      /\ ARM!WithPair("loadpair", u) = ARM!Ins("loadpair", 29, base, disp, <<30, 0, 0, 0>>)
  BY <1>4, <1>5, <1>7
<1>10. /\ ARM!Decode(v) = ARM!Ins("storepair", 29, base, disp, <<30, 0, 0, 0>>)
       /\ ARM!Decode(u) = ARM!Ins("loadpair", 29, base, disp, <<30, 0, 0, 0>>)
  BY <1>8, <1>9, DecodeFacts
<1> QED BY <1>1, <1>6, <1>7, <1>8, <1>9, <1>10, OneWordForm

\* MOVZ and MOVK.
LEMMA WideForms ==
  ASSUME NEW d \in 0..31, NEW n \in Half
  PROVE  /\ DoesARM(ARM!MovZ(d, n), "set", d, 0, 0, <<n, 0, 0, 0>>)
         /\ DoesARM(ARM!MovK(d, n, 16), "keep", d, 0, 1, <<n, 0, 0, 0>>)
         /\ DoesARM(ARM!MovK(d, n, 32), "keep", d, 0, 2, <<n, 0, 0, 0>>)
         /\ DoesARM(ARM!MovK(d, n, 48), "keep", d, 0, 3, <<n, 0, 0, 0>>)
<1> DEFINE z == ARM!Field(3368, 20)
           k == ARM!Field(3880, 20)
<1>a. PICK tz : tz = 421
  OBVIOUS
<1>b. PICK tk : tk = 485
  OBVIOUS
<1>0. Headed9(z, 421) /\ Headed9(k, 485)
  BY Heads, FitsFacts DEF ARM!Field, Headed9
<1>c. Headed9(z, tz)
  BY <1>0, <1>a
<1>1. Headed9(k, tk)
  BY <1>0, <1>b
<1>2. DoesARM(ARM!MovZ(d, n), "set", d, 0, 0, <<n, 0, 0, 0>>)
  <2> DEFINE v == z \cup ARM!Field(n, 5) \cup ARM!Field(d, 0)
  <2>1. 0 \in 0..3
    OBVIOUS
  <2>2. ARM!MovZ(d, n) = <<v>>
    BY DEF ARM!MovZ
  <2>3. Wide16(v, z, 0, n, d)
    <3>1. ARM!Field(0, 21) = {}
      BY NoField
    <3> QED BY <3>1 DEF Wide16
  <2> HIDE DEF v, z, k
  <2>4. Worded(v, tz, 0, n, d)
    BY <1>c, <2>1, <2>3, Wide16Facts
  <2>5. ARM!Decode(v) = SetOf(v)
    BY <1>a, <2>4, DecodeFacts DEF Worded
  <2>6. SetOf(v) = ARM!Ins("set", d, 0, 0, <<n, 0, 0, 0>>)
    BY <2>4 DEF SetOf, Worded, ARM!NoImm
  <2> QED BY <2>2, <2>4, <2>5, <2>6, OneWordForm DEF Worded
<1> DEFINE Halves(lsl, h) == lsl \div 16 = h
<1> HIDE DEF Halves
<1>3. ASSUME NEW h \in 0..3, NEW lsl, Halves(lsl, h)
      PROVE  DoesARM(ARM!MovK(d, n, lsl), "keep", d, 0, h, <<n, 0, 0, 0>>)
  <2> DEFINE v == k \cup ARM!Field(h, 21) \cup ARM!Field(n, 5) \cup ARM!Field(d, 0)
  <2>2. ARM!MovK(d, n, lsl) = <<v>>
    <3>1. lsl \div 16 = h
      BY <1>3 DEF Halves
    <3> QED BY <3>1 DEF ARM!MovK
  <2>3. Wide16(v, k, h, n, d)
    BY DEF Wide16
  <2> HIDE DEF v, z, k
  <2>4. Worded(v, tk, h, n, d)
    BY <1>1, <2>3, Wide16Facts
  <2>5. ARM!Decode(v) = KeepOf(v)
    BY <1>b, <2>4, DecodeFacts DEF Worded
  <2>6. KeepOf(v) = ARM!Ins("keep", d, 0, h, <<n, 0, 0, 0>>)
    BY <2>4 DEF KeepOf, Worded
  <2> QED BY <2>2, <2>4, <2>5, <2>6, OneWordForm DEF Worded
<1>4. Halves(16, 1) /\ Halves(32, 2) /\ Halves(48, 3) /\ 1 \in 0..3 /\ 2 \in 0..3 /\ 3 \in 0..3
  BY DEF Halves
<1> QED BY <1>2, <1>3, <1>4

\* BLR and RET.
LEMMA BranchForms ==
  /\ DoesARM(ARM!Blr(16), "call", 16, 0, 0, ARM!NoImm)
  /\ DoesARM(ARM!Ret, "ret", 30, 0, 0, ARM!NoImm)
<1>1. ASSUME NEW head, NEW t, Headed(head, 16, 16, t), NEW r \in 0..31, NEW v, v = head \cup ARM!Field(r, 5)
      PROVE  v \in BitSet /\ ARM!Top(v, 16) = t /\ ARM!Mid(v) = 0 /\ ARM!Rd(v) = 0 /\ ARM!Rn(v) = r
  <2>1. Composed(v, head, {}, r, 0)
    <3>1. ARM!Field(0, 0) = {}
      BY NoField
    <3> QED BY <1>1, <3>1 DEF Composed
  <2>2. 6 = 16 - 10 /\ 16 = 32 - 16 /\ 0 \in 0..31
    OBVIOUS
  <2>3. InField({}, 10, 6)
    BY DEF InField
  <2>4. Spelled(v, 16, 16, t, {}, 6, r, 0)
    BY <1>1, <2>1, <2>2, <2>3, ComposedFacts
  <2>5. ARM!Mid(v) = 0
    <3>1. 0 \in Half /\ 0 < 2^6
      BY Powers, SMT DEF Half
    <3>2. FitsBits(0, 6)
      BY <3>1 DEF FitsBits
    <3>3. Agrees(v, {}, 10, 6)
      BY <2>4 DEF Spelled
    <3> QED BY <3>2, <3>3, ZeroSlice DEF ARM!Mid
  <2>6. ARM!Top(v, 16) = t
    BY <2>2, <2>4 DEF Spelled, ARM!Top
  <2> QED BY <2>4, <2>5, <2>6 DEF Spelled
<1>2. Headed(ARM!Field(54847, 16), 16, 16, 54847) /\ Headed(ARM!Field(54879, 16), 16, 16, 54879)
  BY HeadFacts
<1> DEFINE v == ARM!Field(54847, 16) \cup ARM!Field(16, 5)
           u == ARM!Field(54879, 16) \cup ARM!Field(30, 5)
<1>3. ARM!Blr(16) = <<v>> /\ ARM!Ret = <<u>>
  BY DEF ARM!Blr, ARM!Ret
<1>4. /\ v \in BitSet /\ ARM!Top(v, 16) = 54847 /\ ARM!Mid(v) = 0 /\ ARM!Rd(v) = 0 /\ ARM!Rn(v) = 16
      /\ u \in BitSet /\ ARM!Top(u, 16) = 54879 /\ ARM!Mid(u) = 0 /\ ARM!Rd(u) = 0 /\ ARM!Rn(u) = 30
  <2> HIDE DEF v, u
  <2>1. \A r : r = 16 \/ r = 30 => r \in 0..31
    OBVIOUS
  <2>2. v = ARM!Field(54847, 16) \cup ARM!Field(16, 5) /\ u = ARM!Field(54879, 16) \cup ARM!Field(30, 5)
    BY DEF v, u
  <2> QED BY <1>1, <1>2, <2>1, <2>2
<1> HIDE DEF v, u
<1>6. v \in BitSet /\ ARM!Decode(v) = CallOf(v) /\ ARM!Rn(v) = 16
  BY <1>4, DecodeFacts
<1>7. u \in BitSet /\ ARM!Decode(u) = RetOf(u) /\ ARM!Rn(u) = 30
  BY <1>4, DecodeFacts
<1>8. /\ ARM!Decode(v) = ARM!Ins("call", 16, 0, 0, ARM!NoImm)
      /\ ARM!Decode(u) = ARM!Ins("ret", 30, 0, 0, ARM!NoImm)
  BY <1>6, <1>7 DEF CallOf, RetOf
<1> QED BY <1>3, <1>6, <1>7, <1>8, OneWordForm
=============================================================================
