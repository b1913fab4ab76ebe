---------------------------- MODULE LayoutProofs ----------------------------
(***************************************************************************)
(* Proofs about Layout, for any types, any number of registers and any     *)
(* number of arguments and results.                                        *)
(***************************************************************************)
EXTENDS Layout, DataProofs, SequenceTheorems, FunctionTheorems, FiniteSetTheorems, TLAPS

Ints == {"int", "pointer"}
Floats == {"float"}

StepDomain ==
  [kind : {"stack", "int", "pointer", "float"}, offset : Nat, size : Nat, stkOff : Nat, reg : Nat]

SeqDomain ==
  [steps : Seq(StepDomain), valueStart : Seq(Nat), stackBytes : Nat, iregs : Nat, fregs : Nat]

\* Three sequences of steps are put together in either order.
LEMMA StepsAssociate == \A a, b, c \in Seq(StepDomain) : (a \o b) \o c = a \o (b \o c)
BY ConcatAssociative

-----------------------------------------------------------------------------
(* Registers *)

\* the steps of q of these kinds share out the registers below n, one to each
InFile(q, kinds, n) ==
  /\ \A i \in 1..Len(q) : q[i].kind \in kinds => q[i].reg \in 0..n - 1
  /\ \A r \in 0..n - 1 : \E i \in 1..Len(q) : q[i].kind \in kinds /\ q[i].reg = r
  /\ \A i, j \in 1..Len(q) :
       q[i].kind \in kinds /\ q[j].kind \in kinds /\ q[i].reg = q[j].reg => i = j

\* Steps that take the next registers keep to that.
LEMMA FileGrows ==
  ASSUME NEW q \in Seq(StepDomain), NEW add \in Seq(StepDomain), NEW kinds, NEW n \in Nat,
         InFile(q, kinds, n),
         \A k \in 1..Len(add) : add[k].kind \in kinds /\ add[k].reg = n + k - 1
  PROVE  InFile(q \o add, kinds, n + Len(add))
<1> DEFINE new == q \o add
           m == Len(add)
           l == Len(q)
<1>1. m \in Nat /\ l \in Nat /\ Len(new) = l + m
  BY ConcatProperties, LenProperties
<1>2. \A i \in 1..l : i \in 1..l + m /\ new[i] = q[i]
  BY <1>1, ConcatProperties
<1>3. \A k \in 1..m : l + k \in 1..l + m /\ new[l + k] = add[k]
  BY <1>1, ConcatProperties
<1>4. \A i \in 1..l + m : i \in 1..l \/ \E k \in 1..m : i = l + k
  <2>1. ASSUME NEW i \in 1..l + m, i \notin 1..l PROVE i - l \in 1..m /\ i = l + (i - l)
    BY <1>1, <2>1
  <2> QED BY <2>1
<1>5. /\ \A i \in 1..l : q[i].kind \in kinds => q[i].reg \in 0..n - 1
      /\ \A r \in 0..n - 1 : \E i \in 1..l : q[i].kind \in kinds /\ q[i].reg = r
      /\ \A i, j \in 1..l :
           q[i].kind \in kinds /\ q[j].kind \in kinds /\ q[i].reg = q[j].reg => i = j
  BY DEF InFile
<1>6. \A k \in 1..m : add[k].kind \in kinds /\ add[k].reg = n + k - 1
  OBVIOUS
<1> HIDE DEF new, m, l
<1>7. ASSUME NEW i \in 1..l + m, new[i].kind \in kinds
      PROVE  /\ new[i].reg \in 0..n + m - 1
             /\ i \in 1..l => new[i].reg \in 0..n - 1
             /\ \A k \in 1..m : i = l + k => new[i].reg = n + k - 1
  <2>1. CASE i \in 1..l
    BY <1>1, <1>2, <1>5, <1>7, <2>1
  <2>2. CASE i \notin 1..l
    <3>1. PICK k \in 1..m : i = l + k
      BY <1>4, <2>2
    <3>2. new[i].reg = n + k - 1
      BY <1>3, <1>6, <3>1
    <3>3. \A x \in 1..m : i = l + x => x = k
      BY <1>1, <3>1
    <3> QED BY <1>1, <2>2, <3>2, <3>3
  <2> QED BY <2>1, <2>2
<1>8. ASSUME NEW r \in 0..n + m - 1
      PROVE  \E i \in 1..l + m : new[i].kind \in kinds /\ new[i].reg = r
  <2>1. CASE r < n
    <3>1. PICK i \in 1..l : q[i].kind \in kinds /\ q[i].reg = r
      BY <1>5, <2>1
    <3> QED BY <1>2, <3>1
  <2>2. CASE r >= n
    <3>1. PICK k \in 1..m : r = n + k - 1
      <4>1. r - n + 1 \in 1..m /\ r = n + (r - n + 1) - 1
        BY <1>1, <2>2
      <4> QED BY <4>1
    <3> QED BY <1>3, <1>6, <3>1
  <2> QED BY <2>1, <2>2
<1>9. ASSUME NEW i \in 1..l + m, NEW j \in 1..l + m,
             new[i].kind \in kinds, new[j].kind \in kinds, new[i].reg = new[j].reg
      PROVE  i = j
  <2>1. CASE i \in 1..l /\ j \in 1..l
    BY <1>2, <1>5, <1>9, <2>1
  <2>2. CASE i \in 1..l /\ j \notin 1..l
    <3>1. PICK k \in 1..m : j = l + k
      BY <1>4, <2>2
    <3>2. new[i].reg \in 0..n - 1 /\ new[j].reg = n + k - 1
      BY <1>7, <1>9, <2>2, <3>1
    <3> QED BY <1>1, <1>9, <3>2
  <2>3. CASE i \notin 1..l /\ j \in 1..l
    <3>1. PICK k \in 1..m : i = l + k
      BY <1>4, <2>3
    <3>2. new[j].reg \in 0..n - 1 /\ new[i].reg = n + k - 1
      BY <1>7, <1>9, <2>3, <3>1
    <3> QED BY <1>1, <1>9, <3>2
  <2>4. CASE i \notin 1..l /\ j \notin 1..l
    <3>1. PICK k \in 1..m : i = l + k
      BY <1>4, <2>4
    <3>2. PICK x \in 1..m : j = l + x
      BY <1>4, <2>4
    <3>3. new[i].reg = n + k - 1 /\ new[j].reg = n + x - 1
      BY <1>7, <1>9, <3>1, <3>2
    <3> QED BY <1>1, <1>9, <3>1, <3>2, <3>3
  <2> QED BY <2>1, <2>2, <2>3, <2>4
<1>10. InFile(new, kinds, n + m)
  BY <1>1, <1>7, <1>8, <1>9 DEF InFile
<1> QED BY <1>10 DEF new, m

\* Steps of another kind change nothing about it.
LEMMA FileKeeps ==
  ASSUME NEW q \in Seq(StepDomain), NEW add \in Seq(StepDomain), NEW kinds, NEW n \in Nat,
         InFile(q, kinds, n), \A k \in 1..Len(add) : add[k].kind \notin kinds
  PROVE  InFile(q \o add, kinds, n)
<1> DEFINE new == q \o add
           m == Len(add)
           l == Len(q)
<1>1. m \in Nat /\ l \in Nat /\ Len(new) = l + m
  BY ConcatProperties, LenProperties
<1>2. \A i \in 1..l : i \in 1..l + m /\ new[i] = q[i]
  BY <1>1, ConcatProperties
<1>3. \A i \in 1..l + m : new[i].kind \in kinds => i \in 1..l
  <2>1. ASSUME NEW i \in 1..l + m, i \notin 1..l PROVE i - l \in 1..m /\ new[i] = add[i - l]
    BY <1>1, <2>1, ConcatProperties
  <2> HIDE DEF new, l
  <2> QED BY <2>1
<1>4. /\ \A i \in 1..l : q[i].kind \in kinds => q[i].reg \in 0..n - 1
      /\ \A r \in 0..n - 1 : \E i \in 1..l : q[i].kind \in kinds /\ q[i].reg = r
      /\ \A i, j \in 1..l :
           q[i].kind \in kinds /\ q[j].kind \in kinds /\ q[i].reg = q[j].reg => i = j
  BY DEF InFile
<1> HIDE DEF new, m, l
<1>5. ASSUME NEW i \in 1..l + m, new[i].kind \in kinds PROVE new[i].reg \in 0..n - 1
  BY <1>2, <1>3, <1>4, <1>5
<1>6. ASSUME NEW r \in 0..n - 1
      PROVE  \E i \in 1..l + m : new[i].kind \in kinds /\ new[i].reg = r
  <2>1. PICK i \in 1..l : q[i].kind \in kinds /\ q[i].reg = r
    BY <1>4
  <2> QED BY <1>2, <2>1
<1>7. ASSUME NEW i \in 1..l + m, NEW j \in 1..l + m,
             new[i].kind \in kinds, new[j].kind \in kinds, new[i].reg = new[j].reg
      PROVE  i = j
  BY <1>2, <1>3, <1>4, <1>7
<1> QED BY <1>1, <1>5, <1>6, <1>7 DEF InFile, new

-----------------------------------------------------------------------------
(* assignIntN, assignFloatN and regAssign's walk *)

Fits(s, part) == IF part.float THEN FloatsFit(s, part) ELSE IntsFit(s, part.n)

PartSteps(s, part) ==
  [k \in 1..part.n |->
     RegStep(IF part.float THEN "float" ELSE IF k - 1 \in part.ptrs THEN "pointer" ELSE "int",
             part, k - 1, (IF part.float THEN s.fregs ELSE s.iregs) + k - 1)]

\* r is s with part's registers taken
Taken(s, part, r) ==
  /\ r \in SeqDomain
  /\ r.steps = s.steps \o PartSteps(s, part)
  /\ r.valueStart = s.valueStart /\ r.stackBytes = s.stackBytes
  /\ r.iregs = s.iregs + (IF part.float THEN 0 ELSE part.n)
  /\ r.fregs = s.fregs + (IF part.float THEN part.n ELSE 0)

\* The steps of a part are steps, one for each of its registers.
LEMMA PartFacts ==
  ASSUME NEW s \in SeqDomain, NEW part \in Part
  PROVE  /\ PartSteps(s, part) \in Seq(StepDomain) /\ Len(PartSteps(s, part)) = part.n
         /\ \A k \in 1..part.n :
              LET st == PartSteps(s, part)[k] IN
              /\ st.kind \in IF part.float THEN Floats ELSE Ints
              /\ st.reg = (IF part.float THEN s.fregs ELSE s.iregs) + k - 1
              /\ st.offset = part.offset + (k - 1) * part.size /\ st.size = part.size
<1> DEFINE n == part.n
           p == PartSteps(s, part)
<1>1. n \in Nat /\ part.offset \in Nat /\ part.size \in Nat /\ s.fregs \in Nat /\ s.iregs \in Nat
  BY DEF Part, SeqDomain
<1>2. ASSUME NEW k \in 1..n
      PROVE  /\ p[k] \in StepDomain
             /\ p[k].kind \in IF part.float THEN Floats ELSE Ints
             /\ p[k].reg = (IF part.float THEN s.fregs ELSE s.iregs) + k - 1
             /\ p[k].offset = part.offset + (k - 1) * part.size /\ p[k].size = part.size
  <2> DEFINE kind == IF part.float THEN "float" ELSE IF k - 1 \in part.ptrs THEN "pointer" ELSE "int"
             first == IF part.float THEN s.fregs ELSE s.iregs
             off == part.offset + (k - 1) * part.size
  <2>1. first \in Nat /\ k - 1 \in Nat /\ first + k - 1 \in Nat
    BY <1>1
  <2>2. off \in Nat
    <3>1. \A a, b \in Nat : a * b \in Nat
      OBVIOUS
    <3>2. (k - 1) * part.size \in Nat
      BY <1>1, <2>1, <3>1
    <3> QED BY <1>1, <3>2
  <2>3. p[k] = [kind |-> kind, offset |-> off, size |-> part.size, stkOff |-> 0, reg |-> first + k - 1]
    BY DEF PartSteps, RegStep
  <2>4. kind \in {"stack", "int", "pointer", "float"} /\ kind \in IF part.float THEN Floats ELSE Ints
    BY DEF Ints, Floats
  <2> HIDE DEF kind, first, off, p
  <2>5. p[k] \in StepDomain
    BY <1>1, <2>1, <2>2, <2>3, <2>4 DEF StepDomain
  <2>6. p[k].kind = kind /\ p[k].reg = first + k - 1 /\ p[k].offset = off /\ p[k].size = part.size
    BY <2>3
  <2> QED BY <2>4, <2>5, <2>6 DEF first, off
<1>3. p = [k \in 1..n |-> p[k]]
  BY DEF PartSteps
<1> HIDE DEF p
<1>4. p \in [1..n -> StepDomain]
  BY <1>2, <1>3
<1>5. p \in Seq(StepDomain)
  BY <1>1, <1>4, SeqDef, Zenon DEF n
<1>6. Len(p) = n
  BY <1>1, <1>4, <1>5, LenProperties
<1> QED BY <1>2, <1>5, <1>6 DEF p

\* Taking a part's registers does that.
LEMMA AssignFacts ==
  ASSUME NEW s \in SeqDomain, NEW part \in Part
  PROVE  Taken(s, part, IF part.float THEN AssignFloatN(s, part) ELSE AssignIntN(s, part))
<1> DEFINE p == PartSteps(s, part)
           q == s.steps \o p
<1>1. q \in Seq(StepDomain)
  BY PartFacts, ConcatProperties DEF SeqDomain
<1>2. part.n \in Nat /\ s.iregs \in Nat /\ s.fregs \in Nat
  BY DEF Part, SeqDomain
<1>3. CASE part.float
  <2>1. AssignFloatN(s, part) = [s EXCEPT !.steps = q, !.fregs = s.fregs + part.n]
    BY <1>3 DEF AssignFloatN, PartSteps
  <2> HIDE DEF q
  <2>2. s.fregs + part.n \in Nat
    BY <1>2
  <2> DEFINE r == [s EXCEPT !.steps = q, !.fregs = s.fregs + part.n]
  <2>3. /\ r \in SeqDomain /\ r.steps = q /\ r.fregs = s.fregs + part.n
        /\ r.iregs = s.iregs /\ r.valueStart = s.valueStart /\ r.stackBytes = s.stackBytes
    BY <1>1, <2>2 DEF SeqDomain
  <2> HIDE DEF r
  <2>4. Taken(s, part, r)
    BY <1>2, <1>3, <2>3 DEF Taken, q
  <2> QED BY <1>3, <2>1, <2>4 DEF r
<1>4. CASE ~part.float
  <2>1. AssignIntN(s, part) = [s EXCEPT !.steps = q, !.iregs = s.iregs + part.n]
    BY <1>4 DEF AssignIntN, PartSteps
  <2> HIDE DEF q
  <2>2. s.iregs + part.n \in Nat
    BY <1>2
  <2> DEFINE r == [s EXCEPT !.steps = q, !.iregs = s.iregs + part.n]
  <2>3. /\ r \in SeqDomain /\ r.steps = q /\ r.iregs = s.iregs + part.n
        /\ r.fregs = s.fregs /\ r.valueStart = s.valueStart /\ r.stackBytes = s.stackBytes
    BY <1>1, <2>2 DEF SeqDomain
  <2> HIDE DEF r
  <2>4. Taken(s, part, r)
    BY <1>2, <1>4, <2>3 DEF Taken, q
  <2> QED BY <1>4, <2>1, <2>4 DEF r
<1> QED BY <1>3, <1>4

Acc == [ok : BOOLEAN, s : SeqDomain]

Take(acc, part) ==
  IF acc.ok /\ ~part.float /\ IntsFit(acc.s, part.n)
    THEN [ok |-> TRUE, s |-> AssignIntN(acc.s, part)]
  ELSE IF acc.ok /\ part.float /\ FloatsFit(acc.s, part)
    THEN [ok |-> TRUE, s |-> AssignFloatN(acc.s, part)]
  ELSE [acc EXCEPT !.ok = FALSE]

\* One part of the walk: taken if everything before it was and it fits.
LEMMA TakeFacts ==
  ASSUME NEW acc \in Acc, NEW part \in Part
  PROVE  /\ Take(acc, part) \in Acc
         /\ Take(acc, part).ok => acc.ok /\ Fits(acc.s, part) /\ Taken(acc.s, part, Take(acc, part).s)
         /\ ~Take(acc, part).ok => ~acc.ok \/ ~Fits(acc.s, part)
<1> DEFINE r == IF part.float THEN AssignFloatN(acc.s, part) ELSE AssignIntN(acc.s, part)
<1>1. acc.s \in SeqDomain /\ acc.ok \in BOOLEAN /\ part.float \in BOOLEAN
  BY DEF Acc, Part
<1>2. Taken(acc.s, part, r)
  BY <1>1, AssignFacts
<1>3. r \in SeqDomain
  BY <1>2 DEF Taken
<1>4. CASE acc.ok /\ Fits(acc.s, part)
  <2>1. Take(acc, part) = [ok |-> TRUE, s |-> r]
    BY <1>1, <1>4 DEF Take, Fits
  <2> HIDE DEF r
  <2>2. Take(acc, part) \in Acc /\ Take(acc, part).ok /\ Take(acc, part).s = r
    BY <1>3, <2>1 DEF Acc
  <2> QED BY <1>2, <1>4, <2>2
<1>5. CASE ~(acc.ok /\ Fits(acc.s, part))
  <2>1. Take(acc, part) = [acc EXCEPT !.ok = FALSE]
    BY <1>1, <1>5 DEF Take, Fits
  <2>2. [acc EXCEPT !.ok = FALSE] \in Acc /\ ~[acc EXCEPT !.ok = FALSE].ok
    BY DEF Acc
  <2> QED BY <1>5, <2>1, <2>2
<1> QED BY <1>4, <1>5

\* RegAssign is that walk over the parts of a type.
LEMMA WalkIs ==
  ASSUME NEW begun \in SeqDomain, NEW t, t.parts \in Seq(Part), t.array \in BOOLEAN,
         NEW f \in [0..Len(t.parts) -> Acc], f[0] = [ok |-> TRUE, s |-> begun],
         \A k \in 1..Len(t.parts) : f[k] = Take(f[k - 1], t.parts[k])
  PROVE  RegAssign(begun, t) = [f[Len(t.parts)] EXCEPT !.ok = @ /\ ~t.array]
<1> DEFINE n == Len(t.parts)
           Start == [ok |-> TRUE, s |-> begun]
           F == [x \in Acc \X (1..n) |-> Take(x[1], t.parts[x[2]])]
<1>1. n \in Nat /\ DOMAIN t.parts = 1..n /\ (\A k \in 1..n : t.parts[k] \in Part)
  BY LenProperties, ElementOfSeq
<1>2. ASSUME NEW c \in Acc, NEW a \in Part PROVE Take(c, a) \in Acc
  BY <1>2, TakeFacts
<1>3. Start \in Acc /\ f[0] = Start
  BY DEF Acc
<1> HIDE DEF Start
<1> HIDE DEF n
<1>4. F \in [Acc \X (1..n) -> Acc]
  BY <1>1, <1>2
<1>5. PICK h \in [SUBSET (1..n) -> Acc] :
        /\ h[{}] = Start
        /\ \A s \in SUBSET (1..n) : s # {} => h[s] = F[<<h[s \ {Max(s)}], Max(s)>>]
  <2> HIDE DEF F
  <2>1. \E h : IsFold(h, Acc, Start, F, n)
    BY <1>1, <1>3, <1>4, FoldExists
  <2> QED BY <2>1 DEF IsFold
<1> DEFINE Body(g, s) == IF s = {} THEN Start ELSE Take(g[s \ {Max(s)}], t.parts[Max(s)])
<1>6. ASSUME NEW s \in SUBSET (1..n) PROVE h[s] = Body(h, s)
  <2>1. CASE s = {}
    BY <1>5, <2>1
  <2>2. CASE s # {}
    <3>1. Max(s) \in 1..n /\ s \ {Max(s)} \in SUBSET (1..n)
      <4>1. Max(s) \in s
        BY <1>1, <2>2, MaxFacts
      <4> QED BY <4>1
    <3>2. h[s \ {Max(s)}] \in Acc
      BY <3>1
    <3>3. h[s] = F[<<h[s \ {Max(s)}], Max(s)>>]
      <4> HIDE DEF F
      <4> QED BY <1>5, <2>2
    <3> QED BY <2>2, <3>1, <3>2, <3>3
  <2> QED BY <2>1, <2>2
<1>7. ASSUME NEW g, g = [s \in SUBSET (1..n) |-> Body(g, s)]
      PROVE  g = h
  <2> DEFINE T == {s \in SUBSET (1..n) : g[s] = h[s]}
  <2>1. \A s \in SUBSET (1..n) : g[s] = Body(g, s)
    <3> HIDE DEF Body
    <3> QED BY <1>7
  <2>2. {} \in T
    <3>1. {} \in SUBSET (1..n)
      OBVIOUS
    <3>2. g[{}] = Body(g, {}) /\ h[{}] = Body(h, {})
      <4> HIDE DEF Body
      <4> QED BY <1>6, <2>1, <3>1
    <3> QED BY <3>1, <3>2
  <2>3. ASSUME NEW s \in SUBSET (1..n), s # {}, s \ {Max(s)} \in T PROVE s \in T
    <3>1. g[s] = Body(g, s) /\ h[s] = Body(h, s)
      <4> HIDE DEF Body
      <4> QED BY <1>6, <2>1
    <3>2. Body(g, s) = Body(h, s)
      BY <2>3
    <3> QED BY <3>1, <3>2
  <2> HIDE DEF T
  <2>4. SUBSET (1..n) \subseteq T
    BY <1>1, <2>2, <2>3, IndexInduction
  <2>5. \A s \in SUBSET (1..n) : g[s] = h[s]
    BY <2>4 DEF T
  <2>6. g = [s \in SUBSET (1..n) |-> g[s]] /\ h = [s \in SUBSET (1..n) |-> h[s]]
    <3> HIDE DEF Body
    <3> QED BY <1>7
  <2> QED BY <2>5, <2>6
<1>8. RegAssign(begun, t) = [h[1..n] EXCEPT !.ok = @ /\ ~t.array]
  <2> DEFINE iter == CHOOSE g : g = [s \in SUBSET (DOMAIN t.parts) |-> Body(g, s)]
  <2>1. RegAssign(begun, t) = [iter[DOMAIN t.parts] EXCEPT !.ok = @ /\ ~t.array]
    BY DEF RegAssign, FoldLeft, MapThenFoldSet, Take, Start
  <2> HIDE DEF iter
  <2>2. h = [s \in SUBSET (1..n) |-> Body(h, s)]
    <3> HIDE DEF Body
    <3> QED BY <1>6
  <2>3. iter = CHOOSE g : g = [s \in SUBSET (1..n) |-> Body(g, s)]
    <3> HIDE DEF Body
    <3> QED BY <1>1 DEF iter
  <2>4. iter = h
    <3> DEFINE Fix(g) == g = [s \in SUBSET (1..n) |-> Body(g, s)]
    <3>1. Fix(h) /\ \A g : Fix(g) => g = h
      <4> HIDE DEF Body
      <4> QED BY <1>7, <2>2
    <3>2. iter = CHOOSE g : Fix(g)
      BY <2>3
    <3> HIDE DEF Fix
    <3> QED BY <3>1, <3>2
  <2> QED BY <1>1, <2>1, <2>4
<1>9. ASSUME NEW k \in 1..n PROVE h[1..k] = Take(h[1..k - 1], t.parts[k])
  <2>1. 1..k \in SUBSET (1..n) /\ 1..k # {} /\ Max(1..k) = k /\ (1..k) \ {k} = 1..k - 1
    BY <1>1, PrefixFacts
  <2>2. h[1..k] = Body(h, 1..k)
    <3> HIDE DEF Body
    <3> QED BY <1>6, <2>1
  <2> QED BY <2>1, <2>2
<1>10. h[1..n] = f[n]
  <2> DEFINE S == {k \in 0..n : h[1..k] = f[k]}
  <2>1. 0 \in S
    <3>1. 1..0 = {} /\ {} \in SUBSET (1..n)
      OBVIOUS
    <3>2. h[{}] = Body(h, {})
      <4> HIDE DEF Body
      <4> QED BY <1>6, <3>1
    <3> QED BY <1>1, <1>3, <3>1, <3>2
  <2>2. ASSUME NEW k \in 0..n - 1, k \in S PROVE k + 1 \in S
    <3>1. k + 1 \in 1..n /\ k + 1 - 1 = k /\ k + 1 \in 0..n
      BY <1>1
    <3>2. h[1..k + 1] = Take(h[1..k], t.parts[k + 1]) /\ f[k + 1] = Take(f[k], t.parts[k + 1])
      BY <1>9, <3>1 DEF n
    <3> QED BY <2>2, <3>1, <3>2
  <2> HIDE DEF S
  <2>3. n \in S
    <3>1. 0..n \subseteq S
      BY <1>1, <2>1, <2>2, BoundedInduction
    <3> QED BY <1>1, <3>1
  <2> QED BY <2>3 DEF S
<1> QED BY <1>8, <1>10 DEF n

-----------------------------------------------------------------------------
(* Counting registers *)

InFirst(t, k) == {x \in InRegs(t) : x[1] <= k}

Upto(t, k, float) == Cardinality({x \in InFirst(t, k) : t.parts[x[1]].float = float})

\* The registers of a type are finitely many.
LEMMA InRegsFinite ==
  ASSUME NEW t, t.parts \in Seq(Part)
  PROVE  IsFiniteSet(InRegs(t))
<1>1. Len(t.parts) \in Nat /\ DOMAIN t.parts = 1..Len(t.parts)
  BY LenProperties
<1>2. \A a, b \in Int : IsFiniteSet(a..b)
  BY FS_Interval
<1>3. IsFiniteSet(DOMAIN t.parts)
  <2>1. 1 \in Int /\ Len(t.parts) \in Int
    BY <1>1
  <2> QED BY <1>1, <1>2, <2>1, Zenon
<1>4. IsFiniteSet(0..7)
  <2>1. 0 \in Int /\ 7 \in Int
    OBVIOUS
  <2> QED BY <1>2, <2>1, Zenon
<1>5. IsFiniteSet((DOMAIN t.parts) \X (0..7))
  BY <1>3, <1>4, FS_Product
<1>6. InRegs(t) \subseteq (DOMAIN t.parts) \X (0..7)
  BY DEF InRegs
<1> QED BY <1>5, <1>6, FS_Subset

\* The k'th part brings as many registers as it has, all of one file.
LEMMA UptoFacts ==
  ASSUME NEW t, t.parts \in Seq(Part), NEW float \in BOOLEAN
  PROVE  /\ Upto(t, 0, float) = 0
         /\ RegsOf(t, float) \in Nat
         /\ \A k \in 0..Len(t.parts) : Upto(t, k, float) \in Nat /\ Upto(t, k, float) <= RegsOf(t, float)
         /\ Upto(t, Len(t.parts), float) = RegsOf(t, float)
         /\ \A k \in 1..Len(t.parts) :
              Upto(t, k, float) = Upto(t, k - 1, float) + IF t.parts[k].float = float THEN t.parts[k].n ELSE 0
<1> DEFINE n == Len(t.parts)
           R(k) == {x \in InFirst(t, k) : t.parts[x[1]].float = float}
           All == {x \in InRegs(t) : t.parts[x[1]].float = float}
<1>1. n \in Nat /\ DOMAIN t.parts = 1..n /\ \A k \in 1..n : t.parts[k] \in Part
  BY LenProperties, ElementOfSeq
<1>2. IsFiniteSet(All) /\ Cardinality(All) \in Nat
  BY InRegsFinite, FS_Subset, FS_CardinalityType
<1>3. ASSUME NEW k \in 0..n PROVE R(k) \subseteq All
  BY DEF InFirst
<1>4. ASSUME NEW k \in 0..n
      PROVE  IsFiniteSet(R(k)) /\ Cardinality(R(k)) \in Nat /\ Cardinality(R(k)) <= Cardinality(All)
  <2> HIDE DEF R, All
  <2> QED BY <1>2, <1>3, FS_Subset, FS_CardinalityType
<1>5. R(n) = All
  BY <1>1 DEF InFirst, InRegs
<1>6. R(0) = {}
  BY <1>1 DEF InFirst, InRegs
<1>7. ASSUME NEW k \in 1..n
      PROVE  Cardinality(R(k)) = Cardinality(R(k - 1)) + IF t.parts[k].float = float THEN t.parts[k].n ELSE 0
  <2> DEFINE m == t.parts[k].n
             New == {k} \X (0..m - 1)
  <2>1. m \in 1..8 /\ k - 1 \in 0..n
    BY <1>1 DEF Part
  <2>2. CASE t.parts[k].float = float
    <3>1. R(k) = R(k - 1) \cup New
      <4>1. ASSUME NEW x \in InRegs(t) PROVE x[1] \in 1..n /\ x[2] \in 0..7 /\ x[2] < t.parts[x[1]].n /\ x = <<x[1], x[2]>>
        BY <1>1 DEF InRegs
      <4>2. ASSUME NEW x \in R(k) PROVE x \in R(k - 1) \cup New
        <5>1. x \in InRegs(t) /\ x[1] <= k /\ t.parts[x[1]].float = float
          BY DEF InFirst
        <5>2. x[1] \in 1..n /\ x[2] \in 0..7 /\ x[2] < t.parts[x[1]].n /\ x = <<x[1], x[2]>>
          BY <4>1, <5>1
        <5>3. CASE x[1] = k
          <6>1. x[2] \in 0..m - 1
            <7>1. x[2] < m /\ x[2] \in 0..7
              BY <5>2, <5>3
            <7> HIDE DEF m
            <7> QED BY <2>1, <7>1
          <6> QED BY <5>2, <5>3, <6>1
        <5>4. CASE x[1] # k
          <6>1. x[1] <= k - 1
            BY <5>1, <5>2, <5>4
          <6> QED BY <5>1, <6>1 DEF InFirst
        <5> QED BY <5>3, <5>4
      <4>3. ASSUME NEW x \in R(k - 1) PROVE x \in R(k)
        <5>1. x \in InRegs(t) /\ x[1] <= k - 1 /\ t.parts[x[1]].float = float
          BY DEF InFirst
        <5>2. x[1] <= k
          BY <4>1, <5>1
        <5> QED BY <5>1, <5>2 DEF InFirst
      <4>4. ASSUME NEW x \in New PROVE x \in R(k)
        <5>1. x = <<x[1], x[2]>> /\ x[1] = k /\ x[2] \in 0..m - 1
          OBVIOUS
        <5>2. x[2] \in 0..7 /\ x[2] < m
          BY <2>1, <5>1
        <5>3. x \in InRegs(t)
          BY <1>1, <5>1, <5>2 DEF InRegs
        <5> QED BY <2>2, <5>1, <5>3 DEF InFirst
      <4> HIDE DEF R, New
      <4> QED BY <4>2, <4>3, <4>4
    <3>2. R(k - 1) \cap New = {}
      <4>1. \A x \in R(k - 1) : x[1] <= k - 1
        BY DEF InFirst
      <4>2. \A x \in New : x[1] = k
        OBVIOUS
      <4>3. ~(k <= k - 1)
        OBVIOUS
      <4> HIDE DEF R, New
      <4> QED BY <4>1, <4>2, <4>3
    <3>3. IsFiniteSet(New) /\ Cardinality(New) = m
      <4>1. \A a, b \in Int : IsFiniteSet(a..b) /\ Cardinality(a..b) = IF a > b THEN 0 ELSE b - a + 1
        BY FS_Interval
      <4>2. IsFiniteSet(0..m - 1) /\ Cardinality(0..m - 1) = m
        <5>1. 0 \in Int /\ m - 1 \in Int
          BY <2>1
        <5>2. IsFiniteSet(0..m - 1) /\ Cardinality(0..m - 1) = IF 0 > m - 1 THEN 0 ELSE m - 1 - 0 + 1
          BY <4>1, <5>1, Zenon
        <5> QED BY <2>1, <5>2
      <4>3. IsFiniteSet({k}) /\ Cardinality({k}) = 1
        BY FS_Singleton
      <4>4. IsFiniteSet(New) /\ Cardinality(New) = 1 * m
        <5> HIDE DEF m
        <5> QED BY <4>2, <4>3, FS_Product
      <4> QED BY <2>1, <4>4
    <3>4. Cardinality({}) = 0 /\ IsFiniteSet(R(k - 1)) /\ Cardinality(R(k - 1)) \in Nat
      <4> HIDE DEF R
      <4> QED BY <1>4, <2>1, FS_EmptySet
    <3>5. Cardinality(R(k)) = Cardinality(R(k - 1)) + Cardinality(New) - Cardinality({})
      <4> HIDE DEF R, New
      <4> QED BY <3>1, <3>2, <3>3, <3>4, FS_Union
    <3> HIDE DEF R, New, m
    <3> QED BY <2>1, <2>2, <3>3, <3>4, <3>5 DEF m
  <2>3. CASE t.parts[k].float # float
    <3>1. R(k) = R(k - 1)
      <4>1. \A x \in InRegs(t) : x[1] \in 1..n
        BY <1>1 DEF InRegs
      <4>2. \A i \in 1..n : (i <= k /\ t.parts[i].float = float <=> i <= k - 1 /\ t.parts[i].float = float)
        <5>1. \A i \in 1..n : i <= k <=> i <= k - 1 \/ i = k
          BY <1>1
        <5> QED BY <2>3, <5>1
      <4> QED BY <4>1, <4>2 DEF InFirst
    <3>2. Cardinality(R(k - 1)) \in Nat
      <4> HIDE DEF R
      <4> QED BY <1>4, <2>1
    <3> HIDE DEF R
    <3> QED BY <2>3, <3>1, <3>2
  <2> QED BY <2>2, <2>3
<1>8. \A k : Upto(t, k, float) = Cardinality(R(k))
  BY DEF Upto
<1>9. RegsOf(t, float) = Cardinality(All)
  BY DEF RegsOf
<1>10. Cardinality(R(0)) = 0
  BY <1>6, FS_EmptySet
<1> HIDE DEF R, All
<1> QED BY <1>1, <1>2, <1>4, <1>5, <1>7, <1>8, <1>9, <1>10

-----------------------------------------------------------------------------
(* A value in registers *)

RegsOK(s) ==
  /\ InFile(s.steps, Ints, s.iregs) /\ s.iregs <= IntRegs
  /\ InFile(s.steps, Floats, s.fregs) /\ s.fregs <= FloatRegs

WordOf(t, x) == <<t.parts[x[1]].offset + x[2] * t.parts[x[1]].size, t.parts[x[1]].size>>

\* add moves these words, none of them over the stack
Holds(add, words) ==
  /\ \A j \in 1..Len(add) : add[j].kind # "stack"
  /\ {<<add[j].offset, add[j].size>> : j \in 1..Len(add)} = words

\* r is s with the registers of t's first k parts taken
InRegisters(s, t, k, r) ==
  /\ r \in SeqDomain /\ RegsOK(r)
  /\ r.valueStart = s.valueStart /\ r.stackBytes = s.stackBytes
  /\ r.iregs = s.iregs + Upto(t, k, FALSE) /\ r.fregs = s.fregs + Upto(t, k, TRUE)
  /\ \E add \in Seq(StepDomain) :
       r.steps = s.steps \o add /\ Holds(add, {WordOf(t, x) : x \in InFirst(t, k)})

\* Taking a part that fits keeps every register to one step (assignIntN, assignFloatN).
LEMMA TakenKeeps ==
  ASSUME NEW s \in SeqDomain, RegsOK(s), NEW part \in Part, NEW r, Taken(s, part, r), Fits(s, part)
  PROVE  RegsOK(r)
<1> DEFINE p == PartSteps(s, part)
<1>1. /\ s.steps \in Seq(StepDomain) /\ s.iregs \in Nat /\ s.fregs \in Nat /\ part.n \in Nat
      /\ part.float \in BOOLEAN
  BY DEF SeqDomain, Part
<1>2. /\ p \in Seq(StepDomain) /\ Len(p) = part.n
      /\ \A k \in 1..part.n : p[k].kind \in (IF part.float THEN Floats ELSE Ints)
                              /\ p[k].reg = (IF part.float THEN s.fregs ELSE s.iregs) + k - 1
  BY PartFacts
<1>3. r.steps = s.steps \o p /\ r.iregs = s.iregs + (IF part.float THEN 0 ELSE part.n)
      /\ r.fregs = s.fregs + (IF part.float THEN part.n ELSE 0)
  BY DEF Taken
<1>4. Ints \cap Floats = {}
  BY DEF Ints, Floats
<1>5. /\ InFile(s.steps, Ints, s.iregs) /\ s.iregs <= IntRegs
      /\ InFile(s.steps, Floats, s.fregs) /\ s.fregs <= FloatRegs
  BY DEF RegsOK
<1> HIDE DEF p
<1>6. CASE part.float
  <2>1. \A k \in 1..Len(p) : p[k].kind \in Floats /\ p[k].reg = s.fregs + k - 1
    BY <1>2, <1>6
  <2>2. InFile(s.steps \o p, Floats, s.fregs + Len(p))
    BY <1>1, <1>2, <1>5, <2>1, FileGrows
  <2>3. \A k \in 1..Len(p) : p[k].kind \notin Ints
    BY <1>4, <2>1
  <2>4. InFile(s.steps \o p, Ints, s.iregs)
    BY <1>1, <1>2, <1>5, <2>3, FileKeeps
  <2>5. s.fregs + part.n <= FloatRegs
    BY <1>6 DEF Fits, FloatsFit
  <2>6. r.iregs = s.iregs /\ r.fregs = s.fregs + part.n
    BY <1>1, <1>3, <1>6
  <2> QED BY <1>2, <1>3, <1>5, <2>2, <2>4, <2>5, <2>6 DEF RegsOK
<1>7. CASE ~part.float
  <2>1. \A k \in 1..Len(p) : p[k].kind \in Ints /\ p[k].reg = s.iregs + k - 1
    BY <1>2, <1>7
  <2>2. InFile(s.steps \o p, Ints, s.iregs + Len(p))
    BY <1>1, <1>2, <1>5, <2>1, FileGrows
  <2>3. \A k \in 1..Len(p) : p[k].kind \notin Floats
    BY <1>4, <2>1
  <2>4. InFile(s.steps \o p, Floats, s.fregs)
    BY <1>1, <1>2, <1>5, <2>3, FileKeeps
  <2>5. s.iregs + part.n <= IntRegs
    BY <1>7 DEF Fits, IntsFit
  <2>6. r.fregs = s.fregs /\ r.iregs = s.iregs + part.n
    BY <1>1, <1>3, <1>7
  <2> QED BY <1>2, <1>3, <1>5, <2>2, <2>4, <2>5, <2>6 DEF RegsOK
<1> QED BY <1>1, <1>6, <1>7

\* Two runs of steps that move words move those of both.
LEMMA HoldsBoth ==
  ASSUME NEW a \in Seq(StepDomain), NEW b \in Seq(StepDomain), NEW v, NEW w, Holds(a, v), Holds(b, w)
  PROVE  Holds(a \o b, v \cup w)
<1> DEFINE c == a \o b
           l == Len(a)
           m == Len(b)
<1>1. l \in Nat /\ m \in Nat /\ Len(c) = l + m
  BY ConcatProperties, LenProperties
<1>2. \A i \in 1..l : i \in 1..l + m /\ c[i] = a[i]
  BY <1>1, ConcatProperties
<1>3. \A k \in 1..m : l + k \in 1..l + m /\ c[l + k] = b[k]
  BY <1>1, ConcatProperties
<1>4. \A i \in 1..l + m : i \in 1..l \/ \E k \in 1..m : i = l + k
  <2>1. ASSUME NEW i \in 1..l + m, i \notin 1..l PROVE i - l \in 1..m /\ i = l + (i - l)
    BY <1>1, <2>1
  <2> QED BY <2>1
<1>5. /\ \A j \in 1..l : a[j].kind # "stack"
      /\ {<<a[j].offset, a[j].size>> : j \in 1..l} = v
      /\ \A j \in 1..m : b[j].kind # "stack"
      /\ {<<b[j].offset, b[j].size>> : j \in 1..m} = w
  BY DEF Holds
<1> HIDE DEF c, l, m
<1>6. ASSUME NEW j \in 1..l + m PROVE c[j].kind # "stack" /\ <<c[j].offset, c[j].size>> \in v \cup w
  BY <1>2, <1>3, <1>4, <1>5
<1>7. ASSUME NEW x \in v \cup w PROVE \E j \in 1..l + m : x = <<c[j].offset, c[j].size>>
  <2>1. CASE x \in v
    <3>1. PICK j \in 1..l : x = <<a[j].offset, a[j].size>>
      BY <1>5, <2>1
    <3> QED BY <1>2, <3>1
  <2>2. CASE x \in w
    <3>1. PICK j \in 1..m : x = <<b[j].offset, b[j].size>>
      BY <1>5, <2>2
    <3> QED BY <1>3, <3>1
  <2> QED BY <2>1, <2>2
<1>8. {<<c[j].offset, c[j].size>> : j \in 1..l + m} = v \cup w
  BY <1>6, <1>7
<1>9. Holds(c, v \cup w)
  BY <1>1, <1>6, <1>8 DEF Holds
<1> QED BY <1>9 DEF c

\* A part's registers move the words of that part.
LEMMA PartHolds ==
  ASSUME NEW s \in SeqDomain, NEW t, t.parts \in Seq(Part), NEW k \in 1..Len(t.parts)
  PROVE  Holds(PartSteps(s, t.parts[k]), {WordOf(t, x) : x \in {y \in InRegs(t) : y[1] = k}})
<1> DEFINE part == t.parts[k]
           p == PartSteps(s, part)
           n == part.n
           W == {WordOf(t, x) : x \in {y \in InRegs(t) : y[1] = k}}
<1>1. /\ part \in Part /\ k \in DOMAIN t.parts /\ n \in 1..8 /\ part.offset \in Nat /\ part.size \in Nat
      /\ part.float \in BOOLEAN
  <2>1. part \in Part /\ k \in DOMAIN t.parts
    BY ElementOfSeq, LenProperties
  <2> HIDE DEF part
  <2> QED BY <2>1 DEF Part
<1>2. /\ p \in Seq(StepDomain) /\ Len(p) = n
      /\ \A j \in 1..n : p[j].kind \in (IF part.float THEN Floats ELSE Ints)
                         /\ p[j].offset = part.offset + (j - 1) * part.size /\ p[j].size = part.size
  <2> HIDE DEF part
  <2> QED BY <1>1, PartFacts
<1>3. "stack" \notin Ints \cup Floats
  BY DEF Ints, Floats
<1>4. \A j \in 1..n : p[j].kind # "stack"
  BY <1>1, <1>2, <1>3
<1>5. ASSUME NEW j \in 1..n PROVE <<p[j].offset, p[j].size>> \in W
  <2>1. <<k, j - 1>> \in {y \in InRegs(t) : y[1] = k}
    <3>1. j - 1 \in 0..7 /\ j - 1 < n
      BY <1>1
    <3> QED BY <1>1, <3>1 DEF InRegs
  <2>2. <<p[j].offset, p[j].size>> = WordOf(t, <<k, j - 1>>)
    BY <1>2 DEF WordOf
  <2> QED BY <2>1, <2>2
<1>6. ASSUME NEW w \in W PROVE \E j \in 1..n : w = <<p[j].offset, p[j].size>>
  <2>1. PICK x \in InRegs(t) : x[1] = k /\ w = WordOf(t, x)
    OBVIOUS
  <2>2. x[2] \in 0..7 /\ x[2] < n
    BY <2>1 DEF InRegs
  <2>3. PICK j \in 1..n : j - 1 = x[2]
    <3>1. x[2] + 1 \in 1..n /\ x[2] + 1 - 1 = x[2]
      <4> HIDE DEF n
      <4> QED BY <1>1, <2>2
    <3> DEFINE y == x[2]
    <3> HIDE DEF y, n
    <3>2. y + 1 \in 1..n /\ y + 1 - 1 = y
      BY <3>1 DEF y
    <3>3. y \in 0..7
      BY <2>2 DEF y
    <3>4. \E j \in 1..n : j - 1 = y
      BY <3>2, <3>3
    <3> QED BY <3>4 DEF y
  <2>4. p[j].offset = part.offset + x[2] * part.size /\ p[j].size = part.size
    <3>1. p[j].offset = part.offset + (j - 1) * part.size /\ p[j].size = part.size
      BY <1>2
    <3> QED BY <2>3, <3>1
  <2> QED BY <2>1, <2>3, <2>4 DEF WordOf
<1>7. {<<p[j].offset, p[j].size>> : j \in 1..n} = W
  <2> HIDE DEF W, p, n
  <2> QED BY <1>5, <1>6
<1> QED BY <1>2, <1>4, <1>7 DEF Holds

\* The walk goes on with the next part.
LEMMA InRegistersStep ==
  ASSUME NEW s \in SeqDomain, NEW t, t.parts \in Seq(Part), NEW k \in 1..Len(t.parts),
         NEW r, InRegisters(s, t, k - 1, r), Fits(r, t.parts[k]),
         NEW new, Taken(r, t.parts[k], new)
  PROVE  InRegisters(s, t, k, new)
<1> DEFINE part == t.parts[k]
           p == PartSteps(r, part)
<1>1. part \in Part /\ part.float \in BOOLEAN /\ part.n \in Nat
  <2>1. part \in Part
    BY ElementOfSeq
  <2> HIDE DEF part
  <2> QED BY <2>1 DEF Part
<1>2. r \in SeqDomain /\ RegsOK(r)
  BY DEF InRegisters
<1>3. RegsOK(new)
  <2> HIDE DEF part
  <2> QED BY <1>1, <1>2, TakenKeeps DEF part
<1>4. /\ new \in SeqDomain /\ new.valueStart = s.valueStart /\ new.stackBytes = s.stackBytes
      /\ new.steps = r.steps \o p
  BY DEF InRegisters, Taken
<1>5. new.iregs = s.iregs + Upto(t, k, FALSE) /\ new.fregs = s.fregs + Upto(t, k, TRUE)
  <2> DEFINE ints == IF part.float THEN 0 ELSE part.n
             floats == IF part.float THEN part.n ELSE 0
  <2>1. /\ r.iregs = s.iregs + Upto(t, k - 1, FALSE) /\ r.fregs = s.fregs + Upto(t, k - 1, TRUE)
        /\ new.iregs = r.iregs + ints
        /\ new.fregs = r.fregs + floats
    BY DEF InRegisters, Taken
  <2>2. ASSUME NEW float \in BOOLEAN
        PROVE  /\ Upto(t, k, float) = Upto(t, k - 1, float) + IF part.float = float THEN part.n ELSE 0
               /\ Upto(t, k - 1, float) \in Nat
    BY UptoFacts
  <2>3. s.iregs \in Nat /\ s.fregs \in Nat
    BY DEF SeqDomain
  <2>4. /\ Upto(t, k, FALSE) = Upto(t, k - 1, FALSE) + ints
        /\ Upto(t, k, TRUE) = Upto(t, k - 1, TRUE) + floats
    <3> HIDE DEF part
    <3>1. CASE part.float = TRUE
      BY <2>2, <3>1
    <3>2. CASE part.float = FALSE
      BY <2>2, <3>2
    <3> QED BY <1>1, <3>1, <3>2
  <2>5. Upto(t, k - 1, FALSE) \in Nat /\ Upto(t, k - 1, TRUE) \in Nat
    BY <2>2
  <2>6. floats \in Nat /\ ints \in Nat
    BY <1>1
  <2> HIDE DEF part, ints, floats
  <2>7. new.iregs = s.iregs + Upto(t, k - 1, FALSE) + ints
    BY <2>1
  <2>8. new.fregs = s.fregs + Upto(t, k - 1, TRUE) + floats
    BY <2>1
  <2> DEFINE u == Upto(t, k - 1, FALSE)
             v == Upto(t, k - 1, TRUE)
  <2>9. u \in Nat /\ v \in Nat
    BY <2>5
  <2>10. s.iregs + u + ints = s.iregs + (u + ints)
    <3> HIDE DEF u
    <3> QED BY <2>3, <2>6, <2>9
  <2>11. s.fregs + v + floats = s.fregs + (v + floats)
    <3> HIDE DEF v
    <3> QED BY <2>3, <2>6, <2>9
  <2> QED BY <2>4, <2>7, <2>8, <2>10, <2>11, Zenon
<1>6. PICK add \in Seq(StepDomain) :
        r.steps = s.steps \o add /\ Holds(add, {WordOf(t, x) : x \in InFirst(t, k - 1)})
  BY DEF InRegisters
<1>7. p \in Seq(StepDomain)
  <2> HIDE DEF part
  <2> QED BY <1>1, <1>2, PartFacts
<1>8. add \o p \in Seq(StepDomain) /\ new.steps = s.steps \o (add \o p)
  <2>1. s.steps \in Seq(StepDomain)
    BY DEF SeqDomain
  <2> HIDE DEF p
  <2>2. (s.steps \o add) \o p = s.steps \o (add \o p)
    BY <1>6, <1>7, <2>1, StepsAssociate, Zenon
  <2>3. add \o p \in Seq(StepDomain)
    BY <1>6, <1>7, ConcatProperties
  <2> QED BY <1>4, <1>6, <2>2, <2>3
<1>9. Holds(add \o p, {WordOf(t, x) : x \in InFirst(t, k)})
  <2> DEFINE v == {WordOf(t, x) : x \in InFirst(t, k - 1)}
             w == {WordOf(t, x) : x \in {y \in InRegs(t) : y[1] = k}}
  <2>1. Holds(p, w)
    BY <1>2, PartHolds
  <2>2. {WordOf(t, x) : x \in InFirst(t, k)} = v \cup w
    <3>1. \A x \in InRegs(t) : x[1] \in 1..Len(t.parts)
      BY LenProperties DEF InRegs
    <3>2. \A i \in 1..Len(t.parts) : i <= k <=> i <= k - 1 \/ i = k
      OBVIOUS
    <3>3. InFirst(t, k) = InFirst(t, k - 1) \cup {y \in InRegs(t) : y[1] = k}
      BY <3>1, <3>2 DEF InFirst
    <3> QED BY <3>3
  <2> HIDE DEF v, w, p
  <2>3. Holds(add \o p, v \cup w)
    BY <1>6, <1>7, <2>1, HoldsBoth DEF v
  <2> QED BY <2>2, <2>3
<1> QED BY <1>3, <1>4, <1>5, <1>8, <1>9 DEF InRegisters

\* the registers left after s do not do for t, or t has a float no register holds
TooMany(s, t) ==
  \/ s.iregs + RegsOf(t, FALSE) > IntRegs
  \/ s.fregs + RegsOf(t, TRUE) > FloatRegs
  \/ \E p \in DOMAIN t.parts : t.parts[p].float /\ t.parts[p].size > FloatBytes

\* The walk begins with nothing taken.
LEMMA NoneTaken ==
  ASSUME NEW s \in SeqDomain, RegsOK(s), NEW t, t.parts \in Seq(Part)
  PROVE  InRegisters(s, t, 0, s)
<1>1. Upto(t, 0, FALSE) = 0 /\ Upto(t, 0, TRUE) = 0
  BY UptoFacts
<1>2. s.iregs = s.iregs + 0 /\ s.fregs = s.fregs + 0 /\ s.steps \in Seq(StepDomain)
  BY DEF SeqDomain
<1>3. InFirst(t, 0) = {}
  BY LenProperties DEF InFirst, InRegs
<1>4. <<>> \in Seq(StepDomain) /\ Len(<<>>) = 0 /\ s.steps = s.steps \o <<>>
  BY <1>2, EmptySeq, ConcatEmptySeq
<1>5. Holds(<<>>, {WordOf(t, x) : x \in InFirst(t, 0)})
  BY <1>3 DEF Holds
<1> QED BY <1>1, <1>2, <1>4, <1>5 DEF InRegisters

\* What a part says of itself: its bank, its registers, its size.
LEMMA PartFields ==
  \A p \in Part : p.float \in BOOLEAN /\ p.n \in Nat /\ p.size \in Nat
BY DEF Part

\* A part that does not fit is one too many for the registers s left.
LEMMA NotFitting ==
  ASSUME NEW s \in SeqDomain, NEW t, t.parts \in Seq(Part), NEW k \in 1..Len(t.parts),
         NEW r, InRegisters(s, t, k - 1, r), ~Fits(r, t.parts[k])
  PROVE  TooMany(s, t)
<1> DEFINE part == t.parts[k]
<1>1. part \in Part /\ k \in DOMAIN t.parts
  BY ElementOfSeq, LenProperties
<1>2. part.float \in BOOLEAN /\ part.n \in Nat /\ part.size \in Nat
  <2> HIDE DEF part
  <2> QED BY <1>1, PartFields, Zenon
<1>3. s.iregs \in Nat /\ s.fregs \in Nat /\ IntRegs \in Nat /\ FloatRegs \in Nat /\ FloatBytes \in Nat
  BY LayoutAssumption DEF SeqDomain
<1>4. r.iregs = s.iregs + Upto(t, k - 1, FALSE) /\ r.fregs = s.fregs + Upto(t, k - 1, TRUE)
  BY DEF InRegisters
<1>5. ASSUME NEW float \in BOOLEAN, part.float = float
      PROVE  /\ Upto(t, k - 1, float) \in Nat /\ RegsOf(t, float) \in Nat
             /\ Upto(t, k - 1, float) + part.n <= RegsOf(t, float)
  <2>1. /\ Upto(t, k, float) = Upto(t, k - 1, float) + IF part.float = float THEN part.n ELSE 0
        /\ Upto(t, k, float) <= RegsOf(t, float)
        /\ Upto(t, k - 1, float) \in Nat /\ RegsOf(t, float) \in Nat
    BY UptoFacts
  <2> QED BY <1>5, <2>1
<1>6. CASE part.float = TRUE
  <2>1. r.fregs + part.n > FloatRegs \/ part.size > FloatBytes
    <3>1. ~(r.fregs + part.n <= FloatRegs) \/ ~(part.size <= FloatBytes)
      BY <1>6 DEF Fits, FloatsFit
    <3>2. r.fregs \in Nat
      BY DEF InRegisters, SeqDomain
    <3> HIDE DEF part
    <3> QED BY <1>2, <1>3, <3>1, <3>2
  <2>2. CASE part.size > FloatBytes
    BY <1>1, <1>6, <2>2 DEF TooMany
  <2>3. CASE r.fregs + part.n > FloatRegs
    <3> DEFINE u == Upto(t, k - 1, TRUE)
               all == RegsOf(t, TRUE)
    <3>1. u \in Nat /\ all \in Nat /\ u + part.n <= all /\ r.fregs = s.fregs + u
      BY <1>4, <1>5, <1>6
    <3> HIDE DEF u, all, part
    <3>2. s.fregs + all > FloatRegs
      BY <1>2, <1>3, <2>3, <3>1
    <3> QED BY <3>2 DEF TooMany, all
  <2> QED BY <2>1, <2>2, <2>3
<1>7. CASE part.float = FALSE
  <2>1. ~(r.iregs + part.n <= IntRegs)
    BY <1>7 DEF Fits, IntsFit
  <2> DEFINE u == Upto(t, k - 1, FALSE)
             all == RegsOf(t, FALSE)
  <2>2. u \in Nat /\ all \in Nat /\ u + part.n <= all /\ r.iregs = s.iregs + u
    BY <1>4, <1>5, <1>7
  <2> HIDE DEF u, all, part
  <2>3. s.iregs + all > IntRegs
    BY <1>2, <1>3, <2>1, <2>2
  <2> QED BY <2>3 DEF TooMany, all
<1> QED BY <1>2, <1>6, <1>7

\* RegAssign takes the registers of the whole type, or finds it has no register form
\* or too few registers are left (regAssign).
LEMMA RegAssignFacts ==
  ASSUME NEW s \in SeqDomain, RegsOK(s), NEW t, t.parts \in Seq(Part), t.array \in BOOLEAN
  PROVE  /\ RegAssign(s, t) \in Acc
         /\ RegAssign(s, t).ok => ~t.array /\ InRegisters(s, t, Len(t.parts), RegAssign(s, t).s)
         /\ ~RegAssign(s, t).ok => t.array \/ TooMany(s, t)
<1> DEFINE n == Len(t.parts)
           Start == [ok |-> TRUE, s |-> s]
           F == [x \in Acc \X (1..n) |-> Take(x[1], t.parts[x[2]])]
<1>1. n \in Nat /\ DOMAIN t.parts = 1..n /\ \A k \in 1..n : t.parts[k] \in Part
  BY LenProperties, ElementOfSeq
<1>2. Start \in Acc /\ Start.ok /\ Start.s = s
  BY DEF Acc
<1> HIDE DEF n
<1>3. F \in [Acc \X (1..n) -> Acc]
  BY <1>1, TakeFacts
<1>4. PICK f : IsRun(f, Acc, Start, F, n)
  <2> HIDE DEF F, Start
  <2> QED BY <1>1, <1>2, <1>3, RunExists
<1>5. f \in [0..n -> Acc] /\ f[0] = Start
  BY <1>4 DEF IsRun
<1>6. ASSUME NEW k \in 1..n PROVE f[k] = Take(f[k - 1], t.parts[k]) /\ f[k - 1] \in Acc
  <2>1. k - 1 \in 0..n
    BY <1>1
  <2>2. f[k - 1] \in Acc
    BY <1>5, <2>1
  <2>3. f[k] = F[<<f[k - 1], k>>]
    <3> HIDE DEF F
    <3> QED BY <1>4 DEF IsRun
  <2>4. <<f[k - 1], k>> \in Acc \X (1..n)
    BY <2>2
  <2> HIDE DEF Start
  <2> QED BY <2>2, <2>3, <2>4
<1> HIDE DEF F
<1>7. RegAssign(s, t) = [f[n] EXCEPT !.ok = @ /\ ~t.array]
  BY <1>5, <1>6, WalkIs DEF n
<1> HIDE DEF Start
<1> DEFINE Inv(k) == /\ f[k].ok => InRegisters(s, t, k, f[k].s)
                     /\ ~f[k].ok => TooMany(s, t)
           S == {k \in 0..n : Inv(k)}
<1>8. 0 \in S
  <2>1. InRegisters(s, t, 0, s)
    BY NoneTaken
  <2> QED BY <1>1, <1>2, <1>5, <2>1
<1>9. ASSUME NEW i \in 0..n - 1, i \in S PROVE i + 1 \in S
  <2>1. PICK k \in 1..n : k = i + 1 /\ k - 1 = i
    BY <1>1
  <2>2. Inv(k - 1)
    BY <1>9, <2>1
  <2>3. f[k] = Take(f[k - 1], t.parts[k]) /\ f[k - 1] \in Acc /\ t.parts[k] \in Part
    BY <1>1, <1>6
  <2>4. /\ f[k].ok => f[k - 1].ok /\ Fits(f[k - 1].s, t.parts[k]) /\ Taken(f[k - 1].s, t.parts[k], f[k].s)
        /\ ~f[k].ok => ~f[k - 1].ok \/ ~Fits(f[k - 1].s, t.parts[k])
    BY <2>3, TakeFacts
  <2>5. ASSUME f[k].ok PROVE InRegisters(s, t, k, f[k].s)
    BY <2>2, <2>4, <2>5, InRegistersStep DEF n
  <2>6. ASSUME ~f[k].ok PROVE TooMany(s, t)
    BY <2>2, <2>4, <2>6, NotFitting DEF n
  <2>7. Inv(k)
    BY <2>5, <2>6
  <2> HIDE DEF Inv
  <2> QED BY <1>1, <2>1, <2>7
<1>10. Inv(n)
  <2> HIDE DEF S
  <2>1. 0..n \subseteq S
    BY <1>1, <1>8, <1>9, BoundedInduction
  <2> QED BY <1>1, <2>1 DEF S
<1>11. f[n] \in Acc
  BY <1>1, <1>5
<1>12. /\ RegAssign(s, t) \in Acc /\ RegAssign(s, t).s = f[n].s
       /\ RegAssign(s, t).ok <=> f[n].ok /\ ~t.array
  BY <1>7, <1>11 DEF Acc
<1> QED BY <1>10, <1>12 DEF n

-----------------------------------------------------------------------------
(* alignUp *)

\* A product is a multiple, and a multiple is a product.
LEMMA MultipleFacts ==
  ASSUME NEW a \in Nat \ {0}, NEW x \in Int
  PROVE  x % a = 0 <=> \E q \in Int : x = a * q
<1>1. x = a * (x \div a) + (x % a) /\ x \div a \in Int /\ x % a \in 0..a - 1
  <2>1. x \div a \in Int /\ x % a \in 0..a - 1
    OBVIOUS
  <2>2. x = a * (x \div a) + (x % a)
    BY Z3
  <2> QED BY <2>1, <2>2
<1>2. x % a = 0 => x = a * (x \div a)
  BY <1>1
<1>3. ASSUME NEW q \in Int, x = a * q PROVE x % a = 0
  <2> DEFINE d == q - (x \div a)
             r == x % a
  <2>1. d \in Int /\ r \in 0..a - 1
    BY <1>1
  <2>2. a * q = a * (x \div a) + a * d
    BY <1>1
  <2>3. r = a * d
    <3> DEFINE y == a * (x \div a)
               z == a * d
    <3>1. y \in Int /\ z \in Int
      BY <1>1, <2>1
    <3>2. x = y + z /\ x = y + r
      BY <1>1, <1>3, <2>2
    <3> HIDE DEF y, z, d, r
    <3>3. r = z
      BY <2>1, <3>1, <3>2
    <3> QED BY <3>3 DEF z
  <2> HIDE DEF d, r
  <2>4. CASE d <= -1
    <3>1. a * d <= a * (-1)
      BY <2>1, <2>4
    <3> QED BY <2>1, <2>3, <3>1
  <2>5. CASE d >= 1
    <3>1. a * d >= a * 1
      BY <2>1, <2>5
    <3> QED BY <2>1, <2>3, <3>1
  <2>6. CASE d = 0
    BY <2>3, <2>6 DEF r
  <2> QED BY <2>1, <2>4, <2>5, <2>6
<1> QED BY <1>1, <1>2, <1>3

\* alignUp: the next multiple.
LEMMA AlignFacts ==
  ASSUME NEW x \in Nat, NEW a \in Nat \ {0}
  PROVE  AlignUp(x, a) \in Nat /\ AlignUp(x, a) >= x /\ AlignUp(x, a) % a = 0
<1> DEFINE q == (x + a - 1) \div a
           r == (x + a - 1) % a
<1>1. x + a - 1 = a * q + r /\ q \in Int /\ r \in 0..a - 1
  OBVIOUS
<1>2. AlignUp(x, a) = q * a
  BY DEF AlignUp
<1> HIDE DEF q, r
<1>3. q * a = a * q /\ a * q \in Int
  BY <1>1
<1>4. a * q >= x
  <2> DEFINE p == a * q
  <2>1. p \in Int /\ x + a - 1 = p + r
    BY <1>1, <1>3
  <2> HIDE DEF p
  <2>2. p >= x
    BY <1>1, <2>1
  <2> QED BY <2>2 DEF p
<1>5. (a * q) % a = 0
  <2> DEFINE p == a * q
  <2>1. p \in Int /\ \E z \in Int : p = a * z
    BY <1>1, <1>3
  <2> HIDE DEF p
  <2>2. p % a = 0
    BY <2>1, MultipleFacts
  <2> QED BY <2>2 DEF p
<1> QED BY <1>2, <1>3, <1>4, <1>5

-----------------------------------------------------------------------------
(* addArg *)

\* r is s with the value of type t added, in these steps
Added(s, t, r, add) ==
  /\ r \in SeqDomain /\ RegsOK(r) /\ add \in Seq(StepDomain)
  /\ r.steps = s.steps \o add /\ r.valueStart = Append(s.valueStart, Len(s.steps))
  /\ r.stackBytes >= s.stackBytes
  /\ \/ t.size = 0 /\ add = <<>>
     \/ /\ t.size # 0 /\ Holds(add, Words(t)) /\ r.stackBytes = s.stackBytes
     \/ /\ t.size # 0 /\ Len(add) = 1 /\ add[1].kind = "stack" /\ add[1].size = t.size
        /\ add[1].stkOff >= s.stackBytes /\ add[1].stkOff % t.align = 0
        /\ r.stackBytes = add[1].stkOff + t.size
        /\ t.array \/ TooMany(s, t)

\* addArg adds one value: in registers, in one piece on the stack, or, for one of no
\* size, nowhere.
LEMMA AddArgFacts ==
  ASSUME NEW s \in SeqDomain, RegsOK(s), NEW t, TypeRecord(t)
  PROVE  \E add : Added(s, t, AddArg(s, t), add)
<1> DEFINE begun == [s EXCEPT !.valueStart = Append(@, Len(s.steps))]
           tried == RegAssign(begun, t)
           off == AlignUp(s.stackBytes, t.align)
           r == AddArg(s, t)
<1>1. /\ t.size \in Nat /\ t.align \in Nat \ {0} /\ t.parts \in Seq(Part) /\ t.array \in BOOLEAN
  BY DEF TypeRecord
<1>2. /\ s.steps \in Seq(StepDomain) /\ s.valueStart \in Seq(Nat) /\ s.stackBytes \in Nat
      /\ s.iregs \in Nat /\ s.fregs \in Nat
  BY DEF SeqDomain
<1>3. Len(s.steps) \in Nat /\ Append(s.valueStart, Len(s.steps)) \in Seq(Nat)
  BY <1>2, LenProperties, AppendProperties
<1>4. off \in Nat /\ off >= s.stackBytes /\ off % t.align = 0
  BY <1>1, <1>2, AlignFacts
<1>5. /\ begun \in SeqDomain /\ begun.steps = s.steps /\ begun.stackBytes = s.stackBytes
      /\ begun.iregs = s.iregs /\ begun.fregs = s.fregs
      /\ begun.valueStart = Append(s.valueStart, Len(s.steps))
  BY <1>2, <1>3 DEF SeqDomain
<1>6. RegsOK(begun)
  BY <1>5 DEF RegsOK
<1> HIDE DEF begun, off
<1>7. /\ tried \in Acc
      /\ tried.ok => ~t.array /\ InRegisters(begun, t, Len(t.parts), tried.s)
      /\ ~tried.ok => t.array \/ TooMany(begun, t)
  BY <1>1, <1>5, <1>6, RegAssignFacts
<1> HIDE DEF tried
<1>8. r = IF t.size = 0 THEN [begun EXCEPT !.stackBytes = AlignUp(@, t.align)]
          ELSE IF tried.ok THEN tried.s
          ELSE StackAssign(begun, t)
  BY DEF AddArg, MayUseRegs, Restored, begun, tried
<1> HIDE DEF r
<1>9. CASE t.size = 0
  <2>1. r = [begun EXCEPT !.stackBytes = off]
    BY <1>5, <1>8, <1>9 DEF off
  <2>2. /\ r \in SeqDomain /\ r.steps = begun.steps /\ r.stackBytes = off
        /\ r.iregs = begun.iregs /\ r.fregs = begun.fregs /\ r.valueStart = begun.valueStart
    BY <1>4, <1>5, <2>1 DEF SeqDomain
  <2>3. RegsOK(r)
    BY <1>6, <2>2 DEF RegsOK
  <2>4. <<>> \in Seq(StepDomain) /\ r.steps = s.steps \o <<>>
    BY <1>2, <1>5, <2>2, EmptySeq, ConcatEmptySeq
  <2>5. Added(s, t, r, <<>>)
    BY <1>4, <1>5, <1>9, <2>2, <2>3, <2>4 DEF Added
  <2> QED BY <2>5 DEF r
<1>10. CASE t.size # 0 /\ tried.ok
  <2>1. r = tried.s /\ InRegisters(begun, t, Len(t.parts), r)
    BY <1>7, <1>8, <1>10
  <2>2. PICK add \in Seq(StepDomain) :
          r.steps = begun.steps \o add /\ Holds(add, {WordOf(t, x) : x \in InFirst(t, Len(t.parts))})
    BY <2>1 DEF InRegisters
  <2>3. {WordOf(t, x) : x \in InFirst(t, Len(t.parts))} = Words(t)
    <3>1. \A x \in InRegs(t) : x[1] <= Len(t.parts)
      BY <1>1, LenProperties DEF InRegs
    <3>2. InFirst(t, Len(t.parts)) = InRegs(t)
      BY <3>1 DEF InFirst
    <3> QED BY <3>2, Zenon DEF Words, WordOf
  <2>4. /\ r \in SeqDomain /\ RegsOK(r) /\ r.valueStart = begun.valueStart
        /\ r.stackBytes = begun.stackBytes
    BY <2>1 DEF InRegisters
  <2>5. Holds(add, Words(t))
    BY <2>2, <2>3
  <2>6. r.stackBytes = s.stackBytes /\ s.stackBytes >= s.stackBytes
    BY <1>2, <1>5, <2>4
  <2>7. Added(s, t, r, add)
    BY <1>5, <1>10, <2>2, <2>4, <2>5, <2>6 DEF Added
  <2> QED BY <2>7 DEF r
<1>11. CASE t.size # 0 /\ ~tried.ok
  <2> DEFINE st == [kind |-> "stack", offset |-> 0, size |-> t.size, stkOff |-> off, reg |-> 0]
             steps == Append(s.steps, st)
  <2>1. r = [begun EXCEPT !.steps = steps, !.stackBytes = off + t.size]
    BY <1>5, <1>8, <1>11 DEF StackAssign, off
  <2>2. st \in StepDomain
    BY <1>1, <1>4 DEF StepDomain
  <2>3. st.kind = "stack" /\ st.size = t.size /\ st.stkOff = off
    OBVIOUS
  <2> HIDE DEF st
  <2>4. /\ steps \in Seq(StepDomain) /\ steps = s.steps \o <<st>>
        /\ <<st>> \in Seq(StepDomain) /\ Len(<<st>>) = 1 /\ <<st>>[1] = st
    BY <1>2, <2>2, AppendProperties, AppendIsConcat
  <2> HIDE DEF steps
  <2>5. off + t.size \in Nat
    BY <1>1, <1>4
  <2>6. /\ r \in SeqDomain /\ r.steps = steps /\ r.stackBytes = off + t.size
        /\ r.iregs = begun.iregs /\ r.fregs = begun.fregs /\ r.valueStart = begun.valueStart
    BY <1>5, <2>1, <2>4, <2>5 DEF SeqDomain
  <2>7. RegsOK(r)
    <3> DEFINE add == <<st>>
    <3>1. "stack" \notin Ints /\ "stack" \notin Floats
      BY DEF Ints, Floats
    <3>2. add \in Seq(StepDomain) /\ \A k \in 1..Len(add) : add[k].kind \notin Ints /\ add[k].kind \notin Floats
      BY <2>3, <2>4, <3>1
    <3>3. /\ InFile(s.steps, Ints, s.iregs) /\ s.iregs <= IntRegs
          /\ InFile(s.steps, Floats, s.fregs) /\ s.fregs <= FloatRegs
      BY DEF RegsOK
    <3> HIDE DEF add
    <3>4. InFile(s.steps \o add, Ints, s.iregs) /\ InFile(s.steps \o add, Floats, s.fregs)
      BY <1>2, <3>2, <3>3, FileKeeps
    <3>5. r.steps = s.steps \o add /\ r.iregs = s.iregs /\ r.fregs = s.fregs
      BY <1>5, <2>4, <2>6 DEF add
    <3> QED BY <3>3, <3>4, <3>5 DEF RegsOK
  <2>8. t.array \/ TooMany(s, t)
    BY <1>5, <1>7, <1>11 DEF TooMany
  <2>9. off + t.size >= s.stackBytes
    BY <1>1, <1>2, <1>4
  <2>10. Added(s, t, r, <<st>>)
    BY <1>4, <1>5, <1>11, <2>3, <2>4, <2>6, <2>7, <2>8, <2>9 DEF Added
  <2> QED BY <2>10 DEF r
<1> QED BY <1>7, <1>9, <1>10, <1>11 DEF Acc

-----------------------------------------------------------------------------
(* The steps of each value *)

\* where the values of s begin: in order, the first at the first step
Starts(s, n) ==
  /\ Len(s.valueStart) = n
  /\ \A i \in 1..n : s.valueStart[i] \in 0..Len(s.steps)
  /\ \A i, j \in 1..n : i <= j => s.valueStart[i] <= s.valueStart[j]
  /\ IF n = 0 THEN s.steps = <<>> ELSE s.valueStart[1] = 0

\* r has one value more than s, in these steps, and the others as they were
Kept(s, n, r, add) ==
  /\ Starts(r, n + 1)
  /\ StepsForValue(r, n + 1) = add
  /\ \A i \in 1..n : StepsForValue(r, i) = StepsForValue(s, i)
  /\ r.valueStart[n + 1] = Len(s.steps)
  /\ \A i \in 1..n : r.valueStart[i] = s.valueStart[i]
  /\ Len(r.steps) = Len(s.steps) + Len(add)
  /\ \A i \in 1..Len(s.steps) : r.steps[i] = s.steps[i]

\* Adding a value leaves the steps of the others what they were (stepsForValue).
LEMMA StepsKept ==
  ASSUME NEW s \in SeqDomain, NEW n \in Nat, Starts(s, n), NEW r, NEW add \in Seq(StepDomain),
         r.steps = s.steps \o add, r.valueStart = Append(s.valueStart, Len(s.steps))
  PROVE  Kept(s, n, r, add)
<1> DEFINE l == Len(s.steps)
           m == Len(add)
<1>1. s.steps \in Seq(StepDomain) /\ s.valueStart \in Seq(Nat) /\ l \in Nat /\ m \in Nat
  BY LenProperties DEF SeqDomain
<1>2. /\ Len(r.valueStart) = n + 1 /\ r.valueStart[n + 1] = l
      /\ \A i \in 1..n : r.valueStart[i] = s.valueStart[i]
  BY <1>1, AppendProperties DEF Starts
<1>3. Len(r.steps) = l + m /\ \A i \in 1..l : r.steps[i] = s.steps[i]
  BY <1>1, ConcatProperties
<1>4. /\ \A i \in 1..n : s.valueStart[i] \in 0..l
      /\ \A i, j \in 1..n : i <= j => s.valueStart[i] <= s.valueStart[j]
      /\ IF n = 0 THEN s.steps = <<>> ELSE s.valueStart[1] = 0
  BY DEF Starts
<1>5. n = 0 => l = 0
  BY <1>4, EmptySeq
<1> HIDE DEF l, m
<1>6. Starts(r, n + 1)
  <2>1. \A i \in 1..n + 1 : i \in 1..n \/ i = n + 1
    OBVIOUS
  <2>2. ASSUME NEW i \in 1..n + 1 PROVE r.valueStart[i] \in 0..l + m /\ r.valueStart[i] <= l
    <3>1. CASE i \in 1..n
      BY <1>1, <1>2, <1>4, <3>1
    <3>2. CASE i = n + 1
      BY <1>1, <1>2, <3>2
    <3> QED BY <2>1, <3>1, <3>2
  <2>3. ASSUME NEW i \in 1..n + 1, NEW j \in 1..n + 1, i <= j PROVE r.valueStart[i] <= r.valueStart[j]
    <3>1. CASE j \in 1..n
      BY <1>2, <1>4, <2>3, <3>1
    <3>2. CASE j = n + 1
      BY <1>2, <2>2, <3>2
    <3> QED BY <2>1, <3>1, <3>2
  <2>4. r.valueStart[1] = 0 /\ n + 1 # 0
    <3>1. CASE n = 0
      BY <1>2, <1>5, <3>1
    <3>2. CASE n # 0
      BY <1>2, <1>4, <3>2
    <3> QED BY <3>1, <3>2
  <2> QED BY <1>2, <1>3, <2>2, <2>3, <2>4 DEF Starts
<1>7. StepsForValue(r, n + 1) = add
  <2>1. StepsForValue(r, n + 1) = SubSeq(s.steps \o add, l + 1, l + m)
    <3>1. ~(n + 1 < Len(r.valueStart)) /\ Len(r.steps) = l + m /\ r.valueStart[n + 1] = l
      BY <1>2, <1>3
    <3> QED BY <3>1 DEF StepsForValue
  <2>2. CASE m = 0
    <3>1. add = <<>>
      BY <2>2, EmptySeq DEF m
    <3>2. SubSeq(s.steps \o add, l + 1, l + m) = <<>>
      <4>1. l + 1 \in Int /\ l + m \in Int /\ l + m < l + 1
        BY <1>1, <2>2
      <4> QED BY <4>1, SubSeqEmpty
    <3> QED BY <2>1, <3>1, <3>2
  <2>3. CASE m # 0
    <3>1. l + 1 \in l + 1..l + m /\ l + m \in l + 1..l + m
      BY <1>1, <2>3
    <3>2. SubSeq(s.steps \o add, l + 1, l + m) = SubSeq(add, l + 1 - l, l + m - l)
      BY <1>1, <3>1, SubSeqOfConcat2 DEF l, m
    <3>3. l + 1 - l = 1 /\ l + m - l = m
      BY <1>1
    <3>4. SubSeq(add, 1, m) = add
      BY SubSeqFull DEF m
    <3> QED BY <2>1, <3>2, <3>3, <3>4
  <2> QED BY <2>2, <2>3
<1>8. ASSUME NEW i \in 1..n PROVE StepsForValue(r, i) = StepsForValue(s, i)
  <2> DEFINE low == s.valueStart[i]
             high == IF i < n THEN s.valueStart[i + 1] ELSE l
  <2>1. StepsForValue(s, i) = SubSeq(s.steps, low + 1, high)
    BY DEF StepsForValue, l, Starts
  <2>2. StepsForValue(r, i) = SubSeq(s.steps \o add, low + 1, high)
    <3>1. i < n + 1 /\ i \in 1..n + 1
      OBVIOUS
    <3>2. r.valueStart[i] = low
      BY <1>2
    <3>3. r.valueStart[i + 1] = high
      <4>1. CASE i < n
        <5>1. i + 1 \in 1..n
          BY <4>1
        <5> QED BY <1>2, <4>1, <5>1
      <4>2. CASE i = n
        BY <1>2, <4>2
      <4> HIDE DEF high
      <4>3. i < n \/ i = n
        OBVIOUS
      <4> QED BY <4>1, <4>2, <4>3
    <3> HIDE DEF low, high
    <3>4. i < Len(r.valueStart)
      BY <1>2, <3>1
    <3> QED BY <3>2, <3>3, <3>4 DEF StepsForValue
  <2>3. low \in 0..l /\ high \in 0..l
    <3>1. CASE i < n
      <4>1. i + 1 \in 1..n
        BY <3>1
      <4> QED BY <1>4, <3>1, <4>1
    <3>2. CASE ~(i < n)
      BY <1>1, <1>4, <3>2
    <3> QED BY <3>1, <3>2
  <2> HIDE DEF low, high
  <2>4. CASE low + 1 <= high
    <3>1. low + 1 \in 1..l /\ high \in 1..l
      BY <1>1, <2>3, <2>4
    <3> QED BY <1>1, <2>1, <2>2, <3>1, SubSeqOfConcat1 DEF l
  <2>5. CASE high < low + 1
    <3>1. low + 1 \in Int /\ high \in Int
      BY <2>3
    <3>2. SubSeq(s.steps, low + 1, high) = <<>> /\ SubSeq(s.steps \o add, low + 1, high) = <<>>
      BY <2>5, <3>1, SubSeqEmpty
    <3> QED BY <2>1, <2>2, <3>2
  <2> QED BY <2>3, <2>4, <2>5
<1> QED BY <1>2, <1>3, <1>6, <1>7, <1>8 DEF Kept, l, m

\* As many steps of these kinds as registers.
LEMMA CountFile ==
  ASSUME NEW q \in Seq(StepDomain), NEW kinds, NEW n \in Nat, InFile(q, kinds, n)
  PROVE  Cardinality({j \in 1..Len(q) : q[j].kind \in kinds}) = n
<1> DEFINE S == {j \in 1..Len(q) : q[j].kind \in kinds}
           f == [j \in S |-> q[j].reg]
<1>1. \A a, b \in Int : IsFiniteSet(a..b) /\ Cardinality(a..b) = IF a > b THEN 0 ELSE b - a + 1
  BY FS_Interval
<1>2. IsFiniteSet(S)
  <2>1. 1 \in Int /\ Len(q) \in Int
    BY LenProperties
  <2>2. IsFiniteSet(1..Len(q))
    BY <1>1, <2>1, Zenon
  <2> QED BY <2>2, FS_Subset
<1>3. f \in Bijection(S, 0..n - 1)
  <2>1. f \in [S -> 0..n - 1]
    BY DEF InFile
  <2>2. \A i, j \in S : f[i] = f[j] => i = j
    BY DEF InFile
  <2>3. \A r \in 0..n - 1 : \E j \in S : f[j] = r
    <3>1. ASSUME NEW r \in 0..n - 1 PROVE \E j \in S : f[j] = r
      <4>1. PICK j \in 1..Len(q) : q[j].kind \in kinds /\ q[j].reg = r
        BY DEF InFile
      <4> QED BY <4>1
    <3> QED BY <3>1
  <2> HIDE DEF f, S
  <2> QED BY <2>1, <2>2, <2>3 DEF Bijection, Injection, Surjection, IsInjective
<1>4. Cardinality(0..n - 1) = Cardinality(S)
  <2> HIDE DEF S, f
  <2>1. ExistsBijection(S, 0..n - 1)
    BY <1>3 DEF ExistsBijection
  <2> QED BY <1>2, <2>1, FS_Bijection
<1>5. Cardinality(0..n - 1) = n
  <2>1. 0 \in Int /\ n - 1 \in Int
    OBVIOUS
  <2>2. Cardinality(0..n - 1) = IF 0 > n - 1 THEN 0 ELSE n - 1 - 0 + 1
    BY <1>1, <2>1, Zenon
  <2> QED BY <2>2
<1> QED BY <1>4, <1>5

\* the stack steps of q lie in order between base and top
Stacked(q, base, top) ==
  /\ base \in Nat /\ top \in Nat /\ base <= top
  /\ \A i \in 1..Len(q) : q[i].kind = "stack" => base <= q[i].stkOff /\ q[i].stkOff + q[i].size <= top
  /\ \A i, j \in 1..Len(q) :
       i < j /\ q[i].kind = "stack" /\ q[j].kind = "stack" => q[i].stkOff + q[i].size <= q[j].stkOff

\* A step behind top, or none on the stack, keeps that order (stackAssign).
LEMMA StackGrows ==
  ASSUME NEW q \in Seq(StepDomain), NEW add \in Seq(StepDomain), NEW base, NEW top,
         Stacked(q, base, top), NEW new \in Nat, new >= top,
         \/ \A j \in 1..Len(add) : add[j].kind # "stack"
         \/ Len(add) = 1 /\ add[1].stkOff >= top /\ new = add[1].stkOff + add[1].size
  PROVE  Stacked(q \o add, base, new)
<1> DEFINE c == q \o add
           l == Len(q)
           m == Len(add)
<1>1. l \in Nat /\ m \in Nat /\ Len(c) = l + m
  BY ConcatProperties, LenProperties
<1>2. \A i \in 1..l : c[i] = q[i] /\ q[i].stkOff \in Nat /\ q[i].size \in Nat
  <2>1. \A i \in 1..l : c[i] = q[i]
    BY <1>1, ConcatProperties
  <2>2. \A i \in 1..l : q[i] \in StepDomain
    BY ElementOfSeq
  <2> QED BY <2>1, <2>2 DEF StepDomain
<1>3. \A k \in 1..m : c[l + k] = add[k] /\ add[k].stkOff \in Nat /\ add[k].size \in Nat
  <2>1. \A k \in 1..m : c[l + k] = add[k]
    BY <1>1, ConcatProperties
  <2>2. \A k \in 1..m : add[k] \in StepDomain
    BY ElementOfSeq
  <2> QED BY <2>1, <2>2 DEF StepDomain
<1>4. \A i \in 1..l + m : i \in 1..l \/ \E k \in 1..m : i = l + k
  <2>1. ASSUME NEW i \in 1..l + m, i \notin 1..l PROVE i - l \in 1..m /\ i = l + (i - l)
    BY <1>1, <2>1
  <2> QED BY <2>1
<1>5. /\ base \in Nat /\ top \in Nat /\ base <= top
      /\ \A i \in 1..l : q[i].kind = "stack" => base <= q[i].stkOff /\ q[i].stkOff + q[i].size <= top
      /\ \A i, j \in 1..l :
           i < j /\ q[i].kind = "stack" /\ q[j].kind = "stack" => q[i].stkOff + q[i].size <= q[j].stkOff
  BY DEF Stacked
<1>6. \/ \A j \in 1..m : add[j].kind # "stack"
      \/ m = 1 /\ add[1].stkOff >= top /\ new = add[1].stkOff + add[1].size
  OBVIOUS
<1> HIDE DEF c, l, m
<1>7. ASSUME NEW i \in 1..l, c[i].kind = "stack"
      PROVE  base <= c[i].stkOff /\ c[i].stkOff + c[i].size <= top /\ c[i].stkOff + c[i].size <= new
  <2>1. c[i] = q[i]
    BY <1>2
  <2>2. base <= q[i].stkOff /\ q[i].stkOff + q[i].size <= top
    BY <1>5, <1>7, <2>1
  <2>3. q[i].stkOff \in Nat /\ q[i].size \in Nat
    BY <1>2
  <2> QED BY <1>5, <2>1, <2>2, <2>3
<1>8. ASSUME NEW i \in 1..l + m, i \notin 1..l, c[i].kind = "stack"
      PROVE  i = l + 1 /\ m = 1 /\ c[i].stkOff >= top /\ c[i].stkOff + c[i].size = new /\ c[i].stkOff \in Nat
  <2>1. PICK k \in 1..m : i = l + k
    BY <1>4, <1>8
  <2>2. add[k].kind = "stack"
    BY <1>3, <1>8, <2>1
  <2>3. m = 1 /\ add[1].stkOff >= top /\ new = add[1].stkOff + add[1].size
    BY <1>6, <2>2
  <2>4. k = 1
    BY <2>3
  <2> QED BY <1>3, <2>1, <2>3, <2>4
<1>9. ASSUME NEW i \in 1..l + m, c[i].kind = "stack"
      PROVE  base <= c[i].stkOff /\ c[i].stkOff + c[i].size <= new
  <2>1. CASE i \in 1..l
    BY <1>7, <1>9, <2>1
  <2>2. CASE i \notin 1..l
    <3>1. c[i].stkOff >= top /\ c[i].stkOff + c[i].size = new /\ c[i].stkOff \in Nat
      BY <1>8, <1>9, <2>2
    <3> QED BY <1>5, <3>1
  <2> QED BY <2>1, <2>2
<1>10. ASSUME NEW i \in 1..l + m, NEW j \in 1..l + m, i < j, c[i].kind = "stack", c[j].kind = "stack"
       PROVE  c[i].stkOff + c[i].size <= c[j].stkOff
  <2>1. CASE i \in 1..l /\ j \in 1..l
    BY <1>2, <1>5, <1>10, <2>1
  <2>2. CASE i \in 1..l /\ j \notin 1..l
    <3>1. c[i].stkOff + c[i].size <= top /\ c[j].stkOff >= top /\ c[j].stkOff \in Nat
      BY <1>7, <1>8, <1>10, <2>2
    <3>2. c[i].stkOff \in Nat /\ c[i].size \in Nat
      BY <1>2, <2>2
    <3> QED BY <1>5, <3>1, <3>2
  <2>3. CASE i \notin 1..l
    <3>1. i = l + 1 /\ m = 1
      BY <1>8, <1>10, <2>3
    <3>2. j \in 1..l + 1
      BY <3>1
    <3> QED BY <1>1, <1>10, <3>1, <3>2
  <2> QED BY <2>1, <2>2, <2>3
<1>11. base <= new
  BY <1>5
<1>12. Stacked(c, base, new)
  BY <1>1, <1>5, <1>9, <1>10, <1>11 DEF Stacked
<1> QED BY <1>12 DEF c

Before(s, i, kinds) == Cardinality({j \in 1..s.valueStart[i] : s.steps[j].kind \in kinds})

\* no registers for value i of s, of type t
NoRoom(s, i, t) ==
  \/ t.array
  \/ Before(s, i, Ints) + RegsOf(t, FALSE) > IntRegs
  \/ Before(s, i, Floats) + RegsOf(t, TRUE) > FloatRegs
  \/ \E p \in DOMAIN t.parts : t.parts[p].float /\ t.parts[p].size > FloatBytes

\* value i of s travels whole, and on the stack only for want of registers
Valued(s, i, t) ==
  LET steps == StepsForValue(s, i) IN
  /\ steps \in Seq(StepDomain)
  /\ \/ t.size = 0 /\ steps = <<>>
     \/ t.size # 0 /\ Holds(steps, Words(t))
     \/ /\ t.size # 0 /\ Len(steps) = 1 /\ steps[1].kind = "stack" /\ steps[1].size = t.size
        /\ steps[1].stkOff % t.align = 0 /\ NoRoom(s, i, t)

\* s is the plan for values of these types, on the stack from base on
Holding(s, types, base) ==
  /\ s \in SeqDomain /\ RegsOK(s)
  /\ Starts(s, Len(types))
  /\ Stacked(s.steps, base, s.stackBytes)
  /\ \A i \in 1..Len(types) : Valued(s, i, types[i])
  /\ Range(s.steps) = UNION {Range(StepsForValue(s, i)) : i \in 1..Len(types)}

\* addArg keeps that of the values before and adds it of the new one.
LEMMA HoldingGrows ==
  ASSUME NEW s, NEW D, NEW types \in Seq(D), NEW base, Holding(s, types, base),
         NEW t \in D, TypeRecord(t)
  PROVE  Holding(AddArg(s, t), Append(types, t), base)
<1> DEFINE r == AddArg(s, t)
           n == Len(types)
           all == Append(types, t)
<1>1. s \in SeqDomain /\ RegsOK(s) /\ Starts(s, n) /\ Stacked(s.steps, base, s.stackBytes)
  BY DEF Holding
<1>2. n \in Nat /\ Len(all) = n + 1 /\ all[n + 1] = t /\ \A i \in 1..n : all[i] = types[i]
  BY LenProperties, AppendProperties
<1>3. PICK add : Added(s, t, r, add)
  BY <1>1, AddArgFacts
<1> HIDE DEF r, n, all
<1>4. /\ r \in SeqDomain /\ RegsOK(r) /\ add \in Seq(StepDomain)
      /\ r.steps = s.steps \o add /\ r.valueStart = Append(s.valueStart, Len(s.steps))
      /\ r.stackBytes >= s.stackBytes
  BY <1>3 DEF Added
<1>5. s.steps \in Seq(StepDomain) /\ s.iregs \in Nat /\ s.fregs \in Nat /\ Len(s.steps) \in Nat
  BY <1>1, LenProperties DEF SeqDomain
<1>6. /\ Starts(r, n + 1)
      /\ StepsForValue(r, n + 1) = add
      /\ \A i \in 1..n : StepsForValue(r, i) = StepsForValue(s, i)
      /\ r.valueStart[n + 1] = Len(s.steps)
      /\ \A i \in 1..n : r.valueStart[i] = s.valueStart[i]
      /\ \A i \in 1..Len(s.steps) : r.steps[i] = s.steps[i]
  <2>1. Kept(s, n, r, add)
    BY <1>1, <1>2, <1>4, StepsKept
  <2> QED BY <2>1 DEF Kept
<1>7. Stacked(r.steps, base, r.stackBytes)
  <2>1. \/ \A j \in 1..Len(add) : add[j].kind # "stack"
        \/ Len(add) = 1 /\ add[1].stkOff >= s.stackBytes /\ r.stackBytes = add[1].stkOff + add[1].size
    <3>1. Len(<<>>) = 0
      BY EmptySeq
    <3> QED BY <1>3, <3>1 DEF Added, Holds
  <2>2. r.stackBytes \in Nat
    BY <1>4 DEF SeqDomain
  <2> QED BY <1>1, <1>4, <1>5, <2>1, <2>2, StackGrows
<1>8. ASSUME NEW i \in 1..n PROVE Valued(r, i, all[i])
  <2>1. Valued(s, i, types[i])
    BY DEF Holding, n
  <2>2. ASSUME NEW kinds PROVE Before(r, i, kinds) = Before(s, i, kinds)
    <3>1. r.valueStart[i] = s.valueStart[i]
      BY <1>6
    <3>2. s.valueStart[i] \in 0..Len(s.steps)
      BY <1>1 DEF Starts
    <3>3. \A j \in 1..s.valueStart[i] : r.steps[j] = s.steps[j]
      BY <1>5, <1>6, <3>2
    <3>4. {j \in 1..r.valueStart[i] : r.steps[j].kind \in kinds} = {j \in 1..s.valueStart[i] : s.steps[j].kind \in kinds}
      BY <3>1, <3>3
    <3> QED BY <3>4 DEF Before
  <2>3. StepsForValue(r, i) = StepsForValue(s, i) /\ all[i] = types[i]
    BY <1>2, <1>6
  <2> QED BY <2>1, <2>2, <2>3 DEF Valued, NoRoom
<1>9. Valued(r, n + 1, t)
  <2>1. Before(r, n + 1, Ints) = s.iregs /\ Before(r, n + 1, Floats) = s.fregs
    <3>1. ASSUME NEW kinds, NEW k \in Nat, InFile(s.steps, kinds, k) PROVE Before(r, n + 1, kinds) = k
      <4>1. Cardinality({j \in 1..Len(s.steps) : s.steps[j].kind \in kinds}) = k
        BY <1>5, <3>1, CountFile
      <4>2. {j \in 1..r.valueStart[n + 1] : r.steps[j].kind \in kinds} = {j \in 1..Len(s.steps) : s.steps[j].kind \in kinds}
        BY <1>6
      <4> QED BY <4>1, <4>2 DEF Before
    <3> QED BY <1>1, <1>5, <3>1 DEF RegsOK
  <2>2. t.array \/ TooMany(s, t) => NoRoom(r, n + 1, t)
    BY <2>1 DEF TooMany, NoRoom
  <2> QED BY <1>3, <1>4, <1>6, <2>2 DEF Added, Valued
<1>10. ASSUME NEW i \in 1..n + 1 PROVE Valued(r, i, all[i])
  <2>1. i \in 1..n \/ i = n + 1
    BY <1>2
  <2> QED BY <1>2, <1>8, <1>9, <2>1
<1>11. Range(r.steps) = UNION {Range(StepsForValue(r, i)) : i \in 1..n + 1}
  <2>1. Range(r.steps) = Range(s.steps) \cup Range(add)
    BY <1>4, <1>5, RangeConcatenation
  <2>2. Range(s.steps) = UNION {Range(StepsForValue(s, i)) : i \in 1..n}
    BY DEF Holding, n
  <2>3. {Range(StepsForValue(s, i)) : i \in 1..n} = {Range(StepsForValue(r, i)) : i \in 1..n}
    BY <1>6
  <2>4. 1..n + 1 = 1..n \cup {n + 1}
    BY <1>2
  <2>5. {Range(StepsForValue(r, i)) : i \in 1..n + 1}
          = {Range(StepsForValue(r, i)) : i \in 1..n} \cup {Range(add)}
    BY <1>6, <2>4
  <2>6. \A A, x : UNION (A \cup {x}) = (UNION A) \cup x
    OBVIOUS
  <2> QED BY <2>1, <2>2, <2>3, <2>5, <2>6
<1>12. Holding(r, all, base)
  BY <1>2, <1>4, <1>6, <1>7, <1>10, <1>11 DEF Holding
<1> QED BY <1>12 DEF r, all

\* Nothing is a plan for no values.
LEMMA NothingHeld ==
  ASSUME NEW base \in Nat
  PROVE  Holding([NoSteps EXCEPT !.stackBytes = base], <<>>, base)
<1> DEFINE s == [NoSteps EXCEPT !.stackBytes = base]
<1>1. s = [steps |-> <<>>, valueStart |-> <<>>, stackBytes |-> base, iregs |-> 0, fregs |-> 0]
  BY DEF NoSteps
<1>2. /\ s.steps = <<>> /\ s.valueStart = <<>> /\ s.stackBytes = base /\ s.iregs = 0 /\ s.fregs = 0
  BY <1>1
<1>3. <<>> \in Seq(StepDomain) /\ <<>> \in Seq(Nat) /\ Len(<<>>) = 0
  BY EmptySeq
<1> HIDE DEF s
<1>4. s \in SeqDomain
  <2>1. 0 \in Nat
    OBVIOUS
  <2> QED BY <1>1, <1>3, <2>1 DEF SeqDomain
<1>5. RegsOK(s)
  <2>1. \A kinds : InFile(<<>>, kinds, 0)
    BY <1>3 DEF InFile
  <2>2. 0 <= IntRegs /\ 0 <= FloatRegs
    BY LayoutAssumption
  <2> QED BY <1>2, <2>1, <2>2 DEF RegsOK
<1>6. Starts(s, 0)
  BY <1>2, <1>3 DEF Starts
<1>7. Stacked(s.steps, base, s.stackBytes)
  BY <1>2, <1>3 DEF Stacked
<1>8. Range(s.steps) = UNION {Range(StepsForValue(s, i)) : i \in 1..0}
  <2>1. 1..0 = {} /\ Range(<<>>) = {}
    BY DEF Range
  <2> QED BY <1>2, <2>1
<1>9. Holding(s, <<>>, base)
  BY <1>3, <1>4, <1>5, <1>6, <1>7, <1>8 DEF Holding
<1> QED BY <1>9 DEF s

\* The receiver is a value like the others.
LEMMA ReceiverIsType == TypeRecord(Receiver)
<1> DEFINE part == [float |-> FALSE, offset |-> 0, size |-> Word, n |-> 1, ptrs |-> {0}]
<1>1. Word \in Nat \ {0}
  BY LayoutAssumption
<1>2. part \in Part
  BY <1>1 DEF Part
<1>3. /\ Receiver.size = Word /\ Receiver.align = Word /\ Receiver.array = FALSE
      /\ Receiver.ptrs = {0} /\ Receiver.parts = <<part>>
  BY DEF Receiver
<1>4. /\ part.offset = 0 /\ part.n = 1 /\ part.size = Word /\ part.ptrs = {0} /\ part.float = FALSE
  OBVIOUS
<1> HIDE DEF part
<1>5. <<part>> \in Seq(Part) /\ DOMAIN <<part>> = {1} /\ <<part>>[1] = part
  BY <1>2
<1>6. 0 \in {o \in 0..Word : o + Word <= Word /\ o % Word = 0} /\ Word % Word = 0
  <2>1. 0 % Word = 0 /\ Word % Word = 0
    <3>1. 0 = Word * 0 /\ Word = Word * 1 /\ 0 \in Int /\ 1 \in Int /\ Word \in Int
      BY <1>1
    <3> QED BY <1>1, <3>1, MultipleFacts
  <2> QED BY <1>1, <2>1
<1>7. 0 + 1 * Word <= Word /\ {0} \subseteq 0..1 - 1
  BY <1>1
<1> QED BY <1>1, <1>3, <1>4, <1>5, <1>6, <1>7 DEF TypeRecord

-----------------------------------------------------------------------------
(* newABILayout *)

\* the inductive invariant
Inv ==
  /\ ins \in Seq(Types) /\ outs \in Seq(Types)
  /\ phase \in {"args", "results", "done"}
  /\ Holding(call, Values, 0)
  /\ IF phase = "args" THEN ret = NoSteps /\ outs = <<>> ELSE Holding(ret, outs, RetOffset)
  /\ IF phase = "done" THEN tramp \in Choose ELSE tramp = "undecided"

ValueTypes == Types \cup {Receiver}

\* A layout begins with the receiver (addRcvr).
LEMMA InitInv == Init => Inv
<1> SUFFICES ASSUME Init PROVE Inv
  OBVIOUS
<1>1. ins = <<>> /\ outs = <<>> /\ ret = NoSteps /\ phase = "args" /\ tramp = "undecided"
  BY DEF Init
<1>2. <<>> \in Seq(Types) /\ <<>> \in Seq(ValueTypes) /\ Receiver \in ValueTypes
  BY EmptySeq DEF ValueTypes
<1>3. NoSteps = [NoSteps EXCEPT !.stackBytes = 0]
  BY DEF NoSteps
<1>4. Holding(NoSteps, <<>>, 0)
  BY <1>3, NothingHeld
<1>5. Holding(AddArg(NoSteps, Receiver), Append(<<>>, Receiver), 0)
  BY <1>2, <1>4, ReceiverIsType, HoldingGrows
<1>6. Append(<<>>, Receiver) = <<Receiver>> \o <<>>
  <2>1. Append(<<>>, Receiver) = <<>> \o <<Receiver>> /\ <<Receiver>> \in Seq(ValueTypes)
    BY <1>2, AppendIsConcat
  <2> QED BY <2>1, ConcatEmptySeq
<1>7. Values = Append(<<>>, Receiver)
  BY <1>1, <1>6 DEF Values
<1>8. Holding(call, Values, 0)
  BY <1>5, <1>7 DEF Init, AddRcvr
<1> QED BY <1>1, <1>2, <1>8 DEF Inv

\* Each step of newABILayout keeps the plans for the arguments and the results, and
\* newTrampoline's choice is one of those the layout allows.
LEMMA NextInv == Inv /\ [Next]_vars => Inv'
<1> SUFFICES ASSUME Inv, [Next]_vars PROVE Inv'
  OBVIOUS
<1>1. /\ ins \in Seq(Types) /\ outs \in Seq(Types) /\ Holding(call, Values, 0)
      /\ phase \in {"args", "results", "done"}
      /\ phase = "args" => ret = NoSteps /\ outs = <<>>
      /\ phase # "args" => Holding(ret, outs, RetOffset)
      /\ phase = "done" => tramp \in Choose
      /\ phase # "done" => tramp = "undecided"
  BY DEF Inv
<1>2. ASSUME NEW t \in Types, AddIn(t) PROVE Inv'
  <2>1. /\ phase = "args" /\ call' = AddArg(call, t) /\ ins' = Append(ins, t)
        /\ ret' = ret /\ outs' = outs /\ phase' = phase /\ tramp' = tramp
    BY <1>2 DEF AddIn
  <2>2. TypeRecord(t) /\ t \in ValueTypes /\ Append(ins, t) \in Seq(Types)
    BY <1>1, LayoutAssumption, AppendProperties DEF ValueTypes
  <2>3. Values \in Seq(ValueTypes) /\ <<Receiver>> \o Append(ins, t) = Append(Values, t)
    <3>1. /\ <<Receiver>> \in Seq(ValueTypes) /\ ins \in Seq(ValueTypes)
          /\ <<t>> \in Seq(ValueTypes)
      BY <1>1, SeqMonotonic DEF ValueTypes
    <3>2. Values \in Seq(ValueTypes)
      BY <3>1, ConcatProperties DEF Values
    <3>3. Append(Values, t) = Values \o <<t>> /\ Append(ins, t) = ins \o <<t>>
      BY <2>2, <3>1, <3>2, AppendIsConcat
    <3>4. \A a, b, c \in Seq(ValueTypes) : (a \o b) \o c = a \o (b \o c)
      BY ConcatAssociative
    <3>5. (<<Receiver>> \o ins) \o <<t>> = <<Receiver>> \o (ins \o <<t>>)
      BY <3>1, <3>4, Zenon
    <3> QED BY <3>2, <3>3, <3>5 DEF Values
  <2>4. Holding(AddArg(call, t), Append(Values, t), 0)
    BY <1>1, <2>2, <2>3, HoldingGrows
  <2>5. Values' = Append(Values, t)
    BY <2>1, <2>3 DEF Values
  <2>6. Holding(call, Values, 0)'
    BY <2>1, <2>4, <2>5
  <2> QED BY <1>1, <2>1, <2>2, <2>6 DEF Inv
<1>3. ASSUME NEW t \in Types, AddOut(t) PROVE Inv'
  <2>1. /\ phase = "results" /\ ret' = AddArg(ret, t) /\ outs' = Append(outs, t)
        /\ call' = call /\ ins' = ins /\ phase' = phase /\ tramp' = tramp
    BY <1>3 DEF AddOut
  <2>2. TypeRecord(t) /\ Append(outs, t) \in Seq(Types)
    BY <1>1, LayoutAssumption, AppendProperties
  <2>3. Holding(AddArg(ret, t), Append(outs, t), RetOffset)
    BY <1>1, <2>1, <2>2, HoldingGrows
  <2>4. RetOffset' = RetOffset /\ Values' = Values
    BY <2>1 DEF RetOffset, Values
  <2>5. Holding(ret, outs, RetOffset)' /\ Holding(call, Values, 0)'
    BY <1>1, <2>1, <2>3, <2>4
  <2> QED BY <1>1, <2>1, <2>2, <2>5 DEF Inv
<1>4. ASSUME EndArgs PROVE Inv'
  <2>1. /\ phase = "args" /\ phase' = "results" /\ ret' = [ret EXCEPT !.stackBytes = RetOffset]
        /\ call' = call /\ ins' = ins /\ outs' = outs /\ tramp' = tramp
    BY <1>4 DEF EndArgs
  <2>2. RetOffset \in Nat
    <3>1. call.stackBytes \in Nat /\ Word \in Nat \ {0}
      BY <1>1, LayoutAssumption DEF Holding, SeqDomain
    <3> QED BY <3>1, AlignFacts DEF RetOffset
  <2>3. Holding([NoSteps EXCEPT !.stackBytes = RetOffset], <<>>, RetOffset)
    BY <2>2, NothingHeld
  <2>4. RetOffset' = RetOffset /\ Values' = Values
    BY <2>1 DEF RetOffset, Values
  <2>5. Holding(ret, outs, RetOffset)' /\ Holding(call, Values, 0)'
    BY <1>1, <2>1, <2>3, <2>4
  <2> QED BY <1>1, <2>1, <2>5 DEF Inv
<1>5. ASSUME NewTrampoline PROVE Inv'
  <2>1. /\ phase = "results" /\ phase' = "done" /\ tramp' \in Choose
        /\ call' = call /\ ins' = ins /\ outs' = outs /\ ret' = ret
    BY <1>5 DEF NewTrampoline
  <2>2. RetOffset' = RetOffset /\ Values' = Values
    BY <2>1 DEF RetOffset, Values
  <2>3. Choose' = Choose
    BY <2>1 DEF Choose, StackBytes, RetOffset, StackPtrOffs, RetStackPtrOffs
  <2> QED BY <1>1, <2>1, <2>2, <2>3 DEF Inv
<1>6. ASSUME UNCHANGED vars PROVE Inv'
  <2>1. call' = call /\ ins' = ins /\ outs' = outs /\ ret' = ret /\ phase' = phase /\ tramp' = tramp
    BY <1>6 DEF vars
  <2>2. RetOffset' = RetOffset /\ Values' = Values
    BY <2>1 DEF RetOffset, Values
  <2>3. Choose' = Choose
    BY <2>1 DEF Choose, StackBytes, RetOffset, StackPtrOffs, RetStackPtrOffs
  <2> QED BY <1>1, <2>1, <2>2, <2>3 DEF Inv
<1> QED BY <1>2, <1>3, <1>4, <1>5, <1>6 DEF Next

\* The invariant holds of every layout, of any signature over any types.
THEOREM LayoutInductive == Spec => []Inv
BY InitInv, NextInv, PTL DEF Spec

\* The plan for the results too, also before newABILayout comes to them.
LEMMA BothHeld ==
  ASSUME Inv
  PROVE  /\ Holding(call, Values, 0)
         /\ \E base \in Nat : Holding(ret, outs, base)
         /\ phase # "args" => Holding(ret, outs, RetOffset)
         /\ phase = "args" => ret = NoSteps /\ outs = <<>>
<1>1. CASE phase = "args"
  <2>1. NoSteps = [NoSteps EXCEPT !.stackBytes = 0]
    BY DEF NoSteps
  <2>2. Holding(NoSteps, <<>>, 0)
    BY <2>1, NothingHeld
  <2> QED BY <1>1, <2>2 DEF Inv
<1>2. CASE phase # "args"
  <2>1. Holding(ret, outs, RetOffset)
    BY <1>2 DEF Inv
  <2>2. RetOffset \in Nat
    BY <2>1 DEF Holding, Stacked
  <2> QED BY <1>2, <2>1, <2>2 DEF Inv
<1> QED BY <1>1, <1>2

\* The values of a call are the receiver and its arguments.
LEMMA ValuesTyped ==
  ASSUME Inv
  PROVE  /\ Values \in Seq(ValueTypes) /\ Len(Values) = Len(ins) + 1
         /\ Values[1] = Receiver /\ \A i \in 1..Len(ins) : Values[i + 1] = ins[i]
         /\ Len(ins) \in Nat
<1>1. <<Receiver>> \in Seq(ValueTypes) /\ ins \in Seq(ValueTypes) /\ Len(<<Receiver>>) = 1
  BY SeqMonotonic DEF ValueTypes, Inv
<1>2. Len(ins) \in Nat
  BY <1>1, LenProperties
<1>3. /\ Values \in Seq(ValueTypes) /\ Len(Values) = 1 + Len(ins)
      /\ \A i \in 1..1 + Len(ins) : Values[i] = IF i <= 1 THEN <<Receiver>>[i] ELSE ins[i - 1]
  BY <1>1, ConcatProperties DEF Values
<1>4. ASSUME NEW i \in 1..Len(ins) PROVE Values[i + 1] = ins[i]
  <2>1. PICK j \in 1..1 + Len(ins) : j = i + 1 /\ j - 1 = i /\ ~(j <= 1)
    BY <1>2
  <2> QED BY <1>3, <2>1
<1>5. Values[1] = Receiver
  BY <1>2, <1>3
<1> QED BY <1>2, <1>3, <1>4, <1>5

\* Every variable of a layout keeps to its domain, and float registers do not run out
\* (newABILayout).
THEOREM LayoutTypeCorrect == Spec => []TypeOK
<1>1. Inv => TypeOK
  <2> SUFFICES ASSUME Inv PROVE TypeOK
    OBVIOUS
  <2>1. ASSUME NEW s, NEW types, NEW base, Holding(s, types, base)
        PROVE  /\ \A i \in DOMAIN s.steps :
                    /\ s.steps[i].kind \in {"stack", "int", "pointer", "float"}
                    /\ s.steps[i].kind = "float" => s.steps[i].reg \in 0..FloatRegs - 1
               /\ \A i \in DOMAIN s.valueStart : s.valueStart[i] \in 0..Len(s.steps)
               /\ s.stackBytes \in Nat /\ s.iregs \in Nat /\ s.fregs \in Nat
    <3>1. s \in SeqDomain /\ RegsOK(s) /\ Starts(s, Len(types))
      BY <2>1 DEF Holding
    <3>2. /\ s.steps \in Seq(StepDomain) /\ s.valueStart \in Seq(Nat)
          /\ s.stackBytes \in Nat /\ s.iregs \in Nat /\ s.fregs \in Nat
      BY <3>1 DEF SeqDomain
    <3>3. /\ DOMAIN s.steps = 1..Len(s.steps) /\ DOMAIN s.valueStart = 1..Len(s.valueStart)
          /\ \A i \in DOMAIN s.steps : s.steps[i] \in StepDomain
      BY <3>2, LenProperties, ElementOfSeq
    <3>4. s.fregs <= FloatRegs /\ FloatRegs \in Nat
      BY <3>1, LayoutAssumption DEF RegsOK
    <3>5. ASSUME NEW i \in DOMAIN s.steps
          PROVE  /\ s.steps[i].kind \in {"stack", "int", "pointer", "float"}
                 /\ s.steps[i].kind = "float" => s.steps[i].reg \in 0..FloatRegs - 1
      <4>1. s.steps[i].kind \in {"stack", "int", "pointer", "float"}
        BY <3>3 DEF StepDomain
      <4>2. ASSUME s.steps[i].kind = "float" PROVE s.steps[i].reg \in 0..FloatRegs - 1
        <5>1. s.steps[i].reg \in 0..s.fregs - 1
          BY <3>1, <3>3, <4>2 DEF RegsOK, InFile, Floats
        <5> QED BY <3>2, <3>4, <5>1
      <4> QED BY <4>1, <4>2
    <3>6. \A i \in DOMAIN s.valueStart : s.valueStart[i] \in 0..Len(s.steps)
      BY <3>1, <3>3 DEF Starts
    <3> QED BY <3>2, <3>5, <3>6
  <2>2. PICK base \in Nat : Holding(ret, outs, base)
    BY BothHeld
  <2>3. Holding(call, Values, 0)
    BY DEF Inv
  <2>4. /\ \A i \in DOMAIN ins : ins[i] \in Types
        /\ \A i \in DOMAIN outs : outs[i] \in Types
    BY LenProperties, ElementOfSeq DEF Inv
  <2>5. phase \in {"args", "results", "done"}
    BY DEF Inv
  <2>6. tramp \in {"undecided", "slot", "precise", "none"}
    BY DEF Inv, Choose
  <2> QED BY <2>1, <2>2, <2>3, <2>4, <2>5, <2>6 DEF TypeOK
<1> QED BY <1>1, LayoutInductive, PTL

\* The values of a call and of its results share out the registers of each file, each
\* register to one step: a value that did not fit has given back what it took (addArg).
THEOREM RegistersAlwaysExclusive == Spec => []RegistersExclusive
<1>1. Inv => RegistersExclusive
  <2> SUFFICES ASSUME Inv PROVE RegistersExclusive
    OBVIOUS
  <2>1. ASSUME NEW s \in {call, ret}
        PROVE  LET inInts == {i \in DOMAIN s.steps : s.steps[i].kind \in {"int", "pointer"}}
                   inFloats == {i \in DOMAIN s.steps : s.steps[i].kind = "float"}
                   regs(idx) == {s.steps[i].reg : i \in idx}
               IN /\ regs(inInts) = 0..s.iregs - 1 /\ s.iregs <= IntRegs
                  /\ regs(inFloats) = 0..s.fregs - 1
                  /\ \A i, j \in inInts : s.steps[i].reg = s.steps[j].reg => i = j
                  /\ \A i, j \in inFloats : s.steps[i].reg = s.steps[j].reg => i = j
    <3>1. s \in SeqDomain /\ RegsOK(s)
      <4>1. \E base \in Nat : Holding(ret, outs, base)
        BY BothHeld
      <4>2. Holding(call, Values, 0)
        BY DEF Inv
      <4> QED BY <4>1, <4>2 DEF Holding
    <3>2. DOMAIN s.steps = 1..Len(s.steps)
      BY <3>1, LenProperties DEF SeqDomain
    <3> DEFINE Out(idx, n) == /\ {s.steps[i].reg : i \in idx} = 0..n - 1
                              /\ \A i, j \in idx : s.steps[i].reg = s.steps[j].reg => i = j
    <3>3. ASSUME NEW kinds, NEW n, InFile(s.steps, kinds, n),
                 NEW idx, idx = {i \in DOMAIN s.steps : s.steps[i].kind \in kinds}
          PROVE  Out(idx, n)
      BY <3>2, <3>3 DEF InFile
    <3> DEFINE inInts == {i \in DOMAIN s.steps : s.steps[i].kind \in {"int", "pointer"}}
               inFloats == {i \in DOMAIN s.steps : s.steps[i].kind = "float"}
    <3>4. InFile(s.steps, Ints, s.iregs) /\ InFile(s.steps, Floats, s.fregs) /\ s.iregs <= IntRegs
      BY <3>1 DEF RegsOK
    <3>5. /\ inInts = {i \in DOMAIN s.steps : s.steps[i].kind \in Ints}
          /\ inFloats = {i \in DOMAIN s.steps : s.steps[i].kind \in Floats}
      BY DEF Ints, Floats
    <3> HIDE DEF inInts, inFloats
    <3> HIDE DEF Out
    <3>6. Out(inInts, s.iregs) /\ Out(inFloats, s.fregs)
      BY <3>3, <3>4, <3>5
    <3> QED BY <3>4, <3>6 DEF inInts, inFloats, Out
  <2> QED BY <2>1 DEF RegistersExclusive
<1> QED BY <1>1, LayoutInductive, PTL

\* Every argument and result travels whole, in one piece on the stack or with every
\* word in a register of its own (addArg, stepsForValue).
THEOREM ValuesAlwaysWhole == Spec => []ValuesWhole
<1>1. Inv => ValuesWhole
  <2> SUFFICES ASSUME Inv PROVE ValuesWhole
    OBVIOUS
  <2>1. ASSUME NEW s, NEW D, NEW types \in Seq(D), NEW base, Holding(s, types, base)
        PROVE  Whole(s, types)
    <3>1. Len(s.valueStart) = Len(types) /\ DOMAIN types = 1..Len(types)
      BY <2>1, LenProperties DEF Holding, Starts
    <3>2. ASSUME NEW i \in DOMAIN types
          PROVE  LET t == types[i]  steps == StepsForValue(s, i) IN
                 IF OnStack(steps) THEN steps[1].size = t.size
                 ELSE /\ {<<st.offset, st.size>> : st \in Range(steps)} = IF t.size = 0 THEN {} ELSE Words(t)
                      /\ \A j \in DOMAIN steps : steps[j].kind # "stack"
      <4> DEFINE t == types[i]
                 steps == StepsForValue(s, i)
      <4>1. Valued(s, i, t)
        BY <2>1, <3>1 DEF Holding
      <4> HIDE DEF t
      <4>2. steps \in Seq(StepDomain)
        BY <4>1 DEF Valued
      <4>3. \/ t.size = 0 /\ steps = <<>>
            \/ t.size # 0 /\ Holds(steps, Words(t))
            \/ Len(steps) = 1 /\ steps[1].kind = "stack" /\ steps[1].size = t.size
        BY <4>1 DEF Valued
      <4> HIDE DEF steps
      <4>4. DOMAIN steps = 1..Len(steps)
        BY <4>2, LenProperties
      <4>5. CASE t.size = 0 /\ steps = <<>>
        <5>1. Len(<<>>) = 0 /\ Range(<<>>) = {} /\ DOMAIN <<>> = {}
          BY EmptySeq DEF Range
        <5> QED BY <4>5, <5>1 DEF OnStack, t, steps
      <4>6. CASE t.size # 0 /\ Holds(steps, Words(t))
        <5>1. /\ \A j \in DOMAIN steps : steps[j].kind # "stack"
              /\ {<<steps[j].offset, steps[j].size>> : j \in DOMAIN steps} = Words(t)
          BY <4>4, <4>6 DEF Holds
        <5>2. ~OnStack(steps)
          <6>1. Len(steps) = 1 => 1 \in DOMAIN steps
            BY <4>4
          <6> QED BY <5>1, <6>1 DEF OnStack
        <5>3. {<<st.offset, st.size>> : st \in Range(steps)} = {<<steps[j].offset, steps[j].size>> : j \in DOMAIN steps}
          BY DEF Range
        <5> QED BY <4>6, <5>1, <5>2, <5>3 DEF t, steps
      <4>7. CASE Len(steps) = 1 /\ steps[1].kind = "stack" /\ steps[1].size = t.size
        BY <4>7 DEF OnStack, t, steps
      <4> QED BY <4>3, <4>5, <4>6, <4>7
    <3> QED BY <3>1, <3>2 DEF Whole
  <2>2. \E base \in Nat : Holding(ret, outs, base)
    BY BothHeld
  <2>3. Holding(call, Values, 0)
    BY DEF Inv
  <2>4. Values \in Seq(ValueTypes) /\ outs \in Seq(Types)
    BY ValuesTyped DEF Inv
  <2> QED BY <2>1, <2>2, <2>3, <2>4 DEF ValuesWhole
<1> QED BY <1>1, LayoutInductive, PTL

\* A value is put on the stack only when the Go ABI puts it there: it has no register
\* form, or the registers left do not do for the whole of it (regAssign, stackAssign).
THEOREM FitAlwaysGreedy == Spec => []GreedyFit
<1>1. Inv => GreedyFit
  <2> SUFFICES ASSUME Inv PROVE GreedyFit
    OBVIOUS
  <2>1. ASSUME NEW s, NEW D, NEW types \in Seq(D), NEW base, Holding(s, types, base)
        PROVE  Greedy(s, types)
    <3>1. ASSUME NEW i \in DOMAIN types, OnStack(StepsForValue(s, i))
          PROVE  NoRoom(s, i, types[i])
      <4> DEFINE steps == StepsForValue(s, i)
                 t == types[i]
      <4>1. Valued(s, i, t)
        BY <2>1, LenProperties DEF Holding
      <4> HIDE DEF t
      <4>2. \/ steps = <<>> \/ Holds(steps, Words(t)) \/ NoRoom(s, i, t)
        BY <4>1 DEF Valued
      <4>3. Len(steps) = 1 /\ steps[1].kind = "stack"
        BY <3>1 DEF OnStack
      <4> HIDE DEF steps
      <4>4. steps # <<>> /\ ~Holds(steps, Words(t))
        <5>1. Len(<<>>) = 0 /\ 1 \in 1..Len(steps)
          BY <4>3, EmptySeq
        <5>2. ~Holds(steps, Words(t))
          BY <4>3, <5>1 DEF Holds
        <5>3. steps # <<>>
          <6>1. ASSUME steps = <<>> PROVE FALSE
            <7>1. Len(steps) = 0
              BY <5>1, <6>1
            <7> QED BY <4>3, <7>1
          <6> QED BY <6>1
        <5> QED BY <5>2, <5>3
      <4> QED BY <4>2, <4>4 DEF t
    <3> QED BY <3>1, Zenon DEF Greedy, NoRoom, Before, Ints, Floats
  <2>2. \E base \in Nat : Holding(ret, outs, base)
    BY BothHeld
  <2>3. Holding(call, Values, 0)
    BY DEF Inv
  <2>4. Values \in Seq(ValueTypes) /\ outs \in Seq(Types)
    BY ValuesTyped DEF Inv
  <2> QED BY <2>1, <2>2, <2>3, <2>4 DEF GreedyFit
<1> QED BY <1>1, LayoutInductive, PTL

\* the words of the results begin behind those of the arguments, and end within the area
LEMMA AreaFacts ==
  ASSUME Inv
  PROVE  /\ Word \in Nat \ {0} /\ call.stackBytes \in Nat /\ ret.stackBytes \in Nat
         /\ RetOffset \in Nat /\ call.stackBytes <= RetOffset /\ RetOffset % Word = 0
         /\ StackBytes \in Nat /\ ret.stackBytes <= StackBytes /\ StackBytes % Word = 0
<1>1. Word \in Nat \ {0}
  BY LayoutAssumption
<1>2. call.stackBytes \in Nat
  BY DEF Inv, Holding, SeqDomain
<1>3. ret.stackBytes \in Nat
  BY BothHeld DEF Holding, SeqDomain
<1>4. RetOffset \in Nat /\ call.stackBytes <= RetOffset /\ RetOffset % Word = 0
  BY <1>1, <1>2, AlignFacts DEF RetOffset
<1>5. StackBytes \in Nat /\ ret.stackBytes <= StackBytes /\ StackBytes % Word = 0
  BY <1>1, <1>3, AlignFacts DEF StackBytes
<1> QED BY <1>1, <1>2, <1>3, <1>4, <1>5

\* The values on the stack lie apart, within the words the plan says.
LEMMA ApartFacts ==
  ASSUME NEW s, NEW types, NEW base, Holding(s, types, base)
  PROVE  /\ \A a, b \in {st \in Range(s.steps) : st.kind = "stack"} :
              a # b => a.stkOff + a.size <= b.stkOff \/ b.stkOff + b.size <= a.stkOff
         /\ \A a \in {st \in Range(s.steps) : st.kind = "stack"} :
              base <= a.stkOff /\ a.stkOff + a.size <= s.stackBytes
<1> DEFINE on == {st \in Range(s.steps) : st.kind = "stack"}
           q == s.steps
<1>1. Stacked(q, base, s.stackBytes) /\ q \in Seq(StepDomain)
  BY DEF Holding, SeqDomain
<1>2. Len(q) \in Nat /\ Range(q) = {q[i] : i \in 1..Len(q)}
  BY <1>1, LenProperties DEF Range
<1> HIDE DEF q
<1>3. on = {st \in Range(q) : st.kind = "stack"}
  BY DEF q
<1> HIDE DEF on
<1>4. ASSUME NEW a \in on, NEW b \in on, a # b
      PROVE  a.stkOff + a.size <= b.stkOff \/ b.stkOff + b.size <= a.stkOff
  <2>1. PICK i \in 1..Len(q) : q[i] = a /\ a.kind = "stack"
    BY <1>2, <1>3
  <2>2. PICK j \in 1..Len(q) : q[j] = b /\ b.kind = "stack"
    BY <1>2, <1>3
  <2>3. i # j
    BY <1>4, <2>1, <2>2
  <2>4. i < j \/ j < i
    BY <1>2, <2>3
  <2>5. i < j => a.stkOff + a.size <= b.stkOff
    BY <1>1, <2>1, <2>2 DEF Stacked
  <2>6. j < i => b.stkOff + b.size <= a.stkOff
    BY <1>1, <2>1, <2>2 DEF Stacked
  <2> QED BY <2>4, <2>5, <2>6
<1>5. ASSUME NEW a \in on PROVE base <= a.stkOff /\ a.stkOff + a.size <= s.stackBytes
  <2>1. PICK i \in 1..Len(q) : q[i] = a /\ a.kind = "stack"
    BY <1>2, <1>3
  <2> QED BY <1>1, <2>1 DEF Stacked
<1> QED BY <1>4, <1>5 DEF on

\* st is the one step of value i, on the stack
Piece(s, types, i, st) ==
  /\ OnStack(StepsForValue(s, i)) /\ st = StepsForValue(s, i)[1]
  /\ st.stkOff % types[i].align = 0 /\ st.size = types[i].size /\ st \in Range(s.steps)

\* Each value on the stack is one step, aligned and of its type's size.
LEMMA PieceFacts ==
  ASSUME NEW s, NEW D, NEW types \in Seq(D), NEW base, Holding(s, types, base),
         NEW i \in DOMAIN types, NEW st \in Range(StepsForValue(s, i)), st.kind = "stack"
  PROVE  Piece(s, types, i, st)
<1> DEFINE steps == StepsForValue(s, i)
           t == types[i]
<1>1. DOMAIN types = 1..Len(types) /\ Valued(s, i, t)
  BY LenProperties DEF Holding
<1>2. st \in Range(s.steps)
  BY <1>1 DEF Holding
<1>3. /\ steps \in Seq(StepDomain)
      /\ \/ steps = <<>>
         \/ Holds(steps, Words(t))
         \/ /\ Len(steps) = 1 /\ steps[1].kind = "stack" /\ steps[1].size = t.size
            /\ steps[1].stkOff % t.align = 0
  BY <1>1 DEF Valued
<1> HIDE DEF t, steps
<1>4. Range(steps) = {steps[j] : j \in 1..Len(steps)} /\ Len(steps) \in Nat
  BY <1>3, LenProperties DEF Range
<1>5. PICK j \in 1..Len(steps) : steps[j] = st
  <2>1. st \in Range(steps)
    BY DEF steps
  <2> QED BY <1>4, <2>1
<1>6. steps # <<>>
  <2>1. ASSUME steps = <<>> PROVE FALSE
    <3>1. Len(steps) = 0
      BY <2>1, EmptySeq
    <3> QED BY <1>5, <3>1
  <2> QED BY <2>1
<1>7. ~Holds(steps, Words(t))
  BY <1>5 DEF Holds
<1>8. Len(steps) = 1 /\ steps[1].kind = "stack" /\ steps[1].size = t.size /\ steps[1].stkOff % t.align = 0
  BY <1>3, <1>6, <1>7
<1>9. j = 1
  BY <1>5, <1>8
<1> QED BY <1>2, <1>5, <1>8, <1>9 DEF OnStack, Piece, t, steps

\* Arguments and results on the stack are aligned and apart, the results in words of
\* their own behind the arguments: a result copied back overwrites nothing (stackAssign,
\* newABILayout).
THEOREM StackAlwaysDisjoint == Spec => []StackDisjoint
<1>1. Inv => StackDisjoint
  <2> SUFFICES ASSUME Inv PROVE StackDisjoint
    OBVIOUS
  <2> DEFINE args == {st \in Range(call.steps) : st.kind = "stack"}
             results == {st \in Range(ret.steps) : st.kind = "stack"}
             below(a, b) == a.stkOff + a.size <= b.stkOff
  <2>1. Holding(call, Values, 0) /\ ins \in Seq(Types) /\ outs \in Seq(Types)
    BY DEF Inv
  <2>2. PICK base \in Nat : Holding(ret, outs, base)
    BY BothHeld
  <2>3. \A a, b \in args : a # b => below(a, b) \/ below(b, a)
    BY <2>1, ApartFacts
  <2>4. \A a, b \in results : a # b => below(a, b) \/ below(b, a)
    BY <2>2, ApartFacts
  <2>5. ASSUME NEW a \in args PROVE a.stkOff + a.size <= RetOffset
    <3>1. a.stkOff + a.size <= call.stackBytes
      BY <2>1, ApartFacts
    <3>2. a \in StepDomain
      <4>1. call.steps \in Seq(StepDomain)
        BY <2>1 DEF Holding, SeqDomain
      <4>2. DOMAIN call.steps = 1..Len(call.steps) /\ \A i \in DOMAIN call.steps : call.steps[i] \in StepDomain
        BY <4>1, LenProperties, ElementOfSeq
      <4> QED BY <4>2 DEF Range
    <3>3. a.stkOff + a.size \in Nat
      BY <3>2 DEF StepDomain
    <3> QED BY <3>1, <3>3, AreaFacts
  <2>6. ASSUME NEW r \in results PROVE RetOffset <= r.stkOff /\ r.stkOff + r.size <= StackBytes
    <3>1. phase # "args"
      <4>1. ASSUME phase = "args" PROVE FALSE
        <5>1. ret.steps = <<>>
          BY <4>1, BothHeld DEF NoSteps
        <5>2. Range(<<>>) = {}
          BY DEF Range
        <5> QED BY <5>1, <5>2
      <4> QED BY <4>1
    <3>2. Holding(ret, outs, RetOffset)
      BY <3>1, BothHeld
    <3>3. RetOffset <= r.stkOff /\ r.stkOff + r.size <= ret.stackBytes
      BY <3>2, ApartFacts
    <3>4. r \in StepDomain
      <4>1. ret.steps \in Seq(StepDomain)
        BY <2>2 DEF Holding, SeqDomain
      <4>2. DOMAIN ret.steps = 1..Len(ret.steps) /\ \A i \in DOMAIN ret.steps : ret.steps[i] \in StepDomain
        BY <4>1, LenProperties, ElementOfSeq
      <4> QED BY <4>2 DEF Range
    <3>5. r.stkOff + r.size \in Nat
      BY <3>4 DEF StepDomain
    <3> QED BY <3>3, <3>5, AreaFacts
  <2>7. ASSUME NEW i \in DOMAIN ins, NEW st \in Range(StepsForValue(call, i + 1)), st.kind = "stack"
        PROVE  st.stkOff % ins[i].align = 0
    <3>1. /\ i \in 1..Len(ins) /\ Values \in Seq(ValueTypes) /\ Values[i + 1] = ins[i]
          /\ DOMAIN Values = 1..Len(ins) + 1 /\ Len(ins) \in Nat
      BY <2>1, ValuesTyped, LenProperties
    <3>2. i + 1 \in DOMAIN Values
      BY <3>1
    <3>3. Piece(call, Values, i + 1, st)
      BY <2>1, <2>7, <3>1, <3>2, PieceFacts
    <3> QED BY <3>1, <3>3 DEF Piece
  <2>8. ASSUME NEW i \in DOMAIN outs, NEW st \in Range(StepsForValue(ret, i)), st.kind = "stack"
        PROVE  st.stkOff % outs[i].align = 0
    <3>1. Piece(ret, outs, i, st)
      BY <2>1, <2>2, <2>8, PieceFacts
    <3> QED BY <3>1 DEF Piece
  <2>9. RetOffset % Word = 0
    BY AreaFacts
  <2> HIDE DEF args, results, below
  <2>10. /\ \A a \in args : a.stkOff + a.size <= RetOffset
         /\ \A r \in results : RetOffset <= r.stkOff /\ r.stkOff + r.size <= StackBytes
    BY <2>5, <2>6
  <2>11. /\ \A i \in DOMAIN ins : \A st \in Range(StepsForValue(call, i + 1)) :
              st.kind = "stack" => st.stkOff % ins[i].align = 0
         /\ \A i \in DOMAIN outs : \A st \in Range(StepsForValue(ret, i)) :
              st.kind = "stack" => st.stkOff % outs[i].align = 0
    BY <2>7, <2>8
  <2> QED BY <2>3, <2>4, <2>9, <2>10, <2>11 DEF StackDisjoint, args, results, below
<1> QED BY <1>1, LayoutInductive, PTL

-----------------------------------------------------------------------------
(* argGather *)

\* where the buffer ends behind argument i, if it ended at off before it
After(off, i) == IF Gathers(i) THEN Gathered(off, i) ELSE off

\* Each argument begins behind the ones before it.
LEMMA AfterFacts ==
  ASSUME Inv, NEW off \in Nat, NEW i \in 1..Len(ins)
  PROVE  /\ After(off, i) \in Nat /\ off <= After(off, i)
         /\ AlignUp(off, Word) \in Nat /\ off <= AlignUp(off, Word)
         /\ ins[i].size \in Nat
<1>1. Word \in Nat \ {0}
  BY LayoutAssumption
<1>2. ins[i].size \in Nat
  <2>1. ins[i] \in Types
    BY ElementOfSeq DEF Inv
  <2> QED BY <2>1, LayoutAssumption DEF TypeRecord
<1>3. AlignUp(off, Word) \in Nat /\ off <= AlignUp(off, Word)
  BY <1>1, AlignFacts
<1>4. Gathered(off, i) \in Nat /\ off <= Gathered(off, i)
  BY <1>2, <1>3 DEF Gathered
<1> QED BY <1>2, <1>3, <1>4 DEF After

\* GatherEnd is the walk over the arguments that argGather makes.
LEMMA GatherIs ==
  ASSUME Inv
  PROVE  /\ GatherEnd \in [0..Len(ins) -> Nat]
         /\ \A i \in 1..Len(ins) : GatherEnd[i] = After(GatherEnd[i - 1], i)
<1> DEFINE n == Len(ins)
           F == [x \in Nat \X (1..n) |-> After(x[1], x[2])]
           Body(g, i) == IF i = 0 THEN 0
                         ELSE IF Gathers(i) THEN Gathered(g[i - 1], i) ELSE g[i - 1]
           Fix(g) == g = [i \in 0..n |-> Body(g, i)]
<1>1. n \in Nat
  BY ValuesTyped
<1>2. F \in [Nat \X (1..n) -> Nat]
  BY AfterFacts
<1>3. PICK f \in [0..n -> Nat] : f[0] = 0 /\ \A k \in 1..n : f[k] = F[<<f[k - 1], k>>]
  <2> HIDE DEF F, n
  <2>1. \E f : IsRun(f, Nat, 0, F, n)
    BY <1>1, <1>2, RunExists
  <2> QED BY <2>1 DEF IsRun
<1>4. ASSUME NEW k \in 1..n PROVE f[k] = After(f[k - 1], k)
  <2>1. k - 1 \in 0..n
    BY <1>1
  <2>2. f[k - 1] \in Nat
    BY <2>1
  <2> QED BY <1>3, <2>2
<1> HIDE DEF F
<1>5. Fix(f)
  <2>1. ASSUME NEW i \in 0..n PROVE f[i] = Body(f, i)
    <3>1. CASE i = 0
      BY <1>3, <3>1
    <3>2. CASE i # 0
      <4>1. i \in 1..n
        BY <1>1, <3>2
      <4> QED BY <1>4, <3>2, <4>1 DEF After
    <3> QED BY <3>1, <3>2
  <2> HIDE DEF Body
  <2> QED BY <2>1
<1>6. ASSUME NEW g, Fix(g) PROVE g = f
  <2> DEFINE S == {i \in 0..n : g[i] = f[i]}
  <2>1. \A i \in 0..n : g[i] = Body(g, i)
    <3> HIDE DEF Body
    <3> QED BY <1>6
  <2>2. 0 \in S
    <3>1. 0 \in 0..n
      BY <1>1
    <3> QED BY <1>3, <2>1, <3>1
  <2>3. ASSUME NEW k \in 0..n - 1, k \in S PROVE k + 1 \in S
    <3>1. k + 1 \in 1..n /\ k + 1 \in 0..n /\ k + 1 - 1 = k /\ k + 1 # 0 /\ g[k] = f[k]
      BY <1>1, <2>3
    <3>2. PICK i \in 1..n : i = k + 1 /\ i - 1 = k /\ i \in 0..n /\ i # 0
      BY <3>1
    <3>3. g[i] = Body(g, i) /\ f[i] = Body(f, i)
      <4> HIDE DEF Body
      <4> QED BY <1>5, <2>1, <3>2
    <3>4. g[i - 1] = f[i - 1]
      BY <3>1, <3>2
    <3>5. Body(g, i) = Body(f, i)
      BY <3>4
    <3> QED BY <3>2, <3>3, <3>5
  <2> HIDE DEF S, n
  <2>4. 0..n \subseteq S
    BY <1>1, <2>2, <2>3, BoundedInduction
  <2>5. \A i \in 0..n : g[i] = f[i]
    BY <2>4 DEF S
  <2>6. g = [i \in 0..n |-> g[i]] /\ f = [i \in 0..n |-> f[i]]
    <3> HIDE DEF Body
    <3> QED BY <1>6
  <2> QED BY <2>5, <2>6
<1>7. GatherEnd = CHOOSE g : Fix(g)
  BY DEF GatherEnd
<1>8. GatherEnd = f
  <2> HIDE DEF Fix
  <2> QED BY <1>5, <1>6, <1>7
<1> QED BY <1>4, <1>8

\* The buffer only grows.
LEMMA GatherGrows ==
  ASSUME Inv, NEW i \in 0..Len(ins), NEW j \in 0..Len(ins), i <= j
  PROVE  GatherEnd[i] <= GatherEnd[j] /\ GatherEnd[i] \in Nat /\ GatherEnd[j] \in Nat
<1> DEFINE n == Len(ins)
           E == GatherEnd
           S == {k \in 0..n : i <= k => E[i] <= E[k]}
<1>1. n \in Nat /\ E \in [0..n -> Nat] /\ \A k \in 1..n : E[k] = After(E[k - 1], k)
  BY ValuesTyped, GatherIs
<1> HIDE DEF E
<1>2. 0 \in S
  <2>1. i <= 0 => i = 0
    OBVIOUS
  <2>2. E[0] <= E[0]
    BY <1>1
  <2> QED BY <1>1, <2>1, <2>2
<1>3. ASSUME NEW k \in 0..n - 1, k \in S PROVE k + 1 \in S
  <2>1. PICK m \in 1..n : m = k + 1 /\ m - 1 = k /\ m \in 0..n /\ k \in 0..n
    BY <1>1
  <2>2. E[k] \in Nat /\ E[m] \in Nat /\ E[i] \in Nat
    BY <1>1, <2>1
  <2>3. E[m] = After(E[k], m)
    BY <1>1, <2>1
  <2>4. E[k] <= E[m]
    BY <2>2, <2>3, AfterFacts
  <2>5. i <= k => E[i] <= E[k]
    BY <1>3
  <2>6. i <= m => E[i] <= E[m]
    <3>1. CASE i <= k
      BY <2>2, <2>4, <2>5, <3>1
    <3>2. CASE i = m
      BY <2>2, <3>2
    <3>3. i <= m => i <= k \/ i = m
      BY <2>1
    <3> QED BY <3>1, <3>2, <3>3
  <2> QED BY <2>1, <2>6
<1> HIDE DEF S, n
<1>4. 0..n \subseteq S
  BY <1>1, <1>2, <1>3, BoundedInduction
<1>5. E[i] <= E[j]
  BY <1>4 DEF S, n
<1> QED BY <1>1, <1>5 DEF E, n

\* Arguments assembled from several registers get slots of the gather buffer that are
\* wide enough and apart, of any signature (argGather).
THEOREM GatherAlwaysDisjoint == Spec => []GatherDisjoint
<1>1. Inv => GatherDisjoint
  <2> SUFFICES ASSUME Inv,
                      NEW i \in {k \in DOMAIN ins : Gathers(k)},
                      NEW j \in {k \in DOMAIN ins : Gathers(k)}
               PROVE  /\ ArgGather(i) + ins[i].size <= GatherBytes
                      /\ i < j => ArgGather(i) + ins[i].size <= ArgGather(j)
    BY DEF GatherDisjoint
  <2> DEFINE n == Len(ins)
             E == GatherEnd
  <2>1. n \in Nat /\ DOMAIN ins = 1..n /\ E \in [0..n -> Nat]
    BY ValuesTyped, GatherIs, LenProperties DEF Inv
  <2>2. i \in 1..n /\ i \in 0..n /\ i - 1 \in 0..n /\ j \in 1..n /\ j - 1 \in 0..n /\ n \in 0..n
    BY <2>1
  <2>3. E[i - 1] \in Nat /\ E[j - 1] \in Nat
    BY <2>1, <2>2
  <2>4. E[i] = After(E[i - 1], i)
    BY <2>2, GatherIs
  <2>5. E[i] = ArgGather(i) + ins[i].size
    BY <2>4 DEF After, Gathered, ArgGather
  <2>6. E[i] <= E[n]
    BY <2>2, GatherGrows
  <2>7. ASSUME i < j PROVE E[i] <= ArgGather(j)
    <3>1. i <= j - 1
      BY <2>2, <2>7
    <3>2. E[i] <= E[j - 1] /\ E[i] \in Nat
      BY <2>2, <3>1, GatherGrows
    <3>3. ArgGather(j) \in Nat /\ E[j - 1] <= ArgGather(j)
      BY <2>2, <2>3, AfterFacts DEF ArgGather
    <3> QED BY <2>3, <3>2, <3>3
  <2> HIDE DEF E
  <2>8. E[n] = GatherBytes
    BY DEF E, GatherBytes
  <2> QED BY <2>5, <2>6, <2>7, <2>8
<1> QED BY <1>1, LayoutInductive, PTL

-----------------------------------------------------------------------------
(* What the collector is told *)

\* Whole words divide into whole numbers.
LEMMA WordFacts ==
  ASSUME NEW x \in Nat, NEW top \in Nat, x % Word = 0, top % Word = 0, x + Word <= top
  PROVE  Word * (x \div Word) = x /\ x \div Word \in 0..(top \div Word) - 1
<1> DEFINE d == x \div Word
           e == top \div Word
<1>1. Word \in Nat \ {0}
  BY LayoutAssumption
<1>2. ASSUME NEW y \in Nat, y % Word = 0
      PROVE  y = Word * (y \div Word) /\ y \div Word \in Nat
  <2>1. y \div Word \in Int
    BY <1>1
  <2>2. y = Word * (y \div Word) + (y % Word)
    BY <1>1, Z3
  <2>3. Word * (y \div Word) \in Int
    BY <1>1, <2>1
  <2>4. y = Word * (y \div Word)
    BY <1>2, <2>2, <2>3
  <2> DEFINE q == y \div Word
  <2>5. q \in Int /\ y = Word * q
    BY <2>1, <2>4
  <2> HIDE DEF q
  <2>6. ASSUME q <= -1 PROVE FALSE
    <3>1. Word * q <= Word * (-1)
      BY <1>1, <2>5, <2>6
    <3> QED BY <1>1, <2>5, <3>1
  <2>7. q \in Nat
    BY <2>5, <2>6
  <2> QED BY <2>4, <2>7 DEF q
<1>3. x = Word * d /\ d \in Nat /\ top = Word * e /\ e \in Nat
  BY <1>2
<1> HIDE DEF d, e
<1>4. ASSUME d >= e PROVE FALSE
  <2>1. Word * d >= Word * e
    BY <1>1, <1>3, <1>4
  <2> QED BY <1>1, <1>3, <2>1
<1>5. d \in 0..e - 1
  BY <1>3, <1>4
<1> QED BY <1>3, <1>5 DEF d, e

\* A word of an aligned value is an aligned word.
LEMMA AlignedWord ==
  ASSUME NEW x \in Nat, NEW a \in Nat \ {0}, NEW o \in Nat,
         x % a = 0, a % Word = 0, o % Word = 0
  PROVE  (x + o) % Word = 0
<1>1. Word \in Nat \ {0}
  BY LayoutAssumption
<1>2. PICK p \in Int : x = a * p
  <2>1. x \in Int /\ a \in Nat \ {0} /\ x % a = 0
    OBVIOUS
  <2>2. \E p \in Int : x = a * p
    BY <2>1, MultipleFacts, Zenon
  <2> QED BY <2>2
<1>3. PICK q \in Int : a = Word * q
  BY <1>1, MultipleFacts
<1>4. PICK r \in Int : o = Word * r
  BY <1>1, MultipleFacts
<1>5. x = Word * (q * p)
  BY <1>1, <1>2, <1>3
<1>6. q * p \in Int
  OBVIOUS
<1>7. x + o = Word * (q * p + r) /\ q * p + r \in Int
  BY <1>1, <1>4, <1>5, <1>6
<1> DEFINE y == x + o
           z == q * p + r
<1>8. y \in Int /\ z \in Int /\ y = Word * z
  BY <1>7
<1> HIDE DEF y, z
<1>9. y % Word = 0
  BY <1>1, <1>8, MultipleFacts
<1> QED BY <1>9 DEF y

\* the word at off is one of those from base to top
InWords(off, base, top) == off \in Nat /\ off % Word = 0 /\ base <= off /\ off + Word <= top

\* A pointer of a value on the stack is a word of the area.
LEMMA PointerWord ==
  ASSUME NEW s, NEW D, NEW types \in Seq(D), NEW base, Holding(s, types, base),
         NEW i \in DOMAIN types, OnStack(StepsForValue(s, i)), TypeRecord(types[i]),
         NEW o \in types[i].ptrs
  PROVE  InWords(StepsForValue(s, i)[1].stkOff + o, base, s.stackBytes)
<1> DEFINE steps == StepsForValue(s, i)
           st == steps[1]
           t == types[i]
<1>1. Word \in Nat \ {0}
  BY LayoutAssumption
<1>2. st \in Range(steps) /\ st.kind = "stack"
  <2>1. steps \in Seq(StepDomain)
    <3>1. DOMAIN types = 1..Len(types)
      BY LenProperties
    <3> QED BY <3>1 DEF Holding, Valued
  <2>2. Len(steps) = 1 /\ st.kind = "stack"
    BY DEF OnStack
  <2> HIDE DEF steps
  <2>3. 1 \in DOMAIN steps
    BY <2>1, <2>2, LenProperties
  <2> QED BY <2>2, <2>3 DEF Range
<1>3. Piece(s, types, i, st)
  BY <1>2, PieceFacts
<1>4. st.stkOff % t.align = 0 /\ st.size = t.size /\ st \in Range(s.steps)
  BY <1>3 DEF Piece
<1>5. st.stkOff \in Nat
  <2>1. s.steps \in Seq(StepDomain)
    BY DEF Holding, SeqDomain
  <2>2. DOMAIN s.steps = 1..Len(s.steps) /\ \A k \in DOMAIN s.steps : s.steps[k] \in StepDomain
    BY <2>1, LenProperties, ElementOfSeq
  <2>3. st \in StepDomain
    BY <1>4, <2>2 DEF Range
  <2> QED BY <2>3 DEF StepDomain
<1>6. base <= st.stkOff /\ st.stkOff + st.size <= s.stackBytes
  <2>1. st \in {x \in Range(s.steps) : x.kind = "stack"}
    BY <1>2, <1>4
  <2> HIDE DEF st
  <2> QED BY <2>1, ApartFacts
<1>7. /\ t.size \in Nat /\ t.align \in Nat \ {0} /\ t.align % Word = 0
      /\ o \in 0..t.size /\ o + Word <= t.size /\ o % Word = 0
  BY DEF TypeRecord
<1>8. base \in Nat /\ s.stackBytes \in Nat
  BY DEF Holding, Stacked
<1> HIDE DEF st, t
<1> DEFINE v == st.stkOff
           al == t.align
<1>9. /\ v \in Nat /\ v % al = 0 /\ base <= v /\ v + t.size <= s.stackBytes
      /\ al \in Nat \ {0} /\ al % Word = 0 /\ o \in Nat
  BY <1>4, <1>5, <1>6, <1>7
<1> HIDE DEF v, al
<1>10. InWords(v + o, base, s.stackBytes)
  <2>1. (v + o) % Word = 0
    BY <1>7, <1>9, AlignedWord
  <2>2. v + o \in Nat /\ base <= v + o /\ v + o + Word <= s.stackBytes
    <3>1. \A x, y, size, word, low, top \in Nat :
            low <= x /\ x + size <= top /\ y + word <= size
              => x + y \in Nat /\ low <= x + y /\ x + y + word <= top
      OBVIOUS
    <3>2. Word \in Nat /\ base \in Nat /\ t.size \in Nat /\ s.stackBytes \in Nat /\ v \in Nat /\ o \in Nat
      BY <1>1, <1>7, <1>8, <1>9
    <3> QED BY <1>7, <1>9, <3>1, <3>2, Zenon
  <2> QED BY <2>1, <2>2 DEF InWords
<1> QED BY <1>10 DEF v, st

\* off is a pointer of value i + b of s, the i'th of types
PointerAt(s, types, b, off, i) ==
  OnStack(StepsForValue(s, i + b)) /\ \E o \in types[i].ptrs : off = StepsForValue(s, i + b)[1].stkOff + o

\* The offsets of the pointers on the stack, value by value (ptrOffsets).
LEMMA PtrOffsIs ==
  ASSUME NEW s, NEW types, NEW b, NEW off
  PROVE  off \in PtrOffs(s, types, b) <=> \E i \in DOMAIN types : PointerAt(s, types, b, off, i)
BY DEF PtrOffs, PointerAt, OnStack

\* The pointers among the arguments on the stack are words before the results.
LEMMA CallOffs ==
  ASSUME Inv, NEW off \in StackPtrOffs
  PROVE  InWords(off, 0, RetOffset)
<1>1. PICK i \in DOMAIN ins : PointerAt(call, ins, 1, off, i)
  BY PtrOffsIs DEF StackPtrOffs
<1>2. /\ Values \in Seq(ValueTypes) /\ Len(Values) = Len(ins) + 1 /\ Values[i + 1] = ins[i]
      /\ DOMAIN ins = 1..Len(ins) /\ i \in 1..Len(ins) /\ Len(ins) \in Nat
  BY ValuesTyped, LenProperties DEF Inv
<1>3. i + 1 \in DOMAIN Values
  BY <1>2, LenProperties
<1>4. TypeRecord(Values[i + 1])
  BY <1>2, LayoutAssumption, ElementOfSeq DEF Inv
<1>5. PICK o \in ins[i].ptrs : off = StepsForValue(call, i + 1)[1].stkOff + o
  BY <1>1 DEF PointerAt
<1>6. OnStack(StepsForValue(call, i + 1)) /\ Holding(call, Values, 0) /\ o \in Values[i + 1].ptrs
  BY <1>1, <1>2 DEF PointerAt, Inv
<1>7. InWords(off, 0, call.stackBytes)
  BY <1>2, <1>3, <1>4, <1>5, <1>6, PointerWord
<1> QED BY <1>7, AreaFacts DEF InWords

\* The pointers among the results on the stack are words behind the arguments.
LEMMA RetOffs ==
  ASSUME Inv, phase # "args", NEW off \in RetStackPtrOffs
  PROVE  InWords(off, RetOffset, StackBytes)
<1>1. PICK i \in DOMAIN outs : PointerAt(ret, outs, 0, off, i)
  BY PtrOffsIs DEF RetStackPtrOffs
<1>2. outs \in Seq(Types) /\ DOMAIN outs = 1..Len(outs) /\ i + 0 = i
  BY LenProperties DEF Inv
<1>3. TypeRecord(outs[i])
  BY <1>2, LayoutAssumption, ElementOfSeq
<1>4. PICK o \in outs[i].ptrs : off = StepsForValue(ret, i)[1].stkOff + o
  BY <1>1, <1>2 DEF PointerAt
<1>5. OnStack(StepsForValue(ret, i)) /\ Holding(ret, outs, RetOffset)
  BY <1>1, <1>2, BothHeld DEF PointerAt
<1>6. InWords(off, RetOffset, ret.stackBytes)
  BY <1>2, <1>3, <1>4, <1>5, PointerWord
<1> QED BY <1>6, AreaFacts DEF InWords

\* The receiver, the first value, always has a register of its own.
LEMMA ReceiverInRegister == Inv => ~OnStack(StepsForValue(call, 1))
<1> SUFFICES ASSUME Inv, OnStack(StepsForValue(call, 1)) PROVE FALSE
  OBVIOUS
<1> DEFINE steps == StepsForValue(call, 1)
<1>1. /\ Receiver.size = Word /\ Receiver.array = FALSE
      /\ DOMAIN Receiver.parts = {1} /\ Receiver.parts[1].float = FALSE /\ Receiver.parts[1].n = 1
  BY DEF Receiver
<1>2. Word # 0 /\ IntRegs \in Nat \ {0} /\ FloatRegs \in Nat
  BY LayoutAssumption
<1>3. 1 \in 1..Len(Values) /\ Values[1] = Receiver /\ Len(Values) # 0 /\ Len(Values) \in Nat
  BY ValuesTyped
<1>4. Valued(call, 1, Receiver) /\ call.valueStart[1] = 0
  BY <1>3 DEF Inv, Holding, Starts
<1>5. \A kinds : Before(call, 1, kinds) = 0
  <2>1. ASSUME NEW kinds PROVE Before(call, 1, kinds) = 0
    <3>1. 1..0 = {}
      OBVIOUS
    <3>2. {j \in 1..call.valueStart[1] : call.steps[j].kind \in kinds} = {}
      BY <1>4, <3>1
    <3> QED BY <3>2, FS_EmptySet DEF Before
  <2> QED BY <2>1
<1>6. InRegs(Receiver) = {<<1, 0>>}
  <2>1. ASSUME NEW x \in InRegs(Receiver) PROVE x = <<1, 0>>
    <3>1. x \in {1} \X (0..7) /\ x[2] < Receiver.parts[x[1]].n
      BY <1>1 DEF InRegs
    <3>2. x[1] = 1 /\ x[2] \in 0..7
      BY <3>1
    <3>3. x[2] = 0
      BY <1>1, <3>1, <3>2
    <3> QED BY <3>1, <3>2, <3>3
  <2>2. <<1, 0>> \in InRegs(Receiver)
    BY <1>1 DEF InRegs
  <2> QED BY <2>1, <2>2
<1>7. RegsOf(Receiver, FALSE) = 1
  <2>1. {x \in InRegs(Receiver) : Receiver.parts[x[1]].float = FALSE} = {<<1, 0>>}
    BY <1>1, <1>6
  <2> QED BY <2>1, FS_Singleton DEF RegsOf
<1>8. RegsOf(Receiver, TRUE) = 0
  <2>1. {x \in InRegs(Receiver) : Receiver.parts[x[1]].float = TRUE} = {}
    BY <1>1, <1>6
  <2> QED BY <2>1, FS_EmptySet DEF RegsOf
<1>9. ~NoRoom(call, 1, Receiver)
  <2> DEFINE bi == Before(call, 1, Ints)
             bf == Before(call, 1, Floats)
             ri == RegsOf(Receiver, FALSE)
             rf == RegsOf(Receiver, TRUE)
  <2>1. bi = 0 /\ bf = 0 /\ ri = 1 /\ rf = 0
    BY <1>5, <1>7, <1>8, Zenon
  <2> HIDE DEF bi, bf, ri, rf
  <2>2. ~(bi + ri > IntRegs) /\ ~(bf + rf > FloatRegs)
    BY <1>2, <2>1
  <2> QED BY <1>1, <2>2 DEF NoRoom, bi, bf, ri, rf
<1>10. steps = <<>> \/ Holds(steps, Words(Receiver))
  BY <1>4, <1>9 DEF Valued
<1>11. Len(steps) = 1 /\ steps[1].kind = "stack"
  BY DEF OnStack
<1> HIDE DEF steps
<1>12. steps # <<>>
  <2>1. ASSUME steps = <<>> PROVE FALSE
    <3>1. Len(steps) = 0
      BY <2>1, EmptySeq
    <3> QED BY <1>11, <3>1
  <2> QED BY <2>1
<1>13. 1 \in 1..Len(steps)
  BY <1>11
<1> QED BY <1>10, <1>11, <1>12, <1>13 DEF Holds

\* The words of the shape are the pointers on the stack, and within its width.
LEMMA ShapeFacts ==
  ASSUME Inv, phase = "done", tramp # "none"
  PROVE  /\ {Word * w : w \in ArgPtrs} = StackPtrOffs
         /\ {RetOffset + Word * w : w \in RetPtrs} = RetStackPtrOffs
         /\ tramp = "slot" => StackPtrOffs = {} /\ RetStackPtrOffs = {}
         /\ ArgPtrs \subseteq 0..(RetOffset \div Word) - 1
         /\ RetPtrs \subseteq 0..((StackBytes - RetOffset) \div Word) - 1
<1>1. /\ Word \in Nat \ {0} /\ RetOffset \in Nat /\ RetOffset % Word = 0
      /\ StackBytes \in Nat /\ StackBytes % Word = 0
  BY AreaFacts
<1>2. ASSUME NEW off \in StackPtrOffs
      PROVE  Word * (off \div Word) = off /\ off \div Word \in 0..(RetOffset \div Word) - 1
  <2>1. off \in Nat /\ off % Word = 0 /\ off + Word <= RetOffset
    BY CallOffs DEF InWords
  <2> QED BY <1>1, <2>1, WordFacts
<1>3. ASSUME NEW off \in RetStackPtrOffs
      PROVE  /\ RetOffset + Word * ((off - RetOffset) \div Word) = off
             /\ (off - RetOffset) \div Word \in 0..((StackBytes - RetOffset) \div Word) - 1
  <2>1. off \in Nat /\ off % Word = 0 /\ RetOffset <= off /\ off + Word <= StackBytes
    BY RetOffs DEF InWords
  <2> DEFINE x == off - RetOffset
             top == StackBytes - RetOffset
  <2>2. x \in Nat /\ top \in Nat /\ x + Word <= top /\ RetOffset + x = off
    BY <1>1, <2>1
  <2>3. ASSUME NEW y \in Nat, y % Word = 0 PROVE (y - RetOffset) % Word = 0
    <3>1. PICK p \in Int : y = Word * p
      <4>1. y \in Int
        OBVIOUS
      <4> QED BY <1>1, <2>3, <4>1, MultipleFacts
    <3>2. PICK q \in Int : RetOffset = Word * q
      <4>1. RetOffset \in Int
        BY <1>1
      <4> QED BY <1>1, <4>1, MultipleFacts
    <3> DEFINE z == y - RetOffset
               d == p - q
    <3>3. z \in Int /\ d \in Int /\ z = Word * d
      BY <1>1, <3>1, <3>2
    <3> HIDE DEF z, d
    <3>4. z % Word = 0
      BY <1>1, <3>3, MultipleFacts
    <3> QED BY <3>4 DEF z
  <2>4. x % Word = 0 /\ top % Word = 0
    BY <1>1, <2>1, <2>3
  <2> HIDE DEF x, top
  <2>5. Word * (x \div Word) = x /\ x \div Word \in 0..(top \div Word) - 1
    BY <2>2, <2>4, WordFacts
  <2>6. RetOffset + Word * (x \div Word) = off
    BY <2>2, <2>5
  <2> QED BY <2>5, <2>6 DEF x, top
<1>4. {Word * w : w \in ArgPtrs} = StackPtrOffs
  <2>1. {Word * w : w \in ArgPtrs} = {Word * (off \div Word) : off \in StackPtrOffs}
    BY DEF ArgPtrs
  <2> QED BY <1>2, <2>1
<1>5. {RetOffset + Word * w : w \in RetPtrs} = RetStackPtrOffs
  <2>1. {RetOffset + Word * w : w \in RetPtrs}
          = {RetOffset + Word * ((off - RetOffset) \div Word) : off \in RetStackPtrOffs}
    BY DEF RetPtrs
  <2> QED BY <1>3, <2>1
<1>6. tramp \in Choose
  BY DEF Inv
<1>7. tramp = "slot" => StackPtrOffs = {} /\ RetStackPtrOffs = {}
  BY <1>6 DEF Choose
<1>8. ArgPtrs \subseteq 0..(RetOffset \div Word) - 1
  BY <1>2 DEF ArgPtrs
<1>9. RetPtrs \subseteq 0..((StackBytes - RetOffset) \div Word) - 1
  BY <1>3 DEF RetPtrs
<1> QED BY <1>4, <1>5, <1>7, <1>8, <1>9

\* The pointers of the arguments, value by value, are those of the plan.
LEMMA CallPointers ==
  ASSUME Inv
  PROVE  UNION {PointersOf(call, Values, i) : i \in DOMAIN Values}
           = {<<"register", r>> : r \in PtrMask} \cup {<<"stack", off>> : off \in StackPtrOffs}
<1>1. /\ DOMAIN Values = 1..Len(Values) /\ DOMAIN ins = 1..Len(ins) /\ Len(Values) = Len(ins) + 1
      /\ Len(ins) \in Nat /\ \A i \in 1..Len(ins) : Values[i + 1] = ins[i]
  BY ValuesTyped, LenProperties DEF Inv
<1>2. Range(call.steps) = UNION {Range(StepsForValue(call, i)) : i \in DOMAIN Values}
  BY <1>1 DEF Inv, Holding
<1>3. ASSUME NEW i \in DOMAIN Values, NEW p \in PointersOf(call, Values, i)
      PROVE  p \in {<<"register", r>> : r \in PtrMask} \cup {<<"stack", off>> : off \in StackPtrOffs}
  <2>1. CASE OnStack(StepsForValue(call, i))
    <3>1. i # 1
      BY <2>1, ReceiverInRegister
    <3>2. PICK j \in DOMAIN ins : j + 1 = i
      <4>1. i - 1 \in 1..Len(ins) /\ i - 1 + 1 = i
        BY <1>1, <3>1
      <4> QED BY <1>1, <4>1
    <3>3. PICK o \in Values[i].ptrs : p = <<"stack", StepsForValue(call, i)[1].stkOff + o>>
      BY <1>3, <2>1 DEF PointersOf
    <3>4. PointerAt(call, ins, 1, StepsForValue(call, i)[1].stkOff + o, j)
      BY <1>1, <2>1, <3>2 DEF PointerAt
    <3>5. StepsForValue(call, i)[1].stkOff + o \in StackPtrOffs
      BY <3>4, PtrOffsIs DEF StackPtrOffs
    <3> QED BY <3>3, <3>5
  <2>2. CASE ~OnStack(StepsForValue(call, i))
    <3>1. PICK st \in Range(StepsForValue(call, i)) : st.kind = "pointer" /\ p = <<"register", st.reg>>
      BY <1>3, <2>2 DEF PointersOf
    <3>2. st \in Range(call.steps)
      BY <1>2, <3>1
    <3>3. st.reg \in PtrMask
      BY <3>1, <3>2 DEF PtrMask
    <3> QED BY <3>1, <3>3
  <2> QED BY <2>1, <2>2
<1>4. ASSUME NEW r \in PtrMask
      PROVE  \E i \in DOMAIN Values : <<"register", r>> \in PointersOf(call, Values, i)
  <2>1. PICK st \in Range(call.steps) : st.kind = "pointer" /\ st.reg = r
    BY DEF PtrMask
  <2>2. PICK i \in DOMAIN Values : st \in Range(StepsForValue(call, i))
    BY <1>2, <2>1
  <2>3. ~OnStack(StepsForValue(call, i))
    <3> DEFINE steps == StepsForValue(call, i)
    <3>1. steps \in Seq(StepDomain)
      BY <1>1 DEF Inv, Holding, Valued
    <3> HIDE DEF steps
    <3>2. Range(steps) = {steps[j] : j \in 1..Len(steps)}
      BY <3>1, LenProperties DEF Range
    <3>3. PICK j \in 1..Len(steps) : steps[j] = st
      BY <2>2, <3>2 DEF steps
    <3>4. ASSUME Len(steps) = 1 /\ steps[1].kind = "stack" PROVE FALSE
      <4>1. j = 1
        BY <3>3, <3>4
      <4> QED BY <2>1, <3>3, <3>4, <4>1
    <3> QED BY <3>4 DEF OnStack, steps
  <2>4. <<"register", r>> \in PointersOf(call, Values, i)
    BY <2>1, <2>2, <2>3 DEF PointersOf
  <2> QED BY <2>4
<1>5. ASSUME NEW off \in StackPtrOffs
      PROVE  \E i \in DOMAIN Values : <<"stack", off>> \in PointersOf(call, Values, i)
  <2>1. PICK j \in DOMAIN ins : PointerAt(call, ins, 1, off, j)
    BY PtrOffsIs DEF StackPtrOffs
  <2>2. j + 1 \in DOMAIN Values /\ Values[j + 1] = ins[j]
    BY <1>1
  <2>3. <<"stack", off>> \in PointersOf(call, Values, j + 1)
    BY <2>1, <2>2 DEF PointerAt, PointersOf
  <2> QED BY <2>2, <2>3
<1> QED BY <1>3, <1>4, <1>5

\* The pointers of the results on the stack are those of the plan.
LEMMA RetPointers ==
  ASSUME Inv
  PROVE  UNION {{p \in PointersOf(ret, outs, i) : p[1] = "stack"} : i \in DOMAIN outs}
           = {<<"stack", off>> : off \in RetStackPtrOffs}
<1>1. DOMAIN outs = 1..Len(outs) /\ \A i \in DOMAIN outs : i + 0 = i
  BY LenProperties DEF Inv
<1>2. ASSUME NEW i \in DOMAIN outs, NEW p \in PointersOf(ret, outs, i), p[1] = "stack"
      PROVE  p \in {<<"stack", off>> : off \in RetStackPtrOffs}
  <2>1. OnStack(StepsForValue(ret, i))
    <3>1. ASSUME ~OnStack(StepsForValue(ret, i)) PROVE p[1] = "register"
      BY <1>2, <3>1 DEF PointersOf
    <3> QED BY <1>2, <3>1
  <2>2. PICK o \in outs[i].ptrs : p = <<"stack", StepsForValue(ret, i)[1].stkOff + o>>
    BY <1>2, <2>1 DEF PointersOf
  <2>3. PointerAt(ret, outs, 0, StepsForValue(ret, i)[1].stkOff + o, i)
    BY <1>1, <2>1 DEF PointerAt
  <2>4. StepsForValue(ret, i)[1].stkOff + o \in RetStackPtrOffs
    BY <2>3, PtrOffsIs DEF RetStackPtrOffs
  <2> QED BY <2>2, <2>4
<1>3. ASSUME NEW off \in RetStackPtrOffs
      PROVE  \E i \in DOMAIN outs : <<"stack", off>> \in PointersOf(ret, outs, i)
  <2>1. PICK i \in DOMAIN outs : PointerAt(ret, outs, 0, off, i)
    BY PtrOffsIs DEF RetStackPtrOffs
  <2>2. <<"stack", off>> \in PointersOf(ret, outs, i)
    BY <1>1, <2>1 DEF PointerAt, PointersOf
  <2> QED BY <2>2
<1>4. \A off : <<"stack", off>>[1] = "stack"
  OBVIOUS
<1> QED BY <1>2, <1>3, <1>4

\* What the collector is told of a call is what the call holds, of any signature: its
\* pointer registers, its pointer words on the stack, and none where the plain slot
\* declares none (ptrMask, ptrOffsets, newTrampoline).
THEOREM PointersAlwaysExact == Spec => []PointersExact
<1>1. Inv => PointersExact
  <2> SUFFICES ASSUME Inv, phase = "done", tramp # "none"
               PROVE  LET actual == UNION ({PointersOf(call, Values, i) : i \in DOMAIN Values}
                                      \cup {{p \in PointersOf(ret, outs, i) : p[1] = "stack"} : i \in DOMAIN outs})
                          inArea == IF tramp = "slot" THEN {}
                                    ELSE {Word * w : w \in ArgPtrs} \cup {RetOffset + Word * w : w \in RetPtrs}
                      IN /\ actual = {<<"register", r>> : r \in PtrMask} \cup {<<"stack", off>> : off \in inArea}
                         /\ ArgPtrs \subseteq 0..(RetOffset \div Word) - 1
                         /\ RetPtrs \subseteq 0..((StackBytes - RetOffset) \div Word) - 1
    BY DEF PointersExact
  <2> DEFINE A == {PointersOf(call, Values, i) : i \in DOMAIN Values}
             B == {{p \in PointersOf(ret, outs, i) : p[1] = "stack"} : i \in DOMAIN outs}
             inArea == IF tramp = "slot" THEN {}
                       ELSE {Word * w : w \in ArgPtrs} \cup {RetOffset + Word * w : w \in RetPtrs}
             Regs == {<<"register", r>> : r \in PtrMask}
  <2>1. UNION A = Regs \cup {<<"stack", off>> : off \in StackPtrOffs}
    BY CallPointers
  <2>2. UNION B = {<<"stack", off>> : off \in RetStackPtrOffs}
    BY RetPointers
  <2>3. inArea = StackPtrOffs \cup RetStackPtrOffs
    BY ShapeFacts
  <2>4. /\ ArgPtrs \subseteq 0..(RetOffset \div Word) - 1
        /\ RetPtrs \subseteq 0..((StackBytes - RetOffset) \div Word) - 1
    BY ShapeFacts
  <2> HIDE DEF A, B, inArea, Regs
  <2>5. UNION (A \cup B) = (UNION A) \cup (UNION B)
    OBVIOUS
  <2>6. UNION (A \cup B) = Regs \cup {<<"stack", off>> : off \in inArea}
    BY <2>1, <2>2, <2>3, <2>5
  <2> QED BY <2>4, <2>6 DEF A, B, inArea, Regs
<1> QED BY <1>1, LayoutInductive, PTL

=============================================================================
