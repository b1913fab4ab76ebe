--------------------------- MODULE RegistryProofs ---------------------------
(***************************************************************************)
(* Proofs about Registry, for any number of goroutines, interfaces, slots  *)
(* and pages.                                                              *)
(***************************************************************************)
EXTENDS Registry, SequenceTheorems, DataProofs, TLAPS

-----------------------------------------------------------------------------
(* The inductive invariant of the table and of those who ask it *)

Making == {"build", "link", "tail", "root", "cache"}
Inside == Making \cup {"lookup"}

\* what a goroutine at each point of NewOf and jitTrampoline knows: the method it
\* is at is one of its interface's, and the page it has is the newest, generated
\* for the shape it wants, which the table does not have
Own(t) ==
  /\ Len(iface[t]) <= MaxMethods /\ Len(fvs[t]) <= Len(iface[t])
  /\ pc[t] \in Inside => Index(t) < Len(iface[t]) /\ Wanted(t) \in Shapes
  /\ pc[t] \in Making => /\ page[t] = Len(made) /\ page[t] # NoPage
                         /\ made[page[t]] = Wanted(t)
                         /\ Wanted(t) \notin DOMAIN bySh
  /\ pc[t] \notin Making => page[t] = NoPage

Known(sh, code) == sh \in DOMAIN bySh /\ bySh[sh] = code

\* a code in the table was generated for its shape and is no longer being made
Table ==
  \A sh \in DOMAIN bySh : made[bySh[sh]] = sh /\ \A t \in All : page[t] # bySh[sh]

\* the codes a goroutine has are those of the table
Answers ==
  \A t \in All : \A k \in DOMAIN fvs[t] : Known(Shape(k - 1, iface[t][k]), fvs[t][k])

\* the stubs are complete before anything else runs
Boot ==
  /\ iface[Main] = [k \in 1..SlotCount |-> Plain]
  /\ pc[Main] = "idle" => Len(fvs[Main]) = SlotCount
  /\ \A t \in Threads : pc[t] # "idle" => Ready

Base == TypeOK /\ (\A t \in All : Own(t)) /\ Table /\ Answers /\ Boot

\* What is assumed of the constants.
LEMMA Bounds ==
  /\ SlotCount \in Nat /\ MaxMethods \in Nat /\ MaxPages \in Nat /\ SlotCount <= MaxMethods
  /\ Main \notin Threads /\ NoOne \notin All /\ Main \in All /\ Threads \subseteq All
  BY RegistryAssumption DEF All

\* A proxied interface is a sequence of at most MaxMethods areas.
LEMMA InterfaceFacts ==
  ASSUME NEW i \in Interfaces
  PROVE  i \in Seq(Areas \cup {Plain, Wide}) /\ Len(i) <= MaxMethods
  BY RegistryAssumption

\* Codes stay codes when there are more of them.
LEMMA SeqGrows ==
  ASSUME NEW n \in Nat, NEW m \in Nat, n <= m
  PROVE  Seq(1..n) \subseteq Seq(1..m)
<1>1. 1..n \subseteq 1..m
  OBVIOUS
<1> QED BY <1>1

\* the stubs' interface is one too
LEMMA StubsFacts ==
  /\ [k \in 1..SlotCount |-> Plain] \in Seq(Areas \cup {Plain, Wide})
  /\ Len([k \in 1..SlotCount |-> Plain]) = SlotCount
<1>1. [k \in 1..SlotCount |-> Plain] \in [1..SlotCount -> Areas \cup {Plain, Wide}]
  OBVIOUS
<1> QED BY <1>1, Bounds

\* The program starts in it.
LEMMA InitBase == Init => Base
<1> SUFFICES ASSUME Init PROVE Base
  OBVIOUS
<1> USE Bounds DEF Init
<1>1. /\ made = <<>> /\ Len(made) = 0 /\ made \in Seq(Shapes)
      /\ DOMAIN bySh = {} /\ fvs = [t \in All |-> <<>>]
  OBVIOUS
<1>2. iface \in [All -> Seq(Areas \cup {Plain, Wide})]
  <2>1. <<>> \in Seq(Areas \cup {Plain, Wide})
    OBVIOUS
  <2> QED BY <2>1, StubsFacts
<1>3. fvs \in [All -> Seq(1..Len(made))] /\ \A t \in All : Len(fvs[t]) = 0
  BY <1>1
<1>4. pc \in [All -> Ways] /\ \A t \in All : pc[t] \in {"idle", "method"}
  BY DEF Ways
<1>5. TypeOK
  BY <1>1, <1>2, <1>3, <1>4 DEF TypeOK, NoPage
<1>6. \A t \in All : Len(iface[t]) <= MaxMethods /\ 0 <= Len(iface[t])
  <2> TAKE t \in All
  <2>1. CASE t = Main BY <2>1, StubsFacts
  <2>2. CASE t # Main BY <2>2
  <2> QED BY <2>1, <2>2
<1>7. \A t \in All : Own(t)
  BY <1>3, <1>4, <1>6 DEF Own, Inside, Making
<1>8. Table /\ Answers
  BY <1>1, <1>3 DEF Table, Answers
<1>9. Boot
  BY <1>1 DEF Boot, All
<1> QED BY <1>5, <1>7, <1>8, <1>9 DEF Base

-----------------------------------------------------------------------------
(* Steps *)

\* what a goroutine's own step leaves of every other one
Untouched(u) ==
  pc'[u] = pc[u] /\ iface'[u] = iface[u] /\ fvs'[u] = fvs[u] /\ page'[u] = page[u]

Outside(t) == NewOf(t) \/ SlotCode(t) \/ TooWide(t) \/ Forge(t) \/ Recover(t)

\* inside jitTrampoline and out of it again, but for what Alloc and Cache do
Passing(t) ==
  Lock(t) \/ AllocFails(t) \/ BuildJITModule(t) \/ Link(t) \/ MoveTail(t) \/ Root(t)

Runtime == Collect \/ StartScan \/ Scan

\* What a step is: of the program's own, or of the runtime's.
LEMMA NextCases ==
  Next <=> \/ \E t \in All : Outside(t) \/ Passing(t) \/ Hit(t) \/ Alloc(t) \/ Cache(t)
           \/ Runtime
  BY DEF Next, Outside, Passing, Runtime, Construct, InJit

\* A goroutine's step is its own (each handler works on its own locals).
LEMMA OthersUntouched ==
  ASSUME TypeOK, NEW t \in All,
         Outside(t) \/ Passing(t) \/ Hit(t) \/ Alloc(t) \/ Cache(t)
  PROVE  \A u \in All \ {t} : Untouched(u)
<1> USE DEF TypeOK, Untouched, Goto, Took, local
<1>1. CASE Outside(t)
  BY <1>1 DEF Outside, NewOf, SlotCode, TooWide, Forge, Recover
<1>2. CASE Passing(t)
  BY <1>2 DEF Passing, Lock, AllocFails, BuildJITModule, Link, MoveTail, Root
<1>3. CASE Hit(t) \/ Alloc(t) \/ Cache(t)
  BY <1>3 DEF Hit, Alloc, Cache
<1> QED BY <1>1, <1>2, <1>3

\* Who is inside jitTrampoline holds jitMu, so nobody else is.
LEMMA Exclusion ==
  ASSUME TypeOK, NEW t \in All, NEW u \in All, pc[t] \in Inside, pc[u] \in Inside
  PROVE  t = u /\ mu = t
  BY DEF TypeOK, Inside, Making

\* What a goroutine appends to its answers (NewOf: fvs[i] = p.methods[i].codePtr).
LEMMA TookFacts ==
  ASSUME TypeOK, NEW t \in All, NEW code \in 1..Len(made), Took(t, code)
  PROVE  /\ fvs' \in [All -> Seq(1..Len(made))]
         /\ Len(fvs'[t]) = Len(fvs[t]) + 1 /\ DOMAIN fvs'[t] = 1..Len(fvs[t]) + 1
         /\ \A k \in DOMAIN fvs'[t] : fvs'[t][k] = IF k = Len(fvs[t]) + 1 THEN code ELSE fvs[t][k]
<1>1. fvs[t] \in Seq(1..Len(made)) /\ fvs'[t] = Append(fvs[t], code)
  BY DEF TypeOK, Took
<1>2. /\ fvs'[t] \in Seq(1..Len(made))
      /\ Len(fvs'[t]) = Len(fvs[t]) + 1
      /\ \A k \in 1..Len(fvs[t]) : fvs'[t][k] = fvs[t][k]
      /\ fvs'[t][Len(fvs[t]) + 1] = code
  BY <1>1, AppendProperties
<1>3. fvs' \in [All -> Seq(1..Len(made))]
  BY <1>2 DEF TypeOK, Took
<1> HIDE DEF Took
<1>4. DOMAIN fvs'[t] = 1..Len(fvs[t]) + 1 /\ Len(fvs[t]) \in Nat
  BY <1>1, <1>2, LenProperties
<1>5. \A k \in DOMAIN fvs'[t] : k # Len(fvs[t]) + 1 => k \in 1..Len(fvs[t])
  BY <1>4
<1> QED BY <1>2, <1>3, <1>4, <1>5

\* A method that has a trampoline is one of a shape (newTrampoline).
LEMMA WantedFacts ==
  ASSUME TypeOK, NEW t \in All, Own(t), Index(t) < Len(iface[t]), Method(t) # Wide
  PROVE  Wanted(t) \in Shapes /\ Index(t) \in Nat
<1>1. fvs[t] \in Seq(1..Len(made)) /\ iface[t] \in Seq(Areas \cup {Plain, Wide})
  BY DEF TypeOK
<1>2. Index(t) \in 0..MaxMethods - 1 /\ Index(t) + 1 \in DOMAIN iface[t]
  BY <1>1, Bounds DEF Index, Own
<1>3. Method(t) \in Areas \cup {Plain}
  BY <1>1, <1>2 DEF Method
<1> QED BY <1>2, <1>3 DEF Wanted, Shape, Shapes

\* A stub serves the method of its index with a plain area (slotCode).
LEMMA StubFacts ==
  ASSUME Base, NEW t \in Threads, pc[t] = "method", Index(t) < SlotCount
  PROVE  LET code == fvs[Main][Index(t) + 1] IN
         code \in 1..Len(made) /\ Known(Shape(Index(t), Plain), code)
<1> USE Bounds
<1>1. Len(fvs[Main]) = SlotCount /\ iface[Main] = [k \in 1..SlotCount |-> Plain]
  BY DEF Base, Boot, Ready
<1>2. fvs[Main] \in Seq(1..Len(made)) /\ fvs[t] \in Seq(1..Len(made))
  BY DEF Base, TypeOK
<1>3. Index(t) + 1 \in DOMAIN fvs[Main] /\ Index(t) + 1 \in 1..SlotCount /\ Index(t) \in Nat
  BY <1>1, <1>2 DEF Index
<1>4. Known(Shape(Index(t) + 1 - 1, iface[Main][Index(t) + 1]), fvs[Main][Index(t) + 1])
  BY <1>3 DEF Base, Answers
<1>5. Index(t) + 1 - 1 = Index(t) /\ iface[Main][Index(t) + 1] = Plain
  BY <1>1, <1>3
<1> QED BY <1>2, <1>3, <1>4, <1>5

-----------------------------------------------------------------------------
(* Every step keeps the invariant *)

\* What is known of the others stays so while the table and the pages do.
LEMMA OthersKeep ==
  ASSUME Base, NEW t \in All, \A u \in All \ {t} : Untouched(u), UNCHANGED <<made, bySh>>,
         NEW u \in All \ {t}
  PROVE  /\ Own(u)'
         /\ \A k \in DOMAIN fvs'[u] : Known(Shape(k - 1, iface[u][k]), fvs[u][k])'
<1>1. Own(u) /\ \A k \in DOMAIN fvs[u] : Known(Shape(k - 1, iface[u][k]), fvs[u][k])
  BY DEF Base, Answers
<1>2. Untouched(u)
  OBVIOUS
<1>3. Wanted(u)' = Wanted(u) /\ Index(u)' = Index(u)
  BY <1>2 DEF Untouched, Wanted, Index, Method, Shape
<1> QED BY <1>1, <1>2, <1>3 DEF Untouched, Own, Known, Shape

\* NewOf around jitTrampoline: the types.
LEMMA OutsideTypes ==
  ASSUME Base, NEW t \in All, Outside(t)
  PROVE  TypeOK'
<1>1. TypeOK /\ UNCHANGED <<mu, bySh, made, list, heap, page>>
  BY DEF Base, Outside, NewOf, SlotCode, TooWide, Forge, Recover, local
<1>2. pc[t] \in {"idle", "method", "panicked"} /\ pc[t] \in Ways
  BY DEF Outside, NewOf, SlotCode, TooWide, Forge, Recover, Building, Ways
<1>3. pc' \in [All -> Ways] /\ pc'[t] \in {"idle", "method", "panicked"}
  BY <1>1, <1>2 DEF Outside, NewOf, SlotCode, TooWide, Forge, Recover, Goto, TypeOK, Ways
<1>4. iface' \in [All -> Seq(Areas \cup {Plain, Wide})]
  <2>1. CASE NewOf(t)
    BY <1>1, <2>1, InterfaceFacts DEF NewOf, TypeOK
  <2>2. CASE ~NewOf(t)
    BY <1>1, <2>2 DEF Outside, SlotCode, TooWide, Forge, Recover, local, TypeOK
  <2> QED BY <2>1, <2>2
<1>5. fvs' \in [All -> Seq(1..Len(made))]
  <2>1. CASE NewOf(t)
    <3>1. <<>> \in Seq(1..Len(made))
      OBVIOUS
    <3> QED BY <1>1, <2>1, <3>1 DEF NewOf, TypeOK
  <2>2. CASE SlotCode(t) /\ Index(t) < SlotCount
    <3>1. Took(t, fvs[Main][Index(t) + 1]) /\ t \in Threads /\ pc[t] = "method"
      BY <2>2 DEF SlotCode, Building, All
    <3> QED BY <1>1, <2>2, <3>1, StubFacts, TookFacts
  <2>3. CASE ~NewOf(t) /\ ~(SlotCode(t) /\ Index(t) < SlotCount)
    BY <1>1, <2>3 DEF Outside, SlotCode, TooWide, Forge, Recover, local, TypeOK
  <2> QED BY <2>1, <2>2, <2>3
<1>6. \A u \in All : pc'[u] \notin {"idle", "method", "panicked"} => mu' = u
  <2>1. \A u \in All \ {t} : pc'[u] = pc[u]
    BY <1>1, OthersUntouched DEF Untouched
  <2> QED BY <1>1, <1>3, <2>1 DEF TypeOK
<1> QED BY <1>1, <1>3, <1>4, <1>5, <1>6 DEF TypeOK, list, heap, Objects

\* NewOf around jitTrampoline keeps the rest.
LEMMA OutsideBase ==
  ASSUME Base, NEW t \in All, Outside(t)
  PROVE  Base'
<1>1. TypeOK /\ TypeOK' /\ Own(t) /\ UNCHANGED <<mu, bySh, made, page>>
  BY OutsideTypes DEF Base, Outside, NewOf, SlotCode, TooWide, Forge, Recover, local
<1>2. \A u \in All \ {t} : Untouched(u)
  BY <1>1, OthersUntouched
<1>3. /\ pc[t] \in {"idle", "method", "panicked"} /\ pc'[t] \in {"idle", "method", "panicked"}
      /\ page'[t] = NoPage
  <2>1. pc[t] \in {"idle", "method", "panicked"}
    BY DEF Outside, NewOf, SlotCode, TooWide, Forge, Recover, Building
  <2>2. pc'[t] \in {"idle", "method", "panicked"}
    BY <1>1, <2>1 DEF Outside, NewOf, SlotCode, TooWide, Forge, Recover, Goto, TypeOK
  <2> QED BY <1>1, <2>1, <2>2 DEF Own, Making
<1>4. /\ Len(iface'[t]) <= MaxMethods /\ Len(fvs'[t]) <= Len(iface'[t])
      /\ \A k \in DOMAIN fvs'[t] : Known(Shape(k - 1, iface[t][k]), fvs[t][k])'
  <2>1. CASE NewOf(t)
    <3>1. PICK i \in Interfaces : iface'[t] = i /\ fvs'[t] = <<>>
      BY <1>1, <2>1 DEF NewOf, TypeOK
    <3>2. Len(i) \in Nat /\ Len(i) <= MaxMethods
      BY InterfaceFacts
    <3> QED BY <3>1, <3>2
  <2>2. CASE SlotCode(t) /\ Index(t) < SlotCount
    <3> DEFINE code == fvs[Main][Index(t) + 1]
    <3>1. /\ Took(t, code) /\ t \in Threads /\ pc[t] = "method" /\ Method(t) = Plain
          /\ Index(t) < Len(iface[t]) /\ iface' = iface
      BY <2>2 DEF SlotCode, Building, All, local
    <3>2. code \in 1..Len(made) /\ Known(Shape(Index(t), Plain), code)
      BY <2>2, <3>1, StubFacts
    <3> HIDE DEF code
    <3>3. /\ Len(fvs'[t]) = Len(fvs[t]) + 1 /\ DOMAIN fvs'[t] = 1..Len(fvs[t]) + 1
          /\ \A k \in DOMAIN fvs'[t] :
               fvs'[t][k] = IF k = Len(fvs[t]) + 1 THEN code ELSE fvs[t][k]
      BY <1>1, <3>1, <3>2, TookFacts
    <3>4. \A k \in DOMAIN fvs[t] : Known(Shape(k - 1, iface[t][k]), fvs[t][k])
      BY DEF Base, Answers
    <3>5. Len(fvs[t]) \in Nat /\ DOMAIN fvs[t] = 1..Len(fvs[t]) /\ Len(iface[t]) \in Nat
      BY <1>1, LenProperties DEF TypeOK
    <3>6. ASSUME NEW k \in DOMAIN fvs'[t]
          PROVE  Known(Shape(k - 1, iface[t][k]), fvs'[t][k])
      <4>1. CASE k = Len(fvs[t]) + 1
        <5>1. k - 1 = Index(t) /\ iface[t][k] = Plain /\ fvs'[t][k] = code
          BY <3>1, <3>3, <3>5, <3>6, <4>1 DEF Index, Method
        <5> QED BY <3>2, <5>1
      <4>2. CASE k # Len(fvs[t]) + 1
        <5>1. k \in DOMAIN fvs[t] /\ fvs'[t][k] = fvs[t][k]
          BY <3>3, <3>5, <3>6, <4>2
        <5> QED BY <3>4, <5>1
      <4> QED BY <4>1, <4>2
    <3>7. Len(fvs'[t]) <= Len(iface[t])
      BY <3>1, <3>3, <3>5 DEF Index
    <3> QED BY <1>1, <3>1, <3>6, <3>7 DEF Own, Known, Shape
  <2>3. CASE ~NewOf(t) /\ ~(SlotCode(t) /\ Index(t) < SlotCount)
    <3>1. UNCHANGED <<iface, fvs>>
      BY <2>3 DEF Outside, SlotCode, TooWide, Forge, Recover, local
    <3> QED BY <1>1, <3>1 DEF Own, Base, Answers, Known, Shape
  <2> QED BY <2>1, <2>2, <2>3
<1>5. Own(t)'
  BY <1>3, <1>4 DEF Own, Inside, Making
<1>6. (\A u \in All : Own(u)') /\ Answers'
  <2>1. \A u \in All \ {t} :
          /\ Own(u)'
          /\ \A k \in DOMAIN fvs'[u] : Known(Shape(k - 1, iface[u][k]), fvs[u][k])'
    BY <1>1, <1>2, OthersKeep
  <2> QED BY <1>4, <1>5, <2>1 DEF Answers
<1>7. Table'
  BY <1>1 DEF Base, Table
<1>8. Boot'
  <2>1. CASE t = Main
    <3>1. pc[Main] # "idle" /\ iface' = iface
      BY <2>1 DEF Outside, NewOf, SlotCode, TooWide, Forge, Recover, Building, local
    <3>2. \A u \in Threads : pc'[u] = "idle"
      BY <1>2, <2>1, <3>1, Bounds DEF Base, Boot, Ready, Untouched
    <3>3. pc'[Main] = "idle" => Len(fvs'[Main]) = SlotCount
      <4>1. CASE Forge(t)
        BY <2>1, <4>1, StubsFacts DEF Forge, Base, Boot, Index
      <4>2. CASE ~Forge(t)
        BY <1>1, <2>1, <4>2, Bounds DEF Outside, NewOf, SlotCode, TooWide, Forge, Recover, Goto, TypeOK
      <4> QED BY <4>1, <4>2
    <3> QED BY <3>1, <3>2, <3>3 DEF Base, Boot
  <2>2. CASE t # Main
    <3>1. Untouched(Main)
      BY <1>2, <2>2, Bounds
    <3>2. Ready
      BY <2>2, Bounds DEF Outside, NewOf, SlotCode, TooWide, Forge, Recover, Building, Base, Boot, All
    <3> QED BY <3>1, <3>2 DEF Base, Boot, Ready, Untouched
  <2> QED BY <2>1, <2>2
<1> QED BY <1>1, <1>6, <1>7, <1>8 DEF Base

\* jitTrampoline but for what it finds or makes: the types.
LEMMA PassingTypes ==
  ASSUME Base, NEW t \in All, Passing(t)
  PROVE  TypeOK'
<1>1. TypeOK /\ Own(t) /\ UNCHANGED <<bySh, made, freed, iface, fvs, page>>
  BY DEF Base, Passing, Lock, AllocFails, NothingCached, BuildJITModule, Link, MoveTail, Root,
         local, list, heap
<1>2. pc' \in [All -> Ways]
  BY <1>1 DEF Passing, Lock, AllocFails, BuildJITModule, Link, MoveTail, Root, Goto, TypeOK, Ways
<1>3. pc[t] \in Making => page[t] \in 1..Len(made) /\ page[t] \in 1..MaxPages
  <2>1. page[t] \in 0..Len(made) /\ Len(made) \in Nat /\ Len(made) <= MaxPages
    BY <1>1, Bounds DEF TypeOK
  <2> QED BY <1>1, <2>1, Bounds DEF Own, NoPage
<1>4. next' \in [0..MaxPages -> 1..MaxPages \cup {NoModule}] /\ tail' \in 0..MaxPages
  <2>1. CASE Link(t)
    BY <1>1, <1>3, <2>1 DEF Link, Making, TypeOK
  <2>2. CASE MoveTail(t)
    BY <1>1, <1>3, <2>2, Bounds DEF MoveTail, NewTail, Making, TypeOK
  <2>3. CASE ~Link(t) /\ ~MoveTail(t)
    BY <1>1, <2>3 DEF Passing, Lock, AllocFails, BuildJITModule, Root, TypeOK, list
  <2> QED BY <2>1, <2>2, <2>3
<1>5. roots' \subseteq Objects
  <2>1. CASE BuildJITModule(t) \/ Root(t)
    BY <1>1, <1>3, <2>1 DEF BuildJITModule, Root, Rooted, Making, TypeOK, Objects
  <2>2. CASE ~(BuildJITModule(t) \/ Root(t))
    BY <1>1, <2>2 DEF Passing, Lock, AllocFails, Link, MoveTail, TypeOK, heap
  <2> QED BY <2>1, <2>2
<1>6. mu' \in All \cup {NoOne}
  BY <1>1 DEF Passing, Lock, AllocFails, GiveUp, Unlock, BuildJITModule, Link, MoveTail, Root, TypeOK
<1>7. ASSUME NEW u \in All, pc'[u] \notin {"idle", "method", "panicked"} PROVE mu' = u
  <2>1. \A v \in All \ {t} : pc'[v] = pc[v]
    BY <1>1, OthersUntouched DEF Untouched
  <2>2. CASE Lock(t)
    BY <1>1, <1>7, <2>1, <2>2, Bounds DEF Lock, MayLock, Goto, TypeOK
  <2>3. CASE AllocFails(t)
    BY <1>1, <1>7, <2>1, <2>3 DEF AllocFails, Miss, Goto, TypeOK
  <2>4. CASE ~Lock(t) /\ ~AllocFails(t)
    BY <1>1, <1>7, <2>1, <2>4 DEF Passing, BuildJITModule, Link, MoveTail, Root, Goto, TypeOK
  <2> QED BY <2>2, <2>3, <2>4
<1>8. freed' \subseteq Objects'
  BY <1>1 DEF TypeOK, Objects
<1>9. Objects' = Objects
  BY <1>1 DEF Objects
<1> QED BY <1>1, <1>2, <1>4, <1>5, <1>6, <1>7, <1>8, <1>9 DEF TypeOK

\* jitTrampoline but for what it finds or makes keeps the rest.
LEMMA PassingBase ==
  ASSUME Base, NEW t \in All, Passing(t)
  PROVE  Base'
<1>1. TypeOK /\ TypeOK' /\ Own(t) /\ UNCHANGED <<bySh, made, iface, fvs, page>>
  BY PassingTypes
     DEF Base, Passing, Lock, AllocFails, NothingCached, BuildJITModule, Link, MoveTail, Root, local
<1>2. \A u \in All \ {t} : Untouched(u)
  BY <1>1, OthersUntouched
<1>3. Wanted(t)' = Wanted(t) /\ Index(t)' = Index(t)
  BY <1>1 DEF Wanted, Index, Method, Shape
<1>4. Own(t)'
  <2>1. CASE Lock(t)
    <3>1. pc[t] = "method" /\ pc'[t] = "lookup" /\ Index(t) < Len(iface[t]) /\ Method(t) # Wide
      BY <1>1, <2>1 DEF Lock, Building, Goto, TypeOK
    <3>2. Wanted(t) \in Shapes
      BY <1>1, <3>1, WantedFacts
    <3> QED BY <1>1, <1>3, <3>1, <3>2 DEF Own, Making, Inside
  <2>2. CASE AllocFails(t)
    BY <1>1, <1>3, <2>2 DEF AllocFails, Miss, Goto, TypeOK, Own, Making, Inside
  <2>3. CASE ~Lock(t) /\ ~AllocFails(t)
    <3>1. pc[t] \in Making /\ pc'[t] \in Making
      BY <1>1, <2>3 DEF Passing, BuildJITModule, Link, MoveTail, Root, Goto, TypeOK, Making
    <3> QED BY <1>1, <1>3, <3>1 DEF Own, Inside
  <2> QED BY <2>1, <2>2, <2>3
<1>5. \A u \in All : Own(u)'
  BY <1>1, <1>2, <1>4, OthersKeep
<1>6. Table' /\ Answers'
  BY <1>1 DEF Base, Table, Answers, Known, Shape
<1>7. pc[t] # "idle" /\ pc'[t] # "idle"
  BY <1>1 DEF Passing, Lock, Building, AllocFails, Miss, BuildJITModule, Link, MoveTail, Root, Goto, TypeOK
<1>8. Boot'
  BY <1>1, <1>2, <1>7, Bounds DEF Base, Boot, Ready, Untouched
<1> QED BY <1>1, <1>5, <1>6, <1>8 DEF Base

\* An answer from the table (the first return of jitTrampoline, and its last).
LEMMA AnswerFacts ==
  ASSUME TypeOK, NEW t \in All, NEW code \in 1..Len(made), Own(t), pc[t] \in Inside,
         Took(t, code), iface' = iface,
         \A sh \in DOMAIN bySh : sh \in DOMAIN bySh' /\ bySh'[sh] = bySh[sh],
         \A k \in DOMAIN fvs[t] : Known(Shape(k - 1, iface[t][k]), fvs[t][k]),
         Wanted(t) \in DOMAIN bySh', bySh'[Wanted(t)] = code
  PROVE  /\ fvs' \in [All -> Seq(1..Len(made))]
         /\ Len(fvs'[t]) <= Len(iface[t])
         /\ \A k \in DOMAIN fvs'[t] : Known(Shape(k - 1, iface[t][k]), fvs[t][k])'
<1>1. /\ fvs' \in [All -> Seq(1..Len(made))]
      /\ Len(fvs'[t]) = Len(fvs[t]) + 1 /\ DOMAIN fvs'[t] = 1..Len(fvs[t]) + 1
      /\ \A k \in DOMAIN fvs'[t] : fvs'[t][k] = IF k = Len(fvs[t]) + 1 THEN code ELSE fvs[t][k]
  BY TookFacts
<1>2. Len(fvs[t]) \in Nat /\ DOMAIN fvs[t] = 1..Len(fvs[t]) /\ Len(iface[t]) \in Nat
  BY LenProperties DEF TypeOK
<1>3. Index(t) < Len(iface[t])
  BY DEF Own
<1>4. ASSUME NEW k \in DOMAIN fvs'[t]
      PROVE  Known(Shape(k - 1, iface[t][k]), fvs[t][k])'
  <2>1. CASE k = Len(fvs[t]) + 1
    <3>1. fvs'[t][k] = code
      BY <1>1, <1>4, <2>1
    <3>4. k - 1 = Len(fvs[t])
      BY <1>2, <2>1
    <3>2. Shape(k - 1, iface[t][k]) = Wanted(t)
      BY <2>1, <3>4 DEF Wanted, Index, Method, Shape
    <3>3. Shape(k - 1, iface[t][k])' = Shape(k - 1, iface[t][k])
      BY DEF Shape
    <3> QED BY <3>1, <3>2, <3>3 DEF Known
  <2>2. CASE k # Len(fvs[t]) + 1
    <3>1. k \in DOMAIN fvs[t] /\ fvs'[t][k] = fvs[t][k]
      BY <1>1, <1>2, <1>4, <2>2
    <3> QED BY <3>1 DEF Known, Shape
  <2> QED BY <2>1, <2>2
<1> QED BY <1>1, <1>2, <1>3, <1>4 DEF Index

\* A shape the table has (jitTrampoline's first return).
LEMMA HitBase ==
  ASSUME Base, NEW t \in All, Hit(t)
  PROVE  Base'
<1>1. /\ TypeOK /\ Own(t) /\ UNCHANGED <<bySh, made, next, tail, roots, freed, iface, page>>
      /\ pc[t] = "lookup" /\ mu' = NoOne /\ Took(t, bySh[Wanted(t)]) /\ Goto(t, "method")
      /\ Wanted(t) \in DOMAIN bySh
  BY DEF Base, Hit, list, heap, local, Unlock
<1>2. \A u \in All \ {t} : Untouched(u)
  BY <1>1, OthersUntouched
<1>3. bySh[Wanted(t)] \in 1..Len(made)
  BY <1>1 DEF TypeOK
<1>4. /\ fvs' \in [All -> Seq(1..Len(made))] /\ Len(fvs'[t]) <= Len(iface[t])
      /\ \A k \in DOMAIN fvs'[t] : Known(Shape(k - 1, iface[t][k]), fvs[t][k])'
  <2>1. \A k \in DOMAIN fvs[t] : Known(Shape(k - 1, iface[t][k]), fvs[t][k])
    BY DEF Base, Answers
  <2> QED BY <1>1, <1>3, <2>1, AnswerFacts DEF Inside
<1>5. pc' \in [All -> Ways] /\ pc'[t] = "method"
  BY <1>1 DEF Goto, TypeOK, Ways
<1>6. \A u \in All : pc'[u] \in {"idle", "method", "panicked"}
  BY <1>1, <1>2, <1>5 DEF TypeOK, Untouched
<1>7. TypeOK'
  BY <1>1, <1>4, <1>5, <1>6 DEF TypeOK, Objects
<1>8. Own(t)'
  BY <1>1, <1>4, <1>5 DEF Own, Inside, Making
<1>9. (\A u \in All : Own(u)') /\ Answers'
  <2>1. \A u \in All \ {t} :
          /\ Own(u)'
          /\ \A k \in DOMAIN fvs'[u] : Known(Shape(k - 1, iface[u][k]), fvs[u][k])'
    BY <1>1, <1>2, OthersKeep
  <2> QED BY <1>4, <1>8, <2>1 DEF Answers
<1>10. Table'
  BY <1>1 DEF Base, Table
<1>11. Boot'
  <2>1. iface'[Main] = iface[Main] /\ pc[t] # "idle" /\ pc'[t] # "idle"
    BY <1>1, <1>5
  <2>2. t # Main => pc'[Main] = pc[Main] /\ fvs'[Main] = fvs[Main]
    BY <1>2, Bounds DEF Untouched
  <2>3. pc'[Main] = "idle" => Len(fvs'[Main]) = SlotCount
    BY <2>1, <2>2 DEF Base, Boot
  <2>4. \A u \in Threads : pc'[u] # "idle" => pc[u] # "idle"
    BY <1>2, <2>1, Bounds DEF Untouched
  <2>5. ASSUME NEW u \in Threads, pc'[u] # "idle" PROVE pc'[Main] = "idle"
    <3>1. pc[Main] = "idle"
      BY <2>4, <2>5 DEF Base, Boot, Ready
    <3> QED BY <2>1, <2>2, <3>1
  <2> QED BY <2>1, <2>3, <2>5 DEF Base, Boot, Ready
<1> QED BY <1>7, <1>9, <1>10, <1>11 DEF Base

\* The pages before a new one keep their shapes (jitExecAlloc).
LEMMA AllocFacts ==
  ASSUME Base, NEW t \in All, Alloc(t)
  PROVE  /\ made' \in Seq(Shapes) /\ Len(made') = Len(made) + 1 /\ Len(made') <= MaxPages
         /\ Len(made) \in Nat
         /\ \A p \in 1..Len(made) : made'[p] = made[p]
         /\ made'[Len(made')] = Wanted(t)
         /\ page'[t] = Len(made')
<1>1. TypeOK /\ Own(t) /\ pc[t] = "lookup" /\ Len(made) < MaxPages
  BY DEF Base, Alloc, Miss
<1>2. Wanted(t) \in Shapes /\ made' = Append(made, Wanted(t))
  BY <1>1 DEF Alloc, Own, Inside, Wanted, Shape
<1>3. made \in Seq(Shapes) /\ Len(made) \in Nat /\ page \in [All -> 0..Len(made)]
  BY <1>1 DEF TypeOK
<1>4. /\ made' \in Seq(Shapes) /\ Len(made') = Len(made) + 1
      /\ \A p \in 1..Len(made) : made'[p] = made[p]
      /\ made'[Len(made) + 1] = Wanted(t)
  BY <1>2, <1>3, AppendProperties
<1>5. page'[t] = Len(made) + 1
  BY <1>3 DEF Alloc
<1> QED BY <1>1, <1>3, <1>4, <1>5, Bounds

\* A new page (jitTrampoline: jitStubCode, jitExecAlloc).
LEMMA AllocBase ==
  ASSUME Base, NEW t \in All, Alloc(t)
  PROVE  Base'
<1>1. /\ TypeOK /\ Own(t) /\ pc[t] = "lookup" /\ Wanted(t) \notin DOMAIN bySh /\ mu = t
      /\ UNCHANGED <<mu, bySh, next, tail, roots, freed, iface, fvs>>
  BY DEF Base, Alloc, Miss, TypeOK, list, heap
<1>2. \A u \in All \ {t} : Untouched(u)
  BY <1>1, OthersUntouched
<1>3. /\ made' \in Seq(Shapes) /\ Len(made') = Len(made) + 1 /\ Len(made') <= MaxPages
      /\ Len(made) \in Nat /\ \A p \in 1..Len(made) : made'[p] = made[p]
      /\ made'[Len(made')] = Wanted(t) /\ page'[t] = Len(made')
  BY AllocFacts
<1>4. pc' \in [All -> Ways] /\ pc'[t] = "build"
  BY <1>1 DEF Alloc, Goto, TypeOK, Ways
<1>5. \A u \in All \ {t} : pc[u] \notin Inside /\ pc'[u] \notin Inside /\ page'[u] = NoPage
  BY <1>1, <1>2, Exclusion DEF Base, Own, Untouched, Inside
<1>6. fvs' \in [All -> Seq(1..Len(made'))]
  <2>1. Seq(1..Len(made)) \subseteq Seq(1..Len(made'))
    BY <1>3, SeqGrows
  <2> QED BY <1>1, <2>1 DEF TypeOK
<1>7. page' \in [All -> 0..Len(made')]
  <2>1. page \in [All -> 0..Len(made)] /\ page' = [page EXCEPT ![t] = Len(made) + 1]
    BY <1>1 DEF TypeOK, Alloc
  <2> QED BY <1>3, <2>1
<1>8. Objects \subseteq Objects'
  BY <1>3 DEF Objects
<1>9. \A u \in All : pc'[u] \notin {"idle", "method", "panicked"} => mu' = u
  BY <1>1, <1>2 DEF TypeOK, Untouched
<1>10. \A sh \in DOMAIN bySh : bySh[sh] \in 1..Len(made) /\ bySh[sh] \in 1..Len(made')
  BY <1>1, <1>3 DEF TypeOK
<1>11. TypeOK'
  BY <1>1, <1>3, <1>4, <1>6, <1>7, <1>8, <1>9, <1>10 DEF TypeOK
<1>12. Wanted(t)' = Wanted(t) /\ Index(t)' = Index(t)
  BY <1>1 DEF Wanted, Index, Method, Shape
<1>13. Own(t)'
  BY <1>1, <1>3, <1>4, <1>12 DEF Own, Inside, Making, NoPage
<1>14. ASSUME NEW u \in All \ {t} PROVE Own(u)'
  BY <1>1, <1>2, <1>5, <1>14 DEF Base, Own, Untouched, Inside
<1>15. Table'
  <2>1. ASSUME NEW sh \in DOMAIN bySh', NEW u \in All
        PROVE  made'[bySh'[sh]] = sh /\ page'[u] # bySh'[sh]
    <3>1. made[bySh[sh]] = sh /\ bySh[sh] \in 1..Len(made)
      BY <1>1, <1>10, <2>1 DEF Base, Table
    <3>2. made'[bySh[sh]] = sh
      BY <1>3, <3>1
    <3>3. page'[u] # bySh[sh]
      BY <1>3, <1>5, <3>1 DEF NoPage
    <3> QED BY <1>1, <3>2, <3>3
  <2> QED BY <2>1 DEF Table
<1>16. Answers'
  BY <1>1 DEF Base, Answers, Known, Shape
<1>17. Boot'
  BY <1>1, <1>2, <1>4, Bounds DEF Base, Boot, Ready, Untouched
<1> QED BY <1>11, <1>13, <1>14, <1>15, <1>16, <1>17 DEF Base

\* What the table is after a page was cached (jitTrampoline: jitBySh[sh] = ptr).
LEMMA CacheFacts ==
  ASSUME Base, NEW t \in All, Cache(t)
  PROVE  /\ DOMAIN bySh' = DOMAIN bySh \cup {Wanted(t)}
         /\ \A sh \in DOMAIN bySh : sh # Wanted(t) /\ bySh'[sh] = bySh[sh]
         /\ bySh'[Wanted(t)] = page[t]
         /\ page[t] = Len(made) /\ page[t] \in 1..Len(made) /\ made[page[t]] = Wanted(t)
         /\ Wanted(t) \in Shapes /\ Wanted(t) \notin DOMAIN bySh
         /\ page'[t] = NoPage /\ page' \in [All -> 0..Len(made)]
<1>1. /\ Own(t) /\ pc[t] = "cache" /\ page \in [All -> 0..Len(made)] /\ Len(made) \in Nat
      /\ bySh' = [sh \in DOMAIN bySh \cup {Wanted(t)} |->
                    IF sh = Wanted(t) THEN page[t] ELSE bySh[sh]]
      /\ page' = [page EXCEPT ![t] = NoPage]
  BY DEF Base, TypeOK, Cache
<1>2. /\ page[t] = Len(made) /\ page[t] # 0 /\ made[page[t]] = Wanted(t)
      /\ Wanted(t) \in Shapes /\ Wanted(t) \notin DOMAIN bySh
  BY <1>1 DEF Own, Inside, Making, NoPage
<1>3. page[t] \in 1..Len(made)
  BY <1>1, <1>2
<1>4. page'[t] = NoPage /\ page' \in [All -> 0..Len(made)]
  BY <1>1 DEF NoPage
<1> QED BY <1>1, <1>2, <1>3, <1>4

\* The last step of jitTrampoline.
LEMMA CacheBase ==
  ASSUME Base, NEW t \in All, Cache(t)
  PROVE  Base'
<1>1. /\ TypeOK /\ Own(t) /\ pc[t] = "cache" /\ mu' = NoOne /\ mu = t
      /\ UNCHANGED <<made, next, tail, roots, freed, iface>>
      /\ Took(t, page[t]) /\ Goto(t, "method")
  BY DEF Base, Cache, list, heap, Unlock, TypeOK
<1>2. \A u \in All \ {t} : Untouched(u)
  BY <1>1, OthersUntouched
<1>3. /\ DOMAIN bySh' = DOMAIN bySh \cup {Wanted(t)}
      /\ \A sh \in DOMAIN bySh : sh # Wanted(t) /\ bySh'[sh] = bySh[sh]
      /\ bySh'[Wanted(t)] = page[t]
      /\ page[t] \in 1..Len(made) /\ made[page[t]] = Wanted(t) /\ Wanted(t) \in Shapes
      /\ page'[t] = NoPage /\ page' \in [All -> 0..Len(made)]
  BY CacheFacts
<1>4. /\ fvs' \in [All -> Seq(1..Len(made))] /\ Len(fvs'[t]) <= Len(iface[t])
      /\ \A k \in DOMAIN fvs'[t] : Known(Shape(k - 1, iface[t][k]), fvs[t][k])'
  <2>1. \A k \in DOMAIN fvs[t] : Known(Shape(k - 1, iface[t][k]), fvs[t][k])
    BY DEF Base, Answers
  <2>2. \A sh \in DOMAIN bySh : sh \in DOMAIN bySh' /\ bySh'[sh] = bySh[sh]
    BY <1>3
  <2>3. Wanted(t) \in DOMAIN bySh' /\ pc[t] \in Inside
    BY <1>1, <1>3 DEF Inside, Making
  <2> QED BY <1>1, <1>3, <2>1, <2>2, <2>3, AnswerFacts
<1>5. pc' \in [All -> Ways] /\ pc'[t] = "method"
  BY <1>1 DEF Goto, TypeOK, Ways
<1>6. \A u \in All : pc'[u] \in {"idle", "method", "panicked"}
  BY <1>1, <1>2, <1>5 DEF TypeOK, Untouched
<1>7. DOMAIN bySh' \subseteq Shapes /\ \A sh \in DOMAIN bySh' : bySh'[sh] \in 1..Len(made)
  BY <1>1, <1>3 DEF TypeOK
<1>8. TypeOK'
  BY <1>1, <1>3, <1>4, <1>5, <1>6, <1>7 DEF TypeOK, Objects
<1>9. Own(t)'
  BY <1>1, <1>3, <1>4, <1>5 DEF Own, Inside, Making, Base
<1>10. ASSUME NEW u \in All \ {t}
       PROVE  /\ Own(u)' /\ page'[u] = NoPage
              /\ \A k \in DOMAIN fvs'[u] : Known(Shape(k - 1, iface[u][k]), fvs[u][k])'
  <2>1. Own(u) /\ \A k \in DOMAIN fvs[u] : Known(Shape(k - 1, iface[u][k]), fvs[u][k])
    BY DEF Base, Answers
  <2>2. Untouched(u) /\ pc'[u] \notin Inside /\ pc[u] \notin Inside
    BY <1>2, <1>6 DEF Inside, Making, Untouched
  <2>3. Own(u)' /\ page'[u] = NoPage
    BY <2>1, <2>2 DEF Own, Untouched, Inside
  <2>4. \A k \in DOMAIN fvs'[u] : Known(Shape(k - 1, iface[u][k]), fvs[u][k])'
    BY <1>3, <2>1, <2>2 DEF Known, Shape, Untouched
  <2> QED BY <2>3, <2>4
<1>11. Table'
  <2>1. \A u \in All : page'[u] = 0
    BY <1>3, <1>10 DEF NoPage
  <2>2. ASSUME NEW sh \in DOMAIN bySh' PROVE made'[bySh'[sh]] = sh
    BY <1>1, <1>3, <2>2 DEF Base, Table
  <2>3. \A sh \in DOMAIN bySh' : bySh'[sh] # 0
    BY <1>7
  <2> QED BY <2>1, <2>2, <2>3 DEF Table
<1>12. Answers'
  BY <1>4, <1>10 DEF Answers
<1>13. Boot'
  <2>1. iface'[Main] = iface[Main] /\ pc[t] # "idle" /\ pc'[t] # "idle"
    BY <1>1, <1>5
  <2>2. t # Main => pc'[Main] = pc[Main] /\ fvs'[Main] = fvs[Main]
    BY <1>2, Bounds DEF Untouched
  <2>3. pc'[Main] = "idle" => Len(fvs'[Main]) = SlotCount
    BY <2>1, <2>2 DEF Base, Boot
  <2>4. \A u \in Threads : pc'[u] # "idle" => pc[u] # "idle"
    BY <1>2, <2>1, Bounds DEF Untouched
  <2>5. ASSUME NEW u \in Threads, pc'[u] # "idle" PROVE pc'[Main] = "idle"
    <3>1. pc[Main] = "idle"
      BY <2>4, <2>5 DEF Base, Boot, Ready
    <3> QED BY <2>1, <2>2, <3>1
  <2> QED BY <2>1, <2>3, <2>5 DEF Base, Boot, Ready
<1> QED BY <1>8, <1>9, <1>10, <1>11, <1>12, <1>13 DEF Base

\* The collector and the stack scans touch nothing the table rests on.
LEMMA RuntimeBase ==
  ASSUME Base, Runtime \/ UNCHANGED vars
  PROVE  Base'
<1>1. /\ TypeOK
      /\ UNCHANGED <<mu, bySh, made, next, tail, roots, pc, iface, fvs, page>>
  BY DEF Base, Runtime, Collect, StartScan, Scan, vars, list, heap, local
<1>2. freed' \subseteq Objects
  BY <1>1 DEF Runtime, Collect, StartScan, Scan, vars, heap, TypeOK
<1>3. TypeOK'
  BY <1>1, <1>2 DEF TypeOK, Objects
<1>4. \A t \in All : Own(t)'
  BY <1>1 DEF Base, Own, Wanted, Index, Method, Shape
<1>5. Table' /\ Answers' /\ Boot'
  BY <1>1 DEF Base, Table, Answers, Known, Shape, Boot, Ready
<1> QED BY <1>3, <1>4, <1>5 DEF Base

\* Every step keeps the invariant.
LEMMA NextBase == Base /\ [Next]_vars => Base'
<1> SUFFICES ASSUME Base, [Next]_vars PROVE Base'
  OBVIOUS
<1>1. ASSUME NEW t \in All, Outside(t) PROVE Base'
  BY <1>1, OutsideBase
<1>2. ASSUME NEW t \in All, Passing(t) PROVE Base'
  BY <1>2, PassingBase
<1>3. ASSUME NEW t \in All, Hit(t) PROVE Base'
  BY <1>3, HitBase
<1>4. ASSUME NEW t \in All, Alloc(t) PROVE Base'
  BY <1>4, AllocBase
<1>5. ASSUME NEW t \in All, Cache(t) PROVE Base'
  BY <1>5, CacheBase
<1>6. CASE Runtime \/ UNCHANGED vars
  BY <1>6, RuntimeBase
<1> QED BY <1>1, <1>2, <1>3, <1>4, <1>5, <1>6, NextCases

\* The table and those who ask it, in every state that can be reached.
THEOREM BaseAlways == Spec => []Base
<1> QED BY InitBase, NextBase, PTL DEF Spec

\* Every variable of the registry has its type, and whoever is inside jitTrampoline
\* holds jitMu (jit.go 337-359).
THEOREM RegistryTypeCorrect == Spec => []TypeOK
<1>1. Base => TypeOK
  BY DEF Base
<1> QED BY <1>1, BaseAlways, PTL
-----------------------------------------------------------------------------
(* What a finished proxy rests on *)

\* The table only grows, and so do the pages (nothing ever deletes from jitBySh).
LEMMA TableGrows ==
  ASSUME Base, [Next]_vars
  PROVE  \A sh \in DOMAIN bySh : sh \in DOMAIN bySh' /\ bySh'[sh] = bySh[sh]
<1>1. ASSUME NEW t \in All, Outside(t) \/ Passing(t) \/ Hit(t) \/ Alloc(t)
      PROVE  bySh' = bySh
  BY <1>1 DEF Outside, NewOf, SlotCode, TooWide, Forge, Recover, Passing, Lock, AllocFails,
              NothingCached, BuildJITModule, Link, MoveTail, Root, Hit, Alloc
<1>2. ASSUME NEW t \in All, Cache(t)
      PROVE  \A sh \in DOMAIN bySh : sh \in DOMAIN bySh' /\ bySh'[sh] = bySh[sh]
  BY <1>2, CacheFacts
<1>3. CASE Runtime \/ UNCHANGED vars
  BY <1>3 DEF Runtime, Collect, StartScan, Scan, vars
<1> QED BY <1>1, <1>2, <1>3, NextCases

\* the codes of an itab are the table's, a code for each method
Slots ==
  \A it \in itabs :
    /\ Len(it[2]) = Len(it[1])
    /\ \A k \in DOMAIN it[2] : Known(Shape(k - 1, it[1][k]), it[2][k])

\* An itab keeps its codes, and a new one has those of the goroutine that forges it.
LEMMA NextSlots == Base /\ Slots /\ [Next]_vars => Slots'
<1> SUFFICES ASSUME Base, Slots, [Next]_vars PROVE Slots'
  OBVIOUS
<1>1. \A sh \in DOMAIN bySh : sh \in DOMAIN bySh' /\ bySh'[sh] = bySh[sh]
  BY TableGrows
<1>2. \A it \in itabs :
        /\ Len(it[2]) = Len(it[1])
        /\ \A k \in DOMAIN it[2] : Known(Shape(k - 1, it[1][k]), it[2][k])'
  BY <1>1 DEF Slots, Known, Shape
<1>3. ASSUME NEW t \in All, Forge(t), t # Main
      PROVE  /\ itabs' = itabs \cup {<<iface[t], fvs[t]>>} /\ Len(fvs[t]) = Len(iface[t])
             /\ \A k \in DOMAIN fvs[t] :
                  bySh'[Shape(k - 1, iface[t][k])] = fvs[t][k] /\ Shape(k - 1, iface[t][k]) \in DOMAIN bySh'
  BY <1>1, <1>3 DEF Forge, Index, Base, Answers, Known
<1>4. ASSUME NEW t \in All, Forge(t), t # Main
      PROVE  Slots'
  <2>1. PICK new : new = <<iface[t], fvs[t]>>
    OBVIOUS
  <2>2. new[1] = iface[t] /\ new[2] = fvs[t] /\ itabs' = itabs \cup {new}
    BY <1>3, <1>4, <2>1
  <2>3. /\ Len(fvs[t]) = Len(iface[t])
        /\ \A k \in DOMAIN fvs[t] :
             bySh'[Shape(k - 1, iface[t][k])] = fvs[t][k] /\ Shape(k - 1, iface[t][k]) \in DOMAIN bySh'
    BY <1>3, <1>4
  <2>4. /\ Len(new[2]) = Len(new[1])
        /\ \A k \in DOMAIN new[2] : Known(Shape(k - 1, new[1][k]), new[2][k])'
    BY <2>2, <2>3 DEF Known, Shape
  <2> QED BY <1>2, <2>2, <2>4 DEF Slots
<1>5. ASSUME ~\E t \in All : Forge(t) /\ t # Main PROVE Slots'
  <2>1. itabs' = itabs
    BY <1>5, NextCases
       DEF Outside, NewOf, SlotCode, TooWide, Forge, Recover, Passing, Lock, AllocFails,
           BuildJITModule, Link, MoveTail, Root, Hit, Alloc, Cache, local,
           Runtime, Collect, StartScan, Scan, vars
  <2> QED BY <1>2, <2>1 DEF Slots
<1> QED BY <1>4, <1>5

\* Slot k of every proxy ever finished dispatches method k and describes that method's
\* own stack area to the collector, whichever goroutine generated the code and however
\* many constructions, failures and collections came between (proxy.go NewOf, jit.go).
THEOREM SlotsAlwaysMatch == Spec => []SlotsMatch
<1>1. Init => Slots
  BY DEF Init, Slots
<1>2. Base /\ Slots => SlotsMatch
  <2> SUFFICES ASSUME Base, Slots, NEW it \in itabs
               PROVE  /\ Len(it[2]) = Len(it[1])
                      /\ \A k \in DOMAIN it[2] : made[it[2][k]] = Shape(k - 1, it[1][k])
    BY DEF SlotsMatch, Shape
  <2>1. \A sh, code : Known(sh, code) => made[code] = sh
    BY DEF Known, Base, Table
  <2> QED BY <2>1 DEF Slots
<1> QED BY <1>1, <1>2, NextSlots, BaseAlways, PTL DEF Spec
-----------------------------------------------------------------------------
(* The registry implements the table *)

\* The answers a goroutine holds are as many as its codes (NewOf: fvs).
LEMMA HeldFacts ==
  ASSUME TypeOK, NEW t \in All
  PROVE  /\ Held(t) \in Seq([index : Int, area : {iface[t][k] : k \in Nat}] \X Int)
         /\ Len(Held(t)) = Len(fvs[t])
<1>1. Len(fvs[t]) \in Nat /\ DOMAIN fvs[t] = 1..Len(fvs[t]) /\ fvs[t] \in Seq(1..Len(made))
  BY LenProperties DEF TypeOK
<1>2. Held(t) = [k \in 1..Len(fvs[t]) |-> <<[index |-> k - 1, area |-> iface[t][k]], fvs[t][k]>>]
  BY <1>1 DEF Held
<1>3. \A k \in 1..Len(fvs[t]) : k \in Nat /\ k - 1 \in Int /\ fvs[t][k] \in Int
  <2>1. \A k \in 1..Len(fvs[t]) : fvs[t][k] \in 1..Len(made)
    BY <1>1
  <2> QED BY <1>1, <2>1
<1> DEFINE Answer == [index : Int, area : {iface[t][k] : k \in Nat}] \X Int
<1>4. \A k \in 1..Len(fvs[t]) : <<[index |-> k - 1, area |-> iface[t][k]], fvs[t][k]>> \in Answer
  BY <1>3
<1> HIDE DEF Answer
<1>5. Held(t) \in [1..Len(fvs[t]) -> Answer]
  BY <1>2, <1>4
<1>6. Held(t) \in Seq(Answer) /\ Len(Held(t)) = Len(fvs[t])
  <2>1. ASSUME NEW n \in Nat, NEW f \in [1..n -> Answer] PROVE f \in Seq(Answer) /\ Len(f) = n
    OBVIOUS
  <2> QED BY <1>1, <1>5, <2>1
<1> QED BY <1>6 DEF Answer

\* A code appended to a goroutine's is an answer appended to those it holds.
LEMMA GiveFacts ==
  ASSUME TypeOK, TypeOK', NEW t \in All, NEW code \in 1..Len(made), Took(t, code),
         iface' = iface, Wanted(t) \in Shapes
  PROVE  Held(t)' = Append(Held(t), <<Wanted(t), code>>)
<1> DEFINE Answer == [index : Int, area : {iface[t][k] : k \in Nat}] \X Int
           n == Len(fvs[t])
<1>1. Held(t) \in Seq(Answer) /\ Len(Held(t)) = n /\ n \in Nat
  BY HeldFacts, LenProperties DEF TypeOK
<1>2. /\ Len(fvs'[t]) = n + 1 /\ DOMAIN fvs'[t] = 1..n + 1
      /\ \A k \in DOMAIN fvs'[t] : fvs'[t][k] = IF k = n + 1 THEN code ELSE fvs[t][k]
  BY TookFacts
<1>3. Wanted(t) = [index |-> n, area |-> iface[t][n + 1]]
  BY DEF Wanted, Shape, Index, Method
<1>4. Len(made) \in Nat /\ DOMAIN fvs[t] = 1..n
  BY LenProperties DEF TypeOK
<1>5. <<Wanted(t), code>> \in Answer
  <2>1. n \in Int /\ n + 1 \in Nat /\ code \in Int
    BY <1>1, <1>4
  <2> HIDE DEF n
  <2> QED BY <1>3, <2>1
<1> HIDE DEF Answer
<1>6. /\ Append(Held(t), <<Wanted(t), code>>) \in Seq(Answer)
      /\ Len(Append(Held(t), <<Wanted(t), code>>)) = n + 1
      /\ \A k \in 1..n : Append(Held(t), <<Wanted(t), code>>)[k] = Held(t)[k]
      /\ Append(Held(t), <<Wanted(t), code>>)[n + 1] = <<Wanted(t), code>>
  <2> DEFINE q == Held(t)
             a == <<Wanted(t), code>>
  <2>1. q \in Seq(Answer) /\ Len(q) = n /\ a \in Answer
    BY <1>1, <1>5
  <2> HIDE DEF q, a
  <2>2. /\ Append(q, a) \in Seq(Answer) /\ Len(Append(q, a)) = n + 1
        /\ \A k \in 1..n : Append(q, a)[k] = q[k]
        /\ Append(q, a)[n + 1] = a
    BY <2>1, AppendProperties
  <2> QED BY <2>2 DEF q, a
<1>7. Held(t)' = [k \in 1..n + 1 |-> <<[index |-> k - 1, area |-> iface[t][k]], fvs'[t][k]>>]
  BY <1>2 DEF Held
<1>8. \A k \in 1..n : Held(t)[k] = <<[index |-> k - 1, area |-> iface[t][k]], fvs[t][k]>>
  BY <1>4 DEF Held
<1> HIDE DEF n
<1>9. \A k \in 1..n + 1 : Append(Held(t), <<Wanted(t), code>>)[k] = (Held(t)')[k]
  <2> TAKE k \in 1..n + 1
  <2>1. CASE k = n + 1
    <3>1. fvs'[t][k] = code /\ k - 1 = n
      BY <1>1, <1>2, <2>1
    <3> QED BY <1>3, <1>6, <1>7, <2>1, <3>1
  <2>2. CASE k # n + 1
    <3>1. k \in 1..n /\ fvs'[t][k] = fvs[t][k]
      BY <1>1, <1>2, <2>2
    <3> QED BY <1>6, <1>7, <1>8, <3>1
  <2> QED BY <2>1, <2>2
<1>10. Append(Held(t), <<Wanted(t), code>>) = [k \in 1..n + 1 |-> Append(Held(t), <<Wanted(t), code>>)[k]]
  <2>1. DOMAIN Append(Held(t), <<Wanted(t), code>>) = 1..n + 1
    BY <1>6, LenProperties
  <2> QED BY <1>1, <1>6, <2>1
<1> QED BY <1>7, <1>9, <1>10

Holding == [t \in All |-> Held(t)]

\* An answer appended is one the abstract table gives.
LEMMA GiveMaps ==
  ASSUME TypeOK, TypeOK', NEW t \in All, NEW code \in 1..Len(made), Took(t, code),
         iface' = iface, Wanted(t) \in Shapes
  PROVE  Holding' = [Holding EXCEPT ![t] = Append(@, <<Wanted(t), code>>)]
<1>1. Held(t)' = Append(Held(t), <<Wanted(t), code>>)
  BY GiveFacts
<1>2. \A u \in All \ {t} : fvs'[u] = fvs[u]
  BY DEF Took, TypeOK
<1>3. \A u \in All \ {t} : Held(u)' = Held(u)
  BY <1>2 DEF Held
<1> QED BY <1>1, <1>3 DEF Holding

\* Every step of the registry is one of the table, or none.
LEMMA NextImplements ==
  ASSUME Base, [Next]_vars
  PROVE  [Memo!Next]_<<bySh, Holding>>
<1> USE DEF Holding
<1>0. TypeOK /\ TypeOK'
  BY NextBase DEF Base
<1>1. ASSUME NEW t \in All, NewOf(t) PROVE Memo!Next
  <2>1. bySh' = bySh /\ \A u \in All \ {t} : fvs'[u] = fvs[u] /\ iface'[u] = iface[u]
    BY <1>0, <1>1 DEF NewOf, TypeOK
  <2>2. fvs'[t] = <<>>
    BY <1>0, <1>1 DEF NewOf, TypeOK
  <2>3. Held(t)' = <<>>
    BY <2>2 DEF Held
  <2>4. \A u \in All \ {t} : Held(u)' = Held(u)
    BY <2>1 DEF Held
  <2>5. Holding' = [Holding EXCEPT ![t] = <<>>]
    BY <2>3, <2>4
  <2> QED BY <2>1, <2>5 DEF Memo!Next, Memo!Drop
<1>2. ASSUME NEW t \in All, SlotCode(t), Index(t) < SlotCount PROVE Memo!Next
  <2> DEFINE code == fvs[Main][Index(t) + 1]
  <2>1. /\ Took(t, code) /\ t \in Threads /\ pc[t] = "method" /\ Method(t) = Plain
        /\ Index(t) < Len(iface[t]) /\ iface' = iface /\ bySh' = bySh
    BY <1>2 DEF SlotCode, Building, All, local
  <2>2. code \in 1..Len(made) /\ Known(Wanted(t), code)
    BY <1>2, <2>1, StubFacts DEF Wanted
  <2>3. Wanted(t) \in Shapes
    BY <1>0, <2>2 DEF TypeOK, Known
  <2> HIDE DEF code
  <2>4. Holding' = [Holding EXCEPT ![t] = Append(@, <<Wanted(t), code>>)]
    BY <1>0, <2>1, <2>2, <2>3, GiveMaps
  <2>5. Memo!Hit(t, Wanted(t))
    BY <2>1, <2>2, <2>4 DEF Memo!Hit, Memo!Give, Known
  <2> QED BY <2>3, <2>5 DEF Memo!Next
<1>3. ASSUME NEW t \in All, Hit(t) PROVE Memo!Next
  <2>1. /\ Took(t, bySh[Wanted(t)]) /\ Wanted(t) \in DOMAIN bySh /\ iface' = iface /\ bySh' = bySh
    BY <1>3 DEF Hit, local
  <2>2. Wanted(t) \in Shapes /\ bySh[Wanted(t)] \in 1..Len(made)
    BY <1>0, <2>1 DEF TypeOK
  <2>3. Holding' = [Holding EXCEPT ![t] = Append(@, <<Wanted(t), bySh[Wanted(t)]>>)]
    BY <1>0, <2>1, <2>2, GiveMaps
  <2>4. Memo!Hit(t, Wanted(t))
    BY <2>1, <2>3 DEF Memo!Hit, Memo!Give
  <2> QED BY <2>2, <2>4 DEF Memo!Next
<1>4. ASSUME NEW t \in All, Cache(t) PROVE Memo!Next
  <2>1. /\ page[t] \in 1..Len(made) /\ Wanted(t) \in Shapes /\ Wanted(t) \notin DOMAIN bySh
    BY <1>4, CacheFacts
  <2>2. /\ Took(t, page[t]) /\ iface' = iface
        /\ bySh' = [s \in DOMAIN bySh \cup {Wanted(t)} |-> IF s = Wanted(t) THEN page[t] ELSE bySh[s]]
    BY <1>4 DEF Cache
  <2>3. page[t] \in 1..MaxPages
    BY <1>0, <2>1, LenProperties, Bounds DEF TypeOK
  <2>4. \A s \in DOMAIN bySh : bySh[s] # page[t]
    BY DEF Base, Table
  <2>5. Holding' = [Holding EXCEPT ![t] = Append(@, <<Wanted(t), page[t]>>)]
    BY <1>0, <2>1, <2>2, GiveMaps
  <2>6. Memo!Make(t, Wanted(t))
    BY <2>1, <2>2, <2>3, <2>4, <2>5 DEF Memo!Make, Memo!Give
  <2> QED BY <2>1, <2>6 DEF Memo!Next
<1>5. ASSUME UNCHANGED <<bySh, iface, fvs>> PROVE UNCHANGED <<bySh, Holding>>
  BY <1>5 DEF Held
<1>6. ASSUME NEW t \in All, Outside(t) \/ Passing(t) \/ Alloc(t), ~NewOf(t),
             ~(SlotCode(t) /\ Index(t) < SlotCount)
      PROVE  UNCHANGED <<bySh, iface, fvs>>
  BY <1>6 DEF Outside, SlotCode, TooWide, Forge, Recover, Passing, Lock, AllocFails,
              NothingCached, BuildJITModule, Link, MoveTail, Root, Alloc, local
<1>7. CASE Runtime \/ UNCHANGED vars
  BY <1>5, <1>7 DEF Runtime, Collect, StartScan, Scan, vars, local
<1> QED BY <1>1, <1>2, <1>3, <1>4, <1>5, <1>6, <1>7, NextCases DEF Outside

\* Goroutines that build proxies at once get what a table that answers each request in
\* one step would give them (jit.go jitTrampoline, proxy.go NewOf).
THEOREM RegistryImplementsMemoTable == Spec => ImplementsMemoTable
<1>1. Init => Memo!Init
  <2> SUFFICES ASSUME Init PROVE bySh = <<>> /\ [t \in All |-> Held(t)] = [t \in All |-> <<>>]
    BY DEF Memo!Init
  <2>1. \A t \in All : Held(t) = <<>>
    BY DEF Init, Held
  <2> QED BY <2>1 DEF Init
<1>2. Base /\ [Next]_vars => [Memo!Next]_<<bySh, [t \in All |-> Held(t)]>>
  BY NextImplements DEF Holding
<1> QED BY <1>1, <1>2, BaseAlways, PTL DEF Spec, ImplementsMemoTable, Memo!Spec
-----------------------------------------------------------------------------
(* The list of modules and those who walk it *)

At(ways) == \E t \in All : pc[t] \in ways

\* the modules that are on the list
Linked == IF At({"build", "link"}) THEN Len(made) - 1 ELSE Len(made)

\* the list has the modules in the order they were made; its tail is the last one,
\* but between the two assignments of registerModule
List ==
  /\ \A m \in 0..MaxPages : next[m] = IF m < Linked THEN m + 1 ELSE NoModule
  /\ tail = IF At({"tail"}) THEN Linked - 1 ELSE Linked

\* what a module needs is rooted or on the stack of the goroutine that makes it
Alive ==
  /\ freed = {}
  /\ \A p \in 1..Len(made) : \A kind \in {"tables", "module"} :
       <<kind, p>> \in roots \/ OnStack(kind, p)

\* a scan looks for a module that is on the list, and has not passed it
Ahead ==
  \/ scan = Idle
  \/ \E p \in 1..Linked : \E m \in 0..p - 1 : scan = <<p, m>>

Walkable == List /\ Alive /\ Ahead

\* Whoever is inside jitTrampoline is alone there.
LEMMA AtFacts ==
  ASSUME TypeOK, NEW t \in All, pc[t] \in Inside,
         NEW ways \in SUBSET Inside
  PROVE  At(ways) <=> pc[t] \in ways
  BY Exclusion DEF At

\* Steps that neither make nor link a page, nor root one.
Quiet(t) == Outside(t) \/ Lock(t) \/ Hit(t) \/ AllocFails(t) \/ Cache(t)

\* Such a step leaves the list and what it holds alone.
LEMMA QuietWalkable ==
  ASSUME Base, Walkable, NEW t \in All, Quiet(t)
  PROVE  Walkable'
<1> DEFINE Busy == {"build", "link", "tail", "root"}
<1>1. TypeOK /\ UNCHANGED <<made, next, tail, roots, freed, scan>>
  BY DEF Base, Quiet, Outside, NewOf, SlotCode, TooWide, Forge, Recover, Lock, Hit, AllocFails, Cache,
         list, heap, local
<1>2. \A u \in All \ {t} : Untouched(u)
  BY <1>1, OthersUntouched DEF Quiet, Passing
<1>3. pc[t] \notin Busy /\ pc'[t] \notin Busy
  <2>1. pc[t] \notin Busy
    BY DEF Quiet, Outside, NewOf, SlotCode, TooWide, Forge, Recover, Lock, Hit, AllocFails, Miss, Cache,
           Building
  <2>2. pc'[t] \notin Busy
    BY <1>1, <2>1 DEF Quiet, Outside, NewOf, SlotCode, TooWide, Forge, Recover, Lock, Hit, AllocFails,
                  Cache, Goto, TypeOK
  <2> QED BY <2>1, <2>2
<1>4. \A ways \in SUBSET Busy : At(ways)' <=> At(ways)
  BY <1>2, <1>3 DEF At, Untouched
<1>5. Linked' = Linked
  BY <1>1, <1>4 DEF Linked
<1>6. List'
  BY <1>1, <1>4, <1>5 DEF Walkable, List
<1>7. Alive'
  <2>1. \A kind, p : OnStack(kind, p) => OnStack(kind, p)'
    BY <1>2, <1>3 DEF OnStack, Untouched
  <2> QED BY <1>1, <2>1 DEF Walkable, Alive
<1>8. Ahead'
  BY <1>1, <1>5 DEF Walkable, Ahead
<1> QED BY <1>6, <1>7, <1>8 DEF Walkable

\* A new page: its module is on nobody's list yet, and on the stack of its maker.
LEMMA AllocWalkable ==
  ASSUME Base, Walkable, NEW t \in All, Alloc(t)
  PROVE  Walkable'
<1>1. /\ TypeOK /\ pc[t] = "lookup" /\ page[t] = NoPage
      /\ UNCHANGED <<next, tail, roots, freed, scan>>
  BY DEF Base, Own, Making, Alloc, Miss, list, heap
<1>2. pc'[t] = "build" /\ \A u \in All \ {t} : Untouched(u)
  BY <1>1, OthersUntouched DEF Alloc, Goto, TypeOK
<1>3. Len(made') = Len(made) + 1 /\ Len(made) \in Nat /\ page'[t] = Len(made')
  BY AllocFacts
<1>4. \A u \in All : pc[u] \in Inside => u = t
  BY <1>1, Exclusion DEF Inside
<1>5. ~At({"build", "link"}) /\ ~At({"tail"})
  BY <1>1, <1>4 DEF At, Inside, Making
<1>6. At({"build", "link"})' /\ ~At({"tail"})'
  BY <1>2, <1>5 DEF At, Untouched
<1>7. Linked' = Linked
  BY <1>3, <1>5, <1>6 DEF Linked
<1>8. List'
  BY <1>1, <1>5, <1>6, <1>7 DEF Walkable, List
<1>9. Ahead'
  BY <1>1, <1>7 DEF Walkable, Ahead
<1>10. Alive'
  <2>1. ASSUME NEW p \in 1..Len(made'), NEW kind \in {"tables", "module"}
        PROVE  <<kind, p>> \in roots' \/ OnStack(kind, p)'
    <3>1. CASE p = Len(made')
      BY <1>2, <1>3, <3>1 DEF OnStack
    <3>2. CASE p # Len(made')
      <4>1. p \in 1..Len(made)
        BY <1>3, <2>1, <3>2
      <4>2. ~OnStack(kind, p)
        BY <1>1, <1>4 DEF OnStack, Inside, Making
      <4> QED BY <1>1, <4>1, <4>2 DEF Walkable, Alive
    <3> QED BY <3>1, <3>2
  <2> QED BY <1>1, <2>1 DEF Walkable, Alive
<1> QED BY <1>8, <1>9, <1>10 DEF Walkable

\* What the goroutine that makes a page knows of it.
LEMMA MakerFacts ==
  ASSUME Base, NEW t \in All, pc[t] \in Making
  PROVE  /\ page[t] = Len(made) /\ Len(made) \in 1..MaxPages
         /\ \A u \in All : pc[u] \in Inside => u = t
<1>1. TypeOK /\ page[t] = Len(made) /\ page[t] # 0
  BY DEF Base, Own, NoPage
<1>2. Len(made) \in Nat /\ Len(made) <= MaxPages
  BY <1>1, LenProperties DEF TypeOK
<1>3. Len(made) \in 1..MaxPages
  BY <1>1, <1>2, Bounds
<1> QED BY <1>1, <1>3, Exclusion DEF Inside

\* Rooting what a page needs, as the goroutine lets go of it.
LEMMA RootWalkable ==
  ASSUME Base, Walkable, NEW t \in All, BuildJITModule(t) \/ Root(t)
  PROVE  Walkable'
<1>1. /\ TypeOK /\ pc[t] \in Making /\ UNCHANGED <<made, next, tail, freed, scan, page>>
  BY DEF Base, BuildJITModule, Root, list, local, Making
<1>2. \A u \in All \ {t} : Untouched(u)
  BY <1>1, OthersUntouched DEF Passing
<1>3. page[t] = Len(made) /\ \A u \in All : pc[u] \in Inside => u = t
  BY <1>1, MakerFacts
<1>4. \/ pc[t] = "build" /\ pc'[t] = "link" /\ roots' = roots \cup {<<"tables", page[t]>>}
      \/ pc[t] = "root" /\ pc'[t] = "cache" /\ roots' = roots \cup {<<"module", page[t]>>}
  BY <1>1 DEF BuildJITModule, Root, Rooted, Goto, TypeOK
<1>5. (At({"build", "link"})' <=> At({"build", "link"})) /\ (At({"tail"})' <=> At({"tail"}))
  BY <1>2, <1>4 DEF At, Untouched
<1>6. Linked' = Linked
  BY <1>1, <1>5 DEF Linked
<1>7. List' /\ Ahead'
  BY <1>1, <1>5, <1>6 DEF Walkable, List, Ahead
<1>8. Alive'
  <2>1. ASSUME NEW p \in 1..Len(made), NEW kind \in {"tables", "module"},
               <<kind, p>> \notin roots'
        PROVE  OnStack(kind, p)'
    <3>1. <<kind, p>> \notin roots
      BY <1>4, <2>1
    <3>2. PICK u \in All : /\ page[u] = p
                           /\ pc[u] \in IF kind = "tables" THEN {"build"}
                                        ELSE {"build", "link", "tail", "root"}
      BY <3>1 DEF Walkable, Alive, OnStack
    <3>3. u = t
      BY <1>3, <3>2 DEF Inside, Making
    <3>4. kind = "module" /\ pc'[t] = "link"
      BY <1>4, <2>1, <3>2, <3>3
    <3> QED BY <1>1, <3>2, <3>3, <3>4 DEF OnStack
  <2> QED BY <1>1, <2>1 DEF Walkable, Alive
<1> QED BY <1>7, <1>8 DEF Walkable

\* Both assignments of registerModule: a walk of the list sees it without the new
\* module or with it.
LEMMA LinkWalkable ==
  ASSUME Base, Walkable, NEW t \in All, Link(t) \/ MoveTail(t)
  PROVE  Walkable'
<1>1. /\ TypeOK /\ pc[t] \in {"link", "tail"} /\ UNCHANGED <<made, roots, freed, scan, page>>
      /\ pc[t] \in Making
  BY DEF Base, Link, MoveTail, heap, local, Making
<1>2. \A u \in All \ {t} : Untouched(u)
  BY <1>1, OthersUntouched DEF Passing
<1>3. page[t] = Len(made) /\ Len(made) \in 1..MaxPages /\ \A u \in All : pc[u] \in Inside => u = t
  BY <1>1, MakerFacts
<1>4. \/ pc[t] = "link" /\ pc'[t] = "tail" /\ next' = [next EXCEPT ![tail] = page[t]] /\ tail' = tail
      \/ pc[t] = "tail" /\ pc'[t] = "root" /\ next' = next /\ tail' = page[t]
  BY <1>1 DEF Link, MoveTail, NewTail, Goto, TypeOK
<1>5. \A ways \in SUBSET Inside : (At(ways) <=> pc[t] \in ways) /\ (At(ways)' <=> pc'[t] \in ways)
  BY <1>2, <1>3 DEF At, Untouched
<1>6. /\ At({"build", "link"}) <=> pc[t] = "link"
      /\ At({"tail"}) <=> pc[t] = "tail"
      /\ ~At({"build", "link"})'
      /\ At({"tail"})' <=> pc[t] = "link"
  BY <1>4, <1>5 DEF Inside, Making
<1>7. Linked' = Len(made) /\ Linked = IF pc[t] = "link" THEN Len(made) - 1 ELSE Len(made)
  BY <1>1, <1>6 DEF Linked
<1>8. List'
  <2>1. CASE pc[t] = "link"
    <3>1. tail = Len(made) - 1 /\ tail \in 0..MaxPages /\ next \in [0..MaxPages -> 1..MaxPages \cup {NoModule}]
      BY <1>1, <1>6, <1>7, <2>1 DEF Walkable, List, TypeOK
    <3>2. next' = [next EXCEPT ![tail] = Len(made)] /\ tail' = Linked' - 1
      BY <1>3, <1>4, <1>7, <2>1, <3>1
    <3>3. \A m \in 0..MaxPages : next[m] = IF m < Len(made) - 1 THEN m + 1 ELSE NoModule
      BY <1>7, <2>1 DEF Walkable, List
    <3>4. ASSUME NEW m \in 0..MaxPages PROVE next'[m] = IF m < Len(made) THEN m + 1 ELSE NoModule
      <4>1. CASE m = tail
        <5>1. next'[m] = Len(made)
          BY <3>1, <3>2, <4>1
        <5>2. m + 1 = Len(made) /\ m < Len(made)
          BY <1>3, <3>1, <4>1
        <5> QED BY <5>1, <5>2
      <4>2. CASE m # tail
        <5>1. next'[m] = next[m]
          BY <3>1, <3>2, <4>2
        <5>2. m < Len(made) - 1 <=> m < Len(made)
          BY <1>3, <3>1, <4>2
        <5> QED BY <3>3, <5>1, <5>2
      <4> QED BY <4>1, <4>2
    <3> QED BY <1>6, <1>7, <2>1, <3>2, <3>4 DEF List
  <2>2. CASE pc[t] = "tail"
    BY <1>3, <1>4, <1>6, <1>7, <2>2 DEF Walkable, List
  <2> QED BY <1>1, <2>1, <2>2
<1>9. Ahead'
  BY <1>1, <1>3, <1>7 DEF Walkable, Ahead
<1>10. Alive'
  <2>1. ASSUME NEW p \in 1..Len(made), NEW kind \in {"tables", "module"},
               <<kind, p>> \notin roots
        PROVE  OnStack(kind, p)'
    <3>1. PICK u \in All : /\ page[u] = p
                           /\ pc[u] \in IF kind = "tables" THEN {"build"}
                                        ELSE {"build", "link", "tail", "root"}
      BY <2>1 DEF Walkable, Alive, OnStack
    <3>2. u = t
      BY <1>3, <3>1 DEF Inside, Making
    <3>3. kind = "module" /\ pc'[t] \in {"tail", "root"}
      BY <1>4, <2>1, <3>1, <3>2
    <3> QED BY <1>1, <3>1, <3>2, <3>3 DEF OnStack
  <2> QED BY <1>1, <2>1 DEF Walkable, Alive
<1> QED BY <1>8, <1>9, <1>10 DEF Walkable

\* A page that can be running is on the list: its constructor was handed the code
\* only after registerModule.
LEMMA CallableLinked ==
  ASSUME Base, Slots, NEW p \in Callable
  PROVE  p \in 1..Linked
<1>1. PICK it \in itabs : \E k \in DOMAIN it[2] : it[2][k] = p
  BY DEF Callable
<1>2. PICK sh : Known(sh, p)
  BY <1>1 DEF Slots
<1>3. p \in 1..Len(made) /\ \A t \in All : page[t] # p
  BY <1>2 DEF Known, Base, TypeOK, Table
<1>4. At({"build", "link"}) => p # Len(made)
  BY <1>3, MakerFacts DEF At, Making
<1>5. Len(made) \in Nat
  BY LenProperties DEF Base, TypeOK
<1> QED BY <1>3, <1>4, <1>5 DEF Linked

\* The collector frees nothing, and a scan goes on to the next module of the list.
LEMMA RuntimeWalkable ==
  ASSUME Base, Slots, Walkable, Runtime \/ UNCHANGED vars
  PROVE  Walkable'
<1>1. /\ TypeOK /\ UNCHANGED <<made, next, tail, roots, pc, page>>
  BY DEF Base, Runtime, Collect, StartScan, Scan, vars, list, heap, local
<1>2. Linked' = Linked /\ List'
  BY <1>1 DEF Linked, List, At, Walkable
<1>3. freed' = freed
  <2>1. ASSUME NEW o \in Objects PROVE o \in roots \/ OnStack(o[1], o[2])
    <3>1. o \in {"tables", "module"} \X (1..Len(made))
      BY DEF Objects
    <3>2. o[1] \in {"tables", "module"} /\ o[2] \in 1..Len(made) /\ o = <<o[1], o[2]>>
      BY <3>1
    <3>3. <<o[1], o[2]>> \in roots \/ OnStack(o[1], o[2])
      BY <3>2 DEF Walkable, Alive
    <3> QED BY <3>2, <3>3
  <2>2. CASE Collect
    BY <2>1, <2>2 DEF Collect
  <2>3. CASE ~Collect
    BY <2>3 DEF Runtime, StartScan, Scan, vars, heap
  <2> QED BY <2>2, <2>3
<1>4. Alive'
  BY <1>1, <1>3 DEF Walkable, Alive, OnStack
<1>5. Ahead'
  <2>1. CASE StartScan
    <3>1. PICK p \in Callable : scan' = <<p, 0>>
      BY <2>1 DEF StartScan
    <3>2. p \in 1..Linked
      BY CallableLinked
    <3>3. Linked \in Int
      BY <1>1, LenProperties DEF TypeOK, Linked
    <3>4. 0 \in 0..p - 1
      BY <3>2, <3>3
    <3> QED BY <1>2, <3>1, <3>2, <3>4 DEF Ahead
  <2>2. CASE Scan
    <3>1. PICK p \in 1..Linked : \E m \in 0..p - 1 : scan = <<p, m>>
      BY <2>2 DEF Scan, Walkable, Ahead
    <3> PICK m \in 0..p - 1 : scan = <<p, m>>
      BY <3>1
    <3>2. Linked \in Int /\ Linked <= MaxPages
      BY <1>1, LenProperties, Bounds DEF TypeOK, Linked
    <3>3. m \in 0..MaxPages /\ m < Linked /\ m + 1 \in 1..p
      BY <3>2, Bounds
    <3>4. next[m] = m + 1
      BY <3>3 DEF Walkable, List
    <3>5. scan' = IF m + 1 = p THEN Idle ELSE <<p, m + 1>>
      BY <2>2, <3>1, <3>4 DEF Scan
    <3>6. m + 1 # p => m + 1 \in 0..p - 1
      BY <3>2, <3>3
    <3> QED BY <1>2, <3>5, <3>6 DEF Ahead
  <2>3. CASE ~StartScan /\ ~Scan
    BY <1>2, <2>3 DEF Runtime, Collect, vars, local, Walkable, Ahead
  <2> QED BY <2>1, <2>2, <2>3
<1> QED BY <1>2, <1>4, <1>5 DEF Walkable

\* At first the list has the program's own module alone.
LEMMA InitWalkable == Init => Walkable
<1> SUFFICES ASSUME Init PROVE Walkable
  OBVIOUS
<1>1. Len(made) = 0 /\ ~At({"build", "link"}) /\ ~At({"tail"})
  BY DEF Init, At
<1>2. Linked = 0
  BY <1>1 DEF Linked
<1> QED BY <1>1, <1>2, Bounds DEF Init, Walkable, List, Alive, Ahead

\* Every step keeps the list in one piece.
LEMMA NextWalkable == Base /\ Slots /\ Walkable /\ [Next]_vars => Walkable'
<1> SUFFICES ASSUME Base, Slots, Walkable, [Next]_vars PROVE Walkable'
  OBVIOUS
<1>1. ASSUME NEW t \in All, Quiet(t) PROVE Walkable'
  BY <1>1, QuietWalkable
<1>2. ASSUME NEW t \in All, Alloc(t) PROVE Walkable'
  BY <1>2, AllocWalkable
<1>3. ASSUME NEW t \in All, BuildJITModule(t) \/ Root(t) PROVE Walkable'
  BY <1>3, RootWalkable
<1>4. ASSUME NEW t \in All, Link(t) \/ MoveTail(t) PROVE Walkable'
  BY <1>4, LinkWalkable
<1>5. CASE Runtime \/ UNCHANGED vars
  BY <1>5, RuntimeWalkable
<1> QED BY <1>1, <1>2, <1>3, <1>4, <1>5, NextCases DEF Quiet, Passing

\* A stack scan that runs while goroutines append to the runtime's list finds the module
\* of every page that can be running, and no module or table it comes to was freed
\* (jit_go1*.go registerModule, jit.go jitRoots).
THEOREM ScanAlwaysSafe == Spec => []ScanIsSafe
<1>1. Base /\ Walkable => ScanIsSafe
  <2> SUFFICES ASSUME Base, Walkable, scan # Idle
               PROVE  scan[2] # NoModule /\ freed = {}
    BY DEF ScanIsSafe
  <2>1. PICK p \in 1..Linked : \E m \in 0..p - 1 : scan = <<p, m>>
    BY DEF Walkable, Ahead
  <2> QED BY <2>1 DEF Walkable, Alive, NoModule
<1>2. Init => Slots
  BY DEF Init, Slots
<1> QED BY <1>1, <1>2, InitWalkable, NextSlots, NextWalkable, BaseAlways, PTL DEF Spec

-----------------------------------------------------------------------------
(* The walk itself *)

\* A walk of MaxPages steps from module m is the one function its steps define.
LEMMA WalkIs ==
  ASSUME NEW m, NEW f,
         f = [k \in 0..MaxPages |-> IF k = 0 THEN m
                        ELSE IF f[k - 1] = NoModule THEN NoModule ELSE next[f[k - 1]]]
  PROVE  Walk(m, MaxPages) = {f[k] : k \in 0..MaxPages} \ {NoModule}
<1> DEFINE F(g) == [k \in 0..MaxPages |-> IF k = 0 THEN m
                        ELSE IF g[k - 1] = NoModule THEN NoModule ELSE next[g[k - 1]]]
<1>1. ASSUME NEW g, g = F(g) PROVE g = f
  <2> DEFINE S == {k \in 0..MaxPages : g[k] = f[k]}
  <2>1. 0..MaxPages \subseteq S
    <3>1. MaxPages \in Nat BY Bounds
    <3>2. 0 \in S BY <1>1, <3>1
    <3>3. ASSUME NEW k \in 0..MaxPages - 1, k \in S PROVE k + 1 \in S
      BY <1>1, <3>1, <3>3
    <3> HIDE DEF S
    <3> QED BY <3>1, <3>2, <3>3, BoundedInduction
  <2> QED BY <1>1, <2>1
<1>2. f = F(f) OBVIOUS
<1>3. (CHOOSE g : g = F(g)) = f
  <2> HIDE DEF F
  <2> QED BY <1>1, <1>2
<1> DEFINE at == CHOOSE g : g = F(g)
<1>4. Walk(m, MaxPages) = {at[k] : k \in 0..MaxPages} \ {NoModule}
  BY Zenon DEF Walk
<1> HIDE DEF at
<1>5. at = f
  <2> HIDE DEF F
  <2> QED BY <1>3 DEF at
<1> QED BY <1>4, <1>5

\* The walk from the program's own module comes to the linked ones, in order.
LEMMA ListIs ==
  ASSUME Base, Walkable
  PROVE  Walk(0, MaxPages) = 0..Linked /\ Linked \in 0..MaxPages
<1> DEFINE f == [k \in 0..MaxPages |-> IF k <= Linked THEN k ELSE NoModule]
<1>1. Linked \in 0..MaxPages
  <2>1. Len(made) \in Nat /\ Len(made) <= MaxPages
    BY LenProperties DEF Base, TypeOK
  <2>2. At({"build", "link"}) => Len(made) # 0
    <3> SUFFICES ASSUME At({"build", "link"}) PROVE Len(made) # 0
      OBVIOUS
    <3>1. PICK t \in All : pc[t] \in {"build", "link"}
      BY DEF At
    <3> QED BY <3>1, MakerFacts DEF Making
  <2> QED BY <2>1, <2>2, Bounds DEF Linked
<1>2. \A m \in 0..MaxPages : next[m] = IF m < Linked THEN m + 1 ELSE NoModule
  BY DEF Walkable, List
<1>3. f = [k \in 0..MaxPages |-> IF k = 0 THEN 0
                        ELSE IF f[k - 1] = NoModule THEN NoModule ELSE next[f[k - 1]]]
  <2>1. ASSUME NEW k \in 0..MaxPages
        PROVE  f[k] = IF k = 0 THEN 0
                        ELSE IF f[k - 1] = NoModule THEN NoModule ELSE next[f[k - 1]]
    <3>1. CASE k = 0
      BY <1>1, <3>1
    <3>2. CASE k # 0 /\ k <= Linked
      <4>1. PICK j \in 0..MaxPages : j = k - 1
        BY <1>1, <3>2, Bounds
      <4>2. j < Linked /\ j <= Linked /\ j # NoModule /\ j + 1 = k
        BY <1>1, <3>2, <4>1 DEF NoModule
      <4>3. f[j] = j /\ f[k] = k
        BY <3>2, <4>2
      <4>4. next[j] = k
        BY <1>2, <4>2
      <4> QED BY <3>2, <4>1, <4>2, <4>3, <4>4
    <3>3. CASE k # 0 /\ ~(k <= Linked)
      <4>1. k - 1 \in 0..MaxPages /\ k - 1 # NoModule /\ Linked <= k - 1
        BY <1>1, <3>3, Bounds DEF NoModule
      <4>2. f[k] = NoModule
        BY <3>3
      <4>3. f[k - 1] \in {k - 1, NoModule} /\ next[k - 1] = NoModule
        BY <1>1, <1>2, <4>1
      <4> QED BY <3>3, <4>1, <4>2, <4>3
    <3> QED BY <3>1, <3>2, <3>3
  <2> HIDE DEF f
  <2>2. f = [k \in 0..MaxPages |-> f[k]]
    BY DEF f
  <2> QED BY <2>1, <2>2
<1>4. Walk(0, MaxPages) = {f[k] : k \in 0..MaxPages} \ {NoModule}
  <2> HIDE DEF f
  <2> QED BY <1>3, WalkIs
<1>5. {f[k] : k \in 0..MaxPages} \ {NoModule} = 0..Linked
  <2>1. ASSUME NEW k \in 0..Linked PROVE k \in {f[j] : j \in 0..MaxPages} \ {NoModule}
    <3>1. k \in 0..MaxPages /\ k # NoModule
      BY <1>1, Bounds DEF NoModule
    <3>2. f[k] = k
      BY <3>1
    <3> QED BY <3>1, <3>2
  <2>2. ASSUME NEW k \in 0..MaxPages, f[k] # NoModule PROVE f[k] \in 0..Linked
    BY <1>1, <2>2
  <2> QED BY <2>1, <2>2
<1> QED BY <1>1, <1>4, <1>5

\* The runtime's list has every module that was ever registered, in one piece, at every
\* moment a scan may walk it: while a goroutine of jitTrampoline is between making
\* a page and linking its module (registerModule).
THEOREM ListAlwaysKeepsAll == Spec => []ListKeepsAll
<1>1. ASSUME Base, Walkable PROVE ListKeepsAll
  <2> DEFINE linking == {page[t] : t \in {u \in All : pc[u] \in {"build", "link"}}}
  <2>1. Walk(0, MaxPages) = 0..Linked /\ Linked \in 0..MaxPages
    BY <1>1, ListIs
  <2>2. Len(made) \in Nat
    BY <1>1, LenProperties DEF Base, TypeOK
  <2>3. 0..Linked = {0} \cup (1..Len(made) \ linking)
    <3>1. CASE At({"build", "link"})
      <4>1. PICK t \in All : pc[t] \in {"build", "link"}
        BY <3>1 DEF At
      <4>2. page[t] = Len(made) /\ \A u \in All : pc[u] \in Inside => u = t
        BY <1>1, <4>1, MakerFacts DEF Making
      <4>3. linking = {Len(made)}
        BY <4>1, <4>2 DEF Inside, Making
      <4>4. Linked = Len(made) - 1
        BY <3>1 DEF Linked
      <4> HIDE DEF linking
      <4> QED BY <2>1, <2>2, <4>3, <4>4
    <3>2. CASE ~At({"build", "link"})
      <4>1. linking = {} /\ Linked = Len(made)
        BY <3>2 DEF At, Linked
      <4> HIDE DEF linking
      <4> QED BY <2>2, <4>1
    <3> QED BY <3>1, <3>2
  <2>4. next[Linked] = NoModule /\ Linked \in 0..Linked
    BY <1>1, <2>1 DEF Walkable, List
  <2> HIDE DEF linking
  <2>5. ListKeepsAll <=> /\ Walk(0, MaxPages) = {0} \cup (1..Len(made) \ linking)
                         /\ \E m \in Walk(0, MaxPages) : next[m] = NoModule
    BY Zenon DEF ListKeepsAll, linking
  <2> QED BY <2>1, <2>3, <2>4, <2>5
<1>2. Init => Slots
  BY DEF Init, Slots
<1> QED BY <1>1, <1>2, InitWalkable, NextSlots, NextWalkable, BaseAlways, PTL DEF Spec
=============================================================================
