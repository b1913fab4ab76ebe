------------------------------ MODULE Registry ------------------------------
(***************************************************************************)
(* The construction of proxies by several goroutines at once: NewOf        *)
(* (proxy.go) asks newTrampoline (tramp.go) for the code of each method    *)
(* and forges an itab of them (rt.go); jitTrampoline (jit.go) finds or     *)
(* generates the code of a shape and puts its module on the runtime's      *)
(* list, which stack scans walk without any lock of this package.          *)
(*                                                                         *)
(* Pages of code and their modules are numbered as they are made; module 0 *)
(* is the program's own.                                                   *)
(***************************************************************************)
EXTENDS Integers, Sequences

CONSTANTS
  Threads,     \* goroutines that build proxies
  Main,        \* the goroutine that runs the package's init
  Interfaces,  \* the proxied interfaces: for each, the areas of its methods
  Areas,       \* the stack areas that hold pointers
  Plain,       \* the area of a method that moves none
  Wide,        \* the area of one that needs more than stackWindow
  SlotCount,   \* slotCount
  MaxMethods,  \* a bound on the methods of an interface
  NoOne,       \* nobody holds the lock
  MaxPages     \* a bound on the pages of code

ASSUME RegistryAssumption ==
  /\ Main \notin Threads /\ NoOne \notin Threads \cup {Main}
  /\ Plain \notin Areas /\ Wide \notin Areas /\ Plain # Wide
  /\ Interfaces \subseteq Seq(Areas \cup {Plain, Wide})
  /\ \A i \in Interfaces : Len(i) <= MaxMethods
  /\ {SlotCount, MaxMethods, MaxPages} \subseteq Nat /\ SlotCount <= MaxMethods

All == Threads \cup {Main}
NoPage == 0
NoModule == -1      \* what next is at the end of the list

\* stubShape, as far as it tells trampolines apart
Shapes == [index : 0..MaxMethods - 1, area : Areas \cup {Plain}]

VARIABLES
  mu,      \* who holds jitMu
  bySh,    \* jitBySh
  made,    \* the shape each page was generated for
  next,    \* the next module of each module
  tail,    \* lastmoduledatap
  roots,   \* jitRoots: <<"tables" or "module", page>>
  freed,   \* what the collector has freed of that
  pc,      \* where a goroutine is in NewOf
  iface,   \* the interface it builds a proxy for
  fvs,     \* the codes of the methods it has so far
  page,    \* the page it is generating
  itabs,   \* the itabs forged: the interface and the codes
  scan     \* a stack scan: the page it is in, the module it has come to

vars == <<mu, bySh, made, next, tail, roots, freed, pc, iface, fvs, page, itabs, scan>>

local == <<iface, page, itabs, scan>>
list == <<next, tail>>
heap == <<roots, freed>>

Idle == <<NoPage, 0>>

Init ==
  /\ mu = NoOne /\ bySh = <<>> /\ made = <<>>
  /\ next = [m \in 0..MaxPages |-> NoModule] /\ tail = 0
  /\ roots = {} /\ freed = {}
  /\ pc = [t \in All |-> IF t = Main THEN "method" ELSE "idle"]
  /\ iface = [t \in All |-> IF t = Main THEN [k \in 1..SlotCount |-> Plain] ELSE <<>>]
  /\ fvs = [t \in All |-> <<>>]
  /\ page = [t \in All |-> NoPage]
  /\ itabs = {} /\ scan = Idle

-----------------------------------------------------------------------------
(* NewOf and newTrampoline *)

\* init has run: only then does anything else of the program
Ready == pc[Main] = "idle"

Index(t) == Len(fvs[t])                 \* of the method t is at
Method(t) == iface[t][Index(t) + 1]
Building(t) == pc[t] = "method" /\ Index(t) < Len(iface[t])

\* Mutant: the index, which is in the code, left out of the key
AreaOnly(index, area) == [index |-> 0, area |-> area]

Shape(index, area) == [index |-> index, area |-> area]

Wanted(t) == Shape(Index(t), Method(t))

Goto(t, l) == pc' = [pc EXCEPT ![t] = l]
Took(t, code) == fvs' = [fvs EXCEPT ![t] = Append(@, code)]

NewOf(t) ==
  /\ pc[t] = "idle" /\ t # Main /\ Ready
  /\ \E i \in Interfaces : iface' = [iface EXCEPT ![t] = i]
  /\ fvs' = [fvs EXCEPT ![t] = <<>>]
  /\ Goto(t, "method")
  /\ UNCHANGED <<mu, bySh, made, list, heap, page, itabs, scan>>

\* slotCode: the stubs are what init collected
SlotCode(t) ==
  /\ Building(t) /\ t # Main /\ Method(t) = Plain
  /\ IF Index(t) < SlotCount
       THEN Took(t, fvs[Main][Index(t) + 1]) /\ UNCHANGED pc
       ELSE Goto(t, "panicked") /\ UNCHANGED fvs
  /\ UNCHANGED <<mu, bySh, made, list, heap, local>>

TooWide(t) ==
  /\ Building(t) /\ Method(t) = Wide
  /\ Goto(t, "panicked")
  /\ UNCHANGED <<mu, bySh, made, list, heap, local, fvs>>

\* forgeITab.  Main fills jitStubs instead: fvs[Main] is that array.
Forge(t) ==
  /\ pc[t] = "method" /\ Index(t) = Len(iface[t])
  /\ itabs' = IF t = Main THEN itabs ELSE itabs \cup {<<iface[t], fvs[t]>>}
  /\ Goto(t, "idle")
  /\ UNCHANGED <<mu, bySh, made, list, heap, iface, fvs, page, scan>>

\* a caller recovers the panic of a New that failed; nobody recovers init's
Recover(t) ==
  /\ pc[t] = "panicked" /\ t # Main
  /\ Goto(t, "idle")
  /\ UNCHANGED <<mu, bySh, made, list, heap, local, fvs>>

-----------------------------------------------------------------------------
(* jitTrampoline *)

\* Mutant: no lock
Always(t) == TRUE

MayLock(t) == mu = NoOne

Lock(t) ==
  /\ Building(t) /\ Method(t) # Wide /\ (Method(t) = Plain => t = Main)
  /\ MayLock(t)
  /\ mu' = t
  /\ Goto(t, "lookup")
  /\ UNCHANGED <<bySh, made, list, heap, local, fvs>>

\* the deferred Unlock of every way out
Unlock == mu' = NoOne

Hit(t) ==
  /\ pc[t] = "lookup" /\ Wanted(t) \in DOMAIN bySh
  /\ Took(t, bySh[Wanted(t)])
  /\ Unlock /\ Goto(t, "method")
  /\ UNCHANGED <<bySh, made, list, heap, local>>

Miss(t) == pc[t] = "lookup" /\ Wanted(t) \notin DOMAIN bySh

\* Mutant: a Lock whose Unlock is not deferred
LockKept == UNCHANGED mu

GiveUp == Unlock

\* Mutant: the cache filled whatever came of it
FailureCached(t) ==
  bySh' = [sh \in DOMAIN bySh \cup {Wanted(t)} |-> IF sh = Wanted(t) THEN NoPage ELSE bySh[sh]]

NothingCached(t) == UNCHANGED bySh

\* jitExecAlloc gets no memory: jitTrampoline returns nil, newTrampoline or init
\* panics
AllocFails(t) ==
  /\ Miss(t)
  /\ GiveUp /\ NothingCached(t)
  /\ Goto(t, "panicked")
  /\ UNCHANGED <<made, list, heap, local, fvs>>

\* jitStubCode and jitExecAlloc
Alloc(t) ==
  /\ Miss(t) /\ Len(made) < MaxPages
  /\ made' = Append(made, [index |-> Index(t), area |-> Method(t)])
  /\ page' = [page EXCEPT ![t] = Len(made) + 1]
  /\ Goto(t, "build")
  /\ UNCHANGED <<mu, bySh, list, heap, iface, fvs, itabs, scan>>

\* buildJITModule roots what the module holds only as numbers
BuildJITModule(t) ==
  /\ pc[t] = "build"
  /\ roots' = roots \cup {<<"tables", page[t]>>}
  /\ Goto(t, "link")
  /\ UNCHANGED <<mu, bySh, made, list, freed, local, fvs>>

\* registerModule, in two steps a walk of the list can come between
Link(t) ==
  /\ pc[t] = "link"
  /\ next' = [next EXCEPT ![tail] = page[t]]
  /\ Goto(t, "tail")
  /\ UNCHANGED <<mu, bySh, made, tail, heap, local, fvs>>

\* Mutant: lastmoduledatap not moved
OldTail(t) == tail

NewTail(t) == page[t]

MoveTail(t) ==
  /\ pc[t] = "tail"
  /\ tail' = NewTail(t)
  /\ Goto(t, "root")
  /\ UNCHANGED <<mu, bySh, made, next, heap, local, fvs>>

\* Mutant: the module left to the list, which the collector does not scan
TablesOnly(t) == roots

Rooted(t) == roots \cup {<<"module", page[t]>>}

Root(t) ==
  /\ pc[t] = "root"
  /\ roots' = Rooted(t)
  /\ Goto(t, "cache")
  /\ UNCHANGED <<mu, bySh, made, list, freed, local, fvs>>

Cache(t) ==
  /\ pc[t] = "cache"
  /\ bySh' = [sh \in DOMAIN bySh \cup {Wanted(t)} |->
                IF sh = Wanted(t) THEN page[t] ELSE bySh[sh]]
  /\ Took(t, page[t])
  /\ page' = [page EXCEPT ![t] = NoPage]
  /\ Unlock /\ Goto(t, "method")
  /\ UNCHANGED <<made, list, heap, iface, itabs, scan>>

-----------------------------------------------------------------------------
(* the runtime *)

\* what is still in a local variable of jitTrampoline or buildJITModule
OnStack(kind, p) ==
  \E t \in All : /\ page[t] = p
                 /\ pc[t] \in IF kind = "tables" THEN {"build"}
                              ELSE {"build", "link", "tail", "root"}

Objects == {"tables", "module"} \X (1..Len(made))

\* a collection: numbers keep nothing alive
Collect ==
  /\ freed' = freed \cup {o \in Objects : o \notin roots /\ ~OnStack(o[1], o[2])}
  /\ UNCHANGED <<mu, bySh, made, list, roots, pc, fvs, local>>

Callable == UNION {{it[2][k] : k \in DOMAIN it[2]} : it \in itabs}

\* findfunc: looks for the module of a frame's page, from the first module on
StartScan ==
  /\ scan = Idle
  /\ \E p \in Callable : scan' = <<p, 0>>
  /\ UNCHANGED <<mu, bySh, made, list, heap, pc, fvs, iface, page, itabs>>

Scan ==
  /\ scan # Idle /\ scan[2] # NoModule
  /\ scan' = IF next[scan[2]] = scan[1] THEN Idle ELSE <<scan[1], next[scan[2]]>>
  /\ UNCHANGED <<mu, bySh, made, list, heap, pc, fvs, iface, page, itabs>>

InJit(t) ==
  \/ Hit(t) \/ AllocFails(t) \/ Alloc(t) \/ BuildJITModule(t)
  \/ Link(t) \/ MoveTail(t) \/ Root(t) \/ Cache(t)

Construct(t) == SlotCode(t) \/ TooWide(t) \/ Forge(t) \/ InJit(t)

Next ==
  \/ \E t \in All : NewOf(t) \/ Recover(t) \/ Lock(t) \/ Construct(t)
  \/ Collect \/ StartScan \/ Scan

Spec == Init /\ [][Next]_vars

\* A goroutine that can go on does; one that waits for the mutex gets it in the
\* end, as sync.Mutex hands itself to the longest waiter when it starves.
Fairness == \A t \in All : WF_vars(Construct(t)) /\ SF_vars(Lock(t))

FairSpec == Spec /\ Fairness

-----------------------------------------------------------------------------
(* Properties *)

Ways == {"idle", "method", "panicked", "lookup", "build", "link", "tail", "root", "cache"}

\* Every variable has its type; a goroutine inside jitTrampoline holds the lock.
TypeOK ==
  /\ made \in Seq(Shapes) /\ Len(made) <= MaxPages
  /\ DOMAIN bySh \subseteq Shapes /\ \A sh \in DOMAIN bySh : bySh[sh] \in 1..Len(made)
  /\ next \in [0..MaxPages -> 1..MaxPages \cup {NoModule}] /\ tail \in 0..MaxPages
  /\ roots \subseteq Objects /\ freed \subseteq Objects
  /\ pc \in [All -> Ways]
  /\ iface \in [All -> Seq(Areas \cup {Plain, Wide})]
  /\ fvs \in [All -> Seq(1..Len(made))]
  /\ page \in [All -> 0..Len(made)]
  /\ mu \in All \cup {NoOne}
  /\ \A t \in All : pc[t] \notin {"idle", "method", "panicked"} => mu = t

\* A finished proxy's slot k holds a trampoline that dispatches method k and
\* describes that method's own stack area to the collector, whoever generated it.
SlotsMatch ==
  \A it \in itabs :
    /\ Len(it[2]) = Len(it[1])
    /\ \A k \in DOMAIN it[2] : made[it[2][k]] = [index |-> k - 1, area |-> it[1][k]]

\* the modules a walk from module m comes to, at most n of them
Walk(m, n) ==
  LET at[k \in 0..n] == IF k = 0 THEN m
                        ELSE IF at[k - 1] = NoModule THEN NoModule ELSE next[at[k - 1]]
  IN {at[k] : k \in 0..n} \ {NoModule}

\* The runtime's list has every module that was ever registered, also while the
\* next one is appended, and ends.
ListKeepsAll ==
  LET listed == Walk(0, MaxPages)
      linking == {page[t] : t \in {u \in All : pc[u] \in {"build", "link"}}}
  IN /\ listed = {0} \cup (1..Len(made) \ linking)
     /\ \E m \in listed : next[m] = NoModule

\* A stack scan finds the module of every page that can be running, however the
\* list grows under it, and meets no module the collector has freed.
ScanIsSafe ==
  scan # Idle => scan[2] # NoModule /\ \A o \in freed : o[2] # scan[2] /\ o[2] # scan[1]

\* Every construction that begins ends, with a proxy or a panic, also after
\* another one failed to get memory.
ConstructionEnds == \A t \in All : pc[t] = "method" ~> pc[t] \in {"idle", "panicked"}

Held(t) == [k \in DOMAIN fvs[t] |-> <<[index |-> k - 1, area |-> iface[t][k]], fvs[t][k]>>]

Memo == INSTANCE MemoTable WITH
  Clients <- All, Codes <- 1..MaxPages,
  table <- bySh, held <- [t \in All |-> Held(t)]

\* Goroutines that build proxies at once get what a table that answers each
\* request in one step would give them: a shape has one code for good, no two
\* shapes share one, and a failure leaves nothing behind.
ImplementsMemoTable == Memo!Spec
=============================================================================
