------------------------------ MODULE Injector ------------------------------
(***************************************************************************)
(* The chaos injector (chaos/chaos.go, chaos/inject.go): a control plane   *)
(* that replaces, disables and enables the rule set while goroutines call  *)
(* through proxies wrapped from it.  Every access to state two goroutines  *)
(* share is a step: loading the plan, loading and storing a binder's       *)
(* binding, loading and adding to a rule's budget, adding to a sampling    *)
(* counter.                                                                *)
(***************************************************************************)
EXTENDS RuleSet

CONSTANTS
  Threads,      \* goroutines making calls, one at a time each
  Binders,      \* proxies wrapped from the injector
  IfaceOf,      \* the name of each proxy's interface type
  NoError,      \* methods with no error result
  RuleSets,     \* what the control plane passes to New and Set: sequences
  Commands,     \* what else the control plane does: see CommandsDomain
  MaxPlans,     \* bound on the number of published plans
  MaxBindings,  \* bound on the number of tables built
  MaxCalls,     \* bound on the number of calls made
  MaxClock      \* bound on the clock

CommandsDomain == {"set", "disable", "enable"}

(***************************************************************************)
(* A rule: its condition, the sampled ordinals (those whose hash is below  *)
(* Rate), MaxCount (0: no limit), the window (0: open on that side), and   *)
(* its actions flattened as rebuild does: whether it delays, and how it    *)
(* decides the call.                                                       *)
(***************************************************************************)
RuleDomain ==
  [iface : Ifaces \cup {Wildcard}, method : Methods \cup {Wildcard},
   hits : SUBSET (1..MaxCalls), maxCount : Nat, from : Nat, until : Nat,
   delays : BOOLEAN, decides : {"error", "panic", "nothing"}]

AllRules == UNION {RulesOf(rules) : rules \in RuleSets}

ASSUME InjectorAssumption ==
  /\ IsFiniteSet(Threads)
  /\ IfaceOf \in [Binders -> Ifaces]
  /\ NoError \subseteq Methods
  /\ \A rules \in RuleSets : rules \in Seq(RuleDomain)
  /\ NoRule \notin AllRules
  /\ Commands \subseteq CommandsDomain
  /\ MaxPlans \in Nat \ {0} /\ MaxBindings \in Nat
  /\ MaxCalls \in Nat /\ MaxClock \in Nat

VARIABLES
  rules,        \* Injector.rules
  enabled,      \* Injector.enabled
  planCount,    \* plans published so far; the last one is Injector.plan
  planRules,    \* the rules compiled into each plan
  budget,       \* compiled.budget, of each rule of each plan
  bindingCount, \* tables built so far
  binding,      \* the plan and binder each table was built for
  seq,          \* bound.seq: the sampling counters of each table
  cur,          \* binder.cur: a table, or 0
  pc,           \* where each goroutine is
  call,         \* the proxy and method it is calling
  plan,         \* the plan its call has loaded
  bd,           \* the table resolve returned
  ordinal,      \* the ordinal its call drew
  outcome,      \* what became of the call
  clock,        \* time.Now
  callCount,    \* calls made so far
  began,        \* history: the plan and the time when its call began
  setBy,        \* history: the plan published by the last Set before each plan
  injected      \* history: faults injected by each rule since that Set

controlVars == <<rules, enabled, planCount, planRules>>
tableVars == <<bindingCount, binding, cur>>
callVars == <<call, callCount, began>>
vars == <<controlVars, budget, tableVars, seq, pc, callVars, plan, bd, ordinal,
          outcome, clock, setBy, injected>>

-----------------------------------------------------------------------------
PlanIds == 1..MaxPlans
BindingIds == 1..MaxBindings
NoBinder == "none"
NoTable == [plan |-> 0, binder |-> NoBinder]
NoCall == [binder |-> NoBinder, method |-> Wildcard]

Init ==
  /\ rules \in {r \in RuleSets : ValidConditions(r)}
  /\ enabled = TRUE
  /\ planCount = 1
  /\ planRules = [p \in PlanIds |-> IF p = 1 THEN RulesOf(rules) ELSE {}]
  /\ budget = [p \in PlanIds |-> [r \in AllRules |-> 0]]
  /\ bindingCount = 0
  /\ binding = [i \in BindingIds |-> NoTable]
  /\ seq = [i \in BindingIds |-> [m \in Methods |-> 0]]
  /\ cur = [b \in Binders |-> 0]
  /\ pc = [t \in Threads |-> "idle"]
  /\ call = [t \in Threads |-> NoCall]
  /\ plan = [t \in Threads |-> 0]
  /\ bd = [t \in Threads |-> 0]
  /\ ordinal = [t \in Threads |-> 0]
  /\ outcome = [t \in Threads |-> "none"]
  /\ clock = 1
  /\ callCount = 0
  /\ began = [t \in Threads |-> [plan |-> 0, clock |-> 0]]
  /\ setBy = [p \in PlanIds |-> 1]
  /\ injected = [p \in PlanIds |-> [r \in AllRules |-> 0]]

-----------------------------------------------------------------------------
(* The control plane.  in.mu makes each operation atomic; calls see it when *)
(* rebuild stores the plan.                                                 *)

Rebuild(newRules, on, bySet) ==
  LET p == planCount + 1 IN
  /\ planCount < MaxPlans
  /\ rules' = newRules
  /\ enabled' = on
  /\ planCount' = p
  /\ planRules' = [planRules EXCEPT ![p] = IF on THEN RulesOf(newRules) ELSE {}]
  /\ setBy' = [setBy EXCEPT ![p] = IF bySet THEN p ELSE setBy[planCount]]
  /\ UNCHANGED <<budget, tableVars, seq, pc, callVars, plan, bd, ordinal, outcome, clock, injected>>

\* a rule set validateSet rejects panics before anything is touched
Set ==
  /\ "set" \in Commands
  /\ \E newRules \in RuleSets :
       /\ ValidConditions(newRules)
       /\ Rebuild(newRules, TRUE, TRUE)

Disable == "disable" \in Commands /\ Rebuild(rules, FALSE, FALSE)

Enable == "enable" \in Commands /\ Rebuild(rules, TRUE, FALSE)

Tick ==
  /\ clock < MaxClock
  /\ clock' = clock + 1
  /\ UNCHANGED <<controlVars, budget, tableVars, seq, pc, callVars, plan, bd, ordinal, outcome, setBy, injected>>

-----------------------------------------------------------------------------
(* A call: binder.intercept *)

Goto(t, label) == pc' = [pc EXCEPT ![t] = label]

Finish(t, result) ==
  /\ outcome' = [outcome EXCEPT ![t] = result]
  /\ Goto(t, "over")

Call(t) ==
  /\ pc[t] = "idle"
  /\ callCount < MaxCalls
  /\ \E b \in Binders, m \in Methods :
       call' = [call EXCEPT ![t] = [binder |-> b, method |-> m]]
  /\ callCount' = callCount + 1
  /\ began' = [began EXCEPT ![t] = [plan |-> planCount, clock |-> clock]]
  /\ Goto(t, "called")
  /\ UNCHANGED <<controlVars, budget, tableVars, seq, plan, bd, ordinal, outcome, clock, setBy, injected>>

\* p := b.in.current()
LoadPlan(t) ==
  /\ pc[t] = "called"
  /\ plan' = [plan EXCEPT ![t] = planCount]
  /\ Goto(t, "planned")
  /\ UNCHANGED <<controlVars, budget, tableVars, seq, callVars, bd, ordinal, outcome, clock, setBy, injected>>

\* Mutant: any table will do
TableExists(t) == cur[call[t].binder] # 0

\* b.cur holds a table, and it was built for the plan just loaded
TableIsCurrent(t) ==
  LET i == cur[call[t].binder] IN i # 0 /\ binding[i].plan = plan[t]

LoadBinding(t) ==
  /\ pc[t] = "planned"
  /\ IF TableIsCurrent(t)
     THEN /\ bd' = [bd EXCEPT ![t] = cur[call[t].binder]]
          /\ Goto(t, "resolved")
     ELSE /\ Goto(t, "building")
          /\ UNCHANGED bd
  /\ UNCHANGED <<controlVars, budget, tableVars, seq, callVars, plan, ordinal, outcome, clock, setBy, injected>>

\* the new table is the goroutine's own until b.cur.Store, which overwrites
\* whatever another goroutine has stored since
StoreBinding(t) ==
  LET i == bindingCount + 1 IN
  /\ pc[t] = "building"
  /\ bindingCount < MaxBindings
  /\ bindingCount' = i
  /\ binding' = [binding EXCEPT ![i] = [plan |-> plan[t], binder |-> call[t].binder]]
  /\ cur' = [cur EXCEPT ![call[t].binder] = i]
  /\ bd' = [bd EXCEPT ![t] = i]
  /\ Goto(t, "resolved")
  /\ UNCHANGED <<controlVars, budget, seq, callVars, plan, ordinal, outcome, clock, setBy, injected>>

\* the entry of the table for the method being called
Rule(t) ==
  Match(planRules[binding[bd[t]].plan], IfaceOf[call[t].binder], call[t].method)

HasWindow(r) == r.from # 0 \/ r.until # 0

\* Mutant: the end of the window is forgotten
ActiveForever(r) == r.from = 0 \/ clock >= r.from

\* Mutant: its beginning is
ActiveEarly(r) == r.until = 0 \/ clock <= r.until

Active(r) ==
  /\ r.from = 0 \/ clock >= r.from
  /\ r.until = 0 \/ clock <= r.until

CheckOwner(t) ==
  /\ pc[t] = "resolved"
  /\ \/ /\ Rule(t) = NoRule
        /\ Finish(t, "target")
     \/ /\ Rule(t) # NoRule
        /\ Goto(t, "windowing")
        /\ UNCHANGED outcome
  /\ UNCHANGED <<controlVars, budget, tableVars, seq, callVars, plan, bd, ordinal, clock, setBy, injected>>

CheckWindow(t) ==
  /\ pc[t] = "windowing"
  /\ IF HasWindow(Rule(t)) /\ ~Active(Rule(t))
     THEN Finish(t, "target")
     ELSE Goto(t, "budgeting") /\ UNCHANGED outcome
  /\ UNCHANGED <<controlVars, budget, tableVars, seq, callVars, plan, bd, ordinal, clock, setBy, injected>>

Budget(t) == budget[binding[bd[t]].plan][Rule(t)]

\* Mutant: one fault too many
SpentOffByOne(t) == Rule(t).maxCount > 0 /\ Budget(t) > Rule(t).maxCount

Spent(t) == Rule(t).maxCount > 0 /\ Budget(t) >= Rule(t).maxCount

CheckBudget(t) ==
  /\ pc[t] = "budgeting"
  /\ IF Spent(t)
     THEN Finish(t, "target")
     ELSE Goto(t, "sampling") /\ UNCHANGED outcome
  /\ UNCHANGED <<controlVars, budget, tableVars, seq, callVars, plan, bd, ordinal, clock, setBy, injected>>

\* Mutant: the counter is read but not advanced
NotAdvanced(t) == seq

\* the sampling counter of the call's table after one atomic add
Advanced(t) == [seq EXCEPT ![bd[t]][call[t].method] = @ + 1]

Sample(t) ==
  LET k == seq[bd[t]][call[t].method] + 1 IN
  /\ pc[t] = "sampling"
  /\ seq' = Advanced(t)
  /\ ordinal' = [ordinal EXCEPT ![t] = k]
  /\ IF k \in Rule(t).hits
     THEN Goto(t, "counting") /\ UNCHANGED outcome
     ELSE Finish(t, "target")
  /\ UNCHANGED <<controlVars, budget, tableVars, callVars, plan, bd, clock, setBy, injected>>

CountFault(t) ==
  /\ pc[t] = "counting"
  /\ budget' = IF Rule(t).maxCount > 0
               THEN [budget EXCEPT ![binding[bd[t]].plan][Rule(t)] = @ + 1]
               ELSE budget
  /\ Goto(t, IF Rule(t).delays THEN "waiting" ELSE "deciding")
  /\ UNCHANGED <<controlVars, tableVars, seq, callVars, plan, bd, ordinal, outcome, clock, setBy, injected>>

\* the timer fires or the call's context is done, whichever is first
EndWait(t) ==
  /\ pc[t] = "waiting"
  /\ Goto(t, "deciding")
  /\ UNCHANGED <<controlVars, budget, tableVars, seq, callVars, plan, bd, ordinal, outcome, clock, setBy, injected>>

\* Mutant: the rule decides whether or not the method has an error result
DecisionRaw(t) == Rule(t).decides

Decision(t) ==
  CASE Rule(t).decides = "panic" -> "panic"
    [] Rule(t).decides = "error" /\ call[t].method \notin NoError -> "error"
    [] OTHER -> "target"

Faulted(t) == Rule(t).delays \/ Decision(t) # "target"

Decide(t) ==
  /\ pc[t] = "deciding"
  /\ Finish(t, Decision(t))
  /\ injected' =
       IF Faulted(t)
       THEN [injected EXCEPT ![setBy[binding[bd[t]].plan]][Rule(t)] = @ + 1]
       ELSE injected
  /\ UNCHANGED <<controlVars, budget, tableVars, seq, callVars, plan, bd, ordinal, clock, setBy>>

Done(t) ==
  /\ pc[t] = "over"
  /\ Goto(t, "idle")
  /\ call' = [call EXCEPT ![t] = NoCall]
  /\ plan' = [plan EXCEPT ![t] = 0]
  /\ bd' = [bd EXCEPT ![t] = 0]
  /\ ordinal' = [ordinal EXCEPT ![t] = 0]
  /\ outcome' = [outcome EXCEPT ![t] = "none"]
  /\ began' = [began EXCEPT ![t] = [plan |-> 0, clock |-> 0]]
  /\ UNCHANGED <<controlVars, budget, tableVars, seq, callCount, clock, setBy, injected>>

Step(t) ==
  \/ Call(t) \/ LoadPlan(t) \/ LoadBinding(t) \/ StoreBinding(t)
  \/ CheckOwner(t) \/ CheckWindow(t) \/ CheckBudget(t) \/ Sample(t)
  \/ CountFault(t) \/ EndWait(t) \/ Decide(t) \/ Done(t)

Next == Set \/ Disable \/ Enable \/ Tick \/ \E t \in Threads : Step(t)

Spec == Init /\ [][Next]_vars

-----------------------------------------------------------------------------
(* Properties *)

Resolved == {"resolved", "windowing", "budgeting", "sampling", "counting",
             "waiting", "deciding"}
Faulting == {"counting", "waiting", "deciding"}

\* Every variable keeps to its domain.
TypeOK ==
  /\ rules \in RuleSets /\ ValidConditions(rules)
  /\ enabled \in BOOLEAN
  /\ planCount \in PlanIds
  /\ planRules \in [PlanIds -> SUBSET AllRules]
  /\ budget \in [PlanIds -> [AllRules -> Nat]]
  /\ bindingCount \in 0..MaxBindings
  /\ binding \in [BindingIds -> [plan : PlanIds \cup {0}, binder : Binders \cup {NoBinder}]]
  /\ seq \in [BindingIds -> [Methods -> Nat]]
  /\ cur \in [Binders -> BindingIds \cup {0}]
  /\ pc \in [Threads -> Resolved \cup {"idle", "called", "planned", "building", "over"}]
  /\ call \in [Threads -> [binder : Binders \cup {NoBinder}, method : Methods \cup {Wildcard}]]
  /\ plan \in [Threads -> PlanIds \cup {0}]
  /\ bd \in [Threads -> BindingIds \cup {0}]
  /\ ordinal \in [Threads -> Nat]
  /\ outcome \in [Threads -> {"none", "target", "error", "panic"}]
  /\ clock \in 1..(MaxClock + 1)
  /\ callCount \in 0..MaxCalls
  /\ began \in [Threads -> [plan : PlanIds \cup {0}, clock : Nat]]
  /\ setBy \in [PlanIds -> PlanIds]
  /\ injected \in [PlanIds -> [AllRules -> Nat]]

\* A call is decided by the plan it loaded, which is at least as new as the one
\* published when the call began: a call that begins after Set, Disable or
\* Enable has returned sees its effect, although racing calls may put an older
\* table back into binder.cur (resolve).
CallUsesItsPlan ==
  \A t \in Threads : pc[t] \in Resolved =>
    /\ binding[bd[t]].plan = plan[t]
    /\ binding[bd[t]].binder = call[t].binder
    /\ plan[t] >= began[t].plan

\* The rule that acts on a call is the one that owns it in that plan: it covers
\* the call and is more specific than every other rule that does, whether or
\* not it is active or spent; a call no rule covers is left alone (match).
OwnerDecides ==
  \A t \in Threads : pc[t] \in Resolved =>
    LET rs == planRules[plan[t]]
        iface == IfaceOf[call[t].binder]
    IN IF Rule(t) = NoRule
       THEN \A r \in rs : ~Covers(r, iface, call[t].method)
       ELSE Owns(Rule(t), rs, iface, call[t].method)

\* A rule injects at or after From, and not into a call that began after Until.
FaultsAreDue ==
  \A t \in Threads : pc[t] \in Faulting =>
    /\ clock >= Rule(t).from
    /\ Rule(t).until = 0 \/ began[t].clock <= Rule(t).until

\* Calls in flight through one table hold different ordinals (atomic.AddUint64).
OrdinalsDistinct ==
  \A t, u \in Threads :
    /\ t # u
    /\ pc[t] \in Faulting /\ pc[u] \in Faulting
    /\ bd[t] = bd[u] /\ call[t].method = call[u].method
    => ordinal[t] # ordinal[u]

\* the calls that have passed the budget check of r in plan p but not counted yet
Pending(p, r) ==
  {t \in Threads : /\ pc[t] \in {"sampling", "counting"}
                   /\ plan[t] = p
                   /\ Rule(t) = r}

\* The check and the count of a fault are two steps, so calls in flight together
\* may overrun MaxCount, but by less than their number (intercept).
BoundedOverrun ==
  \A p \in PlanIds, r \in AllRules :
    r.maxCount > 0 =>
      budget[p][r] + Cardinality(Pending(p, r))
        <= r.maxCount + Cardinality(Threads) - 1

-----------------------------------------------------------------------------
(* What the documentation says and the code does not do *)

\* "MaxCount stops this rule from injecting after that many faults"
\* (chaos/chaos.go:140).
MaxCountHolds ==
  \A p \in PlanIds, r \in AllRules :
    r.maxCount > 0 => budget[p][r] <= r.maxCount

\* "The count is part of the rule set: installing a new one with Set starts it
\* over" (chaos/chaos.go:142-143), so Disable and Enable do not.
CountSurvivesDisable ==
  \A p \in PlanIds, r \in AllRules :
    r.maxCount > 0 => injected[p][r] <= r.maxCount
=============================================================================
