--------------------------- MODULE InjectorProofs ---------------------------
(***************************************************************************)
(* Proofs about Injector, for any number of goroutines, proxies, plans,    *)
(* tables and calls, and any rule sets.                                    *)
(***************************************************************************)
EXTENDS Injector, FiniteSetTheorems, TLAPS

-----------------------------------------------------------------------------
(* RuleSet: what a rule set that passes validateSet is good for.  Its      *)
(* conditions are strictly ordered by specificity, and match finds the     *)
(* owner of a call.                                                        *)

\* a value with a condition, whatever other fields it has
IsCondition(r) ==
  /\ r.iface \in Ifaces \cup {Wildcard}
  /\ r.method \in Methods \cup {Wildcard}

\* what ValidConditions says of the rules as a set, which is how a plan holds
\* them
ValidPlan(set) ==
  /\ \A r \in set : IsCondition(r)
  /\ \A r, s \in set : SameCondition(r, s) => r = s
  /\ \A r, s \in set : ~(IfaceWild(r) /\ MethodWild(s))

\* A rule set validateSet accepts, compiled into a plan (rebuild).
LEMMA ValidPlanFacts ==
  ASSUME NEW list,
         \A i \in DOMAIN list : IsCondition(list[i]),
         ValidConditions(list)
  PROVE  ValidPlan(RulesOf(list))
  BY DEF ValidPlan, ValidConditions, RulesOf

\* The plan of a disabled injector.
LEMMA EmptyPlanFacts == ValidPlan({})
  BY DEF ValidPlan

\* The two conditions validateSet checks are exactly what it takes for rules
\* that can meet on a call to be strictly ordered by specificity (the comment
\* on validateSet in chaos/chaos.go), unless there is nothing to call.
THEOREM ValidIsStrictOrder ==
  ASSUME NEW list,
         \A i \in DOMAIN list : IsCondition(list[i]),
         Ifaces # {}, Methods # {}
  PROVE  ValidConditions(list) <=> StrictOrder(list)
<1>1. ASSUME ValidConditions(list) PROVE StrictOrder(list)
  <2> SUFFICES ASSUME NEW i \in DOMAIN list, NEW j \in DOMAIN list,
                      i # j, Overlap(list[i], list[j])
               PROVE  /\ ~SameCondition(list[i], list[j])
                      /\ \/ AtLeastAsSpecific(list[i], list[j])
                         \/ AtLeastAsSpecific(list[j], list[i])
    BY DEF StrictOrder
  <2>1. ~SameCondition(list[i], list[j])
    BY <1>1 DEF ValidConditions
  <2>2. /\ ~(IfaceWild(list[i]) /\ MethodWild(list[j]))
        /\ ~(IfaceWild(list[j]) /\ MethodWild(list[i]))
    BY <1>1 DEF ValidConditions
  <2>3. /\ list[i].iface = list[j].iface \/ Wildcard \in {list[i].iface, list[j].iface}
        /\ list[i].method = list[j].method \/ Wildcard \in {list[i].method, list[j].method}
    BY DEF Overlap, Covers
  <2>4. AtLeastAsSpecific(list[i], list[j]) \/ AtLeastAsSpecific(list[j], list[i])
    BY <2>2, <2>3 DEF AtLeastAsSpecific, IfaceWild, MethodWild
  <2> QED BY <2>1, <2>4
<1>2. ASSUME StrictOrder(list) PROVE ValidConditions(list)
  <2>1. ASSUME NEW i \in DOMAIN list, NEW j \in DOMAIN list,
               SameCondition(list[i], list[j])
        PROVE  i = j
    <3>1. IsCondition(list[i])
      OBVIOUS
    <3>2. PICK iface \in Ifaces : list[i].iface \in {iface, Wildcard}
      BY <3>1 DEF IsCondition
    <3>3. PICK method \in Methods : list[i].method \in {method, Wildcard}
      BY <3>1 DEF IsCondition
    <3>4. Overlap(list[i], list[j])
      BY <2>1, <3>2, <3>3 DEF Overlap, Covers, SameCondition
    <3> QED BY <1>2, <2>1, <3>4 DEF StrictOrder
  <2>2. ASSUME NEW i \in DOMAIN list, NEW j \in DOMAIN list,
               IfaceWild(list[i]), MethodWild(list[j])
        PROVE  FALSE
    <3>1. list[i].iface \in Ifaces /\ list[j].method \in Methods
      BY <2>2 DEF IsCondition, IfaceWild, MethodWild
    <3>2. Overlap(list[i], list[j])
      BY <2>2, <3>1 DEF Overlap, Covers, IfaceWild, MethodWild
    <3>3. i # j
      BY <2>2 DEF IfaceWild, MethodWild
    <3>4. ~AtLeastAsSpecific(list[i], list[j]) /\ ~AtLeastAsSpecific(list[j], list[i])
      BY <2>2 DEF AtLeastAsSpecific, IfaceWild, MethodWild
    <3> QED BY <1>2, <3>2, <3>3, <3>4 DEF StrictOrder
  <2> QED BY <2>1, <2>2 DEF ValidConditions
<1> QED BY <1>1, <1>2

-----------------------------------------------------------------------------
(* plan.match *)

LEMMA FirstOfFacts ==
  ASSUME NEW candidates, NEW otherwise
  PROVE  /\ candidates # {} => FirstOf(candidates, otherwise) \in candidates
         /\ candidates = {} => FirstOf(candidates, otherwise) = otherwise
  BY DEF FirstOf

\* The four lookups of match, in their order.
LEMMA MatchFacts ==
  ASSUME NEW set, NEW iface \in Ifaces, NEW method \in Methods
  PROVE  \/ Match(set, iface, method) \in Claiming(set, iface, method)
         \/ /\ Claiming(set, iface, method) = {}
            /\ Match(set, iface, method) \in Claiming(set, iface, Wildcard)
         \/ /\ Claiming(set, iface, method) = {}
            /\ Claiming(set, iface, Wildcard) = {}
            /\ Match(set, iface, method) \in Claiming(set, Wildcard, method)
         \/ /\ Claiming(set, iface, method) = {}
            /\ Claiming(set, iface, Wildcard) = {}
            /\ Claiming(set, Wildcard, method) = {}
            /\ Match(set, iface, method) \in Claiming(set, Wildcard, Wildcard)
         \/ /\ \A r \in set : ~Covers(r, iface, method)
            /\ Match(set, iface, method) = NoRule
<1> DEFINE last == FirstOf(Claiming(set, Wildcard, Wildcard), NoRule)
           third == FirstOf(Claiming(set, Wildcard, method), last)
           second == FirstOf(Claiming(set, iface, Wildcard), third)
<1>1. Match(set, iface, method) = FirstOf(Claiming(set, iface, method), second)
  BY DEF Match
<1>2. /\ Claiming(set, Wildcard, Wildcard) # {} => last \in Claiming(set, Wildcard, Wildcard)
      /\ Claiming(set, Wildcard, Wildcard) = {} => last = NoRule
  BY FirstOfFacts
<1> HIDE DEF last
<1>3. /\ Claiming(set, Wildcard, method) # {} => third \in Claiming(set, Wildcard, method)
      /\ Claiming(set, Wildcard, method) = {} => third = last
  BY FirstOfFacts
<1> HIDE DEF third
<1>4. /\ Claiming(set, iface, Wildcard) # {} => second \in Claiming(set, iface, Wildcard)
      /\ Claiming(set, iface, Wildcard) = {} => second = third
  BY FirstOfFacts
<1> HIDE DEF second
<1>5. /\ Claiming(set, iface, method) # {} =>
           Match(set, iface, method) \in Claiming(set, iface, method)
      /\ Claiming(set, iface, method) = {} => Match(set, iface, method) = second
  BY <1>1, FirstOfFacts
<1>6. ASSUME Claiming(set, iface, method) = {}, Claiming(set, iface, Wildcard) = {},
             Claiming(set, Wildcard, method) = {}, Claiming(set, Wildcard, Wildcard) = {}
      PROVE  \A r \in set : ~Covers(r, iface, method)
  BY <1>6 DEF Covers, Claiming
<1> QED BY <1>2, <1>3, <1>4, <1>5, <1>6

\* In a plan compiled from a valid rule set, match finds the rule that owns the
\* call, and nothing only when no rule covers it (plan.match, chaos/chaos.go).
THEOREM MatchFindsOwner ==
  ASSUME NEW set, ValidPlan(set), NEW iface \in Ifaces, NEW method \in Methods
  PROVE  \/ Owns(Match(set, iface, method), set, iface, method)
         \/ /\ Match(set, iface, method) = NoRule
            /\ \A r \in set : ~Covers(r, iface, method)
<1> DEFINE m == Match(set, iface, method)
<1>1. CASE m \in Claiming(set, iface, method)
  <2>1. m \in set /\ m.iface = iface /\ m.method = method
    BY <1>1 DEF Claiming
  <2> QED BY <2>1 DEF Owns, Covers, AtLeastAsSpecific
<1>2. CASE Claiming(set, iface, method) = {} /\ m \in Claiming(set, iface, Wildcard)
  <2>1. m \in set /\ m.iface = iface /\ m.method = Wildcard
    BY <1>2 DEF Claiming
  <2>2. IfaceWild(m)
    BY <2>1, RuleSetAssumption DEF IfaceWild
  <2>3. ASSUME NEW s \in set, Covers(s, iface, method) PROVE AtLeastAsSpecific(m, s)
    <3>1. s.method = Wildcard
      BY <1>2, <2>1, <2>2, <2>3 DEF Covers, Claiming, ValidPlan, MethodWild
    <3> QED BY <2>1, <2>3, <3>1 DEF Covers, AtLeastAsSpecific
  <2> QED BY <2>1, <2>3 DEF Owns, Covers
<1>3. CASE /\ Claiming(set, iface, method) = {} /\ Claiming(set, iface, Wildcard) = {}
           /\ m \in Claiming(set, Wildcard, method)
  <2>1. m \in set /\ m.iface = Wildcard /\ m.method = method
    BY <1>3 DEF Claiming
  <2>2. ASSUME NEW s \in set, Covers(s, iface, method) PROVE AtLeastAsSpecific(m, s)
    <3>1. s.iface = Wildcard
      BY <1>3, <2>2 DEF Covers, Claiming
    <3> QED BY <2>1, <2>2, <3>1 DEF Covers, AtLeastAsSpecific
  <2> QED BY <2>1, <2>2 DEF Owns, Covers
<1>4. CASE /\ Claiming(set, iface, method) = {} /\ Claiming(set, iface, Wildcard) = {}
           /\ Claiming(set, Wildcard, method) = {}
           /\ m \in Claiming(set, Wildcard, Wildcard)
  <2>1. m \in set /\ m.iface = Wildcard /\ m.method = Wildcard
    BY <1>4 DEF Claiming
  <2>2. ASSUME NEW s \in set, Covers(s, iface, method) PROVE AtLeastAsSpecific(m, s)
    BY <1>4, <2>1, <2>2 DEF Covers, Claiming, AtLeastAsSpecific
  <2> QED BY <2>1, <2>2 DEF Owns, Covers
<1>5. CASE (\A r \in set : ~Covers(r, iface, method)) /\ m = NoRule
  BY <1>5
<1> QED BY <1>1, <1>2, <1>3, <1>4, <1>5, MatchFacts

\* What match finds is a rule of the plan.
LEMMA MatchInPlan ==
  ASSUME NEW set, NEW iface \in Ifaces, NEW method \in Methods,
         Match(set, iface, method) # NoRule
  PROVE  Match(set, iface, method) \in set
  BY MatchFacts DEF Claiming

-----------------------------------------------------------------------------
(* The inductive invariant of plans, tables and who reads which *)

Planned == Resolved \cup {"planned", "building"}
Working == Planned \cup {"called"}
Owned == Resolved \ {"resolved"}

\* what a call knows at each point: the plan it loaded is not older than the one
\* it began under, its table is one for that plan and its proxy, and from the
\* first check on a rule owns it
CallInv(t) ==
  /\ pc[t] \in Working =>
       /\ call[t] \in [binder : Binders, method : Methods]
       /\ began[t].plan <= planCount
       /\ began[t].clock <= clock
  /\ pc[t] \in Planned => plan[t] \in 1..planCount /\ began[t].plan <= plan[t]
  /\ pc[t] \in Resolved =>
       /\ bd[t] \in 1..bindingCount
       /\ binding[bd[t]] = [plan |-> plan[t], binder |-> call[t].binder]
  /\ pc[t] \in Owned => Rule(t) # NoRule

\* a binder holds a table built for it
Tables ==
  \A b \in Binders : /\ cur[b] \in 0..bindingCount
                     /\ cur[b] # 0 => binding[cur[b]].binder = b

Plans == \A p \in PlanIds : ValidPlan(planRules[p])

Routing == TypeOK /\ Tables /\ Plans /\ \A t \in Threads : CallInv(t)

-----------------------------------------------------------------------------
(* Rule sets and the rules they hold *)

\* The bounds are numbers (Injector's assumption).
LEMMA Bounds ==
  /\ MaxPlans \in Nat /\ MaxPlans # 0 /\ MaxBindings \in Nat
  /\ MaxCalls \in Nat /\ MaxClock \in Nat
  BY InjectorAssumption

\* Every rule is one of RuleDomain (Injector's assumption).
LEMMA AllRulesFacts == AllRules \subseteq RuleDomain
<1> SUFFICES ASSUME NEW rs \in RuleSets, NEW i \in DOMAIN rs PROVE rs[i] \in RuleDomain
  BY DEF AllRules, RulesOf
<1>1. rs \in Seq(RuleDomain)
  BY InjectorAssumption
<1> QED BY <1>1

\* A rule set the control plane publishes makes a valid plan (rebuild).
LEMMA PublishedFacts ==
  ASSUME NEW rs \in RuleSets
  PROVE  /\ RulesOf(rs) \subseteq AllRules
         /\ ValidConditions(rs) => ValidPlan(RulesOf(rs))
<1>1. RulesOf(rs) \subseteq AllRules
  BY DEF AllRules
<1>2. ASSUME NEW i \in DOMAIN rs PROVE IsCondition(rs[i])
  <2>1. rs[i] \in RuleDomain
    BY AllRulesFacts DEF AllRules, RulesOf
  <2> QED BY <2>1 DEF RuleDomain, IsCondition
<1> QED BY <1>1, <1>2, ValidPlanFacts

\* The rule that owns a resolved call is one of its plan (bound.byIndex).
LEMMA RuleFacts ==
  ASSUME Routing, NEW t \in Threads, pc[t] \in Resolved
  PROVE  /\ plan[t] \in PlanIds /\ bd[t] \in BindingIds
         /\ binding[bd[t]].plan = plan[t] /\ binding[bd[t]].binder = call[t].binder
         /\ call[t].binder \in Binders /\ call[t].method \in Methods
         /\ IfaceOf[call[t].binder] \in Ifaces
         /\ Rule(t) = Match(planRules[plan[t]], IfaceOf[call[t].binder], call[t].method)
         /\ Rule(t) # NoRule => Rule(t) \in AllRules /\ Rule(t) \in RuleDomain
<1>1. CallInv(t) /\ TypeOK
  BY DEF Routing
<1>2. /\ call[t] \in [binder : Binders, method : Methods]
      /\ plan[t] \in 1..planCount
      /\ bd[t] \in 1..bindingCount
      /\ binding[bd[t]] = [plan |-> plan[t], binder |-> call[t].binder]
  BY <1>1 DEF CallInv, Working, Planned
<1>3. plan[t] \in PlanIds /\ bd[t] \in BindingIds
  <2>1. planCount \in PlanIds /\ bindingCount \in 0..MaxBindings
    BY <1>1 DEF TypeOK
  <2> QED BY <1>2, <2>1, Bounds DEF PlanIds, BindingIds
<1>4. IfaceOf[call[t].binder] \in Ifaces
  BY <1>2, InjectorAssumption
<1>5. Rule(t) = Match(planRules[plan[t]], IfaceOf[call[t].binder], call[t].method)
  BY <1>2 DEF Rule
<1>6. ASSUME Rule(t) # NoRule PROVE Rule(t) \in AllRules
  <2>1. Rule(t) \in planRules[plan[t]]
    BY <1>2, <1>4, <1>5, <1>6, MatchInPlan
  <2> QED BY <1>1, <1>3, <2>1 DEF TypeOK
<1> QED BY <1>2, <1>3, <1>4, <1>5, <1>6, AllRulesFacts

-----------------------------------------------------------------------------
(* Types *)

\* The first plan is that of New.
LEMMA InitRouting == Init => Routing
<1> SUFFICES ASSUME Init PROVE Routing
  OBVIOUS
<1>1. rules \in RuleSets /\ ValidConditions(rules)
  BY DEF Init
<1>2. RulesOf(rules) \subseteq AllRules /\ ValidPlan(RulesOf(rules))
  BY <1>1, PublishedFacts
<1>3. TypeOK
  BY <1>1, <1>2, InjectorAssumption
     DEF Init, TypeOK, PlanIds, BindingIds, NoTable, NoCall, Resolved
<1>4. Plans
  BY <1>2, EmptyPlanFacts DEF Init, Plans
<1>5. Tables
  BY DEF Init, Tables
<1>6. \A t \in Threads : CallInv(t)
  BY DEF Init, CallInv, Working, Planned, Resolved, Owned
<1> QED BY <1>3, <1>4, <1>5, <1>6 DEF Routing

\* Publishing a plan keeps the types, and the new plan is valid (rebuild).
LEMMA RebuildTypes ==
  ASSUME Routing, NEW rs \in RuleSets, ValidConditions(rs),
         NEW on \in BOOLEAN, NEW bySet \in BOOLEAN, Rebuild(rs, on, bySet)
  PROVE  TypeOK' /\ Plans' /\ Tables'
<1> DEFINE p == planCount + 1
           new == IF on THEN RulesOf(rs) ELSE {}
<1>1. p \in PlanIds /\ TypeOK
  <2>1. planCount \in PlanIds /\ TypeOK
    BY DEF Routing, TypeOK
  <2> QED BY <2>1, Bounds DEF Rebuild, PlanIds
<1>2. new \in SUBSET AllRules /\ ValidPlan(new)
  BY PublishedFacts, EmptyPlanFacts
<1>3. planRules' = [planRules EXCEPT ![p] = new]
  BY DEF Rebuild
<1>4. (IF bySet THEN p ELSE setBy[planCount]) \in PlanIds
  BY <1>1 DEF TypeOK
<1> HIDE DEF new
<1>5. planRules' \in [PlanIds -> SUBSET AllRules] /\ Plans'
  BY <1>1, <1>2, <1>3 DEF TypeOK, Plans, Routing
<1>6. setBy' \in [PlanIds -> PlanIds]
  BY <1>1, <1>4 DEF Rebuild, TypeOK
<1>7. TypeOK'
  BY <1>1, <1>5, <1>6 DEF TypeOK, Rebuild, tableVars, callVars, ValidConditions, SameCondition,
     IfaceWild, MethodWild
<1>8. Tables'
  BY DEF Routing, Tables, Rebuild, tableVars
<1> QED BY <1>5, <1>7, <1>8

\* A call changes tables and counters only, never a published plan (intercept).
LEMMA StepTypes ==
  ASSUME Routing, NEW t \in Threads, Step(t)
  PROVE  TypeOK' /\ Plans' /\ Tables'
<1>0. TypeOK /\ Plans /\ Tables /\ CallInv(t)
  BY DEF Routing
<1>1. CASE Call(t)
  <2>1. call' \in [Threads -> [binder : Binders \cup {NoBinder}, method : Methods \cup {Wildcard}]]
    BY <1>0, <1>1 DEF TypeOK, Call
  <2>2. callCount' \in 0..MaxCalls
    BY <1>0, <1>1, Bounds DEF TypeOK, Call
  <2>3. began' \in [Threads -> [plan : PlanIds \cup {0}, clock : Nat]]
    <3> DEFINE now == [plan |-> planCount, clock |-> clock]
    <3>1. now \in [plan : PlanIds \cup {0}, clock : Nat]
      BY <1>0, Bounds DEF TypeOK
    <3>2. began' = [began EXCEPT ![t] = now]
      BY <1>1 DEF Call
    <3> HIDE DEF now
    <3> QED BY <1>0, <3>1, <3>2 DEF TypeOK
  <2> QED BY <1>0, <1>1, <2>1, <2>2, <2>3
          DEF TypeOK, Plans, Tables, Call, Goto, controlVars, tableVars, ValidConditions,
              SameCondition, IfaceWild, MethodWild
<1>2. CASE LoadPlan(t)
  BY <1>0, <1>2 DEF TypeOK, Plans, Tables, LoadPlan, Goto, controlVars, tableVars, callVars,
     ValidConditions, SameCondition, IfaceWild, MethodWild
<1>3. CASE LoadBinding(t)
  <2>1. bd' \in [Threads -> BindingIds \cup {0}]
    <3>1. CASE TableIsCurrent(t)
      <4>1. pc[t] \in Working
        BY <1>3 DEF LoadBinding, Working, Planned
      <4>2. call[t].binder \in Binders
        BY <1>0, <4>1 DEF CallInv
      <4> QED BY <1>0, <1>3, <3>1, <4>2 DEF TypeOK, LoadBinding
    <3>2. CASE ~TableIsCurrent(t)
      BY <1>0, <1>3, <3>2 DEF TypeOK, LoadBinding
    <3> QED BY <3>1, <3>2
  <2>2. pc' \in [Threads -> Resolved \cup {"idle", "called", "planned", "building", "over"}]
    <3>1. Goto(t, "resolved") \/ Goto(t, "building")
      BY <1>3 DEF LoadBinding
    <3> QED BY <1>0, <3>1 DEF TypeOK, Goto, Resolved
  <2> QED BY <1>0, <1>3, <2>1, <2>2
          DEF TypeOK, Plans, Tables, LoadBinding, controlVars, tableVars, callVars,
              ValidConditions, SameCondition, IfaceWild, MethodWild
<1>4. CASE StoreBinding(t)
  <2> DEFINE i == bindingCount + 1
             table == [plan |-> plan[t], binder |-> call[t].binder]
  <2>1. i \in BindingIds /\ i \in 0..MaxBindings
    <3>1. bindingCount \in 0..MaxBindings
      BY <1>0 DEF TypeOK
    <3> QED BY <1>4, <3>1, Bounds DEF StoreBinding, BindingIds
  <2>2. pc[t] \in Working
    BY <1>4 DEF StoreBinding, Working, Planned
  <2>3. call[t].binder \in Binders
    BY <1>0, <2>2 DEF CallInv
  <2>4. table \in [plan : PlanIds \cup {0}, binder : Binders \cup {NoBinder}]
    BY <1>0, <2>3 DEF TypeOK
  <2>5. /\ bindingCount' = i
        /\ binding' = [binding EXCEPT ![i] = table]
        /\ cur' = [cur EXCEPT ![call[t].binder] = i]
        /\ bd' = [bd EXCEPT ![t] = i]
    BY <1>4 DEF StoreBinding
  <2>6. Tables'
    <3> SUFFICES ASSUME NEW b \in Binders
                 PROVE  cur'[b] \in 0..i /\ (cur'[b] # 0 => binding'[cur'[b]].binder = b)
      BY <2>5 DEF Tables
    <3>1. bindingCount \in Nat /\ cur[b] \in 0..bindingCount
      BY <1>0 DEF TypeOK, Tables
    <3>2. CASE b = call[t].binder
      <4>1. cur'[b] = i
        BY <1>0, <2>5, <3>2 DEF TypeOK
      <4>2. binding'[i] = table
        BY <1>0, <2>1, <2>5 DEF TypeOK
      <4> QED BY <3>1, <3>2, <4>1, <4>2
    <3>3. CASE b # call[t].binder
      <4>1. cur'[b] = cur[b]
        BY <1>0, <2>5, <3>3 DEF TypeOK
      <4>2. binding'[cur[b]] = binding[cur[b]] \/ cur[b] = 0
        BY <1>0, <2>5, <3>1 DEF TypeOK
      <4> QED BY <1>0, <3>1, <4>1, <4>2 DEF Tables
    <3> QED BY <3>2, <3>3
  <2> HIDE DEF i, table
  <2>7. /\ binding' \in [BindingIds -> [plan : PlanIds \cup {0}, binder : Binders \cup {NoBinder}]]
        /\ cur' \in [Binders -> BindingIds \cup {0}]
        /\ bd' \in [Threads -> BindingIds \cup {0}]
    BY <1>0, <2>1, <2>4, <2>5 DEF TypeOK
  <2>8. pc' \in [Threads -> Resolved \cup {"idle", "called", "planned", "building", "over"}]
    BY <1>0, <1>4 DEF TypeOK, StoreBinding, Goto, Resolved
  <2> QED BY <1>0, <1>4, <2>1, <2>5, <2>6, <2>7, <2>8
          DEF TypeOK, Plans, StoreBinding, controlVars, callVars, ValidConditions,
              SameCondition, IfaceWild, MethodWild
<1>5. CASE CheckOwner(t) \/ CheckWindow(t) \/ CheckBudget(t) \/ EndWait(t)
  <2>1. /\ pc' \in [Threads -> Resolved \cup {"idle", "called", "planned", "building", "over"}]
        /\ outcome' \in [Threads -> {"none", "target", "error", "panic"}]
    BY <1>0, <1>5 DEF TypeOK, CheckOwner, CheckWindow, CheckBudget, EndWait, Goto, Finish, Resolved
  <2>2. UNCHANGED <<controlVars, budget, tableVars, seq, callVars, plan, bd, ordinal, clock, setBy, injected>>
    BY <1>5 DEF CheckOwner, CheckWindow, CheckBudget, EndWait
  <2> QED BY <1>0, <2>1, <2>2
          DEF TypeOK, Plans, Tables, controlVars, tableVars, callVars, ValidConditions,
              SameCondition, IfaceWild, MethodWild
<1>6. CASE Sample(t)
  <2>1. pc[t] \in Resolved
    BY <1>6 DEF Sample, Resolved
  <2>2. bd[t] \in BindingIds /\ call[t].method \in Methods
    BY <2>1, RuleFacts
  <2>3. seq' \in [BindingIds -> [Methods -> Nat]] /\ ordinal' \in [Threads -> Nat]
    BY <1>0, <1>6, <2>2 DEF TypeOK, Sample, Advanced
  <2>4. /\ pc' \in [Threads -> Resolved \cup {"idle", "called", "planned", "building", "over"}]
        /\ outcome' \in [Threads -> {"none", "target", "error", "panic"}]
    BY <1>0, <1>6 DEF TypeOK, Sample, Goto, Finish, Resolved
  <2> QED BY <1>0, <1>6, <2>3, <2>4
          DEF TypeOK, Plans, Tables, Sample, controlVars, tableVars, callVars, ValidConditions,
              SameCondition, IfaceWild, MethodWild
<1>7. CASE CountFault(t)
  <2>1. pc[t] \in Owned /\ pc[t] \in Resolved
    BY <1>7 DEF CountFault, Owned, Resolved
  <2>2. binding[bd[t]].plan \in PlanIds /\ Rule(t) \in AllRules
    BY <1>0, <2>1, RuleFacts DEF CallInv
  <2>3. budget' \in [PlanIds -> [AllRules -> Nat]]
    BY <1>0, <1>7, <2>2 DEF TypeOK, CountFault
  <2>4. pc' \in [Threads -> Resolved \cup {"idle", "called", "planned", "building", "over"}]
    BY <1>0, <1>7 DEF TypeOK, CountFault, Goto, Resolved
  <2> QED BY <1>0, <1>7, <2>3, <2>4
          DEF TypeOK, Plans, Tables, CountFault, controlVars, tableVars, callVars, ValidConditions,
              SameCondition, IfaceWild, MethodWild
<1>8. CASE Decide(t)
  <2>1. pc[t] \in Owned /\ pc[t] \in Resolved
    BY <1>8 DEF Decide, Owned, Resolved
  <2>2. binding[bd[t]].plan \in PlanIds /\ Rule(t) \in AllRules
    BY <1>0, <2>1, RuleFacts DEF CallInv
  <2>3. setBy[binding[bd[t]].plan] \in PlanIds
    BY <1>0, <2>2 DEF TypeOK
  <2>4. injected' \in [PlanIds -> [AllRules -> Nat]]
    BY <1>0, <1>8, <2>2, <2>3 DEF TypeOK, Decide
  <2>5. Decision(t) \in {"panic", "error", "target"}
    BY DEF Decision
  <2>6. /\ pc' \in [Threads -> Resolved \cup {"idle", "called", "planned", "building", "over"}]
        /\ outcome' \in [Threads -> {"none", "target", "error", "panic"}]
    BY <1>0, <1>8, <2>5 DEF TypeOK, Decide, Finish, Goto
  <2> QED BY <1>0, <1>8, <2>4, <2>6
          DEF TypeOK, Plans, Tables, Decide, controlVars, tableVars, callVars, ValidConditions,
              SameCondition, IfaceWild, MethodWild
<1>9. CASE Done(t)
  <2>1. /\ call' \in [Threads -> [binder : Binders \cup {NoBinder}, method : Methods \cup {Wildcard}]]
        /\ began' \in [Threads -> [plan : PlanIds \cup {0}, clock : Nat]]
    BY <1>0, <1>9 DEF TypeOK, Done, NoCall
  <2> QED BY <1>0, <1>9, <2>1
          DEF TypeOK, Plans, Tables, Done, Goto, controlVars, tableVars, ValidConditions,
              SameCondition, IfaceWild, MethodWild
<1> QED BY <1>1, <1>2, <1>3, <1>4, <1>5, <1>6, <1>7, <1>8, <1>9 DEF Step

-----------------------------------------------------------------------------
(* What other steps leave to a call *)

\* Nothing moves the call, its plan and its table stay what they were, and the
\* plans, the tables and the clock only grow.
Untouched(t) ==
  /\ pc'[t] = pc[t] /\ call'[t] = call[t] /\ plan'[t] = plan[t]
  /\ bd'[t] = bd[t] /\ ordinal'[t] = ordinal[t] /\ began'[t] = began[t]
  /\ pc[t] \in Planned => planRules'[plan[t]] = planRules[plan[t]]
  /\ pc[t] \in Resolved => binding'[bd[t]] = binding[bd[t]]
  /\ planCount' >= planCount /\ bindingCount' >= bindingCount /\ clock' >= clock

\* A published plan and a stored table never change, so a call goes on with the
\* rule it has whatever the control plane and the other calls do.
LEMMA UntouchedCall ==
  ASSUME Routing, TypeOK', NEW t \in Threads, Untouched(t)
  PROVE  CallInv(t)' /\ (pc[t] \in Resolved => Rule(t)' = Rule(t))
<1>1. CallInv(t) /\ TypeOK
  BY DEF Routing
<1>2. pc[t] \in Resolved => Rule(t)' = Rule(t)
  <2> SUFFICES ASSUME pc[t] \in Resolved PROVE Rule(t)' = Rule(t)
    OBVIOUS
  <2>1. binding[bd[t]].plan = plan[t]
    BY RuleFacts
  <2>2. planRules'[plan[t]] = planRules[plan[t]] /\ binding'[bd[t]] = binding[bd[t]]
    BY DEF Untouched, Planned
  <2> QED BY <2>1, <2>2 DEF Untouched, Rule
<1>3. /\ planCount \in Nat /\ planCount' \in Nat /\ bindingCount \in Nat /\ bindingCount' \in Nat
      /\ clock \in Nat /\ clock' \in Nat
      /\ began[t].plan \in Nat /\ began[t].clock \in Nat
  <2>1. began[t] \in [plan : PlanIds \cup {0}, clock : Nat]
    BY <1>1 DEF TypeOK
  <2>2. /\ planCount \in PlanIds /\ bindingCount \in 0..MaxBindings /\ clock \in 1..(MaxClock + 1)
        /\ (planCount \in PlanIds)' /\ (bindingCount \in 0..MaxBindings)'
        /\ (clock \in 1..(MaxClock + 1))'
    BY <1>1 DEF TypeOK
  <2>3. planCount' \in 1..MaxPlans
    BY <2>2 DEF PlanIds
  <2> QED BY <2>1, <2>2, <2>3, Bounds DEF PlanIds
<1>4. pc[t] \in Planned => plan[t] \in 1..planCount'
  BY <1>1, <1>3 DEF CallInv, Untouched
<1>5. pc[t] \in Resolved => bd[t] \in 1..bindingCount'
  BY <1>1, <1>3 DEF CallInv, Untouched
<1>6. pc[t] \in Working => began[t].plan <= planCount' /\ began[t].clock <= clock'
  BY <1>1, <1>3 DEF CallInv, Untouched
<1>7. pc[t] \in Owned => Rule(t)' # NoRule
  BY <1>1, <1>2 DEF CallInv, Owned
<1> QED BY <1>1, <1>2, <1>4, <1>5, <1>6, <1>7 DEF CallInv, Untouched

\* A step of one call leaves the others alone (intercept keeps what it knows of
\* a call in locals).
LEMMA OthersUntouched ==
  ASSUME Routing, NEW u \in Threads, Step(u), NEW t \in Threads, t # u
  PROVE  Untouched(t)
<1>0. TypeOK /\ CallInv(t)
  BY DEF Routing
<1>1. /\ pc'[t] = pc[t] /\ call'[t] = call[t] /\ plan'[t] = plan[t]
      /\ bd'[t] = bd[t] /\ ordinal'[t] = ordinal[t] /\ began'[t] = began[t]
  BY <1>0 DEF TypeOK, Step, Call, LoadPlan, LoadBinding, StoreBinding, CheckOwner, CheckWindow,
     CheckBudget, Sample, CountFault, EndWait, Decide, Done, Goto, Finish, callVars
<1>2. UNCHANGED <<planRules, planCount, clock>>
  BY DEF Step, Call, LoadPlan, LoadBinding, StoreBinding, CheckOwner, CheckWindow,
     CheckBudget, Sample, CountFault, EndWait, Decide, Done, controlVars
<1>3. /\ bindingCount' >= bindingCount
      /\ \A i \in 1..bindingCount : binding'[i] = binding[i]
  <2>1. bindingCount \in Nat
    BY <1>0 DEF TypeOK
  <2>2. CASE StoreBinding(u)
    <3>1. \A i \in 1..bindingCount : i # bindingCount + 1
      BY <2>1
    <3>2. bindingCount' = bindingCount + 1
      BY <2>2 DEF StoreBinding
    <3>3. \A i \in 1..bindingCount : i \in BindingIds
      <4>1. bindingCount \in 0..MaxBindings
        BY <1>0 DEF TypeOK
      <4> QED BY <4>1, Bounds DEF BindingIds
    <3>4. \A i \in 1..bindingCount : binding'[i] = binding[i]
      BY <1>0, <2>2, <3>1, <3>3 DEF StoreBinding, TypeOK
    <3> QED BY <2>1, <3>2, <3>4
  <2>3. CASE ~StoreBinding(u)
    <3>1. UNCHANGED tableVars
      BY <2>3 DEF Step, Call, LoadPlan, LoadBinding, CheckOwner, CheckWindow,
         CheckBudget, Sample, CountFault, EndWait, Decide, Done
    <3> QED BY <2>1, <3>1 DEF tableVars
  <2> QED BY <2>2, <2>3
<1>4. planCount \in Nat /\ clock \in Nat
  BY <1>0 DEF TypeOK, PlanIds
<1>5. pc[t] \in Resolved => bd[t] \in 1..bindingCount
  BY <1>0 DEF CallInv
<1> QED BY <1>1, <1>2, <1>3, <1>4, <1>5 DEF Untouched

\* Publishing a plan adds one behind those that calls have loaded (rebuild), and
\* the clock goes forward.
LEMMA ControlUntouched ==
  ASSUME Routing, NEW t \in Threads,
         \/ \E rs, on, bySet : Rebuild(rs, on, bySet)
         \/ Tick
         \/ UNCHANGED vars
  PROVE  Untouched(t)
<1>0. TypeOK /\ CallInv(t)
  BY DEF Routing
<1>1. /\ planCount \in Nat /\ clock \in Nat /\ bindingCount \in Nat
      /\ planCount \in PlanIds
  BY <1>0 DEF TypeOK, PlanIds
<1>2. CASE \E rs, on, bySet : Rebuild(rs, on, bySet)
  <2>1. PICK rs, on, bySet : Rebuild(rs, on, bySet)
    BY <1>2
  <2>2. planRules' = [planRules EXCEPT ![planCount + 1] = IF on THEN RulesOf(rs) ELSE {}]
    BY <2>1 DEF Rebuild
  <2>3. pc[t] \in Planned => plan[t] \in PlanIds /\ plan[t] # planCount + 1
    BY <1>0, <1>1, Bounds DEF CallInv, PlanIds
  <2>4. pc[t] \in Planned => planRules'[plan[t]] = planRules[plan[t]]
    BY <1>0, <2>2, <2>3 DEF TypeOK
  <2> QED BY <1>1, <2>1, <2>4 DEF Untouched, Rebuild, tableVars, callVars
<1>3. CASE Tick
  BY <1>1, <1>3 DEF Untouched, Tick, controlVars, tableVars, callVars
<1>4. CASE UNCHANGED vars
  BY <1>1, <1>4 DEF Untouched, vars, controlVars, tableVars, callVars
<1> QED BY <1>2, <1>3, <1>4

-----------------------------------------------------------------------------
(* A step of the call itself *)

\* Past resolve a call keeps its plan, its table and its rule.
Settled(t) ==
  /\ call'[t] = call[t] /\ plan'[t] = plan[t] /\ bd'[t] = bd[t] /\ began'[t] = began[t]
  /\ UNCHANGED <<controlVars, tableVars, clock>>
  /\ Rule(t)' = Rule(t)

\* The checks and the fault of a call change none of what resolve found.
LEMMA SettledFacts ==
  ASSUME Routing, NEW t \in Threads,
         CheckOwner(t) \/ CheckWindow(t) \/ CheckBudget(t) \/ Sample(t) \/ CountFault(t)
           \/ EndWait(t) \/ Decide(t)
  PROVE  Settled(t) /\ pc[t] \in Resolved
<1>1. /\ UNCHANGED <<controlVars, tableVars, callVars, plan, bd, clock>>
      /\ pc[t] \in Resolved
  BY DEF CheckOwner, CheckWindow, CheckBudget, Sample, CountFault, EndWait, Decide, Resolved
<1>2. Rule(t)' = Rule(t)
  BY <1>1 DEF Rule, controlVars, tableVars, callVars
<1> QED BY <1>1, <1>2 DEF Settled, callVars

\* Each step of a call establishes what the next one relies on.
LEMMA OwnCall ==
  ASSUME Routing, NEW t \in Threads, Step(t)
  PROVE  CallInv(t)'
<1>0. TypeOK /\ CallInv(t) /\ Tables
  BY DEF Routing
<1>1. planCount \in Nat /\ clock \in Nat /\ bindingCount \in Nat /\ planCount \in PlanIds
  BY <1>0 DEF TypeOK, PlanIds
<1>2. CASE Call(t)
  <2>1. /\ call'[t] \in [binder : Binders, method : Methods]
        /\ began'[t] = [plan |-> planCount, clock |-> clock]
        /\ pc'[t] = "called"
        /\ planCount' = planCount /\ clock' = clock
    BY <1>0, <1>2 DEF TypeOK, Call, Goto, controlVars
  <2> QED BY <1>1, <2>1 DEF CallInv, Planned, Resolved, Owned
<1>3. CASE LoadPlan(t)
  <2>1. /\ pc[t] = "called" /\ pc'[t] = "planned" /\ plan'[t] = planCount
        /\ call'[t] = call[t] /\ began'[t] = began[t]
        /\ planCount' = planCount /\ clock' = clock
    BY <1>0, <1>3 DEF TypeOK, LoadPlan, Goto, controlVars, callVars
  <2>2. planCount \in 1..planCount
    BY <1>1 DEF PlanIds
  <2> QED BY <1>0, <2>1, <2>2 DEF CallInv, Planned, Working, Resolved, Owned
<1>4. CASE LoadBinding(t)
  <2> DEFINE i == cur[call[t].binder]
  <2>1. /\ pc[t] = "planned" /\ call'[t] = call[t] /\ began'[t] = began[t] /\ plan'[t] = plan[t]
        /\ UNCHANGED <<planCount, clock, bindingCount, binding>>
        /\ pc'[t] \in {"resolved", "building"}
        /\ pc'[t] = "resolved" => TableIsCurrent(t) /\ bd'[t] = i
    BY <1>0, <1>4 DEF TypeOK, LoadBinding, Goto, controlVars, callVars, tableVars
  <2>2. ASSUME TableIsCurrent(t)
        PROVE  i \in 1..bindingCount /\ binding[i] = [plan |-> plan[t], binder |-> call[t].binder]
    <3>1. call[t].binder \in Binders
      BY <1>0, <2>1 DEF CallInv, Working, Planned
    <3>2. i # 0 /\ i \in 0..bindingCount /\ binding[i].plan = plan[t] /\ binding[i].binder = call[t].binder
      BY <1>0, <2>2, <3>1 DEF TableIsCurrent, Tables
    <3>3. i \in BindingIds
      <4>1. bindingCount \in 0..MaxBindings
        BY <1>0 DEF TypeOK
      <4> QED BY <3>2, <4>1, Bounds DEF BindingIds
    <3>4. binding[i] \in [plan : PlanIds \cup {0}, binder : Binders \cup {NoBinder}]
      BY <1>0, <3>3 DEF TypeOK
    <3> QED BY <1>1, <3>2, <3>4
  <2> HIDE DEF i
  <2> QED BY <1>0, <2>1, <2>2 DEF CallInv, Planned, Working, Resolved, Owned
<1>5. CASE StoreBinding(t)
  <2> DEFINE i == bindingCount + 1
             table == [plan |-> plan[t], binder |-> call[t].binder]
  <2>1. i \in BindingIds
    <3>1. bindingCount \in 0..MaxBindings
      BY <1>0 DEF TypeOK
    <3> QED BY <1>5, <3>1, Bounds DEF StoreBinding, BindingIds
  <2>2. binding' = [binding EXCEPT ![i] = table]
    BY <1>5 DEF StoreBinding
  <2>3. i \in 1..i
    BY <1>1
  <2> HIDE DEF table
  <2>4. binding'[i] = table
    BY <1>0, <2>1, <2>2 DEF TypeOK
  <2>5. /\ pc[t] = "building" /\ pc'[t] = "resolved" /\ bd'[t] = i /\ bindingCount' = i
        /\ call'[t] = call[t] /\ began'[t] = began[t] /\ plan'[t] = plan[t]
        /\ planCount' = planCount /\ clock' = clock
    BY <1>0, <1>5 DEF TypeOK, StoreBinding, Goto, controlVars, callVars
  <2> HIDE DEF i
  <2> QED BY <1>0, <2>3, <2>4, <2>5 DEF CallInv, Planned, Working, Resolved, Owned, table
<1>6. CASE Done(t)
  <2>1. pc'[t] = "idle"
    BY <1>0, <1>6 DEF TypeOK, Done, Goto
  <2> QED BY <2>1 DEF CallInv, Planned, Working, Resolved, Owned
<1>7. CASE CheckOwner(t) \/ CheckWindow(t) \/ CheckBudget(t) \/ Sample(t) \/ CountFault(t)
             \/ EndWait(t) \/ Decide(t)
  <2>1. Settled(t) /\ pc[t] \in Resolved
    BY <1>7, SettledFacts
  <2>2. pc'[t] \in {"over"} \cup Owned
    BY <1>0, <1>7 DEF TypeOK, CheckOwner, CheckWindow, CheckBudget, Sample, CountFault, EndWait,
       Decide, Goto, Finish, Owned, Resolved
  <2>3. pc'[t] \in Owned => Rule(t) # NoRule
    <3>1. CASE CheckOwner(t)
      BY <1>0, <3>1 DEF TypeOK, CheckOwner, Goto, Finish, Owned, Resolved
    <3>2. CASE ~CheckOwner(t)
      BY <1>0, <1>7, <3>2 DEF CallInv, CheckWindow, CheckBudget, Sample, CountFault, EndWait,
         Decide, Owned, Resolved
    <3> QED BY <3>1, <3>2
  <2>4. "over" \notin Working
    BY DEF Working, Planned, Resolved
  <2>5. Owned \subseteq Resolved /\ Resolved \subseteq Planned /\ Planned \subseteq Working
    BY DEF Owned, Planned, Working
  <2> QED BY <1>0, <2>1, <2>2, <2>3, <2>4, <2>5 DEF CallInv, Settled, controlVars, tableVars
<1> QED BY <1>2, <1>3, <1>4, <1>5, <1>6, <1>7 DEF Step

\* The steps of the control plane.
LEMMA ControlSteps ==
  ASSUME Routing, Set \/ Disable \/ Enable
  PROVE  \E rs \in RuleSets, on \in BOOLEAN, bySet \in BOOLEAN :
           ValidConditions(rs) /\ Rebuild(rs, on, bySet)
<1>1. rules \in RuleSets /\ ValidConditions(rules)
  BY DEF Routing, TypeOK
<1> QED BY <1>1 DEF Set, Disable, Enable

\* Routing is inductive.
LEMMA NextRouting == Routing /\ [Next]_vars => Routing'
<1> SUFFICES ASSUME Routing, [Next]_vars PROVE Routing'
  OBVIOUS
<1>1. ASSUME NEW u \in Threads, Step(u) PROVE Routing'
  <2>1. TypeOK' /\ Plans' /\ Tables'
    BY <1>1, StepTypes
  <2>2. \A t \in Threads : CallInv(t)'
    BY <1>1, <2>1, OwnCall, OthersUntouched, UntouchedCall
  <2> QED BY <2>1, <2>2 DEF Routing
<1>2. CASE Set \/ Disable \/ Enable
  <2>1. PICK rs \in RuleSets, on \in BOOLEAN, bySet \in BOOLEAN :
           ValidConditions(rs) /\ Rebuild(rs, on, bySet)
    BY <1>2, ControlSteps
  <2>2. TypeOK' /\ Plans' /\ Tables'
    BY <2>1, RebuildTypes
  <2>3. \A t \in Threads : CallInv(t)'
    BY <2>1, <2>2, ControlUntouched, UntouchedCall
  <2> QED BY <2>2, <2>3 DEF Routing
<1>3. CASE Tick \/ UNCHANGED vars
  <2>1. clock' \in 1..(MaxClock + 1)
    <3>1. clock \in 1..(MaxClock + 1)
      BY DEF Routing, TypeOK
    <3> QED BY <1>3, <3>1, Bounds DEF Tick, vars
  <2>2. TypeOK' /\ Plans' /\ Tables'
    <3>1. UNCHANGED <<controlVars, budget, tableVars, seq, pc, callVars, plan, bd, ordinal,
                      outcome, setBy, injected>>
      BY <1>3 DEF Tick, vars
    <3>2. TypeOK'
      BY <2>1, <3>1 DEF Routing, TypeOK, controlVars, tableVars, callVars, ValidConditions,
         SameCondition, IfaceWild, MethodWild
    <3>3. Plans' /\ Tables'
      BY <3>1 DEF Routing, Plans, Tables, controlVars, tableVars
    <3> QED BY <3>2, <3>3
  <2>3. \A t \in Threads : CallInv(t)'
    BY <1>3, <2>2, ControlUntouched, UntouchedCall
  <2> QED BY <2>2, <2>3 DEF Routing
<1> QED BY <1>1, <1>2, <1>3 DEF Next

\* Types, for any number of goroutines, proxies and plans.
THEOREM InjectorTypeCorrect == Spec => []TypeOK
<1>1. Routing => TypeOK
  BY DEF Routing
<1> QED BY <1>1, InitRouting, NextRouting, PTL DEF Spec

\* A call is decided by the plan it loaded, which is not older than the one it
\* began under, whatever tables racing calls put into binder.cur (resolve).
THEOREM CallAlwaysUsesItsPlan == Spec => []CallUsesItsPlan
<1>1. Routing => CallUsesItsPlan
  <2> SUFFICES ASSUME Routing, NEW t \in Threads, pc[t] \in Resolved
               PROVE  /\ binding[bd[t]].plan = plan[t]
                      /\ binding[bd[t]].binder = call[t].binder
                      /\ plan[t] >= began[t].plan
    BY DEF CallUsesItsPlan
  <2>1. TypeOK /\ CallInv(t)
    BY DEF Routing
  <2>2. plan[t] \in Nat /\ began[t].plan \in Nat /\ began[t].plan <= plan[t]
    <3>1. plan[t] \in PlanIds \cup {0} /\ began[t] \in [plan : PlanIds \cup {0}, clock : Nat]
      BY <2>1 DEF TypeOK
    <3> QED BY <2>1, <3>1 DEF CallInv, Planned, PlanIds
  <2> QED BY <2>2, RuleFacts
<1> QED BY <1>1, InitRouting, NextRouting, PTL DEF Spec

\* The rule that acts on a call owns it in the plan the call loaded, and a call
\* is left alone only when no rule covers it (match, resolve).
THEOREM OwnerAlwaysDecides == Spec => []OwnerDecides
<1>1. Routing => OwnerDecides
  <2> SUFFICES ASSUME Routing, NEW t \in Threads, pc[t] \in Resolved
               PROVE  IF Rule(t) = NoRule
                      THEN \A r \in planRules[plan[t]] : ~Covers(r, IfaceOf[call[t].binder], call[t].method)
                      ELSE Owns(Rule(t), planRules[plan[t]], IfaceOf[call[t].binder], call[t].method)
    BY DEF OwnerDecides
  <2>1. /\ plan[t] \in PlanIds /\ call[t].method \in Methods /\ IfaceOf[call[t].binder] \in Ifaces
        /\ Rule(t) = Match(planRules[plan[t]], IfaceOf[call[t].binder], call[t].method)
    BY RuleFacts
  <2>2. ValidPlan(planRules[plan[t]])
    BY <2>1 DEF Routing, Plans
  <2>3. planRules[plan[t]] \subseteq AllRules
    BY <2>1 DEF Routing, TypeOK
  <2>4. NoRule \notin planRules[plan[t]]
    BY <2>3, InjectorAssumption
  <2>5. Owns(Rule(t), planRules[plan[t]], IfaceOf[call[t].binder], call[t].method) => Rule(t) # NoRule
    BY <2>4 DEF Owns
  <2> QED BY <2>1, <2>2, <2>5, MatchFindsOwner
<1> QED BY <1>1, InitRouting, NextRouting, PTL DEF Spec

-----------------------------------------------------------------------------
(* Windows *)

Admitted == {"budgeting", "sampling"} \cup Faulting

\* A call past the window check is due: the clock only goes forward, and the time
\* it began at was not after Until when the clock was not.
Due(t) ==
  pc[t] \in Admitted =>
    /\ clock >= Rule(t).from
    /\ Rule(t).until = 0 \/ began[t].clock <= Rule(t).until

WindowInv == Routing /\ \A t \in Threads : Due(t)

\* Steps that leave a call alone leave it due.
LEMMA UntouchedDue ==
  ASSUME Routing, Routing', NEW t \in Threads, Untouched(t), Due(t)
  PROVE  Due(t)'
<1> SUFFICES ASSUME pc[t] \in Admitted
             PROVE  /\ clock' >= Rule(t)'.from
                    /\ Rule(t)'.until = 0 \/ began'[t].clock <= Rule(t)'.until
  BY DEF Due, Untouched
<1>1. pc[t] \in Resolved /\ pc[t] \in Owned
  BY DEF Admitted, Faulting, Resolved, Owned
<1>2. Rule(t)' = Rule(t) /\ Rule(t) \in RuleDomain
  BY <1>1, UntouchedCall, RuleFacts DEF Routing, CallInv
<1>3. Rule(t).from \in Nat /\ clock \in Nat /\ clock' \in Nat
  BY <1>2 DEF Routing, TypeOK, RuleDomain
<1> QED BY <1>2, <1>3 DEF Due, Untouched

\* Only CheckWindow admits a call, and it has just compared the clock.
LEMMA OwnDue ==
  ASSUME Routing, NEW t \in Threads, Due(t), Step(t)
  PROVE  Due(t)'
<1>0. TypeOK /\ CallInv(t)
  BY DEF Routing
<1>1. CASE CheckWindow(t)
  <2>1. Settled(t) /\ pc[t] = "windowing"
    BY <1>1, SettledFacts DEF CheckWindow
  <2>2. Rule(t) \in RuleDomain
    BY <1>0, <2>1, RuleFacts DEF CallInv, Owned, Resolved
  <2>3. Rule(t).from \in Nat /\ Rule(t).until \in Nat /\ clock \in Nat
    BY <1>0, <2>2 DEF TypeOK, RuleDomain
  <2>4. began[t].clock \in Nat /\ began[t].clock <= clock
    <3>1. began[t] \in [plan : PlanIds \cup {0}, clock : Nat]
      BY <1>0 DEF TypeOK
    <3> QED BY <1>0, <2>1, <3>1 DEF CallInv, Working, Planned, Resolved
  <2>5. CASE HasWindow(Rule(t)) /\ ~Active(Rule(t))
    <3>1. pc'[t] = "over"
      BY <1>0, <1>1, <2>5 DEF TypeOK, CheckWindow, Finish, Goto
    <3> QED BY <3>1 DEF Due, Admitted, Faulting
  <2>6. CASE ~(HasWindow(Rule(t)) /\ ~Active(Rule(t)))
    <3>1. /\ clock >= Rule(t).from
          /\ Rule(t).until = 0 \/ clock <= Rule(t).until
      BY <2>3, <2>6 DEF HasWindow, Active
    <3> QED BY <2>1, <2>3, <2>4, <3>1 DEF Due, Settled
  <2> QED BY <2>5, <2>6
<1>2. CASE CheckBudget(t) \/ Sample(t) \/ CountFault(t) \/ EndWait(t) \/ Decide(t)
  <2>1. Settled(t)
    BY <1>2, SettledFacts
  <2>2. pc[t] \in Admitted
    BY <1>2 DEF CheckBudget, Sample, CountFault, EndWait, Decide, Admitted, Faulting
  <2> QED BY <2>1, <2>2 DEF Due, Settled
<1>3. CASE Call(t) \/ LoadPlan(t) \/ LoadBinding(t) \/ StoreBinding(t) \/ CheckOwner(t) \/ Done(t)
  <2>1. pc'[t] \notin Admitted
    BY <1>0, <1>3 DEF TypeOK, Call, LoadPlan, LoadBinding, StoreBinding, CheckOwner, Done, Goto,
       Finish, Admitted, Faulting
  <2> QED BY <2>1 DEF Due
<1> QED BY <1>1, <1>2, <1>3 DEF Step

\* WindowInv is inductive.
LEMMA NextWindow == WindowInv /\ [Next]_vars => WindowInv'
<1> SUFFICES ASSUME WindowInv, [Next]_vars PROVE WindowInv'
  OBVIOUS
<1>1. Routing /\ Routing'
  BY NextRouting DEF WindowInv
<1>2. ASSUME NEW u \in Threads, Step(u), NEW t \in Threads PROVE Due(t)'
  <2>1. CASE t = u
    BY <1>1, <1>2, <2>1, OwnDue DEF WindowInv
  <2>2. CASE t # u
    BY <1>1, <1>2, <2>2, OthersUntouched, UntouchedDue DEF WindowInv
  <2> QED BY <2>1, <2>2
<1>3. ASSUME Set \/ Disable \/ Enable \/ Tick \/ UNCHANGED vars, NEW t \in Threads PROVE Due(t)'
  BY <1>1, <1>3, ControlSteps, ControlUntouched, UntouchedDue DEF WindowInv
<1> QED BY <1>1, <1>2, <1>3 DEF Next, WindowInv

\* No call is faulted before From, nor one that began after Until (intercept).
THEOREM FaultsAlwaysDue == Spec => []FaultsAreDue
<1>1. Init => WindowInv
  <2> SUFFICES ASSUME Init, NEW t \in Threads PROVE Due(t)
    BY InitRouting DEF WindowInv
  <2> QED BY DEF Init, Due, Admitted, Faulting
<1>2. WindowInv => FaultsAreDue
  BY DEF WindowInv, Due, FaultsAreDue, Admitted
<1> QED BY <1>1, <1>2, NextWindow, PTL DEF Spec

\* What a step can be to one call: its own, or one that leaves it alone.
LEMMA StepOf ==
  ASSUME Routing, [Next]_vars, NEW t \in Threads
  PROVE  Step(t) \/ Untouched(t)
<1>1. ASSUME NEW u \in Threads, Step(u), u # t PROVE Untouched(t)
  BY <1>1, OthersUntouched
<1>2. ASSUME Set \/ Disable \/ Enable \/ Tick \/ UNCHANGED vars PROVE Untouched(t)
  BY <1>2, ControlSteps, ControlUntouched
<1> QED BY <1>1, <1>2 DEF Next

-----------------------------------------------------------------------------
(* Sampling ordinals *)

\* An ordinal a call holds has been counted by its table.
Drawn(t) ==
  pc[t] \in Faulting => ordinal[t] <= seq[bd[t]][call[t].method]

OrdinalInv == Routing /\ OrdinalsDistinct /\ \A t \in Threads : Drawn(t)

\* The sampling counters only grow (atomic.AddUint64).
LEMMA SeqGrows ==
  ASSUME Routing, [Next]_vars, NEW i \in BindingIds, NEW m \in Methods
  PROVE  seq[i][m] \in Nat /\ seq'[i][m] \in Nat /\ seq'[i][m] >= seq[i][m]
<1>0. TypeOK /\ seq[i][m] \in Nat
  BY DEF Routing, TypeOK
<1>1. ASSUME NEW t \in Threads, Sample(t) PROVE seq'[i][m] \in {seq[i][m], seq[i][m] + 1}
  <2>1. seq' = [seq EXCEPT ![bd[t]][call[t].method] = @ + 1]
    BY <1>1 DEF Sample, Advanced
  <2> QED BY <1>0, <2>1 DEF TypeOK
<1>2. ASSUME NEW t \in Threads, Step(t), ~Sample(t) PROVE seq' = seq
  BY <1>2 DEF Step, Call, LoadPlan, LoadBinding, StoreBinding, CheckOwner, CheckWindow,
     CheckBudget, CountFault, EndWait, Decide, Done
<1>3. ASSUME Set \/ Disable \/ Enable \/ Tick \/ UNCHANGED vars PROVE seq' = seq
  BY <1>3 DEF Set, Disable, Enable, Rebuild, Tick, vars
<1> QED BY <1>0, <1>1, <1>2, <1>3 DEF Next

\* A call that holds an ordinal has just drawn it or held it before, in the same
\* table and for the same method.
LEMMA OrdinalSteps ==
  ASSUME Routing, [Next]_vars, NEW t \in Threads, (pc[t] \in Faulting)'
  PROVE  \/ /\ Sample(t)
            /\ bd'[t] = bd[t] /\ call'[t] = call[t]
            /\ bd[t] \in BindingIds /\ call[t].method \in Methods
            /\ ordinal'[t] = seq[bd[t]][call[t].method] + 1
            /\ seq'[bd[t]][call[t].method] = seq[bd[t]][call[t].method] + 1
         \/ /\ pc[t] \in Faulting
            /\ bd'[t] = bd[t] /\ call'[t] = call[t] /\ ordinal'[t] = ordinal[t]
            /\ bd[t] \in BindingIds /\ call[t].method \in Methods
<1>0. TypeOK
  BY DEF Routing
<1>1. pc[t] \in Resolved => bd[t] \in BindingIds /\ call[t].method \in Methods
  BY RuleFacts
<1>2. CASE Untouched(t)
  <2>1. pc[t] \in Faulting
    BY <1>2 DEF Untouched, Faulting
  <2> QED BY <1>1, <1>2, <2>1 DEF Untouched, Faulting, Resolved
<1>3. CASE Sample(t)
  <2>1. pc[t] \in Resolved
    BY <1>3 DEF Sample, Resolved
  <2>2. ordinal'[t] = seq[bd[t]][call[t].method] + 1 /\ bd'[t] = bd[t] /\ call'[t] = call[t]
    BY <1>0, <1>3 DEF TypeOK, Sample, callVars
  <2>3. seq'[bd[t]][call[t].method] = seq[bd[t]][call[t].method] + 1
    BY <1>0, <1>1, <1>3, <2>1 DEF TypeOK, Sample, Advanced
  <2> QED BY <1>1, <1>3, <2>1, <2>2, <2>3
<1>4. CASE CountFault(t) \/ EndWait(t)
  <2>1. /\ pc[t] \in Faulting /\ pc[t] \in Resolved
        /\ bd'[t] = bd[t] /\ call'[t] = call[t] /\ ordinal'[t] = ordinal[t]
    BY <1>4 DEF CountFault, EndWait, Faulting, Resolved, callVars
  <2> QED BY <1>1, <2>1
<1>5. CASE Step(t) /\ ~Sample(t) /\ ~CountFault(t) /\ ~EndWait(t)
  <2>1. pc'[t] \notin Faulting
    BY <1>0, <1>5 DEF TypeOK, Step, Call, LoadPlan, LoadBinding, StoreBinding, CheckOwner,
       CheckWindow, CheckBudget, Decide, Done, Goto, Finish, Faulting
  <2> QED BY <2>1 DEF Faulting
<1> QED BY <1>2, <1>3, <1>4, <1>5, StepOf

\* OrdinalInv is inductive: what a call draws is larger than all its table has
\* given out.
LEMMA NextOrdinals == OrdinalInv /\ [Next]_vars => OrdinalInv'
<1> SUFFICES ASSUME OrdinalInv, [Next]_vars PROVE OrdinalInv'
  OBVIOUS
<1>1. Routing /\ Routing' /\ ordinal \in [Threads -> Nat]
  BY NextRouting DEF OrdinalInv, Routing, TypeOK
<1>2. ASSUME NEW t \in Threads PROVE Drawn(t)'
  <2> SUFFICES ASSUME (pc[t] \in Faulting)'
               PROVE  ordinal'[t] <= seq'[bd'[t]][call'[t].method]
    BY DEF Drawn
  <2>1. /\ bd'[t] = bd[t] /\ call'[t] = call[t]
        /\ bd[t] \in BindingIds /\ call[t].method \in Methods
    BY <1>1, OrdinalSteps
  <2>2. /\ seq[bd[t]][call[t].method] \in Nat /\ seq'[bd[t]][call[t].method] \in Nat
        /\ seq'[bd[t]][call[t].method] >= seq[bd[t]][call[t].method]
    BY <1>1, <2>1, SeqGrows
  <2>3. pc[t] \in Faulting => ordinal[t] <= seq[bd[t]][call[t].method]
    BY DEF OrdinalInv, Drawn
  <2>4. ordinal[t] \in Nat
    BY <1>1
  <2> QED BY <1>1, <2>1, <2>2, <2>3, <2>4, OrdinalSteps
<1>3. OrdinalsDistinct'
  <2> SUFFICES ASSUME NEW t \in Threads, NEW u \in Threads, t # u,
                      (pc[t] \in Faulting)', (pc[u] \in Faulting)',
                      bd'[t] = bd'[u], call'[t].method = call'[u].method
               PROVE  ordinal'[t] # ordinal'[u]
    BY DEF OrdinalsDistinct
  <2>1. ASSUME NEW x \in Threads, NEW y \in Threads, x # y, Sample(x), (pc[y] \in Faulting)',
               (pc[x] \in Faulting)', bd'[x] = bd'[y], call'[x].method = call'[y].method
        PROVE  ordinal'[x] # ordinal'[y]
    <3>1. pc[x] = "sampling"
      BY <2>1 DEF Sample
    <3>2. /\ ordinal'[x] = seq[bd[x]][call[x].method] + 1
          /\ bd'[x] = bd[x] /\ call'[x] = call[x]
          /\ bd[x] \in BindingIds /\ call[x].method \in Methods
      BY <1>1, <2>1, <3>1, OrdinalSteps DEF Faulting
    <3>3. Untouched(y)
      BY <1>1, <2>1, OthersUntouched DEF Step
    <3>4. pc[y] \in Faulting /\ bd'[y] = bd[y] /\ call'[y] = call[y] /\ ordinal'[y] = ordinal[y]
      BY <2>1, <3>3 DEF Untouched, Faulting
    <3>5. ordinal[y] <= seq[bd[x]][call[x].method]
      BY <2>1, <3>2, <3>4 DEF OrdinalInv, Drawn
    <3>6. seq[bd[x]][call[x].method] \in Nat /\ ordinal[y] \in Nat
      BY <1>1, <3>2, SeqGrows
    <3> QED BY <3>2, <3>4, <3>5, <3>6
  <2>2. CASE Sample(t)
    BY <2>1, <2>2
  <2>3. CASE Sample(u)
    BY <2>1, <2>3
  <2>4. CASE ~Sample(t) /\ ~Sample(u)
    <3>1. /\ pc[t] \in Faulting /\ bd'[t] = bd[t] /\ call'[t] = call[t] /\ ordinal'[t] = ordinal[t]
          /\ pc[u] \in Faulting /\ bd'[u] = bd[u] /\ call'[u] = call[u] /\ ordinal'[u] = ordinal[u]
      BY <1>1, <2>4, OrdinalSteps
    <3> QED BY <3>1 DEF OrdinalInv, OrdinalsDistinct
  <2> QED BY <2>2, <2>3, <2>4
<1> QED BY <1>1, <1>2, <1>3 DEF OrdinalInv

\* No two calls in flight through one table are sampled under one ordinal.
THEOREM OrdinalsAlwaysDistinct == Spec => []OrdinalsDistinct
<1>1. Init => OrdinalInv
  BY InitRouting DEF Init, OrdinalInv, OrdinalsDistinct, Drawn, Faulting
<1>2. OrdinalInv => OrdinalsDistinct
  BY DEF OrdinalInv
<1> QED BY <1>1, <1>2, NextOrdinals, PTL DEF Spec

-----------------------------------------------------------------------------
(* Budgets *)

BudgetInv == Routing /\ BoundedOverrun

\* A call joins those pending under a rule only by passing its budget check.
LEMMA PendingSteps ==
  ASSUME Routing, [Next]_vars, NEW p, NEW r, NEW t \in Threads, (t \in Pending(p, r))'
  PROVE  \/ t \in Pending(p, r)
         \/ CheckBudget(t) /\ ~Spent(t) /\ pc[t] = "budgeting" /\ plan[t] = p /\ Rule(t) = r
<1>0. TypeOK /\ TypeOK'
  BY NextRouting DEF Routing
<1>1. pc'[t] \in {"sampling", "counting"} /\ plan'[t] = p /\ Rule(t)' = r
  BY DEF Pending
<1>2. CASE Untouched(t)
  <2>1. pc[t] \in {"sampling", "counting"} /\ pc[t] \in Resolved /\ plan[t] = p
    BY <1>1, <1>2 DEF Untouched, Resolved
  <2>2. Rule(t)' = Rule(t)
    BY <1>0, <1>2, <2>1, UntouchedCall
  <2> QED BY <1>1, <2>1, <2>2 DEF Pending
<1>3. CASE CheckBudget(t)
  <2>1. Settled(t) /\ pc[t] = "budgeting"
    BY <1>3, SettledFacts DEF CheckBudget
  <2>2. ~Spent(t)
    BY <1>0, <1>1, <1>3 DEF TypeOK, CheckBudget, Finish, Goto
  <2> QED BY <1>1, <1>3, <2>1, <2>2 DEF Settled
<1>4. CASE Sample(t)
  <2>1. Settled(t) /\ pc[t] = "sampling"
    BY <1>4, SettledFacts DEF Sample
  <2> QED BY <1>1, <2>1 DEF Settled, Pending
<1>5. CASE Step(t) /\ ~CheckBudget(t) /\ ~Sample(t)
  <2>1. pc'[t] \notin {"sampling", "counting"}
    BY <1>0, <1>5 DEF TypeOK, Step, Call, LoadPlan, LoadBinding, StoreBinding, CheckOwner,
       CheckWindow, CountFault, EndWait, Decide, Done, Goto, Finish
  <2> QED BY <1>1, <2>1
<1> QED BY <1>2, <1>3, <1>4, <1>5, StepOf

\* Pending calls are among the goroutines.
LEMMA PendingFacts ==
  ASSUME NEW p, NEW r
  PROVE  /\ Pending(p, r) \subseteq Threads
         /\ IsFiniteSet(Pending(p, r)) /\ IsFiniteSet(Threads)
         /\ Cardinality(Pending(p, r)) \in Nat /\ Cardinality(Threads) \in Nat
         /\ Cardinality(Pending(p, r)) <= Cardinality(Threads)
<1>1. Pending(p, r) \subseteq Threads /\ IsFiniteSet(Threads)
  BY InjectorAssumption DEF Pending
<1> QED BY <1>1, FS_Subset, FS_CardinalityType

\* A fault is counted for the rule and plan of its call, and by one.
LEMMA BudgetSteps ==
  ASSUME Routing, [Next]_vars, NEW p \in PlanIds, NEW r \in AllRules
  PROVE  \/ budget'[p][r] = budget[p][r]
         \/ \E t \in Threads : /\ CountFault(t) /\ t \in Pending(p, r) /\ (t \notin Pending(p, r))'
                               /\ budget'[p][r] = budget[p][r] + 1
<1>0. TypeOK
  BY DEF Routing
<1>1. ASSUME NEW t \in Threads, CountFault(t)
      PROVE  \/ budget'[p][r] = budget[p][r]
             \/ /\ t \in Pending(p, r) /\ (t \notin Pending(p, r))'
                /\ budget'[p][r] = budget[p][r] + 1
  <2>1. pc[t] = "counting" /\ pc'[t] \in {"waiting", "deciding"}
    BY <1>0, <1>1 DEF TypeOK, CountFault, Goto
  <2>2. binding[bd[t]].plan = plan[t]
    BY <2>1, RuleFacts DEF Resolved
  <2>3. CASE plan[t] = p /\ Rule(t) = r
    <3>1. t \in Pending(p, r) /\ (t \notin Pending(p, r))'
      BY <2>1, <2>3 DEF Pending
    <3>2. budget'[p][r] \in {budget[p][r], budget[p][r] + 1}
      BY <1>0, <1>1, <2>2, <2>3 DEF TypeOK, CountFault
    <3> QED BY <3>1, <3>2
  <2>4. CASE ~(plan[t] = p /\ Rule(t) = r)
    BY <1>0, <1>1, <2>2, <2>4 DEF TypeOK, CountFault
  <2> QED BY <2>3, <2>4
<1>2. ASSUME NEW t \in Threads, Step(t), ~CountFault(t) PROVE budget' = budget
  BY <1>2 DEF Step, Call, LoadPlan, LoadBinding, StoreBinding, CheckOwner, CheckWindow,
     CheckBudget, Sample, EndWait, Decide, Done
<1>3. ASSUME Set \/ Disable \/ Enable \/ Tick \/ UNCHANGED vars PROVE budget' = budget
  BY <1>3 DEF Set, Disable, Enable, Rebuild, Tick, vars
<1> QED BY <1>1, <1>2, <1>3 DEF Next

\* BudgetInv is inductive: who passes the check saw the budget below MaxCount,
\* and there are no more pending calls than goroutines.
LEMMA NextBudget == BudgetInv /\ [Next]_vars => BudgetInv'
<1> SUFFICES ASSUME BudgetInv, [Next]_vars PROVE BudgetInv'
  OBVIOUS
<1>1. Routing /\ Routing'
  BY NextRouting DEF BudgetInv
<1>2. ASSUME NEW p \in PlanIds, NEW r \in AllRules, r.maxCount > 0
      PROVE  budget'[p][r] + Cardinality(Pending(p, r)')
               <= r.maxCount + Cardinality(Threads) - 1
  <2> DEFINE before == Pending(p, r)
             after == Pending(p, r)'
  <2>0. budget[p][r] \in Nat /\ budget'[p][r] \in Nat /\ r.maxCount \in Nat
    <3>1. r \in RuleDomain
      BY AllRulesFacts
    <3> QED BY <1>1, <3>1 DEF Routing, TypeOK, RuleDomain
  <2>1. /\ before \subseteq Threads /\ IsFiniteSet(before) /\ IsFiniteSet(Threads)
        /\ Cardinality(before) \in Nat /\ Cardinality(Threads) \in Nat
    BY PendingFacts
  <2>2. after \subseteq Threads /\ \A t \in after : t \in Threads
    BY DEF Pending
  <2>3. IsFiniteSet(after) /\ Cardinality(after) \in Nat /\ Cardinality(after) <= Cardinality(Threads)
    BY <2>1, <2>2, FS_Subset, FS_CardinalityType
  <2>4. budget[p][r] + Cardinality(before) <= r.maxCount + Cardinality(Threads) - 1
    BY <1>2 DEF BudgetInv, BoundedOverrun
  <2> HIDE DEF after, before
  <2>5. CASE after \subseteq before
    <3>1. Cardinality(after) <= Cardinality(before)
      BY <2>1, <2>5, FS_Subset
    <3>2. CASE budget'[p][r] = budget[p][r]
      BY <2>0, <2>1, <2>3, <2>4, <3>1, <3>2 DEF after
    <3>3. CASE \E t \in before : t \notin after /\ budget'[p][r] = budget[p][r] + 1
      <4>1. PICK t \in before : t \notin after /\ budget'[p][r] = budget[p][r] + 1
        BY <3>3
      <4>2. Cardinality(after) # Cardinality(before)
        BY <2>1, <2>5, <4>1, FS_Subset
      <4> QED BY <2>0, <2>1, <2>3, <2>4, <3>1, <4>1, <4>2 DEF after
    <3> QED BY <1>1, <3>2, <3>3, BudgetSteps DEF after, before
  <2>6. CASE ~(after \subseteq before)
    <3>1. PICK t \in after : t \notin before
      BY <2>6
    <3>2. t \in Threads
      BY <2>2, <3>1 DEF after
    <3>3. CheckBudget(t) /\ ~Spent(t) /\ pc[t] = "budgeting" /\ plan[t] = p /\ Rule(t) = r
      BY <1>1, <3>1, <3>2, PendingSteps DEF after, before
    <3>4. budget' = budget
      BY <3>3 DEF CheckBudget
    <3>5. binding[bd[t]].plan = p
      BY <1>1, <3>2, <3>3, RuleFacts DEF Resolved
    <3>6. budget[p][r] < r.maxCount
      BY <1>2, <2>0, <3>3, <3>5 DEF Spent, Budget
    <3> QED BY <2>0, <2>1, <2>3, <3>4, <3>6 DEF after
  <2> QED BY <2>5, <2>6
<1> QED BY <1>1, <1>2 DEF BudgetInv, BoundedOverrun

\* MaxCount is overrun by less than the number of goroutines, whatever the rule
\* sets and however the calls interleave (intercept).
THEOREM OverrunAlwaysBounded == Spec => []BoundedOverrun
<1>1. Init => BudgetInv
  <2> SUFFICES ASSUME Init, NEW p \in PlanIds, NEW r \in AllRules, r.maxCount > 0
               PROVE  budget[p][r] + Cardinality(Pending(p, r))
                        <= r.maxCount + Cardinality(Threads) - 1
    BY InitRouting DEF BudgetInv, BoundedOverrun
  <2>1. Pending(p, r) = {}
    BY DEF Init, Pending
  <2>2. budget[p][r] = 0
    BY DEF Init
  <2>3. r.maxCount \in Nat
    BY AllRulesFacts DEF RuleDomain
  <2>4. Cardinality(Pending(p, r)) = 0 /\ Cardinality(Threads) \in Nat
    BY <2>1, FS_EmptySet, PendingFacts
  <2> QED BY <2>2, <2>3, <2>4
<1>2. BudgetInv => BoundedOverrun
  BY DEF BudgetInv
<1> QED BY <1>1, <1>2, NextBudget, PTL DEF Spec
=============================================================================
