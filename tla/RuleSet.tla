------------------------------- MODULE RuleSet -------------------------------
(***************************************************************************)
(* The conditions of chaos rules (chaos/chaos.go): which rule sets         *)
(* validateSet accepts and which rule of a plan match finds for a call.    *)
(* A rule's fields other than its condition belong to Injector.            *)
(***************************************************************************)
EXTENDS Naturals, Sequences, FiniteSets

CONSTANTS
  Ifaces,    \* names of interface types
  Methods,   \* names of methods
  Wildcard,  \* the empty string: a wildcard
  NoRule     \* nil: no rule owns the call

ASSUME RuleSetAssumption == Wildcard \notin Ifaces /\ Wildcard \notin Methods

Condition == [iface : Ifaces \cup {Wildcard}, method : Methods \cup {Wildcard}]

SameCondition(r, s) == r.iface = s.iface /\ r.method = s.method
IfaceWild(r) == r.iface # Wildcard /\ r.method = Wildcard
MethodWild(r) == r.iface = Wildcard /\ r.method # Wildcard

(***************************************************************************)
(* What validateSet checks of the set once every rule has passed check: no *)
(* two rules with one condition, and no interface-scoped wildcard method   *)
(* beside a method-scoped wildcard interface.                              *)
(***************************************************************************)
ValidConditions(rules) ==
  /\ \A i, j \in DOMAIN rules : SameCondition(rules[i], rules[j]) => i = j
  /\ ~ \E i, j \in DOMAIN rules : IfaceWild(rules[i]) /\ MethodWild(rules[j])

RulesOf(rules) == {rules[i] : i \in DOMAIN rules}

-----------------------------------------------------------------------------
(* plan.match: from the most specific condition down *)

Claiming(plan, iface, method) == {r \in plan : r.iface = iface /\ r.method = method}

FirstOf(candidates, otherwise) ==
  IF candidates # {} THEN CHOOSE r \in candidates : TRUE ELSE otherwise

\* Mutant: the interface's wildcard is tried before its methods
MatchWildcardFirst(plan, iface, method) ==
  FirstOf(Claiming(plan, iface, Wildcard),
    FirstOf(Claiming(plan, iface, method),
      FirstOf(Claiming(plan, Wildcard, method),
        FirstOf(Claiming(plan, Wildcard, Wildcard), NoRule))))

Match(plan, iface, method) ==
  FirstOf(Claiming(plan, iface, method),
    FirstOf(Claiming(plan, iface, Wildcard),
      FirstOf(Claiming(plan, Wildcard, method),
        FirstOf(Claiming(plan, Wildcard, Wildcard), NoRule))))

-----------------------------------------------------------------------------
(* What the documentation of the package calls ownership *)

Covers(r, iface, method) ==
  /\ r.iface \in {iface, Wildcard}
  /\ r.method \in {method, Wildcard}

\* r's condition selects no call that s's does not
AtLeastAsSpecific(r, s) ==
  /\ s.iface \in {r.iface, Wildcard}
  /\ s.method \in {r.method, Wildcard}

Overlap(r, s) ==
  \E iface \in Ifaces, method \in Methods :
    Covers(r, iface, method) /\ Covers(s, iface, method)

\* the strict partial order a rule set has to be under specificity
StrictOrder(rules) ==
  \A i, j \in DOMAIN rules :
    i # j /\ Overlap(rules[i], rules[j]) =>
      /\ ~SameCondition(rules[i], rules[j])
      /\ \/ AtLeastAsSpecific(rules[i], rules[j])
         \/ AtLeastAsSpecific(rules[j], rules[i])

\* r owns the calls to method on iface: it covers them, and every other rule
\* that does is less specific
Owns(r, plan, iface, method) ==
  /\ r \in plan
  /\ Covers(r, iface, method)
  /\ \A s \in plan : Covers(s, iface, method) => AtLeastAsSpecific(r, s)
=============================================================================
