---------------------------- MODULE ControlPlane ----------------------------
(***************************************************************************)
(* How faults described as data become a plan: documents are converted     *)
(* (chaos/spec.go), the rules validated, copied into the injector and      *)
(* compiled (chaos/chaos.go), while whoever pushed them goes on changing   *)
(* the slices it still holds, and reads back and changes those of Rules.   *)
(*                                                                         *)
(* Rules are values but for their slices of actions, which two rules can    *)
(* share: what is written into one then shows in the other.                *)
(***************************************************************************)
EXTENDS RuleSet, Integers, SequencesExt

CONSTANTS
  Documents,   \* what arrives: sequences of Spec values
  DurationOf,  \* the texts time.ParseDuration takes, and what they mean
  TimeOf,      \* the texts time.Parse takes; 0 is the zero time
  Width,       \* the bits of a time.Duration
  Edits        \* actions a client writes into a slice it holds

\* Fields Err and Panic of an Action: set or nil.
Action == [latency : Int, err : BOOLEAN, panic : BOOLEAN]

SpecDomain == [iface : Ifaces \cup {Wildcard}, method : Methods \cup {Wildcard},
          rate : {"in", "out"}, maxCount : Int, from : STRING, until : STRING,
          actions : Seq([latency : STRING, error : BOOLEAN, panic : BOOLEAN])]

ASSUME ControlPlaneAssumption ==
  /\ \A doc \in Documents : doc \in Seq(SpecDomain)
  /\ Edits \subseteq Action
  /\ Width \in Nat \ {0}
  /\ \A t \in DOMAIN DurationOf : t # "" /\ DurationOf[t] \in -(2^(Width - 1))..2^(Width - 1) - 1
  /\ \A t \in DOMAIN TimeOf : t # "" /\ TimeOf[t] \in Nat

VARIABLES
  mine,     \* the rules the client holds
  shared,   \* whether their slices are those of the injector's rules
  rules,    \* Injector.rules
  enabled,  \* Injector.enabled
  plan,     \* Injector.plan: for each condition what compiled says
  inForce   \* history: what the rules said when they were last set

vars == <<mine, shared, rules, enabled, plan, inForce>>

-----------------------------------------------------------------------------
(* SpecAction.action and Spec.Rule *)

Count(set) == Cardinality({x \in DOMAIN set : set[x]})

\* exactly one fault, and a latency that parses
Usable(a) ==
  /\ Count(<<a.latency # "", a.error, a.panic>>) = 1
  /\ a.latency # "" => a.latency \in DOMAIN DurationOf

ToAction(a) ==
  [latency |-> IF a.latency = "" THEN 0 ELSE DurationOf[a.latency],
   err |-> a.error, panic |-> a.panic]

Time(text) == IF text = "" THEN 0 ELSE TimeOf[text]

\* a rule with its actions by value
ToRule(s) ==
  [iface |-> s.iface, method |-> s.method, rate |-> s.rate, maxCount |-> s.maxCount,
   from |-> Time(s.from), until |-> Time(s.until),
   actions |-> [i \in DOMAIN s.actions |-> ToAction(s.actions[i])]]

Decides(a) == a.err \/ a.panic

\* Mutant: an action after the one that decides let through
AnyPlace(acts) == TRUE

OnlyLastDecides(acts) == \A i \in DOMAIN acts : Decides(acts[i]) => i = Len(acts)

Check(r) ==
  /\ r.rate = "in" /\ r.maxCount >= 0
  /\ ~(r.from # 0 /\ r.until # 0 /\ r.from > r.until)
  /\ r.actions # <<>>
  /\ \A i \in DOMAIN r.actions :
       LET a == r.actions[i] IN
       a.latency >= 0 /\ Count(<<a.latency > 0, a.err, a.panic>>) = 1
  /\ OnlyLastDecides(r.actions)

Convertible(s) ==
  /\ \A i \in DOMAIN s.actions : Usable(s.actions[i])
  /\ {s.from, s.until} \subseteq DOMAIN TimeOf \cup {""}
  /\ Check(ToRule(s))

-----------------------------------------------------------------------------
(* The injector *)

ValidSet(rs) == (\A k \in DOMAIN rs : Check(rs[k])) /\ ValidConditions(rs)

\* what a sum is in Width bits
Duration(n) == ((n + 2^(Width - 1)) % 2^Width) - 2^(Width - 1)

\* rebuild: latencies added up, the last error and the last panic kept
Flatten(acts) ==
  FoldLeft(LAMBDA c, a :
             IF a.latency > 0 THEN [c EXCEPT !.latency = Duration(@ + a.latency)]
             ELSE IF a.err THEN [c EXCEPT !.err = TRUE]
             ELSE IF a.panic THEN [c EXCEPT !.panic = TRUE] ELSE c,
           [latency |-> 0, err |-> FALSE, panic |-> FALSE], acts)

Compiled(r) ==
  [rate |-> r.rate, maxCount |-> r.maxCount, from |-> r.from, until |-> r.until,
   does |-> Flatten(r.actions)]

ConditionOf(r) == [iface |-> r.iface, method |-> r.method]

Rebuilt(rs, on) ==
  [c \in IF on THEN {ConditionOf(r) : r \in RulesOf(rs)} ELSE {} |->
     Compiled(CHOOSE r \in RulesOf(rs) : SameCondition(r, c))]

\* Mutant: copy(out, rules) alone, which copies the rules but not what they refer to
RulesCopied(rs) == [rules |-> rs, shared |-> TRUE]

\* cloneRules: equal rules with slices of their own
Cloned(rs) == [rules |-> rs, shared |-> FALSE]

-----------------------------------------------------------------------------
(* What the documentation says of a list of actions: they are applied one  *)
(* by one; delays stack, an error or a panic decides the call and ends it. *)

Meaning(acts) ==
  LET run[i \in 0..Len(acts)] ==
        IF i = 0 THEN [delay |-> 0, outcome |-> "call"]
        ELSE IF run[i - 1].outcome # "call" THEN run[i - 1]
        ELSE [delay |-> run[i - 1].delay + acts[i].latency,
              outcome |-> IF acts[i].err THEN "error"
                          ELSE IF acts[i].panic THEN "panic" ELSE "call"]
  IN run[Len(acts)]

\* intercept: the flattened actions of a faulted call
Effect(does) ==
  [delay |-> IF does.latency > 0 THEN does.latency ELSE 0,
   outcome |-> IF does.panic THEN "panic" ELSE IF does.err THEN "error" ELSE "call"]

Meant(rs) ==
  {[rule |-> [r EXCEPT !.actions = <<>>], means |-> Meaning(r.actions)] : r \in RulesOf(rs)}

-----------------------------------------------------------------------------
Init ==
  /\ mine = <<>> /\ rules = <<>> /\ plan = <<>>
  /\ enabled = TRUE /\ shared = FALSE
  /\ inForce = {}

\* A document that does not convert is reported and changes nothing.
Convert ==
  \E doc \in Documents :
    /\ \A k \in DOMAIN doc : Convertible(doc[k])
    /\ mine' = [k \in DOMAIN doc |-> ToRule(doc[k])]
    /\ shared' = FALSE
    /\ UNCHANGED <<rules, enabled, plan, inForce>>

\* Validate reports, Set panics: a rejected set leaves the injector as it was.
Set ==
  /\ ValidSet(mine)
  /\ rules' = Cloned(mine).rules /\ shared' = Cloned(mine).shared
  /\ enabled' = TRUE
  /\ plan' = Rebuilt(mine, TRUE)
  /\ inForce' = Meant(mine)
  /\ UNCHANGED mine

Disable ==
  /\ enabled' = FALSE
  /\ plan' = Rebuilt(rules, FALSE)
  /\ UNCHANGED <<mine, shared, rules, inForce>>

Enable ==
  /\ enabled' = TRUE
  /\ plan' = Rebuilt(rules, TRUE)
  /\ UNCHANGED <<mine, shared, rules, inForce>>

\* Rules: the client holds a copy instead of what it held
ReadBack ==
  /\ mine' = Cloned(rules).rules /\ shared' = Cloned(rules).shared
  /\ UNCHANGED <<rules, enabled, plan, inForce>>

\* the client writes into a slice of actions it holds
Edit ==
  \E k \in DOMAIN mine, a \in Edits :
    \E i \in DOMAIN mine[k].actions :
      /\ mine' = [mine EXCEPT ![k].actions[i] = a]
      /\ rules' = IF shared THEN [rules EXCEPT ![k].actions[i] = a] ELSE rules
      /\ UNCHANGED <<shared, enabled, plan, inForce>>

Next == Convert \/ Set \/ Disable \/ Enable \/ ReadBack \/ Edit

Spec == Init /\ [][Next]_vars

-----------------------------------------------------------------------------
(* Properties *)

\* The rules the injector holds would pass Validate again, and the plan is of them.
TypeOK ==
  /\ enabled \in BOOLEAN /\ shared \in BOOLEAN
  /\ \A r \in RulesOf(mine) \cup RulesOf(rules) : r.actions \in Seq(Action)
  /\ ValidSet(rules)
  /\ plan = Rebuilt(rules, enabled)

\* While injection is on, a faulted call gets exactly what the rules last pushed
\* said, action by action, whatever was done since to the slices they came in and
\* to those read back, and however often injection was turned off and on.
PlanIsWhatWasSet ==
  enabled =>
    /\ DOMAIN plan = {ConditionOf(m.rule) : m \in inForce}
    /\ \A m \in inForce :
         LET c == plan[ConditionOf(m.rule)] IN
         /\ Effect(c.does) = m.means
         /\ c = [c EXCEPT !.rate = m.rule.rate, !.maxCount = m.rule.maxCount,
                          !.from = m.rule.from, !.until = m.rule.until]
=============================================================================
