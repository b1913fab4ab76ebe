---------------------------- MODULE AroundAdvice ----------------------------
(***************************************************************************)
(* What a proxied call promises to those who write interceptors, with no   *)
(* registers, pool or collector in sight.  While a call is open,           *)
(* interceptors may replace its argument and run the target any number of  *)
(* times; every run is given the argument current at that moment; and the  *)
(* caller receives the result of the last run, or one an interceptor made  *)
(* up, or zero when the target was never run.  Calls do not interfere.     *)
(***************************************************************************)
EXTENDS Naturals

CONSTANT Calls

VARIABLES
  phase,    \* "idle", "open", "over" or "panicked"
  current,  \* the argument in force: "original" or "replaced"
  runs,     \* how often the target has been run
  given,    \* the argument of the last run
  outcome   \* what the caller received: a run's number, "own" or "zero"

vars == <<phase, current, runs, given, outcome>>

Own == [by |-> "interceptor", run |-> 0]
Zero == [by |-> "nobody", run |-> 0]
ResultOf(n) == [by |-> "target", run |-> n]
None == [by |-> "none", run |-> 0]

Init ==
  /\ phase = [c \in Calls |-> "idle"]
  /\ current = [c \in Calls |-> "original"]
  /\ runs = [c \in Calls |-> 0]
  /\ given = [c \in Calls |-> "none"]
  /\ outcome = [c \in Calls |-> None]

Open(c) ==
  /\ phase[c] = "idle"
  /\ phase' = [phase EXCEPT ![c] = "open"]
  /\ UNCHANGED <<current, runs, given, outcome>>

Replace(c) ==
  /\ phase[c] = "open"
  /\ current' = [current EXCEPT ![c] = "replaced"]
  /\ UNCHANGED <<phase, runs, given, outcome>>

Run(c) ==
  /\ phase[c] = "open"
  /\ runs' = [runs EXCEPT ![c] = @ + 1]
  /\ given' = [given EXCEPT ![c] = current[c]]
  /\ UNCHANGED <<phase, current, outcome>>

Finish(c) ==
  /\ phase[c] = "open"
  /\ phase' = [phase EXCEPT ![c] = "over"]
  /\ \E o \in {Own, IF runs[c] = 0 THEN Zero ELSE ResultOf(runs[c])} :
       outcome' = [outcome EXCEPT ![c] = o]
  /\ UNCHANGED <<current, runs, given>>

Panic(c) ==
  /\ phase[c] = "open"
  /\ phase' = [phase EXCEPT ![c] = "panicked"]
  /\ UNCHANGED <<current, runs, given, outcome>>

Next == \E c \in Calls : Open(c) \/ Replace(c) \/ Run(c) \/ Finish(c) \/ Panic(c)

Spec == Init /\ [][Next]_vars
=============================================================================
