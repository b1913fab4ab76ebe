----------------------------- MODULE MCInjector -----------------------------
(***************************************************************************)
(* The instance of Injector that TLC checks.                               *)
(***************************************************************************)
EXTENDS Injector, TLC

MCIfaceOf == [b \in Binders |-> CHOOSE i \in Ifaces : TRUE]

Rule1(iface, method, hits, maxCount, from, until, delays, decides) ==
  [iface |-> iface, method |-> method, hits |-> hits, maxCount |-> maxCount,
   from |-> from, until |-> until, delays |-> delays, decides |-> decides]

Ordinals == 1..MaxCalls

\* every method of every interface fails, once
FailOnce == <<Rule1(Wildcard, Wildcard, Ordinals, 1, 0, 0, FALSE, "error")>>

\* Get panics on every other call at time 2, neither before nor after; every other method
\* of Repo is delayed once; whatever else there is fails
Layered ==
  <<Rule1("Repo", Wildcard, Ordinals, 1, 0, 0, TRUE, "nothing"),
    Rule1("Repo", "Get", {k \in Ordinals : k % 2 = 1}, 0, 2, 2, FALSE, "panic"),
    Rule1(Wildcard, Wildcard, Ordinals, 0, 0, 0, FALSE, "error")>>

\* a set validateSet rejects
Rejected ==
  <<Rule1("Repo", Wildcard, Ordinals, 0, 0, 0, TRUE, "nothing"),
    Rule1(Wildcard, "Get", Ordinals, 0, 0, 0, TRUE, "nothing")>>

MCRuleSets == {FailOnce, Layered, Rejected}
OnlyFailOnce == {FailOnce}

Symmetry == Permutations(Threads) \cup Permutations(Binders)
=============================================================================
