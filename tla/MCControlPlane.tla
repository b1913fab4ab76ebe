--------------------------- MODULE MCControlPlane ---------------------------
(***************************************************************************)
(* The instance of ControlPlane that TLC checks.                           *)
(***************************************************************************)
EXTENDS ControlPlane, TLC

MCDurationOf == ("0s" :> 0) @@ ("1s" :> 1) @@ ("2s" :> 2) @@ ("-1s" :> -1)
MCTimeOf == ("noon" :> 12) @@ ("evening" :> 18)

Wait(text) == [latency |-> text, error |-> FALSE, panic |-> FALSE]
Error == [latency |-> "", error |-> TRUE, panic |-> FALSE]
Crash == [latency |-> "", error |-> FALSE, panic |-> TRUE]

Doc(iface, method, acts) ==
  [iface |-> iface, method |-> method, rate |-> "in", maxCount |-> 1,
   from |-> "noon", until |-> "", actions |-> acts]

\* every list of up to two actions on one method; sets of two rules; and what
\* conversion or validation rejects for another reason
Lists == UNION {[1..n -> {Wait("1s"), Wait("0s"), Wait("-1s"), Error, Crash}] : n \in 0..2}
MCDocuments ==
  {<<Doc("Repo", "Get", acts)>> : acts \in Lists}
    \cup {<<Doc("Repo", "Get", <<Wait("1s")>>), Doc("Repo", Wildcard, <<Wait("2s"), Error>>)>>,
          <<Doc("Repo", Wildcard, <<Error>>), Doc(Wildcard, "Get", <<Error>>)>>,
          <<Doc("Repo", "Get", <<Error>>), Doc("Repo", "Get", <<Crash>>)>>,
          <<Doc("Repo", "Get", <<Wait("soon")>>)>>,
          <<Doc("Repo", "Get", <<[Wait("1s") EXCEPT !.error = TRUE]>>)>>,
          <<[Doc("Repo", "Get", <<Error>>) EXCEPT !.rate = "out"]>>,
          <<[Doc("Repo", "Get", <<Error>>) EXCEPT !.maxCount = -1]>>,
          <<[Doc("Repo", "Get", <<Error>>) EXCEPT !.from = "evening", !.until = "noon"]>>,
          <<[Doc("Repo", "Get", <<Error>>) EXCEPT !.until = "evening"]>>,
          <<[Doc("Repo", "Get", <<Error>>) EXCEPT !.from = "later"]>>}

MCEdits ==
  {[latency |-> 2, err |-> FALSE, panic |-> FALSE],
   [latency |-> 0, err |-> FALSE, panic |-> TRUE],
   [latency |-> 2, err |-> TRUE, panic |-> FALSE]}
=============================================================================
