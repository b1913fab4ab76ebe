----------------------------- MODULE MCMockito ------------------------------
(***************************************************************************)
(* The instance of Mockito that TLC checks.                                *)
(***************************************************************************)
EXTENDS Mockito, TLC

\* Once, AtLeast(1) and Never
MCChecks == {[lo |-> 1, hi |-> 1], [lo |-> 1, hi |-> MaxMade], [lo |-> 0, hi |-> 0]}

Symmetry == Permutations(Recorders) \cup Permutations(Goroutines \ Recorders)
=============================================================================
