---------------------------- MODULE MCCallPath ----------------------------
(***************************************************************************)
(* The instance of CallPath that TLC checks.                               *)
(***************************************************************************)
EXTENDS CallPath, TLC

Symmetry == Permutations(Calls) \cup Permutations(States)
=============================================================================
