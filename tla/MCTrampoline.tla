---------------------------- MODULE MCTrampoline ----------------------------
(***************************************************************************)
(* The instance of Trampoline that TLC checks: both architectures and the  *)
(* stack areas at the edges of what a shape can be.                        *)
(***************************************************************************)
EXTENDS Trampoline

\* different in every part, so that a lost or misplaced part shows
DispatchAddress == <<\h8001, \h1234, \h00ff, \h0042>>

Shape(index, argWords, retWords, argPtrs, retPtrs) ==
  [index |-> index, argWords |-> argWords, retWords |-> retWords,
   argPtrs |-> argPtrs, retPtrs |-> retPtrs]

\* the first and the last of the generic trampolines: stackWindow in words
Generic == {Shape(k, 60, 0, {}, {}) : k \in {0, 127}}

\* from no arguments to one where the clears' displacements outgrow a byte
Small ==
  {Shape(2, 0, 0, {}, {})} \cup
  UNION {{Shape(1, n, 2, {i \in {0, n - 1} : i < n} \ {-1}, p) : p \in SUBSET {0, 1}} :
           n \in {0, 1, 7, 8, 14, 15, 16, 17}}

\* every word of the window a pointer: as results and as arguments
Full == {Shape(5, 0, 60, {}, 0..59), Shape(5, 60, 0, 0..59, {}),
         Shape(5, 31, 29, {0, 30}, {0, 28})}

MCShapes == Generic \cup Small \cup Full

AtPrologue == {<<"arm64", 8>>}
=============================================================================
