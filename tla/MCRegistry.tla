----------------------------- MODULE MCRegistry -----------------------------
(***************************************************************************)
(* The instance of Registry that TLC checks.                               *)
(***************************************************************************)
EXTENDS Registry

CONSTANTS t1, t2, init, a, b, plain, wide, nobody

\* One stack area at two indexes, two at one, a method beyond the last slot, and one
\* no trampoline can take after one that had one generated.
MCInterfaces ==  {<<a>>, <<plain, a>>, <<plain, plain>>, <<b, wide>>}
=============================================================================
