----------------------------- MODULE MCNetApply -----------------------------
(***************************************************************************)
(* NetApply on small instances.  Time is counted in units of five seconds, *)
(* so that the source's numbers, rounded, keep their proportions.          *)
(***************************************************************************)
EXTENDS NetApply

\* A request below the smallest window is clamped to it; 7 is above it.
Asked == {1}
AskedBoth == {1, 7}
=============================================================================
