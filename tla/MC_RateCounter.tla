--------------------------- MODULE MC_RateCounter ---------------------------
(***************************************************************************)
(* Model-checking instance of RateCounter: two goroutines, a bucket of     *)
(* capacity 2 refilled at 1 token per second (a scaled-down Scenario A/B   *)
(* of the spec), one backward clock step.                                  *)
(***************************************************************************)
EXTENDS RateCounter, TLC

CONSTANTS w1, w2

MCWorkers == {w1, w2}

\* setRateCap that keeps the rate and shrinks the capacity, and one that
\* raises both.
MCRateCaps == {<<1, 1>>, <<2, 3>>}

WorkerSymmetry == Permutations(MCWorkers)
=============================================================================
