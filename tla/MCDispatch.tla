----------------------------- MODULE MCDispatch -----------------------------
(***************************************************************************)
(* Instances of Dispatch for TLC: two or three clients on one or two       *)
(* workers.  The 8 of GetAvailableThread is scaled down with the threads.  *)
(***************************************************************************)
EXTENDS Dispatch

CONSTANTS c1, c2, c3

\* The clients that may leave, over a sound network, all do the same things.
ClientSymmetry == Permutations(Impatient \ Flaky)
=============================================================================
