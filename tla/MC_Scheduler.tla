---------------------------- MODULE MC_Scheduler ----------------------------
(* Two concurrent apiMonitor calls, three calls in all, and a certificate    *)
(* task object for each call that may add one.                               *)
EXTENDS Scheduler, TLC

CONSTANTS c1, c2, c3

Symmetric == Permutations({c1, c2, c3}) \cup Permutations(Actors)
=============================================================================
