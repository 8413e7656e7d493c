---------------------------- MODULE MC_Reconcile ----------------------------
(* Two subscriptions with two versions each, two tags, two speeds, a relay   *)
(* that is on or off; two operator changes and two faults.                   *)
EXTENDS Reconcile, TLC

Symmetric == Permutations(Users) \cup Permutations(Tags) \cup Permutations(Actors)
=============================================================================
