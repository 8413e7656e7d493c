----------------------------- MODULE MC_Traffic -----------------------------
(* Two subscriptions reported in batches of one, two overlapping monitors.   *)
(* Liveness rules symmetry out.                                              *)
EXTENDS Traffic
=============================================================================
