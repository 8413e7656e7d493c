----------------------------- MODULE MC_Periodic -----------------------------
(* Model values for TLC: four calls, six Start/Close steps.  The liveness    *)
(* properties rule symmetry out.                                             *)
EXTENDS Periodic
=============================================================================
