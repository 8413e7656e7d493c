----------------------------- MODULE MC_Instance -----------------------------
(* Two nodes, one of them with a self-signed certificate, two Reverb         *)
(* servers, a pushing task, a queue of one; a list change and a fault.       *)
(* Liveness rules symmetry out.                                              *)
EXTENDS Instance
=============================================================================
