----------------------------- MODULE MC_IPLimit -----------------------------
(* Two nodes share a subscription with two addresses and a third that is     *)
(* ignored; two sweepers, so that a node may be swept twice at once.         *)
EXTENDS IPLimit, TLC

Symmetric ==
    Permutations(IPs \ Ignored) \cup Permutations(Nodes) \cup Permutations(Conns)
    \cup Permutations(Sweepers)
=============================================================================
