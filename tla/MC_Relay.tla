------------------------------ MODULE MC_Relay ------------------------------
EXTENDS Relay, TLC

CONSTANTS n1, n2, u1, u2, t1, t2

Symmetric == Permutations({n1, n2})
=============================================================================
