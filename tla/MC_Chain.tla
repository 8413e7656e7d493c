------------------------------ MODULE MC_Chain ------------------------------
EXTENDS Chain

CONSTANTS t1, t2, u1, u2
=============================================================================
