----------------------------- MODULE MC_Polling -----------------------------
EXTENDS Polling

CONSTANTS t1, t2
=============================================================================
