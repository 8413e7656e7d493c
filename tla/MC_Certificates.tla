-------------------------- MODULE MC_Certificates --------------------------
EXTENDS Certificates

CONSTANTS n1, n2, s1, s2
=============================================================================
