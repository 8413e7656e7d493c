---------------------------- MODULE MC_Revocation ----------------------------
(* Two users, two concurrent mutators and a connection, on one protocol      *)
(* of each kind: slots with the index fallback whose service may refuse a    *)
(* set, slots with the empty user, and the name-keyed list, which may fail.  *)
EXTENDS Revocation, TLC

Symmetric == Permutations(Names) \cup Permutations(Versions)
             \cup Permutations(Conns) \cup Permutations(Mutators)
=============================================================================
