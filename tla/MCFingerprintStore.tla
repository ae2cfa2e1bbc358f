------------------------- MODULE MCFingerprintStore -------------------------
(* Two users and two prints: a print can be enrolled for the one while the  *)
(* other's database is on its way.  Users and prints are interchangeable.   *)
EXTENDS FingerprintStore, TLC

Symmetry == Permutations(Groups) \cup Permutations(Prints)
=============================================================================
