--------------------------- MODULE MCLocalStore ---------------------------
(* Small instance of LocalStore.                                           *)
EXTENDS LocalStore, TLC

Symm == Permutations(Writers) \cup Permutations(Sources)
===========================================================================
