--------------------------- MODULE MCKeyCustody ---------------------------
(* A small instance of KeyCustody.                                         *)
EXTENDS KeyCustody, TLC

Symm == Permutations(Callers)
===========================================================================
