-------------------------- MODULE MCHttpBoundary --------------------------
(* Small instance of HttpBoundary.                                         *)
EXTENDS HttpBoundary, TLC

Symm == Permutations(Conns)
===========================================================================
