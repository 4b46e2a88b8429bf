------------------------- MODULE MCAcceptanceGates -------------------------
(* A small instance of AcceptanceGates.  A behaviour ends with the first   *)
(* package that is accepted or the first kept verdict of the closure       *)
(* verifier: neither writes a file that another command reads.             *)
EXTENDS AcceptanceGates, TLC

Symm == Permutations(Authorities) \cup Permutations(Observations)
            \cup Permutations(Evaluators) \cup Permutations(Acceptors)

MCNext == Next /\ \A c \in Commands : job[c].res = "none"

MCSpec == Init /\ [][MCNext]_vars
===========================================================================
