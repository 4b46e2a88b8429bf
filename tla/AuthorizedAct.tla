--------------------------- MODULE AuthorizedAct ---------------------------
(***************************************************************************)
(* What a fence in front of an act promises to whoever relies on it,       *)
(* without epochs, registries, clocks or separate reads: there is one      *)
(* instant between a caller's asking and its act at which the caller had   *)
(* the whole authority for it.  ReadPipeline (disclosing evidence) and     *)
(* EmissionFence (calling a transport) each implement it.                  *)
(***************************************************************************)
CONSTANT Callers    \* requests, or jobs, that want to act

VARIABLES
    justified,  \* the callers that have all their authority at this moment
    phase       \* "asking", "granted", "barred", "acted" or "refused"

actVars == <<justified, phase>>

ActInit ==
    /\ justified \subseteq Callers
    /\ phase = [c \in Callers |-> "asking"]

Becomes(c, p) == phase' = [phase EXCEPT ![c] = p] /\ UNCHANGED justified

\* Registrations, revocations, new epochs and time grant and take authority.
World == justified' \in SUBSET Callers /\ UNCHANGED phase

\* The one instant that counts, whatever the caller still has to go through.
Judge(c) ==
    /\ phase[c] = "asking"
    /\ \/ c \in justified /\ Becomes(c, "granted")
       \/ c \notin justified /\ Becomes(c, "barred")

Act(c) == phase[c] = "granted" /\ Becomes(c, "acted")

\* A fence may refuse a caller that was justified; it never has to act.
GiveUp(c) == phase[c] \in {"asking", "granted", "barred"} /\ Becomes(c, "refused")

AskAgain(c) == phase[c] = "refused" /\ Becomes(c, "asking")

ActNext == World \/ \E c \in Callers : Judge(c) \/ Act(c) \/ GiveUp(c) \/ AskAgain(c)

ActSpec == ActInit /\ [][ActNext]_actVars
=============================================================================
