--------------------------- MODULE AuditedAnswers ---------------------------
(***************************************************************************)
(* What an audited boundary promises to whoever reads its audit log,       *)
(* without threads, locks, torn lines or process deaths: an outcome is     *)
(* recorded before it is answered, a caller that was answered is never     *)
(* recorded or answered again, and no caller is on record with both        *)
(* outcomes.  The one answer that may go unrecorded says that the boundary *)
(* is unavailable.                                                         *)
(***************************************************************************)
CONSTANTS
    Callers,      \* connections
    Success,      \* the status of an emitted result
    Unavailable   \* the status that admits that nothing could be recorded

VARIABLES
    log,          \* the recorded events, which only become more
    answer        \* the status each caller has received, 0 for none

auditVars == <<log, answer>>

AuditInit ==
    /\ log = {}
    /\ answer = [c \in Callers |-> 0]

About(c) == {ev \in log : ev.conn = c}

Outcome(status) == IF status = Success THEN "EMITTED" ELSE "REJECTED"

\* An attempt to record may be repeated, but not with the other outcome.
Record(c) ==
    /\ answer[c] = 0
    /\ \E ev \in log' \ log :
          /\ ev.conn = c /\ ev.outcome = Outcome(ev.status)
          /\ \A e \in About(c) : e.outcome = ev.outcome
          /\ log' = log \cup {ev}
    /\ UNCHANGED answer

Answer(c) ==
    /\ answer[c] = 0
    /\ \E s \in {Unavailable} \cup {ev.status : ev \in About(c)} :
          answer' = [answer EXCEPT ![c] = s]
    /\ UNCHANGED log

AuditNext == \E c \in Callers : Record(c) \/ Answer(c)

AuditSpec == AuditInit /\ [][AuditNext]_auditVars
=============================================================================
