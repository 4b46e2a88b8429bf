--------------------------- MODULE HttpBoundary ---------------------------
(***************************************************************************)
(* The loopback HTTP boundary (pmiri/http_api.py, LocalReadHTTPServer) and *)
(* its append-only audit file (pmiri/audit.py, JsonlAuditSink).            *)
(*                                                                         *)
(* A connection is served by a thread of its own.  The threads share the   *)
(* metrics counters and the audit file.  An append holds a thread lock and *)
(* a file lock around open, write, flush and fsync, so appends do not      *)
(* interleave; but an append may fail half-way (disk full, I/O error, the  *)
(* process dies), which leaves a fragment without a newline, or even the   *)
(* whole line when only the fsync failed.  The next append continues on    *)
(* the fragment's line, and read_verified then rejects that line.          *)
(*                                                                         *)
(* The read service behind the boundary is ReadPipeline; here it answers,  *)
(* raises ValueError, or raises anything else.                             *)
(***************************************************************************)
EXTENDS Naturals, Sequences

CONSTANTS
    Conns,       \* the connections served
    MaxFaults    \* bound: I/O faults and process deaths in one behaviour

ASSUME FaultsAssumption == MaxFaults \in Nat

VARIABLES conn, metrics, lines, torn, faults

vars == <<conn, metrics, lines, torn, faults>>

\* What the client sends, up to the checks do_GET and do_POST make in order.
EarlyReject == [getOther |-> 404, unknownPath |-> 404, wrongType |-> 415,
                noLength |-> 411, tooLarge |-> 413, badBody |-> 400,
                noAuthRef |-> 401]
Kinds == DOMAIN EarlyReject \cup {"probe", "read"}

(***************************************************************************)
(* conn[c]: pc; kind; status about to be sent; inTry, whether the send is  *)
(* still inside do_POST's try block; sent, the status the client received  *)
(* (0 for none).  History: rejections, how often the connection was        *)
(* counted as rejected; emitted, whether it was counted as emitted.        *)
(***************************************************************************)
NewConn(k) == [pc |-> "accept", kind |-> k, status |-> 0, inTry |-> FALSE,
               sent |-> 0, rejections |-> 0, emitted |-> FALSE]

Init ==
    /\ conn \in [Conns -> {NewConn(k) : k \in Kinds}]
    /\ metrics = [total |-> 0, emitted |-> 0, rejected |-> 0, auditFailures |-> 0]
    /\ lines = <<>>
    /\ torn = FALSE
    /\ faults = 0

Become(c, r) == conn' = [conn EXCEPT ![c] = r]

Event(c, outcome, status) == [conn |-> c, outcome |-> outcome, status |-> status]

---------------------------------------------------------------------------
(* JsonlAuditSink.append                                                   *)

\* One more line; it is a well-formed event only if it starts a fresh line.
LineWritten(ev) ==
    /\ lines' = Append(lines, [event |-> ev, whole |-> ~torn])
    /\ torn' = FALSE

AppendSucceeds(ev) == LineWritten(ev) /\ UNCHANGED faults

AppendFails(ev) ==
    /\ faults < MaxFaults
    /\ faults' = faults + 1
    /\ \/ UNCHANGED <<lines, torn>>                \* open or lock failed
       \/ torn' = TRUE /\ UNCHANGED lines          \* a fragment was written
       \/ LineWritten(ev)                          \* only the fsync failed

---------------------------------------------------------------------------
(* LocalReadHTTPServer                                                     *)

\* do_GET and do_POST count the request, then classify it.  The 401 of a request
\* without an authentication reference is sent from inside the try block.
Accept(c) ==
    LET k == conn[c].kind
    IN  /\ conn[c].pc = "accept"
        /\ metrics' = [metrics EXCEPT !.total = @ + 1]
        /\ \/ /\ k = "probe"
              /\ Become(c, [conn[c] EXCEPT !.pc = "send", !.status = 200])
           \/ /\ k = "read"
              /\ Become(c, [conn[c] EXCEPT !.pc = "dispatch"])
           \/ /\ k \in DOMAIN EarlyReject
              /\ Become(c, [conn[c] EXCEPT !.pc = "reject",
                                           !.status = EarlyReject[k],
                                           !.inTry = (k = "noAuthRef")])
        /\ UNCHANGED <<lines, torn, faults>>

\* operation_service.api_authenticated returns, raises ValueError or TypeError
\* (400), or raises any other exception (500).
Dispatch(c) ==
    /\ conn[c].pc = "dispatch"
    /\ \/ Become(c, [conn[c] EXCEPT !.pc = "auditEmission"])
       \/ \E status \in {400, 500} :
             Become(c, [conn[c] EXCEPT !.pc = "reject", !.status = status])
    /\ UNCHANGED <<metrics, lines, torn, faults>>

\* _reject: count, audit; a failed audit turns the status into 503.
Reject(c) ==
    LET ev == Event(c, "REJECTED", conn[c].status)
    IN  /\ conn[c].pc = "reject"
        /\ \/ /\ AppendSucceeds(ev)
              /\ metrics' = [metrics EXCEPT !.rejected = @ + 1]
              /\ Become(c, [conn[c] EXCEPT !.pc = "send", !.rejections = @ + 1])
           \/ /\ AppendFails(ev)
              /\ metrics' = [metrics EXCEPT !.rejected = @ + 1,
                                            !.auditFailures = @ + 1]
              /\ Become(c, [conn[c] EXCEPT !.pc = "send", !.rejections = @ + 1,
                                           !.status = 503])

\* Defect for mutation: the emission is counted before its audit, and a failed
\* audit is then handled like any other rejection.
AuditEmission_CountsFirst(c) ==
    /\ conn[c].pc = "auditEmission"
    /\ metrics' = [metrics EXCEPT !.emitted = @ + 1]
    /\ \/ /\ AppendSucceeds(Event(c, "EMITTED", 200))
          /\ Become(c, [conn[c] EXCEPT !.pc = "send", !.status = 200,
                                       !.emitted = TRUE])
       \/ /\ AppendFails(Event(c, "EMITTED", 200))
          /\ Become(c, [conn[c] EXCEPT !.pc = "reject", !.status = 503,
                                       !.emitted = TRUE])

\* Defect for mutation: a failed audit of an emission is only counted.
AuditEmission_FailOpen(c) ==
    LET ev == Event(c, "EMITTED", 200)
    IN  /\ conn[c].pc = "auditEmission"
        /\ \/ AppendSucceeds(ev) \/ AppendFails(ev)
        /\ metrics' = [metrics EXCEPT !.emitted = @ + 1]
        /\ Become(c, [conn[c] EXCEPT !.pc = "send", !.status = 200,
                                     !.emitted = TRUE])

\* The emission is audited before it is counted and sent; otherwise 503.
AuditEmission(c) ==
    LET ev == Event(c, "EMITTED", 200)
    IN  /\ conn[c].pc = "auditEmission"
        /\ \/ /\ AppendSucceeds(ev)
              /\ metrics' = [metrics EXCEPT !.emitted = @ + 1]
              /\ Become(c, [conn[c] EXCEPT !.pc = "send", !.status = 200,
                                           !.emitted = TRUE])
           \/ /\ AppendFails(ev)
              /\ metrics' = [metrics EXCEPT !.auditFailures = @ + 1,
                                            !.rejected = @ + 1]
              /\ Become(c, [conn[c] EXCEPT !.pc = "send", !.status = 503,
                                           !.rejections = @ + 1])

\* _send reaches the client.
Send(c) ==
    /\ conn[c].pc = "send"
    /\ Become(c, [conn[c] EXCEPT !.pc = "done", !.sent = conn[c].status,
                                 !.inTry = FALSE])
    /\ UNCHANGED <<metrics, lines, torn, faults>>

\* The client is gone and _send raises OSError.  Inside the try block do_POST
\* catches it and rejects the connection again, as an internal error.
SendFails(c) ==
    /\ conn[c].pc = "send"
    /\ \/ /\ conn[c].inTry
          /\ Become(c, [conn[c] EXCEPT !.pc = "reject", !.status = 500,
                                       !.inTry = FALSE])
       \/ /\ ~conn[c].inTry
          /\ Become(c, [conn[c] EXCEPT !.pc = "done"])
    /\ UNCHANGED <<metrics, lines, torn, faults>>

InFlight(c) == conn[c].pc \notin {"accept", "done"}
Appending(c) == conn[c].pc \in {"reject", "auditEmission"}

\* The process dies and is started again: open connections are lost, counters
\* restart at zero, the file keeps what reached it.
Crash ==
    /\ faults < MaxFaults
    /\ faults' = faults + 1
    /\ conn' = [c \in Conns |-> IF InFlight(c) THEN [conn[c] EXCEPT !.pc = "done"]
                                               ELSE conn[c]]
    /\ metrics' = [m \in DOMAIN metrics |-> 0]
    /\ torn' \in IF \E c \in Conns : Appending(c) THEN {torn, TRUE} ELSE {torn}
    /\ UNCHANGED lines

Next ==
    \/ \E c \in Conns : \/ Accept(c) \/ Dispatch(c) \/ Reject(c)
                        \/ AuditEmission(c) \/ Send(c) \/ SendFails(c)
    \/ Crash

Spec == Init /\ [][Next]_vars

---------------------------------------------------------------------------
(* Properties                                                              *)

Logged == {lines[i].event : i \in DOMAIN lines}

\* Fail closed: a client receives a read result, or a rejection other than 503,
\* only after the event that records exactly this outcome has reached the audit
\* file, whatever appends of other threads failed or crashed before.
AnsweredIsAudited ==
    \A c \in Conns : (conn[c].sent \notin {0, 503} /\ conn[c].kind # "probe") =>
        Event(c, IF conn[c].sent = 200 THEN "EMITTED" ELSE "REJECTED",
              conn[c].sent) \in Logged

\* No connection is recorded with both outcomes: once counted as emitted it is
\* never counted or audited as rejected, even when sending the response fails.
\* Only the 401 that is sent from inside the try block can be counted and audited
\* as a rejection twice, and the second time it is recorded as a 500.
OneOutcomeRecorded ==
    \A c \in Conns :
        /\ conn[c].emitted =>
              /\ conn[c].rejections = 0
              /\ \A ev \in Logged : ev.conn = c => ev.outcome = "EMITTED"
        /\ conn[c].rejections > 1 =>
              conn[c].kind = "noAuthRef" /\ conn[c].sent \in {0, 500, 503}

\* "Successful emissions are audited before they are returned ... Audit lines are
\* independently fingerprint-verified": every read result a client received has
\* an audit line of its own that read_verified accepts.
EmissionVerifiable ==
    \A c \in Conns : (conn[c].sent = 200 /\ conn[c].kind = "read") =>
        \E i \in DOMAIN lines :
            lines[i].whole /\ lines[i].event = Event(c, "EMITTED", 200)
---------------------------------------------------------------------------
(* What the boundary implements                                            *)

\* The health probes of do_GET answer 200 without a read; they are no outcome.
Audited == INSTANCE AuditedAnswers WITH
    Callers     <- Conns,
    Success     <- 200,
    Unavailable <- 503,
    log         <- Logged,
    answer      <- [c \in Conns |-> IF conn[c].kind = "probe" THEN 0 ELSE conn[c].sent]

\* "Successful emissions are audited before they are returned", step by step:
\* threads, failing appends, clients that are gone and process deaths look from
\* outside like a log that gets every outcome before its client does, and nothing
\* about a client that was answered or with the opposite outcome.
ImplementsAuditedAnswers == Audited!AuditSpec
===========================================================================
