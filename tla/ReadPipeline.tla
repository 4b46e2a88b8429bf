--------------------------- MODULE ReadPipeline ---------------------------
(***************************************************************************)
(* The authenticated read path of PMIRI, from                              *)
(* ReadProjectionService._handle_authenticated (pmiri/read_projection.py)  *)
(* down to RequestAuthorizationService.evaluate and .revalidate            *)
(* (pmiri/request_auth.py), executed by concurrent workers (threads of     *)
(* LocalReadHTTPServer, or several server processes) over one              *)
(* ControlPlane.                                                           *)
(*                                                                         *)
(* An attempt is one request being served.  Its calls into the control     *)
(* plane are separate transactions, so a revocation, an epoch change, a    *)
(* tick of the clock or another attempt can come between any two of them:  *)
(*                                                                         *)
(*   start -> resolve -> epoch -> rate -> replay    evaluate()             *)
(*         -> query                                 runtime.query()        *)
(*         -> revalEpoch -> revalResolve -> done    revalidate()           *)
(*                                                                         *)
(* A denial at any step of evaluate still runs the query and then projects *)
(* the empty result.                                                       *)
(***************************************************************************)
EXTENDS ControlPlane

CONSTANTS
    Attempts,   \* the requests served, in any interleaving
    Requests,   \* [auth, rid, project, purpose] a caller may send
    Operation   \* RequestAuthorizationService.operation

VARIABLE att

vars == <<cpVars, att>>

ASSUME RequestsAssumption == \A q \in Requests : q.rid \in RequestIds

Times  == 0..MaxClock
NoTime == -1

PCs == {"start", "resolve", "epoch", "rate", "replay", "query",
        "revalEpoch", "revalResolve", "done"}

(***************************************************************************)
(* now, principal, bound: evaluate's clock read, the principal it resolved *)
(* and whether it returned ALLOW with a binding.  rnow, repoch: the same   *)
(* for revalidate.  Three history fields serve only the properties: win,   *)
(* the rate window that admitted the attempt, and capEpoch, capRevoked,    *)
(* the epoch and the revocation at the instant revalidate read the clock.  *)
(***************************************************************************)
NewAttempt(q) ==
    [pc |-> "start", req |-> q, now |-> NoTime, principal |-> NoPrincipal,
     bound |-> FALSE, hits |-> FALSE, rnow |-> NoTime, repoch |-> NoTime,
     out |-> "NONE", win |-> NoTime, capEpoch |-> NoTime, capRevoked |-> FALSE]

Init ==
    /\ CPInit
    /\ att \in [Attempts -> {NewAttempt(q) : q \in Requests}]

At(a, l) == att[a].pc = l

\* The attempt moves on; every branch of a step ends with one of these.
Become(a, r) == att' = [att EXCEPT ![a] = r]
Deny(a) == Become(a, [att[a] EXCEPT !.pc = "query"])

---------------------------------------------------------------------------
(* RequestAuthorizationService.evaluate                                    *)

\* current = utc_now() is read once and used by every later check.
Start(a) ==
    /\ At(a, "start")
    /\ Become(a, [att[a] EXCEPT !.pc = "resolve", !.now = clock])
    /\ UNCHANGED cpVars

\* registry.resolve: AUTHENTICATION_UNKNOWN when there is no usable row.
ResolvePrincipal(a) ==
    LET p == Resolve(att[a].req.auth)
    IN  /\ At(a, "resolve")
        /\ \/ p = NoPrincipal /\ Deny(a)
           \/ /\ p # NoPrincipal
              /\ Become(a, [att[a] EXCEPT !.pc = "epoch", !.principal = p])
        /\ UNCHANGED cpVars

\* Exact project, operation and purpose scope of a principal.
InScope(q, p) ==
    /\ q.project \in p.projects
    /\ Operation \in p.operations
    /\ q.purpose \in p.purposes

\* The policy epoch is read, then the resolved principal is judged by it:
\* AUTHORITY_STALE_OR_INVALID, SCOPE_MISMATCH, OPERATION_ or PURPOSE_NOT_ALLOWED.
CheckAuthority(a) ==
    LET p  == att[a].principal
        ok == PrincipalValid(p, att[a].now, epoch) /\ InScope(att[a].req, p)
    IN  /\ At(a, "epoch")
        /\ \/ ok /\ Become(a, [att[a] EXCEPT !.pc = "rate"])
           \/ ~ok /\ Deny(a)
        /\ UNCHANGED cpVars

\* rate_limiter.consume with the service's own clock, read at some moment before
\* the transaction gets the database lock; RATE_LIMITED on False.
ConsumeRate(a) ==
    LET n == att[a].principal.name
    IN  /\ At(a, "rate")
        /\ \E t \in Times :
              /\ att[a].now <= t /\ t <= clock
              /\ RateConsume(n, t)
              /\ \/ /\ RateAllowed(n, t)
                    /\ Become(a, [att[a] EXCEPT !.pc = "replay",
                                      !.win = CurrentWindow(n, t).start])
                 \/ ~RateAllowed(n, t) /\ Deny(a)
        /\ UNCHANGED <<registry, revoked, epoch, replays, clock>>

\* replay_guard.consume with evaluate's first clock read; ALLOW or REQUEST_REPLAY.
ConsumeReplay(a) ==
    LET t == att[a]
    IN  /\ At(a, "replay")
        /\ \/ /\ ReplayAccepted(t.req.rid, t.principal.until, t.now)
              /\ Become(a, [t EXCEPT !.pc = "query", !.bound = TRUE])
           \/ ReplayRejected(t.req.rid, t.now) /\ Deny(a)
        /\ UNCHANGED <<registry, revoked, epoch, windows, clock>>

---------------------------------------------------------------------------
(* ReadProjectionService._handle_disclosed                                 *)

\* runtime.query runs whatever the verdict; it may find evidence or not (the
\* store is another component), or raise ValueError, which ends the attempt.
\* With a binding, revalidate starts by reading the clock.
Query(a) ==
    /\ At(a, "query")
    /\ \/ /\ att[a].bound
          /\ \E found \in BOOLEAN :
                Become(a, [att[a] EXCEPT !.pc = "revalEpoch", !.hits = found,
                              !.rnow = clock, !.capEpoch = epoch,
                              !.capRevoked = att[a].req.auth \in revoked])
       \/ /\ ~att[a].bound
          /\ Become(a, [att[a] EXCEPT !.pc = "done", !.out = "EMPTY"])
    /\ UNCHANGED cpVars

\* revalidate reads the epoch BEFORE it resolves the principal again.
RevalidateEpoch(a) ==
    /\ At(a, "revalEpoch")
    /\ Become(a, [att[a] EXCEPT !.pc = "revalResolve", !.repoch = epoch])
    /\ UNCHANGED cpVars

\* Defect for mutation: the registry is not asked again.
Revalidated_NoResolve(t) ==
    /\ PrincipalValid(t.principal, t.rnow, t.repoch)
    /\ InScope(t.req, t.principal)

\* Every condition of revalidate after its two reads; comparing the rebuilt
\* binding with the presented one amounts to "the same principal".
Revalidated(t) ==
    LET p == Resolve(t.req.auth)
    IN  /\ p # NoPrincipal
        /\ PrincipalValid(p, t.rnow, t.repoch)
        /\ t.principal.epoch = t.repoch
        /\ InScope(t.req, p)
        /\ p = t.principal
        /\ t.now <= t.rnow /\ t.rnow <= t.principal.until

\* project_query_result: evidence only if still authorized and non-empty.
Disclose(a) ==
    LET t == att[a]
    IN  /\ At(a, "revalResolve")
        /\ Become(a, [t EXCEPT !.pc = "done",
               !.out = IF Revalidated(t) /\ t.hits THEN "EVIDENCE" ELSE "EMPTY"])
        /\ UNCHANGED cpVars

\* A SQLite call that stays locked past busy_timeout, a ValueError of the query,
\* or the death of the worker: the attempt ends, what it has committed stays.
Abort(a) ==
    /\ att[a].pc \notin {"start", "done"}
    /\ Become(a, [att[a] EXCEPT !.pc = "done", !.out = "ERROR"])
    /\ UNCHANGED cpVars

Step(a) ==
    \/ Start(a) \/ ResolvePrincipal(a) \/ CheckAuthority(a)
    \/ ConsumeRate(a) \/ ConsumeReplay(a) \/ Query(a)
    \/ RevalidateEpoch(a) \/ Disclose(a) \/ Abort(a)

Next == (CPNext /\ UNCHANGED att) \/ \E a \in Attempts : Step(a)

Spec == Init /\ [][Next]_vars

---------------------------------------------------------------------------
(* Properties                                                              *)

AttemptType ==
    [pc : PCs, req : Requests, now : Times \cup {NoTime},
     principal : Principals \cup {NoPrincipal}, bound : BOOLEAN, hits : BOOLEAN,
     rnow : Times \cup {NoTime}, repoch : 0..MaxEpoch \cup {NoTime},
     out : {"NONE", "EMPTY", "EVIDENCE", "ERROR"},
     win : Times \cup {NoTime}, capEpoch : 0..MaxEpoch \cup {NoTime},
     capRevoked : BOOLEAN]

\* Type invariant of the control plane and of the attempts.
TypeOK == CPTypeOK /\ att \in [Attempts -> AttemptType]

Disclosed(a) == att[a].out = "EVIDENCE"

\* Disclosure is linearizable.  The epoch and the registry are read by separate
\* SELECTs, and evaluate reads them in the other order, so no single read sees
\* the whole authority.  Still, for every response that carries evidence there
\* is one instant, the one at which revalidate read the clock, when its
\* principal was unrevoked, at the current policy epoch, unexpired and in scope.
DisclosureLinearized ==
    \A a \in Attempts : Disclosed(a) =>
        LET t == att[a]
        IN  /\ ~t.capRevoked
            /\ registry[t.req.auth] = t.principal
            /\ PrincipalValid(t.principal, t.rnow, t.capEpoch)
            /\ InScope(t.req, t.principal)

\* SQLiteReplayGuard as evaluate uses it: two attempts can both be allowed under
\* one request_id only once the first binding's validity has run out, whatever
\* the order of their clock reads, purges and inserts.
SingleConsumer ==
    \A a, b \in Attempts :
        (a # b /\ att[a].bound /\ att[b].bound /\ att[a].req.rid = att[b].req.rid)
        => \/ att[a].principal.until <= clock
           \/ att[b].principal.until <= clock

\* The same request is answered with evidence twice only if one of the two was
\* revalidated in the very last second of the principal's validity: the guard
\* forgets a row at expires_at <= now while authority still holds at
\* now = valid_until.
ReplayOnlyAtExpiry ==
    \A a, b \in Attempts :
        (a # b /\ Disclosed(a) /\ Disclosed(b)
         /\ att[a].req.rid = att[b].req.rid /\ att[a].req.auth = att[b].req.auth)
        => \/ att[a].rnow = att[a].principal.until
           \/ att[b].rnow = att[b].principal.until

\* "A replay ID is consumed once": no request is answered with evidence twice.
NoReplayedDisclosure ==
    \A a, b \in Attempts :
        (a # b /\ Disclosed(a) /\ Disclosed(b))
        => (att[a].req.rid # att[b].req.rid \/ att[a].req.auth # att[b].req.auth)

\* "A fixed-window limiter never exceeds its configured allowance": each window
\* of a principal admits at most MaxRequests attempts, and two windows of one
\* principal are at least WindowSeconds apart, however attempts interleave.
Admitted(n, s) ==
    {a \in Attempts : att[a].win = s /\ att[a].principal.name = n}

RateWindowBound ==
    \A n \in Names, s \in Times :
        /\ Cardinality(Admitted(n, s)) <= MaxRequests
        /\ \A u \in Times :
              (s < u /\ Admitted(n, s) # {} /\ Admitted(n, u) # {})
              => u - s >= WindowSeconds
---------------------------------------------------------------------------
(* What the read path implements                                           *)

\* A request has all its authority while its reference resolves to a principal
\* that is valid now, at the policy epoch, for the request's scope.
Authorized(q) ==
    LET p == Resolve(q.auth)
    IN  p # NoPrincipal /\ PrincipalValid(p, clock, epoch) /\ InScope(q, p)

\* revalidate's clock read settles whether the attempt may disclose.
Granted(t) ==
    /\ ~t.capRevoked
    /\ PrincipalValid(t.principal, t.rnow, t.capEpoch)
    /\ InScope(t.req, t.principal)

Phase(t) ==
    CASE t.pc = "done" -> IF t.out = "EVIDENCE" THEN "acted" ELSE "refused"
      [] t.pc \in {"revalEpoch", "revalResolve"} -> IF Granted(t) THEN "granted" ELSE "barred"
      [] OTHER -> "asking"

Disclosure == INSTANCE AuthorizedAct WITH
    Callers   <- Attempts,
    justified <- {a \in Attempts : Authorized(att[a].req)},
    phase     <- [a \in Attempts |-> Phase(att[a])]

\* Disclosure is linearizable, step by step: from outside, the reads of evaluate
\* and revalidate are one look at the request's whole authority, and evidence is
\* projected only after a look that found it.
DisclosureImplementsAct == Disclosure!ActSpec
===========================================================================
