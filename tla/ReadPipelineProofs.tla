------------------------ MODULE ReadPipelineProofs ------------------------
(***************************************************************************)
(* Machine-checked proofs about ReadPipeline, for any set of principals,   *)
(* requests and concurrent attempts and any bounds.                        *)
(***************************************************************************)
EXTENDS ReadPipeline, FiniteSetTheorems, TLAPS

\* What the administration of the control plane and the workers may do to its
\* tables: rows are written once, revocation is final, epoch and clock grow.
CPGrows ==
    /\ \A r \in AuthRefs : registry[r] # NoPrincipal => registry'[r] = registry[r]
    /\ revoked \subseteq revoked'
    /\ epoch <= epoch'
    /\ clock <= clock'

Resolved(t) == t.pc \in {"epoch", "rate", "replay"} \/ t.bound
Judged(t)   == t.pc \in {"rate", "replay"} \/ t.bound
Captured(t) == t.pc \in {"revalEpoch", "revalResolve"} \/ t.out = "EVIDENCE"

\* The principal an attempt works with is the row of its reference, and it was
\* at the policy epoch when it was judged.
PrincipalInv(t) ==
    /\ t.pc # "start" => t.now \in Times /\ t.now <= clock
    /\ Resolved(t) =>
          /\ t.req.auth \in AuthRefs
          /\ t.principal \in Principals
          /\ registry[t.req.auth] = t.principal
    /\ Judged(t) => t.principal.epoch <= epoch

\* What is known between revalidate's clock read and its verdict.
CaptureInv(t) ==
    /\ t.pc \in {"start", "resolve", "epoch", "rate", "replay"} => ~t.bound
    /\ t.pc \in {"start", "resolve", "epoch", "rate", "replay", "query"} =>
          t.rnow = NoTime /\ t.out = "NONE"
    /\ Captured(t) =>
          /\ t.bound
          /\ t.rnow \in Times
          /\ t.capEpoch \in 0..MaxEpoch
          /\ t.principal.epoch <= t.capEpoch
    /\ t.pc \in {"revalEpoch", "revalResolve"} =>
          /\ t.capEpoch <= epoch
          /\ t.capRevoked => t.req.auth \in revoked
    /\ t.pc = "revalResolve" => t.repoch \in 0..MaxEpoch /\ t.capEpoch <= t.repoch
    /\ t.out = "EVIDENCE" =>
          /\ ~t.capRevoked
          /\ PrincipalValid(t.principal, t.rnow, t.capEpoch)
          /\ InScope(t.req, t.principal)

\* A binding that has not run out still has its row in the replay table.
RowInv(t) ==
    t.bound => \/ t.principal.until <= clock
               \/ [id |-> t.req.rid, expires |-> t.principal.until] \in replays

\* Of two bindings with one request id the later one was made when the earlier
\* had run out; from then on its own clock read is no earlier than that.
Later(t) ==
    /\ t.principal.until <= clock
    /\ t.rnow # NoTime => t.principal.until <= t.rnow

SameRequest(t, u) == t.req.rid = u.req.rid /\ t.req.auth = u.req.auth

PairInv ==
    \A a, b \in Attempts :
        (a # b /\ att[a].bound /\ att[b].bound /\ SameRequest(att[a], att[b]))
        => Later(att[a]) \/ Later(att[b])

AttemptInv ==
    \A a \in Attempts : PrincipalInv(att[a]) /\ CaptureInv(att[a]) /\ RowInv(att[a])

\* The inductive invariant.
IInv == TypeOK /\ AttemptInv /\ SingleConsumer /\ PairInv

---------------------------------------------------------------------------
(* The control plane only grows, and stays well typed.                     *)

\* Administration (register, revoke, advance, bump) and time only let the tables grow.
LEMMA GrowsCP == ASSUME CPTypeOK, CPNext PROVE CPGrows
<1> USE BoundsAssumption DEF CPTypeOK, CPGrows
<1>1. ASSUME NEW p \in Principals, Register(p) PROVE CPGrows
  BY <1>1 DEF Register, AuthRefs
<1>2. ASSUME NEW r \in AuthRefs, Revoke(r) PROVE CPGrows
  BY <1>2 DEF Revoke
<1>3. ASSUME NEW e \in 0..MaxEpoch, AdvanceEpoch(e) PROVE CPGrows
  BY <1>3 DEF AdvanceEpoch
<1>4. CASE BumpEpoch
  BY <1>4 DEF BumpEpoch
<1>5. CASE Tick
  BY <1>5 DEF Tick
<1>6. QED
  BY <1>1, <1>2, <1>3, <1>4, <1>5 DEF CPNext

\* Administration and time preserve the types of the control plane.
LEMMA TypeCP == ASSUME CPTypeOK, CPNext PROVE CPTypeOK'
<1> USE BoundsAssumption, PrincipalsAssumption DEF CPTypeOK
<1>1. ASSUME NEW p \in Principals, Register(p) PROVE CPTypeOK'
  BY <1>1 DEF Register, AuthRefs
<1>2. ASSUME NEW r \in AuthRefs, Revoke(r) PROVE CPTypeOK'
  BY <1>2 DEF Revoke
<1>3. ASSUME NEW e \in 0..MaxEpoch, AdvanceEpoch(e) PROVE CPTypeOK'
  BY <1>3 DEF AdvanceEpoch
<1>4. CASE BumpEpoch
  BY <1>4 DEF BumpEpoch
<1>5. CASE Tick
  BY <1>5 DEF Tick
<1>6. QED
  BY <1>1, <1>2, <1>3, <1>4, <1>5 DEF CPNext

---------------------------------------------------------------------------
(* Steps of an attempt: what they do to the control plane.                 *)

\* A worker's transaction leaves the authority tables and the clock alone.
LEMMA StepGrows ==
    ASSUME TypeOK, NEW a \in Attempts, Step(a) PROVE CPGrows
<1>1. UNCHANGED <<registry, revoked, epoch, clock>>
  BY DEF Step, Start, ResolvePrincipal, CheckAuthority, ConsumeRate, ConsumeReplay,
     Query, RevalidateEpoch, Disclose, Abort, cpVars
<1>2. QED
  BY <1>1, BoundsAssumption DEF CPGrows, TypeOK, CPTypeOK

\* Replacing one attempt's record by a well-typed one keeps att well typed.
LEMMA BecomeType ==
    ASSUME att \in [Attempts -> AttemptType], NEW a \in Attempts,
           NEW r \in AttemptType, Become(a, r)
    PROVE  att' \in [Attempts -> AttemptType]
BY DEF Become

\* Every update an attempt's record undergoes keeps its type.
LEMMA UpdateType ==
    ASSUME NEW t \in AttemptType, NEW p \in Principals \cup {NoPrincipal},
           NEW w \in Times, NEW e \in 0..MaxEpoch, NEW b \in BOOLEAN, NEW c \in BOOLEAN
    PROVE  /\ [t EXCEPT !.pc = "query"] \in AttemptType
           /\ [t EXCEPT !.pc = "resolve", !.now = w] \in AttemptType
           /\ [t EXCEPT !.pc = "epoch", !.principal = p] \in AttemptType
           /\ [t EXCEPT !.pc = "rate"] \in AttemptType
           /\ [t EXCEPT !.pc = "replay", !.win = w] \in AttemptType
           /\ [t EXCEPT !.pc = "query", !.bound = TRUE] \in AttemptType
           /\ [t EXCEPT !.pc = "revalEpoch", !.hits = b, !.rnow = w, !.capEpoch = e,
                        !.capRevoked = c] \in AttemptType
           /\ [t EXCEPT !.pc = "revalResolve", !.repoch = e] \in AttemptType
           /\ [t EXCEPT !.pc = "done", !.out = "EMPTY"] \in AttemptType
           /\ [t EXCEPT !.pc = "done", !.out = "EVIDENCE"] \in AttemptType
           /\ [t EXCEPT !.pc = "done", !.out = "ERROR"] \in AttemptType
<1> USE DEF AttemptType, PCs
<1>1. [t EXCEPT !.pc = "query"] \in AttemptType
  OBVIOUS
<1>2. [t EXCEPT !.pc = "resolve", !.now = w] \in AttemptType
  OBVIOUS
<1>3. [t EXCEPT !.pc = "epoch", !.principal = p] \in AttemptType
  OBVIOUS
<1>4. [t EXCEPT !.pc = "rate"] \in AttemptType
  OBVIOUS
<1>5. [t EXCEPT !.pc = "replay", !.win = w] \in AttemptType
  OBVIOUS
<1>6. [t EXCEPT !.pc = "query", !.bound = TRUE] \in AttemptType
  OBVIOUS
<1>7. [t EXCEPT !.pc = "revalEpoch", !.hits = b, !.rnow = w, !.capEpoch = e,
                !.capRevoked = c] \in AttemptType
  OBVIOUS
<1>8. [t EXCEPT !.pc = "revalResolve", !.repoch = e] \in AttemptType
  OBVIOUS
<1>9. [t EXCEPT !.pc = "done", !.out = "EMPTY"] \in AttemptType
  OBVIOUS
<1>10. [t EXCEPT !.pc = "done", !.out = "EVIDENCE"] \in AttemptType
  OBVIOUS
<1>11. [t EXCEPT !.pc = "done", !.out = "ERROR"] \in AttemptType
  OBVIOUS
<1> HIDE DEF AttemptType, PCs
<1>12. QED
  BY <1>1, <1>2, <1>3, <1>4, <1>5, <1>6, <1>7, <1>8, <1>9, <1>10, <1>11

\* Every step of evaluate, the query and revalidate preserves the types.
LEMMA StepType ==
    ASSUME IInv, NEW a \in Attempts, Step(a) PROVE TypeOK'
<1> USE BoundsAssumption
<1>a. /\ CPTypeOK /\ att \in [Attempts -> AttemptType]
      /\ att[a] \in AttemptType /\ PrincipalInv(att[a])
  BY DEF IInv, AttemptInv, TypeOK
<1>b. clock \in Times /\ epoch \in 0..MaxEpoch
  BY <1>a DEF CPTypeOK, Times
<1>c. ASSUME UNCHANGED cpVars PROVE CPTypeOK'
  BY <1>a, <1>c DEF cpVars, CPTypeOK
<1>1. CASE Start(a)
  BY <1>1, <1>a, <1>b, <1>c, UpdateType, BecomeType DEF Start, TypeOK
<1>2. CASE ResolvePrincipal(a)
  <2>1. Resolve(att[a].req.auth) \in Principals \cup {NoPrincipal}
    BY <1>a DEF Resolve, CPTypeOK
  <2>2. CASE Deny(a)
    BY <1>2, <2>2, <1>a, <1>b, <1>c, UpdateType, BecomeType
       DEF ResolvePrincipal, Deny, TypeOK
  <2>3. CASE ~Deny(a)
    BY <1>2, <2>1, <2>3, <1>a, <1>b, <1>c, UpdateType, BecomeType
       DEF ResolvePrincipal, TypeOK
  <2>4. QED
    BY <2>2, <2>3
<1>3. CASE CheckAuthority(a)
  <2>1. CASE Deny(a)
    BY <1>3, <2>1, <1>a, <1>b, <1>c, UpdateType, BecomeType
       DEF CheckAuthority, Deny, TypeOK
  <2>2. CASE ~Deny(a)
    BY <1>3, <2>2, <1>a, <1>b, <1>c, UpdateType, BecomeType
       DEF CheckAuthority, TypeOK
  <2>3. QED
    BY <2>1, <2>2
<1>4. CASE ConsumeRate(a)
  <2> DEFINE n == att[a].principal.name
  <2>1. n \in Names
    BY <1>4, <1>a DEF ConsumeRate, At, PrincipalInv, Resolved, Names
  <2>t. PICK t \in Times :
           /\ RateConsume(n, t)
           /\ \/ Become(a, [att[a] EXCEPT !.pc = "replay",
                                !.win = CurrentWindow(n, t).start])
              \/ Deny(a)
    BY <1>4 DEF ConsumeRate
  <2>2. CurrentWindow(n, t) \in [start : 0..MaxClock, count : 0..MaxRequests]
    BY <2>1, <1>a, LimiterAssumption DEF CurrentWindow, CPTypeOK, Times
  <2>3. windows' \in [Names -> [start : 0..MaxClock, count : 0..MaxRequests]]
    BY <2>t, <2>1, <2>2, <1>a, LimiterAssumption
       DEF RateConsume, RateAllowed, CPTypeOK
  <2>4. CASE Deny(a)
    BY <1>4, <2>3, <2>4, <1>a, <1>b, UpdateType, BecomeType
       DEF ConsumeRate, Deny, TypeOK, CPTypeOK
  <2>5. CASE ~Deny(a)
    <3>1. CurrentWindow(n, t).start \in Times
      BY <2>2 DEF Times
    <3>2. att' \in [Attempts -> AttemptType]
      BY <2>t, <2>5, <3>1, <1>a, <1>b, UpdateType, BecomeType
    <3>3. QED
      BY <1>4, <2>3, <3>2, <1>a DEF ConsumeRate, TypeOK, CPTypeOK
  <2>6. QED
    BY <2>4, <2>5
<1>5. CASE ConsumeReplay(a)
  <2>1. att[a].req.rid \in RequestIds /\ att[a].principal.until \in Nat
    BY <1>5, <1>a, RequestsAssumption, PrincipalsAssumption
       DEF ConsumeReplay, At, PrincipalInv, Resolved, AttemptType
  <2>2. replays' \subseteq [id : RequestIds, expires : Nat]
    BY <1>5, <1>a, <2>1 DEF ConsumeReplay, ReplayAccepted, ReplayRejected,
       PurgedReplays, CPTypeOK
  <2>3. CASE Deny(a)
    BY <1>5, <2>2, <2>3, <1>a, <1>b, UpdateType, BecomeType
       DEF ConsumeReplay, Deny, TypeOK, CPTypeOK
  <2>4. CASE ~Deny(a)
    BY <1>5, <2>2, <2>4, <1>a, <1>b, UpdateType, BecomeType
       DEF ConsumeReplay, TypeOK, CPTypeOK
  <2>5. QED
    BY <2>3, <2>4
<1>6. CASE Query(a)
  <2>1. CASE att[a].bound
    <3>1. PICK found \in BOOLEAN :
             Become(a, [att[a] EXCEPT !.pc = "revalEpoch", !.hits = found,
                           !.rnow = clock, !.capEpoch = epoch,
                           !.capRevoked = att[a].req.auth \in revoked])
      BY <1>6, <2>1 DEF Query
    <3>2. (att[a].req.auth \in revoked) \in BOOLEAN
      OBVIOUS
    <3>3. QED
      BY <1>6, <3>1, <3>2, <1>a, <1>b, <1>c, UpdateType, BecomeType DEF Query, TypeOK
  <2>2. CASE ~att[a].bound
    BY <1>6, <2>2, <1>a, <1>b, <1>c, UpdateType, BecomeType DEF Query, TypeOK
  <2>3. QED
    BY <2>1, <2>2
<1>7. CASE RevalidateEpoch(a)
  BY <1>7, <1>a, <1>b, <1>c, UpdateType, BecomeType DEF RevalidateEpoch, TypeOK
<1>8. CASE Disclose(a)
  <2>1. CASE Revalidated(att[a]) /\ att[a].hits
    BY <1>8, <2>1, <1>a, <1>b, <1>c, UpdateType, BecomeType DEF Disclose, TypeOK
  <2>2. CASE ~(Revalidated(att[a]) /\ att[a].hits)
    BY <1>8, <2>2, <1>a, <1>b, <1>c, UpdateType, BecomeType DEF Disclose, TypeOK
  <2>3. QED
    BY <2>1, <2>2
<1>9. CASE Abort(a)
  BY <1>9, <1>a, <1>b, <1>c, UpdateType, BecomeType DEF Abort, TypeOK
<1>10. QED
  BY <1>1, <1>2, <1>3, <1>4, <1>5, <1>6, <1>7, <1>8, <1>9 DEF Step

---------------------------------------------------------------------------
(* Steps of an attempt: what they do to the attempts.                      *)

\* No step, a purge included, forgets a row that has not run out.
ReplaysKept == \A r \in replays : r.expires > clock => r \in replays'

\* SQLiteReplayGuard.consume purges with a clock read that is not in the future,
\* so no row that is still valid goes.
LEMMA StepReplaysKept ==
    ASSUME IInv, NEW a \in Attempts, Step(a) PROVE ReplaysKept
<1>1. CASE ConsumeReplay(a)
  <2>1. att[a].now \in Nat /\ att[a].now <= clock /\ clock \in Nat
    BY <1>1, BoundsAssumption DEF IInv, AttemptInv, PrincipalInv, TypeOK, CPTypeOK,
       ConsumeReplay, At, Times
  <2>2. \A r \in replays : r.expires \in Nat
    BY DEF IInv, TypeOK, CPTypeOK
  <2>3. PurgedReplays(att[a].now) \subseteq replays'
    BY <1>1 DEF ConsumeReplay, ReplayAccepted, ReplayRejected
  <2>4. QED
    BY <2>1, <2>2, <2>3 DEF ReplaysKept, PurgedReplays
<1>2. CASE ~ConsumeReplay(a)
  <2>1. replays' = replays
    BY <1>2 DEF Step, Start, ResolvePrincipal, CheckAuthority, ConsumeRate, Query,
       RevalidateEpoch, Disclose, Abort, cpVars
  <2>2. QED
    BY <2>1 DEF ReplaysKept
<1>3. QED
  BY <1>1, <1>2

\* An attempt that does not move keeps its invariant while the tables grow.
LEMMA FrameInv ==
    ASSUME IInv, TypeOK', CPGrows, ReplaysKept,
           NEW b \in Attempts, att'[b] = att[b]
    PROVE  /\ PrincipalInv(att[b])'
           /\ CaptureInv(att[b])'
           /\ RowInv(att[b])'
<1> USE BoundsAssumption, PrincipalsAssumption
<1>1. /\ TypeOK /\ CPTypeOK /\ CPTypeOK' /\ att[b] \in AttemptType
      /\ PrincipalInv(att[b]) /\ CaptureInv(att[b]) /\ RowInv(att[b])
  BY DEF IInv, AttemptInv, TypeOK
<1>2. PrincipalInv(att[b])'
  BY <1>1 DEF PrincipalInv, CPGrows, CPTypeOK, Resolved, Judged, Times
<1>3. CaptureInv(att[b])'
  BY <1>1 DEF CaptureInv, CPGrows, CPTypeOK, Captured, PrincipalValid, InScope
<1>4. RowInv(att[b])'
  BY <1>1 DEF RowInv, PrincipalInv, Resolved, CPGrows, CPTypeOK, ReplaysKept
<1>5. QED
  BY <1>2, <1>3, <1>4

\* The attempt that moves keeps its invariant, one case per step of the code.
LEMMA StepInv ==
    ASSUME IInv, TypeOK', NEW a \in Attempts, Step(a)
    PROVE  /\ PrincipalInv(att[a])'
           /\ CaptureInv(att[a])'
           /\ RowInv(att[a])'
<1> USE BoundsAssumption, PrincipalsAssumption
<1>a. /\ CPTypeOK /\ att \in [Attempts -> AttemptType] /\ att[a] \in AttemptType
      /\ PrincipalInv(att[a]) /\ CaptureInv(att[a]) /\ RowInv(att[a])
  BY DEF IInv, AttemptInv, TypeOK
<1>1. CASE Start(a)
  BY <1>1, <1>a DEF Start, At, Become, cpVars, AttemptType, CPTypeOK, PrincipalInv,
     CaptureInv, RowInv, Resolved, Judged, Captured, Times
<1>2. CASE ResolvePrincipal(a)
  <2> DEFINE p == Resolve(att[a].req.auth)
  <2>1. CASE att'[a] = [att[a] EXCEPT !.pc = "query"]
    BY <1>2, <2>1, <1>a DEF ResolvePrincipal, At, cpVars, AttemptType, CPTypeOK,
       PrincipalInv, CaptureInv, RowInv, Resolved, Judged, Captured, Times
  <2>2. CASE p # NoPrincipal /\ att'[a] = [att[a] EXCEPT !.pc = "epoch", !.principal = p]
    <3>1. att[a].req.auth \in AuthRefs /\ p = registry[att[a].req.auth] /\ p \in Principals
      BY <2>2, <1>a DEF Resolve, CPTypeOK
    <3>2. QED
      BY <1>2, <2>2, <3>1, <1>a DEF ResolvePrincipal, At, cpVars, AttemptType, CPTypeOK,
         PrincipalInv, CaptureInv, RowInv, Resolved, Judged, Captured, Times
  <2>3. QED
    BY <1>2, <2>1, <2>2, <1>a DEF ResolvePrincipal, Become, Deny
<1>3. CASE CheckAuthority(a)
  BY <1>3, <1>a DEF CheckAuthority, At, Become, Deny, cpVars, AttemptType, CPTypeOK,
     PrincipalInv, CaptureInv, RowInv, Resolved, Judged, Captured, PrincipalValid, Times
<1>4. CASE ConsumeRate(a)
  <2>1. PICK w : \/ att'[a] = [att[a] EXCEPT !.pc = "query"]
                 \/ att'[a] = [att[a] EXCEPT !.pc = "replay", !.win = w]
    BY <1>4, <1>a DEF ConsumeRate, Become, Deny
  <2>2. At(a, "rate") /\ UNCHANGED <<registry, revoked, epoch, replays, clock>>
    BY <1>4 DEF ConsumeRate
  <2>3. QED
    BY <2>1, <2>2, <1>a, ZenonT(40) DEF At, AttemptType, CPTypeOK,
       PrincipalInv, CaptureInv, RowInv, Resolved, Judged, Captured, Times
<1>5. CASE ConsumeReplay(a)
  <2>1. At(a, "replay") /\ UNCHANGED <<registry, revoked, epoch, clock>>
    BY <1>5 DEF ConsumeReplay
  <2>2. CASE att'[a] = [att[a] EXCEPT !.pc = "query"]
    BY <2>1, <2>2, <1>a DEF At, AttemptType, CPTypeOK,
       PrincipalInv, CaptureInv, RowInv, Resolved, Judged, Captured, Times
  <2>3. CASE /\ att'[a] = [att[a] EXCEPT !.pc = "query", !.bound = TRUE]
             /\ [id |-> att[a].req.rid, expires |-> att[a].principal.until] \in replays'
    BY <2>1, <2>3, <1>a DEF At, AttemptType, CPTypeOK,
       PrincipalInv, CaptureInv, RowInv, Resolved, Judged, Captured, Times
  <2>4. QED
    BY <1>5, <2>2, <2>3, <1>a DEF ConsumeReplay, ReplayAccepted, Become, Deny
<1>6. CASE Query(a)
  <2>1. At(a, "query") /\ UNCHANGED <<registry, revoked, epoch, replays, clock>>
    BY <1>6 DEF Query, cpVars
  <2>2. CASE att[a].bound
    <3>1. PICK found \in BOOLEAN :
             att'[a] = [att[a] EXCEPT !.pc = "revalEpoch", !.hits = found,
                           !.rnow = clock, !.capEpoch = epoch,
                           !.capRevoked = att[a].req.auth \in revoked]
      BY <1>6, <2>2, <1>a DEF Query, Become
    <3>2. /\ att'[a].pc = "revalEpoch" /\ att'[a].bound = att[a].bound
          /\ att'[a].rnow = clock /\ att'[a].capEpoch = epoch
          /\ att'[a].capRevoked = (att[a].req.auth \in revoked)
          /\ att'[a].req = att[a].req /\ att'[a].principal = att[a].principal
          /\ att'[a].now = att[a].now /\ att'[a].out = att[a].out
      BY <3>1, <1>a DEF AttemptType
    <3>3. PrincipalInv(att[a])' /\ RowInv(att[a])'
      BY <2>1, <2>2, <3>2, <1>a DEF At, PrincipalInv, RowInv, Resolved, Judged
    <3>4. att[a].out = "NONE" /\ clock \in Times /\ epoch \in 0..MaxEpoch
      BY <2>1, <1>a DEF At, CaptureInv, CPTypeOK, Times
    <3>5. att[a].principal.epoch <= epoch
      BY <2>2, <1>a DEF PrincipalInv, Judged
    <3>6. att'[a].capRevoked => att'[a].req.auth \in revoked'
      BY <2>1, <3>2, Zenon
    <3>7. /\ att'[a].pc = "revalEpoch" /\ att'[a].bound /\ att'[a].out = "NONE"
          /\ att'[a].rnow \in Times /\ att'[a].capEpoch \in 0..MaxEpoch
          /\ att'[a].principal.epoch <= att'[a].capEpoch /\ att'[a].capEpoch <= epoch'
      BY <2>1, <2>2, <3>2, <3>4, <3>5
    <3>8. CaptureInv(att[a])'
      BY <3>6, <3>7 DEF CaptureInv, Captured, Times
    <3>9. QED
      BY <3>3, <3>8
  <2>3. CASE ~att[a].bound
    <3>1. att'[a] = [att[a] EXCEPT !.pc = "done", !.out = "EMPTY"]
      BY <1>6, <2>3, <1>a DEF Query, Become
    <3>2. QED
      BY <2>1, <2>3, <3>1, <1>a DEF At, AttemptType, CPTypeOK,
         PrincipalInv, CaptureInv, RowInv, Resolved, Judged, Captured, Times
  <2>4. QED
    BY <2>2, <2>3
<1>7. CASE RevalidateEpoch(a)
  BY <1>7, <1>a DEF RevalidateEpoch, At, Become, cpVars, AttemptType, CPTypeOK,
     PrincipalInv, CaptureInv, RowInv, Resolved, Judged, Captured, Times
<1>8. CASE Disclose(a)
  <2>1. At(a, "revalResolve") /\ UNCHANGED <<registry, revoked, epoch, replays, clock>>
    BY <1>8 DEF Disclose, cpVars
  <2>2. CASE Revalidated(att[a]) /\ att[a].hits
    <3>1. att'[a] = [att[a] EXCEPT !.pc = "done", !.out = "EVIDENCE"]
      BY <1>8, <2>2, <1>a DEF Disclose, Become
    <3>2. /\ att[a].req.auth \notin revoked
          /\ PrincipalValid(att[a].principal, att[a].rnow, att[a].repoch)
          /\ InScope(att[a].req, att[a].principal)
      BY <2>2 DEF Revalidated, Resolve
    <3>3. att[a].capEpoch = att[a].repoch
      BY <2>1, <3>2, <1>a DEF PrincipalValid, CaptureInv, Captured, At, PrincipalInv,
         Resolved
    <3>4. PrincipalInv(att[a])' /\ RowInv(att[a])'
      BY <2>1, <3>1, <1>a DEF At, AttemptType, PrincipalInv, RowInv, Resolved, Judged
    <3>5. PrincipalValid(att[a].principal, att[a].rnow, att[a].capEpoch)
      BY <3>2, <3>3
    <3>6. CaptureInv(att[a])'
      BY <2>1, <3>1, <3>2, <3>5, <1>a DEF At, AttemptType, CaptureInv, Captured,
         PrincipalValid, InScope
    <3>7. QED
      BY <3>4, <3>6
  <2>3. CASE ~(Revalidated(att[a]) /\ att[a].hits)
    <3>1. att'[a] = [att[a] EXCEPT !.pc = "done", !.out = "EMPTY"]
      BY <1>8, <2>3, <1>a DEF Disclose, Become
    <3>2. QED
      BY <2>1, <3>1, <1>a DEF At, AttemptType, CPTypeOK,
         PrincipalInv, CaptureInv, RowInv, Resolved, Judged, Captured, Times
  <2>4. QED
    BY <2>2, <2>3
<1>9. CASE Abort(a)
  BY <1>9, <1>a DEF Abort, Become, cpVars, AttemptType, CPTypeOK, PrincipalInv,
     CaptureInv, RowInv, Resolved, Judged, Captured, Times
<1>10. QED
  BY <1>1, <1>2, <1>3, <1>4, <1>5, <1>6, <1>7, <1>8, <1>9 DEF Step

---------------------------------------------------------------------------
(* Two bindings under one request id.                                      *)

\* What a step may do to a binding: none is made except by an accepting
\* ConsumeReplay, and one that exists keeps its request and principal; its clock
\* read, if the step makes one, is the current second.
KeepsBinding(b) ==
    att'[b].bound =>
        /\ att[b].bound
        /\ att'[b].req = att[b].req /\ att'[b].principal = att[b].principal
        /\ att'[b].rnow = att[b].rnow \/ att'[b].rnow = clock

Accepts(a) ==
    /\ ConsumeReplay(a)
    /\ ReplayAccepted(att[a].req.rid, att[a].principal.until, att[a].now)
    /\ Become(a, [att[a] EXCEPT !.pc = "query", !.bound = TRUE])

\* A step moves one attempt, and makes a binding only by an accepting consume.
LEMMA StepBindings ==
    ASSUME IInv, NEW a \in Attempts, Step(a)
    PROVE  /\ \A b \in Attempts : b # a => att'[b] = att[b]
           /\ Accepts(a) \/ KeepsBinding(a)
<1>a. /\ att \in [Attempts -> AttemptType] /\ att[a] \in AttemptType /\ CaptureInv(att[a])
  BY DEF IInv, AttemptInv, TypeOK
<1> USE <1>a DEF Become, Deny, KeepsBinding
<1>1. CASE Start(a)
  BY <1>1 DEF Start, At, AttemptType, CaptureInv
<1>2. CASE ResolvePrincipal(a)
  BY <1>2 DEF ResolvePrincipal, At, AttemptType, CaptureInv
<1>3. CASE CheckAuthority(a)
  BY <1>3 DEF CheckAuthority, AttemptType
<1>4. CASE ConsumeRate(a)
  <2>1. PICK w : \/ Become(a, [att[a] EXCEPT !.pc = "replay", !.win = w])
                 \/ Deny(a)
    BY <1>4 DEF ConsumeRate
  <2>2. CASE Deny(a)
    BY <2>2 DEF AttemptType
  <2>3. CASE Become(a, [att[a] EXCEPT !.pc = "replay", !.win = w])
    BY <2>3 DEF AttemptType
  <2>4. QED
    BY <2>1, <2>2, <2>3
<1>5. CASE ConsumeReplay(a)
  BY <1>5 DEF ConsumeReplay, Accepts, AttemptType
<1>6. CASE Query(a)
  <2>1. PICK r : /\ Become(a, r) /\ r.bound = att[a].bound
                 /\ r.req = att[a].req /\ r.principal = att[a].principal
                 /\ r.rnow = att[a].rnow \/ r.rnow = clock
    <3>1. CASE att[a].bound
      <4>1. PICK found \in BOOLEAN, c \in BOOLEAN :
               Become(a, [att[a] EXCEPT !.pc = "revalEpoch", !.hits = found,
                             !.rnow = clock, !.capEpoch = epoch, !.capRevoked = c])
        <5>1. (att[a].req.auth \in revoked) \in BOOLEAN
          OBVIOUS
        <5>2. QED
          BY <1>6, <3>1, <5>1, Zenon DEF Query
      <4> DEFINE r == [att[a] EXCEPT !.pc = "revalEpoch", !.hits = found,
                             !.rnow = clock, !.capEpoch = epoch, !.capRevoked = c]
      <4>2. /\ r.bound = att[a].bound /\ r.req = att[a].req
            /\ r.principal = att[a].principal /\ r.rnow = clock
        BY DEF AttemptType
      <4>3. Become(a, r)
        BY <4>1
      <4> HIDE DEF r, Become
      <4>4. QED
        BY <4>2, <4>3
    <3>2. CASE ~att[a].bound
      <4> DEFINE r == [att[a] EXCEPT !.pc = "done", !.out = "EMPTY"]
      <4>1. Become(a, r)
        BY <1>6, <3>2, Zenon DEF Query
      <4>2. /\ r.bound = att[a].bound /\ r.req = att[a].req
            /\ r.principal = att[a].principal /\ r.rnow = att[a].rnow
        BY DEF AttemptType
      <4> HIDE DEF r, Become
      <4>3. QED
        BY <4>1, <4>2
    <3>3. QED
      BY <3>1, <3>2
  <2>2. QED
    BY <2>1
<1>7. CASE RevalidateEpoch(a)
  BY <1>7 DEF RevalidateEpoch, AttemptType
<1>8. CASE Disclose(a)
  <2>1. PICK o : Become(a, [att[a] EXCEPT !.pc = "done", !.out = o])
    BY <1>8 DEF Disclose
  <2>2. QED
    BY <2>1 DEF AttemptType
<1>9. CASE Abort(a)
  BY <1>9 DEF Abort, AttemptType
<1>10. QED
  BY <1>1, <1>2, <1>3, <1>4, <1>5, <1>6, <1>7, <1>8, <1>9 DEF Step

\* When a binding is made, every other one with the same request id has run out.
LEMMA AcceptOnlyExpired ==
    ASSUME IInv, NEW a \in Attempts, Accepts(a),
           NEW b \in Attempts, att[b].bound, att[b].req.rid = att[a].req.rid
    PROVE  att[b].principal.until <= clock
<1> USE BoundsAssumption, PrincipalsAssumption
<1>1. /\ att[a].now \in Nat /\ att[a].now <= clock /\ clock \in Nat
      /\ att[b].principal.until \in Nat
  BY DEF IInv, AttemptInv, PrincipalInv, Resolved, TypeOK, CPTypeOK, Accepts,
     ConsumeReplay, At, Times
<1> DEFINE row == [id |-> att[b].req.rid, expires |-> att[b].principal.until]
<1>2. SUFFICES ASSUME ~(att[b].principal.until <= clock) PROVE FALSE
  OBVIOUS
<1>3. row \in replays
  BY <1>2 DEF IInv, AttemptInv, RowInv
<1>4. row \in PurgedReplays(att[a].now)
  BY <1>1, <1>2, <1>3 DEF PurgedReplays
<1>5. QED
  BY <1>4 DEF Accepts, ReplayAccepted
\* A binding that is Later stays so: time does not run backwards.
LEMMA LaterKept ==
    ASSUME IInv, clock' \in Nat, clock <= clock',
           NEW b \in Attempts, att[b].bound, KeepsBinding(b), att'[b].bound, Later(att[b])
    PROVE  Later(att[b])'
<1>1. /\ clock \in Nat /\ att[b].principal.until \in Nat
      /\ att[b].rnow \in Times \cup {NoTime}
  BY BoundsAssumption, PrincipalsAssumption DEF IInv, AttemptInv, PrincipalInv, Resolved,
     TypeOK, CPTypeOK, AttemptType, Times
<1>2. QED
  BY <1>1, BoundsAssumption DEF Later, KeepsBinding, Times

\* A step that makes no binding keeps both facts about pairs of bindings.
LEMMA PairsKept ==
    ASSUME IInv, TypeOK', clock <= clock', \A b \in Attempts : KeepsBinding(b)
    PROVE  SingleConsumer' /\ PairInv'
<1>1. clock \in Nat /\ clock' \in Nat
  BY BoundsAssumption DEF IInv, TypeOK, CPTypeOK
<1>2. \A b \in Attempts : att[b].bound => att[b].principal.until \in Nat
  BY PrincipalsAssumption DEF IInv, AttemptInv, PrincipalInv, Resolved
<1>3. SingleConsumer'
  BY <1>1, <1>2 DEF IInv, SingleConsumer, KeepsBinding
<1>4. ASSUME NEW x \in Attempts, NEW y \in Attempts, x # y,
             att'[x].bound, att'[y].bound, SameRequest(att'[x], att'[y])
      PROVE  Later(att[x])' \/ Later(att[y])'
  <2>1. att[x].bound /\ att[y].bound /\ SameRequest(att[x], att[y])
    BY <1>4 DEF KeepsBinding, SameRequest
  <2>2. Later(att[x]) \/ Later(att[y])
    BY <1>4, <2>1 DEF IInv, PairInv
  <2>3. QED
    BY <1>1, <1>4, <2>1, <2>2, LaterKept
<1>5. QED
  BY <1>3, <1>4 DEF PairInv

\* So does an accepting SQLiteReplayGuard.consume.
LEMMA PairsAccept ==
    ASSUME IInv, TypeOK', NEW a \in Attempts, Accepts(a),
           \A b \in Attempts : b # a => att'[b] = att[b]
    PROVE  SingleConsumer' /\ PairInv'
<1> USE BoundsAssumption
<1>1. clock' = clock /\ clock \in Nat
  BY DEF Accepts, ConsumeReplay, IInv, TypeOK, CPTypeOK
<1>2. /\ att'[a].principal = att[a].principal /\ att'[a].req = att[a].req
      /\ att'[a].rnow = att[a].rnow
  BY DEF Accepts, Become, IInv, TypeOK, AttemptType
<1>3. att[a].rnow = NoTime /\ registry[att[a].req.auth] = att[a].principal
  BY DEF IInv, AttemptInv, CaptureInv, PrincipalInv, Resolved, Accepts, ConsumeReplay, At
<1>4. \A b \in Attempts : (att[b].bound /\ att[b].req.rid = att[a].req.rid)
         => att[b].principal.until <= clock
  BY AcceptOnlyExpired
<1>5. SingleConsumer'
  BY <1>1, <1>2, <1>4 DEF SingleConsumer, IInv
<1>6. \A b \in Attempts : (att[b].bound /\ SameRequest(att[a], att[b])) => Later(att[a])'
  <2>1. \A b \in Attempts : att[b].bound => registry[att[b].req.auth] = att[b].principal
    BY DEF IInv, AttemptInv, PrincipalInv, Resolved
  <2>2. QED
    BY <1>1, <1>2, <1>3, <1>4, <2>1 DEF SameRequest, Later
<1>7. ASSUME NEW x \in Attempts, NEW y \in Attempts, x # y,
             att'[x].bound, att'[y].bound, SameRequest(att'[x], att'[y])
      PROVE  Later(att[x])' \/ Later(att[y])'
  <2>1. CASE x = a
    BY <1>2, <1>6, <1>7, <2>1 DEF SameRequest
  <2>2. CASE y = a
    BY <1>2, <1>6, <1>7, <2>2 DEF SameRequest
  <2>3. CASE x # a /\ y # a
    <3>1. att'[x] = att[x] /\ att'[y] = att[y]
      BY <2>3
    <3>2. Later(att[x]) \/ Later(att[y])
      BY <1>7, <3>1 DEF IInv, PairInv
    <3>3. QED
      BY <1>1, <3>1, <3>2 DEF Later
  <2>4. QED
    BY <2>1, <2>2, <2>3
<1>8. QED
  BY <1>5, <1>7 DEF PairInv

---------------------------------------------------------------------------
(* The inductive invariant.                                                *)

\* The empty control plane and fresh attempts satisfy the inductive invariant.
LEMMA InitInv == Init => IInv
<1> SUFFICES ASSUME Init PROVE IInv
  OBVIOUS
<1> USE BoundsAssumption, PrincipalsAssumption, LimiterAssumption
<1>1. CPTypeOK
  BY DEF Init, CPInit, CPTypeOK, NoWindow
<1>2. \A q \in Requests : NewAttempt(q) \in AttemptType
  BY DEF NewAttempt, AttemptType, PCs
<1>3. att \in [Attempts -> AttemptType]
  BY <1>2 DEF Init
<1>4. \A a \in Attempts : /\ att[a].pc = "start" /\ att[a].bound = FALSE
                          /\ att[a].rnow = NoTime /\ att[a].out = "NONE"
  BY DEF Init, NewAttempt
<1>5. AttemptInv
  BY <1>4 DEF AttemptInv, PrincipalInv, CaptureInv, RowInv, Resolved, Judged, Captured
<1>6. QED
  BY <1>1, <1>3, <1>4, <1>5 DEF IInv, TypeOK, SingleConsumer, PairInv

\* Every step of administration, of time or of an attempt preserves it.
LEMMA NextInv == IInv /\ [Next]_vars => IInv'
<1> SUFFICES ASSUME IInv, [Next]_vars PROVE IInv'
  OBVIOUS
<1>1. ASSUME CPNext, UNCHANGED att PROVE IInv'
  <2>1. TypeOK' /\ CPGrows
    BY <1>1, TypeCP, GrowsCP DEF IInv, TypeOK
  <2>2. replays' = replays
    BY <1>1 DEF CPNext, Register, Revoke, AdvanceEpoch, BumpEpoch, Tick
  <2>3. ReplaysKept
    BY <2>2 DEF ReplaysKept
  <2>4. AttemptInv'
    BY <1>1, <2>1, <2>3, FrameInv DEF AttemptInv
  <2>5. \A b \in Attempts : KeepsBinding(b)
    BY <1>1 DEF KeepsBinding
  <2>6. SingleConsumer' /\ PairInv'
    BY <2>1, <2>5, PairsKept DEF CPGrows
  <2>7. QED
    BY <2>1, <2>4, <2>6 DEF IInv
<1>2. ASSUME NEW a \in Attempts, Step(a) PROVE IInv'
  <2>1. TypeOK' /\ CPGrows /\ ReplaysKept
    BY <1>2, StepType, StepGrows, StepReplaysKept DEF IInv
  <2>2. /\ \A b \in Attempts : b # a => att'[b] = att[b]
        /\ Accepts(a) \/ KeepsBinding(a)
    BY <1>2, StepBindings
  <2>3. AttemptInv'
    BY <1>2, <2>1, <2>2, FrameInv, StepInv DEF AttemptInv
  <2>4. SingleConsumer' /\ PairInv'
    <3>1. CASE Accepts(a)
      BY <2>1, <2>2, <3>1, PairsAccept
    <3>2. CASE KeepsBinding(a)
      <4>1. \A b \in Attempts : KeepsBinding(b)
        BY <2>2, <3>2 DEF KeepsBinding
      <4>2. QED
        BY <2>1, <4>1, PairsKept DEF CPGrows
    <3>3. QED
      BY <2>2, <3>1, <3>2
  <2>5. QED
    BY <2>1, <2>3, <2>4 DEF IInv
<1>3. CASE UNCHANGED vars
  BY <1>3 DEF vars, cpVars, IInv, TypeOK, CPTypeOK, AttemptInv, PrincipalInv, CaptureInv,
     RowInv, SingleConsumer, PairInv, Later, SameRequest, Resolved, Judged, Captured,
     PrincipalValid, InScope
<1>4. QED
  BY <1>1, <1>2, <1>3 DEF Next

\* The inductive invariant holds in every reachable state.
LEMMA Invariance == Spec => []IInv
BY InitInv, NextInv, PTL DEF Spec

---------------------------------------------------------------------------
(* Rate windows.                                                           *)

\* Only ConsumeRate records the window that admitted an attempt.
WinInv ==
    \A a \in Attempts :
        att[a].pc \in {"start", "resolve", "epoch", "rate"} => att[a].win = NoTime

\* The row of a name counts at least the attempts of its window, and every other
\* window that admitted somebody is over by the time the row's window starts.
WindowInv(n) ==
    /\ windows[n].count = 0 => \A s \in Times : Admitted(n, s) = {}
    /\ \A s \in Times :
          /\ IsFiniteSet(Admitted(n, s)) /\ Cardinality(Admitted(n, s)) <= MaxRequests
          /\ s = windows[n].start => Cardinality(Admitted(n, s)) <= windows[n].count
          /\ Admitted(n, s) # {} =>
                s = windows[n].start \/ windows[n].start - s >= WindowSeconds
          /\ \A u \in Times :
                (s < u /\ Admitted(n, s) # {} /\ Admitted(n, u) # {})
                => u - s >= WindowSeconds

RateInv == WinInv /\ \A n \in Names : WindowInv(n)

\* What a step that admits nobody leaves of the record of an attempt.
KeepsWindow(b) ==
    /\ att'[b].win = att[b].win
    /\ att[b].win # NoTime => att'[b].principal = att[b].principal
    /\ att'[b].pc \in {"start", "resolve", "epoch", "rate"} =>
          att[b].pc \in {"start", "resolve", "epoch", "rate"}

\* ConsumeRate at the second t, for the rate key n, when it admits the attempt.
Admits(a, n, t) ==
    /\ At(a, "rate") /\ n = att[a].principal.name
    /\ RateConsume(n, t) /\ RateAllowed(n, t)
    /\ Become(a, [att[a] EXCEPT !.pc = "replay", !.win = CurrentWindow(n, t).start])

\* Steps that admit nobody keep the rate invariant.
LEMMA WindowsKept ==
    ASSUME RateInv, windows' = windows, \A b \in Attempts : KeepsWindow(b)
    PROVE  RateInv'
<1>1. WinInv'
  BY DEF RateInv, WinInv, KeepsWindow
<1>2. ASSUME NEW n \in Names, NEW s \in Times
      PROVE  Admitted(n, s)' = Admitted(n, s)
  <2>1. s # NoTime
    BY BoundsAssumption DEF Times, NoTime
  <2>2. ASSUME NEW b \in Attempts PROVE b \in Admitted(n, s)' <=> b \in Admitted(n, s)
    BY <2>1, <2>2 DEF Admitted, KeepsWindow
  <2>3. Admitted(n, s) \subseteq Attempts /\ Admitted(n, s)' \subseteq Attempts
    BY DEF Admitted
  <2>4. QED
    BY <2>2, <2>3
<1>3. ASSUME NEW n \in Names PROVE WindowInv(n)'
  <2>1. WindowInv(n)
    BY DEF RateInv
  <2>2. QED
    BY <1>2, <2>1 DEF WindowInv
<1>4. QED
  BY <1>1, <1>3 DEF RateInv

\* A step that is no consume of the limiter admits nobody.
LEMMA StepKeepsWindow ==
    ASSUME IInv, RateInv, NEW a \in Attempts, Step(a), ~ConsumeRate(a)
    PROVE  windows' = windows /\ KeepsWindow(a)
<1>a. /\ att \in [Attempts -> AttemptType] /\ att[a] \in AttemptType
      /\ att[a].pc \in {"start", "resolve", "epoch", "rate"} => att[a].win = NoTime
  BY DEF IInv, RateInv, WinInv, TypeOK
<1>b. windows' = windows
  BY DEF Step, Start, ResolvePrincipal, CheckAuthority, ConsumeReplay, Query,
     RevalidateEpoch, Disclose, Abort, cpVars
<1>c. KeepsWindow(a)
  <2> USE <1>a DEF Become, Deny, KeepsWindow
  <2>1. CASE Start(a)
    BY <2>1 DEF Start, At, AttemptType
  <2>2. CASE ResolvePrincipal(a)
    BY <2>2, ZenonT(40) DEF ResolvePrincipal, At, AttemptType
  <2>3. CASE CheckAuthority(a)
    BY <2>3 DEF CheckAuthority, At, AttemptType
  <2>4. CASE ConsumeReplay(a)
    <3>1. CASE Become(a, [att[a] EXCEPT !.pc = "query", !.bound = TRUE])
      BY <3>1 DEF AttemptType
    <3>2. CASE Deny(a)
      BY <3>2 DEF AttemptType
    <3>3. QED
      BY <2>4, <3>1, <3>2, Zenon DEF ConsumeReplay
  <2>5. CASE Query(a)
    <3>1. CASE att[a].bound
      <4>1. PICK found \in BOOLEAN, c \in BOOLEAN :
               Become(a, [att[a] EXCEPT !.pc = "revalEpoch", !.hits = found,
                             !.rnow = clock, !.capEpoch = epoch, !.capRevoked = c])
        <5>1. (att[a].req.auth \in revoked) \in BOOLEAN
          OBVIOUS
        <5>2. QED
          BY <2>5, <3>1, <5>1, Zenon DEF Query
      <4>2. QED
        BY <4>1 DEF AttemptType
    <3>2. CASE ~att[a].bound
      <4>1. Become(a, [att[a] EXCEPT !.pc = "done", !.out = "EMPTY"])
        BY <2>5, <3>2, Zenon DEF Query
      <4>2. QED
        BY <4>1 DEF AttemptType
    <3>3. QED
      BY <3>1, <3>2
  <2>6. CASE RevalidateEpoch(a)
    BY <2>6 DEF RevalidateEpoch, AttemptType
  <2>7. CASE Disclose(a)
    <3>1. PICK o : Become(a, [att[a] EXCEPT !.pc = "done", !.out = o])
      BY <2>7 DEF Disclose
    <3>2. QED
      BY <3>1 DEF AttemptType
  <2>8. CASE Abort(a)
    BY <2>8 DEF Abort, AttemptType
  <2>9. QED
    BY <2>1, <2>2, <2>3, <2>4, <2>5, <2>6, <2>7, <2>8 DEF Step
<1>d. QED
  BY <1>b, <1>c

\* A consume of the limiter admits the attempt, or refuses it and leaves the row
\* as it was.
LEMMA ConsumeRateCases ==
    ASSUME IInv, RateInv, NEW a \in Attempts, ConsumeRate(a)
    PROVE  \/ windows' = windows /\ KeepsWindow(a)
           \/ \E n \in Names, t \in Times : Admits(a, n, t)
<1>1. /\ att \in [Attempts -> AttemptType] /\ att[a] \in AttemptType /\ At(a, "rate")
      /\ att[a].win = NoTime /\ att[a].principal \in Principals
      /\ windows \in [Names -> [start : 0..MaxClock, count : 0..MaxRequests]]
  BY DEF IInv, AttemptInv, RateInv, WinInv, TypeOK, CPTypeOK, ConsumeRate, At,
     PrincipalInv, Resolved
<1>2. PICK n \in Names : n = att[a].principal.name
  BY <1>1 DEF Names
<1>3. PICK t \in Times :
         /\ RateConsume(n, t)
         /\ \/ /\ RateAllowed(n, t)
               /\ Become(a, [att[a] EXCEPT !.pc = "replay",
                                 !.win = CurrentWindow(n, t).start])
            \/ ~RateAllowed(n, t) /\ Deny(a)
  BY <1>2 DEF ConsumeRate
<1>4. CASE RateAllowed(n, t)
  BY <1>1, <1>2, <1>3, <1>4 DEF Admits
<1>5. CASE ~RateAllowed(n, t)
  <2>1. CurrentWindow(n, t) = windows[n]
    BY <1>5, LimiterAssumption DEF RateAllowed, CurrentWindow
  <2>2. windows' = [windows EXCEPT ![n] = [windows[n] EXCEPT !.count = @]]
    BY <1>3, <1>5, <2>1 DEF RateConsume
  <2>3. [windows[n] EXCEPT !.count = windows[n].count] = windows[n]
    BY <1>1
  <2>4. windows' = windows
    BY <1>1, <2>2, <2>3
  <2>5. KeepsWindow(a)
    BY <1>1, <1>3, <1>5 DEF Deny, Become, KeepsWindow, AttemptType, At
  <2>6. QED
    BY <2>4, <2>5
<1>6. QED
  BY <1>4, <1>5

\* SQLiteRateLimiter.consume when it admits an attempt: the row's window gets one
\* more, and is new only when the last one is over.
LEMMA AdmitKeepsRate ==
    ASSUME IInv, RateInv, NEW a \in Attempts, NEW n \in Names, NEW t \in Times,
           Admits(a, n, t), \A b \in Attempts : b # a => att'[b] = att[b]
    PROVE  RateInv'
<1> USE LimiterAssumption, BoundsAssumption
<1>1. /\ att[a] \in AttemptType /\ att[a].win = NoTime
      /\ windows \in [Names -> [start : 0..MaxClock, count : 0..MaxRequests]]
      /\ att \in [Attempts -> AttemptType]
  BY DEF IInv, RateInv, WinInv, TypeOK, CPTypeOK, Admits, At
<1>2. PICK s0 \in Times, k \in 0..MaxRequests :
         s0 = CurrentWindow(n, t).start /\ k = CurrentWindow(n, t).count
  BY <1>1 DEF CurrentWindow, Times
<1>3. k < MaxRequests
  BY <1>2 DEF Admits, RateAllowed
<1>4. /\ att'[a].win = s0 /\ att'[a].principal = att[a].principal /\ att'[a].pc = "replay"
      /\ att[a].principal.name = n
  BY <1>1, <1>2 DEF Admits, Become, AttemptType
<1>5. /\ windows'[n].start = s0 /\ windows'[n].count = k + 1
      /\ \A m \in Names : m # n => windows'[m] = windows[m]
  <2>1. CurrentWindow(n, t) \in [start : 0..MaxClock, count : 0..MaxRequests]
    BY <1>1 DEF CurrentWindow, Times
  <2>2. windows' = [windows EXCEPT ![n] = [CurrentWindow(n, t) EXCEPT !.count = @ + 1]]
    BY DEF Admits, RateConsume
  <2>3. QED
    BY <1>1, <1>2, <2>1, <2>2
<1>6. ASSUME NEW m \in Names, NEW s \in Times
      PROVE  Admitted(m, s)' = IF m = n /\ s = s0 THEN Admitted(m, s) \cup {a}
                               ELSE Admitted(m, s)
  <2>1. s # NoTime
    BY DEF Times, NoTime
  <2>2. a \notin Admitted(m, s) /\ (a \in Admitted(m, s)' <=> m = n /\ s = s0)
    BY <1>1, <1>4, <2>1 DEF Admitted
  <2>3. ASSUME NEW b \in Attempts, b # a
        PROVE  b \in Admitted(m, s)' <=> b \in Admitted(m, s)
    BY <2>3 DEF Admitted
  <2>4. Admitted(m, s) \subseteq Attempts /\ Admitted(m, s)' \subseteq Attempts
    BY DEF Admitted
  <2>5. QED
    BY <2>2, <2>3, <2>4
<1>7. WinInv'
  BY <1>4 DEF RateInv, WinInv
<1>8. ASSUME NEW m \in Names, m # n PROVE WindowInv(m)'
  <2>1. \A s \in Times : Admitted(m, s)' = Admitted(m, s)
    BY <1>6, <1>8
  <2>2. windows'[m] = windows[m] /\ WindowInv(m)
    BY <1>5, <1>8 DEF RateInv
  <2>3. QED
    BY <2>1, <2>2 DEF WindowInv
<1>9. WindowInv(n)'
  <2>1. WindowInv(n) /\ windows[n].start \in Times /\ windows[n].count \in 0..MaxRequests
    BY <1>1 DEF RateInv, Times
  <2>2. IsFiniteSet(Admitted(n, s0)) /\ Cardinality(Admitted(n, s0)) <= k
    <3>1. CASE WindowRestarts(n, t)
      <4>1. k = 0 /\ s0 = t
        BY <1>2, <3>1 DEF CurrentWindow
      <4>2. Admitted(n, s0) = {}
        BY <2>1, <3>1, <4>1 DEF WindowInv, WindowRestarts, Times
      <4>3. QED
        BY <4>1, <4>2, FS_EmptySet
    <3>2. CASE ~WindowRestarts(n, t)
      <4>1. k = windows[n].count /\ s0 = windows[n].start
        BY <1>2, <3>2 DEF CurrentWindow
      <4>2. QED
        BY <2>1, <4>1 DEF WindowInv
    <3>3. QED
      BY <3>1, <3>2
  <2>3. IsFiniteSet(Admitted(n, s0)') /\ Cardinality(Admitted(n, s0)') <= k + 1
    <3>1. /\ IsFiniteSet(Admitted(n, s0) \cup {a})
          /\ \/ Cardinality(Admitted(n, s0) \cup {a}) = Cardinality(Admitted(n, s0))
             \/ Cardinality(Admitted(n, s0) \cup {a}) = Cardinality(Admitted(n, s0)) + 1
      BY <2>2, FS_AddElement
    <3>2. Cardinality(Admitted(n, s0)) \in Nat
      BY <2>2, FS_CardinalityType
    <3>3. Admitted(n, s0)' = Admitted(n, s0) \cup {a}
      BY <1>6
    <3>4. QED
      BY <2>2, <3>1, <3>2, <3>3
  <2>4. ASSUME NEW s \in Times, s # s0
        PROVE  /\ IsFiniteSet(Admitted(n, s)') /\ Cardinality(Admitted(n, s)') <= MaxRequests
               /\ Admitted(n, s)' # {} => s0 - s >= WindowSeconds
    <3>1. Admitted(n, s)' = Admitted(n, s)
      BY <1>6, <2>4
    <3>2. /\ IsFiniteSet(Admitted(n, s)) /\ Cardinality(Admitted(n, s)) <= MaxRequests
          /\ Admitted(n, s) # {} =>
                s = windows[n].start \/ windows[n].start - s >= WindowSeconds
      BY <2>1 DEF WindowInv
    <3>3. ASSUME Admitted(n, s) # {} PROVE s0 - s >= WindowSeconds
      <4>1. CASE WindowRestarts(n, t)
        <5>1. s0 = t /\ windows[n].count # 0
          BY <1>2, <2>1, <3>3, <4>1 DEF CurrentWindow, WindowInv
        <5>2. t - windows[n].start >= WindowSeconds
          BY <4>1, <5>1 DEF WindowRestarts
        <5>3. QED
          BY <2>1, <3>2, <3>3, <5>1, <5>2 DEF Times
      <4>2. CASE ~WindowRestarts(n, t)
        BY <1>2, <2>4, <3>2, <3>3, <4>2 DEF CurrentWindow
      <4>3. QED
        BY <4>1, <4>2
    <3>4. QED
      BY <3>1, <3>2, <3>3
  <2>5. ASSUME NEW s \in Times, NEW u \in Times, s < u,
               Admitted(n, s)' # {}, Admitted(n, u)' # {}
        PROVE  u - s >= WindowSeconds
    <3>1. s # s0
      <4>1. SUFFICES ASSUME s = s0 PROVE FALSE
        OBVIOUS
      <4>2. s0 - u >= WindowSeconds
        BY <2>4, <2>5, <4>1 DEF Times
      <4>3. QED
        BY <2>5, <4>1, <4>2 DEF Times
    <3>2. CASE u = s0
      BY <2>4, <2>5, <3>1, <3>2
    <3>3. CASE u # s0
      <4>1. Admitted(n, s) # {} /\ Admitted(n, u) # {}
        BY <1>6, <2>5, <3>1, <3>3
      <4>2. QED
        BY <2>1, <2>5, <4>1 DEF WindowInv
    <3>4. QED
      BY <3>2, <3>3
  <2>6. windows'[n].count # 0
    BY <1>5
  <2>7. s0 \in Times /\ k + 1 <= MaxRequests
    BY <1>3
  <2>8. ASSUME NEW s \in Times
        PROVE  /\ IsFiniteSet(Admitted(n, s)') /\ Cardinality(Admitted(n, s)') <= MaxRequests
               /\ s = s0 => Cardinality(Admitted(n, s)') <= k + 1
               /\ Admitted(n, s)' # {} => s = s0 \/ s0 - s >= WindowSeconds
    <3>1. CASE s = s0
      <4>1. Cardinality(Admitted(n, s0)') \in Nat
        BY <2>3, FS_CardinalityType
      <4>2. QED
        BY <2>3, <2>7, <3>1, <4>1
    <3>2. CASE s # s0
      BY <2>4, <3>2
    <3>3. QED
      BY <3>1, <3>2
  <2>9. QED
    BY <1>5, <2>5, <2>6, <2>8 DEF WindowInv
<1>10. QED
  BY <1>7, <1>8, <1>9 DEF RateInv

\* The rate invariant starts out true.
LEMMA RateInit == ASSUME Init PROVE RateInv
<1>1. \A a \in Attempts : att[a].win = NoTime
  BY DEF Init, NewAttempt
<1>2. \A n \in Names, s \in Times : Admitted(n, s) = {}
  BY <1>1, BoundsAssumption DEF Admitted, Times, NoTime
<1>3. \A n \in Names : windows[n].count = 0
  BY DEF Init, CPInit, NoWindow
<1>4. ASSUME NEW n \in Names PROVE WindowInv(n)
  <2>1. Cardinality({}) = 0 /\ IsFiniteSet({})
    BY FS_EmptySet
  <2>2. ASSUME NEW s \in Times
        PROVE  /\ Admitted(n, s) = {} /\ IsFiniteSet(Admitted(n, s))
               /\ Cardinality(Admitted(n, s)) = 0
    BY <1>2, <2>1, Zenon
  <2>3. windows[n].count = 0 /\ 0 <= MaxRequests
    BY <1>3, LimiterAssumption
  <2>4. QED
    BY <2>2, <2>3 DEF WindowInv
<1>5. WinInv
  BY <1>1 DEF WinInv
<1>6. QED
  BY <1>4, <1>5 DEF RateInv

\* Every step preserves it.
LEMMA RateNext == ASSUME IInv, RateInv, [Next]_vars PROVE RateInv'
<1>1. CASE (CPNext /\ UNCHANGED att) \/ UNCHANGED vars
  <2>1. windows' = windows /\ att' = att
    BY <1>1 DEF CPNext, Register, Revoke, AdvanceEpoch, BumpEpoch, Tick, vars, cpVars
  <2>2. QED
    BY <2>1, WindowsKept DEF KeepsWindow
<1>2. ASSUME NEW a \in Attempts, Step(a) PROVE RateInv'
  <2>1. \A b \in Attempts : b # a => att'[b] = att[b]
    BY <1>2, StepBindings
  <2>2. ASSUME windows' = windows, KeepsWindow(a) PROVE RateInv'
    <3>1. \A b \in Attempts : KeepsWindow(b)
      BY <2>1, <2>2 DEF KeepsWindow
    <3>2. QED
      BY <2>2, <3>1, WindowsKept
  <2>3. CASE ConsumeRate(a)
    BY <2>1, <2>2, <2>3, ConsumeRateCases, AdmitKeepsRate
  <2>4. CASE ~ConsumeRate(a)
    BY <1>2, <2>2, <2>4, StepKeepsWindow
  <2>5. QED
    BY <2>3, <2>4
<1>3. QED
  BY <1>1, <1>2 DEF Next

---------------------------------------------------------------------------
(* Theorems                                                                *)

\* The tables and the attempts keep their types: in particular no rate window
\* ever counts more admissions than SQLiteRateLimiter.max_requests.
THEOREM TypeCorrect == Spec => []TypeOK
<1>1. IInv => TypeOK
  BY DEF IInv
<1>2. QED
  BY <1>1, Invariance, PTL

\* Whatever administration and however many workers interleave with the calls of
\* evaluate and revalidate, evidence is only disclosed under an authority that
\* held, as a whole, at the instant revalidate read the clock.
THEOREM DisclosureCorrect == Spec => []DisclosureLinearized
<1>1. IInv => DisclosureLinearized
  BY DEF IInv, AttemptInv, PrincipalInv, CaptureInv, Resolved, Captured,
     DisclosureLinearized, Disclosed
<1>2. QED
  BY <1>1, Invariance, PTL

\* SQLiteReplayGuard admits two attempts under one request id only once the
\* validity of one of their bindings has run out.
THEOREM ReplayGuardCorrect == Spec => []SingleConsumer
<1>1. IInv => SingleConsumer
  BY DEF IInv
<1>2. QED
  BY <1>1, Invariance, PTL

\* A request is answered with evidence twice only in the last second of the
\* principal's validity.
THEOREM ReplayWindowCorrect == Spec => []ReplayOnlyAtExpiry
<1>1. ASSUME IInv PROVE ReplayOnlyAtExpiry
  <2> SUFFICES ASSUME NEW a \in Attempts, NEW b \in Attempts, a # b,
                      Disclosed(a), Disclosed(b),
                      att[a].req.rid = att[b].req.rid, att[a].req.auth = att[b].req.auth
               PROVE  \/ att[a].rnow = att[a].principal.until
                      \/ att[b].rnow = att[b].principal.until
    BY DEF ReplayOnlyAtExpiry
  <2>1. \A x \in {a, b} :
           /\ att[x].bound /\ att[x].rnow \in Times /\ att[x].rnow # NoTime
           /\ att[x].rnow <= att[x].principal.until /\ att[x].principal.until \in Nat
    BY <1>1, BoundsAssumption, PrincipalsAssumption DEF IInv, AttemptInv, CaptureInv,
       Captured, PrincipalInv, Resolved, PrincipalValid, Disclosed, Times, NoTime
  <2>2. Later(att[a]) \/ Later(att[b])
    BY <1>1, <2>1 DEF IInv, PairInv, SameRequest
  <2>3. QED
    BY <2>1, <2>2, BoundsAssumption DEF Later, Times
<1>2. QED
  BY <1>1, Invariance, PTL

\* Each window of a principal admits at most max_requests attempts, and its
\* windows are at least window_seconds apart, however many workers bring their
\* clock reads to SQLiteRateLimiter.consume in whatever order.
THEOREM RateLimitCorrect == Spec => []RateWindowBound
<1>1. IInv /\ RateInv => RateWindowBound
  BY DEF RateInv, WindowInv, RateWindowBound
<1>2. Init => RateInv
  BY RateInit
<1>3. IInv /\ RateInv /\ [Next]_vars => RateInv'
  BY RateNext
<1>4. QED
  BY <1>1, <1>2, <1>3, Invariance, PTL DEF Spec
---------------------------------------------------------------------------
(* Refinement                                                              *)

\* Administration and time only move the authority that requests have.
LEMMA WorldRefines ==
    ASSUME CPNext, UNCHANGED att
    PROVE  [Disclosure!ActNext]_(Disclosure!actVars)
<1>1. Disclosure!World
  BY DEF Disclosure!World
<1>2. QED
  BY <1>1 DEF Disclosure!ActNext

\* A step of an attempt is the look that settles its authority, its act, its
\* refusal, or nothing that can be seen from outside.
LEMMA StepRefines ==
    ASSUME IInv, IInv', NEW a \in Attempts, Step(a)
    PROVE  [Disclosure!ActNext]_(Disclosure!actVars)
<1> DEFINE able == {b \in Attempts : Authorized(att[b].req)}
           phase == [b \in Attempts |-> Phase(att[b])]
<1>0. att \in [Attempts -> AttemptType] /\ att[a] \in AttemptType
  BY DEF IInv, TypeOK
<1>1. /\ UNCHANGED <<registry, revoked, epoch, clock>>
      /\ \A b \in Attempts \ {a} : att'[b] = att[b]
      /\ \A b \in Attempts : att'[b].req = att[b].req
  <2>1. UNCHANGED <<registry, revoked, epoch, clock>>
    BY DEF Step, Start, ResolvePrincipal, CheckAuthority, ConsumeRate, ConsumeReplay,
       Query, RevalidateEpoch, Disclose, Abort, cpVars
  <2>2. \A b \in Attempts \ {a} : att'[b] = att[b]
    BY <1>0 DEF Step, Start, ResolvePrincipal, CheckAuthority, ConsumeRate, ConsumeReplay,
       Query, RevalidateEpoch, Disclose, Abort, Deny, Become
  <2>3. att'[a].req = att[a].req
    <3>1. CASE Start(a)
      BY <3>1, <1>0 DEF Start, Become, AttemptType
    <3>2. CASE ResolvePrincipal(a)
      BY <3>2, <1>0 DEF ResolvePrincipal, Deny, Become, AttemptType
    <3>3. CASE CheckAuthority(a)
      BY <3>3, <1>0 DEF CheckAuthority, Deny, Become, AttemptType
    <3>4. CASE ConsumeRate(a)
      BY <3>4, <1>0, ZenonT(40) DEF ConsumeRate, Deny, Become, AttemptType
    <3>5. CASE ConsumeReplay(a)
      BY <3>5, <1>0 DEF ConsumeReplay, Deny, Become, AttemptType
    <3>6. CASE Query(a)
      <4>1. CASE att[a].bound
        <5>1. PICK found \in BOOLEAN :
                 att'[a] = [att[a] EXCEPT !.pc = "revalEpoch", !.hits = found,
                               !.rnow = clock, !.capEpoch = epoch,
                               !.capRevoked = att[a].req.auth \in revoked]
          BY <3>6, <4>1, <1>0 DEF Query, Become
        <5>2. QED
          BY <5>1, <1>0 DEF AttemptType
      <4>2. CASE ~att[a].bound
        BY <3>6, <4>2, <1>0 DEF Query, Become, AttemptType
      <4>3. QED
        BY <4>1, <4>2
    <3>7. CASE RevalidateEpoch(a)
      BY <3>7, <1>0 DEF RevalidateEpoch, Become, AttemptType
    <3>8. CASE Disclose(a)
      BY <3>8, <1>0 DEF Disclose, Become, AttemptType
    <3>9. CASE Abort(a)
      BY <3>9, <1>0 DEF Abort, Become, AttemptType
    <3>10. QED
      BY <3>1, <3>2, <3>3, <3>4, <3>5, <3>6, <3>7, <3>8, <3>9 DEF Step
  <2>4. QED
    BY <2>1, <2>2, <2>3
<1>2. able' = able
  <2>1. \A b \in Attempts : Authorized(att[b].req)' <=> Authorized(att[b].req)
    BY <1>1 DEF Authorized, Resolve, PrincipalValid, InScope
  <2>2. QED
    BY <2>1
<1>3. \A b \in Attempts \ {a} : phase'[b] = phase[b]
  BY <1>1
<1>4. ASSUME phase'[a] = phase[a] PROVE [Disclosure!ActNext]_(Disclosure!actVars)
  <2>1. phase' = phase
    BY <1>3, <1>4
  <2>2. QED
    BY <1>2, <2>1 DEF Disclosure!actVars
<1>5. ASSUME NEW p, phase'[a] = p PROVE Disclosure!Becomes(a, p)
  <2>1. phase' = [phase EXCEPT ![a] = p]
    BY <1>3, <1>5
  <2>2. QED
    BY <1>2, <2>1 DEF Disclosure!Becomes
<1>6. CASE Start(a) \/ ResolvePrincipal(a) \/ CheckAuthority(a) \/ ConsumeRate(a)
           \/ ConsumeReplay(a)
  <2>1. /\ att[a].pc \in {"start", "resolve", "epoch", "rate", "replay"}
        /\ att'[a].pc \in {"resolve", "epoch", "rate", "replay", "query"}
    <3>1. CASE Start(a)
      BY <3>1, <1>0 DEF Start, Become, At, AttemptType
    <3>2. CASE ResolvePrincipal(a)
      BY <3>2, <1>0, ZenonT(40) DEF ResolvePrincipal, Deny, Become, At, AttemptType
    <3>3. CASE CheckAuthority(a)
      BY <3>3, <1>0 DEF CheckAuthority, Deny, Become, At, AttemptType
    <3>4. CASE ConsumeRate(a)
      BY <3>4, <1>0, ZenonT(40) DEF ConsumeRate, Deny, Become, At, AttemptType
    <3>5. CASE ConsumeReplay(a)
      BY <3>5, <1>0, ZenonT(40) DEF ConsumeReplay, Deny, Become, At, AttemptType
    <3>6. QED
      BY <1>6, <3>1, <3>2, <3>3, <3>4, <3>5
  <2>2. QED
    BY <2>1, <1>4 DEF Phase
<1>7. CASE Query(a) /\ att[a].bound
  <2>1. att[a].pc = "query" /\ phase[a] = "asking"
    BY <1>7 DEF Query, At, Phase
  <2>2. PICK found \in BOOLEAN :
           att'[a] = [att[a] EXCEPT !.pc = "revalEpoch", !.hits = found,
                         !.rnow = clock, !.capEpoch = epoch,
                         !.capRevoked = att[a].req.auth \in revoked]
    BY <1>7, <1>0 DEF Query, Become
  <2>3. /\ att'[a].pc = "revalEpoch" /\ att'[a].rnow = clock /\ att'[a].capEpoch = epoch
        /\ att'[a].capRevoked = (att[a].req.auth \in revoked)
        /\ att'[a].principal = att[a].principal
    BY <2>2, <1>0 DEF AttemptType
  <2>4. /\ att[a].req.auth \in AuthRefs /\ att[a].principal \in Principals
        /\ registry[att[a].req.auth] = att[a].principal
    BY <1>7 DEF IInv, AttemptInv, PrincipalInv, Resolved
  <2>5. att[a].principal # NoPrincipal
    BY <2>4, PrincipalsAssumption
  <2>6. Granted(att'[a]) <=> a \in able
    BY <2>3, <2>4, <2>5, <1>1 DEF Granted, Authorized, Resolve
  <2>7. phase'[a] = IF Granted(att'[a]) THEN "granted" ELSE "barred"
    BY <2>3 DEF Phase
  <2>8. Disclosure!Judge(a)
    BY <2>1, <2>6, <2>7, <1>5 DEF Disclosure!Judge
  <2>9. QED
    BY <2>8 DEF Disclosure!ActNext
<1>8. CASE (Query(a) /\ ~att[a].bound) \/ Abort(a)
  <2>1. att[a].pc # "done" /\ att'[a].pc = "done" /\ att'[a].out # "EVIDENCE"
    <3>1. CASE Query(a) /\ ~att[a].bound
      BY <3>1, <1>0 DEF Query, At, Become, AttemptType
    <3>2. CASE Abort(a)
      BY <3>2, <1>0 DEF Abort, Become, AttemptType
    <3>3. QED
      BY <1>8, <3>1, <3>2
  <2>2. phase[a] \in {"asking", "granted", "barred"} /\ phase'[a] = "refused"
    BY <2>1 DEF Phase
  <2>3. Disclosure!GiveUp(a)
    BY <2>2, <1>5 DEF Disclosure!GiveUp
  <2>4. QED
    BY <2>3 DEF Disclosure!ActNext
<1>9. CASE RevalidateEpoch(a)
  <2>1. /\ att[a].pc = "revalEpoch"
        /\ att'[a] = [att[a] EXCEPT !.pc = "revalResolve", !.repoch = epoch]
    BY <1>9, <1>0 DEF RevalidateEpoch, At, Become
  <2>2. /\ att'[a].pc = "revalResolve" /\ att'[a].rnow = att[a].rnow
        /\ att'[a].capEpoch = att[a].capEpoch /\ att'[a].capRevoked = att[a].capRevoked
        /\ att'[a].principal = att[a].principal /\ att'[a].req = att[a].req
    BY <2>1, <1>0 DEF AttemptType
  <2>3. Granted(att'[a]) <=> Granted(att[a])
    BY <2>2 DEF Granted
  <2>4. phase'[a] = phase[a]
    BY <2>1, <2>2, <2>3 DEF Phase
  <2>5. QED
    BY <2>4, <1>4
<1>10. CASE Disclose(a)
  <2>1. att[a].pc = "revalResolve" /\ att'[a].pc = "done"
        /\ att'[a].rnow = att[a].rnow /\ att'[a].capEpoch = att[a].capEpoch
        /\ att'[a].capRevoked = att[a].capRevoked
        /\ att'[a].principal = att[a].principal /\ att'[a].req = att[a].req
    BY <1>10, <1>0 DEF Disclose, At, Become, AttemptType
  <2>2. CASE att'[a].out = "EVIDENCE"
    <3>1. Granted(att'[a])
      BY <2>2 DEF IInv, AttemptInv, CaptureInv, Granted
    <3>2. phase[a] = "granted" /\ phase'[a] = "acted"
      BY <2>1, <2>2, <3>1 DEF Granted, Phase
    <3>3. Disclosure!Act(a)
      BY <3>2, <1>5 DEF Disclosure!Act
    <3>4. QED
      BY <3>3 DEF Disclosure!ActNext
  <2>3. CASE att'[a].out # "EVIDENCE"
    <3>1. phase[a] \in {"granted", "barred"} /\ phase'[a] = "refused"
      BY <2>1, <2>3 DEF Phase
    <3>2. Disclosure!GiveUp(a)
      BY <3>1, <1>5 DEF Disclosure!GiveUp
    <3>3. QED
      BY <3>2 DEF Disclosure!ActNext
  <2>4. QED
    BY <2>2, <2>3
<1>11. QED
  BY <1>6, <1>7, <1>8, <1>9, <1>10 DEF Step

\* The read path implements AuthorizedAct: for any principals, requests and
\* concurrent workers, every behaviour of the separate transactions is one in
\* which each disclosure follows a single look at the request's whole authority.
THEOREM DisclosuresAreAuthorizedActs == Spec => DisclosureImplementsAct
<1>1. Init => Disclosure!ActInit
  <2> SUFFICES ASSUME Init PROVE Disclosure!ActInit
    OBVIOUS
  <2>1. \A a \in Attempts : att[a].pc = "start"
    BY DEF Init, NewAttempt
  <2>2. QED
    BY <2>1 DEF Disclosure!ActInit, Phase
<1>2. IInv /\ IInv' /\ [Next]_vars => [Disclosure!ActNext]_(Disclosure!actVars)
  <2> SUFFICES ASSUME IInv, IInv', [Next]_vars
               PROVE  [Disclosure!ActNext]_(Disclosure!actVars)
    OBVIOUS
  <2>1. CASE CPNext /\ UNCHANGED att
    BY <2>1, WorldRefines
  <2>2. ASSUME NEW a \in Attempts, Step(a) PROVE [Disclosure!ActNext]_(Disclosure!actVars)
    BY <2>2, StepRefines
  <2>3. CASE UNCHANGED vars
    BY <2>3 DEF vars, cpVars, Disclosure!actVars, Authorized, Resolve, PrincipalValid, InScope
  <2>4. QED
    BY <2>1, <2>2, <2>3 DEF Next
<1>3. QED
  BY <1>1, <1>2, Invariance, PTL DEF Spec, DisclosureImplementsAct, Disclosure!ActSpec
===========================================================================
