--------------------------- MODULE ControlPlane ---------------------------
(***************************************************************************)
(* The durable control plane of PMIRI (pmiri/control_plane.py): one SQLite *)
(* database that every read worker shares.  It holds                       *)
(*   - registry, revoked : table authenticated_principals,                 *)
(*   - epoch             : table policy_epoch (a single row),              *)
(*   - replays           : table request_replays,                          *)
(*   - windows           : table rate_windows.                             *)
(* Every method of the adapters is one BEGIN IMMEDIATE transaction or one  *)
(* SELECT, so each is atomic here; what happens BETWEEN the calls a worker *)
(* makes is the subject of ReadPipeline.                                   *)
(*                                                                         *)
(* A principal is an immutable record; its fingerprint (a SHA-256 of all   *)
(* of its fields) is abstracted to equality of records.  clock is the wall *)
(* clock in whole seconds: utc_now truncates to seconds.                   *)
(***************************************************************************)
EXTENDS Integers, FiniteSets

CONSTANTS
    Principals,     \* the principals a trusted adapter may register
    NoPrincipal,    \* "resolve" found no usable row
    RequestIds,     \* request_id values
    MaxRequests,    \* SQLiteRateLimiter.max_requests
    WindowSeconds,  \* SQLiteRateLimiter.window_seconds
    MaxClock,       \* bound: the last second of the model's wall clock
    MaxEpoch        \* bound: the last policy epoch of the model

VARIABLES registry, revoked, epoch, replays, windows, clock

cpVars == <<registry, revoked, epoch, replays, windows, clock>>

AuthRefs == {p.auth : p \in Principals}
Names    == {p.name : p \in Principals}

\* What AuthenticatedPrincipal.verified and TrustZoneAttestation.issue accept:
\* a non-empty authority, and validity intervals that contain their start.
ASSUME PrincipalsAssumption ==
    /\ NoPrincipal \notin Principals
    /\ \A p \in Principals :
          /\ p.epoch \in Nat
          /\ p.issued \in Nat /\ p.until \in Nat /\ p.issued <= p.until
          /\ p.zoneIssued \in Nat /\ p.zoneUntil \in Nat
          /\ p.zoneIssued <= p.zoneUntil
          /\ p.projects # {} /\ p.operations # {} /\ p.purposes # {}

\* FixedWindowRateLimiter.__init__ rejects anything smaller.
ASSUME LimiterAssumption ==
    /\ MaxRequests \in Nat \ {0}
    /\ WindowSeconds \in Nat \ {0}

ASSUME BoundsAssumption == MaxClock \in Nat /\ MaxEpoch \in Nat

---------------------------------------------------------------------------
(* Rows and lookups.                                                       *)

NoWindow == [start |-> 0, count |-> 0]   \* no row: a stored row counts >= 1

CPInit ==
    /\ registry = [r \in AuthRefs |-> NoPrincipal]
    /\ revoked = {}
    /\ epoch = 0
    /\ replays = {}
    /\ windows = [n \in Names |-> NoWindow]
    /\ clock = 0

\* SQLiteAuthenticationRegistry.resolve: the unrevoked row, or none.
Resolve(auth) ==
    IF auth \in AuthRefs \ revoked THEN registry[auth] ELSE NoPrincipal

\* AuthenticatedPrincipal.is_valid, the trust-zone attestation included; both
\* interval ends are inclusive (_valid_interval).
PrincipalValid(p, now, currentEpoch) ==
    /\ p.epoch = currentEpoch
    /\ p.issued <= now /\ now <= p.until
    /\ p.zoneIssued <= now /\ now <= p.zoneUntil

---------------------------------------------------------------------------
(* The transactions a worker issues.                                       *)

\* Defect for mutation: rows are forgotten one second before they expire.
PurgedReplays_Early(now) == {r \in replays : r.expires > now + 1}

\* The DELETE that opens SQLiteReplayGuard.consume.
PurgedReplays(now) == {r \in replays : r.expires > now}

\* SQLiteReplayGuard.consume returning True and False.
ReplayAccepted(rid, expires, now) ==
    /\ \A r \in PurgedReplays(now) : r.id # rid
    /\ replays' = PurgedReplays(now) \cup {[id |-> rid, expires |-> expires]}

ReplayRejected(rid, now) ==
    /\ \E r \in PurgedReplays(now) : r.id = rid
    /\ replays' = PurgedReplays(now)

\* Defect for mutation: any later second opens a new window.
WindowRestarts_EverySecond(name, current) ==
    windows[name].count = 0 \/ current # windows[name].start

\* SQLiteRateLimiter.consume starts a window for a new key or after the old one.
WindowRestarts(name, current) ==
    \/ windows[name].count = 0
    \/ current - windows[name].start >= WindowSeconds

CurrentWindow(name, current) ==
    IF WindowRestarts(name, current)
      THEN [start |-> current, count |-> 0]
      ELSE windows[name]

\* Defect for mutation: the ceiling is tested with <= instead of <.
RateAllowed_OffByOne(name, current) ==
    CurrentWindow(name, current).count <= MaxRequests

RateAllowed(name, current) == CurrentWindow(name, current).count < MaxRequests

\* SQLiteRateLimiter.consume: the row is upserted whatever the verdict.
RateConsume(name, current) ==
    windows' = [windows EXCEPT ![name] =
        [CurrentWindow(name, current) EXCEPT
            !.count = IF RateAllowed(name, current) THEN @ + 1 ELSE @]]

---------------------------------------------------------------------------
(* Administration and time.                                                *)

\* SQLiteAuthenticationRegistry.register.  A different principal under a known
\* reference, and a revoked one, are refused; the same one again is a no-op.
Register(p) ==
    /\ registry[p.auth] = NoPrincipal
    /\ registry' = [registry EXCEPT ![p.auth] = p]
    /\ UNCHANGED <<revoked, epoch, replays, windows, clock>>

\* SQLiteAuthenticationRegistry.revoke: only a stored, unrevoked row changes.
Revoke(auth) ==
    /\ registry[auth] # NoPrincipal
    /\ auth \notin revoked
    /\ revoked' = revoked \cup {auth}
    /\ UNCHANGED <<registry, epoch, replays, windows, clock>>

\* SQLitePolicyEpoch.advance, as RequestAuthorizationService.advance_policy_epoch
\* calls it (the service's own copy is not read while a store is configured).
AdvanceEpoch(e) ==
    /\ e >= epoch
    /\ epoch' = e
    /\ UNCHANGED <<registry, revoked, replays, windows, clock>>

\* SQLitePolicyEpoch.bump.
BumpEpoch ==
    /\ epoch < MaxEpoch
    /\ epoch' = epoch + 1
    /\ UNCHANGED <<registry, revoked, replays, windows, clock>>

Tick ==
    /\ clock < MaxClock
    /\ clock' = clock + 1
    /\ UNCHANGED <<registry, revoked, epoch, replays, windows>>

CPNext ==
    \/ \E p \in Principals : Register(p)
    \/ \E r \in AuthRefs : Revoke(r)
    \/ \E e \in 0..MaxEpoch : AdvanceEpoch(e)
    \/ BumpEpoch
    \/ Tick

CPTypeOK ==
    /\ registry \in [AuthRefs -> Principals \cup {NoPrincipal}]
    /\ \A r \in AuthRefs : registry[r] # NoPrincipal => registry[r].auth = r
    /\ revoked \subseteq AuthRefs
    /\ epoch \in 0..MaxEpoch
    /\ replays \subseteq [id : RequestIds, expires : Nat]
    /\ windows \in [Names -> [start : 0..MaxClock, count : 0..MaxRequests]]
    /\ clock \in 0..MaxClock
===========================================================================
