--------------------------- MODULE EmissionFence ---------------------------
(***************************************************************************)
(* The Gate-D decision engine and its final emission fence                 *)
(* (pmiri/gate_d.py: GateDDecisionEngine, EnforcedTransportRuntime), with  *)
(* the durable policy epoch shared with the authorization workers.         *)
(*                                                                         *)
(* A job is one caller that collects a trust, a capability and a network   *)
(* decision, a request binding and an envelope, and then asks the runtime  *)
(* to emit.  engine.invalidation_epoch is a SELECT each time it is read,   *)
(* so an invalidation can come between any two reads:                      *)
(*                                                                         *)
(*   trust -> capJudge -> capStamp -> netBind -> netStamp    evaluate_*    *)
(*         -> bind -> build                  build_integrated_envelope     *)
(*         -> fence -> fenceValid -> revalEpoch -> revalResolve            *)
(*                                           authorize_emission            *)
(*         -> transport -> sent | denied     execute_provider              *)
(*                                                                         *)
(* engine.now is the clock read of GateDDecisionEngine.__init__; nothing   *)
(* refreshes it.                                                           *)
(***************************************************************************)
EXTENDS ControlPlane

CONSTANTS
    Jobs,        \* callers of the engine
    Dests,       \* normalized targets a network decision may be about
    Assertions,  \* trust assertions a caller may present (records, see below)
    NoDest       \* "not yet chosen", and the in-memory test double's target

VARIABLES job, engineNow, provider

gdVars == <<job, engineNow, provider>>
vars == <<cpVars, gdVars>>

\* An assertion about the job's subject: whether it covers the purpose, material,
\* zone and feature asked for, its status, its validity window, and whether the
\* authority manifest it names is the engine's.
ASSUME AssertionsAssumption ==
    \A s \in Assertions :
        /\ s.scoped \in BOOLEAN /\ s.manifest \in BOOLEAN
        /\ s.status \in {"ACTIVE", "EXPIRED", "REVOKED", "CONTRADICTED", "INVALID"}
        /\ s.from \in Nat /\ s.until \in Nat

NoEpoch == -1

PCs == {"trust", "capJudge", "capStamp", "netBind", "netStamp", "bind", "build",
        "fence", "fenceValid", "revalEpoch", "revalResolve", "transport",
        "sent", "denied"}

(***************************************************************************)
(* trust, cap, net, envelope: action_result of each record is ALLOW.       *)
(* capEpoch, netEpoch: their invalidation_epoch; netBound: the epoch in    *)
(* the connection binding.  binding: the principal the request binding is  *)
(* derived from (its policy_epoch and validity are the binding's).         *)
(* History, for the properties only: trustAt, capAt, the epoch each        *)
(* decision was judged by; at, atRevoked: epoch and revocation when        *)
(* authorize_emission first read the epoch; via, the target of the         *)
(* transport that was called.                                              *)
(***************************************************************************)
NewJob(d) ==
    [pc |-> "trust", dest |-> d, trust |-> FALSE, cap |-> FALSE, net |-> FALSE,
     capEpoch |-> NoEpoch, netEpoch |-> NoEpoch, netBound |-> NoEpoch,
     binding |-> NoPrincipal, envelope |-> FALSE, envEpoch |-> NoEpoch,
     readEpoch |-> NoEpoch, trustAt |-> NoEpoch, capAt |-> NoEpoch,
     at |-> NoEpoch, atRevoked |-> FALSE, via |-> NoDest]

\* EnforcedTransportRuntime.provider: none, the in-memory double, or an HTTPS
\* adapter constructed for one network decision.
Transport(k, d, e) == [kind |-> k, dest |-> d, bound |-> e, epoch |-> e]
NoTransport == Transport("none", NoDest, NoEpoch)
InMemory    == Transport("memory", NoDest, NoEpoch)

Init ==
    /\ CPInit
    /\ job \in [Jobs -> {NewJob(d) : d \in Dests}]
    /\ engineNow = clock
    /\ provider \in {NoTransport, InMemory}

At(j, l) == job[j].pc = l
Become(j, r) == job' = [job EXCEPT ![j] = r]
Denied(j) == Become(j, [job[j] EXCEPT !.pc = "denied"])

---------------------------------------------------------------------------
(* GateDDecisionEngine.evaluate_trust, _capability and _network            *)

\* evaluate_trust: a revoked assertion of the subject decides whatever its scope;
\* then some scoped one must be active and fresh at engine.now, and every scoped
\* one must name this authority manifest.
Trusted(assertions) ==
    LET scoped == {s \in assertions : s.scoped}
    IN  /\ \A s \in assertions : s.status \notin {"REVOKED", "CONTRADICTED", "INVALID"}
        /\ \E s \in scoped : /\ s.status = "ACTIVE"
                             /\ s.from <= engineNow /\ engineNow <= s.until
        /\ \A s \in scoped : s.manifest

EvaluateTrust(j) ==
    /\ At(j, "trust")
    /\ \E assertions \in SUBSET Assertions :
          Become(j, [job[j] EXCEPT !.pc = "capJudge", !.trust = Trusted(assertions),
                                   !.trustAt = epoch])
    /\ UNCHANGED <<cpVars, engineNow, provider>>

\* evaluate_capability judges the observations by one read of the epoch (they may
\* be missing, stale, unsupported or fresh) and stamps the record with another.
JudgeCapability(j) ==
    /\ At(j, "capJudge")
    /\ \E observed \in 0..MaxEpoch, supported \in BOOLEAN :
          Become(j, [job[j] EXCEPT !.pc = "capStamp", !.capAt = epoch,
                                   !.cap = (supported /\ observed = epoch)])
    /\ UNCHANGED <<cpVars, engineNow, provider>>

StampCapability(j) ==
    /\ At(j, "capStamp")
    /\ Become(j, [job[j] EXCEPT !.pc = "netBind", !.capEpoch = epoch])
    /\ UNCHANGED <<cpVars, engineNow, provider>>

\* evaluate_network: resolution, TLS identity and revalidation are supplied
\* observations; the connection binding and the record read the epoch apart.
BindNetwork(j) ==
    /\ At(j, "netBind")
    /\ \E ok \in BOOLEAN :
          Become(j, [job[j] EXCEPT !.pc = "netStamp", !.net = ok, !.netBound = epoch])
    /\ UNCHANGED <<cpVars, engineNow, provider>>

StampNetwork(j) ==
    /\ At(j, "netStamp")
    /\ Become(j, [job[j] EXCEPT !.pc = "bind", !.netEpoch = epoch])
    /\ UNCHANGED <<cpVars, engineNow, provider>>

---------------------------------------------------------------------------
(* The binding and the envelope                                            *)

\* RequestAuthorizationService.evaluate (ReadPipeline) returns a binding derived
\* from a registered principal that was at the policy epoch; by now it may be
\* stale, expired or revoked.  The rows evaluate consumes are not read here.
Bind(j) ==
    /\ At(j, "bind")
    /\ \E r \in AuthRefs :
          /\ registry[r] # NoPrincipal
          /\ registry[r].epoch <= epoch /\ registry[r].issued <= clock
          /\ Become(j, [job[j] EXCEPT !.pc = "build", !.binding = registry[r]])
    /\ UNCHANGED <<cpVars, engineNow, provider>>

\* RequestAuthorizationBinding.is_valid at engine.now.
BindingValid(p, currentEpoch) ==
    /\ p.epoch = currentEpoch
    /\ p.issued <= engineNow /\ engineNow <= p.until

\* build_integrated_envelope: every decision and the binding must allow; the
\* envelope carries the binding's policy epoch.
BuildEnvelope(j) ==
    LET t == job[j]
    IN  /\ At(j, "build")
        /\ Become(j, [t EXCEPT !.pc = "fence", !.envEpoch = t.binding.epoch,
               !.envelope = t.trust /\ t.cap /\ t.net /\ BindingValid(t.binding, epoch)])
        /\ UNCHANGED <<cpVars, engineNow, provider>>

---------------------------------------------------------------------------
(* GateDDecisionEngine.authorize_emission                                  *)

\* The first checks of the fence, with its first read of the epoch.
EnvelopeCurrent(t) == t.envEpoch = epoch /\ t.envelope

EnterFence(j) ==
    LET t == job[j]
    IN  /\ At(j, "fence")
        /\ \/ /\ EnvelopeCurrent(t)
              /\ Become(j, [t EXCEPT !.pc = "fenceValid", !.at = epoch,
                               !.atRevoked = t.binding.auth \in revoked])
           \/ ~EnvelopeCurrent(t) /\ Denied(j)
        /\ UNCHANGED <<cpVars, engineNow, provider>>

\* authorization_binding.is_valid, with the second read.
FenceBindingValid(j) ==
    /\ At(j, "fenceValid")
    /\ \/ /\ BindingValid(job[j].binding, epoch)
          /\ Become(j, [job[j] EXCEPT !.pc = "revalEpoch"])
       \/ ~BindingValid(job[j].binding, epoch) /\ Denied(j)
    /\ UNCHANGED <<cpVars, engineNow, provider>>

\* authorization_revalidator.revalidate(now = engine.now): epoch, then registry.
RevalidateEpoch(j) ==
    /\ At(j, "revalEpoch")
    /\ Become(j, [job[j] EXCEPT !.pc = "revalResolve", !.readEpoch = epoch])
    /\ UNCHANGED <<cpVars, engineNow, provider>>

\* Defect for mutation: the registry is not asked, the binding is trusted.
Revalidated_NoResolve(t) == PrincipalValid(t.binding, engineNow, t.readEpoch)

Revalidated(t) ==
    /\ Resolve(t.binding.auth) = t.binding
    /\ PrincipalValid(t.binding, engineNow, t.readEpoch)

\* The verdict, then validate_external_emission: the envelope was built from this
\* network decision, whose action_result must be the envelope's.
LeaveFence(j) ==
    /\ At(j, "revalResolve")
    /\ \/ /\ Revalidated(job[j]) /\ job[j].net
          /\ Become(j, [job[j] EXCEPT !.pc = "transport"])
       \/ ~(Revalidated(job[j]) /\ job[j].net) /\ Denied(j)
    /\ UNCHANGED <<cpVars, engineNow, provider>>

---------------------------------------------------------------------------
(* EnforcedTransportRuntime                                                *)

\* HttpsJsonProviderTransport.__init__ (_validate_binding) accepts an ALLOW
\* decision, of any caller and any epoch so far, about any destination, whose
\* epoch is the one in its connection binding.
ConfigureProvider(d, e) ==
    /\ e <= epoch
    /\ provider' = Transport("https", d, e)
    /\ UNCHANGED <<cpVars, job, engineNow>>

\* Defect for mutation: any configured transport is good enough.
TransportMatches_Any(t) == provider.kind # "none"

\* _transport_binding_matches: the normalized target, the fingerprint of the
\* connection binding (which covers its epoch) and the record's epochs are equal;
\* a double without a decision always matches.
TransportMatches(t) ==
    \/ provider.kind = "memory"
    \/ /\ provider.kind = "https"
       /\ provider.dest = t.dest
       /\ provider.bound = t.netBound /\ provider.epoch = t.netEpoch

\* The transport is called, or the receipt is BLOCKED or DENIED.
CallTransport(j) ==
    /\ At(j, "transport")
    /\ \/ /\ TransportMatches(job[j])
          /\ Become(j, [job[j] EXCEPT !.pc = "sent", !.via = provider.dest])
       \/ ~TransportMatches(job[j]) /\ Denied(j)
    /\ UNCHANGED <<cpVars, engineNow, provider>>

\* After a denial the caller may bind again and rebuild, keeping its decisions.
Retry(j) ==
    /\ At(j, "denied")
    /\ Become(j, [job[j] EXCEPT !.pc = "bind"])
    /\ UNCHANGED <<cpVars, engineNow, provider>>

\* A new engine reads the clock again; a call of authorize_emission that is in
\* progress ends with the engine it began with.
NewEngine ==
    /\ engineNow # clock
    /\ \A j \in Jobs : job[j].pc \notin {"fenceValid", "revalEpoch", "revalResolve"}
    /\ engineNow' = clock
    /\ UNCHANGED <<cpVars, job, provider>>

Step(j) ==
    \/ EvaluateTrust(j) \/ JudgeCapability(j) \/ StampCapability(j)
    \/ BindNetwork(j) \/ StampNetwork(j) \/ Bind(j) \/ BuildEnvelope(j)
    \/ EnterFence(j) \/ FenceBindingValid(j) \/ RevalidateEpoch(j)
    \/ LeaveFence(j) \/ CallTransport(j) \/ Retry(j)

\* GateDDecisionEngine.invalidate is BumpEpoch.
Next ==
    \/ CPNext /\ UNCHANGED gdVars
    \/ \E j \in Jobs : Step(j)
    \/ \E d \in Dests, e \in 0..MaxEpoch : ConfigureProvider(d, e)
    \/ NewEngine

Spec == Init /\ [][Next]_vars

---------------------------------------------------------------------------
(* Properties                                                              *)

Epochs == 0..MaxEpoch \cup {NoEpoch}

\* Type invariant of the control plane, the jobs and the runtime.
TypeOK ==
    /\ CPTypeOK
    /\ job \in [Jobs -> [pc : PCs, dest : Dests, trust : BOOLEAN, cap : BOOLEAN,
            net : BOOLEAN, capEpoch : Epochs, netEpoch : Epochs, netBound : Epochs,
            binding : Principals \cup {NoPrincipal}, envelope : BOOLEAN,
            envEpoch : Epochs, readEpoch : Epochs, trustAt : Epochs, capAt : Epochs,
            at : Epochs, atRevoked : BOOLEAN, via : Dests \cup {NoDest}]]
    /\ engineNow \in 0..clock
    /\ provider \in [kind : {"none", "memory", "https"}, dest : Dests \cup {NoDest},
                     bound : Epochs, epoch : Epochs]

Sent(j) == At(j, "sent")

\* No transport runs after a stale or denied decision.  The fence reads the epoch
\* three times and the registry once, by separate SELECTs; still, for every call
\* of a transport there is one instant, the fence's first read, when the envelope
\* and its binding were at the policy epoch and the principal was registered and
\* unrevoked.
EmissionLinearized ==
    \A j \in Jobs : Sent(j) =>
        LET t == job[j]
        IN  /\ t.envEpoch = t.at /\ t.binding.epoch = t.at
            /\ ~t.atRevoked
            /\ registry[t.binding.auth] = t.binding

\* What leaves the process goes to the destination this job's network decision is
\* about, and the connection binding and the record of that decision agree on the
\* epoch, although jobs share one runtime whose transport may have been constructed
\* for another decision, and an invalidation may have split the two reads.
SentToBoundTarget ==
    \A j \in Jobs : (Sent(j) /\ job[j].via # NoDest) =>
        job[j].via = job[j].dest /\ job[j].netBound = job[j].netEpoch

\* "Invalidate all previously compiled decisions before emission": every decision
\* behind a transport call was judged at the epoch the fence found current.
OnlyCurrentDecisionsEmitted ==
    \A j \in Jobs : Sent(j) =>
        /\ job[j].trustAt = job[j].at
        /\ job[j].capAt = job[j].at
        /\ job[j].netEpoch = job[j].at
---------------------------------------------------------------------------
(* What the fence implements                                               *)

\* A job has all its authority while its envelope allows at the policy epoch and
\* its binding is a registered, unrevoked principal valid for the engine's clock.
Authorized(t) ==
    /\ t.envelope /\ t.envEpoch = epoch
    /\ Resolve(t.binding.auth) = t.binding
    /\ PrincipalValid(t.binding, engineNow, epoch)

\* authorize_emission's first read of the epoch settles whether the job may send.
Granted(t) == ~t.atRevoked /\ PrincipalValid(t.binding, engineNow, t.at)

Phase(t) ==
    CASE t.pc = "sent" -> "acted"
      [] t.pc = "denied" -> "refused"
      [] t.pc = "transport" -> "granted"
      [] t.pc \in {"fenceValid", "revalEpoch", "revalResolve"} ->
             IF Granted(t) THEN "granted" ELSE "barred"
      [] OTHER -> "asking"

Emission == INSTANCE AuthorizedAct WITH
    Callers   <- Jobs,
    justified <- {j \in Jobs : Authorized(job[j])},
    phase     <- [j \in Jobs |-> Phase(job[j])]

\* "No transport runs after a stale or denied decision", step by step: from
\* outside, the fence's reads of the epoch and the registry are one look at the
\* job's whole authority, and a transport is called only after a look that found
\* it; after a denial a retry needs a look of its own.
EmissionImplementsAct == Emission!ActSpec
===========================================================================
