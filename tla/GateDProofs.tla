---------------------------- MODULE GateDProofs ----------------------------
(***************************************************************************)
(* Machine-checked proofs about the Gate-D engine, for any jobs,           *)
(* principals, destinations and assertions and any bounds.                 *)
(***************************************************************************)
EXTENDS EmissionFence, ProcessGuards, ConnectorContent, FiniteSetTheorems,
        WellFoundedInduction, TLAPS

JobType ==
    [pc : PCs, dest : Dests, trust : BOOLEAN, cap : BOOLEAN,
     net : BOOLEAN, capEpoch : Epochs, netEpoch : Epochs, netBound : Epochs,
     binding : Principals \cup {NoPrincipal}, envelope : BOOLEAN,
     envEpoch : Epochs, readEpoch : Epochs, trustAt : Epochs, capAt : Epochs,
     at : Epochs, atRevoked : BOOLEAN, via : Dests \cup {NoDest}]

Fenced(t)  == t.pc \in {"fenceValid", "revalEpoch", "revalResolve", "transport", "sent"}
Built(t)   == t.pc = "fence" \/ Fenced(t)
Binding(t) == t.pc = "build" \/ Built(t)

\* The binding a job holds is a row of the registry, not ahead of the policy epoch.
BindingInv(t) ==
    Binding(t) => /\ t.binding \in Principals
                  /\ t.binding.auth \in AuthRefs
                  /\ registry[t.binding.auth] = t.binding
                  /\ t.binding.epoch <= epoch

\* What the fence's first read settles, and what only its last check settles: a
\* revocation seen at the first read is still there when the registry is asked.
FenceInv(t) ==
    /\ Built(t) => t.envEpoch = t.binding.epoch
    /\ Fenced(t) => t.envEpoch = t.at
    /\ (Fenced(t) /\ t.atRevoked) => t.binding.auth \in revoked
    /\ t.pc \in {"transport", "sent"} => ~t.atRevoked

\* A transport that went out was the double or was bound to the job's decision.
ViaInv(t) ==
    (t.pc = "sent" /\ t.via # NoDest) => t.via = t.dest /\ t.netBound = t.netEpoch

\* A transport is either without a destination or about one epoch.
ProviderInv ==
    /\ provider.kind = "memory" => provider.dest = NoDest
    /\ provider.kind = "https" => provider.bound = provider.epoch

JobInv == \A j \in Jobs : BindingInv(job[j]) /\ FenceInv(job[j]) /\ ViaInv(job[j])

\* The inductive invariant of the emission fence.
FenceIInv == TypeOK /\ JobInv /\ ProviderInv

---------------------------------------------------------------------------
(* The control plane under administration and time.                        *)

\* Rows are written once, revocation is final, epoch and clock only grow.
CPGrows ==
    /\ \A r \in AuthRefs : registry[r] # NoPrincipal => registry'[r] = registry[r]
    /\ revoked \subseteq revoked'
    /\ epoch <= epoch' /\ clock <= clock'

\* Every administrative transaction and every second keep the tables well typed
\* and only let them grow.
LEMMA Administration == ASSUME CPTypeOK, CPNext PROVE CPTypeOK' /\ CPGrows
<1> USE BoundsAssumption, PrincipalsAssumption DEF CPTypeOK, CPGrows
<1>1. ASSUME NEW p \in Principals, Register(p) PROVE CPTypeOK' /\ CPGrows
  BY <1>1 DEF Register, AuthRefs
<1>2. ASSUME NEW r \in AuthRefs, Revoke(r) PROVE CPTypeOK' /\ CPGrows
  BY <1>2 DEF Revoke
<1>3. ASSUME NEW e \in 0..MaxEpoch, AdvanceEpoch(e) PROVE CPTypeOK' /\ CPGrows
  BY <1>3 DEF AdvanceEpoch
<1>4. CASE BumpEpoch
  BY <1>4 DEF BumpEpoch
<1>5. CASE Tick
  BY <1>5 DEF Tick
<1>6. QED
  BY <1>1, <1>2, <1>3, <1>4, <1>5 DEF CPNext

\* What a job knows about its binding and its fence outlives any growth.
LEMMA GrowthKeepsJobs ==
    ASSUME TypeOK, JobInv, CPGrows, CPTypeOK', UNCHANGED job PROVE JobInv'
<1> SUFFICES ASSUME NEW j \in Jobs
             PROVE  BindingInv(job[j])' /\ FenceInv(job[j])' /\ ViaInv(job[j])'
  BY DEF JobInv
<1>1. BindingInv(job[j]) /\ FenceInv(job[j]) /\ ViaInv(job[j])
  BY DEF JobInv
<1>2. BindingInv(job[j])'
  <2> SUFFICES ASSUME Binding(job[j])'
               PROVE  /\ job[j].binding \in Principals
                      /\ job[j].binding.auth \in AuthRefs
                      /\ registry'[job[j].binding.auth] = job[j].binding
                      /\ job[j].binding.epoch <= epoch'
    BY DEF BindingInv
  <2>1. /\ job[j].binding \in Principals
        /\ job[j].binding.auth \in AuthRefs
        /\ registry[job[j].binding.auth] = job[j].binding
        /\ job[j].binding.epoch <= epoch
    BY <1>1 DEF BindingInv, Binding, Built, Fenced
  <2>2. registry'[job[j].binding.auth] = job[j].binding
    BY <2>1, PrincipalsAssumption DEF CPGrows
  <2>3. job[j].binding.epoch \in Nat /\ epoch \in Nat /\ epoch' \in Nat
    BY <2>1, PrincipalsAssumption, BoundsAssumption DEF TypeOK, CPTypeOK
  <2>4. QED
    BY <2>1, <2>2, <2>3 DEF CPGrows
<1>3. FenceInv(job[j])'
  BY <1>1 DEF FenceInv, Built, Fenced, CPGrows
<1>4. ViaInv(job[j])'
  BY <1>1 DEF ViaInv
<1>5. QED
  BY <1>2, <1>3, <1>4

---------------------------------------------------------------------------
(* The steps of one job.                                                   *)

\* A job's step replaces its own record and nothing else of what is known.
LEMMA BecomeKeeps ==
    ASSUME FenceIInv, NEW j \in Jobs, NEW r \in JobType, Become(j, r),
           BindingInv(r), FenceInv(r), ViaInv(r),
           UNCHANGED <<cpVars, engineNow, provider>>
    PROVE  FenceIInv'
<1>1. job \in [Jobs -> JobType]
  BY DEF FenceIInv, TypeOK, JobType
<1>2. job' = [job EXCEPT ![j] = r] /\ job' \in [Jobs -> JobType]
  BY <1>1 DEF Become
<1>3. TypeOK'
  BY <1>2 DEF FenceIInv, TypeOK, CPTypeOK, JobType, cpVars
<1>4. ASSUME NEW k \in Jobs
      PROVE  BindingInv(job'[k]) /\ FenceInv(job'[k]) /\ ViaInv(job'[k])
  BY <1>1, <1>2 DEF FenceIInv, JobInv
<1>5. JobInv'
  BY <1>4 DEF JobInv, BindingInv, FenceInv, ViaInv, cpVars
<1>6. ProviderInv'
  BY DEF FenceIInv, ProviderInv
<1>7. QED
  BY <1>3, <1>5, <1>6 DEF FenceIInv

\* Every step of a job keeps the inductive invariant: one case per action.
LEMMA StepKeeps == ASSUME FenceIInv, NEW j \in Jobs, Step(j) PROVE FenceIInv'
<1> DEFINE t == job[j]
<1>1. /\ t \in JobType
      /\ BindingInv(t) /\ FenceInv(t) /\ ViaInv(t)
  BY DEF FenceIInv, TypeOK, JobInv, JobType
<1>2. /\ CPTypeOK /\ epoch \in Epochs /\ epoch \in Nat
      /\ provider.dest \in Dests \cup {NoDest}
  BY BoundsAssumption DEF FenceIInv, TypeOK, CPTypeOK, Epochs
<1> USE DEF JobType, PCs, At, BindingInv, FenceInv, ViaInv, Binding, Built, Fenced
<1>3. CASE Retry(j)
  <2>1. [t EXCEPT !.pc = "bind"] \in JobType
    BY <1>1
  <2>2. QED
    BY <1>1, <1>3, <2>1, BecomeKeeps DEF Retry
<1>d. ASSUME Denied(j), UNCHANGED <<cpVars, engineNow, provider>> PROVE FenceIInv'
  <2>1. [t EXCEPT !.pc = "denied"] \in JobType
    BY <1>1
  <2>2. QED
    BY <1>1, <1>d, <2>1, BecomeKeeps DEF Denied
<1>4. CASE EvaluateTrust(j)
  <2>1. PICK b \in BOOLEAN :
          Become(j, [t EXCEPT !.pc = "capJudge", !.trust = b, !.trustAt = epoch])
    BY <1>4 DEF EvaluateTrust, Trusted
  <2>2. [t EXCEPT !.pc = "capJudge", !.trust = b, !.trustAt = epoch] \in JobType
    BY <1>1, <1>2
  <2>3. QED
    BY <1>1, <1>4, <2>1, <2>2, BecomeKeeps DEF EvaluateTrust
<1>5. CASE JudgeCapability(j)
  <2>1. PICK b \in BOOLEAN :
          Become(j, [t EXCEPT !.pc = "capStamp", !.capAt = epoch, !.cap = b])
    BY <1>5 DEF JudgeCapability
  <2>2. [t EXCEPT !.pc = "capStamp", !.capAt = epoch, !.cap = b] \in JobType
    BY <1>1, <1>2
  <2>3. QED
    BY <1>1, <1>5, <2>1, <2>2, BecomeKeeps DEF JudgeCapability
<1>6. CASE StampCapability(j)
  <2>1. [t EXCEPT !.pc = "netBind", !.capEpoch = epoch] \in JobType
    BY <1>1, <1>2
  <2>2. QED
    BY <1>1, <1>6, <2>1, BecomeKeeps DEF StampCapability
<1>7. CASE BindNetwork(j)
  <2>1. PICK b \in BOOLEAN :
          Become(j, [t EXCEPT !.pc = "netStamp", !.net = b, !.netBound = epoch])
    BY <1>7 DEF BindNetwork
  <2>2. [t EXCEPT !.pc = "netStamp", !.net = b, !.netBound = epoch] \in JobType
    BY <1>1, <1>2
  <2>3. QED
    BY <1>1, <1>7, <2>1, <2>2, BecomeKeeps DEF BindNetwork
<1>8. CASE StampNetwork(j)
  <2>1. [t EXCEPT !.pc = "bind", !.netEpoch = epoch] \in JobType
    BY <1>1, <1>2
  <2>2. QED
    BY <1>1, <1>8, <2>1, BecomeKeeps DEF StampNetwork
<1>9. CASE Bind(j)
  <2>1. PICK r \in AuthRefs :
          /\ registry[r] # NoPrincipal /\ registry[r].epoch <= epoch
          /\ Become(j, [t EXCEPT !.pc = "build", !.binding = registry[r]])
    BY <1>9 DEF Bind
  <2>2. registry[r] \in Principals /\ registry[r].auth = r
    BY <1>2, <2>1 DEF CPTypeOK
  <2> DEFINE u == [t EXCEPT !.pc = "build", !.binding = registry[r]]
  <2>3. u \in JobType
    BY <1>1, <2>2
  <2>4. BindingInv(u) /\ FenceInv(u) /\ ViaInv(u)
    BY <1>1, <2>1, <2>2
  <2>5. QED
    BY <1>9, <2>1, <2>3, <2>4, BecomeKeeps DEF Bind
<1>10. CASE BuildEnvelope(j)
  <2>1. PICK b \in BOOLEAN :
          Become(j, [t EXCEPT !.pc = "fence", !.envEpoch = t.binding.epoch, !.envelope = b])
    BY <1>1, <1>10 DEF BuildEnvelope, BindingValid
  <2>2. t.binding.epoch \in Epochs
    BY <1>1, <1>2, <1>10, PrincipalsAssumption, BoundsAssumption
       DEF BuildEnvelope, Epochs, CPTypeOK
  <2> DEFINE u == [t EXCEPT !.pc = "fence", !.envEpoch = t.binding.epoch, !.envelope = b]
  <2>3. u \in JobType
    BY <1>1, <2>2
  <2>4. BindingInv(u) /\ FenceInv(u) /\ ViaInv(u)
    BY <1>1, <1>10 DEF BuildEnvelope
  <2>5. QED
    BY <1>10, <2>1, <2>3, <2>4, BecomeKeeps DEF BuildEnvelope
<1>11. CASE EnterFence(j)
  <2> DEFINE gone == t.binding.auth \in revoked
             u == [t EXCEPT !.pc = "fenceValid", !.at = epoch, !.atRevoked = gone]
  <2>1. CASE Denied(j)
    BY <1>11, <1>d, <2>1 DEF EnterFence
  <2>2. CASE EnvelopeCurrent(t) /\ Become(j, u)
    <3> gone \in BOOLEAN
      OBVIOUS
    <3>1. u \in JobType
      <4> HIDE DEF gone
      <4> QED
        BY <1>1, <1>2
    <3>2. BindingInv(u) /\ FenceInv(u) /\ ViaInv(u)
      BY <1>1, <1>11, <2>2 DEF EnterFence, EnvelopeCurrent
    <3>3. QED
      BY <1>11, <2>2, <3>1, <3>2, BecomeKeeps DEF EnterFence
  <2>3. QED
    BY <1>11, <2>1, <2>2 DEF EnterFence
<1>12. CASE FenceBindingValid(j)
  <2> DEFINE u == [t EXCEPT !.pc = "revalEpoch"]
  <2>1. CASE Denied(j)
    BY <1>12, <1>d, <2>1 DEF FenceBindingValid
  <2>2. CASE Become(j, u)
    <3>1. u \in JobType
      BY <1>1
    <3>2. BindingInv(u) /\ FenceInv(u) /\ ViaInv(u)
      BY <1>1, <1>12 DEF FenceBindingValid
    <3>3. QED
      BY <1>12, <2>2, <3>1, <3>2, BecomeKeeps DEF FenceBindingValid
  <2>3. QED
    BY <1>12, <2>1, <2>2 DEF FenceBindingValid
<1>13. CASE RevalidateEpoch(j)
  <2> DEFINE u == [t EXCEPT !.pc = "revalResolve", !.readEpoch = epoch]
  <2>1. u \in JobType
    BY <1>1, <1>2
  <2>2. BindingInv(u) /\ FenceInv(u) /\ ViaInv(u)
    BY <1>1, <1>13 DEF RevalidateEpoch
  <2>3. QED
    BY <1>13, <2>1, <2>2, BecomeKeeps DEF RevalidateEpoch
<1>14. CASE LeaveFence(j)
  <2> DEFINE u == [t EXCEPT !.pc = "transport"]
  <2>1. CASE Denied(j)
    BY <1>14, <1>d, <2>1 DEF LeaveFence
  <2>2. CASE Revalidated(t) /\ Become(j, u)
    <3>1. u \in JobType
      BY <1>1
    <3>2. t.binding \in Principals /\ t.binding # NoPrincipal
      BY <1>1, <1>14, PrincipalsAssumption DEF LeaveFence
    <3>3. t.binding.auth \notin revoked
      BY <2>2, <3>2 DEF Revalidated, Resolve
    <3>4. BindingInv(u) /\ FenceInv(u) /\ ViaInv(u)
      BY <1>1, <1>14, <3>3 DEF LeaveFence
    <3>5. QED
      BY <1>14, <2>2, <3>1, <3>4, BecomeKeeps DEF LeaveFence
  <2>3. QED
    BY <1>14, <2>1, <2>2 DEF LeaveFence
<1>15. CASE CallTransport(j)
  <2> DEFINE u == [t EXCEPT !.pc = "sent", !.via = provider.dest]
  <2>1. CASE Denied(j)
    BY <1>15, <1>d, <2>1 DEF CallTransport
  <2>2. CASE TransportMatches(t) /\ Become(j, u)
    <3>1. u \in JobType
      BY <1>1, <1>2
    <3>2. provider.dest # NoDest => provider.dest = t.dest /\ t.netBound = t.netEpoch
      BY <2>2 DEF TransportMatches, FenceIInv, ProviderInv
    <3>3. BindingInv(u) /\ FenceInv(u) /\ ViaInv(u)
      BY <1>1, <1>15, <3>2 DEF CallTransport
    <3>4. QED
      BY <1>15, <2>2, <3>1, <3>3, BecomeKeeps DEF CallTransport
  <2>3. QED
    BY <1>15, <2>1, <2>2 DEF CallTransport
<1>16. QED
  BY <1>3, <1>4, <1>5, <1>6, <1>7, <1>8, <1>9, <1>10, <1>11, <1>12, <1>13, <1>14, <1>15
     DEF Step

\* The initial states satisfy the invariant.
LEMMA InitFence == Init => FenceIInv
<1> SUFFICES ASSUME Init PROVE FenceIInv
  OBVIOUS
<1>1. TypeOK
  <2>1. CPTypeOK /\ engineNow \in 0..clock
    BY BoundsAssumption, LimiterAssumption DEF Init, CPInit, CPTypeOK, NoWindow
  <2>2. \A d \in Dests : NewJob(d) \in JobType
    BY DEF NewJob, JobType, PCs, Epochs, NoEpoch
  <2>3. job \in [Jobs -> JobType]
    BY <2>2 DEF Init
  <2>4. provider \in [kind : {"none", "memory", "https"}, dest : Dests \cup {NoDest},
                      bound : Epochs, epoch : Epochs]
    BY DEF Init, NoTransport, InMemory, Transport, Epochs, NoEpoch
  <2>5. QED
    BY <2>1, <2>3, <2>4 DEF TypeOK, JobType
<1>2. JobInv
  BY DEF Init, NewJob, JobInv, BindingInv, FenceInv, ViaInv, Binding, Built, Fenced
<1>3. ProviderInv
  BY DEF Init, NoTransport, InMemory, Transport, ProviderInv
<1>4. QED
  BY <1>1, <1>2, <1>3 DEF FenceIInv

\* Whatever jobs, invalidations, revocations, other engines and new transports do,
\* in any order, the invariant is kept.
LEMMA NextFence == FenceIInv /\ [Next]_vars => FenceIInv'
<1> SUFFICES ASSUME FenceIInv, [Next]_vars PROVE FenceIInv'
  OBVIOUS
<1>1. CASE CPNext /\ UNCHANGED gdVars
  <2>1. CPTypeOK' /\ CPGrows
    BY <1>1, Administration DEF FenceIInv, TypeOK
  <2>2. JobInv'
    BY <1>1, <2>1, GrowthKeepsJobs DEF FenceIInv, gdVars
  <2>3. TypeOK'
    BY <1>1, <2>1 DEF FenceIInv, TypeOK, CPTypeOK, CPGrows, gdVars
  <2>4. ProviderInv'
    BY <1>1 DEF FenceIInv, ProviderInv, gdVars
  <2>5. QED
    BY <2>2, <2>3, <2>4 DEF FenceIInv
<1>2. ASSUME NEW j \in Jobs, Step(j) PROVE FenceIInv'
  BY <1>2, StepKeeps
<1>3. ASSUME NEW d \in Dests, NEW e \in 0..MaxEpoch, ConfigureProvider(d, e)
      PROVE  FenceIInv'
  <2>1. provider' \in [kind : {"none", "memory", "https"}, dest : Dests \cup {NoDest},
                       bound : Epochs, epoch : Epochs]
    BY <1>3 DEF ConfigureProvider, Transport, Epochs
  <2>2. ProviderInv'
    BY <1>3 DEF ConfigureProvider, Transport, ProviderInv
  <2>3. TypeOK'
    BY <1>3, <2>1 DEF ConfigureProvider, FenceIInv, TypeOK, CPTypeOK, cpVars
  <2>4. JobInv'
    BY <1>3 DEF ConfigureProvider, FenceIInv, JobInv, BindingInv, FenceInv, ViaInv, cpVars
  <2>5. QED
    BY <2>2, <2>3, <2>4 DEF FenceIInv
<1>4. CASE NewEngine
  <2>1. TypeOK'
    BY <1>4 DEF NewEngine, FenceIInv, TypeOK, CPTypeOK, cpVars
  <2>2. JobInv' /\ ProviderInv'
    BY <1>4 DEF NewEngine, FenceIInv, JobInv, BindingInv, FenceInv, ViaInv, ProviderInv,
                cpVars
  <2>3. QED
    BY <2>1, <2>2 DEF FenceIInv
<1>5. CASE UNCHANGED vars
  <2>1. TypeOK'
    BY <1>5 DEF vars, gdVars, cpVars, FenceIInv, TypeOK, CPTypeOK
  <2>2. JobInv' /\ ProviderInv'
    BY <1>5 DEF vars, gdVars, cpVars, FenceIInv, JobInv, BindingInv, FenceInv, ViaInv,
                ProviderInv
  <2>3. QED
    BY <2>1, <2>2 DEF FenceIInv
<1>6. QED
  BY <1>1, <1>2, <1>3, <1>4, <1>5 DEF Next

\* The inductive invariant holds throughout.
THEOREM FenceInvariant == Spec => []FenceIInv
<1>1. QED
  BY InitFence, NextFence, PTL DEF Spec

---------------------------------------------------------------------------
(* The theorems.                                                           *)

\* Control plane, jobs and runtime keep their types, among them that a job's
\* envelope carries a policy epoch the engine has had.
THEOREM FenceTypeCorrect == Spec => []TypeOK
<1>1. FenceIInv => TypeOK
  BY DEF FenceIInv
<1>2. QED
  BY <1>1, FenceInvariant, PTL

\* Although the fence reads the epoch three times and the registry once, by separate
\* SELECTs (gate_d.py, authorize_emission), every transport call has one instant at
\* which envelope and binding were current and the principal registered and unrevoked.
THEOREM EmissionsLinearized == Spec => []EmissionLinearized
<1>1. FenceIInv => EmissionLinearized
  BY DEF FenceIInv, JobInv, EmissionLinearized, Sent, At, BindingInv, FenceInv,
         Binding, Built, Fenced
<1>2. QED
  BY <1>1, FenceInvariant, PTL

\* What leaves the process goes where this job's own network decision points, whoever
\* constructed the shared transport and for what (gate_d.py, _transport_binding_matches).
THEOREM EmissionsReachTheirTarget == Spec => []SentToBoundTarget
<1>1. FenceIInv => SentToBoundTarget
  BY DEF FenceIInv, JobInv, SentToBoundTarget, Sent, At, ViaInv
<1>2. QED
  BY <1>1, FenceInvariant, PTL

---------------------------------------------------------------------------
(* Refinement.                                                             *)

\* Whatever leaves every phase as it is only moves the authority that jobs have.
LEMMA WorldMoves ==
    ASSUME \A j \in Jobs : Phase(job[j])' = Phase(job[j])
    PROVE  [Emission!ActNext]_(Emission!actVars)
<1>1. Emission!World
  BY DEF Emission!World
<1>2. QED
  BY <1>1 DEF Emission!ActNext

\* A step that replaces one job's record, and not what its authority depends on,
\* replaces one phase.
LEMMA OnePhase ==
    ASSUME FenceIInv, NEW j \in Jobs, NEW r \in JobType, Become(j, r),
           UNCHANGED <<cpVars, engineNow, provider>>,
           r.envelope = job[j].envelope, r.envEpoch = job[j].envEpoch,
           r.binding = job[j].binding
    PROVE  Emission!Becomes(j, Phase(r))
<1> DEFINE able == {k \in Jobs : Authorized(job[k])}
           phase == [k \in Jobs |-> Phase(job[k])]
<1>1. /\ job'[j] = r
      /\ \A k \in Jobs \ {j} : job'[k] = job[k]
  BY DEF FenceIInv, TypeOK, Become
<1>2. UNCHANGED <<registry, revoked, epoch, engineNow>>
  BY DEF cpVars
<1>3. \A k \in Jobs : Authorized(job[k])' <=> Authorized(job[k])
  BY <1>1, <1>2 DEF Authorized, Resolve, PrincipalValid
<1>4. able' = able
  BY <1>3
<1>5. /\ Phase(job[j])' = Phase(r)
      /\ \A k \in Jobs \ {j} : Phase(job[k])' = Phase(job[k])
  BY <1>1, <1>2 DEF Phase, Granted, PrincipalValid
<1>6. phase' = [phase EXCEPT ![j] = Phase(r)]
  BY <1>5
<1>7. QED
  BY <1>4, <1>6 DEF Emission!Becomes

\* A denial, wherever it comes from, is a refusal.
LEMMA DenialRefines ==
    ASSUME FenceIInv, NEW j \in Jobs, Denied(j), job[j].pc \notin {"sent", "denied"},
           UNCHANGED <<cpVars, engineNow, provider>>
    PROVE  [Emission!ActNext]_(Emission!actVars)
<1> DEFINE r == [job[j] EXCEPT !.pc = "denied"]
<1>1. job[j] \in JobType
  BY DEF FenceIInv, TypeOK, JobType
<1>2. r \in JobType /\ r.pc = "denied" /\ r.envelope = job[j].envelope
      /\ r.envEpoch = job[j].envEpoch /\ r.binding = job[j].binding
  BY <1>1 DEF JobType, PCs
<1>3. Become(j, r)
  BY DEF Denied
<1> HIDE DEF r
<1>4. Emission!Becomes(j, Phase(r))
  BY <1>2, <1>3, OnePhase
<1>5. Phase(r) = "refused" /\ Phase(job[j]) \in {"asking", "granted", "barred"}
  BY <1>2 DEF Phase
<1>6. Emission!GiveUp(j)
  BY <1>4, <1>5 DEF Emission!GiveUp
<1>7. QED
  BY <1>6 DEF Emission!ActNext

\* The steps before the fence, and those within it that only read, show nothing.
LEMMA QuietRefines ==
    ASSUME FenceIInv, NEW j \in Jobs,
           \/ EvaluateTrust(j) \/ JudgeCapability(j) \/ StampCapability(j)
           \/ BindNetwork(j) \/ StampNetwork(j) \/ Bind(j) \/ BuildEnvelope(j)
    PROVE  [Emission!ActNext]_(Emission!actVars)
<1>0. job \in [Jobs -> JobType] /\ job[j] \in JobType
  BY DEF FenceIInv, TypeOK, JobType
<1>1. /\ engineNow' = engineNow
      /\ job[j].pc \in {"trust", "capJudge", "capStamp", "netBind", "netStamp", "bind",
                         "build"}
      /\ \A k \in Jobs \ {j} : job'[k] = job[k]
  BY <1>0 DEF EvaluateTrust, JudgeCapability, StampCapability, BindNetwork, StampNetwork,
     Bind, BuildEnvelope, Become, At
<1>2. job'[j].pc \in {"capJudge", "capStamp", "netBind", "netStamp", "bind", "build", "fence"}
  <2>1. CASE EvaluateTrust(j)
    BY <2>1, <1>0 DEF EvaluateTrust, Become, JobType
  <2>2. CASE JudgeCapability(j)
    BY <2>2, <1>0 DEF JudgeCapability, Become, JobType
  <2>3. CASE StampCapability(j)
    BY <2>3, <1>0 DEF StampCapability, Become, JobType
  <2>4. CASE BindNetwork(j)
    BY <2>4, <1>0 DEF BindNetwork, Become, JobType
  <2>5. CASE StampNetwork(j)
    BY <2>5, <1>0 DEF StampNetwork, Become, JobType
  <2>6. CASE Bind(j)
    BY <2>6, <1>0 DEF Bind, Become, JobType
  <2>7. CASE BuildEnvelope(j)
    BY <2>7, <1>0 DEF BuildEnvelope, Become, JobType
  <2>8. QED
    BY <2>1, <2>2, <2>3, <2>4, <2>5, <2>6, <2>7
<1>3. \A k \in Jobs : Phase(job[k])' = Phase(job[k])
  BY <1>1, <1>2 DEF Phase, Granted, PrincipalValid
<1>4. QED
  BY <1>3, WorldMoves

\* The fence, the call of the transport and a retry: each is the look that settles
\* the job's authority, its act, a refusal, a new question, or nothing visible.
LEMMA FenceRefines ==
    ASSUME FenceIInv, NEW j \in Jobs,
           \/ EnterFence(j) \/ FenceBindingValid(j) \/ RevalidateEpoch(j)
           \/ LeaveFence(j) \/ CallTransport(j) \/ Retry(j)
    PROVE  [Emission!ActNext]_(Emission!actVars)
<1> DEFINE t == job[j]
<1>0. /\ t \in JobType /\ BindingInv(t) /\ FenceInv(t)
      /\ UNCHANGED <<cpVars, engineNow, provider>>
  BY DEF FenceIInv, JobInv, TypeOK, JobType, EnterFence, FenceBindingValid,
     RevalidateEpoch, LeaveFence, CallTransport, Retry
<1>1. CASE Denied(j)
  <2>1. t.pc \notin {"sent", "denied"}
    <3>1. CASE Retry(j)
      <4>1. job'[j].pc = "bind" /\ job'[j].pc = "denied"
        BY <1>1, <3>1, <1>0 DEF Retry, Denied, Become, FenceIInv, TypeOK, JobType
      <4>2. QED
        BY <4>1
    <3>2. QED
      BY <3>1 DEF EnterFence, FenceBindingValid, RevalidateEpoch, LeaveFence, CallTransport, At
  <2>2. QED
    BY <1>0, <1>1, <2>1, DenialRefines
<1>2. CASE EnterFence(j) /\ ~Denied(j)
  <2> DEFINE gone == t.binding.auth \in revoked
             r == [t EXCEPT !.pc = "fenceValid", !.at = epoch, !.atRevoked = gone]
  <2>1. t.pc = "fence" /\ Become(j, r) /\ t.envEpoch = epoch /\ t.envelope
    BY <1>2 DEF EnterFence, At, EnvelopeCurrent
  <2>2. epoch \in Epochs /\ gone \in BOOLEAN
    BY DEF FenceIInv, TypeOK, CPTypeOK, Epochs
  <2>3. r \in JobType /\ r.pc = "fenceValid" /\ r.at = epoch /\ r.atRevoked = gone
        /\ r.envelope = t.envelope /\ r.envEpoch = t.envEpoch /\ r.binding = t.binding
    BY <2>2, <1>0 DEF JobType, PCs
  <2>4. t.binding.auth \in AuthRefs /\ registry[t.binding.auth] = t.binding
        /\ t.binding # NoPrincipal
    BY <2>1, <1>0, PrincipalsAssumption DEF BindingInv, Binding, Built
  <2> HIDE DEF r
  <2>5. Granted(r) <=> Authorized(t)
    BY <2>1, <2>3, <2>4 DEF Granted, Authorized, Resolve
  <2>6. Emission!Becomes(j, Phase(r))
    BY <2>1, <2>3, <1>0, OnePhase
  <2>7. Phase(t) = "asking" /\ Phase(r) = IF Authorized(t) THEN "granted" ELSE "barred"
    BY <2>1, <2>3, <2>5 DEF Phase
  <2>8. Emission!Judge(j)
    BY <2>6, <2>7 DEF Emission!Judge
  <2>9. QED
    BY <2>8 DEF Emission!ActNext
<1>3. CASE FenceBindingValid(j) /\ ~Denied(j)
  <2> DEFINE r == [t EXCEPT !.pc = "revalEpoch"]
  <2>1. t.pc = "fenceValid" /\ Become(j, r)
    BY <1>3 DEF FenceBindingValid, At
  <2>2. r.pc = "revalEpoch" /\ r.at = t.at /\ r.atRevoked = t.atRevoked
        /\ r.binding = t.binding
    BY <1>0 DEF JobType
  <2>3. \A k \in Jobs : job'[k] = IF k = j THEN r ELSE job[k]
    BY <2>1 DEF Become, FenceIInv, TypeOK
  <2> HIDE DEF r
  <2>4. \A k \in Jobs : Phase(job[k])' = Phase(job[k])
    BY <2>1, <2>2, <2>3, <1>0 DEF Phase, Granted, PrincipalValid
  <2>5. QED
    BY <2>4, WorldMoves
<1>4. CASE RevalidateEpoch(j)
  <2> DEFINE r == [t EXCEPT !.pc = "revalResolve", !.readEpoch = epoch]
  <2>1. t.pc = "revalEpoch" /\ Become(j, r)
    BY <1>4 DEF RevalidateEpoch, At
  <2>2. r.pc = "revalResolve" /\ r.at = t.at /\ r.atRevoked = t.atRevoked
        /\ r.binding = t.binding
    BY <1>0 DEF JobType
  <2>3. \A k \in Jobs : job'[k] = IF k = j THEN r ELSE job[k]
    BY <2>1 DEF Become, FenceIInv, TypeOK
  <2> HIDE DEF r
  <2>4. \A k \in Jobs : Phase(job[k])' = Phase(job[k])
    BY <2>1, <2>2, <2>3, <1>0 DEF Phase, Granted, PrincipalValid
  <2>5. QED
    BY <2>4, WorldMoves
<1>5. CASE LeaveFence(j) /\ ~Denied(j)
  <2> DEFINE r == [t EXCEPT !.pc = "transport"]
  <2>1. t.pc = "revalResolve" /\ Become(j, r) /\ Revalidated(t)
    BY <1>5 DEF LeaveFence, At
  <2>2. r.pc = "transport"
    BY <1>0 DEF JobType
  <2>3. \A k \in Jobs : job'[k] = IF k = j THEN r ELSE job[k]
    BY <2>1 DEF Become, FenceIInv, TypeOK
  <2>4. Granted(t)
    <3>1. t.binding \in Principals /\ t.envEpoch = t.binding.epoch /\ t.envEpoch = t.at
          /\ (t.atRevoked => t.binding.auth \in revoked)
      BY <2>1, <1>0 DEF BindingInv, FenceInv, Binding, Built, Fenced
    <3>2. t.binding.auth \notin revoked
      BY <2>1, <3>1, PrincipalsAssumption DEF Revalidated, Resolve
    <3>3. QED
      BY <2>1, <3>1, <3>2 DEF Granted, Revalidated, PrincipalValid
  <2> HIDE DEF r
  <2>5. \A k \in Jobs : Phase(job[k])' = Phase(job[k])
    BY <2>1, <2>2, <2>3, <2>4, <1>0 DEF Phase, Granted, PrincipalValid
  <2>6. QED
    BY <2>5, WorldMoves
<1>6. CASE CallTransport(j) /\ ~Denied(j)
  <2> DEFINE r == [t EXCEPT !.pc = "sent", !.via = provider.dest]
  <2>1. t.pc = "transport" /\ Become(j, r)
    BY <1>6 DEF CallTransport, At
  <2>2. provider.dest \in Dests \cup {NoDest}
    BY DEF FenceIInv, TypeOK
  <2>3. r \in JobType /\ r.pc = "sent" /\ r.envelope = t.envelope
        /\ r.envEpoch = t.envEpoch /\ r.binding = t.binding
    BY <2>2, <1>0 DEF JobType, PCs
  <2> HIDE DEF r
  <2>4. Emission!Becomes(j, Phase(r))
    BY <2>1, <2>3, <1>0, OnePhase
  <2>5. Phase(t) = "granted" /\ Phase(r) = "acted"
    BY <2>1, <2>3 DEF Phase
  <2>6. Emission!Act(j)
    BY <2>4, <2>5 DEF Emission!Act
  <2>7. QED
    BY <2>6 DEF Emission!ActNext
<1>7. CASE Retry(j)
  <2> DEFINE r == [t EXCEPT !.pc = "bind"]
  <2>1. t.pc = "denied" /\ Become(j, r)
    BY <1>7 DEF Retry, At
  <2>2. r \in JobType /\ r.pc = "bind" /\ r.envelope = t.envelope
        /\ r.envEpoch = t.envEpoch /\ r.binding = t.binding
    BY <1>0 DEF JobType, PCs
  <2> HIDE DEF r
  <2>3. Emission!Becomes(j, Phase(r))
    BY <2>1, <2>2, <1>0, OnePhase
  <2>4. Phase(t) = "refused" /\ Phase(r) = "asking"
    BY <2>1, <2>2 DEF Phase
  <2>5. Emission!AskAgain(j)
    BY <2>3, <2>4 DEF Emission!AskAgain
  <2>6. QED
    BY <2>5 DEF Emission!ActNext
<1>8. QED
  BY <1>1, <1>2, <1>3, <1>4, <1>5, <1>6, <1>7

\* The emission fence implements AuthorizedAct: for any number of jobs sharing one
\* runtime, every transport call follows a single look at the whole authority of its
\* job, and a denied job that tries again is looked at again.
THEOREM EmissionsAreAuthorizedActs == Spec => EmissionImplementsAct
<1>1. Init => Emission!ActInit
  <2> SUFFICES ASSUME Init PROVE Emission!ActInit
    OBVIOUS
  <2>1. \A j \in Jobs : job[j].pc = "trust"
    BY DEF Init, NewJob
  <2>2. QED
    BY <2>1 DEF Emission!ActInit, Phase
<1>2. FenceIInv /\ [Next]_vars => [Emission!ActNext]_(Emission!actVars)
  <2> SUFFICES ASSUME FenceIInv, [Next]_vars
               PROVE  [Emission!ActNext]_(Emission!actVars)
    OBVIOUS
  <2>1. ASSUME NEW j \in Jobs, Step(j) PROVE [Emission!ActNext]_(Emission!actVars)
    BY <2>1, QuietRefines, FenceRefines DEF Step
  <2>2. CASE UNCHANGED <<job, engineNow>>
    <3>1. \A j \in Jobs : Phase(job[j])' = Phase(job[j])
      BY <2>2 DEF Phase, Granted, PrincipalValid
    <3>2. QED
      BY <3>1, WorldMoves
  <2>3. CASE NewEngine
    <3>1. \A j \in Jobs : Phase(job[j])' = Phase(job[j])
      BY <2>3 DEF NewEngine, Phase, Granted, PrincipalValid
    <3>2. QED
      BY <3>1, WorldMoves
  <2>4. QED
    BY <2>1, <2>2, <2>3 DEF Next, ConfigureProvider, gdVars, vars
<1>3. QED
  BY <1>1, <1>2, FenceInvariant, InitFence, PTL
     DEF Spec, EmissionImplementsAct, Emission!ActSpec

---------------------------------------------------------------------------
(* Fetched content.                                                        *)

\* What a decision with a record behind it knows of that record: it was valid, and
\* its fingerprint and its visibility are the decision's.
Compiled(d) ==
    /\ d.from = d.fp
    /\ d.from # NoBody => /\ d.from \in Bodies
                          /\ HistoryLegal(d.from) /\ ProjectionHolds(d.from)
                          /\ d.visibility = d.from.visibility

DecisionType(d) ==
    /\ d.made \in BOOLEAN /\ d.allow \in BOOLEAN /\ d.fp \in Bodies \cup {NoBody}
    /\ d.lifecycle \in LIFECYCLES /\ d.admission \in LIFECYCLES
    /\ d.visibility \in Visibilities
    /\ d.made => d.lifecycle # "NOT_APPLICABLE"

\* The inductive invariant of the content operations.
ContentIInv ==
    /\ CCTypeOK
    /\ Compiled(net) /\ Compiled(env.net) /\ Compiled(fetched.net)
    /\ FetchedWithDecidedContent

\* A recorded lifecycle is one, and never NOT_APPLICABLE; its visibility is one too.
LEMMA RecordedType ==
    ASSUME NEW s \in LIFECYCLES, NEW allow \in BOOLEAN
    PROVE  /\ RecordedLifecycle(s, allow) \in LIFECYCLES \ {"NOT_APPLICABLE"}
           /\ Visibility(s) \in Visibilities
<1>1. RecordedLifecycle(s, allow) \in LIFECYCLES \ {"NOT_APPLICABLE"}
  BY DEF RecordedLifecycle, LIFECYCLES
<1>2. Visibility(s) \in Visibilities
  BY DEF Visibility, Visibilities, LIFECYCLES
<1>3. QED
  BY <1>1, <1>2

\* A legal history that ends in admission went through quarantine just before and
\* never through a withdrawal, for no transition leads out of one.
LEMMA AdmissionHistory ==
    ASSUME NEW b \in Bodies, HistoryLegal(b), b.ends = "ADMITTED_TYPED_DATA"
    PROVE  LET h == b.history
           IN  /\ \A i \in DOMAIN h : h[i].to \notin Withdrawn
               /\ \A i \in DOMAIN h : h[i].to = "ADMITTED_TYPED_DATA" =>
                     \E k \in 1..(i - 1) : h[k].to = "QUARANTINED" /\ h[k].at <= h[i].at
<1> DEFINE h == b.history
           Steps == [from : LIFECYCLES, to : LIFECYCLES, at : Nat, named : BOOLEAN]
<1>1. h \in Seq(Steps) /\ h # <<>> /\ h[Len(h)].to = "ADMITTED_TYPED_DATA"
  BY DEF Bodies, HistoryLegal
<1>2. \A i \in DOMAIN h : /\ <<h[i].from, h[i].to>> \in LEGAL_TRANSITIONS
                          /\ i > 1 => h[i].from = h[i - 1].to /\ h[i].at >= h[i - 1].at
                          /\ i = 1 => h[i].from = "NOT_APPLICABLE"
  BY <1>1 DEF HistoryLegal, Before
<1> HIDE DEF h, Steps
<1>3. ASSUME NEW i \in DOMAIN h PROVE h[i].to \notin Withdrawn
  <2>1. CASE i = Len(h)
    BY <1>1, <2>1 DEF Withdrawn
  <2>2. CASE i # Len(h)
    <3>1. i + 1 \in DOMAIN h /\ i + 1 > 1 /\ (i + 1) - 1 = i
      BY <1>1, <1>3, <2>2
    <3>2. h[i + 1].from = h[i].to /\ <<h[i + 1].from, h[i + 1].to>> \in LEGAL_TRANSITIONS
      BY <1>2, <3>1
    <3>3. QED
      BY <3>2 DEF LEGAL_TRANSITIONS, Withdrawn
  <2>3. QED
    BY <2>1, <2>2
<1>4. ASSUME NEW i \in DOMAIN h, h[i].to = "ADMITTED_TYPED_DATA"
      PROVE  \E k \in 1..(i - 1) : h[k].to = "QUARANTINED" /\ h[k].at <= h[i].at
  <2>1. h[i].from = "QUARANTINED"
    BY <1>2, <1>4 DEF LEGAL_TRANSITIONS
  <2>2. i \in 1..Len(h) /\ Len(h) \in Nat /\ DOMAIN h = 1..Len(h)
    BY <1>1, <1>4
  <2>3. i # 1
    BY <1>2, <1>4, <2>1
  <2>4. i > 1 /\ i \in Nat /\ i - 1 \in 1..(i - 1) /\ i - 1 \in DOMAIN h
    BY <2>2, <2>3
  <2>5. h[i - 1].to = "QUARANTINED" /\ h[i].at >= h[i - 1].at
    BY <1>2, <2>1, <2>4
  <2>6. h[i - 1] \in Steps /\ h[i] \in Steps
    BY <1>1, <2>2, <2>4
  <2>7. h[i - 1].at \in Nat /\ h[i].at \in Nat
    BY <2>6 DEF Steps
  <2>8. QED
    BY <2>4, <2>5, <2>7
<1>5. QED
  BY <1>3, <1>4 DEF h

\* A decision compiled from a record that ends in admission has such a history.
LEMMA CompiledAdmission ==
    ASSUME NEW d, Compiled(d), d.from # NoBody, d.visibility = "TYPED_DATA_ONLY"
    PROVE  d.from \in Bodies /\ HistoryLegal(d.from) /\ d.from.ends = "ADMITTED_TYPED_DATA"
BY DEF Compiled, ProjectionHolds, Visibility

\* The caller's edits, seals and calls, in any order, keep the invariant.
LEMMA NextContent == ContentIInv /\ [CCNext]_ccVars => ContentIInv'
<1> SUFFICES ASSUME ContentIInv, [CCNext]_ccVars PROVE ContentIInv'
  OBVIOUS
<1>1. /\ body \in Bodies /\ seal \in Bodies \cup {NoBody} /\ env.allow \in BOOLEAN
      /\ DecisionType(net) /\ DecisionType(env.net) /\ DecisionType(fetched.net)
      /\ NoBody \notin Bodies /\ Revisions \subseteq Bodies
  BY DraftsAssumption DEF ContentIInv, CCTypeOK, DecisionType
<1>2. ASSUME body' \in Bodies, seal' \in Bodies \cup {NoBody}, env'.allow \in BOOLEAN,
             DecisionType(net'), DecisionType(env'.net), DecisionType(fetched'.net)
      PROVE  CCTypeOK'
  BY <1>2 DEF CCTypeOK, DecisionType
<1>3. ASSUME NEW b \in Revisions, Edit(b) PROVE ContentIInv'
  <2>1. CCTypeOK'
    BY <1>1, <1>2, <1>3 DEF Edit
  <2>2. QED
    BY <1>3, <2>1 DEF ContentIInv, Edit, Compiled, FetchedWithDecidedContent
<1>4. CASE Seal
  <2>1. CCTypeOK'
    BY <1>1, <1>2, <1>4 DEF Seal
  <2>2. QED
    BY <1>4, <2>1 DEF ContentIInv, Seal, Compiled, FetchedWithDecidedContent
<1>5. ASSUME NEW s \in LIFECYCLES, NEW allow \in BOOLEAN, EvaluateWith(s, allow)
      PROVE  ContentIInv'
  <2>1. body.ends \in LIFECYCLES /\ body.visibility \in Visibilities
    BY <1>1 DEF Bodies
  <2>2. /\ RecordedLifecycle(body.ends, allow) \in LIFECYCLES
        /\ RecordedLifecycle(body.ends, allow) # "NOT_APPLICABLE"
    BY <2>1, RecordedType
  <2>3. DecisionType(net') /\ net'.fp = body /\ net'.from = body
        /\ net'.visibility = body.visibility
    BY <1>1, <1>5, <2>1, <2>2 DEF EvaluateWith, ValidLifecycle, DecisionType
  <2>4. Compiled(net')
    BY <1>1, <1>5, <2>3 DEF EvaluateWith, ValidLifecycle, Compiled
  <2>5. CCTypeOK'
    BY <1>1, <1>2, <1>5, <2>3 DEF EvaluateWith
  <2>6. QED
    BY <1>5, <2>4, <2>5 DEF ContentIInv, EvaluateWith, FetchedWithDecidedContent
<1>6. ASSUME NEW s \in LIFECYCLES, NEW allow \in BOOLEAN, EvaluateWithout(s, allow)
      PROVE  ContentIInv'
  <2> DEFINE state == RecordedLifecycle(s, allow)
  <2>1. state \in LIFECYCLES /\ state # "NOT_APPLICABLE"
    BY RecordedType
  <2>2. Visibility(state) \in Visibilities
    BY <2>1, RecordedType
  <2>3. DecisionType(net') /\ net'.fp = NoBody /\ net'.from = NoBody
    BY <1>1, <1>6, <2>1, <2>2 DEF EvaluateWithout, DecisionType
  <2>4. Compiled(net')
    BY <2>3 DEF Compiled
  <2>5. CCTypeOK'
    BY <1>1, <1>2, <1>6, <2>3 DEF EvaluateWithout
  <2>6. QED
    BY <1>6, <2>4, <2>5 DEF ContentIInv, EvaluateWithout, FetchedWithDecidedContent
<1>7. ASSUME NEW others \in BOOLEAN, BuildContentEnvelope(others) PROVE ContentIInv'
  <2>1. env'.net = net /\ env'.allow \in BOOLEAN
    BY <1>1, <1>7 DEF BuildContentEnvelope
  <2>2. CCTypeOK'
    BY <1>1, <1>2, <1>7, <2>1 DEF BuildContentEnvelope
  <2>3. QED
    BY <1>7, <2>1, <2>2 DEF ContentIInv, BuildContentEnvelope, FetchedWithDecidedContent
<1>8. CASE ExecuteConnector
  <2>1. fetched'.body = body /\ fetched'.net = env.net
    BY <1>8 DEF ExecuteConnector
  <2>2. env.net.fp = body
    BY <1>8 DEF ExecuteConnector, ExternalEmissionValid, ValidLifecycle, LifecycleExact
  <2>3. CCTypeOK'
    BY <1>1, <1>2, <1>8, <2>1 DEF ExecuteConnector
  <2>4. FetchedWithDecidedContent'
    BY <2>1, <2>2 DEF FetchedWithDecidedContent, ContentIInv, Compiled
  <2>5. QED
    BY <1>8, <2>1, <2>3, <2>4 DEF ContentIInv, ExecuteConnector
<1>9. CASE UNCHANGED ccVars
  BY <1>9 DEF ccVars, ContentIInv, CCTypeOK, FetchedWithDecidedContent
<1>10. QED
  BY <1>3, <1>4, <1>5, <1>6, <1>7, <1>8, <1>9 DEF CCNext

\* The invariant of the content operations holds throughout.
THEOREM ContentInvariant == CCSpec => []ContentIInv
<1>1. CCInit => ContentIInv
  BY DraftsAssumption DEF CCInit, ContentIInv, CCTypeOK, Compiled, NoDecision, LIFECYCLES,
     Visibilities, FetchedWithDecidedContent
<1>2. QED
  BY <1>1, NextContent, PTL DEF CCSpec

\* The caller's dictionary, the decision, the envelope and what was fetched keep
\* their types; among them, a decision is the one compiled from the record it is of.
THEOREM ContentTypeCorrect == CCSpec => []CCTypeOK
<1>1. ContentIInv => CCTypeOK
  BY DEF ContentIInv
<1>2. QED
  BY <1>1, ContentInvariant, PTL

\* The connector fetches only with the very record the decision behind the envelope
\* was compiled from (decisions.py, validate_external_emission), however the caller
\* edits and seals his dictionary between the calls.
THEOREM FetchesDecidedContent == CCSpec => []FetchedWithDecidedContent
<1>1. ContentIInv => FetchedWithDecidedContent
  BY DEF ContentIInv
<1>2. QED
  BY <1>1, ContentInvariant, PTL

\* Content becomes visible as typed data only by a history through quarantine and
\* never through a withdrawal (decisions.py, LEGAL_TRANSITIONS, validate_lifecycle).
THEOREM AdmissionsLeaveQuarantine == CCSpec => []AdmittedOutOfQuarantine
<1>1. ContentIInv => AdmittedOutOfQuarantine
  <2> SUFFICES ASSUME ContentIInv, NEW d \in {net, fetched.net},
                      d.from # NoBody, d.visibility = "TYPED_DATA_ONLY"
               PROVE  LET h == d.from.history
                      IN  /\ \A i \in DOMAIN h : h[i].to \notin Withdrawn
                          /\ \A i \in DOMAIN h : h[i].to = "ADMITTED_TYPED_DATA" =>
                                \E k \in 1..(i - 1) :
                                    h[k].to = "QUARANTINED" /\ h[k].at <= h[i].at
    BY DEF AdmittedOutOfQuarantine
  <2>1. Compiled(d)
    BY DEF ContentIInv
  <2>2. d.from \in Bodies /\ HistoryLegal(d.from) /\ d.from.ends = "ADMITTED_TYPED_DATA"
    BY <2>1, CompiledAdmission
  <2>3. QED
    BY <2>2, AdmissionHistory
<1>2. QED
  BY <1>1, ContentInvariant, PTL

---------------------------------------------------------------------------
(* The in-memory guards.                                                   *)

CallType ==
    [pc : {"start", "rate", "replay", "allowed", "denied"},
     id : GuardIds, until : GuardUntil, now : 0..GuardMaxClock, win : -1..GuardMaxClock]

ConsumedType == [id : GuardIds, expires : GuardUntil, now : 0..GuardMaxClock, ok : BOOLEAN]

\* The limiter has no row or one, and only LimitRate records an admitting window.
RowInv ==
    /\ \/ window = <<>>
       \/ \E r \in [start : 0..GuardMaxClock, count : 1..GuardRequests] : window = <<r>>
    /\ \A c \in GuardCalls : gcall[c].pc \in {"start", "rate"} => gcall[c].win = -1

\* The row counts at least the calls of its window, and every other window that
\* admitted a call is over by the time the row's window starts.
AllowanceInv ==
    \A w \in 0..GuardMaxClock :
        /\ IsFiniteSet(InWindow(w)) /\ Cardinality(InWindow(w)) <= GuardRequests
        /\ InWindow(w) # {} =>
              /\ window # <<>>
              /\ \/ w = window[1].start /\ Cardinality(InWindow(w)) <= window[1].count
                 \/ window[1].start - w >= GuardWindow
        /\ \A v \in (w + 1)..GuardMaxClock :
              (InWindow(w) # {} /\ InWindow(v) # {}) => v - w >= GuardWindow

\* The acceptances that came after the i-th call.
AcceptedAfter(i) == {m \in (i + 1)..Len(consumed) : Accepted(m)}

Overdue(i) == \E m \in (i + 1)..Len(consumed) : consumed[i].expires <= consumed[m].now

\* The id is still held, behind no more entries than were accepted after it.
Held(i) ==
    \E p \in DOMAIN seen :
        /\ seen[p] = [id |-> consumed[i].id, expires |-> consumed[i].expires]
        /\ Len(seen) - p <= Cardinality(AcceptedAfter(i))

HeldInv ==
    \A i \in DOMAIN consumed :
        Accepted(i) => Overdue(i) \/ Cardinality(AcceptedAfter(i)) >= MaxEntries \/ Held(i)

\* The inductive invariant of the guards.
GuardsIInv == PGTypeOK /\ RowInv /\ AllowanceInv /\ HeldInv /\ ForgottenOnlyWhenPushedOut

\* A bounded, inhabited set of numbers has a largest member.
LEMMA LargestExists ==
    ASSUME NEW b \in Nat, NEW T, T \subseteq 0..b, T # {}
    PROVE  \E m \in T : \A k \in T : k <= m
<1> DEFINE U == {n \in 0..b : b - n \in T}
<1>1. U \subseteq Nat
  OBVIOUS
<1>2. U # {}
  <2>1. PICK m \in T : TRUE
    OBVIOUS
  <2>2. b - m \in U
    OBVIOUS
  <2>3. QED
    BY <2>2
<1>3. PICK x \in U : \A y \in U : ~(<<y, x>> \in OpToRel(<, Nat))
  <2> HIDE DEF U
  <2>1. QED
    BY <1>1, <1>2, NatLessThanWellFounded, WFMin
<1>4. \A y \in U : ~(y < x)
  <2> HIDE DEF U
  <2>1. QED
    BY <1>1, <1>3 DEF OpToRel
<1>5. ASSUME NEW k \in T PROVE k <= b - x
  <2>1. b - k \in U
    OBVIOUS
  <2>2. QED
    BY <1>4, <2>1
<1>6. QED
  BY <1>5

\* The purge takes entries off the front, only expired ones.
LEMMA PurgedFacts ==
    ASSUME seen \in Seq(Entries), NEW now \in Nat
    PROVE  \E n \in 0..Len(seen) :
              /\ Purged(now) = SubSeq(seen, n + 1, Len(seen))
              /\ \A i \in 1..n : seen[i].expires <= now
<1> DEFINE expired == {n \in 0..Len(seen) : \A i \in 1..n : seen[i].expires <= now}
           n == CHOOSE m \in expired : \A k \in expired : k <= m
<1>1. Len(seen) \in Nat /\ expired \subseteq 0..Len(seen) /\ 0 \in expired
  OBVIOUS
<1>2. n \in expired
  <2> HIDE DEF expired
  <2>1. \E m \in expired : \A k \in expired : k <= m
    BY <1>1, LargestExists
  <2>2. QED
    BY <2>1
<1>3. Purged(now) = SubSeq(seen, n + 1, Len(seen))
  BY DEF Purged
<1>4. n \in 0..Len(seen) /\ \A i \in 1..n : seen[i].expires <= now
  BY <1>2
<1> HIDE DEF n
<1>5. QED
  BY <1>3, <1>4

\* What is left of the deque, entry by entry.
LEMMA PurgedEntries ==
    ASSUME seen \in Seq(Entries), NEW now \in Nat
    PROVE  \E n \in 0..Len(seen) :
              /\ Purged(now) \in Seq(Entries) /\ Len(Purged(now)) = Len(seen) - n
              /\ \A i \in 1..(Len(seen) - n) : Purged(now)[i] = seen[i + n]
              /\ \A i \in 1..n : seen[i].expires <= now
<1>1. PICK n \in 0..Len(seen) :
         /\ Purged(now) = SubSeq(seen, n + 1, Len(seen))
         /\ \A i \in 1..n : seen[i].expires <= now
  BY PurgedFacts
<1>2. /\ SubSeq(seen, n + 1, Len(seen)) \in Seq(Entries)
      /\ Len(SubSeq(seen, n + 1, Len(seen))) = Len(seen) - n
      /\ \A i \in 1..(Len(seen) - n) : SubSeq(seen, n + 1, Len(seen))[i] = seen[i + n]
  OBVIOUS
<1>3. QED
  BY <1>1, <1>2

\* Making room drops at most the oldest entry, and only at max_entries.
LEMMA RoomEntries ==
    ASSUME NEW q \in Seq(Entries), Len(q) <= MaxEntries, NEW e \in Entries
    PROVE  \E d \in {0, 1} :
              /\ Append(WithRoom(q), e) \in Seq(Entries)
              /\ d <= Len(q) /\ Len(Append(WithRoom(q), e)) = Len(q) + 1 - d
              /\ Len(q) + 1 - d <= MaxEntries
              /\ d = 1 => Len(q) = MaxEntries
              /\ \A i \in 1..(Len(q) - d) : Append(WithRoom(q), e)[i] = q[i + d]
              /\ Append(WithRoom(q), e)[Len(q) + 1 - d] = e
<1> USE GuardsAssumption
<1>1. CASE Len(q) >= MaxEntries
  <2>1. WithRoom(q) = Tail(q) /\ Len(q) = MaxEntries /\ q # <<>>
    BY <1>1 DEF WithRoom
  <2>2. /\ Tail(q) \in Seq(Entries) /\ Len(Tail(q)) = Len(q) - 1
        /\ \A i \in 1..(Len(q) - 1) : Tail(q)[i] = q[i + 1]
    BY <2>1
  <2>3. QED
    BY <2>1, <2>2
<1>2. CASE ~(Len(q) >= MaxEntries)
  BY <1>2 DEF WithRoom
<1>3. QED
  BY <1>1, <1>2

---------------------------------------------------------------------------

\* Every record a call gets is well typed, and replaces only its own.
LEMMA CallMoves ==
    ASSUME gcall \in [GuardCalls -> CallType], NEW c \in GuardCalls,
           NEW r \in CallType, MoveCall(c, r)
    PROVE  /\ gcall' \in [GuardCalls -> CallType] /\ gcall'[c] = r
           /\ \A b \in GuardCalls : b # c => gcall'[b] = gcall[b]
BY DEF MoveCall

\* A call that is refused.
LEMMA DenyMoves ==
    ASSUME gcall \in [GuardCalls -> CallType], NEW c \in GuardCalls, CallDenied(c)
    PROVE  /\ gcall' \in [GuardCalls -> CallType]
           /\ \A b \in GuardCalls : b # c => gcall'[b] = gcall[b]
           /\ gcall'[c].pc = "denied"
           /\ gcall'[c].win = gcall[c].win
<1> DEFINE r == [gcall[c] EXCEPT !.pc = "denied"]
<1>1. gcall[c] \in CallType
  OBVIOUS
<1>2. r \in CallType /\ r.pc = "denied" /\ r.win = gcall[c].win
  BY <1>1 DEF CallType
<1>3. MoveCall(c, r)
  BY DEF CallDenied
<1> HIDE DEF r
<1>4. QED
  BY <1>2, <1>3, CallMoves

\* A call that has read the clock.
LEMMA StartMoves ==
    ASSUME gcall \in [GuardCalls -> CallType], NEW c \in GuardCalls, NEW n \in 0..GuardMaxClock,
           MoveCall(c, [gcall[c] EXCEPT !.pc = "rate", !.now = n])
    PROVE  /\ gcall' \in [GuardCalls -> CallType]
           /\ \A b \in GuardCalls : b # c => gcall'[b] = gcall[b]
           /\ gcall'[c].pc = "rate"
           /\ gcall'[c].win = gcall[c].win
<1> DEFINE r == [gcall[c] EXCEPT !.pc = "rate", !.now = n]
<1>1. gcall[c] \in CallType
  OBVIOUS
<1>2. r \in CallType /\ r.pc = "rate" /\ r.win = gcall[c].win
  BY <1>1 DEF CallType
<1>3. MoveCall(c, r)
  BY DEF CallDenied
<1> HIDE DEF r
<1>4. QED
  BY <1>2, <1>3, CallMoves

\* A call the limiter admits.
LEMMA AdmitMoves ==
    ASSUME gcall \in [GuardCalls -> CallType], NEW c \in GuardCalls, NEW n \in 0..GuardMaxClock,
           MoveCall(c, [gcall[c] EXCEPT !.pc = "replay", !.win = n])
    PROVE  /\ gcall' \in [GuardCalls -> CallType]
           /\ \A b \in GuardCalls : b # c => gcall'[b] = gcall[b]
           /\ gcall'[c].pc = "replay"
           /\ gcall'[c].win = n
<1> DEFINE r == [gcall[c] EXCEPT !.pc = "replay", !.win = n]
<1>1. gcall[c] \in CallType /\ n \in -1..GuardMaxClock
  BY GuardsAssumption
<1>2. r \in CallType /\ r.pc = "replay" /\ r.win = n
  BY <1>1 DEF CallType
<1>3. MoveCall(c, r)
  BY DEF CallDenied
<1> HIDE DEF r
<1>4. QED
  BY <1>2, <1>3, CallMoves

\* A call the guard accepts.
LEMMA AllowMoves ==
    ASSUME gcall \in [GuardCalls -> CallType], NEW c \in GuardCalls, 
           MoveCall(c, [gcall[c] EXCEPT !.pc = "allowed"])
    PROVE  /\ gcall' \in [GuardCalls -> CallType]
           /\ \A b \in GuardCalls : b # c => gcall'[b] = gcall[b]
           /\ gcall'[c].pc = "allowed"
           /\ gcall'[c].win = gcall[c].win
<1> DEFINE r == [gcall[c] EXCEPT !.pc = "allowed"]
<1>1. gcall[c] \in CallType
  OBVIOUS
<1>2. r \in CallType /\ r.pc = "allowed" /\ r.win = gcall[c].win
  BY <1>1 DEF CallType
<1>3. MoveCall(c, r)
  BY DEF CallDenied
<1> HIDE DEF r
<1>4. QED
  BY <1>2, <1>3, CallMoves

\* A step that leaves the deque and the history alone keeps what relates them.
LEMMA HistoryKept ==
    ASSUME GuardsIInv, seen' = seen, consumed' = consumed
    PROVE  HeldInv' /\ ForgottenOnlyWhenPushedOut'
<1>1. \A i : Accepted(i)' <=> Accepted(i)
  BY DEF Accepted
<1>2. \A i : AcceptedAfter(i)' = AcceptedAfter(i) /\ (Overdue(i)' <=> Overdue(i))
  BY <1>1 DEF AcceptedAfter, Overdue
<1>3. \A i, k : Between(i, k)' = Between(i, k)
  BY <1>1 DEF Between
<1>4. \A i : Held(i)' <=> Held(i)
  BY <1>2 DEF Held
<1>5. HeldInv'
  BY <1>1, <1>2, <1>4 DEF GuardsIInv, HeldInv
<1>6. ForgottenOnlyWhenPushedOut'
  BY <1>1, <1>3 DEF GuardsIInv, ForgottenOnlyWhenPushedOut
<1>7. QED
  BY <1>5, <1>6

\* So does one that leaves the windows of the calls and the row alone.
LEMMA AllowanceKept ==
    ASSUME GuardsIInv, window' = window, \A c \in GuardCalls : gcall'[c].win = gcall[c].win
    PROVE  AllowanceInv'
<1>1. ASSUME NEW w \in 0..GuardMaxClock PROVE InWindow(w)' = InWindow(w)
  BY DEF InWindow
<1>2. AllowanceInv
  BY DEF GuardsIInv
<1>3. QED
  BY <1>1, <1>2 DEF AllowanceInv

\* The first reading of the clock, and the refusal it may bring.
LEMMA StartKeeps == ASSUME GuardsIInv, NEW c \in GuardCalls, StartCall(c) PROVE GuardsIInv'
<1>1. /\ gcall \in [GuardCalls -> CallType] /\ gcall[c] \in CallType
      /\ gclock \in 0..GuardMaxClock
  BY DEF GuardsIInv, PGTypeOK, CallType
<1>2. /\ \A b \in GuardCalls : b # c => gcall'[b] = gcall[b]
      /\ gcall'[c] \in CallType /\ gcall'[c].win = gcall[c].win
      /\ gcall' \in [GuardCalls -> CallType]
  <2>1. CASE CallDenied(c)
    BY <1>1, <2>1, DenyMoves
  <2>2. CASE MoveCall(c, [gcall[c] EXCEPT !.pc = "rate", !.now = gclock])
    BY <1>1, <2>2, StartMoves
  <2>3. QED
    BY <2>1, <2>2 DEF StartCall
<1>3. /\ seen' = seen /\ window' = window /\ gclock' = gclock /\ consumed' = consumed
      /\ gcall[c].win = -1
  BY DEF StartCall, GuardsIInv, RowInv, CallAt
<1>4. PGTypeOK'
  BY <1>2, <1>3 DEF GuardsIInv, PGTypeOK, CallType
<1>5. RowInv'
  BY <1>2, <1>3 DEF GuardsIInv, RowInv
<1>6. \A b \in GuardCalls : gcall'[b].win = gcall[b].win
  BY <1>2
<1>7. AllowanceInv'
  BY <1>3, <1>6, AllowanceKept
<1>8. HeldInv' /\ ForgottenOnlyWhenPushedOut'
  BY <1>3, HistoryKept
<1>9. QED
  BY <1>4, <1>5, <1>7, <1>8 DEF GuardsIInv

\* FixedWindowRateLimiter.consume admitting one call into the window that starts at s0.
LEMMA AllowanceGrows ==
    ASSUME GuardsIInv, NEW c \in GuardCalls, NEW s0 \in 0..GuardMaxClock,
           NEW k \in 1..GuardRequests, NEW t \in 0..GuardMaxClock,
           gcall[c].win = -1, gcall'[c].win = s0,
           \A b \in GuardCalls : b # c => gcall'[b] = gcall[b],
           window' = <<[start |-> s0, count |-> k]>>,
           \/ s0 = t /\ k = 1 /\ (window # <<>> => t - window[1].start >= GuardWindow)
           \/ window # <<>> /\ s0 = window[1].start /\ k = window[1].count + 1
    PROVE  AllowanceInv'
<1> USE GuardsAssumption
<1>1. AllowanceInv /\ RowInv
  BY DEF GuardsIInv
<1>2. ASSUME NEW w \in 0..GuardMaxClock
      PROVE  InWindow(w)' = IF w = s0 THEN InWindow(w) \cup {c} ELSE InWindow(w)
  <2>1. c \notin InWindow(w) /\ (c \in InWindow(w)' <=> w = s0)
    BY DEF InWindow
  <2>2. ASSUME NEW b \in GuardCalls, b # c PROVE b \in InWindow(w)' <=> b \in InWindow(w)
    BY <2>2 DEF InWindow
  <2>3. InWindow(w) \subseteq GuardCalls /\ InWindow(w)' \subseteq GuardCalls
    BY DEF InWindow
  <2>4. CASE w = s0
    <3>1. c \in InWindow(w)'
      BY <2>1, <2>4
    <3>2. QED
      BY <2>2, <2>3, <2>4, <3>1, Zenon
  <2>5. CASE w # s0
    <3>1. c \notin InWindow(w)' /\ c \notin InWindow(w)
      BY <2>1, <2>5
    <3>2. \A b \in GuardCalls : b \in InWindow(w)' <=> b \in InWindow(w)
      BY <2>2, <3>1
    <3>3. InWindow(w)' = InWindow(w)
      BY <2>3, <3>2
    <3>4. QED
      BY <2>5, <3>3
  <2>6. QED
    BY <2>4, <2>5
<1>3. window' # <<>> /\ window'[1].start = s0 /\ window'[1].count = k
  OBVIOUS
<1>4. window # <<>> => window[1].start \in 0..GuardMaxClock
  BY <1>1 DEF RowInv
<1>5. IsFiniteSet(InWindow(s0)) /\ Cardinality(InWindow(s0)) <= k - 1
  <2>1. CASE InWindow(s0) = {}
    BY <2>1, FS_EmptySet
  <2>2. CASE InWindow(s0) # {}
    <3>1. /\ IsFiniteSet(InWindow(s0)) /\ window # <<>>
          /\ \/ s0 = window[1].start /\ Cardinality(InWindow(s0)) <= window[1].count
             \/ window[1].start - s0 >= GuardWindow
      BY <1>1, <2>2 DEF AllowanceInv
    <3>2. s0 = window[1].start /\ k = window[1].count + 1
      BY <1>4, <3>1
    <3>3. window[1].count \in 1..GuardRequests
      BY <1>1, <3>1 DEF RowInv
    <3>4. QED
      BY <1>4, <3>1, <3>2, <3>3
  <2>3. QED
    BY <2>1, <2>2
<1>6. IsFiniteSet(InWindow(s0)') /\ Cardinality(InWindow(s0)') <= k
  <2>1. /\ IsFiniteSet(InWindow(s0) \cup {c})
        /\ \/ Cardinality(InWindow(s0) \cup {c}) = Cardinality(InWindow(s0))
           \/ Cardinality(InWindow(s0) \cup {c}) = Cardinality(InWindow(s0)) + 1
    BY <1>5, FS_AddElement
  <2>2. Cardinality(InWindow(s0)) \in Nat
    BY <1>5, FS_CardinalityType
  <2>3. InWindow(s0)' = InWindow(s0) \cup {c}
    BY <1>2
  <2>4. QED
    BY <1>5, <2>1, <2>2, <2>3
<1>7. ASSUME NEW w \in 0..GuardMaxClock, w # s0
      PROVE  /\ IsFiniteSet(InWindow(w)') /\ Cardinality(InWindow(w)') <= GuardRequests
             /\ InWindow(w)' # {} => s0 - w >= GuardWindow
  <2>1. InWindow(w)' = InWindow(w)
    BY <1>2, <1>7
  <2>2. /\ IsFiniteSet(InWindow(w)) /\ Cardinality(InWindow(w)) <= GuardRequests
        /\ InWindow(w) # {} =>
              window # <<>> /\ (w = window[1].start \/ window[1].start - w >= GuardWindow)
    BY <1>1 DEF AllowanceInv
  <2>3. ASSUME InWindow(w) # {} PROVE s0 - w >= GuardWindow
    BY <1>4, <1>7, <2>2, <2>3
  <2>4. QED
    BY <2>1, <2>2, <2>3
<1>8. ASSUME NEW w \in 0..GuardMaxClock, NEW v \in (w + 1)..GuardMaxClock,
             InWindow(w)' # {}, InWindow(v)' # {}
      PROVE  v - w >= GuardWindow
  <2>1. v \in 0..GuardMaxClock /\ w < v
    OBVIOUS
  <2>2. w # s0
    <3>1. SUFFICES ASSUME w = s0 PROVE FALSE
      OBVIOUS
    <3>2. s0 - v >= GuardWindow
      BY <1>7, <1>8, <2>1, <3>1
    <3>3. QED
      BY <2>1, <3>1, <3>2
  <2>3. CASE v = s0
    BY <1>7, <1>8, <2>2, <2>3
  <2>4. CASE v # s0
    <3>1. InWindow(w) # {} /\ InWindow(v) # {}
      BY <1>2, <1>8, <2>1, <2>2, <2>4
    <3>2. QED
      BY <1>1, <3>1 DEF AllowanceInv
  <2>5. QED
    BY <2>3, <2>4
<1>9. ASSUME NEW w \in 0..GuardMaxClock
      PROVE  /\ IsFiniteSet(InWindow(w)') /\ Cardinality(InWindow(w)') <= GuardRequests
             /\ InWindow(w)' # {} =>
                   \/ w = s0 /\ Cardinality(InWindow(w)') <= k
                   \/ s0 - w >= GuardWindow
  <2>1. CASE w = s0
    <3>1. Cardinality(InWindow(s0)') \in Nat
      BY <1>6, FS_CardinalityType
    <3>2. QED
      BY <1>6, <2>1, <3>1
  <2>2. CASE w # s0
    BY <1>7, <2>2
  <2>3. QED
    BY <2>1, <2>2
<1>10. QED
  BY <1>3, <1>8, <1>9 DEF AllowanceInv

\* LimitRate admits or refuses; a refusal leaves the row as it was.
LEMMA LimitKeeps == ASSUME GuardsIInv, NEW c \in GuardCalls, LimitRate(c) PROVE GuardsIInv'
<1> USE GuardsAssumption
<1>1. /\ gcall \in [GuardCalls -> CallType] /\ gcall[c] \in CallType
      /\ gclock \in 0..GuardMaxClock /\ AllowanceInv
  BY DEF GuardsIInv, PGTypeOK, CallType
<1>2. /\ seen' = seen /\ gclock' = gclock /\ consumed' = consumed
      /\ gcall[c].win = -1 /\ gcall[c].pc = "rate"
  BY DEF LimitRate, GuardsIInv, RowInv, CallAt
<1>3. PICK t \in gcall[c].now..gclock :
         \/ /\ RateRow(t).count < GuardRequests
            /\ window' = <<[RateRow(t) EXCEPT !.count = @ + 1]>>
            /\ MoveCall(c, [gcall[c] EXCEPT !.pc = "replay", !.win = RateRow(t).start])
         \/ /\ RateRow(t).count >= GuardRequests
            /\ window' = <<RateRow(t)>>
            /\ CallDenied(c)
  BY DEF LimitRate
<1>4. t \in 0..GuardMaxClock
  <2>1. gcall[c].now \in 0..GuardMaxClock
    BY <1>1 DEF CallType
  <2>2. QED
    BY <1>1, <1>3, <2>1
<1>5. PICK s0 \in 0..GuardMaxClock, k \in 0..GuardRequests :
         /\ RateRow(t) = [start |-> s0, count |-> k]
         /\ \/ s0 = t /\ k = 0 /\ (window # <<>> => t - window[1].start >= GuardWindow)
            \/ window = <<[start |-> s0, count |-> k]>>
  <2>1. CASE window = <<>> \/ (window # <<>> /\ WindowOver(t))
    <3>1. RateRow(t) = [start |-> t, count |-> 0]
      BY <2>1 DEF RateRow
    <3>2. window # <<>> => t - window[1].start >= GuardWindow
      BY <2>1 DEF WindowOver
    <3>3. QED
      BY <1>4, <3>1, <3>2
  <2>2. CASE ~(window = <<>> \/ (window # <<>> /\ WindowOver(t)))
    <3>1. PICK r \in [start : 0..GuardMaxClock, count : 1..GuardRequests] : window = <<r>>
      BY <2>2 DEF GuardsIInv, RowInv
    <3>2. RateRow(t) = r
      BY <2>2, <3>1 DEF RateRow
    <3>3. r = [start |-> r.start, count |-> r.count]
      OBVIOUS
    <3>4. QED
      BY <3>1, <3>2, <3>3
  <2>3. QED
    BY <2>1, <2>2
<1>6. CASE k < GuardRequests
  <2>1. /\ window' = <<[start |-> s0, count |-> k + 1]>>
        /\ MoveCall(c, [gcall[c] EXCEPT !.pc = "replay", !.win = s0])
    BY <1>3, <1>5, <1>6
  <2>2. /\ gcall' \in [GuardCalls -> CallType]
        /\ gcall'[c].win = s0 /\ gcall'[c].pc = "replay"
        /\ \A b \in GuardCalls : b # c => gcall'[b] = gcall[b]
    BY <1>1, <2>1, AdmitMoves
  <2>3. AllowanceInv'
    <3>1. k + 1 \in 1..GuardRequests
      BY <1>6
    <3>2. \/ s0 = t /\ k + 1 = 1 /\ (window # <<>> => t - window[1].start >= GuardWindow)
          \/ window # <<>> /\ s0 = window[1].start /\ k + 1 = window[1].count + 1
      BY <1>5
    <3>3. QED
      BY <1>2, <1>4, <2>1, <2>2, <3>1, <3>2, AllowanceGrows
  <2>4. [start |-> s0, count |-> k + 1] \in [start : 0..GuardMaxClock, count : 1..GuardRequests]
    BY <1>6
  <2>5. RowInv'
    BY <2>1, <2>2, <2>4 DEF GuardsIInv, RowInv
  <2>6. PGTypeOK'
    <3>1. window' \in Seq([start : 0..GuardMaxClock, count : 1..GuardRequests])
      BY <2>1, <2>4
    <3>2. QED
      BY <1>2, <2>2, <3>1 DEF GuardsIInv, PGTypeOK, CallType
  <2>7. HeldInv' /\ ForgottenOnlyWhenPushedOut'
    BY <1>2, HistoryKept
  <2>8. QED
    BY <2>3, <2>5, <2>6, <2>7 DEF GuardsIInv
<1>7. CASE ~(k < GuardRequests)
  <2>1. window' = <<[start |-> s0, count |-> k]>> /\ CallDenied(c)
    BY <1>3, <1>5, <1>7
  <2>2. window' = window
    BY <1>5, <1>7, <2>1
  <2>3. /\ gcall' \in [GuardCalls -> CallType]
        /\ gcall'[c].win = gcall[c].win /\ gcall'[c].pc = "denied"
        /\ \A b \in GuardCalls : b # c => gcall'[b] = gcall[b]
    BY <1>1, <2>1, DenyMoves
  <2>4. \A b \in GuardCalls : gcall'[b].win = gcall[b].win
    BY <2>3
  <2>5. AllowanceInv'
    BY <2>2, <2>4, AllowanceKept
  <2>6. RowInv'
    BY <2>2, <2>3 DEF GuardsIInv, RowInv
  <2>7. PGTypeOK'
    BY <1>2, <2>2, <2>3 DEF GuardsIInv, PGTypeOK, CallType
  <2>8. HeldInv' /\ ForgottenOnlyWhenPushedOut'
    BY <1>2, HistoryKept
  <2>9. QED
    BY <2>5, <2>6, <2>7, <2>8 DEF GuardsIInv
<1>8. QED
  BY <1>6, <1>7

---------------------------------------------------------------------------

\* What a consume, recorded as r, leaves in the deque: n entries are gone from the
\* front, expired by the call's clock read, and d more, the oldest, when it was full.
Consumes(c, n, r, d) ==
    /\ consumed' = Append(consumed, r)
    /\ \A i \in 1..n : seen[i].expires <= r.now
    /\ seen' \in Seq(Entries) /\ Len(seen') <= MaxEntries
    /\ n + d <= Len(seen)
    /\ \A i \in 1..(Len(seen) - n - d) : seen'[i] = seen[i + n + d]
    /\ r.ok => /\ \A p \in (n + 1)..Len(seen) : seen[p].id # r.id
               /\ Len(seen') = Len(seen) - n - d + 1
               /\ seen'[Len(seen')] = [id |-> r.id, expires |-> r.expires]
               /\ d = 1 => Len(seen) - n = MaxEntries
    /\ ~r.ok => d = 0 /\ Len(seen') = Len(seen) - n
    /\ gcall' \in [GuardCalls -> CallType]
    /\ gcall'[c].pc \in {"allowed", "denied"} /\ gcall'[c].win = gcall[c].win
    /\ \A b \in GuardCalls : b # c => gcall'[b] = gcall[b]

\* ReplayGuard.consume purges, answers by what is left, makes room and appends.
LEMMA ConsumeFacts ==
    ASSUME GuardsIInv, NEW c \in GuardCalls, ConsumeId(c)
    PROVE  \E n \in 0..Len(seen), r \in ConsumedType, d \in {0, 1} : Consumes(c, n, r, d)
<1> USE GuardsAssumption
<1>1. /\ gcall \in [GuardCalls -> CallType] /\ gcall[c] \in CallType
      /\ seen \in Seq(Entries) /\ Len(seen) <= MaxEntries
  BY DEF GuardsIInv, PGTypeOK, CallType
<1>2. PICK now \in 0..GuardMaxClock : now = gcall[c].now
  BY <1>1 DEF CallType
<1>3. PICK n \in 0..Len(seen) :
         /\ Purged(now) \in Seq(Entries) /\ Len(Purged(now)) = Len(seen) - n
         /\ \A i \in 1..(Len(seen) - n) : Purged(now)[i] = seen[i + n]
         /\ \A i \in 1..n : seen[i].expires <= now
  <2>1. now \in Nat
    OBVIOUS
  <2>2. QED
    BY <1>1, <2>1, PurgedEntries
<1>4. PICK q \in Seq(Entries) : q = Purged(now)
  BY <1>3
<1> DEFINE known == \E i \in DOMAIN q : q[i].id = gcall[c].id
           r == [id |-> gcall[c].id, expires |-> gcall[c].until, now |-> now, ok |-> ~known]
           e == [id |-> gcall[c].id, expires |-> gcall[c].until]
<1>5. /\ r \in ConsumedType /\ e \in Entries /\ r.now = now
      /\ r.id = gcall[c].id /\ r.expires = gcall[c].until /\ (r.ok <=> ~known)
      /\ e = [id |-> r.id, expires |-> r.expires]
  BY <1>1, <1>2 DEF CallType, ConsumedType, Entries
<1>6. /\ \/ known /\ seen' = q /\ CallDenied(c)
         \/ /\ ~known /\ seen' = Append(WithRoom(q), e)
            /\ MoveCall(c, [gcall[c] EXCEPT !.pc = "allowed"])
      /\ consumed' = Append(consumed, r)
  BY <1>2, <1>4 DEF ConsumeId
<1>7. /\ Len(q) = Len(seen) - n /\ \A i \in 1..(Len(seen) - n) : q[i] = seen[i + n]
      /\ Len(q) <= MaxEntries /\ n \in 0..Len(seen) /\ Len(seen) \in Nat
      /\ \A i \in 1..n : seen[i].expires <= now
  BY <1>1, <1>3, <1>4
<1>8. ~known => \A p \in (n + 1)..Len(seen) : seen[p].id # gcall[c].id
  <2> SUFFICES ASSUME NEW p \in (n + 1)..Len(seen), seen[p].id = gcall[c].id PROVE known
    OBVIOUS
  <2>1. p - n \in DOMAIN q /\ q[p - n] = seen[p]
    BY <1>7
  <2>2. QED
    BY <2>1
<1> HIDE DEF known, r, e
<1>9. CASE known
  <2>1. /\ gcall' \in [GuardCalls -> CallType] /\ gcall'[c].pc = "denied"
        /\ gcall'[c].win = gcall[c].win
        /\ \A b \in GuardCalls : b # c => gcall'[b] = gcall[b]
    BY <1>1, <1>6, <1>9, DenyMoves
  <2>2. /\ seen' \in Seq(Entries) /\ Len(seen') = Len(seen) - n /\ Len(seen') <= MaxEntries
        /\ \A i \in 1..(Len(seen) - n - 0) : seen'[i] = seen[i + n + 0]
        /\ n + 0 <= Len(seen)
    BY <1>6, <1>7, <1>9
  <2>3. Consumes(c, n, r, 0)
    BY <1>5, <1>6, <1>7, <1>9, <2>1, <2>2 DEF Consumes
  <2>4. QED
    BY <1>5, <2>3
<1>10. CASE ~known
  <2>1. /\ gcall' \in [GuardCalls -> CallType] /\ gcall'[c].pc = "allowed"
        /\ gcall'[c].win = gcall[c].win
        /\ \A b \in GuardCalls : b # c => gcall'[b] = gcall[b]
    BY <1>1, <1>6, <1>10, AllowMoves
  <2>a. seen' = Append(WithRoom(q), e)
    BY <1>6, <1>10
  <2>b. PICK d \in {0, 1} :
           /\ Append(WithRoom(q), e) \in Seq(Entries)
           /\ d <= Len(q) /\ Len(Append(WithRoom(q), e)) = Len(q) + 1 - d
           /\ Len(q) + 1 - d <= MaxEntries
           /\ d = 1 => Len(q) = MaxEntries
           /\ \A i \in 1..(Len(q) - d) : Append(WithRoom(q), e)[i] = q[i + d]
           /\ Append(WithRoom(q), e)[Len(q) + 1 - d] = e
    BY <1>5, <1>7, RoomEntries, ZenonT(30)
  <2>2.    /\ seen' \in Seq(Entries)
           /\ d <= Len(q) /\ Len(seen') = Len(q) + 1 - d /\ Len(q) + 1 - d <= MaxEntries
           /\ d = 1 => Len(q) = MaxEntries
           /\ \A i \in 1..(Len(q) - d) : seen'[i] = q[i + d]
           /\ seen'[Len(q) + 1 - d] = e
    BY <2>a, <2>b
  <2>3. /\ n + d <= Len(seen) /\ Len(seen') = Len(seen) - n - d + 1
        /\ Len(seen') <= MaxEntries /\ (d = 1 => Len(seen) - n = MaxEntries)
        /\ seen'[Len(seen')] = e
    BY <1>7, <2>2
  <2>4. ASSUME NEW i \in 1..(Len(seen) - n - d) PROVE seen'[i] = seen[i + n + d]
    <3>1. i \in 1..(Len(q) - d) /\ i + d \in 1..(Len(seen) - n)
      BY <1>7
    <3>2. seen'[i] = q[i + d]
      BY <2>2, <3>1
    <3>3. q[i + d] = seen[(i + d) + n]
      BY <1>7, <3>1
    <3>4. (i + d) + n = i + n + d
      BY <1>7
    <3>5. QED
      BY <3>2, <3>3, <3>4
  <2>5. /\ r.ok /\ consumed' = Append(consumed, r) /\ e = [id |-> r.id, expires |-> r.expires]
        /\ \A p \in (n + 1)..Len(seen) : seen[p].id # r.id
        /\ \A i \in 1..n : seen[i].expires <= r.now
    BY <1>5, <1>6, <1>7, <1>8, <1>10
  <2>6. seen'[Len(seen')] = [id |-> r.id, expires |-> r.expires]
    BY <2>3, <2>5
  <2>7. Consumes(c, n, r, d)
    <3>1. seen' \in Seq(Entries)
      BY <2>2
    <3>2. r.ok /\ gcall'[c].pc \in {"allowed", "denied"}
      BY <2>1, <2>5
    <3>3. /\ r.ok => /\ \A p \in (n + 1)..Len(seen) : seen[p].id # r.id
                     /\ Len(seen') = Len(seen) - n - d + 1
                     /\ seen'[Len(seen')] = [id |-> r.id, expires |-> r.expires]
                     /\ d = 1 => Len(seen) - n = MaxEntries
          /\ ~r.ok => d = 0 /\ Len(seen') = Len(seen) - n
      BY <2>3, <2>5, <2>6, <3>2
    <3>4. QED
      BY <2>1, <2>3, <2>4, <2>5, <3>1, <3>2, <3>3, Zenon DEF Consumes
  <2>8. QED
    BY <1>5, <2>7
<1>11. QED
  BY <1>9, <1>10

\* One more call: what comes after an earlier one grows by it if it is accepted.
LEMMA AfterGrows ==
    ASSUME consumed \in Seq(ConsumedType), NEW r \in ConsumedType,
           consumed' = Append(consumed, r), NEW L \in Nat, L = Len(consumed), NEW i \in 1..L
    PROVE  /\ Cardinality(AcceptedAfter(i)) \in Nat
           /\ r.ok => Cardinality(AcceptedAfter(i)') = Cardinality(AcceptedAfter(i)) + 1
           /\ ~r.ok => Cardinality(AcceptedAfter(i)') = Cardinality(AcceptedAfter(i))
           /\ Between(i, L + 1)' = AcceptedAfter(i)
           /\ \A k \in 1..L : Between(i, k)' = Between(i, k)
<1>1. L = Len(consumed)
  OBVIOUS
<1>2. /\ Len(consumed') = L + 1 /\ consumed'[L + 1] = r
      /\ \A m \in 1..L : consumed'[m] = consumed[m]
  OBVIOUS
<1>3. \A m \in 1..L : Accepted(m)' <=> Accepted(m)
  BY <1>2 DEF Accepted
<1>4. Accepted(L + 1)' <=> r.ok
  BY <1>2 DEF Accepted
<1>5. IsFiniteSet(AcceptedAfter(i)) /\ Cardinality(AcceptedAfter(i)) \in Nat
  <2>1. IsFiniteSet((i + 1)..L) /\ AcceptedAfter(i) \in SUBSET ((i + 1)..L)
    BY <1>1, FS_Interval DEF AcceptedAfter
  <2>2. IsFiniteSet(AcceptedAfter(i))
    BY <2>1, FS_Subset
  <2>3. QED
    BY <2>2, FS_CardinalityType
<1>6. ASSUME r.ok PROVE Cardinality(AcceptedAfter(i)') = Cardinality(AcceptedAfter(i)) + 1
  <2>1. AcceptedAfter(i)' = AcceptedAfter(i) \cup {L + 1}
    BY <1>1, <1>2, <1>3, <1>4, <1>6 DEF AcceptedAfter
  <2>2. L + 1 \notin AcceptedAfter(i)
    BY <1>1 DEF AcceptedAfter
  <2>3. QED
    BY <1>5, <2>1, <2>2, FS_AddElement
<1>7. ASSUME ~r.ok PROVE AcceptedAfter(i)' = AcceptedAfter(i)
  BY <1>1, <1>2, <1>3, <1>4, <1>7 DEF AcceptedAfter
<1>8. Between(i, L + 1)' = AcceptedAfter(i)
  BY <1>1, <1>3 DEF Between, AcceptedAfter
<1>9. ASSUME NEW k \in 1..L PROVE Between(i, k)' = Between(i, k)
  BY <1>1, <1>3 DEF Between
<1>10. ~r.ok => Cardinality(AcceptedAfter(i)') = Cardinality(AcceptedAfter(i))
  BY <1>7
<1>11. QED
  BY <1>5, <1>6, <1>8, <1>9, <1>10

\* ReplayGuard.consume keeps every accepted id in the deque, or has let it expire,
\* or has accepted max_entries others since.
LEMMA ConsumeKeepsHeld ==
    ASSUME GuardsIInv, NEW c \in GuardCalls, NEW n \in 0..Len(seen), NEW r \in ConsumedType,
           NEW d \in {0, 1}, Consumes(c, n, r, d)
    PROVE  HeldInv'
<1> USE GuardsAssumption
<1>1. /\ seen \in Seq(Entries) /\ Len(seen) \in Nat /\ consumed \in Seq(ConsumedType)
      /\ Len(seen) <= MaxEntries
  BY DEF GuardsIInv, PGTypeOK, ConsumedType
<1>2. PICK L \in Nat : L = Len(consumed)
  BY <1>1
<1>3. /\ Len(consumed') = L + 1 /\ consumed'[L + 1] = r
      /\ \A m \in 1..L : consumed'[m] = consumed[m]
  BY <1>1, <1>2 DEF Consumes
<1>4. /\ seen' \in Seq(Entries) /\ n + d <= Len(seen)
      /\ \A p \in 1..(Len(seen) - n - d) : seen'[p] = seen[p + n + d]
      /\ \A p \in 1..n : seen[p].expires <= r.now
      /\ r.ok => /\ Len(seen') = Len(seen) - n - d + 1
                 /\ seen'[Len(seen')] = [id |-> r.id, expires |-> r.expires]
                 /\ d = 1 => Len(seen) - n = MaxEntries
      /\ ~r.ok => d = 0 /\ Len(seen') = Len(seen) - n
  BY DEF Consumes
<1>5. ASSUME r.ok PROVE Held(L + 1)'
  <2>1. Cardinality(AcceptedAfter(L + 1)') = 0
    <3>1. AcceptedAfter(L + 1)' = {}
      BY <1>3 DEF AcceptedAfter
    <3>2. QED
      BY <3>1, FS_EmptySet
  <2>2. Len(seen') \in DOMAIN seen'
    BY <1>1, <1>4, <1>5
  <2>3. seen'[Len(seen')] = [id |-> consumed'[L + 1].id, expires |-> consumed'[L + 1].expires]
    BY <1>3, <1>4, <1>5
  <2>4. Len(seen') - Len(seen') <= Cardinality(AcceptedAfter(L + 1)')
    BY <1>1, <1>4, <1>5, <2>1
  <2>5. QED
    BY <2>2, <2>3, <2>4 DEF Held
<1>6. ASSUME NEW i \in 1..L, Accepted(i)
      PROVE  Overdue(i)' \/ Cardinality(AcceptedAfter(i)') >= MaxEntries \/ Held(i)'
  <2>1. PICK N \in Nat : /\ N = Cardinality(AcceptedAfter(i))
                         /\ r.ok => Cardinality(AcceptedAfter(i)') = N + 1
                         /\ ~r.ok => Cardinality(AcceptedAfter(i)') = N
    BY <1>1, <1>2, AfterGrows DEF Consumes
  <2>2. consumed'[i] = consumed[i]
    BY <1>3
  <2>3. CASE Overdue(i)
    BY <1>2, <1>3, <2>2, <2>3 DEF Overdue
  <2>4. CASE N >= MaxEntries
    BY <2>1, <2>4
  <2>5. CASE Held(i)
    <3>1. PICK p \in 1..Len(seen) :
             /\ seen[p] = [id |-> consumed[i].id, expires |-> consumed[i].expires]
             /\ Len(seen) - p <= N
      BY <1>1, <2>1, <2>5 DEF Held
    <3>2. CASE p <= n
      <4>1. consumed[i].expires <= r.now
        BY <1>4, <3>1, <3>2
      <4>2. QED
        BY <1>2, <1>3, <2>2, <4>1 DEF Overdue
    <3>3. CASE p = n + d /\ d = 1
      <4>1. r.ok /\ Len(seen) - n = MaxEntries
        BY <1>4, <3>3
      <4>2. N + 1 >= MaxEntries
        BY <1>1, <3>1, <3>3, <4>1
      <4>3. QED
        BY <2>1, <4>1, <4>2
    <3>4. CASE p > n + d
      <4>1. PICK s \in 1..(Len(seen) - n - d) : s + n + d = p
        <5>1. p - n - d \in 1..(Len(seen) - n - d) /\ (p - n - d) + n + d = p
          BY <1>1, <3>4
        <5>2. QED
          BY <5>1
      <4>2. seen'[s] = seen[p]
        BY <1>4, <4>1
      <4>3. s \in DOMAIN seen'
        BY <1>1, <1>4, <4>1
      <4>4. Len(seen') - s <= Cardinality(AcceptedAfter(i)')
        <5>1. Len(seen) - n - d - s <= N
          BY <1>1, <3>1, <4>1
        <5>2. CASE r.ok
          <6>1. Len(seen') = Len(seen) - n - d + 1
            BY <1>4, <5>2
          <6>2. Len(seen') - s <= N + 1
            BY <1>1, <5>1, <6>1
          <6>3. QED
            BY <2>1, <5>2, <6>2
        <5>3. CASE ~r.ok
          <6>1. d = 0 /\ Len(seen') = Len(seen) - n
            BY <1>4, <5>3
          <6>2. Len(seen') - s <= N
            BY <1>1, <5>1, <6>1
          <6>3. QED
            BY <2>1, <5>3, <6>2
        <5>4. QED
          BY <5>2, <5>3
      <4>5. Held(i)'
        BY <2>2, <3>1, <4>2, <4>3, <4>4 DEF Held
      <4>6. QED
        BY <4>5
    <3>5. QED
      BY <3>2, <3>3, <3>4
  <2>6. QED
    BY <1>2, <2>1, <2>3, <2>4, <2>5, <1>1, <1>6 DEF GuardsIInv, HeldInv
<1>7. ASSUME NEW i \in DOMAIN consumed', Accepted(i)'
      PROVE  Overdue(i)' \/ Cardinality(AcceptedAfter(i)') >= MaxEntries \/ Held(i)'
  <2>1. consumed' \in Seq(ConsumedType)
    BY <1>1 DEF Consumes
  <2>2. i \in 1..L \/ i = L + 1
    BY <1>3, <2>1
  <2>3. CASE i \in 1..L
    <3>1. Accepted(i)
      BY <1>3, <1>7, <2>3 DEF Accepted
    <3>2. QED
      BY <1>6, <2>3, <3>1
  <2>4. CASE i = L + 1
    <3>1. r.ok
      BY <1>3, <1>7, <2>4 DEF Accepted
    <3>2. QED
      BY <1>5, <2>4, <3>1
  <2>5. QED
    BY <2>2, <2>3, <2>4
<1>8. QED
  BY <1>7 DEF HeldInv

\* An id is accepted again only after it was pushed out or had expired.
LEMMA ConsumeKeepsForgotten ==
    ASSUME GuardsIInv, NEW c \in GuardCalls, NEW n \in 0..Len(seen), NEW r \in ConsumedType,
           NEW d \in {0, 1}, Consumes(c, n, r, d)
    PROVE  ForgottenOnlyWhenPushedOut'
<1> USE GuardsAssumption
<1>1. /\ seen \in Seq(Entries) /\ Len(seen) \in Nat /\ consumed \in Seq(ConsumedType)
      /\ consumed' = Append(consumed, r)
  BY DEF GuardsIInv, PGTypeOK, ConsumedType, Consumes
<1>2. PICK L \in Nat : L = Len(consumed)
  BY <1>1
<1>3. /\ DOMAIN consumed' = 1..(L + 1) /\ consumed'[L + 1] = r /\ DOMAIN consumed = 1..L
      /\ \A m \in 1..L : consumed'[m] = consumed[m]
  BY <1>1, <1>2
<1>4. ASSUME NEW i \in 1..(L + 1), NEW k \in 1..(L + 1), i < k,
             Accepted(i)', Accepted(k)', consumed'[i].id = consumed'[k].id
      PROVE  \/ \E m \in (i + 1)..k : consumed'[i].expires <= consumed'[m].now
             \/ Cardinality(Between(i, k)') >= MaxEntries
  <2>1. i \in 1..L /\ consumed'[i] = consumed[i] /\ Accepted(i)
    BY <1>3, <1>4 DEF Accepted
  <2>2. /\ Between(i, L + 1)' = AcceptedAfter(i)
        /\ \A m \in 1..L : Between(i, m)' = Between(i, m)
    BY <1>1, <1>2, <2>1, AfterGrows
  <2>3. CASE k = L + 1
    <3>1. r.ok /\ r.id = consumed[i].id
      BY <1>3, <1>4, <2>1, <2>3 DEF Accepted
    <3>2. Overdue(i) \/ Cardinality(AcceptedAfter(i)) >= MaxEntries \/ Held(i)
      BY <1>3, <2>1 DEF GuardsIInv, HeldInv
    <3>3. CASE Overdue(i)
      BY <1>2, <1>3, <2>1, <2>3, <3>3 DEF Overdue
    <3>4. CASE Cardinality(AcceptedAfter(i)) >= MaxEntries
      BY <2>2, <2>3, <3>4
    <3>5. CASE Held(i)
      <4>1. PICK p \in 1..Len(seen) :
               seen[p] = [id |-> consumed[i].id, expires |-> consumed[i].expires]
        BY <1>1, <3>5 DEF Held
      <4>2. p <= n
        <5>1. \A x \in (n + 1)..Len(seen) : seen[x].id # r.id
          BY <3>1 DEF Consumes
        <5>2. QED
          BY <1>1, <3>1, <4>1, <5>1
      <4>3. consumed[i].expires <= r.now
        <5>1. \A x \in 1..n : seen[x].expires <= r.now
          BY DEF Consumes
        <5>2. QED
          BY <4>1, <4>2, <5>1
      <4>4. QED
        BY <1>3, <2>1, <2>3, <4>3
    <3>6. QED
      BY <3>2, <3>3, <3>4, <3>5
  <2>4. CASE k # L + 1
    <3>1. k \in 1..L /\ consumed'[k] = consumed[k] /\ Accepted(k)
      BY <1>3, <1>4, <2>4 DEF Accepted
    <3>2. \/ \E m \in (i + 1)..k : consumed[i].expires <= consumed[m].now
          \/ Cardinality(Between(i, k)) >= MaxEntries
      BY <1>3, <1>4, <2>1, <3>1 DEF GuardsIInv, ForgottenOnlyWhenPushedOut
    <3>3. QED
      BY <1>3, <2>1, <2>2, <3>1, <3>2
  <2>5. QED
    BY <2>3, <2>4
<1>5. QED
  BY <1>3, <1>4 DEF ForgottenOnlyWhenPushedOut

\* ReplayGuard.consume keeps the invariant; in particular the deque never holds an id
\* twice nor more than max_entries of them.
LEMMA ConsumeKeeps == ASSUME GuardsIInv, NEW c \in GuardCalls, ConsumeId(c) PROVE GuardsIInv'
<1> USE GuardsAssumption
<1>1. PICK n \in 0..Len(seen), r \in ConsumedType, d \in {0, 1} : Consumes(c, n, r, d)
  BY ConsumeFacts
<1>2. /\ seen \in Seq(Entries) /\ Len(seen) \in Nat /\ consumed \in Seq(ConsumedType)
      /\ \A i, k \in DOMAIN seen : seen[i].id = seen[k].id => i = k
  BY DEF GuardsIInv, PGTypeOK, ConsumedType
<1>3. /\ seen' \in Seq(Entries) /\ Len(seen') <= MaxEntries /\ n + d <= Len(seen)
      /\ \A p \in 1..(Len(seen) - n - d) : seen'[p] = seen[p + n + d]
      /\ r.ok => /\ Len(seen') = Len(seen) - n - d + 1
                 /\ seen'[Len(seen')].id = r.id
                 /\ \A p \in (n + 1)..Len(seen) : seen[p].id # r.id
      /\ ~r.ok => Len(seen') = Len(seen) - n - d
  BY <1>1, <1>2 DEF Consumes
<1>4. /\ gcall' \in [GuardCalls -> CallType] /\ gcall'[c].win = gcall[c].win
      /\ gcall'[c].pc \in {"allowed", "denied"}
      /\ \A b \in GuardCalls : b # c => gcall'[b] = gcall[b]
      /\ consumed' = Append(consumed, r)
  BY <1>1 DEF Consumes
<1>5. window' = window /\ gclock' = gclock
  BY DEF ConsumeId
<1>6. consumed' \in Seq(ConsumedType)
  BY <1>2, <1>4
<1>7. PICK M \in Nat : M = Len(seen) - n - d
  BY <1>2, <1>3
<1>8. ASSUME NEW p \in 1..M, NEW s \in 1..M, seen'[p].id = seen'[s].id PROVE p = s
  <2>1. /\ p + n + d \in DOMAIN seen /\ s + n + d \in DOMAIN seen
        /\ seen'[p] = seen[p + n + d] /\ seen'[s] = seen[s + n + d]
    BY <1>2, <1>3, <1>7
  <2>2. p + n + d = s + n + d
    BY <1>2, <1>8, <2>1
  <2>3. QED
    BY <2>2
<1>9. ASSUME r.ok, NEW p \in 1..M PROVE seen'[p].id # seen'[Len(seen')].id
  <2>1. p + n + d \in (n + 1)..Len(seen) /\ seen'[p] = seen[p + n + d]
    BY <1>2, <1>3, <1>7
  <2>2. QED
    BY <1>3, <1>9, <2>1
<1>10. ASSUME NEW p \in DOMAIN seen', NEW s \in DOMAIN seen', seen'[p].id = seen'[s].id
       PROVE  p = s
  <2>1. CASE r.ok
    <3>1. DOMAIN seen' = 1..(M + 1) /\ Len(seen') = M + 1
      BY <1>3, <1>7, <2>1
    <3>2. QED
      BY <1>8, <1>9, <1>10, <2>1, <3>1
  <2>2. CASE ~r.ok
    <3>1. DOMAIN seen' = 1..M
      BY <1>3, <1>7, <2>2
    <3>2. QED
      BY <1>8, <1>10, <3>1
  <2>3. QED
    BY <2>1, <2>2
<1>11. PGTypeOK'
  BY <1>3, <1>4, <1>5, <1>6, <1>10 DEF GuardsIInv, PGTypeOK, CallType, ConsumedType
<1>12. RowInv'
  BY <1>4, <1>5 DEF GuardsIInv, RowInv
<1>13. \A b \in GuardCalls : gcall'[b].win = gcall[b].win
  BY <1>4
<1>14. AllowanceInv'
  BY <1>5, <1>13, AllowanceKept
<1>15. HeldInv' /\ ForgottenOnlyWhenPushedOut'
  BY <1>1, ConsumeKeepsHeld, ConsumeKeepsForgotten
<1>16. QED
  BY <1>11, <1>12, <1>14, <1>15 DEF GuardsIInv

\* Fresh guards and calls satisfy the invariant.
LEMMA InitGuards == ASSUME PGInit PROVE GuardsIInv
<1> USE GuardsAssumption
<1>1. gcall \in [GuardCalls -> CallType] /\ \A c \in GuardCalls : gcall[c].win = -1
  <2>1. \A i \in GuardIds, u \in GuardUntil :
           /\ [pc |-> "start", id |-> i, until |-> u, now |-> 0, win |-> -1] \in CallType
           /\ [pc |-> "start", id |-> i, until |-> u, now |-> 0, win |-> -1].win = -1
    BY DEF CallType
  <2>2. ASSUME NEW c \in GuardCalls PROVE gcall[c] \in CallType /\ gcall[c].win = -1
    <3>1. PICK i \in GuardIds, u \in GuardUntil :
             gcall[c] = [pc |-> "start", id |-> i, until |-> u, now |-> 0, win |-> -1]
      BY DEF PGInit
    <3>2. QED
      BY <2>1, <3>1
  <2>3. gcall = [c \in GuardCalls |-> gcall[c]]
    BY DEF PGInit
  <2>4. QED
    BY <2>2, <2>3
<1>2. PGTypeOK
  BY <1>1 DEF PGInit, PGTypeOK, CallType
<1>3. RowInv
  BY <1>1 DEF PGInit, RowInv
<1>4. ASSUME NEW w \in 0..GuardMaxClock
      PROVE  InWindow(w) = {} /\ IsFiniteSet(InWindow(w)) /\ Cardinality(InWindow(w)) = 0
  <2>1. InWindow(w) = {}
    BY <1>1 DEF InWindow
  <2>2. QED
    BY <2>1, FS_EmptySet
<1>5. AllowanceInv
  BY <1>4 DEF AllowanceInv
<1>6. HeldInv /\ ForgottenOnlyWhenPushedOut
  BY DEF PGInit, HeldInv, ForgottenOnlyWhenPushedOut
<1>7. QED
  BY <1>2, <1>3, <1>5, <1>6 DEF GuardsIInv

\* Every step of a call and of time preserves it.
LEMMA NextGuards == GuardsIInv /\ [PGNext]_pgVars => GuardsIInv'
<1> SUFFICES ASSUME GuardsIInv, [PGNext]_pgVars PROVE GuardsIInv'
  OBVIOUS
<1>1. CASE TickGuards \/ UNCHANGED pgVars
  <2>1. /\ seen' = seen /\ window' = window /\ gcall' = gcall /\ consumed' = consumed
        /\ gclock' \in 0..GuardMaxClock
    BY <1>1, GuardsAssumption DEF TickGuards, pgVars, GuardsIInv, PGTypeOK
  <2>2. PGTypeOK' /\ RowInv'
    BY <2>1 DEF GuardsIInv, PGTypeOK, RowInv
  <2>4. AllowanceInv'
    BY <2>1, AllowanceKept
  <2>5. HeldInv' /\ ForgottenOnlyWhenPushedOut'
    BY <2>1, HistoryKept
  <2>6. QED
    BY <2>2, <2>4, <2>5 DEF GuardsIInv
<1>2. QED
  BY <1>1, StartKeeps, LimitKeeps, ConsumeKeeps DEF PGNext

\* The invariant of the guards holds throughout.
THEOREM GuardsInvariant == PGSpec => []GuardsIInv
<1>1. PGInit => GuardsIInv
  BY InitGuards
<1>2. QED
  BY <1>1, NextGuards, PTL DEF PGSpec

\* The deque and the table of the guards keep their types: no id is held twice and
\* never more than max_entries.
THEOREM GuardsTypeCorrect == PGSpec => []PGTypeOK
<1>1. GuardsIInv => PGTypeOK
  BY DEF GuardsIInv
<1>2. QED
  BY <1>1, GuardsInvariant, PTL

\* In whatever order clock reads and calls reach ReplayGuard.consume, a request_id is
\* accepted again only after it had expired for some call or max_entries others were
\* accepted since.
THEOREM IdsForgottenWhenPushedOut == PGSpec => []ForgottenOnlyWhenPushedOut
<1>1. GuardsIInv => ForgottenOnlyWhenPushedOut
  BY DEF GuardsIInv
<1>2. QED
  BY <1>1, GuardsInvariant, PTL

\* FixedWindowRateLimiter.consume admits at most max_requests calls per window and
\* starts no window before the last one is over.
THEOREM WindowsKeepAllowance == PGSpec => []WindowAllowance
<1>1. GuardsIInv => WindowAllowance
  BY DEF GuardsIInv, AllowanceInv, WindowAllowance
<1>2. QED
  BY <1>1, GuardsInvariant, PTL
=============================================================================
