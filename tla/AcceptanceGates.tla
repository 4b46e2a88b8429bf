-------------------------- MODULE AcceptanceGates --------------------------
(***************************************************************************)
(* The promotion chain: signed evidence (pmiri/deployment_evidence.py,     *)
(* scripts/build_signed_evidence.py), the readiness report                 *)
(* (pmiri/readiness.py), the final acceptance gate                         *)
(* (pmiri/final_acceptance.py), the review package                         *)
(* (pmiri/review_package.py) and the closure verifier                      *)
(* (scripts/verify_deployment_closure.py).                                 *)
(*                                                                         *)
(* Each is a command that reads several files one after the other while    *)
(* operators edit the profile, the authority bundle and the local          *)
(* artifacts.  No command takes a lock, so runs of the same command        *)
(* overlap (Evaluators, Acceptors), and each run is given its own profile  *)
(* and evidence by its arguments.  The commands are run again and again;   *)
(* the verdict of a closure run that a property is about is kept:          *)
(*                                                                         *)
(*   readiness:  idle -> authority -> evidence -> local -> flush           *)
(*   closure:    idle -> authority -> evidence -> local -> verify          *)
(*   final:      idle -> evidence -> flush                                 *)
(*   package:    idle -> final -> validate -> reread -> refinal            *)
(*                                             -> revalidate -> inventory  *)
(*                                                                         *)
(* A fingerprint is the value it is taken of, so a report's fingerprint is *)
(* the report, captured_at included.  A signature that verifies is the     *)
(* flag genuine: the trusted key, a distinct reviewer, every assertion.    *)
(* A report with verified external evidence names the bundle, whose        *)
(* observations tell it from another for the same profile and authority;   *)
(* the reason of a rejection is left out, so two of them are alike.        *)
(* The thirteen LOC checks are one Boolean and so are the six EXT checks,  *)
(* which verify_external_evidence grants together or not at all.           *)
(***************************************************************************)
EXTENDS Integers, FiniteSets

CONSTANTS
    Profiles,     \* deployment profiles that validate_profile accepts
    Default,      \* the one of a readiness run that is given none
    Authorities,  \* states of the documentation bundle
    Observations, \* what a bundle of external evidence says was seen
    Evaluators,   \* readiness commands that may run at the same time
    Acceptors,    \* final-acceptance commands that may run at the same time
    MaxBusy,      \* bound: commands in progress at the same time
    MaxBundles,   \* bound: evidence files
    MaxChanges    \* bound: edits from outside, and seconds that pass

Evaluations == Evaluators \cup {"closure"}
Commands == Evaluations \cup Acceptors \cup {"package"}

ASSUME GatesAssumption ==
    /\ Evaluations \cap (Acceptors \cup {"package"}) = {}
    /\ "closure" \notin Evaluators /\ "package" \notin Acceptors
    /\ Default \in Profiles /\ Authorities # {} /\ "invalid" \notin Profiles
    /\ MaxBusy \in Nat /\ MaxBundles \in Nat /\ MaxChanges \in Nat

VARIABLES
    profile, authority, localOk,  \* what the checks look at
    bundles,                      \* the evidence files a run may be given
    rd, fin,                      \* the readiness report and the final report
    job, clock, changes,
    turns                         \* history: reports put at rd since a package was begun

inputs == <<profile, authority, localOk, bundles>>
report == <<rd, turns>>
vars == <<inputs, report, fin, job, clock, changes>>

NoFile == [kind |-> "none"]
Torn == [kind |-> "torn"]
Rejected == [kind |-> "rejected"]

\* Bound of turns: another report and the first again, twice.
MaxTurns == 4

ReadinessReport(p, a, t, l, e, r) ==
    [kind |-> "readiness", prof |-> p, auth |-> a, at |-> t, local |-> l, ext |-> e, root |-> r]
ExternalEvidence(p, a, o, g) ==
    [kind |-> "external", prof |-> p, auth |-> a, seen |-> o, genuine |-> g]
FinalEvidence(p, a, r, g) == [kind |-> "assertions", prof |-> p, auth |-> a, rd |-> r, genuine |-> g]
FinalReport(r, e, ok, root) == [kind |-> "final", rd |-> r, verified |-> e, ready |-> ok, root |-> root]

\* ext is what the EXT checks say: no evidence given, rejected, or the bundle.
\* default: captured_at was left to the command.  closed is history of a closure
\* run: the gates were ready when it began (fin) and were still whenever it looked;
\* it is kept to the end of a run that is given the evidence they were ready by.
Idle == [pc |-> "idle", prof |-> "none", auth |-> "none", at |-> 0, ext |-> NoFile,
         rd |-> NoFile, fin |-> NoFile, verified |-> FALSE,
         default |-> FALSE, closed |-> FALSE, res |-> "none"]

Init ==
    /\ profile \in Profiles /\ authority \in Authorities /\ localOk = TRUE
    /\ bundles = {}
    /\ rd = NoFile /\ fin = NoFile
    /\ job = [c \in Commands |-> Idle]
    /\ clock = 0 /\ changes = 0 /\ turns = 0

---------------------------------------------------------------------------
(* Verdicts                                                                *)

\* verify_external_evidence
VerifyExternal(ev, p, a) ==
    /\ ev.kind = "external"
    /\ ev.genuine
    /\ ev.prof = p /\ ev.auth = a

\* Defect for mutation: the bundle is not compared with the readiness report.
VerifyFinal_AnyReadiness(ev, r) ==
    /\ ev.kind = "assertions"
    /\ ev.genuine
    /\ ev.prof = r.prof /\ ev.auth = r.auth

\* verify_final_acceptance_evidence
VerifyFinal(ev, r) ==
    /\ ev.kind = "assertions"
    /\ ev.genuine
    /\ ev.prof = r.prof /\ ev.auth = r.auth /\ ev.rd = r

DeploymentReady(r) == r.local /\ r.ext.kind = "external"

\* validate_readiness_report looks at the shape and the report's own fingerprint;
\* build_final_acceptance_report and its validation also at the project root.
ValidReadiness(r) == r.kind = "readiness"

UsableReadiness(r) == ValidReadiness(r) /\ r.root = "here"

LocalFinal(f) == f.kind = "final" /\ f.root = "here"

\* validate_final_acceptance_report with a project root, whose readiness report
\* is r: its fingerprint is bound, and profile and authority with it.
ValidFinal(f, r) ==
    /\ LocalFinal(f)
    /\ UsableReadiness(r)
    /\ f.rd = r

\* The evidence a run is given by its arguments: none, or a file at any path.
Given == {NoFile} \cup bundles

---------------------------------------------------------------------------
(* The profile, the documentation, the artifacts and the evidence          *)

\* A run leaves a readiness report, or text that is none (write_readiness).
Put(r) ==
    /\ rd' = r
    /\ turns' = IF ValidReadiness(r) /\ job["package"].pc # "idle" /\ turns < MaxTurns
                THEN turns + 1 ELSE turns

Tick ==
    /\ changes < MaxChanges
    /\ changes' = changes + 1
    /\ clock' = clock + 1
    /\ UNCHANGED <<inputs, report, fin, job>>

\* Files change under the commands: the profile, the authority bundle, an artifact
\* or a database the LOC checks look at.
Edit ==
    /\ changes < MaxChanges
    /\ changes' = changes + 1
    /\ \/ /\ profile' \in (Profiles \cup {"invalid"}) \ {profile}
          /\ UNCHANGED <<authority, localOk>>
       \/ /\ authority' \in Authorities \ {authority}
          /\ UNCHANGED <<profile, localOk>>
       \/ /\ localOk' = ~ localOk
          /\ UNCHANGED <<profile, authority>>
    /\ UNCHANGED <<bundles, report, fin, job, clock>>

\* A bundle is written to a file of its own.
Supply(b) ==
    /\ Cardinality(bundles) < MaxBundles
    /\ bundles' = bundles \cup {b}

\* Evidence that does not verify: unsigned, tampered, wrong key, own reviewer.
SupplyBadEvidence ==
    /\ changes < MaxChanges
    /\ changes' = changes + 1
    /\ profile \in Profiles
    /\ \/ \E o \in Observations : Supply(ExternalEvidence(profile, authority, o, FALSE))
       \/ /\ ValidReadiness(rd)
          /\ Supply(FinalEvidence(rd.prof, rd.auth, rd, FALSE))
    /\ UNCHANGED <<profile, authority, localOk, report, fin, job, clock>>

\* Reports copied from a workspace where everything was ready.
CopyReports ==
    /\ changes < MaxChanges
    /\ changes' = changes + 1
    /\ profile \in Profiles
    /\ \E o \in Observations :
         Put(ReadinessReport(profile, authority, clock, TRUE,
                             ExternalEvidence(profile, authority, o, TRUE), "elsewhere"))
    /\ fin' = FinalReport(rd', TRUE, TRUE, "elsewhere")
    /\ UNCHANGED <<inputs, job, clock>>

\* build_external_evidence
SignExternal ==
    /\ profile \in Profiles
    /\ \E o \in Observations : Supply(ExternalEvidence(profile, authority, o, TRUE))
    /\ UNCHANGED <<profile, authority, localOk, report, fin, job, clock, changes>>

\* build_final_acceptance_evidence: only for a ready report of this workspace and
\* this profile; the authority is fingerprinted again, not taken from the report.
SignFinal ==
    /\ UsableReadiness(rd) /\ DeploymentReady(rd)
    /\ rd.prof = profile
    /\ Supply(FinalEvidence(profile, authority, rd, TRUE))
    /\ UNCHANGED <<profile, authority, localOk, report, fin, job, clock, changes>>

---------------------------------------------------------------------------
(* run_deployment_readiness, called by the readiness command and by the    *)
(* closure verifier                                                        *)

\* Every gate is ready: both reports, and what they speak of.
GatesReady ==
    /\ ValidFinal(fin, rd) /\ fin.ready
    /\ rd.prof = profile /\ rd.auth = authority /\ localOk

\* Once a gate has not been ready the history of a closure run is dropped.
History(j) ==
    IF j.closed /\ ~ (GatesReady /\ fin = j.fin)
    THEN [j EXCEPT !.closed = FALSE, !.default = FALSE, !.fin = NoFile] ELSE j

Become(c, j) == job' = [job EXCEPT ![c] = History(j)]

\* A command is started.
Start(c) ==
    /\ job[c].pc = "idle"
    /\ Cardinality({d \in Commands : job[d].pc \notin {"idle", "done"}}) < MaxBusy

\* load_profile, or the default profile of a readiness run that is given none, and
\* captured_at; the closure verifier may be given one.
BeginReadiness(c) ==
    /\ Start(c)
    /\ \E p \in Profiles \cap (IF c = "closure" THEN {profile} ELSE {profile, Default}),
          t \in IF c = "closure" THEN 0..clock ELSE {clock} :
         Become(c, [Idle EXCEPT !.pc = "authority", !.prof = p, !.at = t,
                                !.default = (c = "closure" /\ t = clock),
                                !.closed = (c = "closure"),
                                !.fin = IF c = "closure" THEN fin ELSE NoFile])
    /\ UNCHANGED <<inputs, report, fin, clock, changes>>

ReadAuthority(c) ==
    /\ job[c].pc = "authority"
    /\ Become(c, [job[c] EXCEPT !.pc = "evidence", !.auth = authority])
    /\ UNCHANGED <<inputs, report, fin, clock, changes>>

ReadExternal(c) ==
    /\ job[c].pc = "evidence" /\ c \in Evaluations
    /\ \E ev \in Given :
         Become(c, [job[c] EXCEPT !.pc = "local",
                    !.ext = IF ev = NoFile \/ VerifyExternal(ev, job[c].prof, job[c].auth)
                            THEN ev ELSE Rejected])
    /\ UNCHANGED <<inputs, report, fin, clock, changes>>

\* The candidate artifacts, the handler manifest, the databases and the network
\* default: every LOC check is READY.
LocalChecks == localOk

Evaluated(c, t) ==
    ReadinessReport(job[c].prof, job[c].auth, t, LocalChecks, job[c].ext, "here")

\* The local checks come last; then write_readiness truncates the file, and the
\* closure verifier goes on.
Assemble(c, r) ==
    /\ job[c].pc = "local"
    /\ \/ c \in Evaluators /\ Put(Torn) /\ Become(c, [Idle EXCEPT !.pc = "flush", !.rd = r])
       \/ c = "closure" /\ UNCHANGED report /\ Become(c, [job[c] EXCEPT !.pc = "verify", !.rd = r])
    /\ UNCHANGED <<inputs, fin, clock, changes>>

ReadLocal(c) == Assemble(c, Evaluated(c, job[c].at))

\* The text is there, or torn: the run was killed, or the end of another run's
\* longer text is left behind it.
FlushReadiness(c) ==
    /\ job[c].pc = "flush"
    /\ Put(job[c].rd) \/ Put(Torn)
    /\ Become(c, Idle)
    /\ UNCHANGED <<inputs, fin, clock, changes>>

---------------------------------------------------------------------------
(* verify_deployment_closure                                               *)

VerifyClosure ==
    /\ job["closure"].pc = "verify"
    /\ \E ev \in Given : LET j == job["closure"] IN
         IF DeploymentReady(j.rd) /\ VerifyFinal(ev, j.rd)
         THEN Become("closure", [Idle EXCEPT !.pc = "done", !.res = "ready", !.rd = j.rd])
         ELSE Become("closure", IF History(j).closed /\ j.ext = rd.ext /\ VerifyFinal(ev, rd)
                                THEN [j EXCEPT !.pc = "done", !.res = "blocked"] ELSE Idle)
    /\ UNCHANGED <<inputs, report, fin, clock, changes>>

---------------------------------------------------------------------------
(* build_final_acceptance_report                                           *)

\* A missing, torn or foreign report leaves nothing to bind.
BeginFinal(c) ==
    /\ Start(c)
    /\ Become(c, [Idle EXCEPT !.pc = "evidence",
                              !.rd = IF UsableReadiness(rd) THEN rd ELSE NoFile])
    /\ UNCHANGED <<inputs, report, fin, clock, changes>>

\* The bundle is verified and write_final_acceptance_report truncates the file.
CheckFinalEvidence(c) ==
    /\ job[c].pc = "evidence"
    /\ LET j == job[c] IN
         \E ev \in Given :
           Become(c, [j EXCEPT !.pc = "flush", !.verified = j.rd # NoFile /\ VerifyFinal(ev, j.rd)])
    /\ fin' = Torn
    /\ UNCHANGED <<inputs, report, clock, changes>>

\* FA-01 from the readiness report, FA-02 to FA-06 from the bundle.
FlushFinal(c) ==
    /\ job[c].pc = "flush"
    /\ LET j == job[c] IN
         \/ fin' = FinalReport(j.rd, j.verified,
                               j.rd # NoFile /\ DeploymentReady(j.rd) /\ j.verified, "here")
         \/ fin' = Torn
    /\ Become(c, Idle)
    /\ UNCHANGED <<inputs, report, clock, changes>>

---------------------------------------------------------------------------
(* build_review_package, write_review_package, validate_review_package     *)

\* The package was accepted or refused, and the command can be run again.
EndPackage(r) == Become("package", [Idle EXCEPT !.res = r]) /\ turns' = 0

Refuse == EndPackage("none")

GoOn(j) == Become("package", j) /\ UNCHANGED turns

ReadReadinessForPackage ==
    /\ Start("package")
    /\ ValidReadiness(rd)
    /\ Become("package", [Idle EXCEPT !.pc = "final", !.rd = rd])
    /\ UNCHANGED <<inputs, report, fin, clock, changes>>

\* A torn or foreign final report, or one that binds no readiness report, is refused
\* whatever is read next.
ReadFinalForPackage ==
    /\ job["package"].pc = "final"
    /\ IF LocalFinal(fin) /\ fin.rd # NoFile
       THEN GoOn([job["package"] EXCEPT !.pc = "validate", !.fin = fin])
       ELSE Refuse
    /\ UNCHANGED <<inputs, rd, fin, clock, changes>>

\* Defect for mutation: the final report is validated without the project root,
\* so only by itself.
ValidateForPackage_Alone ==
    /\ job["package"].pc \in {"validate", "revalidate"}
    /\ LET j == job["package"] IN
         IF j.fin.kind = "final"
         THEN GoOn([j EXCEPT !.pc = IF @ = "validate" THEN "reread" ELSE "inventory"])
         ELSE Refuse
    /\ UNCHANGED <<inputs, rd, fin, clock, changes>>

\* The final report is validated against the readiness report of this moment.
ValidateForPackage ==
    /\ job["package"].pc \in {"validate", "revalidate"}
    /\ LET j == job["package"] IN
         IF ValidFinal(j.fin, rd)
         THEN GoOn([j EXCEPT !.pc = IF @ = "validate" THEN "reread" ELSE "inventory"])
         ELSE Refuse
    /\ UNCHANGED <<inputs, rd, fin, clock, changes>>

\* The package is validated by building it again and comparing.
RereadForPackage ==
    /\ job["package"].pc \in {"reread", "refinal"}
    /\ LET j == job["package"] IN
         IF j.pc = "reread"
         THEN IF rd = j.rd THEN GoOn([j EXCEPT !.pc = "refinal"])
                           ELSE Refuse
         ELSE IF fin = j.fin THEN GoOn([j EXCEPT !.pc = "revalidate"])
                             ELSE Refuse
    /\ UNCHANGED <<inputs, rd, fin, clock, changes>>

\* The evidence inventory: the bytes of every report once more.
CheckInventory ==
    /\ job["package"].pc = "inventory"
    /\ IF rd = job["package"].rd /\ fin = job["package"].fin
       THEN EndPackage("accepted") ELSE Refuse
    /\ UNCHANGED <<inputs, rd, fin, clock, changes>>

---------------------------------------------------------------------------

Next ==
    \/ Tick \/ Edit \/ SupplyBadEvidence \/ CopyReports \/ SignExternal \/ SignFinal
    \/ \E c \in Evaluations : BeginReadiness(c) \/ ReadAuthority(c) \/ ReadExternal(c) \/ ReadLocal(c)
    \/ \E c \in Evaluators : FlushReadiness(c)
    \/ VerifyClosure
    \/ \E c \in Acceptors : BeginFinal(c) \/ CheckFinalEvidence(c) \/ FlushFinal(c)
    \/ ReadReadinessForPackage \/ ReadFinalForPackage \/ ValidateForPackage
    \/ RereadForPackage \/ CheckInventory

Spec == Init /\ [][Next]_vars

---------------------------------------------------------------------------
(* Properties                                                              *)

\* What promotion rests on: a ready report, and both bundles signed for exactly
\* its profile, its authority bundle and itself; the first is the one it names.
Justified(r) ==
    /\ DeploymentReady(r)
    /\ r.ext \in bundles /\ r.ext.genuine /\ r.ext.prof = r.prof /\ r.ext.auth = r.auth
    /\ FinalEvidence(r.prof, r.auth, r, TRUE) \in bundles

\* "readiness alone must never be interpreted as D2/R-FC acceptance": a final report
\* that says ready and validates now, and a closure run that says ready, rest on
\* signatures for that very readiness report, whatever was edited, copied, torn or
\* replaced while the commands read their files one by one (final_acceptance.py,
\* deployment_evidence.py, verify_deployment_closure.py).
ReadyIsSigned ==
    /\ ValidFinal(fin, rd) /\ fin.ready => Justified(rd)
    /\ job["closure"].res = "ready" => Justified(job["closure"].rd)

\* The review package reads the readiness report before it reads the final report,
\* validates the latter against a third read, then does it all again to compare and
\* takes the bytes once more.  Readiness runs overwrite the report meanwhile, and may
\* put an earlier one back: a package that combines reports of different evaluations
\* is accepted only if the report gave way to another and came back, and then did so
\* once more, in step with the looks (review_package.py).
MixedPackageNeedsReturns ==
    [][job["package"].pc = "inventory" /\ job'["package"].res = "accepted"
         => ValidFinal(job["package"].fin, job["package"].rd) \/ turns = MaxTurns]_vars

\* "It exits non-zero and reports the exact blocked checks until every gate is
\* ready": the verifier called without --captured-at, as the runbook and the
\* checklist call it, reports the closure once every gate is ready.
ClosureFollowsGates ==
    LET j == job["closure"] IN
      j.res = "blocked" /\ j.default => ~ j.closed

===========================================================================
