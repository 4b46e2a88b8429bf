--------------------------- MODULE CaseLauncher ---------------------------
(***************************************************************************)
(* The GC-C1 launcher (pmiri/gc_c1_launcher.py, launch_pinned_runner) with *)
(* the isolation attestation it demands (pmiri/attestation.py,             *)
(* pmiri/clean_room.py).                                                   *)
(*                                                                         *)
(* A launch checks, prepares a fresh case root, starts the runner, puts it *)
(* in a Windows job, waits for it, tears it down, seals what it wrote and  *)
(* copies the evidence to a destination.  The runner, a child it may have  *)
(* started, the producer of the attestation and other launches act between *)
(* any two steps:                                                          *)
(*                                                                         *)
(*   check -> prepare -> spawn -> assign -> poll -> terminate -> wait      *)
(*         -> close -> inspect -> outputs -> seal -> verify -> persist     *)
(*         -> cleanup -> returned        (except, exceptWait on an error)  *)
(*                                                                         *)
(* Only the order of the outputs' contents matters: `out' counts writes.   *)
(* Time appears as `late': the wall-time deadline has passed.              *)
(***************************************************************************)
EXTENDS Integers, FiniteSets, Sequences

CONSTANTS
    Launches,      \* calls of launch_pinned_runner
    Domains,       \* DOMAINS of clean_room.py, in order
    Expected,      \* EXPECTED: the result each domain must have
    Attestations,  \* attestation files the producer may write
    NoAttestation, \* none has been checked
    NoLaunch,      \* nobody: the owner of an absent artifact
    MaxWrites,     \* bound: writes of one case's processes to its outputs
    MaxReplaced    \* bound: how often the attestation file is replaced

VARIABLES attFile, replaced, run, dest, overlap

clVars == <<attFile, replaced, run, dest, overlap>>

Results == {"VERIFIED", "DENIED", "ALLOWLIST_VERIFIED", "AVAILABLE", "UNVERIFIED",
            "FAILED"}
DomainSet == {Domains[i] : i \in DOMAIN Domains}

ASSUME LauncherAssumption ==
    /\ Expected \in [DomainSet -> Results \ {"UNVERIFIED", "FAILED"}]
    /\ NoLaunch \notin Launches
    /\ MaxWrites \in Nat /\ MaxReplaced \in Nat

---------------------------------------------------------------------------
(* clean_room.py and attestation.py                                        *)

\* verify_attestation: every domain must have been observed; then the first that is
\* not as expected decides.
VerifyAttestation(obs) ==
    LET odd == {i \in DOMAIN Domains : obs[Domains[i]] # Expected[Domains[i]]}
        first == CHOOSE i \in odd : \A k \in odd : i <= k
    IN  IF DOMAIN obs # DomainSet THEN "BLOCKED"
        ELSE IF odd = {} THEN "READY_FOR_REPLAY"
        ELSE IF obs[Domains[first]] \in {"FAILED", "UNVERIFIED"}
             THEN "ISOLATION_VIOLATION" ELSE "BLOCKED"

\* The status and outcome that observations and a root policy give.
Outcome(obs, policy) ==
    LET outcome == VerifyAttestation(obs)
    IN  IF outcome = "READY_FOR_REPLAY" /\ policy # "FRESH_CASE_ROOT"
        THEN "BLOCKED" ELSE outcome
Status(outcome) ==
    CASE outcome = "READY_FOR_REPLAY" -> "VERIFIED"
      [] outcome = "ISOLATION_VIOLATION" -> "FAILED"
      [] OTHER -> "UNVERIFIED"

\* create_attestation; `digest' tells whether attestation_sha256 is the digest of
\* the rest of the record, `case' whether the case and launcher are this launch's.
CreateAttestation(obs, policy) ==
    LET outcome == Outcome(obs, policy)
    IN  [obs |-> obs, policy |-> policy, outcome |-> outcome,
         status |-> Status(outcome), case |-> TRUE, digest |-> TRUE]

\* load_attestation accepts the file: the digest is right, no domain is
\* missing, and the status and outcome are what the observations give.
LoadAttestation(a) ==
    LET outcome == Outcome(a.obs, a.policy)
    IN  /\ a.digest /\ DOMAIN a.obs = DomainSet
        /\ a.outcome = outcome /\ a.status = Status(outcome)

---------------------------------------------------------------------------
(* State                                                                   *)

NoCode == -1

\* runner, child: the processes of the case.  inJob: the runner was assigned to
\* the job (`started' in the code).  code: the runner's exit code (0 or not);
\* returncode: the launcher's variable.  stdout, sealed: the outputs as read, and
\* as hashed into the manifest.  keep, saved: a destination was given, and the
\* artifacts written to it.  History: att, the attestation checked; killed.
NewLaunch ==
    [pc |-> "check", att |-> NoAttestation, runner |-> "none", child |-> "none",
     inJob |-> FALSE, code |-> NoCode, killed |-> FALSE, late |-> FALSE,
     returncode |-> NoCode, out |-> 0, stdout |-> NoCode, sealed |-> NoCode,
     keep |-> FALSE, saved |-> 0, result |-> "none"]

\* The artifacts of the destination, in the order they are written.
Files == <<"launch-record", "stdout", "sealed">>
FileSet == {Files[i] : i \in DOMAIN Files}
NoArtifact == [by |-> NoLaunch, out |-> NoCode]

CLInit ==
    /\ attFile \in Attestations
    /\ replaced = 0
    /\ run = [l \in Launches |-> NewLaunch]
    /\ dest = [f \in FileSet |-> NoArtifact]
    /\ overlap = {}

At(l, label) == run[l].pc = label
Become(l, r) == run' = [run EXCEPT ![l] = r]
Returns(l, status) == [run[l] EXCEPT !.pc = "cleanup", !.result = status]
Ended(l) == run[l].runner = "ended"

---------------------------------------------------------------------------
(* The checks and the case root                                            *)

\* _safe_persist_dir: the destination is new or empty.
SafePersistDir == \A f \in FileSet : dest[f] = NoArtifact

Underway(k) == run[k].pc \notin {"check", "returned", "died"}

\* Everything up to the first except clause.  Fingerprints are computed from the
\* bytes that are materialised later; whether they are the supplied ones, and
\* whether identity, command and profile are valid, is the caller's input.
Check(l) ==
    /\ At(l, "check")
    /\ \E pinned, keep \in BOOLEAN :
          LET ok == /\ pinned /\ LoadAttestation(attFile) /\ attFile.case
                    /\ attFile.status = "VERIFIED" /\ (keep => SafePersistDir)
          IN  \/ /\ ok
                 /\ Become(l, [run[l] EXCEPT !.pc = "prepare", !.att = attFile,
                                          !.keep = keep])
                 /\ overlap' = overlap \cup
                       UNION {{<<k, l>>, <<l, k>>} : k \in {j \in Launches : Underway(j)}}
              \/ /\ ~ok
                 /\ Become(l, [run[l] EXCEPT !.pc = "returned", !.result = "BLOCKED"])
                 /\ UNCHANGED overlap
    /\ UNCHANGED <<attFile, replaced, dest>>

\* The directories, the attestation read again, inputs and provenance; an invalid
\* input or an OSError ends the launch.
Prepare(l) ==
    /\ At(l, "prepare")
    /\ \/ Become(l, [run[l] EXCEPT !.pc = "spawn"])
       \/ Become(l, Returns(l, "BLOCKED"))
    /\ UNCHANGED <<attFile, replaced, dest, overlap>>

---------------------------------------------------------------------------
(* The runner                                                              *)

\* _open_job and Popen; either may fail, and then no process exists.
Spawn(l) ==
    /\ At(l, "spawn")
    /\ \/ Become(l, [run[l] EXCEPT !.pc = "assign", !.runner = "alive"])
       \/ Become(l, Returns(l, "BLOCKED"))
    /\ UNCHANGED <<attFile, replaced, dest, overlap>>

\* job.assign; it fails on a process that has ended, and may fail on any.
Assign(l) ==
    /\ At(l, "assign")
    /\ \/ ~Ended(l) /\ Become(l, [run[l] EXCEPT !.pc = "poll", !.inJob = TRUE])
       \/ Become(l, [run[l] EXCEPT !.pc = "except"])
    /\ UNCHANGED <<attFile, replaced, dest, overlap>>

\* Defect for mutation: the loop has no deadline.
Poll_NoDeadline(l) ==
    /\ At(l, "poll") /\ Ended(l)
    /\ Become(l, [run[l] EXCEPT !.pc = "close", !.returncode = run[l].code])
    /\ UNCHANGED <<attFile, replaced, dest, overlap>>

\* The poll loop ends: the process did, or the deadline has passed.
Poll(l) ==
    /\ At(l, "poll")
    /\ \/ /\ Ended(l)
          /\ Become(l, [run[l] EXCEPT !.pc = "close", !.returncode = run[l].code])
       \/ /\ ~Ended(l) /\ run[l].late
          /\ Become(l, [run[l] EXCEPT !.pc = "terminate"])
    /\ UNCHANGED <<attFile, replaced, dest, overlap>>

\* TerminateJobObject reaches the processes of the job; its result is not looked
\* at, so it may also have done nothing.
Killed(r) == IF r.inJob /\ r.runner = "alive"
             THEN [r EXCEPT !.runner = "terminated", !.killed = TRUE] ELSE r

Terminate(l) ==
    /\ At(l, "terminate")
    /\ \E r \in {run[l], Killed(run[l])} : Become(l, [r EXCEPT !.pc = "wait"])
    /\ UNCHANGED <<attFile, replaced, dest, overlap>>

\* process.wait(timeout=5): its end, or TimeoutExpired.
Wait(l) ==
    /\ At(l, "wait")
    /\ \/ Ended(l) /\ Become(l, [run[l] EXCEPT !.pc = "close", !.returncode = run[l].code])
       \/ ~Ended(l) /\ Become(l, [run[l] EXCEPT !.pc = "except"])
    /\ UNCHANGED <<attFile, replaced, dest, overlap>>

\* The except clause: a live process is terminated through the job, whether or not
\* it is in it.
Except(l) ==
    /\ At(l, "except")
    /\ \/ /\ ~Ended(l)
          /\ \E r \in {run[l], Killed(run[l])} : Become(l, [r EXCEPT !.pc = "exceptWait"])
       \/ Ended(l) /\ Become(l, [run[l] EXCEPT !.pc = "close"])
    /\ UNCHANGED <<attFile, replaced, dest, overlap>>

\* Defect for mutation: the wait has no timeout.
ExceptWait_Forever(l) ==
    /\ At(l, "exceptWait") /\ Ended(l)
    /\ Become(l, [run[l] EXCEPT !.pc = "close"])
    /\ UNCHANGED <<attFile, replaced, dest, overlap>>

\* process.wait(timeout=5), whose TimeoutExpired is swallowed.
ExceptWait(l) ==
    /\ At(l, "exceptWait")
    /\ Become(l, [run[l] EXCEPT !.pc = "close"])
    /\ UNCHANGED <<attFile, replaced, dest, overlap>>

\* What closing the last handle of the job does to the runner: kill-on-close.
Closed(r) == IF r.inJob /\ r.runner = "alive"
             THEN [r EXCEPT !.runner = "closed", !.killed = TRUE] ELSE r

\* The finally clause; a launch that never started returns here.
CloseJob(l) ==
    /\ At(l, "close")
    /\ \/ run[l].inJob /\ Become(l, [Closed(run[l]) EXCEPT !.pc = "inspect"])
       \/ ~run[l].inJob /\ Become(l, Returns(l, "BLOCKED"))
    /\ UNCHANGED <<attFile, replaced, dest, overlap>>

---------------------------------------------------------------------------
(* Teardown inspection, seal and persistence                               *)

\* Defect for mutation: teardown_verified is not looked at.
Inspect_Skipped(l) ==
    /\ At(l, "inspect")
    /\ Become(l, [run[l] EXCEPT !.pc = "outputs"])
    /\ UNCHANGED <<attFile, replaced, dest, overlap>>

\* Defect for mutation: the exit code is taken from the process at this point.
Inspect_LateCode(l) ==
    /\ At(l, "inspect")
    /\ \/ Ended(l) /\ Become(l, [run[l] EXCEPT !.pc = "outputs", !.returncode = run[l].code])
       \/ ~Ended(l) /\ Become(l, Returns(l, "BLOCKED"))
    /\ UNCHANGED <<attFile, replaced, dest, overlap>>

\* teardown_verified.  The result for a live process is constructed with an
\* argument missing; the TypeError makes it BLOCKED, not ISOLATION_VIOLATION.
Inspect(l) ==
    /\ At(l, "inspect")
    /\ \/ Ended(l) /\ Become(l, [run[l] EXCEPT !.pc = "outputs"])
       \/ ~Ended(l) /\ Become(l, Returns(l, "BLOCKED"))
    /\ UNCHANGED <<attFile, replaced, dest, overlap>>

\* stdout and stderr are read, and the launch record is written with their hashes.
ReadOutputs(l) ==
    /\ At(l, "outputs")
    /\ Become(l, [run[l] EXCEPT !.pc = "seal", !.stdout = run[l].out])
    /\ UNCHANGED <<attFile, replaced, dest, overlap>>

\* seal_directory reads the files again.
Seal(l) ==
    /\ At(l, "seal")
    /\ Become(l, [run[l] EXCEPT !.pc = "verify", !.sealed = run[l].out])
    /\ UNCHANGED <<attFile, replaced, dest, overlap>>

\* verify_seal reads them once more.
VerifyLaunch(l) ==
    /\ At(l, "verify")
    /\ \/ run[l].out = run[l].sealed /\ Become(l, [run[l] EXCEPT !.pc = "persist"])
       \/ run[l].out # run[l].sealed /\ Become(l, Returns(l, "VALIDATION_ERROR"))
    /\ UNCHANGED <<attFile, replaced, dest, overlap>>

\* _persist_artifacts: one file after the other over whatever is there by now; the
\* first OSError ends it.
Persist(l) ==
    LET r == run[l]
        f == Files[r.saved + 1]
    IN  /\ At(l, "persist") /\ r.keep /\ r.saved < Len(Files)
        /\ \/ /\ dest' = [dest EXCEPT ![f] =
                   [by |-> l, out |-> IF f = "sealed" THEN r.sealed ELSE r.stdout]]
              /\ Become(l, [r EXCEPT !.saved = @ + 1])
           \/ UNCHANGED dest /\ Become(l, Returns(l, "BLOCKED"))
        /\ UNCHANGED <<attFile, replaced, overlap>>

\* RECORDED, or FAIL.
Conclude(l) ==
    /\ At(l, "persist")
    /\ run[l].keep => run[l].saved = Len(Files)
    /\ Become(l, Returns(l, IF run[l].returncode = 0 THEN "RECORDED" ELSE "FAIL"))
    /\ UNCHANGED <<attFile, replaced, dest, overlap>>

\* The temporary directory is removed.  While a process of the case lives it may
\* hold a file open; the OSError then replaces the result.
Cleanup(l) ==
    /\ At(l, "cleanup")
    /\ \/ Become(l, [run[l] EXCEPT !.pc = "returned"])
       \/ /\ run[l].runner \notin {"none", "ended"} \/ run[l].child = "alive"
          /\ Become(l, [run[l] EXCEPT !.pc = "returned", !.result = "BLOCKED"])
    /\ UNCHANGED <<attFile, replaced, dest, overlap>>

\* The launcher's process dies; the system closes its handle of the job.
LauncherDies(l) ==
    /\ Underway(l)
    /\ Become(l, [Closed(run[l]) EXCEPT !.pc = "died"])
    /\ UNCHANGED <<attFile, replaced, dest, overlap>>

---------------------------------------------------------------------------
(* The processes of the case and the world around it (external)            *)

\* The runner ends by itself, or because it was killed: with the exit code of
\* TerminateJobObject, or with one the code does not choose.
RunnerEnds(l) ==
    /\ run[l].runner \notin {"none", "ended"}
    /\ \E c \in {0, 1} :
          /\ run[l].runner = "terminated" => c = 1
          /\ Become(l, [run[l] EXCEPT !.runner = "ended", !.code = c])
    /\ UNCHANGED <<attFile, replaced, dest, overlap>>

\* ActiveProcessLimit forbids a child once the runner is in the job; one started
\* before is not in the job.
RunnerForks(l) ==
    /\ run[l].runner = "alive" /\ ~run[l].inJob /\ run[l].child = "none"
    /\ Become(l, [run[l] EXCEPT !.child = "alive"])
    /\ UNCHANGED <<attFile, replaced, dest, overlap>>

ChildEnds(l) ==
    /\ run[l].child = "alive"
    /\ Become(l, [run[l] EXCEPT !.child = "ended"])
    /\ UNCHANGED <<attFile, replaced, dest, overlap>>

CaseWrites(l) ==
    /\ run[l].runner \notin {"none", "ended"} \/ run[l].child = "alive"
    /\ run[l].out < MaxWrites
    /\ Become(l, [run[l] EXCEPT !.out = @ + 1])
    /\ UNCHANGED <<attFile, replaced, dest, overlap>>

DeadlinePasses(l) ==
    /\ At(l, "poll") /\ ~run[l].late
    /\ Become(l, [run[l] EXCEPT !.late = TRUE])
    /\ UNCHANGED <<attFile, replaced, dest, overlap>>

\* write_attestation by the producer of attestations.
Attest ==
    /\ replaced < MaxReplaced
    /\ replaced' = replaced + 1
    /\ attFile' \in Attestations \ {attFile}
    /\ UNCHANGED <<run, dest, overlap>>

LauncherStep(l) ==
    \/ Check(l) \/ Prepare(l) \/ Spawn(l) \/ Assign(l) \/ Poll(l) \/ Terminate(l)
    \/ Wait(l) \/ Except(l) \/ ExceptWait(l) \/ CloseJob(l) \/ Inspect(l)
    \/ ReadOutputs(l) \/ Seal(l) \/ VerifyLaunch(l) \/ Persist(l) \/ Conclude(l)
    \/ Cleanup(l)

CLNext ==
    \/ Attest
    \/ \E l \in Launches :
          \/ LauncherStep(l) \/ LauncherDies(l)
          \/ RunnerEnds(l) \/ RunnerForks(l) \/ ChildEnds(l) \/ CaseWrites(l)
          \/ DeadlinePasses(l)

\* A launch that was begun and the clock go on, and the system carries out a kill;
\* nothing is assumed of a runner that nobody kills.
CLFairness ==
    \A l \in Launches :
        /\ WF_clVars(~At(l, "check") /\ LauncherStep(l))
        /\ WF_clVars(DeadlinePasses(l))
        /\ WF_clVars(run[l].runner \in {"terminated", "closed"} /\ RunnerEnds(l))

CLSpec == CLInit /\ [][CLNext]_clVars /\ CLFairness

---------------------------------------------------------------------------
(* Properties                                                              *)

\* Type invariant of launches, attestation and destination.
CLTypeOK ==
    /\ attFile \in Attestations /\ replaced \in 0..MaxReplaced
    /\ run \in [Launches ->
         [pc : {"check", "prepare", "spawn", "assign", "poll", "terminate", "wait",
                "except", "exceptWait", "close", "inspect", "outputs", "seal",
                "verify", "persist", "cleanup", "returned", "died"},
          att : Attestations \cup {NoAttestation},
          runner : {"none", "alive", "terminated", "closed", "ended"},
          child : {"none", "alive", "ended"}, inJob : BOOLEAN, code : -1..1,
          killed : BOOLEAN, late : BOOLEAN, returncode : -1..1, out : 0..MaxWrites,
          stdout : -1..MaxWrites, sealed : -1..MaxWrites, keep : BOOLEAN, saved : 0..Len(Files),
          result : {"none", "BLOCKED", "RECORDED", "FAIL", "VALIDATION_ERROR"}]]
    /\ dest \in [FileSet -> [by : Launches \cup {NoLaunch}, out : -1..MaxWrites]]
    /\ overlap \subseteq Launches \X Launches

Over(l) == run[l].pc \in {"returned", "died"}

\* RECORDED is only said of a runner that ended by itself with exit code 0, on the
\* strength of an attestation in which every domain was as expected: a kill that
\* races the end of the runner, or that ends it with code 0, never counts.
RecordedRanToCompletion ==
    \A l \in Launches : run[l].result = "RECORDED" =>
        /\ Ended(l) /\ ~run[l].killed /\ run[l].code = 0
        /\ \A d \in DomainSet : run[l].att.obs[d] = Expected[d]
        /\ run[l].att.policy = "FRESH_CASE_ROOT"

\* What a launch reports as the runner's output is what the seal covers and what
\* the case root holds, unless the runner forked before it was in the job.  What it
\* persisted is all its own: the destination is checked before the case runs and
\* written after it, so only a launch that overlapped with this one can have mixed
\* its artifacts in.
ReportMatchesSeal ==
    \A l \in Launches :
        /\ (run[l].result \in {"RECORDED", "FAIL"} /\ run[l].child = "none") =>
              run[l].stdout = run[l].sealed /\ run[l].sealed = run[l].out
        /\ run[l].saved = Len(Files) =>
              \A f \in FileSet : dest[f].by = l \/ <<dest[f].by, l>> \in overlap

\* Every launch that was begun returns or dies, whatever the runner does, also when
\* it was never put in the job and cannot be killed.
EveryLaunchReturns == \A l \in Launches : ~At(l, "check") ~> Over(l)

\* A runner that was put in the job ends, also when terminating the job failed.
JobRunnersEnd == \A l \in Launches : run[l].inJob ~> Ended(l)
===========================================================================
