-------------------------- MODULE CleanRoomProofs --------------------------
(***************************************************************************)
(* Proofs about the clean-room tools: the GC-C1 launcher (CaseLauncher),   *)
(* the handoff bundle (Handoff) and the replay of the declared cases       *)
(* (CandidateReplay), for any number of concurrent calls of each.          *)
(***************************************************************************)
EXTENDS CaseLauncher, CandidateReplay, TLAPS

---------------------------------------------------------------------------
(* The launcher: inductive invariant                                       *)

PcSet == {"check", "prepare", "spawn", "assign", "poll", "terminate", "wait",
          "except", "exceptWait", "close", "inspect", "outputs", "seal",
          "verify", "persist", "cleanup", "returned", "died"}

\* The record of one launch, as CLTypeOK types it.
RunType ==
    [pc : PcSet, att : Attestations \cup {NoAttestation},
     runner : {"none", "alive", "terminated", "closed", "ended"},
     child : {"none", "alive", "ended"}, inJob : BOOLEAN, code : -1..1,
     killed : BOOLEAN, late : BOOLEAN, returncode : -1..1, out : 0..MaxWrites,
     stdout : -1..MaxWrites, sealed : -1..MaxWrites, keep : BOOLEAN, saved : 0..3,
     result : {"none", "BLOCKED", "RECORDED", "FAIL", "VALIDATION_ERROR"}]

\* The attestation a launch went ahead on.
Ready(a) == /\ \A d \in DomainSet : a.obs[d] = Expected[d]
            /\ a.policy = "FRESH_CASE_ROOT"

BeforeClose == {"check", "prepare", "spawn", "assign", "poll", "terminate", "wait",
                "except", "exceptWait", "close"}
BeforeSpawn == {"check", "prepare", "spawn"}
AfterInspect == {"outputs", "seal", "verify", "persist"}

\* What was decided: no result before the cleanup, and none but BLOCKED without a
\* ready attestation.
DecidedInv(r) ==
    /\ r.pc \notin {"cleanup", "returned", "died"} => r.result = "none"
    /\ r.pc # "check" => r.result = "BLOCKED" \/ Ready(r.att)
    /\ r.result = "RECORDED" => r.returncode = 0

\* What became of the runner: until the job is closed a killed runner can only end
\* with the exit code of TerminateJobObject, so the launcher's code 0 is that of a
\* runner nobody killed.
RunnerInv(r) ==
    /\ r.pc \in BeforeSpawn => r.runner = "none" /\ ~r.killed /\ r.returncode = NoCode
    /\ r.pc \in BeforeSpawn \cup {"assign", "poll", "terminate"} =>
          ~r.killed /\ r.returncode = NoCode
    /\ (r.killed /\ r.pc \in BeforeClose) =>
          r.runner = "terminated" \/ (r.runner = "ended" /\ r.code = 1)
    /\ r.killed => r.runner \notin {"none", "alive"}
    /\ r.returncode = 0 => r.runner = "ended" /\ ~r.killed /\ r.code = 0

\* What was read: the runner has ended and, without a child, nobody writes.
OutputsInv(r) ==
    /\ r.pc \in AfterInspect \/ r.result \in {"RECORDED", "FAIL"} => r.runner = "ended"
    /\ r.child = "none" =>
          /\ r.pc \in {"seal", "verify", "persist"} => r.stdout = r.out
          /\ r.pc \in {"verify", "persist"} => r.sealed = r.out
          /\ r.result \in {"RECORDED", "FAIL"} => r.stdout = r.out /\ r.sealed = r.out

LaunchInv(r) == DecidedInv(r) /\ RunnerInv(r) /\ OutputsInv(r)

\* What was persisted: any two launches underway overlap, one that may still write
\* overlaps with every other one that wrote, so each file a launch has written is
\* its own or of one that overlapped with it.
PersistInv ==
    /\ \A k, l \in Launches :
          /\ (k # l /\ Underway(k) /\ Underway(l)) => <<k, l>> \in overlap
          /\ (k # l /\ Underway(k) /\ run[k].keep /\ run[l].saved > 0) => <<k, l>> \in overlap
    /\ \A l \in Launches : run[l].pc = "check" => run[l].saved = 0
    /\ \A l \in Launches, i \in 1..3 : i <= run[l].saved =>
          dest[Files[i]].by = l \/ <<dest[Files[i]].by, l>> \in overlap

LauncherIInv ==
    /\ CLTypeOK
    /\ \A l \in Launches : LaunchInv(run[l])
    /\ PersistInv

---------------------------------------------------------------------------
(* The launcher: proofs                                                    *)

LEMMA FilesAre ==
    /\ Len(Files) = 3
    /\ FileSet = {"launch-record", "stdout", "sealed"}
    /\ Files[1] = "launch-record" /\ Files[2] = "stdout" /\ Files[3] = "sealed"
BY DEF Files, FileSet

LEMMA RunTyped == CLTypeOK =>
    /\ run \in [Launches -> RunType]
    /\ dest \in [FileSet -> [by : Launches \cup {NoLaunch}, out : -1..MaxWrites]]
    /\ overlap \subseteq Launches \X Launches
    /\ attFile \in Attestations
BY FilesAre DEF CLTypeOK, RunType, PcSet

\* A record that keeps what the destination depends on.
Calm(l, r) ==
    /\ r \in RunType /\ LaunchInv(r)
    /\ r.saved = run[l].saved /\ r.keep = run[l].keep
    /\ r.pc \notin {"check", "returned", "died"} => Underway(l)
    /\ r.pc = "check" => run[l].pc = "check"

LEMMA CalmStep ==
    ASSUME LauncherIInv, NEW l \in Launches, NEW r, Calm(l, r), Become(l, r),
           UNCHANGED <<attFile, replaced, dest, overlap>>
    PROVE  LauncherIInv'
<1>1. run \in [Launches -> RunType] BY RunTyped DEF LauncherIInv
<1>2. /\ run' \in [Launches -> RunType]
      /\ run'[l] = r
      /\ \A k \in Launches \ {l} : run'[k] = run[k]
  BY <1>1 DEF Become, Calm
<1>3. CLTypeOK'
  BY <1>2, FilesAre DEF LauncherIInv, CLTypeOK, RunType, PcSet
<1>4. (\A k \in Launches : LaunchInv(run[k]))'
  <2> SUFFICES ASSUME NEW k \in Launches PROVE LaunchInv(run'[k]) OBVIOUS
  <2>1. CASE k = l BY <2>1, <1>2 DEF Calm
  <2>2. CASE k # l BY <2>2, <1>2 DEF LauncherIInv
  <2> QED BY <2>1, <2>2
<1>5. \A k \in Launches : /\ run'[k].saved = run[k].saved
                          /\ run'[k].keep = run[k].keep
                          /\ Underway(k)' => Underway(k)
                          /\ run'[k].pc = "check" => run[k].pc = "check"
  BY <1>2 DEF Calm, Underway
<1>6. PersistInv'
  BY <1>5 DEF LauncherIInv, PersistInv
<1> QED BY <1>3, <1>4, <1>6 DEF LauncherIInv

\* What load_attestation and the check of its status establish: VERIFIED is only
\* the status of observations that are all as expected.
LEMMA VerifiedIsReady ==
    ASSUME NEW a, LoadAttestation(a), a.status = "VERIFIED"
    PROVE  Ready(a)
<1>1. Outcome(a.obs, a.policy) = "READY_FOR_REPLAY"
  BY DEF LoadAttestation, Status
<1>2. VerifyAttestation(a.obs) = "READY_FOR_REPLAY" /\ a.policy = "FRESH_CASE_ROOT"
  BY <1>1 DEF Outcome
<1>3. {i \in DOMAIN Domains : a.obs[Domains[i]] # Expected[Domains[i]]} = {}
  BY <1>2 DEF VerifyAttestation, LoadAttestation
<1> QED BY <1>2, <1>3 DEF Ready, DomainSet

LEMMA LauncherInitial == CLInit => LauncherIInv
<1> SUFFICES ASSUME CLInit PROVE LauncherIInv OBVIOUS
<1>1. NewLaunch \in RunType
  BY LauncherAssumption DEF NewLaunch, RunType, PcSet, NoCode
<1>2. \A l \in Launches : run[l] = NewLaunch BY DEF CLInit
<1>3. NoArtifact \in [by : Launches \cup {NoLaunch}, out : -1..MaxWrites]
  BY LauncherAssumption DEF NoArtifact, NoCode
<1>4. CLTypeOK
  BY <1>1, <1>3, FilesAre, LauncherAssumption DEF CLInit, CLTypeOK, RunType, PcSet
<1>5. LaunchInv(NewLaunch)
  BY DEF NewLaunch, LaunchInv, DecidedInv, RunnerInv, OutputsInv, NoCode, BeforeSpawn,
         BeforeClose, AfterInspect
<1>6. PersistInv
  BY <1>2 DEF PersistInv, NewLaunch, Underway
<1> QED BY <1>2, <1>4, <1>5, <1>6 DEF LauncherIInv


\* The steps that touch neither the destination nor the overlap history.
CalmAction(l) ==
    \/ Prepare(l) \/ Spawn(l) \/ Assign(l) \/ Poll(l)
    \/ Terminate(l) \/ Wait(l) \/ Except(l) \/ ExceptWait(l)
    \/ CloseJob(l) \/ Inspect(l) \/ ReadOutputs(l) \/ Seal(l)
    \/ VerifyLaunch(l) \/ Conclude(l) \/ Cleanup(l) \/ LauncherDies(l)
    \/ RunnerForks(l) \/ ChildEnds(l) \/ CaseWrites(l) \/ DeadlinePasses(l)
    \/ RunnerEnds(l)

LEMMA CalmActions ==
    ASSUME LauncherIInv, NEW l \in Launches, CalmAction(l)
    PROVE  LauncherIInv'
<1>0. run \in [Launches -> RunType] /\ run[l] \in RunType /\ LaunchInv(run[l])
  BY RunTyped DEF LauncherIInv
<1>00. run[l] \in RunType BY <1>0
<1>1. CASE Prepare(l)
  <2>1. ASSUME Become(l, [run[l] EXCEPT !.pc = "spawn"]) PROVE LauncherIInv'
    <3>1. Calm(l, [run[l] EXCEPT !.pc = "spawn"])
      BY <1>0, <1>1, <2>1 DEF Prepare, Calm, At, Ended, Returns, Underway, Killed, Closed,
             RunType, PcSet, LaunchInv, DecidedInv, RunnerInv, OutputsInv, NoCode,
             BeforeSpawn, BeforeClose, AfterInspect
    <3> QED BY <1>1, <2>1, <3>1, CalmStep DEF Prepare
  <2>2. ASSUME Become(l, Returns(l, "BLOCKED")) PROVE LauncherIInv'
    <3>1. Calm(l, Returns(l, "BLOCKED"))
      BY <1>0, <1>1, <2>2 DEF Prepare, Calm, At, Ended, Returns, Underway, Killed, Closed,
             RunType, PcSet, LaunchInv, DecidedInv, RunnerInv, OutputsInv, NoCode,
             BeforeSpawn, BeforeClose, AfterInspect
    <3> QED BY <1>1, <2>2, <3>1, CalmStep DEF Prepare
  <2> QED BY <1>1, <2>1, <2>2 DEF Prepare
<1>2. CASE Spawn(l)
  <2>1. ASSUME Become(l, [run[l] EXCEPT !.pc = "assign", !.runner = "alive"])
        PROVE LauncherIInv'
    <3>1. Calm(l, [run[l] EXCEPT !.pc = "assign", !.runner = "alive"])
      BY <1>0, <1>2, <2>1 DEF Spawn, Calm, At, Ended, Returns, Underway, Killed, Closed,
             RunType, PcSet, LaunchInv, DecidedInv, RunnerInv, OutputsInv, NoCode,
             BeforeSpawn, BeforeClose, AfterInspect
    <3> QED BY <1>2, <2>1, <3>1, CalmStep DEF Spawn
  <2>2. ASSUME Become(l, Returns(l, "BLOCKED")) PROVE LauncherIInv'
    <3>1. Calm(l, Returns(l, "BLOCKED"))
      BY <1>0, <1>2, <2>2 DEF Spawn, Calm, At, Ended, Returns, Underway, Killed, Closed,
             RunType, PcSet, LaunchInv, DecidedInv, RunnerInv, OutputsInv, NoCode,
             BeforeSpawn, BeforeClose, AfterInspect
    <3> QED BY <1>2, <2>2, <3>1, CalmStep DEF Spawn
  <2> QED BY <1>2, <2>1, <2>2 DEF Spawn
<1>3. CASE Assign(l)
  <2>1. ASSUME ~Ended(l), Become(l, [run[l] EXCEPT !.pc = "poll", !.inJob = TRUE])
        PROVE LauncherIInv'
    <3>1. Calm(l, [run[l] EXCEPT !.pc = "poll", !.inJob = TRUE])
      BY <1>0, <1>3, <2>1 DEF Assign, Calm, At, Ended, Returns, Underway, Killed, Closed,
             RunType, PcSet, LaunchInv, DecidedInv, RunnerInv, OutputsInv, NoCode,
             BeforeSpawn, BeforeClose, AfterInspect
    <3> QED BY <1>3, <2>1, <3>1, CalmStep DEF Assign
  <2>2. ASSUME Become(l, [run[l] EXCEPT !.pc = "except"]) PROVE LauncherIInv'
    <3>1. Calm(l, [run[l] EXCEPT !.pc = "except"])
      BY <1>0, <1>3, <2>2 DEF Assign, Calm, At, Ended, Returns, Underway, Killed, Closed,
             RunType, PcSet, LaunchInv, DecidedInv, RunnerInv, OutputsInv, NoCode,
             BeforeSpawn, BeforeClose, AfterInspect
    <3> QED BY <1>3, <2>2, <3>1, CalmStep DEF Assign
  <2> QED BY <1>3, <2>1, <2>2 DEF Assign
<1>4. CASE Poll(l)
  <2>1. ASSUME Ended(l), Become(l, [run[l] EXCEPT !.pc = "close", !.returncode = run[l].code])
        PROVE LauncherIInv'
    <3>1. Calm(l, [run[l] EXCEPT !.pc = "close", !.returncode = run[l].code])
      BY <1>0, <1>4, <2>1 DEF Poll, Calm, At, Ended, Returns, Underway, Killed, Closed,
             RunType, PcSet, LaunchInv, DecidedInv, RunnerInv, OutputsInv, NoCode,
             BeforeSpawn, BeforeClose, AfterInspect
    <3> QED BY <1>4, <2>1, <3>1, CalmStep DEF Poll
  <2>2. ASSUME ~Ended(l), Become(l, [run[l] EXCEPT !.pc = "terminate"]) PROVE LauncherIInv'
    <3>1. Calm(l, [run[l] EXCEPT !.pc = "terminate"])
      BY <1>0, <1>4, <2>2 DEF Poll, Calm, At, Ended, Returns, Underway, Killed, Closed,
             RunType, PcSet, LaunchInv, DecidedInv, RunnerInv, OutputsInv, NoCode,
             BeforeSpawn, BeforeClose, AfterInspect
    <3> QED BY <1>4, <2>2, <3>1, CalmStep DEF Poll
  <2> QED BY <1>4, <2>1, <2>2 DEF Poll
<1>5. CASE Terminate(l)
  <2>1. ASSUME Become(l, [run[l] EXCEPT !.pc = "wait"]) PROVE LauncherIInv'
    <3>1. Calm(l, [run[l] EXCEPT !.pc = "wait"])
      BY <1>0, <1>5, <2>1 DEF Terminate, Calm, At, Ended, Returns, Underway, Killed, Closed,
             RunType, PcSet, LaunchInv, DecidedInv, RunnerInv, OutputsInv, NoCode,
             BeforeSpawn, BeforeClose, AfterInspect
    <3> QED BY <1>5, <2>1, <3>1, CalmStep DEF Terminate
  <2>2. ASSUME Become(l, [Killed(run[l]) EXCEPT !.pc = "wait"]) PROVE LauncherIInv'
    <3>1. Calm(l, [Killed(run[l]) EXCEPT !.pc = "wait"])
      BY <1>0, <1>5, <2>2, ZenonT(40) DEF Terminate, Calm, At, Ended, Returns, Underway, Killed, Closed,
             RunType, PcSet, LaunchInv, DecidedInv, RunnerInv, OutputsInv, NoCode,
             BeforeSpawn, BeforeClose, AfterInspect
    <3> QED BY <1>5, <2>2, <3>1, CalmStep DEF Terminate
  <2> QED BY <1>5, <2>1, <2>2 DEF Terminate
<1>6. CASE Wait(l)
  <2>1. ASSUME Ended(l), Become(l, [run[l] EXCEPT !.pc = "close", !.returncode = run[l].code])
        PROVE LauncherIInv'
    <3> DEFINE r == [run[l] EXCEPT !.pc = "close", !.returncode = run[l].code]
    <3>1. r \in RunType
      BY <1>0, <1>6, <2>1, LauncherAssumption DEF Wait, At, Ended, Returns, Killed, Closed,
         RunType, PcSet
    <3>2. DecidedInv(r)
      BY <1>0, <1>6, <2>1 DEF Wait, At, Ended, Returns, Killed, Closed, RunType, PcSet,
         LaunchInv, DecidedInv, RunnerInv
    <3>3. RunnerInv(r)
      BY <1>0, <1>6, <2>1 DEF Wait, At, Ended, Returns, Underway, Killed, Closed, RunType,
         PcSet,
         LaunchInv, DecidedInv, RunnerInv, NoCode, BeforeSpawn, BeforeClose
    <3>4. OutputsInv(r)
      BY <1>0, <1>6, <2>1 DEF Wait, At, Ended, Returns, Underway, Killed, Closed, RunType,
         PcSet,
         LaunchInv, DecidedInv, OutputsInv, AfterInspect
    <3>5. Calm(l, r)
      BY <1>0, <1>6, <2>1, <3>1, <3>2, <3>3, <3>4 DEF Wait, At, Returns, Killed, Closed,
         RunType, Calm,
         Underway, LaunchInv
    <3> QED BY <1>6, <2>1, <3>5, CalmStep DEF Wait
  <2>2. ASSUME ~Ended(l), Become(l, [run[l] EXCEPT !.pc = "except"]) PROVE LauncherIInv'
    <3>1. Calm(l, [run[l] EXCEPT !.pc = "except"])
      BY <1>0, <1>6, <2>2 DEF Wait, Calm, At, Ended, Returns, Underway, Killed, Closed,
             RunType, PcSet, LaunchInv, DecidedInv, RunnerInv, OutputsInv, NoCode,
             BeforeSpawn, BeforeClose, AfterInspect
    <3> QED BY <1>6, <2>2, <3>1, CalmStep DEF Wait
  <2> QED BY <1>6, <2>1, <2>2 DEF Wait
<1>7. CASE Except(l)
  <2>1. ASSUME Become(l, [run[l] EXCEPT !.pc = "exceptWait"]) PROVE LauncherIInv'
    <3>1. Calm(l, [run[l] EXCEPT !.pc = "exceptWait"])
      BY <1>0, <1>7, <2>1 DEF Except, Calm, At, Ended, Returns, Underway, Killed, Closed,
             RunType, PcSet, LaunchInv, DecidedInv, RunnerInv, OutputsInv, NoCode,
             BeforeSpawn, BeforeClose, AfterInspect
    <3> QED BY <1>7, <2>1, <3>1, CalmStep DEF Except
  <2>2. ASSUME Become(l, [Killed(run[l]) EXCEPT !.pc = "exceptWait"]) PROVE LauncherIInv'
    <3> DEFINE r == [Killed(run[l]) EXCEPT !.pc = "exceptWait"]
    <3>1. r \in RunType
      BY <1>0, <1>7, <2>2, LauncherAssumption, ZenonT(40) DEF Except, At, Ended, Returns, Killed,
         Closed, RunType, PcSet
    <3>2. DecidedInv(r)
      BY <1>0, <1>7, <2>2 DEF Except, At, Ended, Returns, Killed, Closed, RunType, PcSet,
         LaunchInv, DecidedInv, RunnerInv
    <3>3. RunnerInv(r)
      BY <1>0, <1>7, <2>2 DEF Except, At, Ended, Returns, Underway, Killed, Closed,
         RunType, PcSet,
         LaunchInv, DecidedInv, RunnerInv, NoCode, BeforeSpawn, BeforeClose
    <3>4. OutputsInv(r)
      BY <1>0, <1>7, <2>2 DEF Except, At, Ended, Returns, Underway, Killed, Closed,
         RunType, PcSet,
         LaunchInv, DecidedInv, OutputsInv, AfterInspect
    <3>5. Calm(l, r)
      BY <1>0, <1>7, <2>2, <3>1, <3>2, <3>3, <3>4 DEF Except, At, Returns, Killed, Closed,
         RunType, Calm,
         Underway, LaunchInv
    <3> QED BY <1>7, <2>2, <3>5, CalmStep DEF Except
  <2>3. ASSUME Become(l, [run[l] EXCEPT !.pc = "close"]) PROVE LauncherIInv'
    <3>1. Calm(l, [run[l] EXCEPT !.pc = "close"])
      BY <1>0, <1>7, <2>3 DEF Except, Calm, At, Ended, Returns, Underway, Killed, Closed,
             RunType, PcSet, LaunchInv, DecidedInv, RunnerInv, OutputsInv, NoCode,
             BeforeSpawn, BeforeClose, AfterInspect
    <3> QED BY <1>7, <2>3, <3>1, CalmStep DEF Except
  <2> QED BY <1>7, <2>1, <2>2, <2>3 DEF Except
<1>8. CASE ExceptWait(l)
  <2>1. ASSUME Become(l, [run[l] EXCEPT !.pc = "close"]) PROVE LauncherIInv'
    <3>1. Calm(l, [run[l] EXCEPT !.pc = "close"])
      BY <1>0, <1>8, <2>1 DEF ExceptWait, Calm, At, Ended, Returns, Underway, Killed,
         Closed,
             RunType, PcSet, LaunchInv, DecidedInv, RunnerInv, OutputsInv, NoCode,
             BeforeSpawn, BeforeClose, AfterInspect
    <3> QED BY <1>8, <2>1, <3>1, CalmStep DEF ExceptWait
  <2> QED BY <1>8, <2>1 DEF ExceptWait
<1>9. CASE CloseJob(l)
  <2>1. ASSUME run[l].inJob, Become(l, [Closed(run[l]) EXCEPT !.pc = "inspect"])
        PROVE LauncherIInv'
    <3>1. Calm(l, [Closed(run[l]) EXCEPT !.pc = "inspect"])
      BY <1>0, <1>9, <2>1, ZenonT(40) DEF CloseJob, Calm, At, Ended, Returns, Underway, Killed, Closed,
             RunType, PcSet, LaunchInv, DecidedInv, RunnerInv, OutputsInv, NoCode,
             BeforeSpawn, BeforeClose, AfterInspect
    <3> QED BY <1>9, <2>1, <3>1, CalmStep DEF CloseJob
  <2>2. ASSUME Become(l, Returns(l, "BLOCKED")) PROVE LauncherIInv'
    <3>1. Calm(l, Returns(l, "BLOCKED"))
      BY <1>0, <1>9, <2>2, ZenonT(40) DEF CloseJob, Calm, At, Ended, Returns, Underway, Killed, Closed,
             RunType, PcSet, LaunchInv, DecidedInv, RunnerInv, OutputsInv, NoCode,
             BeforeSpawn, BeforeClose, AfterInspect
    <3> QED BY <1>9, <2>2, <3>1, CalmStep DEF CloseJob
  <2> QED BY <1>9, <2>1, <2>2 DEF CloseJob
<1>10. CASE Inspect(l)
  <2>1. ASSUME Ended(l), Become(l, [run[l] EXCEPT !.pc = "outputs"]) PROVE LauncherIInv'
    <3>1. Calm(l, [run[l] EXCEPT !.pc = "outputs"])
      BY <1>0, <1>10, <2>1 DEF Inspect, Calm, At, Ended, Returns, Underway, Killed, Closed,
             RunType, PcSet, LaunchInv, DecidedInv, RunnerInv, OutputsInv, NoCode,
             BeforeSpawn, BeforeClose, AfterInspect
    <3> QED BY <1>10, <2>1, <3>1, CalmStep DEF Inspect
  <2>2. ASSUME Become(l, Returns(l, "BLOCKED")) PROVE LauncherIInv'
    <3>1. Calm(l, Returns(l, "BLOCKED"))
      BY <1>0, <1>10, <2>2, ZenonT(40) DEF Inspect, Calm, At, Ended, Returns, Underway, Killed, Closed,
             RunType, PcSet, LaunchInv, DecidedInv, RunnerInv, OutputsInv, NoCode,
             BeforeSpawn, BeforeClose, AfterInspect
    <3> QED BY <1>10, <2>2, <3>1, CalmStep DEF Inspect
  <2> QED BY <1>10, <2>1, <2>2 DEF Inspect
<1>11. CASE ReadOutputs(l)
  <2>1. ASSUME Become(l, [run[l] EXCEPT !.pc = "seal", !.stdout = run[l].out])
        PROVE LauncherIInv'
    <3> DEFINE r == [run[l] EXCEPT !.pc = "seal", !.stdout = run[l].out]
    <3>0. run[l].out \in -1..MaxWrites BY <1>0 DEF RunType
    <3>1. r \in RunType
      BY <1>00, <3>0 DEF RunType, PcSet
    <3>2. DecidedInv(r)
      BY <1>0, <1>11, <2>1 DEF ReadOutputs, At, Ended, Returns, Killed, Closed, RunType,
         PcSet,
         LaunchInv, DecidedInv, RunnerInv
    <3>3. RunnerInv(r)
      BY <1>0, <1>11, <2>1 DEF ReadOutputs, At, Ended, Returns, Underway, Killed, Closed,
         RunType, PcSet,
         LaunchInv, DecidedInv, RunnerInv, NoCode, BeforeSpawn, BeforeClose
    <3>4. OutputsInv(r)
      BY <1>0, <1>11, <2>1 DEF ReadOutputs, At, Ended, Returns, Underway, Killed, Closed,
         RunType, PcSet,
         LaunchInv, DecidedInv, OutputsInv, AfterInspect
    <3>5. Calm(l, r)
      BY <1>0, <1>11, <2>1, <3>1, <3>2, <3>3, <3>4 DEF ReadOutputs, At, Returns, Killed,
         Closed, RunType, Calm,
         Underway, LaunchInv
    <3> QED BY <1>11, <2>1, <3>5, CalmStep DEF ReadOutputs
  <2> QED BY <1>11, <2>1 DEF ReadOutputs
<1>12. CASE Seal(l)
  <2>1. ASSUME Become(l, [run[l] EXCEPT !.pc = "verify", !.sealed = run[l].out])
        PROVE LauncherIInv'
    <3> DEFINE r == [run[l] EXCEPT !.pc = "verify", !.sealed = run[l].out]
    <3>0. run[l].out \in -1..MaxWrites BY <1>0 DEF RunType
    <3>1. r \in RunType
      BY <1>00, <3>0 DEF RunType, PcSet
    <3>2. DecidedInv(r)
      BY <1>0, <1>12, <2>1 DEF Seal, At, Ended, Returns, Killed, Closed, RunType, PcSet,
         LaunchInv, DecidedInv, RunnerInv
    <3>3. RunnerInv(r)
      BY <1>0, <1>12, <2>1 DEF Seal, At, Ended, Returns, Underway, Killed, Closed, RunType,
         PcSet,
         LaunchInv, DecidedInv, RunnerInv, NoCode, BeforeSpawn, BeforeClose
    <3>4. OutputsInv(r)
      BY <1>0, <1>12, <2>1 DEF Seal, At, Ended, Returns, Underway, Killed, Closed, RunType,
         PcSet,
         LaunchInv, DecidedInv, OutputsInv, AfterInspect
    <3>5. Calm(l, r)
      BY <1>0, <1>12, <2>1, <3>1, <3>2, <3>3, <3>4 DEF Seal, At, Returns, Killed, Closed,
         RunType, Calm,
         Underway, LaunchInv
    <3> QED BY <1>12, <2>1, <3>5, CalmStep DEF Seal
  <2> QED BY <1>12, <2>1 DEF Seal
<1>13. CASE VerifyLaunch(l)
  <2>1. ASSUME Become(l, [run[l] EXCEPT !.pc = "persist"]) PROVE LauncherIInv'
    <3>1. Calm(l, [run[l] EXCEPT !.pc = "persist"])
      BY <1>0, <1>13, <2>1 DEF VerifyLaunch, Calm, At, Ended, Returns, Underway, Killed,
         Closed,
             RunType, PcSet, LaunchInv, DecidedInv, RunnerInv, OutputsInv, NoCode,
             BeforeSpawn, BeforeClose, AfterInspect
    <3> QED BY <1>13, <2>1, <3>1, CalmStep DEF VerifyLaunch
  <2>2. ASSUME Become(l, Returns(l, "VALIDATION_ERROR")) PROVE LauncherIInv'
    <3>1. Calm(l, Returns(l, "VALIDATION_ERROR"))
      BY <1>0, <1>13, <2>2, ZenonT(40) DEF VerifyLaunch, Calm, At, Ended, Returns, Underway, Killed,
         Closed,
             RunType, PcSet, LaunchInv, DecidedInv, RunnerInv, OutputsInv, NoCode,
             BeforeSpawn, BeforeClose, AfterInspect
    <3> QED BY <1>13, <2>2, <3>1, CalmStep DEF VerifyLaunch
  <2> QED BY <1>13, <2>1, <2>2 DEF VerifyLaunch
<1>14. CASE Conclude(l)
  <2>1. ASSUME run[l].returncode = 0, Become(l, Returns(l, "RECORDED")) PROVE LauncherIInv'
    <3> DEFINE r == Returns(l, "RECORDED")
    <3>1. r \in RunType
      BY <1>00, ZenonT(40) DEF Returns, RunType, PcSet
    <3>2. DecidedInv(r)
      BY <1>0, <1>14, <2>1 DEF Conclude, At, Ended, Returns, Killed, Closed, RunType, PcSet,
         LaunchInv, DecidedInv, RunnerInv
    <3>3. RunnerInv(r)
      BY <1>0, <1>14, <2>1 DEF Conclude, At, Ended, Returns, Underway, Killed, Closed,
         RunType, PcSet,
         LaunchInv, DecidedInv, RunnerInv, NoCode, BeforeSpawn, BeforeClose
    <3>4. OutputsInv(r)
      BY <1>0, <1>14, <2>1 DEF Conclude, At, Ended, Returns, Underway, Killed, Closed,
         RunType, PcSet,
         LaunchInv, DecidedInv, OutputsInv, AfterInspect
    <3>5. Calm(l, r)
      BY <1>0, <1>14, <2>1, <3>1, <3>2, <3>3, <3>4 DEF Conclude, At, Returns, Killed,
         Closed, RunType, Calm,
         Underway, LaunchInv
    <3> QED BY <1>14, <2>1, <3>5, CalmStep DEF Conclude
  <2>2. ASSUME run[l].returncode # 0, Become(l, Returns(l, "FAIL")) PROVE LauncherIInv'
    <3>1. Calm(l, Returns(l, "FAIL"))
      BY <1>0, <1>14, <2>2, ZenonT(40) DEF Conclude, Calm, At, Ended, Returns, Underway, Killed, Closed,
             RunType, PcSet, LaunchInv, DecidedInv, RunnerInv, OutputsInv, NoCode,
             BeforeSpawn, BeforeClose, AfterInspect
    <3> QED BY <1>14, <2>2, <3>1, CalmStep DEF Conclude
  <2> QED BY <1>14, <2>1, <2>2 DEF Conclude
<1>15. CASE Cleanup(l)
  <2>1. ASSUME Become(l, [run[l] EXCEPT !.pc = "returned"]) PROVE LauncherIInv'
    <3>1. Calm(l, [run[l] EXCEPT !.pc = "returned"])
      BY <1>0, <1>15, <2>1 DEF Cleanup, Calm, At, Ended, Returns, Underway, Killed, Closed,
             RunType, PcSet, LaunchInv, DecidedInv, RunnerInv, OutputsInv, NoCode,
             BeforeSpawn, BeforeClose, AfterInspect
    <3> QED BY <1>15, <2>1, <3>1, CalmStep DEF Cleanup
  <2>2. ASSUME Become(l, [run[l] EXCEPT !.pc = "returned", !.result = "BLOCKED"])
        PROVE LauncherIInv'
    <3> DEFINE r == [run[l] EXCEPT !.pc = "returned", !.result = "BLOCKED"]
    <3>1. r \in RunType
      BY <1>0, <1>15, <2>2, LauncherAssumption DEF Cleanup, At, Ended, Returns, Killed,
         Closed, RunType, PcSet
    <3>2. DecidedInv(r)
      BY <1>0, <1>15, <2>2 DEF Cleanup, At, Ended, Returns, Killed, Closed, RunType, PcSet,
         LaunchInv, DecidedInv, RunnerInv
    <3>3. RunnerInv(r)
      BY <1>0, <1>15, <2>2 DEF Cleanup, At, Ended, Returns, Underway, Killed, Closed,
         RunType, PcSet,
         LaunchInv, DecidedInv, RunnerInv, NoCode, BeforeSpawn, BeforeClose
    <3>4. OutputsInv(r)
      BY <1>0, <1>15, <2>2 DEF Cleanup, At, Ended, Returns, Underway, Killed, Closed,
         RunType, PcSet,
         LaunchInv, DecidedInv, OutputsInv, AfterInspect
    <3>5. Calm(l, r)
      BY <1>0, <1>15, <2>2, <3>1, <3>2, <3>3, <3>4 DEF Cleanup, At, Returns, Killed,
         Closed, RunType, Calm,
         Underway, LaunchInv
    <3> QED BY <1>15, <2>2, <3>5, CalmStep DEF Cleanup
  <2> QED BY <1>15, <2>1, <2>2 DEF Cleanup
<1>16. CASE LauncherDies(l)
  <2>1. ASSUME Become(l, [Closed(run[l]) EXCEPT !.pc = "died"]) PROVE LauncherIInv'
    <3> DEFINE r == [Closed(run[l]) EXCEPT !.pc = "died"]
    <3>1. r \in RunType
      <4>1. Closed(run[l]) \in RunType BY <1>00, ZenonT(40) DEF Closed, RunType
      <4>2. "died" \in PcSet BY DEF PcSet
      <4> QED BY <4>1, <4>2 DEF RunType
    <3>2. DecidedInv(r)
      <4>1. /\ r.pc = "died" /\ r.result = run[l].result /\ r.att = run[l].att
            /\ r.returncode = run[l].returncode
        BY <1>00 DEF Closed, RunType
      <4>2. run[l].pc # "check" BY <1>16 DEF LauncherDies, Underway
      <4> QED BY <1>0, <4>1, <4>2 DEF LaunchInv, DecidedInv
    <3>3. RunnerInv(r)
      BY <1>0, <1>16, <2>1 DEF LauncherDies, At, Ended, Returns, Underway, Killed, Closed,
         RunType, PcSet,
         LaunchInv, DecidedInv, RunnerInv, NoCode, BeforeSpawn, BeforeClose
    <3>4. OutputsInv(r)
      BY <1>0, <1>16, <2>1 DEF LauncherDies, At, Ended, Returns, Underway, Killed, Closed,
         RunType, PcSet,
         LaunchInv, DecidedInv, OutputsInv, AfterInspect
    <3>5. Calm(l, r)
      BY <1>0, <1>16, <2>1, <3>1, <3>2, <3>3, <3>4 DEF LauncherDies, At, Returns, Killed,
         Closed, RunType, Calm,
         Underway, LaunchInv
    <3> QED BY <1>16, <2>1, <3>5, CalmStep DEF LauncherDies
  <2> QED BY <1>16, <2>1 DEF LauncherDies
<1>17. CASE RunnerForks(l)
  <2>1. ASSUME Become(l, [run[l] EXCEPT !.child = "alive"]) PROVE LauncherIInv'
    <3>1. Calm(l, [run[l] EXCEPT !.child = "alive"])
      BY <1>0, <1>17, <2>1 DEF RunnerForks, Calm, At, Ended, Returns, Underway, Killed,
         Closed,
             RunType, PcSet, LaunchInv, DecidedInv, RunnerInv, OutputsInv, NoCode,
             BeforeSpawn, BeforeClose, AfterInspect
    <3> QED BY <1>17, <2>1, <3>1, CalmStep DEF RunnerForks
  <2> QED BY <1>17, <2>1 DEF RunnerForks
<1>18. CASE ChildEnds(l)
  <2>1. ASSUME Become(l, [run[l] EXCEPT !.child = "ended"]) PROVE LauncherIInv'
    <3>1. Calm(l, [run[l] EXCEPT !.child = "ended"])
      BY <1>0, <1>18, <2>1 DEF ChildEnds, Calm, At, Ended, Returns, Underway, Killed,
         Closed,
             RunType, PcSet, LaunchInv, DecidedInv, RunnerInv, OutputsInv, NoCode,
             BeforeSpawn, BeforeClose, AfterInspect
    <3> QED BY <1>18, <2>1, <3>1, CalmStep DEF ChildEnds
  <2> QED BY <1>18, <2>1 DEF ChildEnds
<1>19. CASE CaseWrites(l)
  <2>1. ASSUME Become(l, [run[l] EXCEPT !.out = @ + 1]) PROVE LauncherIInv'
    <3> DEFINE r == [run[l] EXCEPT !.out = @ + 1]
    <3>1. r \in RunType
      BY <1>0, <1>19, <2>1, LauncherAssumption DEF CaseWrites, At, Ended, Returns, Killed,
         Closed, RunType, PcSet
    <3>2. DecidedInv(r)
      BY <1>0, <1>19, <2>1 DEF CaseWrites, At, Ended, Returns, Killed, Closed, RunType,
         PcSet,
         LaunchInv, DecidedInv, RunnerInv
    <3>3. RunnerInv(r)
      BY <1>0, <1>19, <2>1 DEF CaseWrites, At, Ended, Returns, Underway, Killed, Closed,
         RunType, PcSet,
         LaunchInv, DecidedInv, RunnerInv, NoCode, BeforeSpawn, BeforeClose
    <3>4. OutputsInv(r)
      BY <1>0, <1>19, <2>1 DEF CaseWrites, At, Ended, Returns, Underway, Killed, Closed,
         RunType, PcSet,
         LaunchInv, DecidedInv, OutputsInv, AfterInspect
    <3>5. Calm(l, r)
      BY <1>0, <1>19, <2>1, <3>1, <3>2, <3>3, <3>4 DEF CaseWrites, At, Returns, Killed,
         Closed, RunType, Calm,
         Underway, LaunchInv
    <3> QED BY <1>19, <2>1, <3>5, CalmStep DEF CaseWrites
  <2> QED BY <1>19, <2>1 DEF CaseWrites
<1>20. CASE DeadlinePasses(l)
  <2>1. ASSUME Become(l, [run[l] EXCEPT !.late = TRUE]) PROVE LauncherIInv'
    <3>1. Calm(l, [run[l] EXCEPT !.late = TRUE])
      BY <1>0, <1>20, <2>1 DEF DeadlinePasses, Calm, At, Ended, Returns, Underway, Killed,
         Closed,
             RunType, PcSet, LaunchInv, DecidedInv, RunnerInv, OutputsInv, NoCode,
             BeforeSpawn, BeforeClose, AfterInspect
    <3> QED BY <1>20, <2>1, <3>1, CalmStep DEF DeadlinePasses
  <2> QED BY <1>20, <2>1 DEF DeadlinePasses
<1>21. CASE RunnerEnds(l)
  <2>1. PICK c \in {0, 1} :
          /\ run[l].runner = "terminated" => c = 1
          /\ Become(l, [run[l] EXCEPT !.runner = "ended", !.code = c])
    BY <1>21 DEF RunnerEnds
  <2> DEFINE r == [run[l] EXCEPT !.runner = "ended", !.code = c]
  <2>0. c \in -1..1 OBVIOUS
  <2>2. r \in RunType
    BY <1>00, <2>0 DEF RunType
  <2>3. /\ r.runner = "ended" /\ r.code = c /\ r.pc = run[l].pc
        /\ r.result = run[l].result /\ r.att = run[l].att /\ r.child = run[l].child
        /\ r.returncode = run[l].returncode /\ r.killed = run[l].killed
        /\ r.out = run[l].out /\ r.stdout = run[l].stdout /\ r.sealed = run[l].sealed
        /\ r.saved = run[l].saved /\ r.keep = run[l].keep
    BY <1>00 DEF RunType
  <2>4. DecidedInv(r) BY <1>0, <2>3 DEF LaunchInv, DecidedInv
  <2>5. RunnerInv(r)
    <3> HIDE DEF r
    <3> QED
      BY <1>0, <1>21, <2>1, <2>3 DEF RunnerEnds, LaunchInv, RunnerInv,
         NoCode, BeforeSpawn, BeforeClose
  <2>6. OutputsInv(r) BY <1>0, <2>3 DEF LaunchInv, OutputsInv
  <2>7. Calm(l, r)
    BY <1>21, <2>2, <2>3, <2>4, <2>5, <2>6 DEF RunnerEnds, Calm, Underway, LaunchInv
  <2> QED BY <1>21, <2>1, <2>7, CalmStep DEF RunnerEnds
<1> QED
  BY <1>1, <1>2, <1>3, <1>4, <1>5, <1>6, <1>7, <1>8, <1>9, <1>10, <1>11, <1>12,
     <1>13, <1>14, <1>15, <1>16, <1>17, <1>18, <1>19, <1>20, <1>21 DEF CalmAction


\* Check: a launch that goes ahead overlaps from now on with every other one that
\* is underway; one that will persist found the destination empty, so that no
\* other launch has written anything yet.
LEMMA CheckStep ==
    ASSUME LauncherIInv, NEW l \in Launches, Check(l)
    PROVE  LauncherIInv'
<1>0. run \in [Launches -> RunType] /\ run[l] \in RunType /\ LaunchInv(run[l])
  BY RunTyped DEF LauncherIInv
<1>1. CASE Become(l, [run[l] EXCEPT !.pc = "returned", !.result = "BLOCKED"])
           /\ UNCHANGED overlap
  <2> DEFINE r == [run[l] EXCEPT !.pc = "returned", !.result = "BLOCKED"]
  <2>1. r \in RunType BY <1>0, ZenonT(40) DEF RunType, PcSet
  <2>2. LaunchInv(r)
    BY <1>0 DEF Check, At, RunType, LaunchInv, DecidedInv, RunnerInv, OutputsInv, NoCode,
       BeforeSpawn, BeforeClose, AfterInspect
  <2>3. Calm(l, r) BY <1>0, <2>1, <2>2 DEF Calm, RunType
  <2> QED BY <1>1, <2>3, CalmStep DEF Check
<1>2. ASSUME NEW keep \in BOOLEAN, LoadAttestation(attFile), attFile.status = "VERIFIED",
             keep => SafePersistDir,
             Become(l, [run[l] EXCEPT !.pc = "prepare", !.att = attFile, !.keep = keep]),
             overlap' = overlap \cup
                UNION {{<<k, l>>, <<l, k>>} : k \in {j \in Launches : Underway(j)}}
      PROVE  LauncherIInv'
  <2> DEFINE r == [run[l] EXCEPT !.pc = "prepare", !.att = attFile, !.keep = keep]
  <2>1. UNCHANGED <<attFile, replaced, dest>> /\ run[l].pc = "check" BY DEF Check, At
  <2>2. r \in RunType
    BY <1>0, RunTyped DEF RunType, PcSet, LauncherIInv
  <2>3. /\ run' \in [Launches -> RunType] /\ run'[l] = r
        /\ \A k \in Launches \ {l} : run'[k] = run[k]
    BY <1>0, <1>2, <2>2 DEF Become
  <2>4. /\ r.pc = "prepare" /\ r.att = attFile /\ r.keep = keep /\ r.saved = run[l].saved
        /\ r.result = run[l].result /\ r.runner = run[l].runner /\ r.killed = run[l].killed
        /\ r.returncode = run[l].returncode /\ r.child = run[l].child
    BY <1>0 DEF RunType
  <2>5. LaunchInv(r)
    <3> HIDE DEF r
    <3>1. Ready(r.att) BY <1>2, <2>4, VerifiedIsReady
    <3> QED BY <1>0, <2>1, <2>4, <3>1 DEF LaunchInv, DecidedInv, RunnerInv, OutputsInv,
          NoCode, BeforeSpawn, BeforeClose, AfterInspect
  <2>6. (\A k \in Launches : LaunchInv(run[k]))'
    <3> HIDE DEF r
    <3> QED BY <2>3, <2>5 DEF LauncherIInv
  <2>7. overlap' \subseteq Launches \X Launches /\ overlap \subseteq overlap'
    BY <1>2, RunTyped DEF LauncherIInv
  <2>8. CLTypeOK'
    BY <2>1, <2>3, <2>7, FilesAre DEF LauncherIInv, CLTypeOK, RunType, PcSet
  <2>9. \A k \in Launches : (k # l /\ Underway(k)) => <<k, l>> \in overlap' /\ <<l, k>> \in overlap'
    BY <1>2
  <2>10. \A k \in Launches : (k # l /\ keep) => run[k].saved = 0
    <3> SUFFICES ASSUME NEW k \in Launches, k # l, keep PROVE run[k].saved = 0
      OBVIOUS
    <3>1. dest[Files[1]].by = NoLaunch
      BY <1>2, FilesAre DEF SafePersistDir, NoArtifact
    <3>2. ~(1 <= run[k].saved)
      <4>1. <<NoLaunch, k>> \notin overlap /\ NoLaunch # k
        BY RunTyped, LauncherAssumption DEF LauncherIInv
      <4>2. 1 \in 1..3 OBVIOUS
      <4>3. 1 <= run[k].saved =>
               dest[Files[1]].by = k \/ <<dest[Files[1]].by, k>> \in overlap
        BY <4>2 DEF LauncherIInv, PersistInv
      <4> QED BY <3>1, <4>1, <4>3
    <3>3. run[k].saved \in 0..3 BY <1>0 DEF RunType
    <3> QED BY <3>2, <3>3
  <2>11. run[l].saved = 0 BY <2>1 DEF LauncherIInv, PersistInv
  <2>12. PersistInv'
    <3> HIDE DEF r
    <3>1. ASSUME NEW j \in Launches, NEW k \in Launches
          PROVE /\ (j # k /\ Underway(j) /\ Underway(k))' => <<j, k>> \in overlap'
                /\ (j # k /\ Underway(j) /\ run[j].keep /\ run[k].saved > 0)' =>
                      <<j, k>> \in overlap'
      <4>1. CASE j = l
        <5>1. k # l => (Underway(k)' <=> Underway(k)) /\ run'[k].saved = run[k].saved
          BY <2>3 DEF Underway
        <5>2. run'[j].keep = keep BY <2>3, <2>4, <4>1
        <5>3. (j # k /\ run'[j].keep) => run'[k].saved = 0
          BY <2>10, <4>1, <5>1, <5>2
        <5>4. ~(0 > 0) OBVIOUS
        <5> QED BY <2>9, <4>1, <5>1, <5>3, <5>4
      <4>2. CASE j # l /\ k = l
        BY <2>3, <2>4, <2>9, <2>11, <3>1, <4>2 DEF Underway
      <4>3. CASE j # l /\ k # l
        BY <2>3, <2>7, <3>1, <4>3 DEF Underway, LauncherIInv, PersistInv
      <4> QED BY <4>1, <4>2, <4>3
    <3>2. \A k \in Launches : run'[k].pc = "check" => run'[k].saved = 0
      BY <2>3, <2>4 DEF LauncherIInv, PersistInv
    <3>3. \A k \in Launches, i \in 1..3 : i <= run'[k].saved =>
             dest'[Files[i]].by = k \/ <<dest'[Files[i]].by, k>> \in overlap'
      BY <2>1, <2>3, <2>4, <2>7, <2>11 DEF LauncherIInv, PersistInv
    <3> QED BY <3>1, <3>2, <3>3 DEF PersistInv
  <2> QED BY <2>6, <2>8, <2>12 DEF LauncherIInv
<1> QED BY <1>1, <1>2 DEF Check

\* Persist: a file written over one of another launch is accounted for by the
\* overlap of the two.
LEMMA PersistStep ==
    ASSUME LauncherIInv, NEW l \in Launches, Persist(l)
    PROVE  LauncherIInv'
<1>0. run \in [Launches -> RunType] /\ run[l] \in RunType /\ LaunchInv(run[l])
  BY RunTyped DEF LauncherIInv
<1>1. /\ run[l].pc = "persist" /\ run[l].keep /\ run[l].saved < 3
      /\ UNCHANGED <<attFile, replaced, overlap>> /\ run[l].saved \in 0..3
  BY <1>0, FilesAre DEF Persist, At, RunType
<1>2. CASE UNCHANGED dest /\ Become(l, Returns(l, "BLOCKED"))
  <2> DEFINE r == Returns(l, "BLOCKED")
  <2>1. r \in RunType BY <1>0, ZenonT(40) DEF RunType, PcSet, Returns
  <2>2. LaunchInv(r)
    BY <1>0, <1>1 DEF Returns, RunType, LaunchInv, DecidedInv, RunnerInv, OutputsInv,
       NoCode,
       BeforeSpawn, BeforeClose, AfterInspect
  <2>3. Calm(l, r) BY <1>0, <1>1, <2>1, <2>2 DEF Calm, RunType, Returns, Underway
  <2> QED BY <1>1, <1>2, <2>3, CalmStep
<1>3. ASSUME NEW f, NEW o, f = Files[run[l].saved + 1], o \in -1..MaxWrites,
             dest' = [dest EXCEPT ![f] = [by |-> l, out |-> o]],
             Become(l, [run[l] EXCEPT !.saved = @ + 1])
      PROVE  LauncherIInv'
  <2> DEFINE r == [run[l] EXCEPT !.saved = @ + 1]
  <2>1. f \in FileSet BY <1>1, <1>3, FilesAre
  <2>2. r \in RunType BY <1>0, <1>1 DEF RunType
  <2>3. /\ run' \in [Launches -> RunType] /\ run'[l] = r
        /\ \A k \in Launches \ {l} : run'[k] = run[k]
    BY <1>0, <1>3, <2>2 DEF Become
  <2>4. /\ r.pc = "persist" /\ r.att = run[l].att /\ r.keep /\ r.saved = run[l].saved + 1
        /\ r.result = run[l].result /\ r.runner = run[l].runner /\ r.killed = run[l].killed
        /\ r.returncode = run[l].returncode /\ r.child = run[l].child /\ r.code = run[l].code
        /\ r.out = run[l].out /\ r.stdout = run[l].stdout /\ r.sealed = run[l].sealed
    BY <1>0, <1>1 DEF RunType
  <2> HIDE DEF r
  <2>5. LaunchInv(r)
    BY <1>0, <1>1, <2>4 DEF LaunchInv, DecidedInv, RunnerInv, OutputsInv, NoCode,
       BeforeSpawn, BeforeClose, AfterInspect
  <2>6. (\A k \in Launches : LaunchInv(run[k]))'
    BY <2>3, <2>5 DEF LauncherIInv
  <2>7. /\ dest' \in [FileSet -> [by : Launches \cup {NoLaunch}, out : -1..MaxWrites]]
        /\ dest'[f].by = l
        /\ \A g \in FileSet \ {f} : dest'[g] = dest[g]
    BY <1>3, <2>1, RunTyped DEF LauncherIInv
  <2>8. CLTypeOK'
    BY <1>1, <2>3, <2>7, FilesAre DEF LauncherIInv, CLTypeOK, RunType, PcSet
  <2>9. \A k \in Launches : (k # l /\ run[k].saved > 0) => <<l, k>> \in overlap
    BY <1>1 DEF LauncherIInv, PersistInv, Underway
  <2>10. PersistInv'
    <3>1. ASSUME NEW j \in Launches, NEW k \in Launches
          PROVE /\ (j # k /\ Underway(j) /\ Underway(k))' => <<j, k>> \in overlap'
                /\ (j # k /\ Underway(j) /\ run[j].keep /\ run[k].saved > 0)' =>
                      <<j, k>> \in overlap'
      BY <1>1, <2>3, <2>4, <3>1 DEF Underway, LauncherIInv, PersistInv
    <3>2. \A k \in Launches : run'[k].pc = "check" => run'[k].saved = 0
      BY <2>3, <2>4 DEF LauncherIInv, PersistInv
    <3>3. ASSUME NEW k \in Launches, NEW i \in 1..3, i <= run'[k].saved
          PROVE  dest'[Files[i]].by = k \/ <<dest'[Files[i]].by, k>> \in overlap'
      <4>0. Files[i] \in FileSet BY <3>3, FilesAre
      <4>1. CASE k = l /\ i = run[l].saved + 1
        BY <1>3, <2>7, <4>1
      <4>2. CASE k = l /\ i # run[l].saved + 1
        <5>1. i <= run[l].saved BY <1>1, <2>3, <2>4, <3>3, <4>2
        <5>2. Files[i] # f BY <1>1, <1>3, <3>3, <5>1, FilesAre
        <5> QED BY <1>1, <2>7, <4>0, <4>2, <5>1, <5>2 DEF LauncherIInv, PersistInv
      <4>3. CASE k # l
        <5>1. i <= run[k].saved /\ run[k].saved \in 0..3
          BY <1>0, <2>3, <3>3, <4>3 DEF RunType
        <5>2. <<l, k>> \in overlap BY <2>9, <4>3, <5>1
        <5>3. CASE Files[i] = f BY <1>1, <2>7, <5>2, <5>3
        <5>4. CASE Files[i] # f BY <1>1, <2>7, <4>0, <5>1, <5>4 DEF LauncherIInv, PersistInv
        <5> QED BY <5>3, <5>4
      <4> QED BY <4>1, <4>2, <4>3
    <3> QED BY <3>1, <3>2, <3>3 DEF PersistInv
  <2> QED BY <2>6, <2>8, <2>10 DEF LauncherIInv
<1>4. run[l].sealed \in -1..MaxWrites /\ run[l].stdout \in -1..MaxWrites
  BY <1>0 DEF RunType
<1> QED BY <1>2, <1>3, <1>4 DEF Persist

LEMMA LauncherStable ==
    ASSUME LauncherIInv, [CLNext]_clVars
    PROVE  LauncherIInv'
<1>1. CASE UNCHANGED clVars
  BY <1>1 DEF clVars, LauncherIInv, CLTypeOK, PersistInv, Underway
<1>2. CASE Attest
  BY <1>2, LauncherAssumption DEF Attest, LauncherIInv, CLTypeOK, PersistInv, Underway
<1>3. ASSUME NEW l \in Launches, CalmAction(l) \/ Check(l) \/ Persist(l)
      PROVE  LauncherIInv'
  BY <1>3, CalmActions, CheckStep, PersistStep
<1> QED BY <1>1, <1>2, <1>3 DEF CLNext, LauncherStep, CalmAction

\* The inductive invariant of launch_pinned_runner with its runners, their
\* children, other launches and the producer of attestations.
THEOREM LauncherInvariant == CLSpec => []LauncherIInv
<1>1. CLInit => LauncherIInv BY LauncherInitial
<1>2. LauncherIInv /\ [CLNext]_clVars => LauncherIInv' BY LauncherStable
<1> QED BY <1>1, <1>2, PTL DEF CLSpec

\* The launches, the attestation file and the destination keep their types, for
\* any number of launches.
THEOREM LauncherTypeCorrect == CLSpec => []CLTypeOK
<1>1. LauncherIInv => CLTypeOK BY DEF LauncherIInv
<1> QED BY <1>1, LauncherInvariant, PTL

\* gc_c1_launcher.py says RECORDED only of a runner that ended by itself with
\* exit code 0 on a ready attestation, whatever kill, deadline or death races it.
THEOREM RecordedRunsComplete == CLSpec => []RecordedRanToCompletion
<1>1. LauncherIInv => RecordedRanToCompletion
  <2> SUFFICES ASSUME LauncherIInv, NEW l \in Launches, run[l].result = "RECORDED"
               PROVE  /\ Ended(l) /\ ~run[l].killed /\ run[l].code = 0
                      /\ Ready(run[l].att)
    BY DEF RecordedRanToCompletion, Ready
  <2>1. LaunchInv(run[l]) BY DEF LauncherIInv
  <2> QED BY <2>1 DEF LaunchInv, DecidedInv, RunnerInv, Ended
<1> QED BY <1>1, LauncherInvariant, PTL

\* The output a launch reports is the one sealed and the one in the case root
\* unless a child escaped the job, and the artifacts it persisted are its own or
\* those of a launch that overlapped with it.
THEOREM ReportsMatchSeals == CLSpec => []ReportMatchesSeal
<1>1. LauncherIInv => ReportMatchesSeal
  <2> SUFFICES ASSUME LauncherIInv, NEW l \in Launches
               PROVE  /\ (run[l].result \in {"RECORDED", "FAIL"} /\ run[l].child = "none") =>
                            run[l].stdout = run[l].sealed /\ run[l].sealed = run[l].out
                      /\ run[l].saved = 3 =>
                            \A f \in FileSet : dest[f].by = l \/ <<dest[f].by, l>> \in overlap
    BY FilesAre DEF ReportMatchesSeal
  <2>1. LaunchInv(run[l]) BY DEF LauncherIInv
  <2>2. \A f \in FileSet : \E i \in 1..3 : f = Files[i] BY FilesAre
  <2>3. run[l].saved = 3 =>
            \A i \in 1..3 : dest[Files[i]].by = l \/ <<dest[Files[i]].by, l>> \in overlap
    <3>1. \A i \in 1..3 : i <= run[l].saved =>
             dest[Files[i]].by = l \/ <<dest[Files[i]].by, l>> \in overlap
      BY DEF LauncherIInv, PersistInv
    <3>2. \A i \in 1..3 : i <= 3 OBVIOUS
    <3> QED BY <3>1, <3>2
  <2>4. (run[l].result \in {"RECORDED", "FAIL"} /\ run[l].child = "none") =>
            run[l].stdout = run[l].sealed /\ run[l].sealed = run[l].out
    BY <2>1 DEF LaunchInv, OutputsInv
  <2> QED BY <2>2, <2>3, <2>4
<1> QED BY <1>1, LauncherInvariant, PTL


---------------------------------------------------------------------------
(* The handoff bundle: inductive invariant                                 *)

PreflightType ==
    [pc : {"idle", "print", "truncate", "write"}, case : Cases,
     result : Verdicts, checked : 0..Now, printed : 0..Now]

BundleType ==
    [pc : {"start", "collect", "copy", "status", "manifest", "payload", "sources",
           "inventory", "created", "failed", "refused"},
     todo : SUBSET Paths, entries : PartialTrees,
     status : Verdicts \cup {"UNAVAILABLE"},
     listed : PartialTrees, snap : PartialTrees, alone : BOOLEAN, moved : [Paths -> 0..2]]

TreeTyped ==
    /\ was \in Seq(Inputs) /\ Now > 0 /\ tree \in [Paths -> Contents]
    /\ tree[Source] = was[Now] /\ \A c \in Cases : tree[c] \in RecordFiles
    /\ origin \in [Cases -> [checked : Looks, printed : Looks]]
    /\ pf \in [Preflights -> PreflightType]

\* A preflight has looked at inputs that were there, and finds ready only what passed.
PreflightInv(r, w) ==
    /\ r.pc # "idle" => /\ r.checked \in 1..Len(w)
                        /\ r.result = "READY_FOR_REPLAY" => InputsVerified(w[r.checked])
    /\ r.pc \in {"truncate", "write"} => r.printed \in 1..Len(w)

\* A record carries the fingerprints of one look, and a ready one rests on another.
RecordInv(x, o, w) ==
    x.kind = "record" =>
        /\ x.print = Fingerprints(w[o.printed])
        /\ x.result = "READY_FOR_REPLAY" => InputsVerified(w[o.checked])

TreeInv ==
    /\ \A k \in Preflights : PreflightInv(pf[k], was)
    /\ \A c \in Cases : RecordInv(tree[c], origin[c], was)

Snapped == {"payload", "sources", "inventory", "created"}

BundleInv(x) ==
    /\ x.pc \in {"start", "collect"} => DOMAIN x.entries = {}
    /\ x.pc = "copy" => Selected \in x.todo \cup DOMAIN x.entries
    /\ x.pc \in {"status", "manifest"} \cup Snapped => Selected \in DOMAIN x.entries
    /\ x.pc \in Snapped => DOMAIN x.snap = Paths

\* What a snapshot must not do at path p: hold something else than was copied, or
\* something else than the status was read of.
Differs(x, p) ==
    \/ x.pc \in Snapped /\ x.snap[p] # x.entries[p]
    \/ /\ x.pc \in {"manifest"} \cup Snapped
       /\ p = Selected /\ x.status # RecordStatus(x.entries[p])

\* While a path is watched: unmoved, the tree t holds what was copied; where something
\* differs the path has moved, and if only once it has not come back.
WatchedInv(x, p, t) ==
    /\ x.moved[p] = 0 => t[p] = x.entries[p]
    /\ Differs(x, p) => x.moved[p] # 0 /\ (x.moved[p] = 1 => t[p] # x.entries[p])

\* A bundle that is alone reads back its own manifest, m on disk; a path that was
\* compared can only differ if it went and came back.
AloneInv(x, m, t) ==
    x.alone =>
        /\ x.pc = "payload" => m = x.entries
        /\ x.pc \in {"sources", "inventory", "created"} => x.listed = x.entries
        /\ \A p \in DOMAIN x.entries :
              IF p \in Watched(x) THEN WatchedInv(x, p, t)
              ELSE Differs(x, p) => x.moved[p] = 2

HandoffIInv ==
    /\ HOTypeOK
    /\ TreeInv
    /\ \A b \in Bundles : BundleInv(bundle[b]) /\ AloneInv(bundle[b], folder.manifest, tree)
    /\ \A b, k \in Bundles :
          (b # k /\ BundleUnderway(b) /\ bundle[b].alone) => ~BundleUnderway(k)

---------------------------------------------------------------------------
(* The replay of the declared cases: inductive invariant                   *)

ReplayType ==
    [pc : {"start", "contract", "gate", "folder", "execute", "copy", "seal", "verify",
           "reported", "raised", "died"},
     fp : Prints, manifest : Nat, contract : BOOLEAN, loaded : 0..Now,
     i : 1..(Len(Order) + 1), actual : Dispositions \cup {Nothing},
     disposition : [Cases -> Dispositions \cup {Nothing}],
     status : [Cases -> Lines],
     evidence : [Cases -> {"none", "BLOCKED", "UNVERIFIED", "FAIL"}],
     report : {"none", "R_FC_REPLAY_BLOCKED", "R_FC_REPLAY_PARTIAL",
               "R_FC_REPLAY_RECORDED"},
     keep : BOOLEAN, alone : BOOLEAN,
     judged : [Cases -> [checked : 0..Now, printed : 0..Now, attested : 0..Now]]]

InCase == {"folder", "execute", "copy", "seal", "verify"}

\* What the gate saw when it let a case through, w being what the inputs have held:
\* whatever the looks behind the record and the attestation, the first found sound
\* inputs, the second what the gate compares, the third everything pinned.
Judged(x, c, w) ==
    LET o == x.judged[c]
    IN  /\ o.checked \in 1..Len(w) /\ InputsVerified(w[o.checked])
        /\ o.printed \in 1..Len(w) /\ Compared(Fingerprints(w[o.printed])) = Compared(x.fp)
        /\ o.attested \in 1..Len(w) /\ Fingerprints(w[o.attested]) = x.fp

\* One replay: the case it is in was let through the gate, as was every recorded one,
\* and a disposition is known from the handler's return on.
CaseInv(x, w) ==
    /\ x.pc \in InCase => x.i <= Len(Order) /\ Judged(x, Order[x.i], w)
    /\ x.pc \in {"copy", "seal", "verify"} => x.actual \in Dispositions
    /\ x.pc \in {"copy", "seal"} => x.keep
    /\ \A c \in Cases : x.status[c] = "RECORDED" =>
          Judged(x, c, w) /\ x.disposition[c] \in Dispositions
    /\ x.pc = "start" => \A c \in Cases : x.status[c] = Nothing

\* One replay and the directories d: what it wrote is there while it is alone, and its
\* recorded evidence stays.
FolderInv(x, d) ==
    (x.keep /\ x.alone) =>
        /\ x.pc \in {"seal", "verify"} => d[Order[x.i]].result = x.actual
        /\ x.pc = "verify" => d[Order[x.i]].sealed = x.actual
        /\ \A c \in Cases : x.status[c] = "RECORDED" =>
              d[c].result = x.disposition[c] /\ d[c].sealed = x.disposition[c]

Writing == {"execute", "copy", "seal", "verify"}

\* Nobody writes to the directory of a case that has recorded evidence.
WriterInv ==
    \A r, k \in Replays :
        (/\ replay[k].pc \in Writing /\ replay[k].keep
         /\ replay[r].keep /\ replay[r].alone) =>
            ~Recorded(r, Order[replay[k].i])

ReplayIInv ==
    /\ TreeTyped /\ TreeInv
    /\ CRTypeOK
    /\ \A r \in Replays : CaseInv(replay[r], was) /\ FolderInv(replay[r], kept)
    /\ WriterInv
    /\ \A r, k \in Replays :
          (r # k /\ ReplayUnderway(r) /\ replay[r].alone) => ~ReplayUnderway(k)


---------------------------------------------------------------------------
(* The tree: proofs                                                        *)

\* What a step does to the history of the inputs: it is only added to.
Grows ==
    /\ was' \in Seq(Inputs) /\ Now \in Nat /\ Now' \in Nat /\ Now <= Now'
    /\ \A n \in Looks : was'[n] = was[n]

LEMMA PathsAre ==
    /\ Source \in Paths /\ Selected \in Paths /\ Cases \subseteq Paths
    /\ Selected \in Cases /\ Source \notin Cases
    /\ RecordFiles \subseteq Contents /\ Inputs \subseteq Contents
BY HandoffAssumption DEF Paths, Contents

LEMMA RecordFilesAre ==
    /\ Absent \in RecordFiles /\ Empty \in RecordFiles /\ Mixed \in RecordFiles
    /\ Absent.kind # "record" /\ Empty.kind # "record" /\ Mixed.kind # "record"
    /\ \A r \in Verdicts, f \in Prints, t \in Seconds :
          LET x == PreflightRecord(r, f, t)
          IN  x \in RecordFiles /\ x.kind = "record" /\ x.result = r /\ x.print = f
    /\ \A x \in RecordFiles : RecordStatus(x) \in Verdicts \cup {"UNAVAILABLE"}
    /\ \A x \in RecordFiles : RecordStatus(x) = "READY_FOR_REPLAY" =>
          x.kind = "record" /\ x.result = "READY_FOR_REPLAY"
<1>1. Absent \in RecordFiles /\ Empty \in RecordFiles /\ Mixed \in RecordFiles
  BY DEF RecordFiles
<1>2. Absent.kind # "record" /\ Empty.kind # "record" /\ Mixed.kind # "record"
  BY DEF Absent, Empty, Mixed
<1>3. ASSUME NEW r \in Verdicts, NEW f \in Prints, NEW t \in Seconds
      PROVE  LET x == PreflightRecord(r, f, t)
             IN  x \in RecordFiles /\ x.kind = "record" /\ x.result = r /\ x.print = f
  BY DEF RecordFiles, PreflightRecord
<1>4. ASSUME NEW x \in RecordFiles
      PROVE  /\ RecordStatus(x) \in Verdicts \cup {"UNAVAILABLE"}
             /\ RecordStatus(x) = "READY_FOR_REPLAY" =>
                   x.kind = "record" /\ x.result = "READY_FOR_REPLAY"
  <2>1. CASE x.kind = "record"
    <3>1. x \in [kind : {"record"}, result : Verdicts, print : Prints, at : Seconds]
      BY <1>2, <2>1 DEF RecordFiles
    <3> QED BY <2>1, <3>1 DEF RecordStatus
  <2>2. CASE x.kind # "record" BY <2>2 DEF RecordStatus
  <2> QED BY <2>1, <2>2
<1> QED BY <1>1, <1>2, <1>3, <1>4

LEMMA TreeInitial == HOInit => TreeTyped /\ TreeInv
<1> SUFFICES ASSUME HOInit PROVE TreeTyped /\ TreeInv OBVIOUS
<1>1. PICK v \in Inputs, t \in Seconds, r \in {"READY_FOR_REPLAY", "BLOCKED"} :
         /\ r = "READY_FOR_REPLAY" => InputsVerified(v)
         /\ was = <<v>>
         /\ \E x \in {Absent, PreflightRecord(r, Fingerprints(v), t)} :
              tree = [p \in Paths |-> CASE p = Source -> v [] p = Selected -> x [] OTHER -> Absent]
  BY DEF HOInit
<1>2. was \in Seq(Inputs) /\ Now = 1 /\ was[1] = v BY <1>1 DEF Now
<1>3. r \in Verdicts /\ Fingerprints(v) \in Prints BY DEF Verdicts, Prints
<1>4. PICK x \in {Absent, PreflightRecord(r, Fingerprints(v), t)} :
        tree = [p \in Paths |-> CASE p = Source -> v [] p = Selected -> x [] OTHER -> Absent]
  BY <1>1
<1>5. x \in RecordFiles /\ (x.kind = "record" => x.result = r /\ x.print = Fingerprints(v))
  BY <1>3, RecordFilesAre
<1>6. \A p \in Paths : tree[p] = CASE p = Source -> v [] p = Selected -> x [] OTHER -> Absent
  BY <1>4
<1>7. /\ tree[Source] = v
      /\ \A c \in Cases : tree[c] \in {x, Absent}
  BY <1>6, PathsAre
<1>8. \A c \in Cases : tree[c] \in RecordFiles BY <1>5, <1>7, RecordFilesAre
<1>9. tree \in [Paths -> Contents]
  <2>1. \A p \in Paths : p = Source \/ p \in Cases BY DEF Paths
  <2>2. \A p \in Paths : tree[p] \in Contents BY <1>7, <1>8, <2>1, PathsAre
  <2> QED BY <1>4, <2>2
<1>10. /\ origin = [c \in Cases |-> [checked |-> 1, printed |-> 1]]
       /\ pf = [k \in Preflights |-> NewPreflight]
  BY DEF HOInit
<1>11. NewPreflight \in PreflightType /\ NewPreflight.pc = "idle"
  BY <1>2, PathsAre DEF NewPreflight, PreflightType, Verdicts
<1>12. TreeTyped
  <2>1. origin \in [Cases -> [checked : Looks, printed : Looks]] BY <1>2, <1>10 DEF Looks
  <2>2. pf \in [Preflights -> PreflightType] BY <1>10, <1>11
  <2> QED BY <1>2, <1>7, <1>8, <1>9, <2>1, <2>2 DEF TreeTyped
<1>13. \A k \in Preflights : PreflightInv(pf[k], was)
  BY <1>10, <1>11 DEF PreflightInv
<1>14. \A c \in Cases : RecordInv(tree[c], origin[c], was)
  BY <1>1, <1>2, <1>5, <1>7, <1>10, RecordFilesAre DEF RecordInv
<1> QED BY <1>12, <1>13, <1>14 DEF TreeInv

\* When no look is added to the history.
LEMMA SameLooks ==
    ASSUME TreeTyped, was' = was
    PROVE  /\ Grows /\ Now' = Now /\ Now \in Nat /\ PreflightType' = PreflightType
           /\ Looks' = Looks
BY DEF TreeTyped, Grows, Now, Looks, PreflightType

\* When one preflight moves.
LEMMA PreflightMoves ==
    ASSUME TreeTyped, TreeInv, NEW k \in Preflights, NEW r \in PreflightType,
           MovePf(k, r), PreflightInv(r, was), was' = was
    PROVE  /\ pf' \in [Preflights -> PreflightType']
           /\ \A j \in Preflights : PreflightInv(pf'[j], was')
<1>1. /\ pf' \in [Preflights -> PreflightType] /\ pf'[k] = r
      /\ \A j \in Preflights \ {k} : pf'[j] = pf[j]
  BY DEF MovePf, TreeTyped
<1>2. pf' \in [Preflights -> PreflightType'] BY <1>1, SameLooks
<1>3. \A j \in Preflights : PreflightInv(pf'[j], was) BY <1>1 DEF TreeInv
<1> QED BY <1>2, <1>3

\* When the content of one path is replaced.
LEMMA WritesStep ==
    ASSUME TreeTyped, NEW p \in Paths, NEW v \in Contents, Writes(p, v)
    PROVE  /\ tree' \in [Paths -> Contents] /\ tree'[p] = v
           /\ \A q \in Paths \ {p} : tree'[q] = tree[q]
BY DEF TreeTyped, Writes

\* When a preflight writes to the record of its case.
LEMMA RecordStep ==
    ASSUME TreeTyped, TreeInv, NEW k \in Preflights, NEW c \in Cases, NEW x \in RecordFiles,
           NEW o \in [checked : Looks, printed : Looks], NEW r \in PreflightType,
           Writes(c, x), origin' = [origin EXCEPT ![c] = o], was' = was, MovePf(k, r),
           PreflightInv(r, was), RecordInv(x, o, was)
    PROVE  TreeTyped' /\ TreeInv' /\ Grows
<1>1. c \in Paths /\ c # Source /\ x \in Contents BY PathsAre
<1>2. /\ tree' \in [Paths -> Contents] /\ tree'[c] = x
      /\ \A q \in Paths \ {c} : tree'[q] = tree[q]
  BY <1>1, WritesStep
<1>3. /\ origin' \in [Cases -> [checked : Looks, printed : Looks]] /\ origin'[c] = o
      /\ \A d \in Cases \ {c} : origin'[d] = origin[d]
  BY DEF TreeTyped
<1>4. \A d \in Cases : d = c \/ (tree'[d] = tree[d] /\ origin'[d] = origin[d])
  BY <1>2, <1>3, PathsAre
<1>5. \A d \in Cases : tree'[d] \in RecordFiles /\ RecordInv(tree'[d], origin'[d], was)
  BY <1>2, <1>3, <1>4 DEF TreeTyped, TreeInv
<1>6. tree'[Source] = was[Now] BY <1>1, <1>2, PathsAre DEF TreeTyped
<1>7. /\ pf' \in [Preflights -> PreflightType']
      /\ \A j \in Preflights : PreflightInv(pf'[j], was')
  BY PreflightMoves
<1>8. TreeTyped'
  BY <1>2, <1>3, <1>5, <1>6, <1>7, SameLooks DEF TreeTyped
<1>9. TreeInv' BY <1>5, <1>7 DEF TreeInv
<1> QED BY <1>8, <1>9, SameLooks

\* When only preflights move.
LEMMA LookStep ==
    ASSUME TreeTyped, TreeInv, NEW k \in Preflights, NEW r \in PreflightType,
           MovePf(k, r), PreflightInv(r, was), UNCHANGED <<tree, was, origin>>
    PROVE  TreeTyped' /\ TreeInv' /\ Grows
<1>1. /\ pf' \in [Preflights -> PreflightType']
      /\ \A j \in Preflights : PreflightInv(pf'[j], was')
  BY PreflightMoves
<1>2. TreeTyped' BY <1>1, SameLooks DEF TreeTyped
<1>3. TreeInv' BY <1>1 DEF TreeInv
<1> QED BY <1>2, <1>3, SameLooks

LEMMA EditStep ==
    ASSUME TreeTyped, TreeInv, Edit
    PROVE  /\ TreeTyped' /\ TreeInv' /\ Grows
           /\ \E v \in Contents : Writes(Source, v)
<1>1. PICK v \in Inputs : Writes(Source, v) /\ was' = Append(was, v) BY DEF Edit
<1>2. UNCHANGED <<pf, folder, origin>> BY DEF Edit
<1>3. /\ was \in Seq(Inputs) /\ was' \in Seq(Inputs) /\ Now \in Nat /\ Now' = Now + 1
      /\ Now > 0 /\ \A n \in 1..Now : was'[n] = was[n]
      /\ was'[Now + 1] = v
  BY <1>1 DEF TreeTyped, Now
<1>4. Grows BY <1>3 DEF Grows, Looks
<1>5. v \in Contents /\ Source \in Paths BY PathsAre
<1>6. /\ tree' \in [Paths -> Contents] /\ tree'[Source] = v
      /\ \A q \in Paths \ {Source} : tree'[q] = tree[q]
  BY <1>1, <1>5, WritesStep
<1>7. \A c \in Cases : tree'[c] = tree[c] BY <1>6, PathsAre
<1>8. PreflightType \subseteq PreflightType' BY <1>3 DEF PreflightType
<1>9. pf' \in [Preflights -> PreflightType'] BY <1>2, <1>8 DEF TreeTyped
<1>10. origin' \in [Cases -> [checked : Looks', printed : Looks']]
  <2>1. Looks \subseteq Looks' BY <1>3 DEF Looks
  <2>2. [checked : Looks, printed : Looks] \subseteq [checked : Looks', printed : Looks']
    BY <2>1
  <2> QED BY <1>2, <2>2 DEF TreeTyped
<1>11. TreeTyped'
  BY <1>3, <1>6, <1>7, <1>9, <1>10 DEF TreeTyped
<1>12. \A k \in Preflights : PreflightInv(pf'[k], was')
  <2> SUFFICES ASSUME NEW k \in Preflights PROVE PreflightInv(pf[k], was') BY <1>2
  <2>1. PreflightInv(pf[k], was) BY DEF TreeInv
  <2> QED BY <1>3, <2>1 DEF PreflightInv, Now
<1>13. \A c \in Cases : RecordInv(tree'[c], origin'[c], was')
  <2> SUFFICES ASSUME NEW c \in Cases PROVE RecordInv(tree[c], origin[c], was') BY <1>2, <1>7
  <2>1. RecordInv(tree[c], origin[c], was) BY DEF TreeInv
  <2>2. origin[c].printed \in 1..Now /\ origin[c].checked \in 1..Now BY DEF TreeTyped, Looks
  <2> QED BY <1>3, <2>1, <2>2 DEF RecordInv
<1> QED BY <1>1, <1>4, <1>5, <1>11, <1>12, <1>13 DEF TreeInv

\* Every step of an editor or a preflight keeps the tree's invariant: a ready
\* record is only ever made of inputs that were checked.
LEMMA TreeStep ==
    ASSUME TreeTyped, TreeInv, TreeNext
    PROVE  /\ TreeTyped' /\ TreeInv' /\ Grows /\ UNCHANGED folder
           /\ \/ UNCHANGED <<tree, bundle>>
              \/ \E p \in Paths, v \in Contents : Writes(p, v)
<1>0. /\ \A k \in Preflights : pf[k] \in PreflightType /\ PreflightInv(pf[k], was)
      /\ Now \in Nat /\ Now > 0 /\ Looks = 1..Now /\ tree[Source] = was[Now]
      /\ Now = Len(was) /\ \A n \in Looks : Fingerprints(was[n]) \in Prints
  BY DEF TreeTyped, TreeInv, Looks, Now, Prints
<1>1. CASE Edit
  BY <1>1, EditStep, PathsAre DEF Edit
<1>3. ASSUME NEW k \in Preflights, PreflightCheck(k)
      PROVE  TreeTyped' /\ TreeInv' /\ Grows
  <2>1. PICK c \in Cases, supplied \in BOOLEAN :
          MovePf(k, Checked(c, supplied /\ InputsVerified(tree[Source])))
    BY <1>3 DEF PreflightCheck
  <2> DEFINE r == Checked(c, supplied /\ InputsVerified(tree[Source]))
  <2>a. PICK v \in Verdicts :
          v = IF supplied /\ InputsVerified(tree[Source]) THEN "READY_FOR_REPLAY" ELSE "BLOCKED"
    BY DEF Verdicts
  <2>b. r = [pc |-> "print", case |-> c, result |-> v, checked |-> Now, printed |-> 0]
    <3>1. r = [NewPreflight EXCEPT !.pc = "print", !.case = c, !.checked = Now, !.result = v]
      BY <2>a, Zenon DEF Checked
    <3> HIDE DEF r
    <3> QED BY <3>1 DEF NewPreflight
  <2>2. /\ r \in PreflightType /\ r.pc = "print" /\ r.checked = Now
        /\ r.result = "READY_FOR_REPLAY" => InputsVerified(tree[Source])
    BY <1>0, <2>a, <2>b DEF PreflightType
  <2> HIDE DEF r
  <2>3. PreflightInv(r, was) BY <1>0, <2>2 DEF PreflightInv
  <2>4. UNCHANGED <<tree, was, origin>> BY <1>3 DEF PreflightCheck
  <2>5. MovePf(k, r) BY <2>1 DEF r
  <2> QED BY <2>2, <2>3, <2>4, <2>5, LookStep
<1>4. ASSUME NEW k \in Preflights, PreflightPrint(k)
      PROVE  TreeTyped' /\ TreeInv' /\ Grows
  <2> DEFINE r == [pf[k] EXCEPT !.pc = "truncate", !.printed = Now]
  <2>1. /\ r \in PreflightType /\ r.pc = "truncate" /\ r.printed = Now
        /\ r.checked = pf[k].checked /\ r.result = pf[k].result /\ pf[k].pc = "print"
    <3>1. pf[k] \in PreflightType /\ pf[k].pc = "print" /\ Now \in 0..Now
      BY <1>0, <1>4 DEF PreflightPrint
    <3> QED BY <3>1 DEF PreflightType
  <2>2. MovePf(k, r) /\ UNCHANGED <<tree, was, origin>> BY <1>4 DEF PreflightPrint
  <2> HIDE DEF r
  <2>3. PreflightInv(r, was) BY <1>0, <2>1 DEF PreflightInv
  <2> QED BY <2>1, <2>2, <2>3, LookStep
<1>5. ASSUME NEW k \in Preflights, PreflightTruncate(k)
      PROVE  TreeTyped' /\ TreeInv' /\ Grows /\ \E p \in Paths, v \in Contents : Writes(p, v)
  <2> DEFINE r == [pf[k] EXCEPT !.pc = "write"]
             c == pf[k].case
  <2>1. /\ r \in PreflightType /\ r.pc = "write" /\ r.printed = pf[k].printed
        /\ r.checked = pf[k].checked /\ r.result = pf[k].result /\ pf[k].pc = "truncate"
        /\ c \in Cases
    BY <1>0, <1>5 DEF PreflightType, PreflightTruncate
  <2>2. MovePf(k, r) /\ Writes(c, Empty) /\ UNCHANGED <<was, origin>>
    BY <1>5 DEF PreflightTruncate
  <2> HIDE DEF r, c
  <2>3. PreflightInv(r, was) BY <1>0, <2>1 DEF PreflightInv
  <2>4. /\ origin[c] \in [checked : Looks, printed : Looks]
        /\ origin' = [origin EXCEPT ![c] = origin[c]]
    BY <2>1, <2>2 DEF TreeTyped
  <2>5. Empty \in RecordFiles /\ RecordInv(Empty, origin[c], was)
    BY RecordFilesAre DEF RecordInv
  <2>6. TreeTyped' /\ TreeInv' /\ Grows BY <2>1, <2>2, <2>3, <2>4, <2>5, RecordStep
  <2> QED BY <2>1, <2>2, <2>5, <2>6, PathsAre
<1>6. ASSUME NEW k \in Preflights, PreflightWrite(k)
      PROVE  TreeTyped' /\ TreeInv' /\ Grows /\ \E p \in Paths, v \in Contents : Writes(p, v)
  <2> DEFINE c == pf[k].case
             o == [checked |-> pf[k].checked, printed |-> pf[k].printed]
             f == Fingerprints(was[pf[k].printed])
  <2>1. /\ c \in Cases /\ pf[k].result \in Verdicts
        /\ pf[k].checked \in Looks /\ pf[k].printed \in Looks
        /\ pf[k].result = "READY_FOR_REPLAY" => InputsVerified(was[pf[k].checked])
    BY <1>0, <1>6 DEF PreflightType, PreflightWrite, PreflightInv
  <2>2. o \in [checked : Looks, printed : Looks] /\ f \in Prints BY <1>0, <2>1
  <2>3. NewPreflight \in PreflightType /\ NewPreflight.pc = "idle"
    BY <1>0, PathsAre DEF NewPreflight, PreflightType, Verdicts
  <2>4. PreflightInv(NewPreflight, was) BY <2>3 DEF PreflightInv
  <2>5. PICK x \in RecordFiles :
          Writes(c, x) /\ (x.kind = "record" => x.result = pf[k].result /\ x.print = f)
    <3>1. \/ \E t \in Seconds : Writes(c, PreflightRecord(pf[k].result, f, t))
          \/ Writes(c, Mixed)
      BY <1>6 DEF PreflightWrite
    <3>2. CASE Writes(c, Mixed) BY <3>2, RecordFilesAre
    <3>3. CASE \E t \in Seconds : Writes(c, PreflightRecord(pf[k].result, f, t))
      <4>1. PICK t \in Seconds : Writes(c, PreflightRecord(pf[k].result, f, t)) BY <3>3
      <4> DEFINE x == PreflightRecord(pf[k].result, f, t)
      <4>2. x \in RecordFiles /\ x.result = pf[k].result /\ x.print = f
        BY <2>1, <2>2, RecordFilesAre
      <4> HIDE DEF x, f, c
      <4>3. Writes(c, x) BY <4>1 DEF x
      <4> QED BY <4>2, <4>3
    <3> QED BY <3>1, <3>2, <3>3
  <2>6. /\ origin' = [origin EXCEPT ![c] = o] /\ was' = was /\ MovePf(k, NewPreflight)
    BY <1>6 DEF PreflightWrite
  <2>7. RecordInv(x, o, was) BY <2>1, <2>5 DEF RecordInv
  <2> HIDE DEF c, o, f
  <2>8. TreeTyped' /\ TreeInv' /\ Grows
    BY <2>1, <2>2, <2>3, <2>4, <2>5, <2>6, <2>7, RecordStep
  <2> QED BY <2>1, <2>5, <2>8, PathsAre
<1>7. /\ UNCHANGED folder
      /\ \A k \in Preflights : PreflightCheck(k) \/ PreflightPrint(k) => UNCHANGED <<tree, bundle>>
  BY DEF TreeNext, Edit, PreflightCheck, PreflightPrint, PreflightTruncate, PreflightWrite
<1> QED BY <1>1, <1>3, <1>4, <1>5, <1>6, <1>7, EditStep, PathsAre DEF TreeNext

---------------------------------------------------------------------------
(* The handoff bundle: proofs                                              *)

FolderType == [exists : BOOLEAN, payload : PartialTrees, manifest : PartialTrees]

LEMMA HandoffTyped ==
    HOTypeOK <=> /\ TreeTyped /\ bundle \in [Bundles -> BundleType]
                 /\ folder \in FolderType
BY DEF HOTypeOK, TreeTyped, PreflightType, BundleType, FolderType

LEMMA PartialTreesAre ==
    ASSUME NEW f
    PROVE  f \in PartialTrees <=>
              f \in [DOMAIN f -> Contents] /\ DOMAIN f \subseteq Paths
BY DEF PartialTrees

LEMMA PutKeeps ==
    ASSUME NEW f \in PartialTrees, NEW p \in Paths, NEW v \in Contents
    PROVE  /\ Put(f, p, v) \in PartialTrees
           /\ DOMAIN Put(f, p, v) = DOMAIN f \cup {p}
           /\ Put(f, p, v)[p] = v
           /\ \A q \in DOMAIN f \ {p} : Put(f, p, v)[q] = f[q]
<1>1. f \in [DOMAIN f -> Contents] /\ DOMAIN f \subseteq Paths
  BY PartialTreesAre
<1>2. /\ Put(f, p, v) \in [DOMAIN f \cup {p} -> Contents]
      /\ DOMAIN Put(f, p, v) = DOMAIN f \cup {p}
      /\ Put(f, p, v)[p] = v
      /\ \A q \in DOMAIN f \ {p} : Put(f, p, v)[q] = f[q]
  BY <1>1 DEF Put
<1> QED BY <1>1, <1>2, PartialTreesAre

\* When the tree stays as it is.
LEMMA TreeStays ==
    ASSUME TreeTyped, TreeInv, UNCHANGED <<tree, pf, was, origin>>
    PROVE  TreeTyped' /\ TreeInv' /\ Grows
BY SameLooks DEF TreeTyped, TreeInv

\* A bundle that has copied nothing, or came to nothing.
LEMMA NothingCopied ==
    ASSUME NEW x, NEW m, NEW t, x.pc \in {"collect", "failed", "refused"},
           x.pc = "collect" => DOMAIN x.entries = {}
    PROVE  BundleInv(x) /\ AloneInv(x, m, t)
<1>1. x.pc \notin {"start", "copy", "status", "manifest", "payload", "sources", "inventory",
                   "created"}
  OBVIOUS
<1>2. Watched(x) = {} /\ \A p : ~Differs(x, p) BY <1>1 DEF Watched, Differs, Snapped
<1> QED BY <1>1, <1>2 DEF BundleInv, AloneInv, Snapped

\* When neither the tree nor a bundle moves.
LEMMA BundlesUnmoved ==
    ASSUME HandoffIInv, TreeTyped', TreeInv', UNCHANGED <<tree, bundle, folder>>
    PROVE  HandoffIInv'
<1>1. HOTypeOK' BY HandoffTyped DEF HandoffIInv, HOTypeOK, TreeTyped, PreflightType
<1>2. (\A b \in Bundles : BundleInv(bundle[b]) /\ AloneInv(bundle[b], folder.manifest, tree))'
  BY DEF HandoffIInv
<1>3. (\A b, k \in Bundles :
          (b # k /\ BundleUnderway(b) /\ bundle[b].alone) => ~BundleUnderway(k))'
  BY DEF HandoffIInv, BundleUnderway
<1> QED BY <1>1, <1>2, <1>3 DEF HandoffIInv

\* When the content of a path is replaced: a watched path moved once more, and one
\* that already differed has now moved twice.
LEMMA BundlesUnderWrites ==
    ASSUME HandoffIInv, TreeTyped', TreeInv', UNCHANGED folder,
           NEW p \in Paths, NEW v \in Contents, Writes(p, v)
    PROVE  HandoffIInv'
<1>0. /\ TreeTyped /\ bundle \in [Bundles -> BundleType] /\ folder \in FolderType
      /\ \A b \in Bundles : BundleInv(bundle[b]) /\ AloneInv(bundle[b], folder.manifest, tree)
  BY HandoffTyped DEF HandoffIInv
<1>1. tree'[p] = v /\ \A q \in Paths \ {p} : tree'[q] = tree[q]
  BY <1>0, WritesStep
<1>2. ASSUME NEW b \in Bundles
      PROVE  LET o == bundle[b]
                 y == bundle'[b]
             IN  /\ y \in BundleType /\ y.pc = o.pc /\ y.todo = o.todo /\ y.entries = o.entries
                 /\ y.status = o.status /\ y.listed = o.listed /\ y.snap = o.snap
                 /\ y.alone = o.alone /\ \A q \in Paths \ {p} : y.moved[q] = o.moved[q]
                 /\ y.moved[p] = IF p \in Watched(o) /\ v # tree[p]
                                 THEN Once(o.moved[p]) ELSE o.moved[p]
  <2> DEFINE o == bundle[b]
             y == bundle'[b]
             m == [o.moved EXCEPT ![p] = Once(o.moved[p])]
  <2>1. o \in BundleType /\ o.moved \in [Paths -> 0..2] BY <1>0 DEF BundleType
  <2>2. Once(o.moved[p]) \in 0..2 BY <2>1 DEF Once
  <2>3. /\ m \in [Paths -> 0..2] /\ m[p] = Once(o.moved[p])
        /\ \A q \in Paths \ {p} : m[q] = o.moved[q]
    BY <2>1, <2>2
  <2>4. CASE p \in Watched(o) /\ v # tree[p]
    <3>1. y = [o EXCEPT !.moved = m] BY <2>4 DEF Writes
    <3> HIDE DEF m, o, y
    <3>2. /\ y \in BundleType /\ y.pc = o.pc /\ y.todo = o.todo /\ y.entries = o.entries
          /\ y.status = o.status /\ y.listed = o.listed /\ y.snap = o.snap
          /\ y.alone = o.alone /\ y.moved = m
      BY <2>1, <2>3, <3>1 DEF BundleType
    <3> QED BY <2>3, <2>4, <3>2 DEF o, y
  <2>5. CASE ~(p \in Watched(o) /\ v # tree[p])
    <3>1. y = o BY <2>5 DEF Writes
    <3> QED BY <2>1, <2>5, <3>1
  <2> QED BY <2>4, <2>5
<1>3. bundle' \in [Bundles -> BundleType]
  <2>1. bundle' = [b \in Bundles |-> bundle'[b]] BY DEF Writes
  <2> QED BY <1>2, <2>1
<1>4. HOTypeOK'
  BY <1>0, <1>3 DEF HOTypeOK, TreeTyped, PreflightType, BundleType, FolderType
<1>5. ASSUME NEW b \in Bundles
      PROVE  BundleInv(bundle'[b]) /\ AloneInv(bundle'[b], folder.manifest, tree')
  <2> DEFINE o == bundle[b]
             y == bundle'[b]
  <2>1. /\ y.pc = o.pc /\ y.todo = o.todo /\ y.entries = o.entries /\ y.status = o.status
        /\ y.listed = o.listed /\ y.snap = o.snap /\ y.alone = o.alone
        /\ \A q \in Paths \ {p} : y.moved[q] = o.moved[q]
        /\ y.moved[p] = IF p \in Watched(o) /\ v # tree[p] THEN Once(o.moved[p]) ELSE o.moved[p]
    BY <1>2
  <2>2. BundleInv(o) /\ AloneInv(o, folder.manifest, tree) BY <1>0
  <2>3. o \in BundleType /\ DOMAIN o.entries \subseteq Paths /\ o.moved[p] \in 0..2
    BY <1>0, PartialTreesAre DEF BundleType
  <2> HIDE DEF o, y
  <2>4. Watched(y) = Watched(o) BY <2>1 DEF Watched
  <2>5. \A q : Differs(y, q) <=> Differs(o, q) BY <2>1 DEF Differs
  <2>6. BundleInv(y) BY <2>1, <2>2 DEF BundleInv
  <2>7. ASSUME y.alone, NEW q \in DOMAIN y.entries
        PROVE  IF q \in Watched(y) THEN WatchedInv(y, q, tree') ELSE Differs(y, q) => y.moved[q] = 2
    <3>1. IF q \in Watched(o) THEN WatchedInv(o, q, tree) ELSE Differs(o, q) => o.moved[q] = 2
      BY <2>1, <2>2, <2>7 DEF AloneInv
    <3>2. q \in Paths BY <2>1, <2>3, <2>7
    <3>3. CASE q # p
      BY <1>1, <2>1, <2>4, <2>5, <3>1, <3>2, <3>3 DEF WatchedInv
    <3>4. CASE q = p /\ ~(p \in Watched(o) /\ v # tree[p])
      BY <1>1, <2>1, <2>4, <2>5, <3>1, <3>4 DEF WatchedInv
    <3>5. CASE q = p /\ p \in Watched(o) /\ v # tree[p]
      <4>1. Differs(o, p) => o.moved[p] # 0 BY <3>1, <3>5 DEF WatchedInv
      <4>2. y.moved[p] # 0 /\ (y.moved[p] = 1 => o.moved[p] = 0)
        BY <2>1, <2>3, <3>5 DEF Once
      <4> QED BY <2>4, <2>5, <3>5, <4>1, <4>2 DEF WatchedInv
    <3> QED BY <3>3, <3>4, <3>5
  <2>8. AloneInv(y, folder.manifest, tree')
    BY <2>1, <2>2, <2>7 DEF AloneInv
  <2> QED BY <2>6, <2>8 DEF y
<1>6. (\A b \in Bundles : BundleInv(bundle[b]) /\ AloneInv(bundle[b], folder.manifest, tree))'
  BY <1>5
<1>7. (\A b, k \in Bundles :
          (b # k /\ BundleUnderway(b) /\ bundle[b].alone) => ~BundleUnderway(k))'
  BY <1>2 DEF HandoffIInv, BundleUnderway
<1> QED BY <1>4, <1>6, <1>7 DEF HandoffIInv

\* When one bundle moves and the tree does not.
LEMMA BundleMoves ==
    ASSUME HandoffIInv, NEW b \in Bundles, NEW x \in BundleType, MoveB(b, x),
           BundleInv(x), AloneInv(x, folder'.manifest, tree), x.alone = bundle[b].alone,
           BundleUnderway(b), folder' \in FolderType,
           UNCHANGED <<tree, pf, was, origin>>
    PROVE  HandoffIInv'
<1>1. bundle \in [Bundles -> BundleType] BY HandoffTyped DEF HandoffIInv
<1>2. /\ bundle' \in [Bundles -> BundleType] /\ bundle'[b] = x
      /\ \A k \in Bundles \ {b} : bundle'[k] = bundle[k]
  BY <1>1 DEF MoveB
<1>3. TreeTyped' /\ TreeInv'
  BY HandoffTyped, TreeStays DEF HandoffIInv
<1>4. HOTypeOK' BY <1>2, <1>3 DEF HOTypeOK, TreeTyped, PreflightType, BundleType, FolderType
<1>5. \A k \in Bundles : BundleInv(bundle'[k])
  BY <1>2 DEF HandoffIInv
<1>6. (\A k \in Bundles : BundleInv(bundle[k]))'
  BY <1>5 DEF BundleInv
<1>7. ASSUME NEW k \in Bundles PROVE AloneInv(bundle'[k], folder'.manifest, tree)
  <2>1. CASE k = b BY <1>2, <2>1
  <2>2. CASE k # b
    <3>1. bundle'[k] = bundle[k] /\ AloneInv(bundle[k], folder.manifest, tree)
      BY <1>2, <2>2 DEF HandoffIInv
    <3>2. bundle[k].alone => ~BundleUnderway(k)
      BY <2>2 DEF HandoffIInv
    <3>3. bundle[k].alone => bundle[k].pc # "payload"
      BY <3>2 DEF BundleUnderway
    <3> QED BY <3>1, <3>3 DEF AloneInv
  <2> QED BY <2>1, <2>2
<1>8. \A k \in Bundles : BundleUnderway(k)' => BundleUnderway(k)
  BY <1>2 DEF BundleUnderway
<1>9. \A k \in Bundles : bundle'[k].alone = bundle[k].alone
  BY <1>2
<1>10. (\A c, k \in Bundles :
          (c # k /\ BundleUnderway(c) /\ bundle[c].alone) => ~BundleUnderway(k))'
  BY <1>8, <1>9 DEF HandoffIInv
<1> QED BY <1>3, <1>4, <1>6, <1>7, <1>10 DEF HandoffIInv

\* A bundle that fails is of no further consequence.
LEMMA BundleFails ==
    ASSUME HandoffIInv, NEW b \in Bundles, Stop(b, "failed"), BundleUnderway(b),
           UNCHANGED <<tree, pf, folder, was, origin>>
    PROVE  HandoffIInv'
<1> DEFINE x == [bundle[b] EXCEPT !.pc = "failed"]
<1>1. bundle[b] \in BundleType /\ folder \in FolderType /\ BundleInv(bundle[b])
  BY HandoffTyped DEF HandoffIInv
<1>2. x \in BundleType BY <1>1 DEF BundleType
<1>3. x.pc = "failed" /\ x.alone = bundle[b].alone /\ x.entries = bundle[b].entries
  BY <1>1 DEF BundleType
<1>4. MoveB(b, x) BY DEF Stop
<1> HIDE DEF x
<1>5. BundleInv(x) /\ AloneInv(x, folder'.manifest, tree)
  BY <1>3, NothingCopied
<1> QED BY <1>1, <1>2, <1>3, <1>4, <1>5, BundleMoves

LEMMA StartBundleStep ==
    ASSUME HandoffIInv, NEW b \in Bundles, StartBundle(b)
    PROVE  HandoffIInv'
<1> DEFINE others == {k \in Bundles \ {b} : BundleUnderway(k)}
<1>1. /\ bundle[b].pc = "start" /\ UNCHANGED <<tree, pf, folder, was, origin>>
      /\ bundle \in [Bundles -> BundleType] /\ folder \in FolderType
      /\ TreeTyped' /\ TreeInv'
  BY HandoffTyped, TreeStays DEF StartBundle, HandoffIInv
<1>2. CASE Stop(b, "refused")
  <2> DEFINE x == [bundle[b] EXCEPT !.pc = "refused"]
  <2>1. x \in BundleType /\ x.pc = "refused" /\ x.alone = bundle[b].alone
        /\ x.entries = bundle[b].entries
    BY <1>1 DEF BundleType
  <2>2. /\ bundle' \in [Bundles -> BundleType] /\ bundle'[b] = x
        /\ \A k \in Bundles \ {b} : bundle'[k] = bundle[k]
    BY <1>1, <1>2, <2>1 DEF Stop, MoveB
  <2> HIDE DEF x
  <2>3. \A k \in Bundles : bundle'[k] = bundle[k] \/ k = b BY <2>2
  <2>4. BundleInv(x) /\ AloneInv(x, folder.manifest, tree)
    BY <2>1, NothingCopied
  <2>5. \A k \in Bundles : BundleInv(bundle'[k]) /\ AloneInv(bundle'[k], folder.manifest, tree)
    BY <2>2, <2>3, <2>4 DEF HandoffIInv
  <2>6. (\A k \in Bundles : BundleInv(bundle[k]) /\ AloneInv(bundle[k], folder.manifest, tree))'
    BY <1>1, <2>5 DEF BundleInv
  <2>7. \A k \in Bundles : BundleUnderway(k)' => BundleUnderway(k) /\ bundle'[k] = bundle[k]
    BY <2>1, <2>2, <2>3 DEF BundleUnderway
  <2>8. (\A c, k \in Bundles :
          (c # k /\ BundleUnderway(c) /\ bundle[c].alone) => ~BundleUnderway(k))'
    BY <2>7 DEF HandoffIInv
  <2>9. HOTypeOK' /\ TreeInv'
    BY <1>1, <2>2 DEF HOTypeOK, TreeTyped, PreflightType, BundleType, FolderType
  <2> QED BY <2>6, <2>8, <2>9 DEF HandoffIInv
<1>3. CASE bundle' = [k \in Bundles |->
              IF k = b THEN [bundle[b] EXCEPT !.pc = "collect", !.alone = (others = {})]
              ELSE IF k \in others THEN [bundle[k] EXCEPT !.alone = FALSE]
              ELSE bundle[k]]
  <2>1. PICK a \in BOOLEAN : a <=> (others = {}) OBVIOUS
  <2> DEFINE x == [bundle[b] EXCEPT !.pc = "collect", !.alone = a]
             y(k) == [bundle[k] EXCEPT !.alone = FALSE]
  <2>2. (others = {}) = a BY <2>1
  <2>3. x \in BundleType /\ x.pc = "collect" /\ x.alone = a /\ x.entries = bundle[b].entries
    BY <1>1 DEF BundleType
  <2>4. \A k \in Bundles : y(k) \in BundleType /\ y(k).alone = FALSE /\ y(k).pc = bundle[k].pc
            /\ y(k).entries = bundle[k].entries /\ y(k).todo = bundle[k].todo
            /\ y(k).snap = bundle[k].snap
    <3> SUFFICES ASSUME NEW k \in Bundles
                 PROVE  /\ y(k) \in BundleType /\ y(k).alone = FALSE /\ y(k).pc = bundle[k].pc
                        /\ y(k).entries = bundle[k].entries /\ y(k).todo = bundle[k].todo
                        /\ y(k).snap = bundle[k].snap
      OBVIOUS
    <3>1. bundle[k] \in BundleType BY <1>1
    <3> QED BY <3>1 DEF BundleType
  <2>5. /\ bundle'[b] = x
        /\ \A k \in Bundles \ {b} : \/ k \in others /\ bundle'[k] = y(k)
                                    \/ k \notin others /\ bundle'[k] = bundle[k]
    BY <1>3, <2>2
  <2>6. DOMAIN bundle' = Bundles /\ bundle' = [k \in Bundles |-> bundle'[k]]
    BY <1>3
  <2> HIDE DEF x, y
  <2>7. \A k \in Bundles : bundle'[k] \in BundleType
    BY <1>1, <2>3, <2>4, <2>5
  <2>8. bundle' \in [Bundles -> BundleType] BY <2>6, <2>7
  <2>9. HOTypeOK' /\ TreeInv'
    BY <1>1, <2>8 DEF HOTypeOK, TreeTyped, PreflightType, BundleType, FolderType
  <2>10. ASSUME NEW k \in Bundles
         PROVE  BundleInv(bundle'[k]) /\ AloneInv(bundle'[k], folder.manifest, tree)
    <3>0. BundleInv(bundle[k]) /\ AloneInv(bundle[k], folder.manifest, tree) BY DEF HandoffIInv
    <3>1. CASE k = b
      <4>1. DOMAIN bundle[b].entries = {} BY <1>1 DEF HandoffIInv, BundleInv
      <4> QED BY <2>3, <2>5, <3>1, <4>1, NothingCopied
    <3>2. CASE k # b /\ bundle'[k] = y(k)
      BY <2>4, <3>0, <3>2 DEF BundleInv, AloneInv
    <3>3. CASE k # b /\ bundle'[k] = bundle[k]
      BY <3>0, <3>3
    <3> QED BY <2>5, <3>1, <3>2, <3>3
  <2>11. (\A k \in Bundles : BundleInv(bundle[k]) /\ AloneInv(bundle[k], folder.manifest, tree))'
    BY <1>1, <2>10 DEF BundleInv
  <2>12. ASSUME NEW c \in Bundles, NEW k \in Bundles, c # k, BundleUnderway(c)',
                bundle'[c].alone, BundleUnderway(k)'
         PROVE  FALSE
    <3>1. \A j \in Bundles \ {b} : bundle'[j].pc = bundle[j].pc BY <2>4, <2>5
    <3>2. CASE c = b
      <4>1. others = {} BY <2>1, <2>3, <2>5, <2>12, <3>2
      <4>2. BundleUnderway(k) BY <2>12, <3>1, <3>2 DEF BundleUnderway
      <4> QED BY <2>12, <3>2, <4>1, <4>2
    <3>3. CASE c # b
      <4>1. BundleUnderway(c) BY <2>12, <3>1, <3>3 DEF BundleUnderway
      <4>2. c \in others BY <3>3, <4>1
      <4> QED BY <2>4, <2>5, <2>12, <3>3, <4>2
    <3> QED BY <3>2, <3>3
  <2> QED BY <2>9, <2>11, <2>12 DEF HandoffIInv
<1> QED BY <1>2, <1>3 DEF StartBundle


\* Everything a bundle does up to its manifest: what a path holds when it has not
\* moved is what was copied, and the status is that of the record copied.
LEMMA CopyingStep ==
    ASSUME HandoffIInv, NEW b \in Bundles,
           CollectSources(b) \/ CopySource(b) \/ ReadStatus(b) \/ WriteManifest(b)
    PROVE  HandoffIInv'
<1> DEFINE o == bundle[b]
<1>0. /\ o \in BundleType /\ folder \in FolderType /\ BundleInv(o)
      /\ AloneInv(o, folder.manifest, tree) /\ HOTypeOK
  BY HandoffTyped DEF HandoffIInv
<1>a. /\ tree \in [Paths -> Contents] /\ tree[Selected] \in RecordFiles
      /\ o.entries \in PartialTrees /\ DOMAIN o.entries \subseteq Paths
      /\ o.todo \subseteq Paths /\ o.moved \in [Paths -> 0..2]
  BY <1>0, PartialTreesAre, PathsAre DEF BundleType, HOTypeOK
<1>b. tree \in PartialTrees BY <1>a, PartialTreesAre
<1>1. CASE CollectSources(b)
  <2>0. o.pc = "collect" /\ UNCHANGED <<tree, pf, folder, was, origin>> /\ BundleUnderway(b)
    BY <1>1 DEF CollectSources, BundleUnderway
  <2>1. CASE /\ Static \subseteq Present(tree)
             /\ MoveB(b, [bundle[b] EXCEPT !.pc = "copy", !.todo = Present(tree)])
    <3> DEFINE x == [bundle[b] EXCEPT !.pc = "copy", !.todo = Present(tree)]
    <3>1. Present(tree) \subseteq Paths /\ Selected \in Present(tree)
      BY <1>a, <2>1 DEF Present, Static
    <3>2. x \in BundleType /\ x.pc = "copy" /\ x.alone = o.alone /\ x.entries = o.entries
          /\ x.todo = Present(tree)
      BY <1>0, <3>1 DEF BundleType
    <3> HIDE DEF x
    <3>3. DOMAIN x.entries = {} BY <1>0, <2>0, <3>2 DEF BundleInv
    <3>4. BundleInv(x) /\ AloneInv(x, folder'.manifest, tree)
      BY <3>1, <3>2, <3>3 DEF BundleInv, AloneInv, Snapped
    <3> QED BY <1>0, <2>0, <2>1, <3>2, <3>4, BundleMoves DEF x
  <2>2. CASE Stop(b, "failed")
    BY <2>0, <2>2, BundleFails
  <2> QED BY <1>1, <2>1, <2>2 DEF CollectSources
<1>2. CASE CopySource(b)
  <2>0. o.pc = "copy" /\ UNCHANGED <<tree, pf, was, origin>> /\ BundleUnderway(b)
    BY <1>2 DEF CopySource, BundleUnderway
  <2>1. PICK p \in o.todo :
          /\ folder' = [folder EXCEPT !.exists = TRUE, !.payload = Put(@, p, tree[p])]
          /\ MoveB(b, [bundle[b] EXCEPT !.todo = @ \ {p}, !.entries = Put(@, p, tree[p]),
                        !.moved[p] = 0, !.pc = IF bundle[b].todo = {p} THEN "status" ELSE "copy"])
    BY <1>2 DEF CopySource
  <2> DEFINE x == [bundle[b] EXCEPT !.todo = @ \ {p}, !.entries = Put(@, p, tree[p]),
                        !.moved[p] = 0, !.pc = IF bundle[b].todo = {p} THEN "status" ELSE "copy"]
             e == Put(o.entries, p, tree[p])
             m == [o.moved EXCEPT ![p] = 0]
  <2>2. p \in Paths /\ tree[p] \in Contents BY <1>a
  <2>3. folder' \in FolderType /\ folder'.manifest = folder.manifest
    BY <1>0, <2>1, <2>2, PutKeeps DEF FolderType
  <2>4. /\ e \in PartialTrees /\ DOMAIN e = DOMAIN o.entries \cup {p} /\ e[p] = tree[p]
        /\ \A q \in DOMAIN o.entries \ {p} : e[q] = o.entries[q]
    <3>1. o.entries \in PartialTrees BY <1>a
    <3> HIDE DEF o
    <3>2. \A q \in Paths, v \in Contents :
             LET f == Put(o.entries, q, v)
             IN  /\ f \in PartialTrees /\ DOMAIN f = DOMAIN o.entries \cup {q} /\ f[q] = v
                 /\ \A r \in DOMAIN o.entries \ {q} : f[r] = o.entries[r]
      BY <3>1, PutKeeps, ZenonT(30)
    <3> QED BY <2>2, <3>2, ZenonT(30)
  <2>5. m \in [Paths -> 0..2] /\ m[p] = 0 /\ \A q \in Paths \ {p} : m[q] = o.moved[q]
    BY <1>a, <2>2
  <2>6. x \in BundleType /\ x.alone = o.alone /\ x.entries = e /\ x.todo = o.todo \ {p}
        /\ x.pc = (IF o.todo = {p} THEN "status" ELSE "copy") /\ x.moved = m
    <3>1. x = [o EXCEPT !.todo = o.todo \ {p}, !.entries = e, !.moved = m,
                        !.pc = IF o.todo = {p} THEN "status" ELSE "copy"]
      OBVIOUS
    <3> HIDE DEF x, e, m
    <3> QED BY <1>0, <2>4, <2>5, <3>1 DEF BundleType
  <2> HIDE DEF x, e, m
  <2>7. x.pc \in {"copy", "status"} /\ (x.pc = "status" => x.todo = {})
    BY <2>6
  <2>8. BundleInv(x)
    <3>1. Selected \in x.todo \cup DOMAIN e BY <1>0, <2>0, <2>4, <2>6 DEF BundleInv
    <3> QED BY <2>6, <2>7, <3>1 DEF BundleInv, Snapped
  <2>9. AloneInv(x, folder'.manifest, tree)
    <3>1. \A q : ~Differs(x, q) BY <2>7 DEF Differs, Snapped
    <3>2. Watched(x) = DOMAIN e BY <2>6, <2>7 DEF Watched
    <3>3. ASSUME x.alone, NEW q \in DOMAIN e PROVE m[q] = 0 => tree[q] = e[q]
      <4>1. CASE q = p BY <2>4, <4>1
      <4>2. CASE q # p
        <5>1. q \in DOMAIN o.entries /\ q \in Paths BY <1>a, <2>4, <4>2
        <5>2. q \in Watched(o) BY <2>0, <5>1 DEF Watched
        <5>3. WatchedInv(o, q, tree) BY <1>0, <2>6, <3>3, <5>1, <5>2 DEF AloneInv
        <5> QED BY <2>4, <2>5, <4>2, <5>1, <5>3 DEF WatchedInv
      <4> QED BY <4>1, <4>2
    <3> QED BY <2>6, <2>7, <3>1, <3>2, <3>3 DEF AloneInv, WatchedInv
  <2> QED BY <2>0, <2>1, <2>3, <2>6, <2>8, <2>9, BundleMoves DEF x
<1>3. CASE ReadStatus(b)
  <2> DEFINE x == [bundle[b] EXCEPT !.pc = "manifest", !.status = RecordStatus(tree[Selected])]
  <2>0. o.pc = "status" /\ UNCHANGED <<tree, pf, folder, was, origin>> /\ BundleUnderway(b)
        /\ MoveB(b, x)
    BY <1>3 DEF ReadStatus, BundleUnderway
  <2>1. RecordStatus(tree[Selected]) \in Verdicts \cup {"UNAVAILABLE"}
    BY <1>a, RecordFilesAre
  <2>2. x \in BundleType /\ x.pc = "manifest" /\ x.alone = o.alone /\ x.entries = o.entries
        /\ x.moved = o.moved /\ x.status = RecordStatus(tree[Selected])
    BY <1>0, <2>1 DEF BundleType
  <2> HIDE DEF x
  <2>3. BundleInv(x) BY <1>0, <2>0, <2>2 DEF BundleInv, Snapped
  <2>4. AloneInv(x, folder'.manifest, tree)
    <3>1. Watched(x) = DOMAIN o.entries /\ Watched(o) = DOMAIN o.entries
      BY <2>0, <2>2 DEF Watched
    <3>2. ASSUME x.alone, NEW q \in DOMAIN o.entries PROVE WatchedInv(x, q, tree)
      <4>1. o.moved[q] = 0 => tree[q] = o.entries[q]
        BY <1>0, <2>2, <3>1, <3>2 DEF AloneInv, WatchedInv
      <4>2. Differs(x, q) => tree[q] # o.entries[q] BY <2>2 DEF Differs, Snapped
      <4> QED BY <2>2, <4>1, <4>2 DEF WatchedInv
    <3> QED BY <2>2, <3>1, <3>2 DEF AloneInv
  <2> QED BY <1>0, <2>0, <2>2, <2>3, <2>4, BundleMoves
<1>4. CASE WriteManifest(b)
  <2> DEFINE x == [bundle[b] EXCEPT !.pc = "payload", !.snap = tree]
  <2>0. o.pc = "manifest" /\ UNCHANGED <<tree, pf, was, origin>> /\ BundleUnderway(b)
        /\ MoveB(b, x) /\ folder' = [folder EXCEPT !.manifest = o.entries]
    BY <1>4 DEF WriteManifest, BundleUnderway
  <2>1. folder' \in FolderType /\ folder'.manifest = o.entries
    BY <1>0, <1>a, <2>0 DEF FolderType
  <2>2. x \in BundleType /\ x.pc = "payload" /\ x.alone = o.alone /\ x.entries = o.entries
        /\ x.status = o.status /\ x.snap = tree /\ x.moved = o.moved
    BY <1>0, <1>b DEF BundleType
  <2> HIDE DEF x
  <2>3. BundleInv(x) BY <1>0, <1>a, <2>0, <2>2 DEF BundleInv, Snapped
  <2>4. AloneInv(x, folder'.manifest, tree)
    <3>1. Watched(x) = DOMAIN o.entries /\ Watched(o) = DOMAIN o.entries
      BY <2>0, <2>2 DEF Watched
    <3>2. ASSUME x.alone, NEW q \in DOMAIN o.entries PROVE WatchedInv(x, q, tree)
      <4>1. WatchedInv(o, q, tree) BY <1>0, <2>2, <3>1, <3>2 DEF AloneInv
      <4>2. Differs(x, q) => Differs(o, q) \/ tree[q] # o.entries[q]
        BY <2>0, <2>2 DEF Differs, Snapped
      <4> QED BY <2>2, <4>1, <4>2 DEF WatchedInv
    <3> QED BY <2>1, <2>2, <3>1, <3>2 DEF AloneInv
  <2> QED BY <2>0, <2>1, <2>2, <2>3, <2>4, BundleMoves
<1> QED BY <1>1, <1>2, <1>3, <1>4

\* verify_handoff: a path that is found as it was copied either never held anything
\* else in between, or came back.
LEMMA VerifyingStep ==
    ASSUME HandoffIInv, NEW b \in Bundles,
           VerifyPayload(b) \/ VerifySource(b) \/ VerifyInventory(b)
    PROVE  HandoffIInv'
<1> DEFINE o == bundle[b]
<1>0. /\ o \in BundleType /\ folder \in FolderType /\ BundleInv(o)
      /\ AloneInv(o, folder.manifest, tree) /\ HOTypeOK
  BY HandoffTyped DEF HandoffIInv
<1>a. /\ UNCHANGED <<tree, pf, folder, was, origin>> /\ BundleUnderway(b)
      /\ folder' \in FolderType /\ folder'.manifest = folder.manifest
  BY <1>0 DEF VerifyPayload, VerifySource, VerifyInventory, BundleUnderway
<1>b. CASE Stop(b, "failed") BY <1>a, <1>b, BundleFails
<1>1. CASE VerifyPayload(b) /\ ~Stop(b, "failed")
  <2> DEFINE x == [bundle[b] EXCEPT !.pc = "sources", !.listed = folder.manifest,
                                    !.todo = DOMAIN folder.manifest]
  <2>0. o.pc = "payload" /\ MoveB(b, x) BY <1>1 DEF VerifyPayload
  <2>1. folder.manifest \in PartialTrees /\ DOMAIN folder.manifest \subseteq Paths
    BY <1>0, PartialTreesAre DEF FolderType
  <2>2. x \in BundleType /\ x.pc = "sources" /\ x.alone = o.alone /\ x.entries = o.entries
        /\ x.status = o.status /\ x.snap = o.snap /\ x.listed = folder.manifest
        /\ x.todo = DOMAIN folder.manifest /\ x.moved = o.moved
    BY <1>0, <2>1 DEF BundleType
  <2> HIDE DEF x
  <2>3. BundleInv(x) BY <1>0, <2>0, <2>2 DEF BundleInv, Snapped
  <2>4. AloneInv(x, folder'.manifest, tree)
    <3> SUFFICES ASSUME o.alone PROVE AloneInv(x, folder'.manifest, tree)
      BY <2>2 DEF AloneInv
    <3>1. folder.manifest = o.entries /\ Watched(o) = DOMAIN o.entries
      BY <1>0, <2>0 DEF AloneInv, Watched
    <3>2. Watched(x) = DOMAIN o.entries BY <2>2, <3>1 DEF Watched
    <3>3. \A q : Differs(x, q) <=> Differs(o, q) BY <2>0, <2>2 DEF Differs, Snapped
    <3>4. \A q \in DOMAIN o.entries : WatchedInv(o, q, tree) BY <1>0, <3>1 DEF AloneInv
    <3>5. \A q \in DOMAIN o.entries : WatchedInv(x, q, tree)
      BY <2>2, <3>3, <3>4 DEF WatchedInv
    <3> QED BY <2>2, <3>1, <3>2, <3>5 DEF AloneInv
  <2> QED BY <1>a, <2>0, <2>2, <2>3, <2>4, BundleMoves
<1>2. CASE VerifySource(b) /\ ~Stop(b, "failed")
  <2>0. o.pc = "sources" BY <1>2 DEF VerifySource
  <2>1. PICK p \in o.todo :
          /\ SourceMatches(b, p)
          /\ MoveB(b, [bundle[b] EXCEPT !.todo = @ \ {p},
                           !.pc = IF bundle[b].todo = {p} THEN "inventory" ELSE "sources"])
    BY <1>2 DEF VerifySource
  <2> DEFINE x == [bundle[b] EXCEPT !.todo = @ \ {p},
                           !.pc = IF bundle[b].todo = {p} THEN "inventory" ELSE "sources"]
  <2>2. x \in BundleType /\ x.alone = o.alone /\ x.entries = o.entries
        /\ x.status = o.status /\ x.snap = o.snap /\ x.listed = o.listed /\ x.moved = o.moved
        /\ x.todo = o.todo \ {p} /\ x.pc = IF o.todo = {p} THEN "inventory" ELSE "sources"
    BY <1>0 DEF BundleType
  <2> HIDE DEF x
  <2>a. x.pc \in {"inventory", "sources"} /\ (x.pc = "inventory" => x.todo = {})
    BY <2>2
  <2>3. BundleInv(x) BY <1>0, <2>0, <2>2, <2>a DEF BundleInv, Snapped
  <2>4. Watched(o) = o.todo /\ Watched(x) = o.todo \ {p}
    BY <2>0, <2>2, <2>a DEF Watched
  <2>5. \A q : Differs(x, q) <=> Differs(o, q) BY <2>0, <2>2, <2>a DEF Differs, Snapped
  <2>6. ASSUME o.alone, NEW q \in DOMAIN o.entries
        PROVE  IF q \in Watched(x) THEN WatchedInv(x, q, tree) ELSE Differs(x, q) => x.moved[q] = 2
    <3>1. /\ o.listed = o.entries
          /\ IF q \in Watched(o) THEN WatchedInv(o, q, tree) ELSE Differs(o, q) => o.moved[q] = 2
      BY <1>0, <2>0, <2>6 DEF AloneInv
    <3>2. CASE q # p BY <2>2, <2>4, <2>5, <3>1, <3>2 DEF WatchedInv
    <3>3. CASE q = p
      <4>1. tree[q] = o.entries[q] BY <2>1, <3>1, <3>3 DEF SourceMatches
      <4>2. Differs(o, q) => o.moved[q] # 0 /\ o.moved[q] # 1
        BY <2>1, <2>4, <3>1, <3>3, <4>1 DEF WatchedInv
      <4>3. o.moved[q] \in 0..2
        BY <1>0, <2>1, <3>3 DEF BundleType
      <4> QED BY <2>2, <2>4, <2>5, <3>3, <4>2, <4>3
    <3> QED BY <3>2, <3>3
  <2>7. AloneInv(x, folder'.manifest, tree)
    BY <1>0, <2>0, <2>2, <2>a, <2>6 DEF AloneInv
  <2> QED BY <1>a, <2>1, <2>2, <2>3, <2>7, BundleMoves DEF x
<1>3. CASE VerifyInventory(b) /\ ~Stop(b, "failed")
  <2> DEFINE x == [bundle[b] EXCEPT !.pc = "created"]
  <2>0. o.pc = "inventory" /\ MoveB(b, x) BY <1>3 DEF VerifyInventory, Stop
  <2>2. x \in BundleType /\ x.pc = "created" /\ x.alone = o.alone /\ x.entries = o.entries
        /\ x.status = o.status /\ x.snap = o.snap /\ x.listed = o.listed /\ x.moved = o.moved
    BY <1>0 DEF BundleType
  <2> HIDE DEF x
  <2>3. BundleInv(x) BY <1>0, <2>0, <2>2 DEF BundleInv, Snapped
  <2>4. Watched(o) = {} /\ Watched(x) = {} BY <2>0, <2>2 DEF Watched
  <2>5. \A q : Differs(x, q) <=> Differs(o, q) BY <2>0, <2>2 DEF Differs, Snapped
  <2>6. AloneInv(x, folder'.manifest, tree)
    BY <1>0, <2>0, <2>2, <2>4, <2>5 DEF AloneInv
  <2> QED BY <1>a, <2>0, <2>2, <2>3, <2>6, BundleMoves
<1> QED BY <1>b, <1>1, <1>2, <1>3

LEMMA HandoffInitial == HOInit => HandoffIInv
<1> SUFFICES ASSUME HOInit PROVE HandoffIInv OBVIOUS
<1>1. TreeTyped /\ TreeInv BY TreeInitial
<1>2. NoFiles \in PartialTrees /\ DOMAIN NoFiles = {}
  BY PartialTreesAre DEF NoFiles
<1>3. NewBundle \in BundleType /\ folder \in FolderType
  BY <1>2 DEF NewBundle, BundleType, HOInit, NoFolder, FolderType
<1>4. \A b \in Bundles : bundle[b] = NewBundle BY DEF HOInit
<1>5. HOTypeOK BY <1>1, <1>3, HandoffTyped DEF HOInit
<1>6. BundleInv(NewBundle) /\ AloneInv(NewBundle, folder.manifest, tree)
  BY <1>2 DEF NewBundle, BundleInv, AloneInv, Snapped
<1>7. \A b \in Bundles : ~BundleUnderway(b) BY <1>4 DEF BundleUnderway, NewBundle
<1> QED BY <1>1, <1>4, <1>5, <1>6, <1>7 DEF HandoffIInv

LEMMA HandoffStable ==
    ASSUME HandoffIInv, [HONext]_hoVars
    PROVE  HandoffIInv'
<1>0. TreeTyped /\ TreeInv BY HandoffTyped DEF HandoffIInv
<1>1. CASE UNCHANGED hoVars
  BY <1>0, <1>1, TreeStays, BundlesUnmoved DEF hoVars
<1>2. CASE TreeNext
  BY <1>0, <1>2, TreeStep, BundlesUnmoved, BundlesUnderWrites
<1>3. ASSUME NEW b \in Bundles,
             \/ StartBundle(b) \/ CollectSources(b) \/ CopySource(b) \/ ReadStatus(b)
             \/ WriteManifest(b) \/ VerifyPayload(b) \/ VerifySource(b)
             \/ VerifyInventory(b)
      PROVE  HandoffIInv'
  BY <1>3, StartBundleStep, CopyingStep, VerifyingStep
<1> QED BY <1>1, <1>2, <1>3 DEF HONext

\* The inductive invariant of the tree, the preflights and the bundles: contents may
\* come back, so what a bundle knows of a path rests on how often it has moved.
THEOREM HandoffInvariant == HOSpec => []HandoffIInv
<1>1. HOInit => HandoffIInv BY HandoffInitial
<1>2. HandoffIInv /\ [HONext]_hoVars => HandoffIInv' BY HandoffStable
<1> QED BY <1>1, <1>2, PTL DEF HOSpec

\* The tree, the preflights, the bundles and their destination keep their types.
THEOREM HandoffTypeCorrect == HOSpec => []HOTypeOK
<1>1. HandoffIInv => HOTypeOK BY DEF HandoffIInv
<1> QED BY <1>1, HandoffInvariant, PTL

\* A bundle that create_handoff_bundle returns, with no other call underway on its
\* destination, holds of each file what the unlocked tree held when the manifest was
\* written, and announces the status of the preflight record it carries, unless that
\* file went and came back between its copy and its check; for any number of editors'
\* and preflights' steps.
THEOREM HandoffsAreSnapshots == HOSpec => []HandoffIsSnapshot
<1>1. HandoffIInv => HandoffIsSnapshot
  <2> SUFFICES ASSUME HandoffIInv, NEW b \in Bundles, Created(b)
               PROVE  /\ \A p \in DOMAIN bundle[b].entries :
                            bundle[b].moved[p] < 2 => bundle[b].entries[p] = bundle[b].snap[p]
                      /\ bundle[b].moved[Selected] < 2 =>
                            bundle[b].status = RecordStatus(bundle[b].entries[Selected])
    BY DEF HandoffIsSnapshot
  <2> DEFINE x == bundle[b]
  <2>1. /\ BundleInv(x) /\ AloneInv(x, folder.manifest, tree) /\ x.pc = "created" /\ x.alone
    BY DEF HandoffIInv, Created
  <2>2. Watched(x) = {} /\ Selected \in DOMAIN x.entries
    BY <2>1 DEF BundleInv, Watched, Snapped
  <2>3. \A p \in DOMAIN x.entries : Differs(x, p) => x.moved[p] = 2
    BY <2>1, <2>2 DEF AloneInv
  <2>4. \A p \in DOMAIN x.entries : x.moved[p] < 2 => ~Differs(x, p) BY <2>3
  <2> QED BY <2>1, <2>2, <2>4 DEF Differs, Snapped
<1> QED BY <1>1, HandoffInvariant, PTL


---------------------------------------------------------------------------
(* The replay of the declared cases: proofs                                *)

KeptType == [dir : BOOLEAN, result : Dispositions \cup {Nothing},
             sealed : Dispositions \cup {Nothing}]

LEMMA ReplayTyped ==
    CRTypeOK <=> /\ attested \in [Cases -> 0..Now]
                 /\ replay \in [Replays -> ReplayType]
                 /\ kept \in [Cases -> KeptType]
BY DEF CRTypeOK, ReplayType, KeptType

LEMMA OrderIs ==
    ASSUME NEW i \in 1..(Len(Order) + 1), i <= Len(Order)
    PROVE  Order[i] \in Cases /\ i + 1 \in 1..(Len(Order) + 1)
BY OrderAssumption

LEMMA DispositionsAre == Nothing \notin Dispositions
BY DEF Nothing, Dispositions

\* When one replay moves: no other one that is alone is underway with it, so what it
\* writes is nobody's evidence.
LEMMA ReplayMoves ==
    ASSUME ReplayIInv, NEW r \in Replays, NEW x \in ReplayType, MoveR(r, x),
           x.alone = replay[r].alone, x.keep = replay[r].keep, ReplayUnderway(r),
           CaseInv(x, was), FolderInv(x, kept'),
           (x.pc \in Writing /\ x.keep) =>
              /\ x.i = replay[r].i /\ x.status = replay[r].status
              /\ replay[r].pc \in Writing \/ FolderFree(Order[x.i]),
           kept' \in [Cases -> KeptType],
           \A c \in Cases :
              \/ kept'[c].result = kept[c].result /\ kept'[c].sealed = kept[c].sealed
              \/ replay[r].pc \in Writing /\ replay[r].keep /\ c = Order[replay[r].i],
           UNCHANGED <<hoVars, attested>>
    PROVE  ReplayIInv'
<1>0. replay \in [Replays -> ReplayType] BY ReplayTyped DEF ReplayIInv
<1>1. /\ replay' \in [Replays -> ReplayType] /\ replay'[r] = x
      /\ \A k \in Replays \ {r} : replay'[k] = replay[k]
  BY <1>0 DEF MoveR
<1>2. TreeTyped' /\ TreeInv' /\ was' = was /\ Now' = Now
  BY TreeStays, SameLooks DEF ReplayIInv, hoVars
<1>3. CRTypeOK'
  <2>1. ReplayType' = ReplayType BY <1>2 DEF ReplayType
  <2>2. attested' \in [Cases -> 0..Now'] BY <1>2, ReplayTyped DEF ReplayIInv
  <2> QED BY <1>1, <2>1, <2>2 DEF CRTypeOK, ReplayType, KeptType
<1>4. \A k \in Replays : CaseInv(replay'[k], was) BY <1>1 DEF ReplayIInv
<1>5. \A k \in Replays \ {r} : replay[k].alone => ~ReplayUnderway(k)
  BY DEF ReplayIInv
<1>6. ASSUME NEW k \in Replays PROVE FolderInv(replay'[k], kept')
  <2>1. CASE k = r BY <1>1, <2>1
  <2>2. CASE k # r
    <3>1. replay'[k] = replay[k] /\ FolderInv(replay[k], kept) BY <1>1, <2>2 DEF ReplayIInv
    <3>2. replay[k].alone => replay[k].pc \notin {"seal", "verify"}
      BY <1>5, <2>2 DEF ReplayUnderway
    <3>3. ASSUME replay[k].keep, replay[k].alone, NEW c \in Cases,
                 replay[k].status[c] = "RECORDED"
          PROVE  kept'[c].result = kept[c].result /\ kept'[c].sealed = kept[c].sealed
      <4>1. ~(replay[r].pc \in Writing /\ replay[r].keep /\ c = Order[replay[r].i])
        BY <3>3 DEF ReplayIInv, WriterInv, Recorded
      <4> QED BY <4>1
    <3> QED BY <3>1, <3>2, <3>3 DEF FolderInv
  <2> QED BY <2>1, <2>2
<1>7. ASSUME NEW k \in Replays, NEW c \in Cases, replay[k].keep, replay[k].alone,
             FolderFree(c)
      PROVE  ~Recorded(k, c)
  <2>1. CaseInv(replay[k], was) /\ FolderInv(replay[k], kept) BY DEF ReplayIInv
  <2> QED BY <1>7, <2>1, DispositionsAre DEF CaseInv, FolderInv, FolderFree, Recorded
<1>8. ASSUME NEW q \in Replays, NEW k \in Replays, replay'[k].pc \in Writing,
             replay'[k].keep, replay'[q].keep, replay'[q].alone
      PROVE  replay'[q].status[Order[replay'[k].i]] # "RECORDED"
  <2>1. CASE k = r
    <3>1. /\ x.i = replay[r].i /\ x.status = replay[r].status
          /\ replay[r].pc \in Writing \/ FolderFree(Order[x.i])
      BY <1>1, <1>8, <2>1
    <3>2. Order[x.i] \in Cases
      <4>1. CaseInv(x, was) /\ x.pc \in InCase BY <1>1, <1>8, <2>1 DEF Writing, InCase
      <4>2. x.i \in 1..(Len(Order) + 1) BY DEF ReplayType
      <4> QED BY <4>1, <4>2, OrderIs DEF CaseInv
    <3>3. replay[q].keep /\ replay[q].alone /\ replay'[q].status = replay[q].status
      BY <1>1, <1>8, <3>1
    <3>4. CASE FolderFree(Order[x.i])
      BY <1>1, <1>7, <2>1, <3>2, <3>3, <3>4 DEF Recorded
    <3>5. CASE replay[r].pc \in Writing
      <4>1. replay[r].keep BY <1>1, <1>8, <2>1
      <4>2. ~Recorded(q, Order[replay[r].i])
        BY <3>3, <3>5, <4>1 DEF ReplayIInv, WriterInv
      <4> QED BY <1>1, <2>1, <3>1, <3>3, <4>2 DEF Recorded
    <3> QED BY <3>1, <3>4, <3>5
  <2>2. CASE k # r /\ q = r
    <3>1. ReplayUnderway(k) BY <1>1, <1>8, <2>2 DEF ReplayUnderway, Writing
    <3>2. replay[r].alone BY <1>1, <1>8, <2>2
    <3> QED BY <2>2, <3>1, <3>2 DEF ReplayIInv
  <2>3. CASE k # r /\ q # r
    BY <1>1, <1>8, <2>3 DEF ReplayIInv, WriterInv, Recorded
  <2> QED BY <2>1, <2>2, <2>3
<1>9. WriterInv' BY <1>8 DEF WriterInv, Recorded
<1>10. \A k \in Replays : /\ ReplayUnderway(k)' => ReplayUnderway(k)
                          /\ replay'[k].alone = replay[k].alone
  BY <1>1 DEF ReplayUnderway
<1>11. (\A q, k \in Replays :
          (q # k /\ ReplayUnderway(q) /\ replay[q].alone) => ~ReplayUnderway(k))'
  BY <1>10 DEF ReplayIInv
<1> QED BY <1>2, <1>3, <1>4, <1>6, <1>9, <1>11 DEF ReplayIInv

LEMMA LineTyped ==
    ASSUME NEW o \in ReplayType, NEW i \in 1..(Len(Order) + 1),
           NEW st \in [Cases -> Lines],
           NEW ev \in [Cases -> {"none", "BLOCKED", "UNVERIFIED", "FAIL"}],
           NEW di \in [Cases -> Dispositions \cup {Nothing}]
    PROVE  [o EXCEPT !.pc = "gate", !.i = i, !.status = st, !.evidence = ev,
                     !.disposition = di, !.actual = Nothing] \in ReplayType
BY DEF ReplayType

\* A line of the report: only a case that was let through and, when it is persisted
\* by a replay that is alone, whose copy is its own, becomes RECORDED.
LEMMA LineStep ==
    ASSUME ReplayIInv, NEW r \in Replays, NEW status \in Lines,
           NEW evidence \in {"none", "BLOCKED", "UNVERIFIED", "FAIL"},
           replay[r].pc \in InCase \cup {"gate"}, replay[r].i <= Len(Order),
           MoveR(r, Line(r, Current(r), status, evidence)),
           status = "RECORDED" =>
              /\ replay[r].pc = "verify"
              /\ (replay[r].keep /\ replay[r].alone) =>
                    kept[Current(r)].sealed = kept[Current(r)].result,
           UNCHANGED <<hoVars, attested, kept>>
    PROVE  ReplayIInv'
<1> DEFINE o == replay[r]
           c == Order[o.i]
           x == Line(r, c, status, evidence)
<1>0. o \in ReplayType /\ CaseInv(o, was) /\ FolderInv(o, kept) /\ kept \in [Cases -> KeptType]
  BY ReplayTyped DEF ReplayIInv
<1>1. o.i \in 1..(Len(Order) + 1) /\ c \in Cases /\ o.i + 1 \in 1..(Len(Order) + 1)
      /\ Current(r) = c
  BY <1>0, OrderIs DEF ReplayType, Current
<1>2. /\ o.status \in [Cases -> Lines]
      /\ o.evidence \in [Cases -> {"none", "BLOCKED", "UNVERIFIED", "FAIL"}]
      /\ o.disposition \in [Cases -> Dispositions \cup {Nothing}]
      /\ o.actual \in Dispositions \cup {Nothing}
  BY <1>0 DEF ReplayType
<1>3. x = [o EXCEPT !.pc = "gate", !.i = o.i + 1, !.status = [o.status EXCEPT ![c] = status],
                    !.evidence = [o.evidence EXCEPT ![c] = evidence],
                    !.disposition = [o.disposition EXCEPT ![c] = o.actual],
                    !.actual = Nothing]
  BY DEF Line
<1>4. /\ [o.status EXCEPT ![c] = status] \in [Cases -> Lines]
      /\ [o.evidence EXCEPT ![c] = evidence] \in
            [Cases -> {"none", "BLOCKED", "UNVERIFIED", "FAIL"}]
      /\ [o.disposition EXCEPT ![c] = o.actual] \in [Cases -> Dispositions \cup {Nothing}]
  BY <1>2
<1>5. x \in ReplayType
  <2> HIDE DEF o, c, x
  <2> QED BY <1>0, <1>1, <1>3, <1>4, LineTyped
<1>6. /\ x.pc = "gate" /\ x.alone = o.alone /\ x.keep = o.keep /\ x.fp = o.fp
      /\ x.judged = o.judged /\ x.actual = Nothing
      /\ x.status[c] = status /\ x.disposition[c] = o.actual
      /\ \A d \in Cases \ {c} : x.status[d] = o.status[d] /\ x.disposition[d] = o.disposition[d]
  BY <1>0, <1>1, <1>2, <1>3, SMTT(30) DEF ReplayType
<1> HIDE DEF x
<1>7. status = "RECORDED" =>
         /\ Judged(o, c, was) /\ o.actual \in Dispositions
         /\ (o.keep /\ o.alone) => kept[c].result = o.actual /\ kept[c].sealed = o.actual
  BY <1>0, <1>1 DEF CaseInv, FolderInv, InCase
<1>8. \A d \in Cases : Judged(x, d, was) <=> Judged(o, d, was) BY <1>6 DEF Judged
<1>9. CaseInv(x, was)
  <2>1. ASSUME NEW d \in Cases, x.status[d] = "RECORDED"
        PROVE  Judged(x, d, was) /\ x.disposition[d] \in Dispositions
    <3>1. CASE d = c BY <1>6, <1>7, <1>8, <2>1, <3>1
    <3>2. CASE d # c BY <1>0, <1>6, <1>8, <2>1, <3>2 DEF CaseInv
    <3> QED BY <3>1, <3>2
  <2> QED BY <1>6, <2>1 DEF CaseInv, InCase
<1>10. FolderInv(x, kept')
  <2>1. ASSUME x.keep, x.alone, NEW d \in Cases, x.status[d] = "RECORDED"
        PROVE  kept[d].result = x.disposition[d] /\ kept[d].sealed = x.disposition[d]
    <3>1. CASE d = c BY <1>6, <1>7, <2>1, <3>1
    <3>2. CASE d # c BY <1>0, <1>6, <2>1, <3>2 DEF FolderInv
    <3> QED BY <3>1, <3>2
  <2> QED BY <1>6, <2>1 DEF FolderInv
<1>11. ReplayUnderway(r) /\ x.pc \notin Writing
  BY <1>6 DEF ReplayUnderway, InCase, Writing
<1>12. MoveR(r, x) BY <1>1 DEF x
<1> QED BY <1>0, <1>5, <1>6, <1>9, <1>10, <1>11, <1>12, ReplayMoves


\* A replay that stops, or goes on with the same case and unchanged report.
LEMMA SameReportStep ==
    ASSUME ReplayIInv, NEW r \in Replays, NEW pc, NEW actual,
           pc \in Writing \cup {"reported", "raised", "died"},
           actual \in Dispositions \cup {Nothing},
           MoveR(r, [replay[r] EXCEPT !.pc = pc, !.actual = actual]), ReplayUnderway(r),
           pc \in Writing => replay[r].pc \in InCase,
           (pc \in Writing /\ replay[r].keep) =>
               replay[r].pc \in Writing \/ FolderFree(Current(r)),
           pc \in {"copy", "seal", "verify"} => actual \in Dispositions,
           pc \in {"copy", "seal"} => replay[r].keep,
           kept' \in [Cases -> KeptType],
           \A c \in Cases :
              \/ kept'[c].result = kept[c].result /\ kept'[c].sealed = kept[c].sealed
              \/ replay[r].pc \in Writing /\ replay[r].keep /\ c = Current(r),
           (replay[r].keep /\ replay[r].alone) =>
              /\ pc \in {"seal", "verify"} => kept'[Current(r)].result = actual
              /\ pc = "verify" => kept'[Current(r)].sealed = actual,
           UNCHANGED <<hoVars, attested>>
    PROVE  ReplayIInv'
<1> DEFINE o == replay[r]
           x == [o EXCEPT !.pc = pc, !.actual = actual]
<1>0. o \in ReplayType /\ CaseInv(o, was) /\ FolderInv(o, kept) BY ReplayTyped DEF ReplayIInv
<1>1. x \in ReplayType BY <1>0 DEF ReplayType, Writing
<1>2. /\ x.pc = pc /\ x.actual = actual /\ x.alone = o.alone /\ x.keep = o.keep
      /\ x.i = o.i /\ x.fp = o.fp /\ x.judged = o.judged /\ x.status = o.status
      /\ x.disposition = o.disposition
  BY <1>0 DEF ReplayType
<1> HIDE DEF x
<1>3. Current(r) = Order[o.i] BY DEF Current
<1>4. CaseInv(x, was)
  <2>1. \A c \in Cases : Judged(x, c, was) <=> Judged(o, c, was) BY <1>2 DEF Judged
  <2>2. pc # "start" BY DEF Writing
  <2>3. pc \in InCase => pc \in Writing BY DEF Writing, InCase
  <2>4. pc \in InCase => x.i <= Len(Order) /\ Judged(x, Order[x.i], was)
    BY <1>0, <1>2, <2>3 DEF CaseInv, Judged
  <2> QED BY <1>0, <1>2, <2>1, <2>2, <2>4 DEF CaseInv
<1>5. ASSUME o.keep, o.alone, NEW c \in Cases, o.status[c] = "RECORDED"
      PROVE  kept'[c].result = o.disposition[c] /\ kept'[c].sealed = o.disposition[c]
  <2>1. ~(o.pc \in Writing /\ o.keep /\ c = Current(r))
    BY <1>3, <1>5 DEF ReplayIInv, WriterInv, Recorded
  <2> QED BY <1>0, <1>5, <2>1 DEF FolderInv
<1>6. FolderInv(x, kept') BY <1>2, <1>3, <1>5 DEF FolderInv
<1>7. MoveR(r, x) BY DEF x
<1> QED BY <1>1, <1>2, <1>3, <1>4, <1>6, <1>7, ReplayMoves

LEMMA StopReplay ==
    ASSUME ReplayIInv, NEW r \in Replays, NEW pc \in {"reported", "raised", "died"},
           MoveR(r, [replay[r] EXCEPT !.pc = pc]), ReplayUnderway(r),
           UNCHANGED <<hoVars, attested, kept>>
    PROVE  ReplayIInv'
<1>1. replay[r] \in ReplayType /\ kept \in [Cases -> KeptType] BY ReplayTyped DEF ReplayIInv
<1>2. [replay[r] EXCEPT !.pc = pc] = [replay[r] EXCEPT !.pc = pc, !.actual = replay[r].actual]
  BY <1>1 DEF ReplayType
<1>3. replay[r].actual \in Dispositions \cup {Nothing} BY <1>1 DEF ReplayType
<1>4. pc \notin Writing /\ pc \notin {"copy", "seal", "verify"} BY DEF Writing
<1> QED BY <1>1, <1>2, <1>3, <1>4, SameReportStep

\* A session's outcome in the report.
LEMMA SessionStep ==
    ASSUME ReplayIInv, NEW r \in Replays, NEW status \in {"RECORDED", "VALIDATION_ERROR"},
           replay[r].pc \in {"copy", "seal", "verify"},
           MoveR(r, Session(r, Current(r), status)),
           status = "RECORDED" =>
              /\ replay[r].pc = "verify"
              /\ (replay[r].keep /\ replay[r].alone) =>
                    kept[Current(r)].sealed = kept[Current(r)].result,
           UNCHANGED <<hoVars, attested, kept>>
    PROVE  ReplayIInv'
<1>0. replay[r].pc \in InCase /\ CaseInv(replay[r], was) /\ ReplayUnderway(r)
  BY DEF InCase, ReplayIInv, ReplayUnderway
<1>1. CASE replay[r].actual = "blank"
  <2>1. MoveR(r, [replay[r] EXCEPT !.pc = "raised"]) BY <1>1 DEF Session
  <2> QED BY <1>0, <2>1, StopReplay
<1>2. CASE replay[r].actual # "blank"
  <2> DEFINE ev == EvidenceStatus(status, replay[r].actual)
  <2>1. ev \in {"none", "BLOCKED", "UNVERIFIED", "FAIL"} BY DEF EvidenceStatus
  <2>2. MoveR(r, Line(r, Current(r), status, ev)) BY <1>2 DEF Session
  <2>3. status \in Lines BY DEF Lines
  <2>4. replay[r].i <= Len(Order) BY <1>0 DEF CaseInv
  <2> HIDE DEF ev
  <2> QED BY <1>0, <2>1, <2>2, <2>3, <2>4, LineStep
<1> QED BY <1>1, <1>2

\* The gate: what it lets through was judged on a ready record and an attestation for
\* the supplied fingerprints.
LEMMA GateStep ==
    ASSUME ReplayIInv, NEW r \in Replays, Gate(r)
    PROVE  ReplayIInv'
<1> DEFINE o == replay[r]
           c == Current(r)
<1>0. /\ o \in ReplayType /\ CaseInv(o, was) /\ FolderInv(o, kept)
      /\ kept \in [Cases -> KeptType] /\ TreeTyped /\ TreeInv
      /\ attested \in [Cases -> 0..Now]
  BY ReplayTyped DEF ReplayIInv
<1>1. /\ o.pc = "gate" /\ o.i <= Len(Order) /\ UNCHANGED <<hoVars, attested, kept>>
      /\ ReplayUnderway(r)
  BY DEF Gate, ReplayUnderway
<1>2. c \in Cases /\ c = Order[o.i]
  BY <1>0, <1>1, OrderIs DEF ReplayType, Current
<1>3. CASE MoveR(r, Line(r, c, "BLOCKED", "BLOCKED"))
  <2>1. "BLOCKED" \in Lines /\ "BLOCKED" # "RECORDED" BY DEF Lines
  <2> QED BY <1>1, <1>3, <2>1, LineStep
<1>4. CASE /\ PreflightReady(r, c) /\ AttestationReady(r, c)
           /\ MoveR(r, [replay[r] EXCEPT !.pc = "folder",
                                    !.judged[c] = [checked |-> origin[c].checked,
                                                   printed |-> origin[c].printed,
                                                   attested |-> attested[c]]])
  <2> DEFINE J == [checked : 0..Now, printed : 0..Now, attested : 0..Now]
             j == [checked |-> origin[c].checked, printed |-> origin[c].printed,
                   attested |-> attested[c]]
             js == [o.judged EXCEPT ![c] = j]
             x == [o EXCEPT !.pc = "folder", !.judged = js]
  <2>1. tree[c] \in RecordFiles /\ RecordInv(tree[c], origin[c], was)
    BY <1>0, <1>2 DEF TreeTyped, TreeInv
  <2>2. tree[c].kind = "record" /\ tree[c].result = "READY_FOR_REPLAY"
    BY <1>4, <2>1, RecordFilesAre DEF PreflightReady
  <2>3. /\ Now \in Nat /\ Now = Len(was)
        /\ origin[c].checked \in 1..Now /\ origin[c].printed \in 1..Now
        /\ attested[c] \in 1..Now
    <3>1. Now \in Nat /\ Now = Len(was) BY <1>0 DEF TreeTyped, Now
    <3>2. origin[c].checked \in Looks /\ origin[c].printed \in Looks
      BY <1>0, <1>2 DEF TreeTyped
    <3>3. attested[c] \in 0..Now /\ attested[c] # 0
      BY <1>0, <1>2, <1>4 DEF AttestationReady
    <3> HIDE DEF Now
    <3> QED BY <3>1, <3>2, <3>3 DEF Looks
  <2>4. /\ j \in J /\ j.checked \in 1..Len(was) /\ InputsVerified(was[j.checked])
        /\ j.printed \in 1..Len(was)
        /\ Compared(Fingerprints(was[j.printed])) = Compared(o.fp)
        /\ j.attested \in 1..Len(was) /\ Fingerprints(was[j.attested]) = o.fp
    BY <1>4, <2>1, <2>2, <2>3 DEF RecordInv, PreflightReady, AttestationReady
  <2> HIDE DEF j
  <2>5. o.judged \in [Cases -> J] BY <1>0 DEF ReplayType
  <2>6. /\ js \in [Cases -> J]
        /\ js[c] = j /\ \A d \in Cases \ {c} : js[d] = o.judged[d]
    BY <1>2, <2>4, <2>5
  <2> HIDE DEF js
  <2>7. x \in ReplayType BY <1>0, <2>6 DEF ReplayType
  <2>8. /\ x.pc = "folder" /\ x.judged = js /\ x.alone = o.alone /\ x.keep = o.keep
        /\ x.i = o.i /\ x.fp = o.fp /\ x.status = o.status /\ x.disposition = o.disposition
    BY <1>0 DEF ReplayType
  <2>9. MoveR(r, x) BY <1>4 DEF js, j
  <2> HIDE DEF x
  <2>10. Judged(x, c, was) BY <2>4, <2>6, <2>8 DEF Judged
  <2>11. ASSUME NEW d \in Cases, x.status[d] = "RECORDED"
         PROVE  Judged(x, d, was) /\ x.disposition[d] \in Dispositions
    <3>1. CASE d = c BY <1>0, <2>8, <2>10, <2>11, <3>1 DEF CaseInv
    <3>2. CASE d # c BY <1>0, <2>6, <2>8, <2>11, <3>2 DEF CaseInv, Judged
    <3> QED BY <3>1, <3>2
  <2>12. CaseInv(x, was) BY <1>1, <1>2, <2>8, <2>10, <2>11 DEF CaseInv, InCase
  <2>13. FolderInv(x, kept') BY <1>0, <1>1, <2>8 DEF FolderInv
  <2>14. x.pc \notin Writing BY <2>8 DEF Writing
  <2> QED BY <1>0, <1>1, <2>7, <2>8, <2>9, <2>12, <2>13, <2>14, ReplayMoves
<1> QED BY <1>3, <1>4 DEF Gate


\* The directory, the handler, and the copies of its result and of the seal.
LEMMA CaseStep ==
    ASSUME ReplayIInv, NEW r \in Replays,
           PrepareFolder(r) \/ Execute(r) \/ CopyResult(r) \/ CopySeal(r) \/ VerifyCopy(r)
    PROVE  ReplayIInv'
<1> DEFINE o == replay[r]
           c == Current(r)
<1>0. /\ o \in ReplayType /\ CaseInv(o, was) /\ FolderInv(o, kept)
      /\ kept \in [Cases -> KeptType] /\ UNCHANGED <<hoVars, attested>>
      /\ o.actual \in Dispositions \cup {Nothing}
  BY ReplayTyped DEF ReplayIInv, PrepareFolder, Execute, CopyResult, CopySeal, VerifyCopy,
     ReplayType
<1>1. /\ o.pc \in InCase /\ ReplayUnderway(r)
      /\ ~PrepareFolder(r) => o.pc \in Writing
  BY DEF PrepareFolder, Execute, CopyResult, CopySeal, VerifyCopy, InCase, ReplayUnderway,
     Writing
<1>2. o.i <= Len(Order) /\ c \in Cases /\ c = Order[o.i]
  BY <1>0, <1>1, OrderIs DEF ReplayType, Current, CaseInv
<1>3. CASE PrepareFolder(r)
  <2>0. o.pc = "folder" BY <1>3 DEF PrepareFolder
  <2>1. CASE MoveR(r, Line(r, c, "BLOCKED", "BLOCKED")) /\ UNCHANGED kept
    <3>1. "BLOCKED" \in Lines /\ "BLOCKED" # "RECORDED" BY DEF Lines
    <3> QED BY <1>0, <1>1, <1>2, <2>1, <3>1, LineStep
  <2>2. CASE /\ MoveR(r, [replay[r] EXCEPT !.pc = "execute"])
             /\ \/ ~o.keep /\ UNCHANGED kept
                \/ o.keep /\ FolderFree(c) /\ kept' = [kept EXCEPT ![c].dir = TRUE]
    <3>1. /\ kept' \in [Cases -> KeptType]
          /\ \A d \in Cases : kept'[d].result = kept[d].result /\ kept'[d].sealed = kept[d].sealed
      <4>1. CASE UNCHANGED kept BY <1>0, <4>1
      <4>2. CASE kept' = [kept EXCEPT ![c].dir = TRUE]
        <5> DEFINE k == [kept[c] EXCEPT !.dir = TRUE]
        <5>1. kept' = [kept EXCEPT ![c] = k] BY <4>2
        <5>2. k \in KeptType /\ k.result = kept[c].result /\ k.sealed = kept[c].sealed
          BY <1>0, <1>2 DEF KeptType
        <5> HIDE DEF k, c
        <5> QED BY <1>0, <1>2, <5>1, <5>2
      <4> QED BY <2>2, <4>1, <4>2
    <3>2. [o EXCEPT !.pc = "execute"] = [o EXCEPT !.pc = "execute", !.actual = o.actual]
      BY <1>0 DEF ReplayType
    <3>3. "execute" \in Writing /\ "execute" \notin {"copy", "seal", "verify"}
      BY DEF Writing
    <3>4. o.keep => FolderFree(c) BY <2>2
    <3> HIDE DEF c
    <3> QED BY <1>0, <1>1, <2>2, <3>1, <3>2, <3>3, <3>4, SameReportStep DEF c
  <2> QED BY <1>3, <2>1, <2>2 DEF PrepareFolder
<1>4. CASE Execute(r)
  <2>0. o.pc = "execute" /\ UNCHANGED kept BY <1>4 DEF Execute
  <2>1. ASSUME NEW d \in Dispositions,
               MoveR(r, [replay[r] EXCEPT !.actual = d,
                          !.pc = IF replay[r].keep THEN "copy" ELSE "verify"])
        PROVE  ReplayIInv'
    <3> DEFINE pc == IF o.keep THEN "copy" ELSE "verify"
    <3>1. [replay[r] EXCEPT !.actual = d, !.pc = IF replay[r].keep THEN "copy" ELSE "verify"]
             = [replay[r] EXCEPT !.pc = pc, !.actual = d]
      BY <1>0 DEF ReplayType
    <3>2. /\ pc \in Writing /\ pc \in {"copy", "verify"} /\ pc = "copy" => o.keep
          /\ ~(o.keep /\ pc = "verify") /\ pc # "seal"
      BY DEF Writing
    <3>3. MoveR(r, [replay[r] EXCEPT !.pc = pc, !.actual = d]) BY <2>1, <3>1
    <3>4. o.pc \in Writing /\ d \in Dispositions \cup {Nothing} BY <2>0 DEF Writing
    <3>5. /\ \A e \in Cases : kept'[e].result = kept[e].result /\ kept'[e].sealed = kept[e].sealed
          /\ kept' \in [Cases -> KeptType]
      BY <1>0, <2>0
    <3>6. /\ pc \in Writing \cup {"reported", "raised", "died"}
          /\ pc \in {"copy", "seal"} => replay[r].keep
          /\ replay[r].keep => pc \notin {"seal", "verify"} /\ pc # "verify"
      BY DEF Writing
    <3> HIDE DEF pc, c
    <3> QED BY <1>0, <1>1, <2>1, <3>3, <3>4, <3>5, <3>6, SameReportStep
  <2>2. ASSUME NEW status \in RunCaseEnds, MoveR(r, Line(r, Current(r), status, "BLOCKED"))
        PROVE  ReplayIInv'
    <3>1. status \in Lines /\ status # "RECORDED" BY DEF Lines, RunCaseEnds
    <3> QED BY <1>0, <1>1, <1>2, <2>0, <2>2, <3>1, LineStep
  <2>3. CASE MoveR(r, [replay[r] EXCEPT !.pc = "raised"])
    BY <1>0, <1>1, <2>0, <2>3, StopReplay
  <2> QED BY <1>4, <2>1, <2>2, <2>3 DEF Execute
<1>5. CASE CopyResult(r)
  <2>0. o.pc = "copy" /\ Kept(r, "result", "seal") /\ o.keep /\ o.actual \in Dispositions
    BY <1>0, <1>5 DEF CopyResult, CaseInv
  <2>1. CASE UNCHANGED kept /\ MoveR(r, Session(r, c, "VALIDATION_ERROR"))
    BY <1>0, <2>0, <2>1, SessionStep
  <2>2. CASE /\ kept' = [kept EXCEPT ![c] = [@ EXCEPT !["result"] = o.actual]]
             /\ MoveR(r, [replay[r] EXCEPT !.pc = "seal"])
    <3>1. /\ kept' \in [Cases -> KeptType] /\ kept'[c].result = o.actual
          /\ kept'[c].sealed = kept[c].sealed
          /\ \A d \in Cases \ {c} : kept'[d] = kept[d]
      BY <1>0, <1>2, <2>2 DEF KeptType
    <3>2. [o EXCEPT !.pc = "seal"] = [o EXCEPT !.pc = "seal", !.actual = o.actual]
      BY <1>0 DEF ReplayType
    <3>3. "seal" \in Writing /\ "seal" # "verify" /\ o.pc \in Writing BY <2>0 DEF Writing
    <3> HIDE DEF c
    <3> QED BY <1>0, <1>1, <2>0, <2>2, <3>1, <3>2, <3>3, SameReportStep DEF c
  <2> QED BY <2>0, <2>1, <2>2 DEF Kept
<1>6. CASE CopySeal(r)
  <2>0. o.pc = "seal" /\ Kept(r, "sealed", "verify") /\ o.keep /\ o.actual \in Dispositions
    BY <1>0, <1>6 DEF CopySeal, CaseInv
  <2>1. CASE UNCHANGED kept /\ MoveR(r, Session(r, c, "VALIDATION_ERROR"))
    BY <1>0, <2>0, <2>1, SessionStep
  <2>2. CASE /\ kept' = [kept EXCEPT ![c] = [@ EXCEPT !["sealed"] = o.actual]]
             /\ MoveR(r, [replay[r] EXCEPT !.pc = "verify"])
    <3>1. /\ kept' \in [Cases -> KeptType] /\ kept'[c].sealed = o.actual
          /\ kept'[c].result = kept[c].result
          /\ \A d \in Cases \ {c} : kept'[d] = kept[d]
      BY <1>0, <1>2, <2>2 DEF KeptType
    <3>2. [o EXCEPT !.pc = "verify"] = [o EXCEPT !.pc = "verify", !.actual = o.actual]
      BY <1>0 DEF ReplayType
    <3>3. "verify" \in Writing /\ o.pc \in Writing BY <2>0 DEF Writing
    <3>4. o.alone => kept[c].result = o.actual
      BY <1>0, <1>2, <2>0 DEF FolderInv
    <3> HIDE DEF c
    <3> QED BY <1>0, <1>1, <2>0, <2>2, <3>1, <3>2, <3>3, <3>4, SameReportStep DEF c
  <2> QED BY <2>0, <2>1, <2>2 DEF Kept
<1>7. CASE VerifyCopy(r)
  <2>0. o.pc = "verify" /\ UNCHANGED kept BY <1>7 DEF VerifyCopy
  <2>1. CASE MoveR(r, Session(r, c, "VALIDATION_ERROR"))
    BY <1>0, <2>0, <2>1, SessionStep
  <2>2. CASE (o.keep => CopyVerifies(c)) /\ MoveR(r, Session(r, c, "RECORDED"))
    <3>1. o.keep => kept[c].sealed = kept[c].result BY <2>2 DEF CopyVerifies
    <3> QED BY <1>0, <2>0, <2>2, <3>1, SessionStep
  <2> QED BY <1>7, <2>1, <2>2 DEF VerifyCopy
<1> QED BY <1>3, <1>4, <1>5, <1>6, <1>7


LEMMA AloneTyped ==
    ASSUME NEW o \in ReplayType, NEW a \in BOOLEAN
    PROVE  [o EXCEPT !.alone = a] \in ReplayType
BY DEF ReplayType

LEMMA StartTyped ==
    ASSUME NEW o \in ReplayType, NEW a \in BOOLEAN, NEW pc \in {"contract", "raised"},
           NEW n \in 0..Now
    PROVE  [o EXCEPT !.pc = pc, !.loaded = n, !.alone = a] \in ReplayType
BY DEF ReplayType

LEMMA StartReplayStep ==
    ASSUME ReplayIInv, NEW r \in Replays, StartReplay(r)
    PROVE  ReplayIInv'
<1>0. /\ replay \in [Replays -> ReplayType] /\ replay[r].pc = "start"
      /\ UNCHANGED <<hoVars, attested, kept>>
  BY ReplayTyped DEF ReplayIInv, StartReplay
<1>1. PICK a \in BOOLEAN : a = (\A j \in Replays \ {r} : ~ReplayUnderway(j)) OBVIOUS
<1>2. PICK pc \in {"contract", "raised"} :
        pc = IF tree[Source].catalog = 0 \/ SelectionInvalid THEN "raised" ELSE "contract"
  OBVIOUS
<1> DEFINE x == [replay[r] EXCEPT !.pc = pc, !.loaded = Now, !.alone = a]
           y(k) == [replay[k] EXCEPT !.alone = FALSE]
<1>3. /\ x \in ReplayType /\ x.pc \in {"contract", "raised"} /\ x.alone = a
      /\ x.status = replay[r].status
  <2>1. replay[r] \in ReplayType /\ Now \in 0..Now BY <1>0 DEF ReplayIInv, TreeTyped, Now
  <2>2. x \in ReplayType BY <2>1, StartTyped
  <2> QED BY <2>1, <2>2 DEF ReplayType
<1>4. \A k \in Replays :
         /\ y(k) \in ReplayType /\ y(k).alone = FALSE /\ y(k).pc = replay[k].pc
         /\ y(k).keep = replay[k].keep /\ y(k).i = replay[k].i /\ y(k).actual = replay[k].actual
         /\ y(k).status = replay[k].status /\ y(k).disposition = replay[k].disposition
         /\ y(k).judged = replay[k].judged /\ y(k).fp = replay[k].fp
  <2> SUFFICES ASSUME NEW k \in Replays
               PROVE  /\ y(k) \in ReplayType /\ y(k).alone = FALSE /\ y(k).pc = replay[k].pc
                      /\ y(k).keep = replay[k].keep /\ y(k).i = replay[k].i
                      /\ y(k).actual = replay[k].actual /\ y(k).status = replay[k].status
                      /\ y(k).disposition = replay[k].disposition
                      /\ y(k).judged = replay[k].judged /\ y(k).fp = replay[k].fp
    OBVIOUS
  <2>1. replay[k] \in ReplayType BY <1>0
  <2>2. y(k) \in ReplayType BY <2>1, AloneTyped
  <2> QED BY <2>1, <2>2 DEF ReplayType
<1>5. /\ replay' = [k \in Replays |-> replay'[k]]
      /\ replay'[r] = x
      /\ \A k \in Replays \ {r} : \/ ReplayUnderway(k) /\ replay'[k] = y(k)
                                  \/ ~ReplayUnderway(k) /\ replay'[k] = replay[k]
  BY <1>1, <1>2 DEF StartReplay
<1> HIDE DEF x, y
<1>6. \A k \in Replays : replay'[k] \in ReplayType BY <1>0, <1>3, <1>4, <1>5
<1>7. replay' \in [Replays -> ReplayType] BY <1>5, <1>6
<1>8. TreeTyped' /\ TreeInv' /\ was' = was /\ Now' = Now
  BY <1>0, TreeStays, SameLooks DEF ReplayIInv, hoVars
<1>9. CRTypeOK'
  <2>1. ReplayType' = ReplayType BY <1>8 DEF ReplayType
  <2>2. attested' \in [Cases -> 0..Now'] /\ kept' \in [Cases -> KeptType]
    BY <1>0, <1>8, ReplayTyped DEF ReplayIInv
  <2> QED BY <1>7, <2>1, <2>2 DEF CRTypeOK, ReplayType, KeptType
<1>10. \A c \in Cases : x.status[c] # "RECORDED"
  BY <1>0, <1>3 DEF ReplayIInv, CaseInv, Nothing
<1>11. ASSUME NEW k \in Replays
       PROVE  CaseInv(replay'[k], was) /\ FolderInv(replay'[k], kept)
  <2>0. CaseInv(replay[k], was) /\ FolderInv(replay[k], kept) BY DEF ReplayIInv
  <2>1. CASE k = r
    BY <1>3, <1>5, <1>10, <2>1 DEF CaseInv, FolderInv, InCase
  <2>2. CASE k # r /\ replay'[k] = y(k)
    <3>1. \A c : Judged(y(k), c, was) <=> Judged(replay[k], c, was) BY <1>4 DEF Judged
    <3> QED BY <1>4, <2>0, <2>2, <3>1 DEF CaseInv, FolderInv, InCase
  <2>3. CASE k # r /\ replay'[k] = replay[k] BY <2>0, <2>3
  <2> QED BY <1>5, <2>1, <2>2, <2>3
<1>12. ASSUME NEW q \in Replays, NEW k \in Replays, replay'[k].pc \in Writing,
              replay'[k].keep, replay'[q].keep, replay'[q].alone
       PROVE  replay'[q].status[Order[replay'[k].i]] # "RECORDED"
  <2>1. k # r
    <3>1. x.pc \notin Writing BY <1>3 DEF Writing
    <3> QED BY <1>5, <1>12, <3>1
  <2>2. replay[k].pc \in Writing /\ replay[k].keep /\ replay'[k].i = replay[k].i
    BY <1>4, <1>5, <1>12, <2>1
  <2>3. CASE q = r
    <3>1. ~ReplayUnderway(k) BY <1>1, <1>3, <1>5, <1>12, <2>1, <2>3
    <3> QED BY <2>2, <3>1 DEF ReplayUnderway, Writing
  <2>4. CASE q # r
    <3>1. replay'[q] = replay[q] BY <1>4, <1>5, <1>12, <2>4
    <3> QED BY <1>12, <2>2, <3>1 DEF ReplayIInv, WriterInv, Recorded
  <2> QED BY <2>3, <2>4
<1>13. WriterInv' BY <1>12 DEF WriterInv, Recorded
<1>14. ASSUME NEW q \in Replays, NEW k \in Replays, q # k, ReplayUnderway(q)',
              replay'[q].alone, ReplayUnderway(k)'
       PROVE  FALSE
  <2>1. \A j \in Replays \ {r} : ReplayUnderway(j)' <=> ReplayUnderway(j)
    BY <1>4, <1>5 DEF ReplayUnderway
  <2>2. CASE q = r
    BY <1>1, <1>3, <1>5, <1>14, <2>1, <2>2
  <2>3. CASE q # r
    <3>1. replay'[q] = y(q) BY <1>5, <1>14, <2>1, <2>3
    <3> QED BY <1>4, <1>14, <3>1
  <2> QED BY <2>2, <2>3
<1>15. (\A k \in Replays : CaseInv(replay[k], was) /\ FolderInv(replay[k], kept))'
  BY <1>0, <1>8, <1>11
<1> QED BY <1>8, <1>9, <1>13, <1>14, <1>15 DEF ReplayIInv

\* The handlers' manifest is compared with their source.
LEMMA ContractStep ==
    ASSUME ReplayIInv, NEW r \in Replays, CheckContract(r)
    PROVE  ReplayIInv'
<1> DEFINE o == replay[r]
<1>0. /\ o \in ReplayType /\ CaseInv(o, was) /\ FolderInv(o, kept) /\ kept \in [Cases -> KeptType]
      /\ o.pc = "contract" /\ UNCHANGED <<hoVars, attested, kept>> /\ ReplayUnderway(r)
  BY ReplayTyped DEF ReplayIInv, CheckContract, ReplayUnderway
<1>1. PICK m \in BOOLEAN : m = (o.manifest = tree[Source].handlers) OBVIOUS
<1> DEFINE x == [o EXCEPT !.pc = "gate", !.contract = m]
<1>2. MoveR(r, x) BY <1>1 DEF CheckContract
<1>3. x \in ReplayType BY <1>0 DEF ReplayType
<1>4. /\ x.pc = "gate" /\ x.alone = o.alone /\ x.keep = o.keep /\ x.fp = o.fp
      /\ x.judged = o.judged /\ x.status = o.status /\ x.disposition = o.disposition
  BY <1>0 DEF ReplayType
<1> HIDE DEF x
<1>5. CaseInv(x, was) BY <1>0, <1>4 DEF CaseInv, InCase, Judged
<1>6. FolderInv(x, kept') BY <1>0, <1>4 DEF FolderInv
<1>7. x.pc \notin Writing BY <1>4 DEF Writing
<1> QED BY <1>0, <1>2, <1>3, <1>4, <1>5, <1>6, <1>7, ReplayMoves

\* The tree under the replays, and the producer of attestations: what the inputs have
\* held is only added to, so what the gate saw remains seen.
LEMMA SurroundingsStep ==
    ASSUME ReplayIInv, TreeTyped', TreeInv', Grows, UNCHANGED <<replay, kept>>,
           attested' \in [Cases -> 0..Now']
    PROVE  ReplayIInv'
<1>1. /\ replay \in [Replays -> ReplayType] /\ kept \in [Cases -> KeptType]
      /\ 0..Now \subseteq 0..Now' /\ Now = Len(was) /\ Now' = Len(was')
      /\ Now \in Nat /\ Now' \in Nat /\ Now <= Now'
      /\ \A n \in 1..Now : n \in 1..Now' /\ was'[n] = was[n]
  BY ReplayTyped DEF ReplayIInv, Grows, Now, Looks
<1>2. ASSUME NEW x \in ReplayType PROVE x \in ReplayType'
  <2> DEFINE J == [checked : 0..Now, printed : 0..Now, attested : 0..Now]
             K == [checked : 0..Now', printed : 0..Now', attested : 0..Now']
  <2>1. J \subseteq K BY <1>1
  <2>2. x.judged \in [Cases -> J] /\ x.loaded \in 0..Now' BY <1>1 DEF ReplayType
  <2> HIDE DEF J, K
  <2>3. x.judged \in [Cases -> K] BY <2>1, <2>2
  <2> QED BY <2>2, <2>3 DEF ReplayType, J, K
<1>3. replay' \in [Replays -> ReplayType'] BY <1>1, <1>2
<1>4. CRTypeOK' BY <1>1, <1>3 DEF CRTypeOK, ReplayType, KeptType
<1>5. ASSUME NEW r \in Replays PROVE CaseInv(replay[r], was')
  <2>1. CaseInv(replay[r], was) BY DEF ReplayIInv
  <2>2. \A c : Judged(replay[r], c, was) => Judged(replay[r], c, was') BY <1>1 DEF Judged
  <2> QED BY <2>1, <2>2 DEF CaseInv
<1>6. /\ (\A r \in Replays : CaseInv(replay[r], was) /\ FolderInv(replay[r], kept))'
      /\ WriterInv'
      /\ (\A r, k \in Replays :
             (r # k /\ ReplayUnderway(r) /\ replay[r].alone) => ~ReplayUnderway(k))'
  BY <1>5 DEF ReplayIInv, WriterInv, Recorded, ReplayUnderway
<1> QED BY <1>4, <1>6 DEF ReplayIInv

LEMMA ReplayStable ==
    ASSUME ReplayIInv, [CRNext]_<<hoVars, crVars>>
    PROVE  ReplayIInv'
<1>0. /\ TreeTyped /\ TreeInv /\ attested \in [Cases -> 0..Now] /\ Now \in Nat
  BY ReplayTyped, SameLooks DEF ReplayIInv, TreeTyped, Now
<1>a. ASSUME UNCHANGED hoVars PROVE TreeTyped' /\ TreeInv' /\ Grows /\ Now' = Now
  BY <1>0, <1>a, TreeStays, SameLooks DEF hoVars
<1>1. CASE UNCHANGED <<hoVars, crVars>>
  BY <1>0, <1>1, <1>a, SurroundingsStep DEF crVars
<1>2. CASE TreeNext /\ UNCHANGED crVars
  <2>1. TreeTyped' /\ TreeInv' /\ Grows BY <1>0, <1>2, TreeStep
  <2>2. 0..Now \subseteq 0..Now' BY <2>1 DEF Grows
  <2>3. attested' \in [Cases -> 0..Now'] BY <1>0, <1>2, <2>2 DEF crVars
  <2> QED BY <1>2, <2>1, <2>3, SurroundingsStep DEF crVars
<1>3. ASSUME NEW c \in Cases, AttestCase(c) PROVE ReplayIInv'
  <2>1. UNCHANGED <<hoVars, replay, kept>> /\ attested' = [attested EXCEPT ![c] = Now]
    BY <1>3 DEF AttestCase
  <2>2. attested' \in [Cases -> 0..Now] BY <1>0, <2>1
  <2> QED BY <1>a, <2>1, <2>2, SurroundingsStep
<1>4. ASSUME NEW r \in Replays, Report(r) PROVE ReplayIInv'
  <2> DEFINE o == replay[r]
             x == [o EXCEPT !.pc = "reported", !.report = ReportStatus(r)]
  <2>0. /\ o \in ReplayType /\ CaseInv(o, was) /\ FolderInv(o, kept) /\ kept \in [Cases -> KeptType]
        /\ UNCHANGED <<hoVars, attested, kept>> /\ ReplayUnderway(r) /\ MoveR(r, x)
    BY <1>4, ReplayTyped DEF ReplayIInv, Report, ReplayUnderway
  <2>1. ReportStatus(r) \in {"R_FC_REPLAY_BLOCKED", "R_FC_REPLAY_PARTIAL",
                             "R_FC_REPLAY_RECORDED"}
    BY DEF ReportStatus
  <2>2. x \in ReplayType BY <2>0, <2>1 DEF ReplayType
  <2>3. /\ x.pc = "reported" /\ x.alone = o.alone /\ x.keep = o.keep /\ x.fp = o.fp
        /\ x.judged = o.judged /\ x.status = o.status /\ x.disposition = o.disposition
    BY <2>0 DEF ReplayType
  <2> HIDE DEF x
  <2>4. CaseInv(x, was) BY <2>0, <2>3 DEF CaseInv, InCase, Judged
  <2>5. FolderInv(x, kept') BY <2>0, <2>3 DEF FolderInv
  <2>6. x.pc \notin Writing BY <2>3 DEF Writing
  <2> QED BY <2>0, <2>2, <2>3, <2>4, <2>5, <2>6, ReplayMoves
<1>5. ASSUME NEW r \in Replays, ReplayDies(r) PROVE ReplayIInv'
  BY <1>5, StopReplay DEF ReplayDies
<1>6. ASSUME NEW r \in Replays,
             \/ StartReplay(r) \/ CheckContract(r) \/ Gate(r) \/ PrepareFolder(r) \/ Execute(r)
             \/ CopyResult(r) \/ CopySeal(r) \/ VerifyCopy(r)
      PROVE  ReplayIInv'
  BY <1>6, StartReplayStep, ContractStep, GateStep, CaseStep
<1> QED BY <1>1, <1>2, <1>3, <1>4, <1>5, <1>6 DEF CRNext

LEMMA ReplayInitial == HOInit /\ CRInit => ReplayIInv
<1> SUFFICES ASSUME HOInit, CRInit PROVE ReplayIInv OBVIOUS
<1>1. TreeTyped /\ TreeInv BY TreeInitial
<1>2. Now \in Nat /\ Len(Order) \in Nat BY <1>1, OrderAssumption DEF TreeTyped, Now
<1>3. \A v \in Inputs : v.handlers \in Nat /\ Fingerprints(v) \in Prints
  BY HandoffAssumption DEF Prints
<1>4. ASSUME NEW f \in Prints, NEW m \in Nat, NEW k \in BOOLEAN
      PROVE  /\ NewReplay(f, m, k) \in ReplayType /\ NewReplay(f, m, k).pc = "start"
             /\ \A c \in Cases : NewReplay(f, m, k).status[c] = "none"
  <2>1. [c \in Cases |-> [checked |-> 0, printed |-> 0, attested |-> 0]] \in
           [Cases -> [checked : 0..Now, printed : 0..Now, attested : 0..Now]]
    BY <1>2
  <2>2. /\ [c \in Cases |-> Nothing] \in [Cases -> Lines]
        /\ [c \in Cases |-> Nothing] \in [Cases -> Dispositions \cup {Nothing}]
        /\ [c \in Cases |-> Nothing] \in [Cases -> {"none", "BLOCKED", "UNVERIFIED", "FAIL"}]
    BY DEF Lines, Nothing
  <2>3. 1 \in 1..(Len(Order) + 1) /\ 0 \in 0..Now BY <1>2
  <2> QED BY <2>1, <2>2, <2>3 DEF NewReplay, ReplayType, Nothing
<1>5. \A r \in Replays : replay[r] \in ReplayType /\ replay[r].pc = "start"
            /\ \A c \in Cases : replay[r].status[c] = "none"
  <2> SUFFICES ASSUME NEW r \in Replays
               PROVE  replay[r] \in ReplayType /\ replay[r].pc = "start"
                      /\ \A c \in Cases : replay[r].status[c] = "none"
    OBVIOUS
  <2>1. PICK v \in Inputs, w \in Inputs, k \in BOOLEAN :
          replay[r] = NewReplay(Fingerprints(v), w.handlers, k)
    BY DEF CRInit
  <2> QED BY <1>3, <1>4, <2>1
<1>6. attested \in [Cases -> 0..Now] /\ kept \in [Cases -> KeptType]
  BY <1>2 DEF CRInit, KeptType
<1>7. CRTypeOK
  <2>1. replay \in [Replays -> ReplayType] BY <1>5 DEF CRInit
  <2> QED BY <1>6, <2>1, ReplayTyped
<1>8. \A r \in Replays : CaseInv(replay[r], was) /\ FolderInv(replay[r], kept)
  BY <1>5 DEF CaseInv, FolderInv, InCase, Nothing
<1>9. WriterInv BY <1>5 DEF WriterInv, Writing
<1>10. \A r \in Replays : ~ReplayUnderway(r) BY <1>5 DEF ReplayUnderway
<1> QED BY <1>1, <1>6, <1>7, <1>8, <1>9, <1>10 DEF ReplayIInv

\* The inductive invariant of the replays on a tree that is being edited, with any
\* number of replays, cases and preflights.
THEOREM ReplayInvariant == CRSpec => []ReplayIInv
<1>1. HOInit /\ CRInit => ReplayIInv BY ReplayInitial
<1>2. ReplayIInv /\ [CRNext]_<<hoVars, crVars>> => ReplayIInv' BY ReplayStable
<1> QED BY <1>1, <1>2, PTL DEF CRSpec

\* The replays and their directory keep their types; among them, no evidence of a
\* replay ever has the status PASS (pmiri/r_fc.py).
THEOREM ReplayTypeCorrect == CRSpec => []CRTypeOK
<1>1. ReplayIInv => CRTypeOK BY DEF ReplayIInv
<1> QED BY <1>1, ReplayInvariant, PTL

\* Evidence that run_r_fc_candidate reported as RECORDED stays in the directory as it
\* was reported, whatever later replays do, fail at or die in.
THEOREM RecordedEvidenceStays == CRSpec => []RecordedEvidenceKept
<1>1. ReplayIInv => RecordedEvidenceKept
  BY DEF ReplayIInv, RecordedEvidenceKept, FolderInv, Recorded
<1> QED BY <1>1, ReplayInvariant, PTL

\* The inputs a recorded case's catalog was loaded from had passed the checks of the
\* case's preflight, and agree with the supplied fingerprints where the preflight
\* record is compared (not in the runner's manifest) and where the attestation is,
\* each unless somebody edited them between that look and the start of the replay:
\* for any number of replays, cases, preflights and edits (r_fc.py).
THEOREM ReplayedInputsAreChecked == CRSpec => []ReplayedInputsChecked
<1>1. ASSUME ReplayIInv, NEW r \in Replays, NEW c \in Cases, Recorded(r, c)
      PROVE  LET n == replay[r].loaded
                 o == replay[r].judged[c]
             IN  /\ o.checked = n => InputsVerified(was[n])
                 /\ o.printed = n => Compared(Fingerprints(was[n])) = Compared(replay[r].fp)
                 /\ o.attested = n => Fingerprints(was[n]) = replay[r].fp
  <2>1. CaseInv(replay[r], was) BY <1>1 DEF ReplayIInv
  <2>2. Judged(replay[r], c, was) BY <1>1, <2>1 DEF CaseInv, Recorded
  <2> QED BY <2>2 DEF Judged
<1>2. ReplayIInv => ReplayedInputsChecked
  BY <1>1 DEF ReplayedInputsChecked
<1> QED BY <1>2, ReplayInvariant, PTL

===========================================================================
