----------------------- MODULE AcceptanceGatesProofs -----------------------
(***************************************************************************)
(* Proofs about AcceptanceGates, for any profiles, states of the           *)
(* documentation, number of edits, copied reports, signatures and command  *)
(* runs.  The commands carry verdicts from one file to the next: what a    *)
(* verdict read earlier rests on stays signed whatever the files hold now. *)
(***************************************************************************)
EXTENDS AcceptanceGates, TLAPS

ExternalFiles ==
    [kind : {"external"}, prof : Profiles, auth : Authorities, seen : Observations,
     genuine : BOOLEAN]
ExternalVerdicts == ExternalFiles \cup {NoFile, Rejected}
ReadinessReports ==
    [kind : {"readiness"}, prof : Profiles, auth : Authorities, at : Nat,
     local : BOOLEAN, ext : ExternalVerdicts, root : {"here", "elsewhere"}]
ReadinessFiles == ReadinessReports \cup {NoFile, Torn}
FinalReports ==
    [kind : {"final"}, rd : ReadinessReports \cup {NoFile}, verified : BOOLEAN,
     ready : BOOLEAN, root : {"here", "elsewhere"}]
FinalFiles == FinalReports \cup {NoFile, Torn}
AssertionFiles ==
    [kind : {"assertions"}, prof : Profiles, auth : Authorities, rd : ReadinessReports,
     genuine : BOOLEAN]

JobPCs == {"idle", "authority", "evidence", "local", "flush", "verify", "done",
           "final", "validate", "reread", "refinal", "revalidate", "inventory"}

\* default, closed and fin of a closure run are its history.
JobType ==
    [pc : JobPCs, prof : Profiles \cup {"none"}, auth : Authorities \cup {"none"},
     at : Nat, ext : ExternalVerdicts, rd : ReadinessFiles, fin : FinalFiles,
     verified : BOOLEAN, default : BOOLEAN, closed : BOOLEAN,
     res : {"none", "ready", "blocked", "accepted"}]

GatesTypeOK ==
    /\ profile \in Profiles \cup {"invalid"} /\ authority \in Authorities
    /\ localOk \in BOOLEAN
    /\ bundles \subseteq ExternalFiles \cup AssertionFiles
    /\ rd \in ReadinessFiles /\ fin \in FinalFiles
    /\ job \in [Commands -> JobType]
    /\ clock \in Nat /\ changes \in Nat
    /\ turns \in 0..MaxTurns

\* e is a bundle that was signed for profile p and authority bundle a.
Speaks(e, p, a) == e \in bundles /\ e.genuine /\ e.prof = p /\ e.auth = a

\* A report of this workspace that says external-ready rests on a signed bundle.
Backed(r) ==
    UsableReadiness(r) /\ r.ext.kind = "external" => Speaks(r.ext, r.prof, r.auth)

Asserted(r) == FinalEvidence(r.prof, r.auth, r, TRUE) \in bundles

\* A final report of this workspace that says ready is justified.
FinalBacked(f) == LocalFinal(f) /\ f.ready => Justified(f.rd)

\* What command c carries between the files it reads, at its record j.
JobInv(c, j) ==
    /\ Backed(j.rd)
    /\ (c \in Evaluations /\ j.pc = "local" /\ j.ext.kind = "external") =>
          Speaks(j.ext, j.prof, j.auth)
    /\ (c \in Evaluations /\ j.pc \in {"evidence", "local"}) => j.auth \in Authorities
    /\ (c \in Evaluations /\ j.pc \in {"authority", "evidence", "local"}) => j.prof \in Profiles
    /\ (c = "closure" /\ j.pc = "verify") => UsableReadiness(j.rd)
    /\ (c = "closure" /\ j.res = "ready") => j.pc = "done" /\ Justified(j.rd)
    /\ (c \in Acceptors /\ j.pc \in {"evidence", "flush"}) => j.rd = NoFile \/ UsableReadiness(j.rd)
    /\ (c \in Acceptors /\ j.pc = "flush" /\ j.verified) => UsableReadiness(j.rd) /\ Asserted(j.rd)

\* The inductive invariant.
GatesIInv ==
    /\ GatesTypeOK
    /\ Backed(rd)
    /\ FinalBacked(fin)
    /\ \A c \in Commands : JobInv(c, job[c])

---------------------------------------------------------------------------
(* Records                                                                 *)

LEMMA NoFileFacts ==
    /\ NoFile \in ReadinessFiles /\ NoFile \in FinalFiles
    /\ Torn \in ReadinessFiles /\ Torn \in FinalFiles
    /\ NoFile \in ExternalVerdicts /\ Rejected \in ExternalVerdicts
    /\ NoFile.kind = "none" /\ Torn.kind = "torn" /\ Rejected.kind = "rejected"
BY DEF NoFile, Torn, Rejected, ReadinessFiles, FinalFiles, ExternalVerdicts

LEMMA IdleFacts ==
    /\ Idle \in JobType
    /\ Idle.pc = "idle" /\ Idle.rd = NoFile /\ Idle.res = "none" /\ ~Idle.closed
<1>1. NoFile \in ReadinessFiles /\ NoFile \in FinalFiles /\ NoFile \in ExternalVerdicts
  BY NoFileFacts
<1>2. Idle \in JobType BY <1>1 DEF Idle, JobType, JobPCs
<1> QED BY <1>2 DEF Idle

\* A readiness file that is a report.
LEMMA ReadinessFields ==
    ASSUME NEW r \in ReadinessFiles, r.kind = "readiness"
    PROVE  r \in ReadinessReports /\ r.prof \in Profiles /\ r.auth \in Authorities
           /\ r.local \in BOOLEAN /\ r.ext \in ExternalVerdicts
BY DEF ReadinessFiles, ReadinessReports, NoFile, Torn

\* A file that verifies as external evidence is such a bundle.
LEMMA ExternalVerified ==
    ASSUME GatesIInv, NEW ev \in Given, NEW p, NEW a, VerifyExternal(ev, p, a)
    PROVE  ev \in ExternalVerdicts /\ Speaks(ev, p, a)
<1>1. ev.kind = "external" /\ ev.genuine /\ ev.prof = p /\ ev.auth = a BY DEF VerifyExternal
<1>2. ev \in bundles BY <1>1, NoFileFacts DEF Given
<1>3. ev \in ExternalFiles \cup AssertionFiles BY <1>2 DEF GatesIInv, GatesTypeOK
<1>4. ev \notin AssertionFiles BY <1>1 DEF AssertionFiles
<1> QED BY <1>1, <1>2, <1>3, <1>4 DEF Speaks, ExternalVerdicts

\* A final bundle that verifies has been signed for exactly what it is compared with.
LEMMA FinalVerified ==
    ASSUME GatesIInv, NEW ev \in Given, NEW r, VerifyFinal(ev, r)
    PROVE  Asserted(r)
<1>1. ev.kind = "assertions" /\ ev.genuine /\ ev.prof = r.prof /\ ev.auth = r.auth /\ ev.rd = r
  BY DEF VerifyFinal
<1>2. ev \in bundles BY <1>1, NoFileFacts DEF Given
<1>3. ev \in ExternalFiles \cup AssertionFiles BY <1>2 DEF GatesIInv, GatesTypeOK
<1>4. ev \in AssertionFiles BY <1>1, <1>3 DEF ExternalFiles
<1>5. ev = FinalEvidence(ev.prof, ev.auth, ev.rd, TRUE)
  BY <1>1, <1>4 DEF AssertionFiles, FinalEvidence
<1> QED BY <1>1, <1>2, <1>5 DEF Asserted

\* Dropping the history of a closure run touches nothing else.
LEMMA HistoryKeeps ==
    ASSUME NEW j \in JobType
    PROVE  /\ History(j) \in JobType
           /\ History(j).pc = j.pc /\ History(j).prof = j.prof /\ History(j).auth = j.auth
           /\ History(j).at = j.at
           /\ ~j.closed => History(j) = j
           /\ History(j).ext = j.ext /\ History(j).rd = j.rd
           /\ History(j).verified = j.verified /\ History(j).res = j.res
BY NoFileFacts DEF History, JobType

---------------------------------------------------------------------------
(* Steps                                                                   *)

LEMMA GatesInitial == Init => GatesIInv
<1> SUFFICES ASSUME Init PROVE GatesIInv OBVIOUS
<1>1. job = [c \in Commands |-> Idle] BY DEF Init
<1>2. GatesTypeOK
  BY <1>1, IdleFacts, NoFileFacts, GatesAssumption DEF Init, GatesTypeOK, MaxTurns
<1>3. \A c \in Commands : JobInv(c, job[c])
  BY <1>1, IdleFacts, NoFileFacts DEF JobInv, Backed, UsableReadiness, ValidReadiness
<1> QED BY <1>2, <1>3, NoFileFacts
        DEF GatesIInv, Backed, FinalBacked, LocalFinal, UsableReadiness, ValidReadiness, Init

\* A step of command c: nothing is signed, and the reports it writes are backed.
LEMMA CommandMoves ==
    ASSUME GatesIInv, NEW c \in Commands, NEW j \in JobType, Become(c, j), JobInv(c, j),
           UNCHANGED <<inputs, clock, changes>>, turns' \in 0..MaxTurns,
           rd' \in ReadinessFiles, Backed(rd'), fin' \in FinalFiles, FinalBacked(fin')
    PROVE  GatesIInv'
<1> DEFINE h == History(j)
<1>1. h \in JobType /\ h.pc = j.pc /\ h.prof = j.prof /\ h.auth = j.auth /\ h.ext = j.ext
      /\ h.rd = j.rd /\ h.verified = j.verified /\ h.res = j.res
  BY HistoryKeeps
<1>2. job' = [job EXCEPT ![c] = h] BY DEF Become
<1> HIDE DEF h
<1>3. /\ job' \in [Commands -> JobType] /\ job'[c] = h
      /\ \A d \in Commands \ {c} : job'[d] = job[d]
  BY <1>1, <1>2 DEF GatesIInv, GatesTypeOK
<1>4. JobInv(c, h) BY <1>1 DEF JobInv
<1>5. \A d \in Commands : JobInv(d, job'[d])
  <2> SUFFICES ASSUME NEW d \in Commands PROVE JobInv(d, job'[d]) OBVIOUS
  <2>1. CASE d = c BY <1>3, <1>4, <2>1
  <2>2. CASE d # c BY <1>3, <2>2 DEF GatesIInv
  <2> QED BY <2>1, <2>2
<1>6. bundles' = bundles BY DEF inputs
<1>7. \A d \in Commands : JobInv(d, job[d])'
  BY <1>5, <1>6, ZenonT(60) DEF JobInv, Backed, Speaks, Justified, Asserted
<1>8. GatesTypeOK' BY <1>3 DEF GatesIInv, GatesTypeOK, inputs
<1>9. Backed(rd)' /\ FinalBacked(fin)' BY <1>6 DEF Backed, Speaks, FinalBacked, Justified
<1> QED BY <1>7, <1>8, <1>9 DEF GatesIInv

\* A step from outside: no command moves, and the bundles stay.
LEMMA OutsideMoves ==
    ASSUME GatesIInv, GatesTypeOK', bundles \subseteq bundles', UNCHANGED job,
           Backed(rd)', FinalBacked(fin)'
    PROVE  GatesIInv'
<1>1. \A c \in Commands : JobInv(c, job[c])'
  BY ZenonT(60) DEF GatesIInv, JobInv, Backed, Speaks, Justified, Asserted
<1> QED BY <1>1 DEF GatesIInv

LEMMA PutTyped ==
    ASSUME GatesIInv, NEW r, Put(r) PROVE rd' = r /\ turns' \in 0..MaxTurns
BY DEF Put, GatesIInv, GatesTypeOK, MaxTurns

LEMMA OutsideStep ==
    ASSUME GatesIInv,
           Tick \/ Edit \/ SupplyBadEvidence \/ CopyReports \/ SignExternal \/ SignFinal
    PROVE  GatesIInv'
<1>0. GatesTypeOK /\ Backed(rd) /\ FinalBacked(fin) BY DEF GatesIInv
<1>c. changes' \in Nat /\ clock' \in Nat
  <2>1. /\ changes \in Nat /\ (changes' = changes \/ changes' = changes + 1)
        /\ clock \in Nat /\ (clock' = clock \/ clock' = clock + 1)
    BY <1>0 DEF GatesTypeOK, Tick, Edit, SupplyBadEvidence, CopyReports, SignExternal, SignFinal
  <2> QED BY <2>1
<1>1. \A p \in Profiles, a \in Authorities, o \in Observations, g \in BOOLEAN :
         ExternalEvidence(p, a, o, g) \in ExternalFiles
  BY DEF ExternalEvidence, ExternalFiles
<1>2. \A p \in Profiles, a \in Authorities, r \in ReadinessReports, g \in BOOLEAN :
         FinalEvidence(p, a, r, g) \in AssertionFiles
  BY DEF FinalEvidence, AssertionFiles
<1>3. ASSUME UNCHANGED <<rd, fin>>, bundles \subseteq bundles'
      PROVE  Backed(rd)' /\ FinalBacked(fin)'
  BY <1>0, <1>3 DEF Backed, Speaks, FinalBacked, Justified
<1>4. CASE Tick
  <2>1. GatesTypeOK' BY <1>0, <1>c, <1>4 DEF Tick, GatesTypeOK, inputs, report
  <2> QED BY <1>3, <1>4, <2>1, OutsideMoves DEF Tick, inputs, report
<1>5. CASE Edit
  <2>1. GatesTypeOK' BY <1>0, <1>c, <1>5 DEF Edit, GatesTypeOK, report
  <2> QED BY <1>3, <1>5, <2>1, OutsideMoves DEF Edit, report
\* A bundle is written.
<1>6. ASSUME NEW b \in ExternalFiles \cup AssertionFiles, Supply(b),
             UNCHANGED <<profile, authority, localOk, report, fin, job, clock>>
      PROVE  GatesIInv'
  <2>1. GatesTypeOK' BY <1>0, <1>c, <1>6 DEF Supply, GatesTypeOK, report
  <2> QED BY <1>3, <1>6, <2>1, OutsideMoves DEF Supply, report
<1>7. CASE SupplyBadEvidence
  <2>0. UNCHANGED <<profile, authority, localOk, report, fin, job, clock>>
        /\ profile \in Profiles /\ authority \in Authorities
    BY <1>0, <1>7 DEF SupplyBadEvidence, GatesTypeOK
  <2>1. CASE \E o \in Observations : Supply(ExternalEvidence(profile, authority, o, FALSE))
    BY <1>1, <1>6, <2>0, <2>1
  <2>2. CASE ValidReadiness(rd) /\ Supply(FinalEvidence(rd.prof, rd.auth, rd, FALSE))
    <3>0. rd \in ReadinessReports /\ rd.prof \in Profiles /\ rd.auth \in Authorities
      BY <1>0, <2>2, ReadinessFields DEF GatesTypeOK, ValidReadiness
    <3> QED BY <1>2, <1>6, <2>0, <2>2, <3>0
  <2> QED BY <1>7, <2>1, <2>2 DEF SupplyBadEvidence
<1>8. CASE CopyReports
  <2>0. /\ UNCHANGED <<inputs, job, clock>> /\ profile \in Profiles /\ authority \in Authorities
        /\ clock \in Nat
    BY <1>0, <1>8 DEF CopyReports, GatesTypeOK
  <2> PICK o \in Observations :
        Put(ReadinessReport(profile, authority, clock, TRUE,
                            ExternalEvidence(profile, authority, o, TRUE), "elsewhere"))
    BY <1>8 DEF CopyReports
  <2>1. rd' \in ReadinessReports /\ rd'.root = "elsewhere" /\ turns' \in 0..MaxTurns
    <3>1. ExternalEvidence(profile, authority, o, TRUE) \in ExternalVerdicts
      BY <1>1, <2>0 DEF ExternalVerdicts
    <3> DEFINE r == ReadinessReport(profile, authority, clock, TRUE,
                                    ExternalEvidence(profile, authority, o, TRUE), "elsewhere")
    <3>2. r \in ReadinessReports /\ r.root = "elsewhere"
      BY <2>0, <3>1 DEF ReadinessReport, ReadinessReports
    <3>3. Put(r) OBVIOUS
    <3>4. rd' = r BY <3>3 DEF Put
    <3> HIDE DEF r
    <3> QED BY <1>0, <3>2, <3>3, <3>4, PutTyped
  <2>2. fin' \in FinalFiles /\ fin'.root = "elsewhere"
    BY <1>8, <2>1 DEF CopyReports, FinalReport, FinalFiles, FinalReports
  <2>3. GatesTypeOK' BY <1>0, <1>c, <2>0, <2>1, <2>2 DEF GatesTypeOK, ReadinessFiles, inputs
  <2>4. Backed(rd)' /\ FinalBacked(fin)'
    BY <2>1, <2>2 DEF Backed, FinalBacked, UsableReadiness, LocalFinal
  <2> QED BY <2>0, <2>3, <2>4, OutsideMoves DEF inputs
<1>9. CASE SignExternal
  <2>1. /\ UNCHANGED <<profile, authority, localOk, report, fin, job, clock>>
        /\ profile \in Profiles /\ authority \in Authorities
        /\ \E o \in Observations : Supply(ExternalEvidence(profile, authority, o, TRUE))
    BY <1>0, <1>9 DEF SignExternal, GatesTypeOK
  <2> QED BY <1>1, <1>6, <2>1
<1>10. CASE SignFinal
  <2>1. /\ UNCHANGED <<profile, authority, localOk, report, fin, job, clock>>
        /\ ValidReadiness(rd) /\ rd.prof = profile /\ authority \in Authorities
        /\ Supply(FinalEvidence(profile, authority, rd, TRUE))
    BY <1>0, <1>10 DEF SignFinal, GatesTypeOK, UsableReadiness
  <2>2. rd \in ReadinessReports /\ profile \in Profiles
    BY <1>0, <2>1, ReadinessFields DEF GatesTypeOK, ValidReadiness
  <2> QED BY <1>2, <1>6, <2>1, <2>2
<1> QED BY <1>4, <1>5, <1>7, <1>8, <1>9, <1>10

\* The evaluation of the readiness and closure commands.
LEMMA EvaluationStep ==
    ASSUME GatesIInv, NEW c \in Evaluations,
           BeginReadiness(c) \/ ReadAuthority(c) \/ ReadExternal(c) \/ ReadLocal(c)
    PROVE  GatesIInv'
<1> DEFINE o == job[c]
<1>0. /\ c \in Commands /\ o \in JobType /\ JobInv(c, o) /\ clock \in Nat
      /\ c \notin Acceptors /\ turns \in 0..MaxTurns /\ authority \in Authorities /\ fin \in FinalFiles /\ rd \in ReadinessFiles
      /\ Backed(rd) /\ FinalBacked(fin)
      /\ UNCHANGED <<inputs, fin, clock, changes>>
  BY GatesAssumption DEF Commands, GatesIInv, GatesTypeOK, BeginReadiness, ReadAuthority,
     ReadExternal, ReadLocal, Assemble
<1>a. o.rd \in ReadinessFiles /\ Backed(o.rd) BY <1>0 DEF JobType, JobInv
<1>b. ~UsableReadiness(NoFile) /\ ~UsableReadiness(Torn)
  BY NoFileFacts DEF UsableReadiness, ValidReadiness
<1>1. CASE BeginReadiness(c)
  <2>1. PICK p \in Profiles, t \in Nat, d \in BOOLEAN, e \in BOOLEAN, f \in FinalFiles :
          Become(c, [Idle EXCEPT !.pc = "authority", !.prof = p, !.at = t,
                                 !.default = d, !.closed = e, !.fin = f])
    <3>1. PICK p \in Profiles, t \in IF c = "closure" THEN 0..clock ELSE {clock} :
            Become(c, [Idle EXCEPT !.pc = "authority", !.prof = p, !.at = t,
                                   !.default = (c = "closure" /\ t = clock),
                                   !.closed = (c = "closure"),
                                   !.fin = IF c = "closure" THEN fin ELSE NoFile])
      BY <1>1 DEF BeginReadiness
    <3>0. t \in Nat BY <1>0
    <3>2. PICK d \in BOOLEAN : d = (c = "closure" /\ t = clock) OBVIOUS
    <3>3. PICK e \in BOOLEAN : e = (c = "closure") OBVIOUS
    <3>4. PICK f \in FinalFiles : f = IF c = "closure" THEN fin ELSE NoFile
      BY <1>0, NoFileFacts
    <3> QED BY <3>0, <3>1, <3>2, <3>3, <3>4
  <2> DEFINE j == [Idle EXCEPT !.pc = "authority", !.prof = p, !.at = t,
                               !.default = d, !.closed = e, !.fin = f]
  <2>2. UNCHANGED report BY <1>1 DEF BeginReadiness
  <2>3. j \in JobType /\ j.pc = "authority" /\ j.prof = p /\ j.rd = NoFile
        /\ j.res = "none"
    BY IdleFacts, ZenonT(40) DEF JobType, JobPCs
  <2> HIDE DEF j
  <2>4. JobInv(c, j) BY <1>0, <1>b, <2>3 DEF JobInv, Backed
  <2>5. Become(c, j) BY <2>1 DEF j
  <2> QED BY <1>0, <2>2, <2>3, <2>4, <2>5, CommandMoves DEF report
<1>2. CASE ReadAuthority(c)
  <2> DEFINE j == [job[c] EXCEPT !.pc = "evidence", !.auth = authority]
  <2>1. o.pc = "authority" /\ Become(c, j) /\ UNCHANGED report BY <1>2 DEF ReadAuthority
  <2>2. j \in JobType /\ j.pc = "evidence" /\ j.prof = o.prof /\ j.auth = authority
        /\ j.rd = o.rd /\ j.res = o.res
    BY <1>0 DEF JobType, JobPCs
  <2> HIDE DEF j
  <2>3. JobInv(c, j) BY <1>0, <2>1, <2>2 DEF JobInv
  <2> QED BY <1>0, <2>1, <2>2, <2>3, CommandMoves DEF report
<1>3. CASE ReadExternal(c)
  <2>1. PICK ev \in Given :
          Become(c, [job[c] EXCEPT !.pc = "local",
                     !.ext = IF ev = NoFile \/ VerifyExternal(ev, job[c].prof, job[c].auth)
                             THEN ev ELSE Rejected])
    BY <1>3 DEF ReadExternal
  <2>a. PICK e \in ExternalVerdicts :
          /\ e = IF ev = NoFile \/ VerifyExternal(ev, job[c].prof, job[c].auth)
                 THEN ev ELSE Rejected
          /\ e.kind = "external" => Speaks(e, o.prof, o.auth)
    BY NoFileFacts, ExternalVerified
  <2> DEFINE j == [job[c] EXCEPT !.pc = "local", !.ext = e]
  <2>2. o.pc = "evidence" /\ Become(c, j) /\ UNCHANGED report
    BY <1>3, <2>1, <2>a DEF ReadExternal
  <2>3. j \in JobType /\ j.pc = "local" /\ j.ext = e /\ j.prof = o.prof /\ j.auth = o.auth
        /\ j.rd = o.rd /\ j.res = o.res
    BY <1>0 DEF JobType, JobPCs
  <2> HIDE DEF j
  <2>4. JobInv(c, j) BY <1>0, <2>2, <2>3, <2>a DEF JobInv
  <2> QED BY <1>0, <2>2, <2>3, <2>4, CommandMoves DEF report
<1>4. CASE ReadLocal(c)
  <2> DEFINE r == Evaluated(c, job[c].at)
  <2>0. o.pc = "local" BY <1>4 DEF ReadLocal, Assemble
  <2>1. r \in ReadinessReports /\ r.root = "here" /\ r.kind = "readiness"
        /\ r.prof = o.prof /\ r.auth = o.auth /\ r.ext = o.ext
    <3>1. localOk \in BOOLEAN /\ o.prof \in Profiles /\ o.auth \in Authorities
          /\ o.ext \in ExternalVerdicts /\ o.at \in Nat
      BY <1>0, <2>0 DEF GatesIInv, GatesTypeOK, JobInv, JobType
    <3> QED BY <3>1 DEF Evaluated, ReadinessReport, ReadinessReports, LocalChecks
  <2>2. /\ \/ c \in Evaluators /\ Put(Torn) /\ Become(c, [Idle EXCEPT !.pc = "flush", !.rd = r])
           \/ c = "closure" /\ UNCHANGED report /\ Become(c, [job[c] EXCEPT !.pc = "verify", !.rd = r])
    BY <1>4 DEF ReadLocal, Assemble
  <2> HIDE DEF r
  <2>3. r \in ReadinessFiles /\ Backed(r) /\ UsableReadiness(r)
    BY <1>0, <2>0, <2>1 DEF Backed, JobInv, ReadinessFiles, UsableReadiness, ValidReadiness
  <2>4. CASE /\ c \in Evaluators /\ Put(Torn)
             /\ Become(c, [Idle EXCEPT !.pc = "flush", !.rd = r])
    <3> DEFINE j == [Idle EXCEPT !.pc = "flush", !.rd = r]
    <3>1. j \in JobType /\ j.pc = "flush" /\ j.rd = r /\ j.res = "none"
      BY <2>3, IdleFacts DEF JobType, JobPCs
    <3>2. Become(c, j) BY <2>4
    <3> HIDE DEF j
    <3>3. JobInv(c, j) BY <1>0, <2>3, <2>4, <3>1, GatesAssumption DEF JobInv
    <3>4. rd' \in ReadinessFiles /\ Backed(rd') /\ turns' \in 0..MaxTurns
      BY <1>b, <2>4, NoFileFacts, PutTyped DEF Backed
    <3> QED BY <1>0, <3>1, <3>2, <3>3, <3>4, CommandMoves
  <2>5. CASE /\ c = "closure" /\ UNCHANGED report
             /\ Become(c, [job[c] EXCEPT !.pc = "verify", !.rd = r])
    <3> DEFINE j == [job[c] EXCEPT !.pc = "verify", !.rd = r]
    <3>1. j \in JobType /\ j.pc = "verify" /\ j.rd = r /\ j.res = o.res
      BY <1>0, <2>3 DEF JobType, JobPCs
    <3>2. Become(c, j) BY <2>5
    <3> HIDE DEF j
    <3>3. JobInv(c, j) BY <1>0, <2>0, <2>3, <2>5, <3>1 DEF JobInv
    <3> QED BY <1>0, <2>5, <3>1, <3>2, <3>3, CommandMoves DEF report
  <2> QED BY <2>2, <2>4, <2>5
<1> QED BY <1>1, <1>2, <1>3, <1>4

\* The record an idle command begins or ends with.
LEMMA IdleAgain ==
    ASSUME NEW p \in JobPCs, NEW r \in ReadinessFiles
    PROVE  LET j == [Idle EXCEPT !.pc = p, !.rd = r]
           IN  j \in JobType /\ j.pc = p /\ j.rd = r /\ j.res = "none"
BY IdleFacts DEF JobType

LEMMA IdleInv == \A c \in Commands : JobInv(c, Idle)
BY IdleFacts, NoFileFacts DEF JobInv, Backed, UsableReadiness, ValidReadiness

LEMMA FlushStep ==
    ASSUME GatesIInv, NEW c \in Evaluators, FlushReadiness(c) PROVE GatesIInv'
<1>1. /\ c \in Commands /\ job[c] \in JobType /\ JobInv(c, job[c])
      /\ fin \in FinalFiles /\ FinalBacked(fin)
  BY DEF GatesIInv, GatesTypeOK, Commands, Evaluations
<1>2. /\ Put(job[c].rd) \/ Put(Torn)
      /\ Become(c, Idle) /\ UNCHANGED <<inputs, fin, clock, changes>>
  BY DEF FlushReadiness
<1>3. rd' \in ReadinessFiles /\ Backed(rd') /\ turns' \in 0..MaxTurns
  <2>1. job[c].rd \in ReadinessFiles /\ Backed(job[c].rd) BY <1>1 DEF JobType, JobInv
  <2>2. Backed(Torn) BY NoFileFacts DEF Backed, UsableReadiness, ValidReadiness
  <2> QED BY <1>2, <2>1, <2>2, NoFileFacts, PutTyped
<1> QED BY <1>1, <1>2, <1>3, IdleFacts, IdleInv, CommandMoves

LEMMA ClosureStep ==
    ASSUME GatesIInv, VerifyClosure PROVE GatesIInv'
<1> DEFINE o == job["closure"]
<1>1. /\ "closure" \in Commands /\ o \in JobType /\ JobInv("closure", o)
      /\ fin \in FinalFiles /\ FinalBacked(fin) /\ rd \in ReadinessFiles /\ Backed(rd)
      /\ "closure" \in Evaluations /\ "closure" \notin Acceptors /\ turns \in 0..MaxTurns
  BY GatesAssumption DEF GatesIInv, GatesTypeOK, Commands, Evaluations
<1>2. o.pc = "verify" /\ UNCHANGED <<inputs, rd, turns, fin, clock, changes>>
  BY DEF VerifyClosure, report
<1> PICK ev \in Given :
      IF DeploymentReady(o.rd) /\ VerifyFinal(ev, o.rd)
      THEN Become("closure", [Idle EXCEPT !.pc = "done", !.res = "ready", !.rd = o.rd])
      ELSE Become("closure", IF History(o).closed /\ o.ext = rd.ext /\ VerifyFinal(ev, rd)
                             THEN [o EXCEPT !.pc = "done", !.res = "blocked"] ELSE Idle)
  BY DEF VerifyClosure
<1>3. UsableReadiness(o.rd) /\ Backed(o.rd) /\ o.res # "ready" /\ o.rd \in ReadinessFiles
  BY <1>1, <1>2 DEF JobInv, JobType
<1>4. CASE DeploymentReady(o.rd) /\ VerifyFinal(ev, o.rd)
  <2> DEFINE j == [Idle EXCEPT !.pc = "done", !.res = "ready", !.rd = o.rd]
  <2>1. j \in JobType /\ j.pc = "done" /\ j.res = "ready" /\ j.rd = o.rd
    BY <1>3, IdleFacts DEF JobType, JobPCs
  <2>2. Become("closure", j) BY <1>4
  <2> HIDE DEF j
  <2>3. Asserted(o.rd) BY <1>4, FinalVerified
  <2>4. Justified(o.rd)
    BY <1>3, <1>4, <2>3 DEF Justified, Asserted, Backed, Speaks, DeploymentReady
  <2>5. JobInv("closure", j) BY <1>1, <1>3, <2>1, <2>4 DEF JobInv
  <2> QED BY <1>1, <1>2, <2>1, <2>2, <2>5, CommandMoves
<1>5. CASE ~(DeploymentReady(o.rd) /\ VerifyFinal(ev, o.rd))
  <2> DEFINE j == [job["closure"] EXCEPT !.pc = "done", !.res = "blocked"]
  <2>1. j \in JobType /\ j.pc = "done" /\ j.res = "blocked" /\ j.rd = o.rd
    BY <1>1 DEF JobType, JobPCs
  <2>2. Become("closure", j) \/ Become("closure", Idle) BY <1>5
  <2> HIDE DEF j
  <2>3. JobInv("closure", j) BY <1>1, <1>3, <2>1 DEF JobInv
  <2> QED BY <1>1, <1>2, <2>1, <2>2, <2>3, IdleFacts, IdleInv, CommandMoves
<1> QED BY <1>4, <1>5

\* build_final_acceptance_report
LEMMA FinalStep ==
    ASSUME GatesIInv, NEW c \in Acceptors,
           BeginFinal(c) \/ CheckFinalEvidence(c) \/ FlushFinal(c)
    PROVE  GatesIInv'
<1> DEFINE o == job[c]
<1>1. /\ c \in Commands /\ o \in JobType /\ JobInv(c, o)
      /\ fin \in FinalFiles /\ FinalBacked(fin) /\ rd \in ReadinessFiles /\ Backed(rd)
      /\ UNCHANGED <<inputs, rd, turns, clock, changes>> /\ turns \in 0..MaxTurns
      /\ c \notin Evaluations /\ c # "closure"
  BY GatesAssumption DEF GatesIInv, GatesTypeOK, Commands, Evaluations, BeginFinal,
     CheckFinalEvidence, FlushFinal, report
<1>2. Backed(NoFile) /\ ~UsableReadiness(NoFile)
  BY NoFileFacts DEF Backed, UsableReadiness, ValidReadiness
<1>3. o.rd \in ReadinessFiles /\ Backed(o.rd) BY <1>1 DEF JobType, JobInv
<1>4. CASE BeginFinal(c)
  <2>1. PICK r \in ReadinessFiles : r = IF UsableReadiness(rd) THEN rd ELSE NoFile
    BY <1>1, NoFileFacts
  <2> DEFINE j == [Idle EXCEPT !.pc = "evidence", !.rd = r]
  <2>2. j \in JobType /\ j.pc = "evidence" /\ j.rd = r /\ j.res = "none"
    BY IdleAgain DEF JobPCs
  <2>3. Become(c, j) /\ UNCHANGED fin BY <1>4, <2>1 DEF BeginFinal
  <2> HIDE DEF j
  <2>4. JobInv(c, j) BY <1>1, <1>2, <2>1, <2>2 DEF JobInv
  <2> QED BY <1>1, <2>2, <2>3, <2>4, CommandMoves
<1>5. CASE CheckFinalEvidence(c)
  <2>0. PICK ev \in Given :
          Become(c, [job[c] EXCEPT !.pc = "flush",
                                   !.verified = job[c].rd # NoFile /\ VerifyFinal(ev, job[c].rd)])
    BY <1>5 DEF CheckFinalEvidence
  <2>1. PICK v \in BOOLEAN : v = (o.rd # NoFile /\ VerifyFinal(ev, o.rd)) OBVIOUS
  <2> DEFINE j == [job[c] EXCEPT !.pc = "flush", !.verified = v]
  <2>2. j \in JobType /\ j.pc = "flush" /\ j.rd = o.rd /\ j.res = o.res /\ j.verified = v
    BY <1>1 DEF JobType, JobPCs
  <2>3. Become(c, j) /\ fin' = Torn /\ o.pc = "evidence"
    BY <1>5, <2>0, <2>1 DEF CheckFinalEvidence
  <2> HIDE DEF j
  <2>4. v => UsableReadiness(o.rd) /\ Asserted(o.rd)
    BY <1>1, <2>1, <2>3, FinalVerified DEF JobInv
  <2>5. JobInv(c, j) BY <1>1, <1>3, <2>2, <2>3, <2>4 DEF JobInv
  <2>6. fin' \in FinalFiles /\ FinalBacked(fin')
    BY <2>3, NoFileFacts DEF FinalBacked, LocalFinal
  <2> QED BY <1>1, <2>2, <2>3, <2>5, <2>6, CommandMoves
<1>6. CASE FlushFinal(c)
  <2>1. o.pc = "flush" /\ Become(c, Idle) BY <1>6 DEF FlushFinal
  <2>2. PICK ok \in BOOLEAN : ok = (o.rd # NoFile /\ DeploymentReady(o.rd) /\ o.verified)
    OBVIOUS
  <2>3. fin' = FinalReport(o.rd, o.verified, ok, "here") \/ fin' = Torn
    BY <1>6, <2>2 DEF FlushFinal
  <2>4. o.verified \in BOOLEAN /\ o.rd \in ReadinessReports \cup {NoFile}
    BY <1>1, <1>3, <2>1, ReadinessFields DEF JobInv, JobType, UsableReadiness,
       ValidReadiness
  <2>5. CASE fin' = FinalReport(o.rd, o.verified, ok, "here")
    <3>1. fin' \in FinalFiles /\ fin'.rd = o.rd /\ fin'.ready = ok
      BY <2>4, <2>5 DEF FinalReport, FinalReports, FinalFiles
    <3>2. ok => Justified(o.rd)
      BY <1>1, <1>3, <2>1, <2>2 DEF JobInv, Justified, Asserted, Backed, Speaks, DeploymentReady
    <3>3. FinalBacked(fin') BY <3>1, <3>2 DEF FinalBacked
    <3> QED BY <1>1, <2>1, <3>1, <3>3, IdleFacts, IdleInv, CommandMoves
  <2>6. CASE fin' = Torn
    <3>1. fin' \in FinalFiles /\ FinalBacked(fin')
      BY <2>6, NoFileFacts DEF FinalBacked, LocalFinal
    <3> QED BY <1>1, <2>1, <3>1, IdleFacts, IdleInv, CommandMoves
  <2> QED BY <2>3, <2>5, <2>6
<1> QED BY <1>4, <1>5, <1>6

\* The review package reads reports and writes none that the gates read.
LEMMA PackageStep ==
    ASSUME GatesIInv,
           \/ ReadReadinessForPackage \/ ReadFinalForPackage \/ ValidateForPackage
           \/ RereadForPackage \/ CheckInventory
    PROVE  GatesIInv'
<1> DEFINE o == job["package"]
<1>1. /\ "package" \in Commands /\ o \in JobType /\ JobInv("package", o)
      /\ fin \in FinalFiles /\ FinalBacked(fin) /\ rd \in ReadinessFiles /\ Backed(rd)
      /\ UNCHANGED <<inputs, rd, fin, clock, changes>>
      /\ "package" \notin Evaluations \cup Acceptors
  BY GatesAssumption DEF GatesIInv, GatesTypeOK, Commands, ReadReadinessForPackage,
     ReadFinalForPackage, ValidateForPackage, RereadForPackage, CheckInventory, report
<1>2. \A j : JobInv("package", j) <=> Backed(j.rd) BY <1>1 DEF JobInv, Evaluations
<1>t. turns \in 0..MaxTurns /\ 0 \in 0..MaxTurns BY DEF GatesIInv, GatesTypeOK, MaxTurns
<1>3. ASSUME NEW r \in {"accepted", "none"}, EndPackage(r) PROVE GatesIInv'
  <2> DEFINE j == [Idle EXCEPT !.res = r]
  <2>1. j \in JobType /\ j.rd = NoFile BY IdleFacts DEF JobType
  <2>2. Become("package", j) /\ turns' = 0 BY <1>3 DEF EndPackage
  <2> HIDE DEF j
  <2>3. JobInv("package", j)
    BY <1>2, <2>1, NoFileFacts DEF Backed, UsableReadiness, ValidReadiness
  <2> QED BY <1>1, <1>t, <2>1, <2>2, <2>3, CommandMoves
<1>4. ASSUME NEW p \in JobPCs, GoOn([job["package"] EXCEPT !.pc = p])
      PROVE  GatesIInv'
  <2> DEFINE j == [job["package"] EXCEPT !.pc = p]
  <2>1. j \in JobType /\ j.rd = o.rd BY <1>1 DEF JobType
  <2>2. Become("package", j) /\ turns' = turns BY <1>4 DEF GoOn
  <2> HIDE DEF j
  <2> QED BY <1>1, <1>2, <1>t, <2>1, <2>2, CommandMoves
<1>5. CASE ReadReadinessForPackage
  <2> DEFINE j == [Idle EXCEPT !.pc = "final", !.rd = rd]
  <2>1. j \in JobType /\ j.rd = rd BY <1>1, IdleAgain DEF JobPCs
  <2>2. Become("package", j) /\ turns' = turns BY <1>5 DEF ReadReadinessForPackage, report
  <2> HIDE DEF j
  <2> QED BY <1>1, <1>2, <1>t, <2>1, <2>2, CommandMoves
<1>6. CASE ReadFinalForPackage
  <2> DEFINE j == [job["package"] EXCEPT !.pc = "validate", !.fin = fin]
  <2>1. j \in JobType /\ j.rd = o.rd BY <1>1 DEF JobType, JobPCs
  <2>2. (Become("package", j) /\ turns' = turns) \/ EndPackage("none")
    BY <1>6 DEF ReadFinalForPackage, GoOn, Refuse
  <2> HIDE DEF j
  <2> QED BY <1>1, <1>2, <1>3, <1>t, <2>1, <2>2, CommandMoves
<1>7. CASE ValidateForPackage
  <2>1. PICK p \in JobPCs : p = IF o.pc = "validate" THEN "reread" ELSE "inventory"
    BY DEF JobPCs
  <2>2. GoOn([job["package"] EXCEPT !.pc = p]) \/ EndPackage("none")
    BY <1>7, <2>1 DEF ValidateForPackage, Refuse
  <2> QED BY <1>3, <1>4, <2>2
<1>8. CASE RereadForPackage
  <2>1. \/ GoOn([job["package"] EXCEPT !.pc = "refinal"])
        \/ GoOn([job["package"] EXCEPT !.pc = "revalidate"])
        \/ EndPackage("none")
    BY <1>8 DEF RereadForPackage, Refuse
  <2> QED BY <1>3, <1>4, <2>1 DEF JobPCs
<1>9. CASE CheckInventory
  <2>1. EndPackage("accepted") \/ EndPackage("none") BY <1>9 DEF CheckInventory, Refuse
  <2> QED BY <1>3, <2>1
<1> QED BY <1>5, <1>6, <1>7, <1>8, <1>9

LEMMA GatesStable ==
    ASSUME GatesIInv, [Next]_vars PROVE GatesIInv'
<1>1. CASE UNCHANGED vars
  <2>1. UNCHANGED <<profile, authority, localOk, bundles, rd, turns, fin, job, clock, changes>>
    BY <1>1 DEF vars, inputs, report
  <2>2. GatesTypeOK' /\ Backed(rd)' /\ FinalBacked(fin)'
    BY <2>1 DEF GatesIInv, GatesTypeOK, Backed, Speaks, FinalBacked, Justified
  <2> QED BY <2>1, <2>2, OutsideMoves
<1> QED BY <1>1, OutsideStep, EvaluationStep, FlushStep, ClosureStep, FinalStep, PackageStep
        DEF Next

\* The inductive invariant of the promotion chain.
THEOREM GatesInvariant == Spec => []GatesIInv
BY GatesInitial, GatesStable, PTL DEF Spec

\* Every file and every record the commands keep has its form.
THEOREM GatesTypeCorrect == Spec => []GatesTypeOK
<1>1. GatesIInv => GatesTypeOK BY DEF GatesIInv
<1> QED BY <1>1, GatesInvariant, PTL

\* A final report that says ready and validates, and a closure that says ready, rest
\* on both signatures for that very readiness report (final_acceptance.py,
\* verify_deployment_closure.py), whatever is edited, copied, torn, replaced or signed
\* anew while the commands read their files one by one.
THEOREM ReadyRestsOnSignatures == Spec => []ReadyIsSigned
<1>1. ASSUME GatesIInv PROVE ReadyIsSigned
  <2>1. ValidFinal(fin, rd) /\ fin.ready => Justified(rd)
    BY <1>1 DEF GatesIInv, FinalBacked, ValidFinal
  <2>2. job["closure"].res = "ready" => Justified(job["closure"].rd)
    <3>1. "closure" \in Commands BY DEF Commands, Evaluations
    <3>2. JobInv("closure", job["closure"]) BY <1>1, <3>1 DEF GatesIInv
    <3> QED BY <3>2 DEF JobInv
  <2> QED BY <2>1, <2>2 DEF ReadyIsSigned
<1> QED BY <1>1, GatesInvariant, PTL

---------------------------------------------------------------------------
(* Packages.  A package that combines reports of different evaluations has *)
(* seen its own report, the one that its final report binds, its own again *)
(* and the other again; each must have been put where the one before was.  *)

PackagePCs == {"final", "validate", "reread", "refinal", "revalidate", "inventory"}

Mixed(p) == p.fin.rd # p.rd

\* Another report than the package's own is there now.
Displaced(p) == ValidReadiness(rd) /\ rd # p.rd

\* The inductive invariant of a package p: what it has read, and how often the report
\* must have been put back since it was begun.
PackageInv(p) ==
    /\ ~p.closed
    /\ p.pc \in PackagePCs => p.res = "none" /\ ValidReadiness(p.rd)
    /\ p.pc \in PackagePCs \ {"final"} => LocalFinal(p.fin)
    /\ p.pc \in PackagePCs \ {"final", "validate"} => UsableReadiness(p.fin.rd)
    /\ (p.pc \in {"final", "validate"} /\ Displaced(p)) => turns >= 1
    /\ (p.pc = "reread" /\ Mixed(p)) => turns >= 1 /\ (rd = p.rd => turns >= 2)
    /\ (p.pc \in {"refinal", "revalidate"} /\ Mixed(p)) =>
          turns >= 2 /\ (Displaced(p) => turns >= 3)
    /\ (p.pc = "inventory" /\ Mixed(p)) => turns >= 3 /\ (rd = p.rd => turns >= 4)

\* The report as other commands leave it in a step: as it was, no report, or one more.
Turned ==
    \/ rd' = rd /\ turns' = turns
    \/ ~ValidReadiness(rd') /\ turns' = turns
    \/ ValidReadiness(rd') /\ turns' = IF turns < MaxTurns THEN turns + 1 ELSE turns

LEMMA PutTurns ==
    ASSUME NEW r, Put(r), job["package"].pc # "idle" PROVE Turned
BY DEF Put, Turned

\* What a package has seen holds whatever the other commands leave.
LEMMA PackageKept ==
    ASSUME GatesIInv, NEW p \in JobType, PackageInv(p), Turned
    PROVE  PackageInv(p)'
<1>1. turns \in 0..4 BY DEF GatesIInv, GatesTypeOK, MaxTurns
<1>2. turns' = turns \/ (turns' = turns + 1 /\ turns < 4) \/ (turns' = 4 /\ turns = 4)
  BY <1>1 DEF Turned, MaxTurns
<1>3. \/ rd' = rd /\ turns' = turns
      \/ ~ValidReadiness(rd') /\ turns' = turns
      \/ ValidReadiness(rd') /\ (turns' = turns + 1 \/ (turns' = 4 /\ turns = 4))
  BY <1>1, <1>2 DEF Turned, MaxTurns
<1>4. p.pc \in PackagePCs => ValidReadiness(p.rd) BY DEF PackageInv
<1>5. CASE p.pc \in {"final", "validate"}
  <2>1. Displaced(p)' => turns' >= 1
    BY <1>1, <1>3, <1>5 DEF PackageInv, Displaced
  <2> QED BY <1>5, <2>1 DEF PackageInv, PackagePCs
<1>6. CASE p.pc = "reread"
  <2>1. Mixed(p) => turns' >= 1 /\ (rd' = p.rd => turns' >= 2)
    BY <1>1, <1>3, <1>4, <1>6 DEF PackageInv, PackagePCs
  <2> QED BY <1>6, <2>1 DEF PackageInv, PackagePCs, Mixed
<1>7. CASE p.pc \in {"refinal", "revalidate"}
  <2>1. Mixed(p) => turns' >= 2 /\ (Displaced(p)' => turns' >= 3)
    BY <1>1, <1>3, <1>7 DEF PackageInv, Displaced
  <2> QED BY <1>7, <2>1 DEF PackageInv, PackagePCs, Mixed
<1>8. CASE p.pc = "inventory"
  <2>1. Mixed(p) => turns' >= 3 /\ (rd' = p.rd => turns' >= 4)
    BY <1>1, <1>3, <1>4, <1>8 DEF PackageInv, PackagePCs
  <2> QED BY <1>8, <2>1 DEF PackageInv, PackagePCs, Mixed
<1>9. CASE p.pc \notin PackagePCs BY <1>9 DEF PackageInv, PackagePCs
<1> QED BY <1>5, <1>6, <1>7, <1>8, <1>9 DEF PackagePCs

\* A step of another command, or from outside.
LEMMA OthersMove ==
    ASSUME GatesIInv, Next,
           ~(\/ ReadReadinessForPackage \/ ReadFinalForPackage \/ ValidateForPackage
             \/ RereadForPackage \/ CheckInventory)
    PROVE  /\ job'["package"] = job["package"]
           /\ job["package"].pc # "idle" => Turned
<1>1. job \in [Commands -> JobType] BY DEF GatesIInv, GatesTypeOK
<1>2. ASSUME NEW c \in Commands \ {"package"}, NEW j, Become(c, j)
      PROVE  job'["package"] = job["package"]
  BY <1>1, <1>2 DEF Become, Commands
<1>3. ASSUME UNCHANGED report PROVE Turned BY <1>3 DEF report, Turned
<1>4. CASE Tick \/ Edit \/ SupplyBadEvidence \/ SignExternal \/ SignFinal
  <2>1. UNCHANGED <<job, report>>
    BY <1>4 DEF Tick, Edit, SupplyBadEvidence, SignExternal, SignFinal
  <2> QED BY <1>3, <2>1
<1>5. CASE CopyReports
  <2>1. job' = job /\ \E r : Put(r) BY <1>5 DEF CopyReports
  <2> QED BY <2>1, PutTurns
<1>6. ASSUME NEW c \in Evaluations,
             BeginReadiness(c) \/ ReadAuthority(c) \/ ReadExternal(c) \/ ReadLocal(c)
      PROVE  /\ job'["package"] = job["package"]
             /\ job["package"].pc # "idle" => Turned
  <2>1. c \in Commands \ {"package"} BY GatesAssumption DEF Commands
  <2>2. (\E j : Become(c, j)) /\ (UNCHANGED report \/ \E r : Put(r))
    BY <1>6 DEF BeginReadiness, ReadAuthority, ReadExternal, ReadLocal, Assemble
  <2> QED BY <1>2, <1>3, <2>1, <2>2, PutTurns
<1>7. ASSUME NEW c \in Evaluators, FlushReadiness(c)
      PROVE  /\ job'["package"] = job["package"]
             /\ job["package"].pc # "idle" => Turned
  <2>1. c \in Commands \ {"package"} BY GatesAssumption DEF Commands, Evaluations
  <2>2. Become(c, Idle) /\ \E r : Put(r) BY <1>7 DEF FlushReadiness
  <2> QED BY <1>2, <2>1, <2>2, PutTurns
<1>8. CASE VerifyClosure
  <2>1. "closure" \in Commands \ {"package"} BY DEF Commands, Evaluations
  <2>2. UNCHANGED report /\ \E j : Become("closure", j) BY <1>8 DEF VerifyClosure
  <2> QED BY <1>2, <1>3, <2>1, <2>2
<1>9. ASSUME NEW c \in Acceptors, BeginFinal(c) \/ CheckFinalEvidence(c) \/ FlushFinal(c)
      PROVE  /\ job'["package"] = job["package"]
             /\ job["package"].pc # "idle" => Turned
  <2>1. c \in Commands \ {"package"} BY GatesAssumption DEF Commands
  <2>2. UNCHANGED report /\ \E j : Become(c, j)
    BY <1>9 DEF BeginFinal, CheckFinalEvidence, FlushFinal
  <2> QED BY <1>2, <1>3, <2>1, <2>2
<1> QED BY <1>4, <1>5, <1>6, <1>7, <1>8, <1>9 DEF Next

\* The package's own record after a step of it.
LEMMA PackageBecomes ==
    ASSUME GatesIInv, NEW q \in JobType, ~q.closed, Become("package", q)
    PROVE  job'["package"] = q
BY HistoryKeeps DEF Become, GatesIInv, GatesTypeOK, Commands

\* A step of the package: nothing is read that it does not keep.
LEMMA PackageActs ==
    ASSUME GatesIInv, PackageInv(job["package"]),
           \/ ReadReadinessForPackage \/ ReadFinalForPackage \/ ValidateForPackage
           \/ RereadForPackage \/ CheckInventory
    PROVE  PackageInv(job["package"])'
<1> DEFINE p == job["package"]
<1>1. /\ "package" \in Commands /\ p \in JobType /\ p.rd \in ReadinessFiles /\ fin \in FinalFiles
      /\ rd \in ReadinessFiles /\ turns \in 0..4 /\ ~p.closed
  BY DEF GatesIInv, GatesTypeOK, Commands, JobType, PackageInv, MaxTurns
<1>2. rd' = rd
  BY DEF ReadReadinessForPackage, ReadFinalForPackage, ValidateForPackage, RereadForPackage,
         CheckInventory, report
\* A step to another place of the command that keeps what it has read.
<1>3. ASSUME NEW pc \in JobPCs, GoOn([job["package"] EXCEPT !.pc = pc])
      PROVE  LET q == job'["package"]
             IN  q.pc = pc /\ q.rd = p.rd /\ q.fin = p.fin /\ ~q.closed /\ q.res = p.res
                 /\ turns' = turns
  <2> DEFINE q == [job["package"] EXCEPT !.pc = pc]
  <2>1. q \in JobType /\ q.pc = pc /\ q.rd = p.rd /\ q.fin = p.fin /\ ~q.closed /\ q.res = p.res
    BY <1>1 DEF JobType
  <2>2. Become("package", q) /\ turns' = turns BY <1>3 DEF GoOn
  <2> HIDE DEF q
  <2>3. job'["package"] = q BY <2>1, <2>2, PackageBecomes
  <2> QED BY <2>1, <2>2, <2>3
<1>4. ASSUME NEW r \in {"accepted", "none"}, EndPackage(r) PROVE PackageInv(job["package"])'
  <2> DEFINE q == [Idle EXCEPT !.res = r]
  <2>1. q \in JobType /\ q.pc = "idle" /\ ~q.closed BY IdleFacts DEF JobType
  <2>2. Become("package", q) BY <1>4 DEF EndPackage
  <2> HIDE DEF q
  <2>3. job'["package"] = q BY <2>1, <2>2, PackageBecomes
  <2> QED BY <2>1, <2>3 DEF PackageInv, PackagePCs
<1>5. CASE ReadReadinessForPackage
  <2> DEFINE q == [Idle EXCEPT !.pc = "final", !.rd = rd]
  <2>1. q \in JobType /\ q.pc = "final" /\ q.rd = rd /\ q.res = "none" /\ ~q.closed
    <3>1. q \in JobType /\ q.pc = "final" /\ q.rd = rd /\ q.res = "none"
      <4>1. "final" \in JobPCs /\ rd \in ReadinessFiles BY <1>1 DEF JobPCs
      <4> QED BY <4>1, IdleAgain
    <3>2. ~q.closed BY IdleFacts DEF JobType
    <3> QED BY <3>1, <3>2
  <2>2. Become("package", q) /\ ValidReadiness(rd) BY <1>5 DEF ReadReadinessForPackage
  <2> HIDE DEF q
  <2>3. job'["package"] = q BY <2>1, <2>2, PackageBecomes
  <2> QED BY <1>2, <2>1, <2>2, <2>3 DEF PackageInv, PackagePCs, Displaced
<1>6. CASE ReadFinalForPackage
  <2> DEFINE q == [job["package"] EXCEPT !.pc = "validate", !.fin = fin]
  <2>1. q \in JobType /\ q.pc = "validate" /\ q.rd = p.rd /\ q.fin = fin /\ ~q.closed
        /\ q.res = p.res
    BY <1>1 DEF JobType, JobPCs
  <2>2. \/ LocalFinal(fin) /\ Become("package", q) /\ turns' = turns
        \/ EndPackage("none")
    BY <1>6 DEF ReadFinalForPackage, GoOn, Refuse
  <2>3. p.pc = "final" BY <1>6 DEF ReadFinalForPackage
  <2> HIDE DEF q
  <2>4. CASE LocalFinal(fin) /\ Become("package", q) /\ turns' = turns
    <3>1. job'["package"] = q BY <2>1, <2>4, PackageBecomes
    <3> QED BY <1>2, <2>1, <2>3, <2>4, <3>1 DEF PackageInv, PackagePCs, Displaced
  <2> QED BY <1>4, <2>2, <2>4
<1>7. CASE ValidateForPackage /\ p.pc = "validate"
  <2>1. \/ ValidFinal(p.fin, rd) /\ GoOn([job["package"] EXCEPT !.pc = "reread"])
        \/ EndPackage("none")
    BY <1>7 DEF ValidateForPackage, Refuse
  <2>2. CASE ValidFinal(p.fin, rd) /\ GoOn([job["package"] EXCEPT !.pc = "reread"])
    <3>1. LET q == job'["package"]
          IN  q.pc = "reread" /\ q.rd = p.rd /\ q.fin = p.fin /\ ~q.closed /\ q.res = p.res
              /\ turns' = turns
      BY <1>3, <2>2 DEF JobPCs
    <3>2. p.fin.rd = rd /\ UsableReadiness(rd) BY <2>2 DEF ValidFinal
    <3>3. Mixed(p) => Displaced(p) BY <3>2 DEF Mixed, Displaced, UsableReadiness
    <3>4. Mixed(p) => turns >= 1 /\ (rd = p.rd => turns >= 2)
      BY <1>7, <3>2, <3>3 DEF PackageInv, Mixed
    <3> QED BY <1>2, <1>7, <3>1, <3>2, <3>4 DEF PackageInv, PackagePCs, Mixed
  <2> QED BY <1>4, <2>1, <2>2
<1>8. CASE ValidateForPackage /\ p.pc = "revalidate"
  <2>1. \/ ValidFinal(p.fin, rd) /\ GoOn([job["package"] EXCEPT !.pc = "inventory"])
        \/ EndPackage("none")
    BY <1>8 DEF ValidateForPackage, Refuse
  <2>2. CASE ValidFinal(p.fin, rd) /\ GoOn([job["package"] EXCEPT !.pc = "inventory"])
    <3>1. LET q == job'["package"]
          IN  q.pc = "inventory" /\ q.rd = p.rd /\ q.fin = p.fin /\ ~q.closed /\ q.res = p.res
              /\ turns' = turns
      BY <1>3, <2>2 DEF JobPCs
    <3>2. p.fin.rd = rd /\ UsableReadiness(rd) BY <2>2 DEF ValidFinal
    <3>3. Mixed(p) => Displaced(p) BY <3>2 DEF Mixed, Displaced, UsableReadiness
    <3>4. Mixed(p) => turns >= 3 /\ (rd = p.rd => turns >= 4)
      BY <1>8, <3>2, <3>3 DEF PackageInv, Mixed
    <3> QED BY <1>2, <1>8, <3>1, <3>2, <3>4 DEF PackageInv, PackagePCs, Mixed
  <2> QED BY <1>4, <2>1, <2>2
<1>9. CASE RereadForPackage /\ p.pc = "reread"
  <2>1. \/ rd = p.rd /\ GoOn([job["package"] EXCEPT !.pc = "refinal"])
        \/ EndPackage("none")
    BY <1>9 DEF RereadForPackage, Refuse
  <2>2. CASE rd = p.rd /\ GoOn([job["package"] EXCEPT !.pc = "refinal"])
    <3>1. LET q == job'["package"]
          IN  q.pc = "refinal" /\ q.rd = p.rd /\ q.fin = p.fin /\ ~q.closed /\ q.res = p.res
              /\ turns' = turns
      BY <1>3, <2>2 DEF JobPCs
    <3>2. Mixed(p) => turns >= 2 BY <1>9, <2>2 DEF PackageInv
    <3> QED BY <1>2, <1>9, <2>2, <3>1, <3>2 DEF PackageInv, PackagePCs, Mixed, Displaced
  <2> QED BY <1>4, <2>1, <2>2
<1>10. CASE RereadForPackage /\ p.pc = "refinal"
  <2>1. GoOn([job["package"] EXCEPT !.pc = "revalidate"]) \/ EndPackage("none")
    BY <1>10 DEF RereadForPackage, Refuse
  <2>2. CASE GoOn([job["package"] EXCEPT !.pc = "revalidate"])
    <3>1. LET q == job'["package"]
          IN  q.pc = "revalidate" /\ q.rd = p.rd /\ q.fin = p.fin /\ ~q.closed /\ q.res = p.res
              /\ turns' = turns
      BY <1>3, <2>2 DEF JobPCs
    <3> QED BY <1>2, <1>10, <3>1 DEF PackageInv, PackagePCs, Mixed, Displaced
  <2> QED BY <1>4, <2>1, <2>2
<1>11. CASE CheckInventory
  <2>1. EndPackage("accepted") \/ EndPackage("none") BY <1>11 DEF CheckInventory, Refuse
  <2> QED BY <1>4, <2>1
<1> QED BY <1>5, <1>6, <1>7, <1>8, <1>9, <1>10, <1>11 DEF ValidateForPackage, RereadForPackage

LEMMA PackageStable ==
    ASSUME GatesIInv, PackageInv(job["package"]), [Next]_vars
    PROVE  PackageInv(job["package"])'
<1>1. job["package"] \in JobType BY DEF GatesIInv, GatesTypeOK, Commands
<1>2. ASSUME job'["package"] = job["package"], job["package"].pc # "idle" => Turned
      PROVE  PackageInv(job["package"])'
  <2>1. CASE job["package"].pc = "idle"
    BY <1>2, <2>1 DEF PackageInv, PackagePCs
  <2>2. CASE job["package"].pc # "idle"
    <3>1. PICK p \in JobType : p = job["package"] BY <1>1
    <3>2. PackageInv(p)' BY <1>2, <2>2, <3>1, PackageKept
    <3> QED BY <1>2, <3>1, <3>2
  <2> QED BY <2>1, <2>2
<1>3. CASE UNCHANGED vars BY <1>2, <1>3 DEF vars, report, Turned
<1>4. CASE Next BY <1>2, <1>4, OthersMove, PackageActs
<1> QED BY <1>3, <1>4

\* The inductive invariant of the review package.
THEOREM PackagesInvariant == Spec => []PackageInv(job["package"])
<1>1. ASSUME Init PROVE PackageInv(job["package"])
  BY <1>1, IdleFacts DEF Init, Commands, PackageInv, PackagePCs
<1> QED BY <1>1, PackageStable, GatesInvariant, PTL DEF Spec

\* However many readiness runs overwrite the report while a review package is built
\* and validated, side by side and with whatever evidence each was given, a package
\* that combines reports of different evaluations is not accepted unless the report
\* gave way to another and came back twice meanwhile (review_package.py).
THEOREM MixedPackagesNeedReturns == Spec => MixedPackageNeedsReturns
<1> DEFINE Returns == job["package"].pc = "inventory" /\ job'["package"].res = "accepted"
                        => ValidFinal(job["package"].fin, job["package"].rd) \/ turns = MaxTurns
<1>1. ASSUME GatesIInv, PackageInv(job["package"]), Next PROVE Returns
  <2> SUFFICES ASSUME job["package"].pc = "inventory", job'["package"].res = "accepted"
               PROVE  ValidFinal(job["package"].fin, job["package"].rd) \/ turns = MaxTurns
    OBVIOUS
  <2> DEFINE p == job["package"]
  <2>1. turns \in 0..4 BY <1>1 DEF GatesIInv, GatesTypeOK, MaxTurns
  <2>2. p.res = "none" /\ LocalFinal(p.fin) /\ UsableReadiness(p.fin.rd)
    BY <1>1 DEF PackageInv, PackagePCs
  <2>3. CheckInventory
    <3>1. job'["package"] # job["package"] BY <2>2
    <3>2. p.pc \notin {"idle", "final", "validate", "revalidate", "reread", "refinal"}
      OBVIOUS
    <3> QED BY <1>1, <3>1, <3>2, OthersMove
            DEF ReadReadinessForPackage, Start, ReadFinalForPackage, ValidateForPackage,
                RereadForPackage
  <2>4. rd = p.rd
    <3>1. ASSUME EndPackage("none") PROVE FALSE
      <4>1. Become("package", [Idle EXCEPT !.res = "none"]) BY <3>1 DEF EndPackage
      <4>2. PICK q : q = [Idle EXCEPT !.res = "none"] OBVIOUS
      <4>3. q \in JobType /\ q.res = "none" /\ ~q.closed BY <4>2, IdleFacts DEF JobType
      <4>4. job'["package"] = q BY <1>1, <4>1, <4>2, <4>3, PackageBecomes
      <4> QED BY <4>3, <4>4
    <3> QED BY <2>3, <3>1 DEF CheckInventory, Refuse
  <2>5. CASE Mixed(p) BY <1>1, <2>1, <2>4, <2>5 DEF PackageInv, MaxTurns
  <2>6. CASE ~Mixed(p) BY <2>2, <2>6 DEF ValidFinal, Mixed
  <2> QED BY <2>5, <2>6
<1>2. ASSUME GatesIInv, PackageInv(job["package"]), [Next]_vars PROVE [Returns]_vars
  BY <1>1, <1>2
<1>3. Spec => [][Returns]_vars BY <1>2, GatesInvariant, PackagesInvariant, PTL DEF Spec
<1> QED BY <1>3 DEF MixedPackageNeedsReturns
===========================================================================
