-------------------------- MODULE CandidateReplay --------------------------
(***************************************************************************)
(* Replay of the declared R-FC cases (pmiri/r_fc.py, run_r_fc_candidate)   *)
(* through pmiri/controlled_replay.py, run_controlled_case, on the project *)
(* tree of module Handoff.                                                 *)
(*                                                                         *)
(* A replay takes its cases one after the other.  Each needs a ready       *)
(* preflight record and a verified attestation, both for the fingerprints  *)
(* the caller supplied, then runs the handler in a fresh root, seals the   *)
(* result and copies it to a directory of its own under persist_dir, which *)
(* replays of other processes may be using too:                            *)
(*                                                                         *)
(*   start -> contract -> gate -> folder -> execute -> copy -> seal        *)
(*         -> verify -> gate -> ... -> reported | raised                   *)
(***************************************************************************)
EXTENDS Handoff

CONSTANTS
    Replays,  \* calls of run_r_fc_candidate with the same persist_dir
    Order     \* the selected cases, in order

ASSUME OrderAssumption == Order \in Seq(Cases)

VARIABLES attested, replay, kept

crVars == <<attested, replay, kept>>

Dispositions == {"expected", "unexpected", "blank"}
Nothing == "none"

\* fp: the fingerprints the caller supplied; manifest: the handlers its handler
\* manifest is of; contract: _validate_handler_contract.  i: the case being
\* replayed; actual: its disposition; status, evidence: what the report will say of
\* each case; keep: persist_dir was given.  History: alone, no other replay was
\* underway; loaded, the look at the inputs that gave the catalog; judged, when the
\* case was let through: the looks its preflight and its attestation were made of.
NewReplay(f, m, keep) ==
    [pc |-> "start", fp |-> f, manifest |-> m, contract |-> FALSE, loaded |-> 0, i |-> 1,
     actual |-> Nothing, disposition |-> [c \in Cases |-> Nothing],
     status |-> [c \in Cases |-> Nothing], evidence |-> [c \in Cases |-> Nothing],
     report |-> Nothing, keep |-> keep, alone |-> TRUE,
     judged |-> [c \in Cases |-> [checked |-> 0, printed |-> 0, attested |-> 0]]]

\* attested[c]: the look at the inputs whose fingerprints the attestation of case c
\* carries (VERIFIED, and for this case), or 0.  kept[c]: the directory of case c:
\* its result.json and the result its sealed manifest has the hash of.
CRInit ==
    /\ attested = [c \in Cases |-> 0]
    /\ replay \in [Replays -> {NewReplay(Fingerprints(v), w.handlers, k) :
                                 v \in Inputs, w \in Inputs, k \in BOOLEAN}]
    /\ kept = [c \in Cases |-> [dir |-> FALSE, result |-> Nothing, sealed |-> Nothing]]

MoveR(r, t) == replay' = [replay EXCEPT ![r] = t]
Current(r) == Order[replay[r].i]
ReplayUnderway(r) == replay[r].pc \notin {"start", "reported", "raised", "died"}

\* write_attestation for a case (create_attestation, module CaseLauncher).
AttestCase(c) ==
    /\ attested[c] # Now
    /\ attested' = [attested EXCEPT ![c] = Now]
    /\ UNCHANGED <<hoVars, replay, kept>>

---------------------------------------------------------------------------
(* run_r_fc_candidate                                                      *)

SelectionInvalid == \E i, j \in DOMAIN Order : i # j /\ Order[i] = Order[j]

\* The catalog the cases are taken from.  One that does not load, a case it lacks
\* and a case selected twice raise.
StartReplay(r) ==
    LET raises == tree[Source].catalog = 0 \/ SelectionInvalid
        others == {k \in Replays \ {r} : ReplayUnderway(k)}
    IN  /\ replay[r].pc = "start"
        /\ replay' = [k \in Replays |->
              IF k = r THEN [replay[r] EXCEPT !.pc = IF raises THEN "raised" ELSE "contract",
                                !.loaded = Now, !.alone = (others = {})]
              ELSE IF k \in others THEN [replay[k] EXCEPT !.alone = FALSE] ELSE replay[k]]
        /\ UNCHANGED <<hoVars, attested, kept>>

\* The manifest must carry the fingerprint the handlers' source file has now.
CheckContract(r) ==
    /\ replay[r].pc = "contract"
    /\ MoveR(r, [replay[r] EXCEPT !.pc = "gate",
                   !.contract = (replay[r].manifest = tree[Source].handlers)])
    /\ UNCHANGED <<hoVars, attested, kept>>

\* The fingerprints a preflight record is compared by: the runner's manifest is
\* left out.
Compared(f) == [pinned |-> f.pinned, catalog |-> f.catalog]

\* _case_preflight: present, ready and for the supplied fingerprints.
PreflightReady(r, c) ==
    /\ RecordStatus(tree[c]) = "READY_FOR_REPLAY"
    /\ Compared(tree[c].print) = Compared(replay[r].fp)

\* _case_attestation: verified, for this case and the supplied fingerprints, that of
\* the runner's manifest included.
AttestationReady(r, c) == attested[c] # 0 /\ Fingerprints(was[attested[c]]) = replay[r].fp

\* The report's line on case c, and the next case.
Line(r, c, status, evidence) ==
    [replay[r] EXCEPT !.pc = "gate", !.i = @ + 1, !.status[c] = status,
                      !.evidence[c] = evidence, !.disposition[c] = replay[r].actual,
                      !.actual = Nothing]

\* The evidence record: UNVERIFIED when the oracle matches, FAIL when not, and
\* never PASS.
EvidenceStatus(status, d) ==
    CASE status # "RECORDED" -> "BLOCKED" [] d = "expected" -> "UNVERIFIED" [] OTHER -> "FAIL"

\* What a session that ran the handler becomes in the report.  A record without a
\* disposition is not valid, and raises out of the whole replay.
Session(r, c, status) ==
    IF replay[r].actual = "blank" THEN [replay[r] EXCEPT !.pc = "raised"]
    ELSE Line(r, c, status, EvidenceStatus(status, replay[r].actual))

\* Fingerprints, reviewer separation and the handler itself are the caller's
\* input; then preflight, attestation and contract.
Gate(r) ==
    LET c == Current(r)
    IN  /\ replay[r].pc = "gate" /\ replay[r].i <= Len(Order)
        /\ \E supplied \in BOOLEAN :
              LET ok == /\ supplied /\ PreflightReady(r, c) /\ AttestationReady(r, c)
                        /\ replay[r].contract
              IN  \/ /\ ok
                     /\ MoveR(r, [replay[r] EXCEPT !.pc = "folder",
                                    !.judged[c] = [checked |-> origin[c].checked,
                                                   printed |-> origin[c].printed,
                                                   attested |-> attested[c]]])
                  \/ ~ok /\ MoveR(r, Line(r, c, "BLOCKED", "BLOCKED"))
        /\ UNCHANGED <<hoVars, attested, kept>>

---------------------------------------------------------------------------
(* run_controlled_case                                                     *)

\* Defect for mutation: what an earlier replay left is overwritten.
FolderFree_Any(c) == TRUE

\* _prepare_persist_dir: new or empty, and created here.
FolderFree(c) == kept[c].result = Nothing /\ kept[c].sealed = Nothing

PrepareFolder(r) ==
    LET c == Current(r)
    IN  /\ replay[r].pc = "folder"
        /\ \/ /\ ~replay[r].keep
              /\ MoveR(r, [replay[r] EXCEPT !.pc = "execute"])
              /\ UNCHANGED kept
           \/ /\ replay[r].keep /\ FolderFree(c)
              /\ kept' = [kept EXCEPT ![c].dir = TRUE]
              /\ MoveR(r, [replay[r] EXCEPT !.pc = "execute"])
           \/ /\ replay[r].keep /\ ~FolderFree(c)
              /\ MoveR(r, Line(r, c, "BLOCKED", "BLOCKED"))
              /\ UNCHANGED kept
        /\ UNCHANGED <<hoVars, attested>>

\* run_case without an output: refused before the handler is called (identity,
\* attestation, fingerprints), or raised by it.
RunCaseEnds == {"BLOCKED", "VALIDATION_ERROR"}

\* run_case with one: the handler returned a disposition; then result.json is
\* written and the fresh root sealed and verified.  An input that cannot be
\* materialised blocks the case; an output that cannot be written or sealed raises
\* out of the whole replay.
Execute(r) ==
    /\ replay[r].pc = "execute"
    /\ \/ \E d \in Dispositions :
             MoveR(r, [replay[r] EXCEPT !.actual = d,
                          !.pc = IF replay[r].keep THEN "copy" ELSE "verify"])
       \/ \E status \in RunCaseEnds :
             MoveR(r, Line(r, Current(r), status, "BLOCKED"))
       \/ MoveR(r, [replay[r] EXCEPT !.pc = "raised"])
    /\ UNCHANGED <<hoVars, attested, kept>>

Kept(r, field, label) ==
    LET c == Current(r)
    IN  \/ /\ kept' = [kept EXCEPT ![c] = [@ EXCEPT ![field] = replay[r].actual]]
           /\ MoveR(r, [replay[r] EXCEPT !.pc = label])
        \/ UNCHANGED kept /\ MoveR(r, Session(r, c, "VALIDATION_ERROR"))

\* _persist_case: the case's files, then the manifest; each copy may fail.
CopyResult(r) ==
    /\ replay[r].pc = "copy" /\ Kept(r, "result", "seal")
    /\ UNCHANGED <<hoVars, attested>>

CopySeal(r) ==
    /\ replay[r].pc = "seal" /\ Kept(r, "sealed", "verify")
    /\ UNCHANGED <<hoVars, attested>>

\* verify_seal of the copy: the manifest there has the hash of the result there.
CopyVerifies(c) == kept[c].sealed = kept[c].result

VerifyCopy(r) ==
    LET c == Current(r)
        sound == replay[r].keep => CopyVerifies(c)
    IN  /\ replay[r].pc = "verify"
        /\ \/ sound /\ MoveR(r, Session(r, c, "RECORDED"))
           \/ ~sound /\ MoveR(r, Session(r, c, "VALIDATION_ERROR"))
        /\ UNCHANGED <<hoVars, attested, kept>>

---------------------------------------------------------------------------
(* The report                                                              *)

InReport(r, s) == {c \in Cases : replay[r].status[c] = s}

\* The status counts executed and blocked cases, not the ones in between.
ReportStatus(r) ==
    CASE InReport(r, "RECORDED") = {} -> "R_FC_REPLAY_BLOCKED"
      [] InReport(r, "BLOCKED") # {} -> "R_FC_REPLAY_PARTIAL"
      [] OTHER -> "R_FC_REPLAY_RECORDED"

Report(r) ==
    /\ replay[r].pc = "gate" /\ replay[r].i > Len(Order)
    /\ MoveR(r, [replay[r] EXCEPT !.pc = "reported", !.report = ReportStatus(r)])
    /\ UNCHANGED <<hoVars, attested, kept>>

ReplayDies(r) ==
    /\ ReplayUnderway(r)
    /\ MoveR(r, [replay[r] EXCEPT !.pc = "died"])
    /\ UNCHANGED <<hoVars, attested, kept>>

CRNext ==
    \/ TreeNext /\ UNCHANGED crVars
    \/ \E c \in Cases : AttestCase(c)
    \/ \E r \in Replays :
          \/ StartReplay(r) \/ CheckContract(r) \/ Gate(r) \/ PrepareFolder(r)
          \/ Execute(r) \/ CopyResult(r) \/ CopySeal(r) \/ VerifyCopy(r) \/ Report(r)
          \/ ReplayDies(r)

CRSpec == HOInit /\ CRInit /\ [][CRNext]_<<hoVars, crVars>>

---------------------------------------------------------------------------
(* Properties                                                              *)

Lines == {"none", "BLOCKED", "VALIDATION_ERROR", "RECORDED"}

\* Type invariant of the replays and of the directory they persist to.
CRTypeOK ==
    /\ attested \in [Cases -> 0..Now]
    /\ replay \in [Replays ->
         [pc : {"start", "contract", "gate", "folder", "execute", "copy", "seal", "verify",
                "reported", "raised", "died"},
          fp : Prints, manifest : Nat, contract : BOOLEAN, loaded : 0..Now,
          i : 1..(Len(Order) + 1), actual : Dispositions \cup {Nothing},
          disposition : [Cases -> Dispositions \cup {Nothing}],
          status : [Cases -> Lines],
          evidence : [Cases -> {"none", "BLOCKED", "UNVERIFIED", "FAIL"}],
          report : {"none", "R_FC_REPLAY_BLOCKED", "R_FC_REPLAY_PARTIAL",
                    "R_FC_REPLAY_RECORDED"},
          keep : BOOLEAN, alone : BOOLEAN,
          judged : [Cases -> [checked : 0..Now, printed : 0..Now, attested : 0..Now]]]]
    /\ kept \in [Cases -> [dir : BOOLEAN, result : Dispositions \cup {Nothing},
                           sealed : Dispositions \cup {Nothing}]]

Recorded(r, c) == replay[r].status[c] = "RECORDED"

\* RECORDED evidence stays what was reported: whatever later replays do with the
\* same directory, also ones that fail half-way or die, the case's result and its
\* seal are those of the replay that reported it, unless two were underway at
\* once.
RecordedEvidenceKept ==
    \A r \in Replays, c \in Cases : (Recorded(r, c) /\ replay[r].keep /\ replay[r].alone) =>
        /\ kept[c].result = replay[r].disposition[c]
        /\ kept[c].sealed = replay[r].disposition[c]

\* A recorded case ran with the catalog its replay loaded at the start, which nobody
\* compares with anything.  Still these inputs had passed the integrity checks of the
\* case's preflight, were the ones the supplied fingerprints name to the preflight
\* and were, the runner's manifest included, the ones they name to the attestation:
\* files of different origin, written at different times from a tree that was being
\* edited.  Excepted is each time that somebody edited the inputs between that look
\* and the start of the replay (r_fc.py, run_r_fc_candidate).
ReplayedInputsChecked ==
    \A r \in Replays, c \in Cases : Recorded(r, c) =>
        LET n == replay[r].loaded
            o == replay[r].judged[c]
        IN  /\ o.checked = n => InputsVerified(was[n])
            /\ o.printed = n => Compared(Fingerprints(was[n])) = Compared(replay[r].fp)
            /\ o.attested = n => Fingerprints(was[n]) = replay[r].fp
===========================================================================
