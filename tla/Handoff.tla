------------------------------ MODULE Handoff ------------------------------
(***************************************************************************)
(* The project tree, the preflight that reads it (pmiri/preflight.py,      *)
(* run_preflight and write_preflight) and the handoff bundle made of it    *)
(* (pmiri/handoff.py, create_handoff_bundle and verify_handoff).           *)
(*                                                                         *)
(* None of them locks the tree, and all read it file by file while it is   *)
(* being edited.  Files are compared by size and hash, so by content, and  *)
(* a content may come back: an edit is undone, a record is emptied again,  *)
(* two preflights find the same in the same second.                        *)
(*                                                                         *)
(*   preflight:  idle -> print -> truncate -> write -> idle                *)
(*   bundle:     start -> collect -> copy -> status -> manifest            *)
(*                     -> payload -> sources -> inventory -> created       *)
(*                                                                         *)
(* The pinned inputs are one file: what it holds is `pinned' (runner       *)
(* source, authority bundle, schema, matrix), the runner's `manifest', the *)
(* fixture `catalog' (0: it does not load, or lacks a case) and the source *)
(* of the `handlers'.                                                      *)
(***************************************************************************)
EXTENDS Integers, FiniteSets, Sequences

CONSTANTS
    Source,      \* the path of the pinned inputs
    Cases,       \* replay cases; a case is also the path of its preflight record
    Selected,    \* the case whose record every bundle must contain
    Preflights,  \* processes that call run_preflight and write_preflight
    Bundles,     \* calls of create_handoff_bundle with the same destination
    Inputs,      \* contents of the inputs
    Sound,       \* the ones that are what their manifests declare
    Seconds,     \* captured_at: seconds in which a preflight may be captured
    MaxEdits     \* bound: edits of the inputs

Paths == {Source} \cup Cases
Static == {Source, Selected}

ASSUME HandoffAssumption ==
    /\ Selected \in Cases /\ Source \notin Cases
    /\ Inputs \subseteq [pinned : Nat, manifest : Nat, catalog : Nat, handlers : Nat]
    /\ Sound \subseteq Inputs
    /\ MaxEdits \in Nat

VARIABLES
    tree,    \* the content of each path
    pf, bundle, folder,
    was,     \* history: what the inputs have held, in order
    origin   \* history: for each record, which of these its preflight looked at

hoVars == <<tree, pf, bundle, folder, was, origin>>

\* What a record carries of the inputs, and what is at its path.  Mixed: the text
\* of one record over a longer one, which does not parse.
Fingerprints(v) == [pinned |-> v.pinned, manifest |-> v.manifest, catalog |-> v.catalog]
Absent == [kind |-> "absent"]
Empty == [kind |-> "empty"]
Mixed == [kind |-> "mixed"]
PreflightRecord(r, f, t) == [kind |-> "record", result |-> r, print |-> f, at |-> t]

\* _preflight_status of a content.
RecordStatus(x) == IF x.kind = "record" THEN x.result ELSE "UNAVAILABLE"

Present(t) == {p \in DOMAIN t : t[p] # Absent}
NoFiles == [p \in {} |-> Absent]

\* A look at the inputs, by its place in `was'; 0 is none.
Now == Len(was)

\* checked, printed: the looks of the checks and of the fingerprints.
NewPreflight ==
    [pc |-> "idle", case |-> Selected, result |-> "BLOCKED", checked |-> 0, printed |-> 0]

\* entries: source_path -> sha256; status: preflight_status; listed: the entries of
\* the manifest that verify_handoff read back.  History: snap, the tree when the
\* manifest was written; alone, no other call was underway; moved, how often the
\* content of a path changed between its copy and its check (2: or more).
NewBundle ==
    [pc |-> "start", todo |-> {}, entries |-> NoFiles, status |-> "UNAVAILABLE",
     listed |-> NoFiles, snap |-> NoFiles, alone |-> TRUE, moved |-> [p \in Paths |-> 0]]

\* The destination on disk.
NoFolder == [exists |-> FALSE, payload |-> NoFiles, manifest |-> NoFiles]

\* PF-02 .. PF-06: every member of the runner package and of the authority bundle
\* has the size and the hash its manifest declares.
InputsVerified(v) == v \in Sound

\* The selected case may have a record from before, made of the same inputs.
HOInit ==
    /\ \E v \in Inputs, t \in Seconds, r \in {"READY_FOR_REPLAY", "BLOCKED"} :
         /\ r = "READY_FOR_REPLAY" => InputsVerified(v)
         /\ was = <<v>>
         /\ \E x \in {Absent, PreflightRecord(r, Fingerprints(v), t)} :
              tree = [p \in Paths |-> CASE p = Source -> v [] p = Selected -> x [] OTHER -> Absent]
    /\ origin = [c \in Cases |-> [checked |-> 1, printed |-> 1]]
    /\ pf = [k \in Preflights |-> NewPreflight]
    /\ bundle = [b \in Bundles |-> NewBundle]
    /\ folder = NoFolder

\* The paths a bundle has copied and will still compare with the tree.
Watched(x) ==
    CASE x.pc \in {"copy", "status", "manifest", "payload"} -> DOMAIN x.entries
      [] x.pc = "sources" -> x.todo
      [] OTHER -> {}

Once(n) == IF n = 2 THEN 2 ELSE n + 1

\* The content of path p becomes v.
Writes(p, v) ==
    /\ tree' = [tree EXCEPT ![p] = v]
    /\ bundle' = [b \in Bundles |->
          IF p \in Watched(bundle[b]) /\ v # tree[p]
          THEN [bundle[b] EXCEPT !.moved[p] = Once(@)] ELSE bundle[b]]

Edit ==
    /\ Len(was) <= MaxEdits
    /\ \E v \in Inputs \ {tree[Source]} : Writes(Source, v) /\ was' = Append(was, v)
    /\ UNCHANGED <<pf, folder, origin>>

---------------------------------------------------------------------------
(* run_preflight, write_preflight                                          *)

MovePf(k, r) == pf' = [pf EXCEPT ![k] = r]

Checked(c, ready) ==
    [NewPreflight EXCEPT !.pc = "print", !.case = c, !.checked = Now,
                         !.result = IF ready THEN "READY_FOR_REPLAY" ELSE "BLOCKED"]

\* Defect for mutation: the package checks are recorded, but do not count.
PreflightCheck_IdentityOnly(k) ==
    /\ pf[k].pc = "idle"
    /\ \E c \in Cases, supplied \in BOOLEAN : MovePf(k, Checked(c, supplied))
    /\ UNCHANGED <<tree, bundle, folder, was, origin>>

\* PF-01 .. PF-16: READY_FOR_REPLAY needs every check.  Whether identity,
\* isolation, reviewer and selection are in order is the caller's input.
PreflightCheck(k) ==
    /\ pf[k].pc = "idle"
    /\ \E c \in Cases, supplied \in BOOLEAN :
          MovePf(k, Checked(c, supplied /\ InputsVerified(tree[Source])))
    /\ UNCHANGED <<tree, bundle, folder, was, origin>>

\* The record carries fingerprints of the files as they are read again now.
PreflightPrint(k) ==
    /\ pf[k].pc = "print"
    /\ MovePf(k, [pf[k] EXCEPT !.pc = "truncate", !.printed = Now])
    /\ UNCHANGED <<tree, bundle, folder, was, origin>>

\* write_text opens the file, which empties it, and then fills it.
PreflightTruncate(k) ==
    /\ pf[k].pc = "truncate"
    /\ Writes(pf[k].case, Empty)
    /\ MovePf(k, [pf[k] EXCEPT !.pc = "write"])
    /\ UNCHANGED <<folder, was, origin>>

\* Another preflight may have filled it meanwhile; if its text is the longer one,
\* the end of it stays.
PreflightWrite(k) ==
    /\ pf[k].pc = "write"
    /\ LET c == pf[k].case
       IN  /\ \/ \E t \in Seconds :
                    Writes(c, PreflightRecord(pf[k].result, Fingerprints(was[pf[k].printed]), t))
              \/ tree[c] # Empty /\ Writes(c, Mixed)
           /\ origin' = [origin EXCEPT ![c] = [checked |-> pf[k].checked, printed |-> pf[k].printed]]
    /\ MovePf(k, NewPreflight)
    /\ UNCHANGED <<folder, was>>

---------------------------------------------------------------------------
(* create_handoff_bundle                                                   *)

MoveB(b, r) == bundle' = [bundle EXCEPT ![b] = r]
Stop(b, label) == MoveB(b, [bundle[b] EXCEPT !.pc = label])
BundleUnderway(b) == bundle[b].pc \notin {"start", "refused", "failed", "created"}

\* handoff_destination_exists.
StartBundle(b) ==
    LET others == {k \in Bundles \ {b} : BundleUnderway(k)}
    IN  /\ bundle[b].pc = "start"
        /\ \/ folder.exists /\ Stop(b, "refused")
           \/ /\ ~folder.exists
              /\ bundle' = [k \in Bundles |->
                    IF k = b THEN [bundle[b] EXCEPT !.pc = "collect", !.alone = (others = {})]
                    ELSE IF k \in others THEN [bundle[k] EXCEPT !.alone = FALSE]
                    ELSE bundle[k]]
        /\ UNCHANGED <<tree, pf, folder, was, origin>>

\* _collect_sources: every static file, and what the directories hold.
CollectSources(b) ==
    /\ bundle[b].pc = "collect"
    /\ \/ /\ Static \subseteq Present(tree)
          /\ MoveB(b, [bundle[b] EXCEPT !.pc = "copy", !.todo = Present(tree)])
       \/ ~(Static \subseteq Present(tree)) /\ Stop(b, "failed")
    /\ UNCHANGED <<tree, pf, folder, was, origin>>

Put(f, p, v) == [q \in DOMAIN f \cup {p} |-> IF q = p THEN v ELSE f[q]]

\* copy2, and the hash of the copy.
CopySource(b) ==
    /\ bundle[b].pc = "copy"
    /\ \E p \in bundle[b].todo :
          /\ folder' = [folder EXCEPT !.exists = TRUE, !.payload = Put(@, p, tree[p])]
          /\ MoveB(b, [bundle[b] EXCEPT !.todo = @ \ {p}, !.entries = Put(@, p, tree[p]),
                        !.moved[p] = 0, !.pc = IF bundle[b].todo = {p} THEN "status" ELSE "copy"])
    /\ UNCHANGED <<tree, pf, was, origin>>

\* _preflight_status reads the record in the tree, not the copy.
ReadStatus(b) ==
    /\ bundle[b].pc = "status"
    /\ MoveB(b, [bundle[b] EXCEPT !.pc = "manifest",
                     !.status = RecordStatus(tree[Selected])])
    /\ UNCHANGED <<tree, pf, folder, was, origin>>

WriteManifest(b) ==
    /\ bundle[b].pc = "manifest"
    /\ folder' = [folder EXCEPT !.manifest = bundle[b].entries]
    /\ MoveB(b, [bundle[b] EXCEPT !.pc = "payload", !.snap = tree])
    /\ UNCHANGED <<tree, pf, was, origin>>

---------------------------------------------------------------------------
(* verify_handoff with the project root                                    *)

\* Defect for mutation: the bundle is verified without the project root.
VerifyPayload_Alone(b) ==
    /\ bundle[b].pc = "payload"
    /\ IF folder.payload = folder.manifest THEN Stop(b, "created") ELSE Stop(b, "failed")
    /\ UNCHANGED <<tree, pf, folder, was, origin>>

\* The payload is exactly what the manifest on disk lists.
VerifyPayload(b) ==
    /\ bundle[b].pc = "payload"
    /\ \/ /\ folder.payload = folder.manifest
          /\ MoveB(b, [bundle[b] EXCEPT !.pc = "sources", !.listed = folder.manifest,
                           !.todo = DOMAIN folder.manifest])
       \/ folder.payload # folder.manifest /\ Stop(b, "failed")
    /\ UNCHANGED <<tree, pf, folder, was, origin>>

SourceMatches(b, p) == tree[p] = bundle[b].listed[p]

\* Every listed source still has the listed hash, one after the other.
VerifySource(b) ==
    /\ bundle[b].pc = "sources"
    /\ \E p \in bundle[b].todo :
          \/ /\ SourceMatches(b, p)
             /\ MoveB(b, [bundle[b] EXCEPT !.todo = @ \ {p},
                           !.pc = IF bundle[b].todo = {p} THEN "inventory" ELSE "sources"])
          \/ ~SourceMatches(b, p) /\ Stop(b, "failed")
    /\ UNCHANGED <<tree, pf, folder, was, origin>>

\* The inventory is what it was.  A bundle that fails stays where it is.
VerifyInventory(b) ==
    /\ bundle[b].pc = "inventory"
    /\ IF Present(tree) = DOMAIN bundle[b].listed THEN Stop(b, "created") ELSE Stop(b, "failed")
    /\ UNCHANGED <<tree, pf, folder, was, origin>>

\* What changes the tree under a bundle, and under a replay (CandidateReplay).
TreeNext ==
    \/ Edit
    \/ \E k \in Preflights :
          \/ PreflightCheck(k) \/ PreflightPrint(k)
          \/ PreflightTruncate(k) \/ PreflightWrite(k)

HONext ==
    \/ TreeNext
    \/ \E b \in Bundles :
          \/ StartBundle(b) \/ CollectSources(b) \/ CopySource(b) \/ ReadStatus(b)
          \/ WriteManifest(b) \/ VerifyPayload(b) \/ VerifySource(b)
          \/ VerifyInventory(b)

HOSpec == HOInit /\ [][HONext]_hoVars

---------------------------------------------------------------------------
(* Properties                                                              *)

Prints == {Fingerprints(v) : v \in Inputs}
Verdicts == {"READY_FOR_REPLAY", "BLOCKED"}
RecordFiles ==
    {Absent, Empty, Mixed} \cup
    [kind : {"record"}, result : Verdicts, print : Prints, at : Seconds]
Contents == Inputs \cup RecordFiles
PartialTrees == UNION {[d -> Contents] : d \in SUBSET Paths}
Looks == 1..Now

\* Type invariant of the tree, the preflights, the bundles and their destination.
HOTypeOK ==
    /\ was \in Seq(Inputs) /\ Now > 0 /\ tree \in [Paths -> Contents]
    /\ tree[Source] = was[Now] /\ \A c \in Cases : tree[c] \in RecordFiles
    /\ origin \in [Cases -> [checked : Looks, printed : Looks]]
    /\ pf \in [Preflights -> [pc : {"idle", "print", "truncate", "write"}, case : Cases,
                 result : Verdicts, checked : 0..Now, printed : 0..Now]]
    /\ bundle \in [Bundles -> [pc : {"start", "collect", "copy", "status", "manifest",
                 "payload", "sources", "inventory", "created", "failed", "refused"},
                 todo : SUBSET Paths, entries : PartialTrees,
                 status : Verdicts \cup {"UNAVAILABLE"}, listed : PartialTrees,
                 snap : PartialTrees, alone : BOOLEAN, moved : [Paths -> 0..2]]]
    /\ folder \in [exists : BOOLEAN, payload : PartialTrees, manifest : PartialTrees]

Created(b) == bundle[b].pc = "created" /\ bundle[b].alone

\* A bundle that was created is a snapshot: although its files were copied one by
\* one from a tree nobody locked, there was one instant at which the tree held
\* exactly these contents of all of them.  The preflight_status its manifest
\* announces is the one in the record it carries, although that is read from the
\* tree after the record was copied and preflights may have been rewriting it.
\* Excepted is a file that changed and changed back between its copy and its check:
\* sizes and hashes do not tell (handoff.py, verify_handoff).
HandoffIsSnapshot ==
    \A b \in Bundles : Created(b) =>
        /\ \A p \in DOMAIN bundle[b].entries :
              bundle[b].moved[p] < 2 => bundle[b].entries[p] = bundle[b].snap[p]
        /\ bundle[b].moved[Selected] < 2 =>
              bundle[b].status = RecordStatus(bundle[b].entries[Selected])
===========================================================================
