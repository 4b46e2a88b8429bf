# PMIRI in TLA+

PMIRI is a local read service over a versioned source store.  A caller with an
authenticated reference asks for evidence; the service decides whether it may
have it, searches the store, decides again and projects either the evidence or
an empty result; a separate decision engine ("Gate D") decides whether anything
may leave the machine at all.  The code is Python (`pmiri/`), single-host, with
threads inside one HTTP server, several processes over the same files, SQLite
for what must be durable, and lock files for the rest.

This directory holds TLA+ models of the parts of that code which carry its
guarantees, TLC configurations that check them on small instances, and TLAPS
proofs, for every size, of all their invariants, of what their steps may never do and
of the abstract specifications they implement.  Paths below are relative to the
repository.

## 1. The system

| Component | State | Operations | Hard because |
|---|---|---|---|
| Durable control plane (`pmiri/control_plane.py`) | SQLite tables: principals, policy epoch, consumed request ids, rate windows | register, revoke, resolve, advance/bump epoch, consume replay id, consume rate | shared by processes; every method is one transaction, callers make several |
| Request authorization (`pmiri/request_auth.py`) | none of its own over the SQLite adapters; in-memory variants keep dictionaries | evaluate, revalidate, advance_policy_epoch | reads time, epoch and registry apart |
| Read projection (`pmiri/read_projection.py`, `disclosure.py`, `read_operations.py`) | none | handle a read: evaluate, query, revalidate, project | a verdict is used after a query of unknown length |
| HTTP boundary (`pmiri/http_api.py`) | counters | GET probes, POST read, reject | one thread per connection, client may be gone, audit may fail |
| Audit sink (`pmiri/audit.py`) | append-only JSONL file | append, read_verified | partial writes, dying process |
| Gate-D engine (`pmiri/gate_d.py`, `decisions.py`, `transports.py`) | construction time; shared epoch; runtime's transports | evaluate trust/capability/network, build envelope, authorize emission, call transport, invalidate | many reads of an epoch others change |
| JSON store (`pmiri/store.py`, `LocalStore`) | index.json, blob files, lock file | register_bytes, list_sources | lock-free readers, writers that die |
| SQLite store (`pmiri/store.py`, `SQLiteStore`) | one database file per store | register_bytes, migrate, backup, restore | several transactions per operation, check-then-use of destinations |
| Blob encryption (`pmiri/storage_crypto.py`) | current and accepted key versions of a cipher object, envelopes | encrypt, decrypt, rotate, escrow | a rotation assigns twice, beside other threads |
| Trace store (`pmiri/privacy.py`) | key files, encrypted trace files | create key, capture, read, purge | concurrent key creation, purge beside capture |
| Credentials (`pmiri/credentials.py`), decision cache (`cache.py`) | bindings; cached decisions | bind, inject; put, get | used by the D2 harness and tests only |
| Network policy (`pmiri/network.py`, `policy.py`) | none | normalize a URL, judge a resolution, build and validate a connection binding | normalized three times and judged twice, by code written apart |
| R1 security and egress (`pmiri/security.py`, `egress.py`) | none | intersect scopes, judge a provider send | pure |
| GC-C1 launcher (`pmiri/gc_c1_launcher.py`, `attestation.py`, `clean_room.py`, `sealing.py`) | child process, job object, case root, persisted artifacts | launch, supervise, tear down, seal, persist | the kill races the exit; processes escape the job; directories checked early and used late |
| Preflight and handoff (`pmiri/preflight.py`, `handoff.py`) | preflight records, bundle directory | run and write a preflight, create and verify a bundle | files read one by one, some twice, while they are edited |
| Candidate replay (`pmiri/r_fc.py`, `controlled_replay.py`, `replay.py`, `evidence.py`) | evidence folders, reports | replay the declared cases, record evidence | preflight and attestation made apart; folders shared by processes; one case's failure ends the run |
| Promotion gates (`pmiri/readiness.py`, `final_acceptance.py`, `deployment_evidence.py`, `review_package.py`, `scripts/build_signed_evidence.py`, `scripts/verify_deployment_closure.py`) | report files, signed evidence bundles | evaluate readiness, sign, evaluate final acceptance, package, verify closure | commands read many files one by one while they change |
| R-FC handlers, S0 acceptance cases, `integrity.py` | none | fixed lists of calls and comparisons | no logic of their own |
| Retrieval, context, runtime, models, canonical | none | score text, format | text |
| D2 harness, schemas, CLI, smoke chains | none | run the rest | no logic of their own |

How they interact: the HTTP boundary calls the read operations, which call the
authorization service, which makes separate transactions on the control plane;
between evaluate and revalidate the query reads a store.  The boundary writes the
audit file before it answers.  The Gate-D engine and the authorization service
share the policy epoch when both are given the SQLite epoch; the engine calls
the service's `revalidate` at its fence.  The SQLite store is filled from the
JSON store by a migration that runs beside writers of both.  A candidate replay reads
the preflight records and the attestations that other commands have written; a
handoff bundle copies the tree all of them live in.

What makes each part correct:

- *control plane and read path*: evidence is disclosed only under authority that
  really held; a request id is accepted once; a quota is a quota.
- *HTTP boundary*: nothing is answered that is not in the audit file, and every
  connection has one outcome.
- *Gate D*: a transport is called only when one instant justified it, and only
  towards the destination that was judged, however its URL was spelled; fetched
  content is visible only after quarantine, and a fetch happens only with the record
  that was judged.
- *stores*: no history is lost, no row is visible without its content, what was
  reported as migrated or verified is there.
- *keys, traces and sealed blobs*: a domain has one key whoever asks first; a
  trace is served until it expires and not after; a rotated key is escrowed
  before anything is sealed with it, and what was sealed before stays openable.
- *clean room*: what is recorded as evidence ran to its end, on inputs its checks
  had looked at, and its report, its seal and its files belong together; a handoff
  bundle is what the tree held at one instant; no runner is left behind in a job and
  every launch returns.
- *promotion gates*: whatever says ready rests on signatures for that very
  readiness report, profile and documentation bundle; a package combines reports that
  belong together.

## 2. Modules

    ControlPlane ──┬── ReadPipeline ──┬── ReadPipelineProofs
    AuthorizedAct ─┤                  └── MCReadPipeline    (2 runs)
                   └── EmissionFence ──── MCEmissionFence   (1 run)
    EmissionFence, ProcessGuards,
    ConnectorContent ──────────┬────── GateDProofs
    OutboundTarget ──┬─────────┴────── MCGateD              (1 run)
                     └── OutboundProofs
    AuditedAnswers ── HttpBoundary ──┬── HttpBoundaryProofs
                                     └── MCHttpBoundary     (2 runs)
    SourceRegistry ── LocalStore ──┬── MCLocalStore         (1 run)
                                   └── SQLiteStore ──┬── LocalStoreProofs
                                                     └── MCSQLiteStore (1 run)
    KeyVault ── KeyCustody ──┬── KeyCustodyProofs
                             └── MCKeyCustody               (1 run)
    Handoff ── CandidateReplay ──┬──── CleanRoomProofs
    CaseLauncher ────────────────┴──── MCCleanRoom          (1 run)
    AcceptanceGates ──┬── AcceptanceGatesProofs
                      └── MCAcceptanceGates                 (2 runs)

Parts that share no state but belong to one tool (Gate D of one process, the commands
of the clean room) are checked in one run: a variable of the MC module chooses at
the start which of them a behaviour is about.

**ControlPlane** is one variable per table plus the wall clock in whole seconds
(`utc_now` truncates).  Each adapter method is one action or one operator used
inside one action of its caller, because each is one `BEGIN IMMEDIATE`
transaction or one `SELECT`.  A principal is a record; its fingerprint is
equality of records.  `ReplayAccepted`/`ReplayRejected` include the `DELETE` of
expired rows that opens `consume`; `RateConsume` upserts the row whatever the
verdict, as the code does.

**ReadPipeline** adds `att`, one record per request being served, with a control
state between any two calls into the control plane.  Kept from the code: the
clock is read once at the start of `evaluate` and used by every later check but
the limiter's, which uses a clock read of its own, taken some time before its
transaction obtains the database lock; `evaluate` resolves before it reads the
epoch and `revalidate` does it the other way round; the query runs even after a
denial; an attempt can fail at any point and leave behind what it committed.
Abstracted: what the query finds (a Boolean), request formats, cursors, parity
fingerprints.  The eight read operations share this path and differ in
formatting.  Three fields are history for the properties and no guard reads
them.

**AuthorizedAct** is the abstract specification of both fences, without epochs,
registries, clocks or separate reads: between a caller's asking and its act there is one
instant at which it had all its authority.  `ReadPipeline` implements it
(`DisclosureImplementsAct`), and so does `EmissionFence` (`EmissionImplementsAct`).  What a
caller's authority is at a moment (`Authorized`) is defined there from the tables as they
are; the instant is the clock read of `revalidate` for the one and the first read of the
epoch in `authorize_emission` for the other.

**AuditedAnswers** is the abstract specification of a boundary with an audit log: an
outcome is on record before the one answer that tells it, and a caller that was answered is
never on record with another.  `HttpBoundary` implements it (`ImplementsAuditedAnswers`):
torn lines, failed appends, lost clients and dying processes are stutters or answers that
were never given.

**HttpBoundary** has one record per connection, the counters, and the audit file
as a sequence of lines plus `torn`, whether the file ends in a fragment.
`AppendFails` has three outcomes: nothing written, a fragment written, the line
written and only the `fsync` failed.  It models the server with a configured
audit sink.  `inTry` records that the 401 is sent from inside the `try` of
`do_POST` and all other responses from outside it.

**EmissionFence** reuses ControlPlane and adds the engine's construction time,
the runtime's provider transport and one record per caller (`job`).  Every read
of `engine.invalidation_epoch` that can see a different value from the previous
one is a step of its own.  The observations a caller supplies (assertions,
capability observations, resolutions, TLS identities) are chosen from all
combinations the verdict distinguishes.

**ProcessGuards** is the in-memory `ReplayGuard` and `FixedWindowRateLimiter`.  Their
`consume` is atomic under a lock, the times it is given were read before: calls
arrive in any order of their clock reads.  The guard's ordered dictionary is a
sequence, purged from its head and pushed out at `max_entries` as the code does.

**OutboundTarget** follows one URL from `normalize_url` to the request: a path is a
sequence of tokens (characters and percent escapes), `_remove_dot_segments` is one
step per iteration of its loop, and the three callers of the normalization run the same
steps.  `Verdict` and `BindingStatus` are the two cascades that judge the same
observations, `ConnectionBindingValid` and `OutboundValid` the validators behind
them; each of the four reads of the epoch is a step.  Abstracted: host names and their
IDNA forms, ports and fragments (one of the shapes a URL may have), addresses (their
class), fingerprints (what they are taken of).

**ConnectorContent** is the record of fetched content, which the caller holds, edits and
seals between the calls that judge it (`evaluate_network`, the envelope, the
fence of `execute_connector`).  Its 21 fields are reduced to the history, where it
ends, what it makes visible, and one flag for the fields that are only checked for
their form.

**SourceRegistry** is the abstract specification of a source store: a registration
happens at one instant between call and return, or not at all.  `LocalStore` is shown
to implement it (`ImplementsRegistry`): a row is registered when the index is replaced,
a call is committed from then on or from the moment it finds its row, and a call that
dies has either committed or left nothing behind in the index.

**LocalStore** has the index as a set of rows, blob files as `absent`, `good` or
`bad`, the file lock, one record per `register_bytes` call and one per
`list_sources` call.  `version_id` is a hash of the content: contents are
integers that carry the order of the ids, which the code uses to break ties.
Replacing a file is one step because the code writes a temporary file, syncs it
and renames it.

**SQLiteStore** adds database files to it (`none`, `empty` when the creator died
before the schema was committed, `ready`) and the operations on them; a
transaction is one step, a migration is one step per record, a copy reads its
source twice.  `canonical_fingerprint` is the set of rows it hashes.

**KeyCustody** has one record per call (`call`), the key files and their locks,
the trace files, and the fields of one cipher object.  Every call but `purge` goes
through `get_key`, which is five steps: lock, look, store if there was no file,
release, and back to the caller.  `Fail` is any exception inside it and the death
of the process; both release the locks.  A rotation reads and assigns
`accepted_key_versions` in two steps after it has assigned
`current_key_version`, as the code does without a lock.  The cipher has an escrow
adapter configured.  External: DPAPI, AES-GCM (opens with the key it sealed
with and no other).  Not modelled: deletion of key files from outside, and the
versions a new process is configured with.

**KeyVault** is the abstract specification of the key files: a register per domain that is
written once, at the instant its creator is given the key, with a key no other domain has,
and that gives everyone after it the same.  `KeyCustody` implements it (`ImplementsVault`):
a caller has been given a key from the moment `get_key` has it in the file, a call that
fails afterwards is taken back, and a damaged record is a lost register that nobody writes
again.

**CaseLauncher** is `launch_pinned_runner`, one step per call into the operating system:
start, assignment to the job, each poll, kill, wait, closing the job, reading the outputs,
sealing, copying.  Runner and child processes, the deadline and the producer of the
attestation act between any two of them.  A child started before the assignment is
outside the job.  External: what a Windows job does with its members when it is
terminated or closed.  `LaunchResult` for `ISOLATION_VIOLATION` is built with one
argument too few (`gc_c1_launcher.py:464`), so that branch ends as `BLOCKED`; the model
does what the code does.

**Handoff** is the project tree with its pinned inputs and preflight records, the preflights
that verify the inputs, read them again for the fingerprints and write a record by
emptying the file and filling it, and a bundle that copies files one by one, asks for the
preflight's status afterwards and verifies itself.  Files are compared by size and hash, so a
file is its content, and a content may come back: an edit is undone, a record is emptied
a second time, two preflights write the same record in the same second.  Of the inputs four
parts are told apart because the code compares them in different places: what is pinned, the
runner's manifest, the fixture catalog and the source of the handlers.  `Sound` are the
inputs that are what their manifests declare.  History: what the inputs have held (`was`),
which of it a record's preflight looked at (`origin`), and how often a file changed between
a bundle's copy of it and its check (`moved`).

**CandidateReplay** adds the attestations, two runs of `run_r_fc_candidate` over a list of
cases and the evidence folders they share.  A run loads its catalog, checks its handlers
against their manifest, and lets each case through a gate that compares the preflight record
with the fingerprints it was given, all but the runner manifest's (`Compared`,
`r_fc.py:357-366`), and the attestation with those and the runner manifest's.  The
handler's result is one of three dispositions; a blank one raises out of the whole run, as
in the code.

**AcceptanceGates** has the files the commands read (profile, documentation bundle,
evidence bundles, the two reports), one variable `localOk` for what the thirteen
local checks look at, and one record per command.  No command takes a lock, so several
readiness runs (`Evaluators`) and final acceptances (`Acceptors`) are underway at once;
each readiness run is given its profile and its evidence, or none, by its arguments
(`cli.py:84-89`).  Every command reads its files in the order of the code, one step each,
and truncates its report before it writes it (`Torn`); two that write at once may also
leave text that does not parse.  A fingerprint is the value it is taken of: a report's
fingerprint is the report, `captured_at` and the external bundle it names
(`readiness.py:332-341`) included.  A signature is the flag `genuine`, which
stands for the trusted key, a distinct reviewer and every assertion being present;
`turns`, how many readiness reports were put in place since the package was begun, is
history.

Definitions whose comment begins "Defect for mutation" are not part of any
model.  Each is a plausible mistake in the code; substituting it for the
definition that follows it makes TLC report the property it is listed with.

## 3. Runs

| Run | Instance | States | Shows |
|---|---|---|---|
| `read_pipeline` | 2 attempts, 3 requests, seconds 0..3, epochs 0..1, quota 1, window 2 | 1.6 M | `TypeOK`, `DisclosureLinearized`, `SingleConsumer`, `ReplayOnlyAtExpiry`, `RateWindowBound`, `DisclosureImplementsAct` |
| `read_replay` | as `read_pipeline` | violation | finding 1 |
| `http_boundary` | 3 connections of any kind, 2 faults | 3.9 M | `AnsweredIsAudited`, `OneOutcomeRecorded`, `ImplementsAuditedAnswers` |
| `http_torn_line` | 2 connections, 2 faults | violation | finding 2 |
| `gate_d` | fence: 1 caller, 2 destinations, 2 epochs, 3 seconds; guards: 4 calls, 3 ids, capacity 2, quota 2, window 2, seconds 0..2; target: all paths of up to 5 tokens, all answers of up to 2 addresses, 2 epochs; content: 239 records, 5 revisions | 0.8 M | `EmissionLinearized`, `EmissionImplementsAct`, `SentToBoundTarget`, `ForgottenOnlyWhenPushedOut`, `WindowAllowance`, `JudgesAgree`, `SentWhereDecided`, `FetchedWithDecidedContent`, `AdmittedOutOfQuarantine` |
| `fence_invalidate` | the fence of `gate_d` | violation | finding 3 |
| `local_store` | 3 writers, 1 reader, 1 source, 2 contents, 1 damaged blob | 0.49 M | `LSTypeOK`, `HistoryKept`, `ReadsComplete`, `RegistrationVisible`, `EveryRegistrationEnds`, `ImplementsRegistry` |
| `sqlite_store` | 2 migrations, a backup and a restore of it, 2 JSON writers, SQLite writers | 2.3 M | `MigratedHistoryKept`, `VerifiedCopyKept` |
| `key_custody` | 3 calls of any kind, 2 versions, retention 1 s, seconds 0..2, 1 damaged file | 0.58 M | `TypeOK`, `TraceServedUntilExpiry`, `EscrowBeforeUse`, `RotationKeepsBlobsOpenable`, `ImplementsVault` |
| `acceptance_gates` | 2 readiness runs, 1 final acceptance, a package and a closure run, 2 of them at once; 1 profile, 2 documentation bundles, 2 evidence files, 1 edit or second | 3.4 M | `ReadyIsSigned`, `MixedPackageNeedsReturns` |
| `clean_room` | launches: 2, a runner and a child each, 1 write, 3 attestations; handoff: 2 bundles, 2 preflights, 2 cases, 4 contents of the inputs, 2 edits; replays: 2, of 2 cases, 1 edit | 0.41 M | `RecordedRanToCompletion`, `ReportMatchesSeal`, `HandoffIsSnapshot`, `RecordedEvidenceKept`, `ReplayedInputsChecked`, `EveryLaunchReturns`, `JobRunnersEnd` |
| `closure_capture` | as `acceptance_gates` | violation | finding 4 |

What the properties say is stated above each of them in its module.  The ones
worth reading first:

- `DisclosureLinearized`: no `SELECT` of the read path sees the whole authority
  (registry, epoch, time), and evaluate and revalidate read its parts in
  opposite orders.  Still, for every disclosure there is one instant, the clock
  read of `revalidate`, at which the principal was registered, unrevoked, at
  the policy epoch, unexpired and in scope.  It depends on revocations being
  final and epochs never going back; the mutants break each of these.
- `SingleConsumer` and `ReplayOnlyAtExpiry` bound finding 1 exactly: the replay
  guard leaks in the last second of validity and nowhere else.
- `EmissionLinearized`: the same for the fence of Gate D, with its four reads.
- `RegistrationVisible`: what a successful registration promises about the
  version the store lists, with the two exceptions the code has (ties within a
  second, and content that goes back to an earlier state).
- `RotationKeepsBlobsOpenable` holds as long as no two rotations overlap; of two that
  do, the second assignment may forget the version the first one added.
- `DisclosureImplementsAct`, `EmissionImplementsAct`: the two fences are not alike (they read
  registry, epoch and time in different orders, one of them the epoch three times) and
  promise the same thing.  The refinement says besides what an invariant cannot: the judging
  instant lies between this caller's asking and its act, and a caller it finds without
  authority never acts, whatever it is granted afterwards.
- `ImplementsAuditedAnswers`: the log is written before the client is told and never
  afterwards, although the 401 may be rejected a second time from inside its `try`.
- `ImplementsVault`: threads and processes that lock, look, mint, write and die do what a
  register written once does.  That all callers of a domain have one key is a consequence
  (`KeyAgreement`); that a second key never replaces the first, not even after damage, is
  not, and what was sealed under the first would be lost by it.
- `MixedPackageNeedsReturns`: the package reads the readiness report five times on the way to
  being accepted, while overlapping readiness runs, with evidence and without, rewrite it.
  Nothing stops them from putting an earlier report back, in the same second even without
  an edit, and a package that combines reports of two evaluations can be accepted.  The
  property says what it takes: the report has to give way to another one and come back, and
  then to do both once more, between the very reads of the package.
- `ImplementsRegistry`: the whole of the JSON store, with its lock file, blobs and
  dying writers, does what an atomic registry does.
- `ForgottenOnlyWhenPushedOut`: the in-memory guard admits a request id a second time
  only if the first has expired or newer ids have pushed it out at capacity.
- `JudgesAgree`, `SentWhereDecided`: the two cascades about a resolution never differ,
  so that `evaluate_network` does not raise out of its own validator, with one
  exception: for an empty answer its reason `DNS_UNVALIDATED` is not in the vocabulary
  and it does (`policy.py:74`).  What is allowed can be used, under the judged and under
  the normalized spelling of the URL, and is used for nothing else.
- `FetchedWithDecidedContent`: no order of edits, seals, decisions and envelopes lets the
  connector fetch with a record other than the decided one.  That the bytes fetched are
  those whose fingerprint the record has is not checked by the code (`gate_d.py:841`).
- `RecordedRanToCompletion`, `ReportMatchesSeal`: a result recorded by the launcher is of a
  runner that ended by itself in time, and its report has the hashes of the sealed files.
  The second excepts a launch of which a child escaped the job before the assignment: that
  child may write between the hash and the seal, and nothing in the code notices.
- `HandoffIsSnapshot`: copying files one by one from a tree nobody locks, and then comparing
  them once more, makes a snapshot of one instant, except for a file that changed and
  changed back between its copy and its comparison.  That exception is real: a record can be
  copied while one preflight has emptied it, be there and ready when its status is read, and
  be empty again, by the second preflight, when it is compared.
- `ReplayedInputsChecked`: the record and the attestation of a case, the fingerprints the
  caller supplies and the catalog a replay loads come from four readings of a tree that is
  being edited, and no one of the comparisons covers all.  The property says what still
  holds of the inputs the catalog was loaded from: they passed the preflight's checks, agree
  with the supplied fingerprints where the preflight gate compares (not in the
  runner's manifest) and, in that too, where the attestation does; each unless
  somebody edited the inputs between the reading in question and the start of the replay.
- `ReadyIsSigned`: final acceptance and the closure verifier never say ready on a
  mixture of files of different evaluations, also when readiness runs with and without
  evidence overlap.

**Bounds.**  Two attempts are enough for every pairwise property (each is
about one attempt against the environment, or two attempts against each
other), and the theorems below remove the bound.  Seconds 0..3 contain a time
before, at and after the end of each principal's validity and two rate windows
of two seconds; the two principals of the instance differ in which of their
validity and their zone attestation ends first, and the second one belongs to
the next epoch, so that an epoch change both ends and begins an authority.  Three
connections let one append fail, the next land on its fragment and a third be
unaffected.  One Gate-D caller is enough for the fence because callers interact
only through the epoch, the registry and the transport, all of which the
environment changes freely in the model.  Four calls fill a guard of two entries and bring
one id back; five tokens contain a dot segment beside any other and an escape at any place.
A record of fetched content is wrong in at most one place: the validators are
conjunctions.  Once there is a decision about it the caller turns to five others, which
differ in state or in a time only.  In `clean_room` the second launch
is begun without forks, writes and late deadlines of the first (`LaunchBound`): two launches
meet only in the persist directory.  A bundle is made of a tree in which either the inputs
are edited, twice, so that an edit can be undone, or preflights write records, two of them
the selected one (`BundleBound`); the properties relate one file's copy to its comparison,
so that changes of both kinds at once add nothing but their order.  Bundles that are
underway together meet an unchanged tree, and so do replays (`ReplayBound`), which share the
evidence folders only; a replay alone meets one edit anywhere.  All preflights are captured
in one second, which is where their records can be equal.  Three writers let one die inside the
lock while one waits and one arrives later.  Three calls let a capture, a purge and
a read meet, or an encryption, its rotation and another rotation.  In
`acceptance_gates` two commands are underway at once (`MaxBusy`): a package or a closure run
beside a writer of a report, or two writers of the same one.  Two evidence files let a report
be ready and be final; one edit or second (`MaxChanges`) is enough for every file to change
between two reads of a command, and reports return without any.  `turns` is counted up to
`MaxTurns`, the four reports the property speaks of.  A behaviour ends with the first
verdict that is kept (`MCNext`), which no other command reads.  One profile is enough because
every comparison treats profile and documentation bundle alike.

**Deadlock** is not checked: every instance is a finite set of calls that end, and
the model, like the program, may then be idle.

**Fairness** is used in two runs.  In `local_store`: weak fairness of the steps of
each registration, which says that a thread that has begun a call keeps running
and that a lock that stays free is taken.  `flock` promises no turns and none
are assumed; failing, ticking and damaging are not fair.  In `clean_room` (`CLFairness`): a
launcher that has begun goes on, the wall clock reaches the deadline, and a process that
the kernel has been told to end ends; nothing is assumed of a runner's own exit, of
children or of the attestation's producer.  Because of `LaunchBound` the two liveness
properties say something about late deadlines only for behaviours with one launch, which
is what they are about.  All other properties are safety properties of specifications
without fairness.

**Symmetry** is used for identities that nothing orders and no property
distinguishes (attempts, connections, destinations, the writers of SQLiteStore), and
not in `local_store`, which checks liveness.

## 4. Findings

1. *Replay at the end of validity* (`control_plane.py:223`).  The guard forgets a
   request id at `expires_at <= now`, authority holds until `now = valid_until`,
   and `expires_at` is `valid_until`.  In that second the same request is bound
   and disclosed again.  `read_replay`.
2. *Audit line lost to a fragment* (`audit.py:246`).  After an append that failed
   half-way the next event is written on the fragment's line.  Its request is
   answered, its line is not accepted by `read_verified`.  `http_torn_line`.
3. *Decisions that survive invalidate()* (`gate_d.py:334`).  The fence compares the
   envelope's and the binding's epoch, not those of the trust, capability and
   network decisions.  `fence_invalidate`.
4. *A closure run that cannot succeed later* (`verify_deployment_closure.py:99`).
   Without `--captured-at` the verifier evaluates a readiness report of its own
   second, whose fingerprint no signed final bundle carries, and stays blocked
   although every gate is ready.  `closure_capture`.

Each is the shortest behaviour TLC finds against the sentence of the
documentation quoted in `PROJECT.json`.

## 5. Proofs

TLAPS proves that every invariant the runs check holds of the specification of its
component for every value of the constants, under the named assumptions of the modules
(which TLC evaluates on every instance), and so do the action properties `HistoryKept` and
`MixedPackageNeedsReturns` and the refinements `ImplementsRegistry`, `ImplementsVault`,
`DisclosureImplementsAct`, `EmissionImplementsAct` and `ImplementsAuditedAnswers`.  The properties are not inductive alone; their
proofs go through inductive invariants, which TLC checked on the instances above
before they were proved (except `PathInv`, which quantifies over all runs of the loop and
cannot be evaluated).  `PROJECT.json` lists each theorem.

| Module | Specification | Theorems | Inductive invariant |
|---|---|---|---|
| `ReadPipelineProofs` | ReadPipeline | `TypeCorrect`, `DisclosureCorrect`, `ReplayGuardCorrect`, `ReplayWindowCorrect`, `RateLimitCorrect`, `DisclosuresAreAuthorizedActs` | `IInv`, `RateInv` |
| `GateDProofs` | EmissionFence | `FenceTypeCorrect`, `EmissionsLinearized`, `EmissionsReachTheirTarget`, `EmissionsAreAuthorizedActs` | `FenceIInv` |
| | ConnectorContent | `ContentTypeCorrect`, `FetchesDecidedContent`, `AdmissionsLeaveQuarantine` | `ContentIInv` |
| | ProcessGuards | `GuardsTypeCorrect`, `IdsForgottenWhenPushedOut`, `WindowsKeepAllowance` | `GuardsIInv` |
| `OutboundProofs` | OutboundTarget | `OutboundTypeCorrect`, `JudgesGiveOneVerdict`, `SentWhereItWasDecided` | `OutIInv`, `PathInv` |
| `HttpBoundaryProofs` | HttpBoundary | `AnswersAreAudited`, `OutcomesAreUnique`, `BoundaryImplementsAuditedAnswers` | `HttpIInv` |
| `LocalStoreProofs` | LocalStore | `StoreTypeCorrect`, `StoreHistoryKept`, `StoreVersionsUnique`, `StoreReadsComplete`, `RegistrationsVisible`, `StoreImplementsRegistry` | `LSInv`, `VisibleInv` |
| | SQLiteStore | `MigrationsKeepHistory`, `VerifiedCopiesStay` | `SqlIInv` |
| `KeyCustodyProofs` | KeyCustody | `CustodyTypeCorrect`, `KeyAgreementHolds`, `KeyFilesImplementVault`, `EscrowPrecedesUse`, `RotationsKeepBlobsOpenable`, `TracesServedUntilExpiry` | `KeyInv`, `VaultInv`, `EscrowInv`, `RotationInv`, `TraceInv` |
| `CleanRoomProofs` | CaseLauncher | `LauncherTypeCorrect`, `RecordedRunsComplete`, `ReportsMatchSeals` | `LauncherIInv` |
| | Handoff | `HandoffTypeCorrect`, `HandoffsAreSnapshots` | `HandoffIInv` |
| | CandidateReplay | `ReplayTypeCorrect`, `RecordedEvidenceStays`, `ReplayedInputsAreChecked` | `ReplayIInv` |
| `AcceptanceGatesProofs` | AcceptanceGates | `GatesTypeCorrect`, `ReadyRestsOnSignatures`, `MixedPackagesNeedReturns` | `GatesIInv`, `PackageInv` |

**ReadPipelineProofs.**  Assumptions: `PrincipalsAssumption` (what the constructors of
principals accept), `LimiterAssumption` (what the limiter's constructor accepts),
`BoundsAssumption` and `RequestsAssumption`.

- `AttemptInv` says what each control state of one attempt implies: which clock
  reads exist and their order, that the resolved principal is the registered
  one, that the epoch and the revocation revalidate saw lie between those at its
  clock read and those of now.  Disclosure follows because the epoch only grows,
  a revocation is final and a registration is never replaced: what holds at the
  later reads held at the earlier instant.
- `PairInv` says that a bound attempt's request id is still in the replay table
  unless its validity has been passed by the clock, which is what makes a second
  binding impossible before that.
- `RateInv` says that the row of a principal counts at least the attempts it
  admitted into its window and that every other window that admitted somebody is over
  when the row's begins.  The count is of a set, so the proof needs that the set is
  finite and that an admission adds one member to one window.

- `DisclosuresAreAuthorizedActs` is proved step by step (`StepRefines`): the revocation and
  the epoch remembered at `revalidate`'s clock read are history, so whether the attempt was
  authorized then is settled (`Granted`), and `AttemptInv` says that an attempt that
  discloses was.  `WorldRefines` is every step of the control plane and of time.

**GateDProofs.**  Assumptions: those of ControlPlane, `AssertionsAssumption`,
`GuardsAssumption`, `DraftsAssumption`.

- The fence: a job's binding is a row of the registry not ahead of the epoch
  (`BindingInv`); the envelope's epoch is the binding's, what the first read of the fence
  saw is settled by the epoch growing, and a revocation seen then is there when the registry is
  asked (`FenceInv`).  `ViaInv` and `ProviderInv` tie the shared transport to the decision it
  was constructed for.
- The fence as an abstract act: a job's step moves at most its own phase (`OnePhase`), the
  first read of the epoch is the judgement (`FenceRefines`), the reads after it can only refuse
  (`DenialRefines`, `QuietRefines`), and a transport that is called was judged justified.
- The guards: `HeldInv` says of every accepted id that is neither expired for a later call
  nor followed by `max_entries` acceptances that it is still in the deque, behind no more entries
  than were accepted after it.  Accepting while full removes the head, so the proof counts
  acceptances (a finite set) against positions.  `AllowanceInv` is `RateInv` for the limiter
  in memory.
- The content: a decision was compiled from the record whose fingerprint it carries
  (`Compiled`); the fence compares that fingerprint with the record it is given.

**OutboundProofs.**  Assumption: `OutboundAssumption` (a path is empty or begins with a
slash, which is what `urlsplit` leaves after an authority; answers are sequences).

- The paths: what the loop of `_remove_dot_segments` collects are segments, what
  they are joined to has no dot segment, the loop ends the same way each time it is given
  a path (`LoopBegins`, `LoopGoesOn`, `LoopEndsOnce`) and leaves a path without dot segments
  alone, so that normalizing twice is normalizing once.  The percent rewriting is
  idempotent (`RewrittenOnce`).  These are inductions over sequences; they are done with the
  library's minimum of a well-founded order (`SetInduction`), which needs no
  operator as a parameter.
- The judges: `OutIInv` says that record and binding repeat their two cascades, and
  `CascadesAgree` compares these; `PathInv` says that target and path are what the loop
  makes of the URL and of the endpoint.

**HttpBoundaryProofs.**  Assumption: `FaultsAssumption`.  `CountInv` says how often a
connection has been counted and as what, with the one way back to `_reject` from the 401
sent inside `try`; `LogInv` says that a connection about to send has its outcome in the
file, and that an emitted one has nothing else there.  The refinement adds that a connection with more than
one rejection on record is one that may be rejected again, and that only a `Send` answers
(`AppendRefines`, `OnlySendAnswers`).

**LocalStoreProofs.**  Assumptions: `StoreAssumption`, `CopiesAssumption`.  `LSInv` is
`Locked` (a writer inside the critical section owns the lock), `Seen` (the index it read is
still the index, and does not hold its row) and `BlobsOnDisk` (without outside damage
every indexed row, every row a reader has yet to visit, and the row about to be written
have their blob).  `VisibleInv` adds that every row is outranked by a listed one: adding a row
to a finite set moves its maximum or leaves it.  `StoreImplementsRegistry` is proved step by
step: `WriteRefines` and `FailRefines` are the steps that are not stutters or returns, and
`Seen` is what makes the replacement of the index an addition of one row.  `SqlIInv` says
where the rows of the main store come from (`Provenance`) and what of a migration's list is
there or was preempted.

**KeyCustodyProofs.**  Assumption: `CustodyAssumption`.  The types need that the cipher's
calls use the domain of a version and that a read has a trace's id (`TypeInv`).
`Custody` says that who is between lock and release owns the lock, that a caller about to store
its key sees no file, and at which control states a call has a key.  `Elsewhere` and `Inside`
say once what the steps outside and inside of `get_key` do to a call.  `VaultInv` adds
`Fresh`: a key that is not stored yet is in no file and with no other call; so that storing it
is the abstract register's first write (`FetchIsVaultStep`).  `EscrowInv`: the version
that encrypts, and every one an encryption has read, is the first or one a
rotation has escrowed with its key.  `RotationInv`: while rotations do not overlap, every
version in use is accepted or about to be.  `TraceInv`: what a read or a purge knows of its
trace, and that a recorded trace's file is gone only after it has expired.

**CleanRoomProofs.**  Assumptions: `LauncherAssumption`, `HandoffAssumption`,
`OrderAssumption`.  A launch: what runner, child and outputs can be at each step
(`LaunchInv`), and that two launches that wrote the same artifact overlapped (`PersistInv`).
The
tree: a record carries the fingerprints of one look at the inputs, and a ready one rests on
another that found them sound (`RecordInv`).  A bundle: contents may come back, so nothing
can be said of their order; instead, for each path that was copied and is still to be
compared, the tree holds the copy as long as the path has not moved, and where the
snapshot or the status differs from the copy the path has moved, and if only once it has not
come back (`WatchedInv`).  The comparison then leaves only paths that moved twice
(`AloneInv`).  A replay: what the looks behind the record and the attestation of a case
were, as far as the gate compares them (`Judged`, `CaseInv`), what is in its folder
(`FolderInv`) and that nobody writes into the folder of a case with recorded evidence
(`WriterInv`).

**AcceptanceGatesProofs.**  Assumption: `GatesAssumption`.  `Backed`, `FinalBacked` and
`JobInv` say of every verdict a command carries, and of every file that holds one, that what it
rests on is among the evidence files; nothing that is edited or run later takes that away.

`PackageInv` follows a package through its looks at the readiness report and says how many
reports must have been put in place since it was begun.  If its final report binds another
report than the package has read, then the file went from the package's report to the other
one (seen by the first validation), back (the second read), to the other one again (the second
validation) and back for the inventory.  Every step of another command leaves the report as
it is, leaves none, or puts one in place (`Turned`), which is all that `PackageKept` needs, so
that nothing is assumed of how many evaluations run or what they are given.

Changed for the proofs, because it could not be reasoned about or was weaker than the
code: `MigratedHistoryKept` holds beside any number of other migrations; `VerifiedCopyKept`
names the copies that may overwrite a verified one (`Rival`); the preflight record Handoff
starts with is one a preflight could have written of the inputs as they are (`HOInit`).

**Only model-checked**: the liveness properties (`EveryRegistrationEnds`,
`EveryLaunchReturns`, `JobRunnersEnd`), which need fairness and ENABLED.  **Only proved**, as
they have no run of their own: the types of EmissionFence, ProcessGuards, OutboundTarget,
ConnectorContent, CaseLauncher, Handoff and CandidateReplay (with the last: no evidence of a
replay has the status PASS), `VersionsUnique`, which `ImplementsRegistry` contains, and
`KeyAgreement`, which follows from `ImplementsVault`.

## 6. Not modelled, and the plan

What would come next:

1. The limits on the response in `transports.py` and the redirects in `network.py`.
2. An abstract specification of the promotion chain (a report is promoted once, by the
   authority) that AcceptanceGates implements.

Some behaviours are in the models but no property holds of them and no document promises
one: the Gate-D engine judges by the time it was constructed (`gate_d.py:319`); of two
backups to one destination the second may overwrite the first after it was verified
(`store.py:480`); a review package of reports that do not belong together is accepted when
the readiness report returns twice in step with its reads (`review_package.py:396`); a handoff
bundle may announce `READY_FOR_REPLAY` and carry an emptied record, or a content that was
undone before it was compared (`handoff.py:251`); a child that escaped its job may write
after the outputs were hashed (`gc_c1_launcher.py:422`).  Three more are in them for the record:
an empty resolver answer raises instead of denying (`policy.py:74`, where
`network.py:106-108` says of a bad answer that it should not), a launch whose teardown
cannot be verified is `BLOCKED` and never `ISOLATION_VIOLATION`
(`gc_c1_launcher.py:464`), and a candidate with cases in `VALIDATION_ERROR` is still
reported as `R_FC_REPLAY_RECORDED` (`r_fc.py:541`).

Exposed, but without a promise in the code or the documents that a property could
state: registering content again does not repair its damaged blob (`store.py:146`); a
process that is given only the current key version cannot open older blobs
(`storage_crypto.py:82`); a capture that dies leaves a temporary file that no purge looks
at (`privacy.py:324`); the fetched bytes are not compared with the accepted record
(`gate_d.py:841`); the launcher reads the attestation a second time to copy it
(`gc_c1_launcher.py:385`); the preflight gate does not compare the runner's manifest
(`r_fc.py:357`), and the catalog a replay loads is compared with no fingerprint
(`r_fc.py:415`); a handoff that failed half-way blocks its directory
(`handoff.py:147`).

Left out for good: text scoring and formatting (`retrieval.py`, `context.py`), the
command line and smoke chains (sequences of calls modelled elsewhere), the HTTPS
exchange itself, JSON-schema validation, hashing.  The bodies of the R-FC handlers and
S0 cases (`r_fc_handlers.py`, `acceptance.py`) and the D2 harness (`d2.py`,
`d2_runtime.py`) call functions with fixed arguments and compare the results with
constants: there is no state to explore.  `cache.py`, `credentials.py`, `security.py` and
`egress.py` are pure functions or dictionaries that only that harness and the tests use
(a transport asks an opaque credential for its header and nothing else).
