---------------------------- MODULE LocalStore ----------------------------
(***************************************************************************)
(* The JSON/blob source store (pmiri/store.py, LocalStore): index.json,    *)
(* one blob file per content fingerprint, and a lock file for writers.     *)
(*                                                                         *)
(* A writer runs register_bytes.  Readers (list_sources) take no lock, so  *)
(* they interleave with the steps a writer makes inside the lock:          *)
(*                                                                         *)
(*   start -> lock -> read -> blob -> index -> unlock -> done              *)
(*                                                                         *)
(* Both files are replaced atomically (temporary file, fsync, replace), so *)
(* each write is one step.  A content is an integer: version_id is a hash  *)
(* of the content, and the integers carry the order of the version ids.    *)
(* The index is a set of rows; the code keeps it sorted by a key that is   *)
(* unique (VersionsUnique).                                                *)
(***************************************************************************)
EXTENDS Integers, FiniteSets

CONSTANTS
    Sources,    \* source_id values
    Contents,   \* contents, as the order of their version_id
    Writers,    \* calls of register_bytes
    Readers,    \* calls of list_sources
    NoWriter,   \* the write lock is free
    MaxClock,   \* bound: the last second of the model's clock
    MaxDamage   \* bound: blob files damaged from outside

ASSUME StoreAssumption ==
    /\ Contents \subseteq Nat
    /\ NoWriter \notin Writers
    /\ MaxClock \in Nat /\ MaxDamage \in Nat

VARIABLES idx, blobs, lock, wr, rd, clock, damage

lsVars == <<idx, blobs, lock, wr, rd, clock, damage>>

Rows == [src : Sources, ver : Contents, time : 0..MaxClock]

Row(t) == [src |-> t.src, ver |-> t.ver, time |-> t.time]
Registered(rows, t) == \E r \in rows : r.src = t.src /\ r.ver = t.ver

NewWriter(s, c) == [pc |-> "start", src |-> s, ver |-> c, time |-> 0, seen |-> {}]
NewReader == [pc |-> "start", todo |-> {}]

LSInit ==
    /\ idx = {}
    /\ blobs = [c \in Contents |-> "absent"]
    /\ lock = NoWriter
    /\ wr \in [Writers -> {NewWriter(s, c) : s \in Sources, c \in Contents}]
    /\ rd = [r \in Readers |-> NewReader]
    /\ clock = 0
    /\ damage = 0

Become(w, t) == wr' = [wr EXCEPT ![w] = t]

---------------------------------------------------------------------------
(* register_bytes                                                          *)

\* Defect for mutation: the second is rounded up instead of truncated.
Capture_RoundsUp(w) ==
    /\ wr[w].pc = "start"
    /\ Become(w, [wr[w] EXCEPT !.pc = "lock", !.time = clock + 1])
    /\ UNCHANGED <<idx, blobs, lock, rd, clock, damage>>

\* capture_time is read before the lock is taken.
Capture(w) ==
    /\ wr[w].pc = "start"
    /\ Become(w, [wr[w] EXCEPT !.pc = "lock", !.time = clock])
    /\ UNCHANGED <<idx, blobs, lock, rd, clock, damage>>

\* Defect for mutation: the lock file is opened but not locked.
AcquireLock_Open(w) ==
    /\ wr[w].pc = "lock"
    /\ lock' = w
    /\ Become(w, [wr[w] EXCEPT !.pc = "read"])
    /\ UNCHANGED <<idx, blobs, rd, clock, damage>>

AcquireLock(w) ==
    /\ wr[w].pc = "lock"
    /\ lock = NoWriter
    /\ lock' = w
    /\ Become(w, [wr[w] EXCEPT !.pc = "read"])
    /\ UNCHANGED <<idx, blobs, rd, clock, damage>>

\* "existing": this source already has this version, whenever it was captured.
AlreadyRegistered(t) == Registered(idx, t)

ReadIndex(w) ==
    /\ wr[w].pc = "read"
    /\ Become(w, [wr[w] EXCEPT !.seen = idx,
                      !.pc = IF AlreadyRegistered(wr[w]) THEN "unlock" ELSE "blob"])
    /\ UNCHANGED <<idx, blobs, lock, rd, clock, damage>>

\* Defect for mutation: a known source is assumed to have its blob.
BlobNeeded_NewSource(t) ==
    blobs[t.ver] # "good" /\ \A r \in t.seen : r.src # t.src

\* The blob is missing or does not have its fingerprint.
BlobNeeded(t) == blobs[t.ver] # "good"

WriteBlob(w) ==
    /\ wr[w].pc = "blob"
    /\ blobs' = IF BlobNeeded(wr[w]) THEN [blobs EXCEPT ![wr[w].ver] = "good"]
                                     ELSE blobs
    /\ Become(w, [wr[w] EXCEPT !.pc = "index"])
    /\ UNCHANGED <<idx, lock, rd, clock, damage>>

\* The index read under the lock, with the new row, replaces index.json.
WriteIndex(w) ==
    /\ wr[w].pc = "index"
    /\ idx' = wr[w].seen \cup {Row(wr[w])}
    /\ Become(w, [wr[w] EXCEPT !.pc = "unlock"])
    /\ UNCHANGED <<blobs, lock, rd, clock, damage>>

Release(w) ==
    /\ wr[w].pc = "unlock"
    /\ lock' = IF lock = w THEN NoWriter ELSE lock
    /\ Become(w, [wr[w] EXCEPT !.pc = "done"])
    /\ UNCHANGED <<idx, blobs, rd, clock, damage>>

\* Defect for mutation: a lock file that outlives its owner.
FailWriter_KeepsLock(w) ==
    /\ wr[w].pc \in {"lock", "read", "blob", "index", "unlock"}
    /\ Become(w, [wr[w] EXCEPT !.pc = "failed"])
    /\ UNCHANGED <<idx, blobs, lock, rd, clock, damage>>

\* Defect for mutation: an OSError is swallowed and the call returns.
FailWriter_Swallowed(w) ==
    /\ wr[w].pc \in {"lock", "read", "blob", "index", "unlock"}
    /\ lock' = IF lock = w THEN NoWriter ELSE lock
    /\ Become(w, [wr[w] EXCEPT !.pc = "done"])
    /\ UNCHANGED <<idx, blobs, rd, clock, damage>>

\* An OSError, or the process dies: the file lock goes with it, the files stay.
FailWriter(w) ==
    /\ wr[w].pc \in {"lock", "read", "blob", "index", "unlock"}
    /\ lock' = IF lock = w THEN NoWriter ELSE lock
    /\ Become(w, [wr[w] EXCEPT !.pc = "failed"])
    /\ UNCHANGED <<idx, blobs, rd, clock, damage>>

---------------------------------------------------------------------------
(* list_sources                                                            *)

\* Defect for mutation: the version id is compared before the capture time.
Newer_VersionFirst(q, r) == q.ver > r.ver \/ (q.ver = r.ver /\ q.time > r.time)

\* (capture_time, version_id) as a tuple comparison.
Newer(q, r) == q.time > r.time \/ (q.time = r.time /\ q.ver > r.ver)

\* The rows kept when include_history is false.
Latest(rows) ==
    {r \in rows : \A q \in rows : q.src = r.src => ~Newer(q, r)}

\* One read of index.json.
StartList(r) ==
    /\ rd[r].pc = "start"
    /\ \E rows \in {idx, Latest(idx)} :
          rd' = [rd EXCEPT ![r] = [pc |-> "reading", todo |-> rows]]
    /\ UNCHANGED <<idx, blobs, lock, wr, clock, damage>>

\* _record_from_dict for one row (in some order): a blob that is missing or does
\* not have its fingerprint raises ValueError and ends the listing.
ReadRow(r) ==
    /\ rd[r].pc = "reading"
    /\ \E row \in rd[r].todo :
          \/ blobs[row.ver] = "good" /\ rd' = [rd EXCEPT ![r].todo = @ \ {row}]
          \/ blobs[row.ver] # "good" /\ rd' = [rd EXCEPT ![r].pc = "failed"]
    /\ UNCHANGED <<idx, blobs, lock, wr, clock, damage>>

FinishList(r) ==
    /\ rd[r].pc = "reading" /\ rd[r].todo = {}
    /\ rd' = [rd EXCEPT ![r].pc = "served"]
    /\ UNCHANGED <<idx, blobs, lock, wr, clock, damage>>

---------------------------------------------------------------------------
(* Environment                                                             *)

\* A blob file is altered or removed from outside; register and list treat the
\* two alike.
DamageBlob(c) ==
    /\ damage < MaxDamage
    /\ blobs[c] = "good"
    /\ blobs' = [blobs EXCEPT ![c] = "bad"]
    /\ damage' = damage + 1
    /\ UNCHANGED <<idx, lock, wr, rd, clock>>

Tick ==
    /\ clock < MaxClock
    /\ clock' = clock + 1
    /\ UNCHANGED <<idx, blobs, lock, wr, rd, damage>>

Write(w) ==
    \/ Capture(w) \/ AcquireLock(w) \/ ReadIndex(w) \/ WriteBlob(w)
    \/ WriteIndex(w) \/ Release(w)

LSNext ==
    \/ \E w \in Writers : Write(w) \/ FailWriter(w)
    \/ \E r \in Readers : StartList(r) \/ ReadRow(r) \/ FinishList(r)
    \/ \E c \in Contents : DamageBlob(c)
    \/ Tick

LSSpec == LSInit /\ [][LSNext]_lsVars

\* A call of register_bytes that has begun keeps running until it returns or
\* fails.  flock grants no turns: weak fairness of AcquireLock says only that a
\* lock that stays free is taken.
LSFairSpec == LSSpec /\ \A w \in Writers : WF_lsVars(Write(w))

---------------------------------------------------------------------------
(* Properties                                                              *)

\* Type invariant of the files, the lock, the writers and the readers.
LSTypeOK ==
    /\ idx \subseteq Rows
    /\ blobs \in [Contents -> {"absent", "good", "bad"}]
    /\ lock \in Writers \cup {NoWriter}
    /\ wr \in [Writers -> [pc : {"start", "lock", "read", "blob", "index",
                                 "unlock", "done", "failed"},
                           src : Sources, ver : Contents, time : 0..MaxClock,
                           seen : SUBSET Rows]]
    /\ rd \in [Readers -> [pc : {"start", "reading", "served", "failed"},
                           todo : SUBSET Rows]]
    /\ clock \in 0..MaxClock /\ damage \in 0..MaxDamage

\* Registration only adds history: no step, of any writer, loses or rewrites a
\* row another writer has committed (_write_lock around read, append, replace).
HistoryKept == [][idx \subseteq idx']_lsVars

\* A source has one row per version, with the first capture time, even when two
\* writers register the same content at different seconds.
VersionsUnique ==
    \A p, q \in idx : (p.src = q.src /\ p.ver = q.ver) => p = q

\* A listing fails only if a blob was damaged from outside: the blob is on disk
\* before its row is, in every interleaving of lock-free readers with writers
\* that may die between the two writes.
ReadsComplete ==
    (damage = 0) => \A r \in Readers : rd[r].pc # "failed"

\* Every registration ends, in success or failure, although a writer may die
\* while it holds the write lock and the others wait for it.
EveryRegistrationEnds ==
    \A w \in Writers : <>(wr[w].pc \in {"done", "failed"})

\* Once register_bytes has returned, the version the store lists for the source
\* was captured no earlier (ties broken by the version id), unless this very
\* content had been registered before: content that goes back to an earlier
\* state keeps its first capture time and stays behind its successor.
RegistrationVisible ==
    \A w \in Writers : wr[w].pc = "done" =>
        \/ \E r \in Latest(idx) :
              /\ r.src = wr[w].src
              /\ \/ r.time > wr[w].time
                 \/ r.time = wr[w].time /\ r.ver >= wr[w].ver
        \/ \E r \in idx : /\ r.src = wr[w].src /\ r.ver = wr[w].ver
                          /\ r.time < wr[w].time

---------------------------------------------------------------------------
(* The abstract registry                                                   *)

\* A call has committed once it found its row or replaced index.json.
CallPhase(t) ==
    CASE t.pc = "unlock" -> "committed"
      [] t.pc = "done" -> "returned"
      [] t.pc = "failed" -> "failed"
      [] OTHER -> "pending"

Registry == INSTANCE SourceRegistry WITH
    Callers <- Writers,
    Times <- 0..MaxClock,
    rows <- idx,
    asked <- [w \in Writers |-> [src |-> wr[w].src, ver |-> wr[w].ver]],
    call <- [w \in Writers |-> CallPhase(wr[w])]

\* To its callers the store is an atomic registry: although register_bytes reads
\* and replaces two files under a lock that may be lost with its owner, each call
\* takes effect at one instant, wholly or not at all, and against the records
\* that are there at that instant.
ImplementsRegistry == Registry!RegSpec
===========================================================================
