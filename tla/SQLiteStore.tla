---------------------------- MODULE SQLiteStore ----------------------------
(***************************************************************************)
(* The SQLite source store (pmiri/store.py, SQLiteStore) beside the JSON   *)
(* store it is migrated from: register_bytes, migrate_from_local_store,    *)
(* backup_to and restore_from_backup.                                      *)
(*                                                                         *)
(* A store is a database file (none; empty, when its creator died before   *)
(* the schema was committed; or ready) and the rows committed to it.       *)
(* One transaction is one step; a migration is a sequence of them, and a   *)
(* backup reads the source once for its fingerprint and once for the copy. *)
(* canonical_fingerprint hashes all rows and fails on a damaged blob: it   *)
(* is abstracted to the set of rows.  Blobs committed to SQLite are        *)
(* written in the transaction of their row and are not damaged here.       *)
(***************************************************************************)
EXTENDS LocalStore

CONSTANTS
    SqlWriters,  \* calls of SQLiteStore.register_bytes on the "main" store
    Migrations,  \* calls of migrate_from_local_store into the "main" store
    Copies,      \* calls of backup_to and restore_from_backup
    From, To     \* [Copies -> Stores]: the source and the destination of each

Stores == {"main", "backup", "restored"}

ASSUME CopiesAssumption ==
    /\ From \in [Copies -> Stores]
    /\ To \in [Copies -> Stores \ {"main"}]

VARIABLES db, sw, mig, cp

sqVars == <<db, sw, mig, cp>>
vars == <<lsVars, sqVars>>

NoStore == [file |-> "none", rows |-> {}]
Exists(s) == db[s].file # "none"

NewSqlWriter(s, c) == [pc |-> "start", src |-> s, ver |-> c, time |-> 0]
NewMigration == [pc |-> "check", fp |-> {}, listed |-> {}, todo |-> {}, target |-> {}]
NewCopy == [pc |-> "check", fp |-> {}]

Init ==
    /\ LSInit
    /\ db = [s \in Stores |-> NoStore]
    /\ sw \in [SqlWriters -> {NewSqlWriter(s, c) : s \in Sources, c \in Contents}]
    /\ mig = [m \in Migrations |-> NewMigration]
    /\ cp = [c \in Copies |-> NewCopy]

---------------------------------------------------------------------------
(* register_bytes                                                          *)

\* INSERT OR IGNORE: a row with this primary key stays as it is.
Inserted(rows, row) == IF Registered(rows, row) THEN rows ELSE rows \cup {row}

SqlCapture(w) ==
    /\ sw[w].pc = "start"
    /\ sw' = [sw EXCEPT ![w].pc = "commit", ![w].time = clock]
    /\ UNCHANGED <<lsVars, db, mig, cp>>

\* The transaction, the schema included when the file is new.
SqlCommit(w) ==
    /\ sw[w].pc = "commit"
    /\ db' = [db EXCEPT !["main"] =
                [file |-> "ready", rows |-> Inserted(@.rows, Row(sw[w]))]]
    /\ sw' = [sw EXCEPT ![w].pc = "done"]
    /\ UNCHANGED <<lsVars, mig, cp>>

---------------------------------------------------------------------------
(* migrate_from_local_store                                                *)

MoveTo(m, t) == mig' = [mig EXCEPT ![m] = t]

\* migration_target_exists, or the fingerprint of the JSON store.
MigrateCheck(m) ==
    /\ mig[m].pc = "check"
    /\ \/ Exists("main") /\ MoveTo(m, [mig[m] EXCEPT !.pc = "refused"])
       \/ ~Exists("main") /\ MoveTo(m, [mig[m] EXCEPT !.pc = "list", !.fp = idx])
    /\ UNCHANGED <<lsVars, db, sw, cp>>

\* list_sources(include_history=True) reads the index again; a damaged blob
\* raises ValueError.
MigrateList(m) ==
    LET sound == \A r \in idx : blobs[r.ver] = "good"
    IN  /\ mig[m].pc = "list"
        /\ \/ sound /\ MoveTo(m, [mig[m] EXCEPT !.pc = "init", !.listed = idx,
                                                !.todo = idx])
           \/ ~sound /\ MoveTo(m, [mig[m] EXCEPT !.pc = "failed"])
        /\ UNCHANGED <<lsVars, db, sw, cp>>

\* initialize(): the target is not looked at again.
MigrateInit(m) ==
    /\ mig[m].pc = "init"
    /\ db' = [db EXCEPT !["main"].file = "ready"]
    /\ MoveTo(m, [mig[m] EXCEPT !.pc = "copy"])
    /\ UNCHANGED <<lsVars, sw, cp>>

\* Defect for mutation: capture_time is not passed on.
MigratedRow_FreshCapture(r) == [r EXCEPT !.time = clock]

\* register_bytes is given the record's own capture_time.
MigratedRow(r) == r

\* One register_bytes per record, each a transaction of its own (in some order).
MigrateRecord(m) ==
    /\ mig[m].pc = "copy"
    /\ \E r \in mig[m].todo :
          /\ db' = [db EXCEPT !["main"].rows = Inserted(@, MigratedRow(r))]
          /\ MoveTo(m, [mig[m] EXCEPT !.todo = @ \ {r}])
    /\ UNCHANGED <<lsVars, sw, cp>>

\* MIGRATED, with the fingerprint the target has now; it is not compared.
MigrateReport(m) ==
    /\ mig[m].pc = "copy" /\ mig[m].todo = {}
    /\ MoveTo(m, [mig[m] EXCEPT !.pc = "migrated", !.target = db["main"].rows])
    /\ UNCHANGED <<lsVars, db, sw, cp>>

\* The file a process leaves that dies while it creates store s.
Abandoned(s) == IF Exists(s) THEN db[s].file ELSE "empty"

\* The process dies: what was committed stays, initialize may leave an empty file.
MigrateFails(m) ==
    /\ mig[m].pc \in {"list", "init", "copy"}
    /\ \/ UNCHANGED db
       \/ mig[m].pc = "init" /\ db' = [db EXCEPT !["main"].file = Abandoned("main")]
    /\ MoveTo(m, [mig[m] EXCEPT !.pc = "failed"])
    /\ UNCHANGED <<lsVars, sw, cp>>

---------------------------------------------------------------------------
(* backup_to, and restore_from_backup, which wraps it                      *)

\* The source must exist and the destination must not; then the source's rows
\* are read for the fingerprint, which fails on a file without the schema.
CopyCheck(c) ==
    LET ok == db[From[c]].file = "ready" /\ ~Exists(To[c])
    IN  /\ cp[c].pc = "check"
        /\ \/ ok /\ cp' = [cp EXCEPT ![c] = [pc |-> "copy", fp |-> db[From[c]].rows]]
           \/ ~ok /\ cp' = [cp EXCEPT ![c].pc = "refused"]
        /\ UNCHANGED <<lsVars, db, sw, mig>>

\* source.backup(target) replaces whatever the target file holds by now with one
\* snapshot of the source.
CopySnapshot(c) ==
    /\ cp[c].pc = "copy"
    /\ db' = [db EXCEPT ![To[c]] = db[From[c]]]
    /\ cp' = [cp EXCEPT ![c].pc = "verify"]
    /\ UNCHANGED <<lsVars, sw, mig>>

\* Defect for mutation: the two fingerprints are reported but not compared.
CopyMatches_Skipped(c) == Exists(To[c])

CopyMatches(c) == db[To[c]].rows = cp[c].fp

\* BACKUP_VERIFIED, or sqlite_backup_fingerprint_mismatch; the copy stays.
CopyVerify(c) ==
    /\ cp[c].pc = "verify"
    /\ \/ CopyMatches(c) /\ cp' = [cp EXCEPT ![c].pc = "verified"]
       \/ ~CopyMatches(c) /\ cp' = [cp EXCEPT ![c].pc = "mismatch"]
    /\ UNCHANGED <<lsVars, db, sw, mig>>

\* The process dies: before the copy it may leave an empty file, after it a copy
\* nobody has verified.
CopyFails(c) ==
    /\ cp[c].pc \in {"copy", "verify"}
    /\ \/ UNCHANGED db
       \/ cp[c].pc = "copy" /\ db' = [db EXCEPT ![To[c]].file = Abandoned(To[c])]
    /\ cp' = [cp EXCEPT ![c].pc = "failed"]
    /\ UNCHANGED <<lsVars, sw, mig>>

Next ==
    \/ LSNext /\ UNCHANGED sqVars
    \/ \E w \in SqlWriters : SqlCapture(w) \/ SqlCommit(w)
    \/ \E m \in Migrations :
          \/ MigrateCheck(m) \/ MigrateList(m) \/ MigrateInit(m)
          \/ MigrateRecord(m) \/ MigrateReport(m) \/ MigrateFails(m)
    \/ \E c \in Copies :
          CopyCheck(c) \/ CopySnapshot(c) \/ CopyVerify(c) \/ CopyFails(c)

Spec == Init /\ [][Next]_vars

---------------------------------------------------------------------------
(* Properties                                                              *)

Preempted(r) ==
    \E w \in SqlWriters : /\ sw[w].pc = "done" /\ sw[w].src = r.src
                          /\ sw[w].ver = r.ver /\ Row(sw[w]) \in db["main"].rows

\* A migration that reports MIGRATED has carried over every version it listed,
\* with its capture time, even if other migrations died half-way into the same
\* target or ran beside it; only a direct registration of the same version that
\* committed first keeps its own capture time instead.  As long as no registration
\* has reached either store since the source was fingerprinted it reports the
\* fingerprint it started from, although nothing compares the two.
MigratedHistoryKept ==
    \A m \in Migrations : mig[m].pc = "migrated" =>
        /\ \A r \in mig[m].listed : r \in db["main"].rows \/ Preempted(r)
        /\ (idx = mig[m].fp /\ \A w \in SqlWriters : sw[w].pc # "done") =>
              mig[m].target = mig[m].fp

\* Another copy that found the same destination free.
Rival(c) ==
    \E d \in Copies \ {c} : To[d] = To[c] /\ cp[d].pc \notin {"check", "refused"}

\* What BACKUP_VERIFIED and RESTORE_VERIFIED reported stays true: the destination
\* holds exactly the rows of the fingerprint, although registrations go on while
\* the copy is made, and a restore of it brings the same rows back.  Only a copy to
\* the same destination that had passed its check too can replace it.
VerifiedCopyKept ==
    \A c \in Copies : cp[c].pc = "verified" => db[To[c]].rows = cp[c].fp \/ Rival(c)
===========================================================================
