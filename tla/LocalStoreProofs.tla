-------------------------- MODULE LocalStoreProofs --------------------------
(***************************************************************************)
(* Proofs about LocalStore and SQLiteStore, for any number of writers,     *)
(* readers, migrations, copies, sources and contents.                      *)
(*                                                                         *)
(* The inductive invariant of LocalStore says who holds the write lock     *)
(* (Locked), that what a writer read under the lock is still the index     *)
(* when it writes (Seen), and, as long as nothing outside the store        *)
(* damaged a blob, that the blob of every row that is in the index, that   *)
(* is about to be, or that a reader still has to visit, is on disk         *)
(* (BlobsOnDisk).                                                          *)
(*                                                                         *)
(* What a migration reports rests on where the rows of its target come     *)
(* from: every row of the main store is a row of the JSON index, which     *)
(* only grows and has one row per version, or was registered directly.  So *)
(* whatever is found under a version's key when a migration inserts it, is *)
(* the very row or a direct registration of it.                            *)
(***************************************************************************)
EXTENDS SQLiteStore, TLAPS

Locked ==
    \A w \in Writers : wr[w].pc \in {"read", "blob", "index", "unlock"} => lock = w

Seen ==
    \A w \in Writers : wr[w].pc \in {"blob", "index"} =>
        wr[w].seen = idx /\ ~Registered(idx, wr[w])

BlobsOnDisk ==
    damage = 0 =>
        /\ \A r \in idx : blobs[r.ver] = "good"
        /\ \A w \in Writers : wr[w].pc = "index" => blobs[wr[w].ver] = "good"
        /\ \A r \in Readers : \A row \in rd[r].todo : blobs[row.ver] = "good"

LSInv ==
    LSTypeOK /\ Locked /\ Seen /\ VersionsUnique /\ BlobsOnDisk /\ ReadsComplete

WriterType ==
    [pc : {"start", "lock", "read", "blob", "index", "unlock", "done", "failed"},
     src : Sources, ver : Contents, time : 0..MaxClock, seen : SUBSET Rows]

\* The empty store satisfies the invariant.
LEMMA InitInv == LSInit => LSInv
<1> SUFFICES ASSUME LSInit PROVE LSInv
  OBVIOUS
<1>1. wr \in [Writers -> WriterType] /\ \A w \in Writers : wr[w].pc = "start"
  BY StoreAssumption DEF LSInit, NewWriter, WriterType
<1>2. LSTypeOK
  BY <1>1, StoreAssumption DEF LSInit, LSTypeOK, WriterType, NewReader
<1>3. QED
  BY <1>1, <1>2 DEF LSInit, LSInv, Locked, Seen, VersionsUnique, BlobsOnDisk,
     ReadsComplete, NewReader

\* The updates a writer's record undergoes keep its type.
LEMMA UpdateType ==
    ASSUME NEW t \in WriterType, NEW c \in 0..MaxClock, NEW rows \in SUBSET Rows,
           NEW p \in {"blob", "unlock"}
    PROVE  /\ [t EXCEPT !.pc = "lock", !.time = c] \in WriterType
           /\ [t EXCEPT !.seen = rows, !.pc = p] \in WriterType
<1>1. [t EXCEPT !.pc = "lock", !.time = c] \in WriterType
  BY DEF WriterType
<1>2. [t EXCEPT !.seen = rows, !.pc = p] \in WriterType
  BY DEF WriterType
<1>3. QED
  BY <1>1, <1>2

\* Replacing one writer's record by a well-typed one keeps wr well typed.
LEMMA BecomeType ==
    ASSUME wr \in [Writers -> WriterType], NEW w \in Writers,
           NEW t \in WriterType, Become(w, t)
    PROVE  wr' \in [Writers -> WriterType]
BY DEF Become

\* A step of register_bytes keeps the invariant.
LEMMA WriteInv ==
    ASSUME LSInv, NEW w \in Writers, Write(w)
    PROVE  LSInv' /\ idx \subseteq idx'
<1>0. wr \in [Writers -> WriterType] /\ wr[w] \in WriterType
  BY DEF LSInv, LSTypeOK, WriterType
<1> USE DEF LSInv, LSTypeOK
<1>1. CASE Capture(w)
  <2>1. wr' \in [Writers -> WriterType]
    BY <1>0, <1>1, UpdateType, BecomeType DEF Capture
  <2>2. QED
    BY <1>1, <2>1 DEF Capture, Become, Locked, Seen, VersionsUnique, BlobsOnDisk,
       ReadsComplete, Registered, WriterType
<1>2. CASE AcquireLock(w)
  BY <1>2, StoreAssumption, ZenonT(80) DEF AcquireLock, Become, Locked, Seen, VersionsUnique,
     BlobsOnDisk, ReadsComplete, Registered
<1>3. CASE ReadIndex(w)
  <2>0. wr' \in [Writers -> WriterType]
    <3> DEFINE p == IF AlreadyRegistered(wr[w]) THEN "unlock" ELSE "blob"
    <3>1. p \in {"blob", "unlock"} /\ Become(w, [wr[w] EXCEPT !.seen = idx, !.pc = p])
      BY <1>3 DEF ReadIndex
    <3> HIDE DEF p
    <3>2. QED
      BY <1>0, <3>1, UpdateType, BecomeType
  <2>1. UNCHANGED <<idx, blobs, lock, rd, clock, damage>>
    BY <1>3 DEF ReadIndex
  <2>2. \A v \in Writers \ {w} : wr'[v] = wr[v]
    BY <1>3 DEF ReadIndex, Become
  <2>3. /\ wr'[w].seen = idx /\ wr'[w].src = wr[w].src /\ wr'[w].ver = wr[w].ver
        /\ wr'[w].pc = IF Registered(idx, wr[w]) THEN "unlock" ELSE "blob"
        /\ wr[w].pc = "read"
    BY <1>3 DEF ReadIndex, AlreadyRegistered, Become, WriterType
  <2>4. Locked' /\ Seen'
    BY <2>1, <2>2, <2>3 DEF Locked, Seen, Registered
  <2>5. QED
    BY <2>0, <2>1, <2>2, <2>3, <2>4
       DEF VersionsUnique, BlobsOnDisk, ReadsComplete, WriterType
<1>4. CASE WriteBlob(w)
  BY <1>4 DEF WriteBlob, BlobNeeded, Become, Locked, Seen, VersionsUnique,
     BlobsOnDisk, ReadsComplete, Registered
<1>5. CASE WriteIndex(w)
  BY <1>5 DEF WriteIndex, Row, Rows, Become, Locked, Seen, VersionsUnique,
     BlobsOnDisk, ReadsComplete, Registered
<1>6. CASE Release(w)
  BY <1>6 DEF Release, Become, Locked, Seen, VersionsUnique, BlobsOnDisk,
     ReadsComplete, Registered
<1>7. QED
  BY <1>1, <1>2, <1>3, <1>4, <1>5, <1>6 DEF Write

\* So does the death of a writer, wherever it happens.
LEMMA FailInv ==
    ASSUME LSInv, NEW w \in Writers, FailWriter(w)
    PROVE  LSInv' /\ idx \subseteq idx'
BY DEF LSInv, LSTypeOK, FailWriter, Become, Locked, Seen, VersionsUnique,
       BlobsOnDisk, ReadsComplete, Registered

\* So does a step of a reader, which takes no lock.
LEMMA ReadInv ==
    ASSUME LSInv, NEW r \in Readers, StartList(r) \/ ReadRow(r) \/ FinishList(r)
    PROVE  LSInv' /\ idx \subseteq idx'
<1> USE DEF LSInv, LSTypeOK
<1>1. CASE StartList(r)
  <2>1. PICK rows \in SUBSET idx :
           rd' = [rd EXCEPT ![r] = [pc |-> "reading", todo |-> rows]]
    BY <1>1 DEF StartList, Latest
  <2>2. QED
    BY <1>1, <2>1 DEF StartList, Locked, Seen, VersionsUnique, BlobsOnDisk,
       ReadsComplete, Registered
<1>2. CASE ReadRow(r)
  <2>1. PICK row \in rd[r].todo :
           \/ blobs[row.ver] = "good" /\ rd' = [rd EXCEPT ![r].todo = @ \ {row}]
           \/ blobs[row.ver] # "good" /\ rd' = [rd EXCEPT ![r].pc = "failed"]
    BY <1>2 DEF ReadRow
  <2>2. UNCHANGED <<idx, blobs, lock, wr, clock, damage>>
    BY <1>2 DEF ReadRow
  <2>3. CASE blobs[row.ver] = "good"
    <3>1. rd' = [rd EXCEPT ![r].todo = @ \ {row}]
      BY <2>1, <2>3
    <3>2. /\ rd' \in [Readers -> [pc : {"start", "reading", "served", "failed"},
                                   todo : SUBSET Rows]]
          /\ \A q \in Readers : rd'[q].pc = rd[q].pc /\ rd'[q].todo \subseteq rd[q].todo
      BY <3>1
    <3>3. QED
      BY <2>2, <3>2 DEF Locked, Seen, VersionsUnique, BlobsOnDisk, ReadsComplete,
         Registered
  <2>4. CASE blobs[row.ver] # "good"
    <3>1. rd' = [rd EXCEPT ![r].pc = "failed"]
      BY <2>1, <2>4
    <3>2. damage # 0
      BY <2>4 DEF BlobsOnDisk
    <3>3. QED
      BY <2>2, <3>1, <3>2 DEF Locked, Seen, VersionsUnique, BlobsOnDisk,
         ReadsComplete, Registered
  <2>5. QED
    BY <2>3, <2>4
<1>3. CASE FinishList(r)
  BY <1>3 DEF FinishList, Locked, Seen, VersionsUnique, BlobsOnDisk, ReadsComplete,
     Registered
<1>4. QED
  BY <1>1, <1>2, <1>3

\* Every step keeps the invariant and every row of the index.
LEMMA NextInv ==
    ASSUME LSInv, [LSNext]_lsVars
    PROVE  LSInv' /\ idx \subseteq idx'
<1>1. CASE \E c \in Contents : DamageBlob(c)
  BY <1>1, StoreAssumption DEF DamageBlob, LSInv, LSTypeOK, Locked, Seen,
     VersionsUnique, BlobsOnDisk, ReadsComplete, Registered
<1>2. CASE Tick
  BY <1>2, StoreAssumption DEF Tick, LSInv, LSTypeOK, Locked, Seen, VersionsUnique,
     BlobsOnDisk, ReadsComplete, Registered
<1>3. CASE UNCHANGED lsVars
  BY <1>3 DEF lsVars, LSInv, LSTypeOK, Locked, Seen, VersionsUnique, BlobsOnDisk,
     ReadsComplete, Registered
<1>4. QED
  BY <1>1, <1>2, <1>3, WriteInv, FailInv, ReadInv DEF LSNext

\* The store keeps its types, whatever the writers, the readers and the disk do.
THEOREM StoreTypeCorrect == LSSpec => []LSTypeOK
<1>1. LSInv => LSTypeOK
  BY DEF LSInv
<1>2. QED
  BY <1>1, InitInv, NextInv, PTL DEF LSSpec

\* Registration never loses a row: the write lock makes read, append and replace
\* of index.json one unit although writers may die inside it.
THEOREM StoreHistoryKept == LSSpec => HistoryKept
<1>1. LSInv /\ [LSNext]_lsVars => [idx \subseteq idx']_lsVars
  BY NextInv
<1>2. QED
  BY <1>1, InitInv, NextInv, PTL DEF LSSpec, HistoryKept

\* One row per source and version.
THEOREM StoreVersionsUnique == LSSpec => []VersionsUnique
<1>1. LSInv => VersionsUnique
  BY DEF LSInv
<1>2. QED
  BY <1>1, InitInv, NextInv, PTL DEF LSSpec

\* Without damage from outside, no lock-free listing ever fails: the blob is
\* written before the row, and a row is never read before it is written.
THEOREM StoreReadsComplete == LSSpec => []ReadsComplete
<1>1. LSInv => ReadsComplete
  BY DEF LSInv
<1>2. QED
  BY <1>1, InitInv, NextInv, PTL DEF LSSpec

---------------------------------------------------------------------------
(* Visibility                                                              *)

\* Every row of the index is outranked by a listed row of its source, or listed.
LatestExists ==
    \A r \in idx : \E q \in Latest(idx) : q.src = r.src /\ ~Newer(r, q)

\* A call that has found or written its row, and may have released the lock.
RegisteredWhenDone ==
    \A w \in Writers : wr[w].pc \in {"unlock", "done"} => Registered(idx, wr[w])

VisibleInv == LatestExists /\ RegisteredWhenDone

LEMMA RowNumbers ==
    ASSUME NEW r \in Rows PROVE r.time \in Nat /\ r.ver \in Nat
<1>1. r.ver \in Contents
  BY DEF Rows
<1>2. r.ver \in Nat
  BY <1>1, StoreAssumption
<1>3. r.time \in 0..MaxClock
  BY DEF Rows
<1>4. r.time \in Nat
  BY <1>3, StoreAssumption
<1>5. QED
  BY <1>2, <1>4

\* Newer is a strict order on rows.
LEMMA NewerOrder ==
    ASSUME NEW p \in Rows, NEW q \in Rows, NEW r \in Rows
    PROVE  /\ ~Newer(p, p)
           /\ Newer(p, q) => ~Newer(q, p)
           /\ Newer(p, q) /\ Newer(q, r) => Newer(p, r)
<1>1. /\ p.time \in Nat /\ p.ver \in Nat /\ q.time \in Nat /\ q.ver \in Nat
      /\ r.time \in Nat /\ r.ver \in Nat
  BY RowNumbers
<1> QED BY <1>1 DEF Newer

\* A new row is listed or outranked by what was listed before.
LEMMA LatestGrows ==
    ASSUME NEW I \in SUBSET Rows, NEW n \in Rows,
           \A r \in I : \E q \in Latest(I) : q.src = r.src /\ ~Newer(r, q)
    PROVE  \A r \in I \cup {n} : \E q \in Latest(I \cup {n}) : q.src = r.src /\ ~Newer(r, q)
<1> SUFFICES ASSUME NEW r \in I \cup {n}
             PROVE  \E q \in Latest(I \cup {n}) : q.src = r.src /\ ~Newer(r, q)
  OBVIOUS
<1>1. ASSUME NEW q \in Latest(I), q.src = n.src => ~Newer(n, q)
      PROVE  q \in Latest(I \cup {n})
  BY <1>1 DEF Latest
<1>2. ASSUME NEW q \in Latest(I), q.src = n.src, Newer(n, q)
      PROVE  n \in Latest(I \cup {n}) /\ \A p \in I : p.src = n.src => ~Newer(p, n)
  <2>1. ASSUME NEW p \in I, p.src = n.src PROVE ~Newer(p, n)
    <3>1. ~Newer(p, q) BY <1>2, <2>1 DEF Latest
    <3>2. p \in Rows /\ q \in Rows BY DEF Latest
    <3> QED BY <1>2, <3>1, <3>2, NewerOrder
  <2>2. ~Newer(n, n) BY NewerOrder
  <2> QED BY <2>1, <2>2 DEF Latest
<1>3. CASE r \in I
  <2>1. PICK q \in Latest(I) : q.src = r.src /\ ~Newer(r, q) BY <1>3
  <2>2. CASE q.src = n.src /\ Newer(n, q) BY <1>2, <1>3, <2>1, <2>2
  <2>3. CASE q.src = n.src => ~Newer(n, q) BY <1>1, <2>1, <2>3
  <2> QED BY <2>2, <2>3
<1>4. CASE r = n
  <2>1. ~Newer(n, n) BY NewerOrder
  <2>2. CASE \E p \in I : p.src = n.src
    <3>1. PICK q \in Latest(I) : q.src = n.src BY <2>2
    <3>2. CASE Newer(n, q) BY <1>2, <1>4, <2>1, <3>1, <3>2
    <3>3. CASE ~Newer(n, q) BY <1>1, <1>4, <3>1, <3>3
    <3> QED BY <3>2, <3>3
  <2>3. CASE ~\E p \in I : p.src = n.src
    <3>1. n \in Latest(I \cup {n}) BY <2>1, <2>3 DEF Latest
    <3> QED BY <1>4, <2>1, <3>1
  <2> QED BY <2>2, <2>3
<1> QED BY <1>3, <1>4

LEMMA NextVisible ==
    ASSUME LSInv, VisibleInv, [LSNext]_lsVars PROVE VisibleInv'
<1>1. idx \subseteq idx' BY NextInv
<1>0. wr \in [Writers -> WriterType] /\ idx \subseteq Rows
  BY DEF LSInv, LSTypeOK, WriterType
<1>2. ASSUME UNCHANGED <<idx, wr>> PROVE VisibleInv'
  BY <1>2 DEF VisibleInv, LatestExists, Latest, RegisteredWhenDone, Registered
<1>3. ASSUME UNCHANGED idx, NEW w \in Writers, \A v \in Writers \ {w} : wr'[v] = wr[v],
             wr'[w].src = wr[w].src, wr'[w].ver = wr[w].ver,
             wr'[w].pc \in {"unlock", "done"} => Registered(idx, wr[w])
      PROVE  VisibleInv'
  BY <1>3 DEF VisibleInv, LatestExists, Latest, RegisteredWhenDone, Registered
<1>4. ASSUME NEW w \in Writers, Write(w) \/ FailWriter(w) PROVE VisibleInv'
  <2>0. wr[w] \in WriterType BY <1>0
  <2>1. CASE Capture(w) \/ AcquireLock(w) \/ WriteBlob(w) \/ FailWriter(w)
    <3>1. PICK p \in {"lock", "read", "index", "failed"}, k \in {clock, wr[w].time} :
            Become(w, [wr[w] EXCEPT !.pc = p, !.time = k])
      <4>1. \A p \in {"read", "index", "failed"} :
               [wr[w] EXCEPT !.pc = p] = [wr[w] EXCEPT !.pc = p, !.time = wr[w].time]
        BY <2>0 DEF WriterType
      <4>2. CASE Capture(w) BY <4>2 DEF Capture
      <4>3. CASE AcquireLock(w) \/ WriteBlob(w) \/ FailWriter(w)
        BY <4>1, <4>3 DEF AcquireLock, WriteBlob, FailWriter
      <4> QED BY <2>1, <4>2, <4>3
    <3>2. /\ \A v \in Writers \ {w} : wr'[v] = wr[v]
          /\ wr'[w].src = wr[w].src /\ wr'[w].ver = wr[w].ver /\ wr'[w].pc = p
      BY <1>0, <2>0, <3>1 DEF Become, WriterType
    <3>3. UNCHANGED idx BY <2>1 DEF Capture, AcquireLock, WriteBlob, FailWriter
    <3> QED BY <1>3, <3>2, <3>3
  <2>2. CASE Release(w)
    <3>1. Registered(idx, wr[w])
      BY <2>2 DEF Release, VisibleInv, RegisteredWhenDone
    <3> QED BY <1>0, <1>3, <2>0, <2>2, <3>1 DEF Release, Become, WriterType
  <2>3. CASE ReadIndex(w)
    <3>1. PICK p \in {"unlock", "blob"} :
            p = IF Registered(idx, wr[w]) THEN "unlock" ELSE "blob"
      OBVIOUS
    <3>2. Become(w, [wr[w] EXCEPT !.seen = idx, !.pc = p])
      BY <2>3, <3>1 DEF ReadIndex, AlreadyRegistered
    <3>3. UNCHANGED idx BY <2>3 DEF ReadIndex
    <3>4. /\ \A v \in Writers \ {w} : wr'[v] = wr[v]
          /\ wr'[w].src = wr[w].src /\ wr'[w].ver = wr[w].ver /\ wr'[w].pc = p
      BY <1>0, <2>0, <3>2 DEF Become, WriterType
    <3>5. p = "unlock" => Registered(idx, wr[w]) BY <3>1
    <3> HIDE DEF Registered
    <3> QED BY <1>3, <3>3, <3>4, <3>5
  <2>4. CASE WriteIndex(w)
    <3>1. /\ idx' = idx \cup {Row(wr[w])}
          /\ \A v \in Writers \ {w} : wr'[v] = wr[v]
          /\ wr'[w].src = wr[w].src /\ wr'[w].ver = wr[w].ver
      BY <1>0, <2>0, <2>4 DEF WriteIndex, Become, WriterType, LSInv, Seen
    <3>2. PICK n \in Rows : n = Row(wr[w]) BY <2>0 DEF WriterType, Row, Rows
    <3>3. n.src = wr[w].src /\ n.ver = wr[w].ver BY <3>2 DEF Row
    <3>4. \A r \in idx \cup {n} : \E q \in Latest(idx \cup {n}) : q.src = r.src /\ ~Newer(r, q)
      BY <1>0, LatestGrows DEF VisibleInv, LatestExists
    <3>5. LatestExists' BY <3>1, <3>2, <3>4 DEF LatestExists, Latest
    <3>6. RegisteredWhenDone'
      BY <3>1, <3>2, <3>3 DEF VisibleInv, RegisteredWhenDone, Registered
    <3> QED BY <3>5, <3>6 DEF VisibleInv
  <2> QED BY <1>4, <2>1, <2>2, <2>3, <2>4 DEF Write
<1>5. CASE \/ \E r \in Readers : StartList(r) \/ ReadRow(r) \/ FinishList(r)
           \/ \E c \in Contents : DamageBlob(c)
           \/ Tick \/ UNCHANGED lsVars
  <2>1. UNCHANGED <<idx, wr>>
    BY <1>5 DEF StartList, ReadRow, FinishList, DamageBlob, Tick, lsVars
  <2> QED BY <1>2, <2>1
<1> QED BY <1>4, <1>5 DEF LSNext

\* Once register_bytes has returned, the source's listed version is no older than the
\* call, or the content had been there before; whoever else registered, listed, failed
\* or died meanwhile (store.py, register_bytes, list_sources).
THEOREM RegistrationsVisible == LSSpec => []RegistrationVisible
<1>1. LSInit => VisibleInv
  BY DEF LSInit, NewWriter, VisibleInv, LatestExists, RegisteredWhenDone
<1>2. LSInv /\ VisibleInv => RegistrationVisible
  <2> SUFFICES ASSUME LSInv, VisibleInv, NEW w \in Writers, wr[w].pc = "done"
               PROVE  \/ \E r \in Latest(idx) :
                            /\ r.src = wr[w].src
                            /\ \/ r.time > wr[w].time
                               \/ r.time = wr[w].time /\ r.ver >= wr[w].ver
                      \/ \E r \in idx : /\ r.src = wr[w].src /\ r.ver = wr[w].ver
                                        /\ r.time < wr[w].time
    BY DEF RegistrationVisible
  <2>1. PICK r \in idx : r.src = wr[w].src /\ r.ver = wr[w].ver
    BY DEF VisibleInv, RegisteredWhenDone, Registered
  <2>2. PICK q \in Latest(idx) : q.src = r.src /\ ~Newer(r, q)
    BY DEF VisibleInv, LatestExists
  <2>3. q \in Rows /\ r \in Rows /\ wr[w] \in WriterType
    BY DEF Latest, LSInv, LSTypeOK, WriterType
  <2>a. Row(wr[w]) \in Rows BY <2>3 DEF WriterType, Row, Rows
  <2>b. Row(wr[w]).time = wr[w].time BY DEF Row
  <2>4. /\ q.time \in Nat /\ r.time \in Nat /\ q.ver \in Nat /\ r.ver \in Nat
        /\ wr[w].time \in Nat
    BY <2>3, <2>a, <2>b, RowNumbers
  <2>5. CASE r.time < wr[w].time BY <2>1, <2>5
  <2>6. CASE r.time >= wr[w].time BY <2>1, <2>2, <2>3, <2>4, <2>6 DEF Newer
  <2> QED BY <2>4, <2>5, <2>6
<1>3. QED
  BY <1>1, <1>2, InitInv, NextInv, NextVisible, PTL DEF LSSpec

---------------------------------------------------------------------------
(* Refinement                                                              *)

\* The instant at which a call takes effect is a step of the abstract registry,
\* by virtue of the lock: what the writer read is what it replaces.
LEMMA WriteRefines ==
    ASSUME LSInv, NEW w \in Writers, Write(w)
    PROVE  [Registry!RegNext]_(Registry!regVars)
<1> DEFINE asked == [v \in Writers |-> [src |-> wr[v].src, ver |-> wr[v].ver]]
           call == [v \in Writers |-> CallPhase(wr[v])]
<1>0. wr \in [Writers -> WriterType] /\ wr[w] \in WriterType
  BY DEF LSInv, LSTypeOK, WriterType
<1>1. CASE Capture(w) \/ AcquireLock(w) \/ WriteBlob(w)
  <2>1. /\ idx' = idx
        /\ \A v \in Writers : /\ wr'[v].src = wr[v].src /\ wr'[v].ver = wr[v].ver
                              /\ CallPhase(wr'[v]) = CallPhase(wr[v])
    <3>1. /\ idx' = idx
          /\ \A v \in Writers : wr'[v].src = wr[v].src /\ wr'[v].ver = wr[v].ver
          /\ \A v \in Writers \ {w} : wr'[v] = wr[v]
      <4>1. CASE Capture(w)
        BY <1>0, <4>1 DEF Capture, Become, WriterType
      <4>2. CASE AcquireLock(w)
        BY <1>0, <4>2 DEF AcquireLock, Become, WriterType
      <4>3. CASE WriteBlob(w)
        BY <1>0, <4>3 DEF WriteBlob, Become, WriterType
      <4>4. QED
        BY <1>1, <4>1, <4>2, <4>3
    <3>2. wr[w].pc \in {"start", "lock", "blob"} /\ wr'[w].pc \in {"lock", "read", "index"}
      BY <1>0, <1>1 DEF Capture, AcquireLock, WriteBlob, Become, WriterType
    <3>3. QED
      BY <3>1, <3>2 DEF CallPhase
  <2>2. asked' = asked /\ call' = call
    BY <2>1
  <2>3. QED
    BY <2>1, <2>2 DEF Registry!regVars
<1>2. CASE ReadIndex(w) \/ WriteIndex(w) \/ Release(w)
  <2>1. /\ \A v \in Writers : wr'[v].src = wr[v].src /\ wr'[v].ver = wr[v].ver
        /\ \A v \in Writers \ {w} : wr'[v] = wr[v]
    <3>1. CASE ReadIndex(w)
      BY <1>0, <3>1 DEF ReadIndex, Become, WriterType
    <3>2. CASE WriteIndex(w)
      BY <1>0, <3>2 DEF WriteIndex, Become, WriterType
    <3>3. CASE Release(w)
      BY <1>0, <3>3 DEF Release, Become, WriterType
    <3>4. QED
      BY <1>2, <3>1, <3>2, <3>3
  <2>2. asked' = asked
    BY <2>1
  <2>3. \A v \in Writers \ {w} : call'[v] = call[v]
    BY <2>1
  <2>4. CASE ReadIndex(w) /\ ~Registered(idx, wr[w])
    <3>1. wr'[w].pc = "blob" /\ wr[w].pc = "read" /\ idx' = idx
      BY <1>0, <2>4 DEF ReadIndex, Become, AlreadyRegistered, WriterType
    <3>2. call' = call
      BY <2>3, <3>1 DEF CallPhase
    <3>3. QED
      BY <2>2, <3>1, <3>2 DEF Registry!regVars
  <2>5. CASE ReadIndex(w) /\ Registered(idx, wr[w])
    <3>1. wr'[w].pc = "unlock" /\ wr[w].pc = "read" /\ idx' = idx
      BY <1>0, <2>5 DEF ReadIndex, Become, AlreadyRegistered, WriterType
    <3>2. call[w] = "pending" /\ call' = [call EXCEPT ![w] = "committed"]
      BY <2>3, <3>1 DEF CallPhase
    <3>3. Registry!Has(asked[w])
      BY <2>5 DEF Registry!Has, Registered
    <3>4. Registry!Commit(w)
      BY <2>2, <3>1, <3>2, <3>3 DEF Registry!Commit, Registry!Becomes
    <3>5. QED
      BY <3>4 DEF Registry!RegNext
  <2>6. CASE WriteIndex(w)
    <3>1. wr'[w].pc = "unlock" /\ wr[w].pc = "index" /\ idx' = wr[w].seen \cup {Row(wr[w])}
      BY <1>0, <2>6 DEF WriteIndex, Become, WriterType
    <3>2. wr[w].seen = idx /\ ~Registered(idx, wr[w]) /\ wr[w].time \in 0..MaxClock
      BY <1>0, <3>1 DEF LSInv, Seen, WriterType
    <3>3. call[w] = "pending" /\ call' = [call EXCEPT ![w] = "committed"]
      BY <2>3, <3>1 DEF CallPhase
    <3>4. ~Registry!Has(asked[w])
      BY <3>2 DEF Registry!Has, Registered
    <3>5. \E t \in 0..MaxClock :
             idx' = idx \cup {[src |-> asked[w].src, ver |-> asked[w].ver, time |-> t]}
      BY <3>1, <3>2 DEF Row
    <3>6. Registry!Commit(w)
      BY <2>2, <3>3, <3>4, <3>5 DEF Registry!Commit, Registry!Becomes
    <3>7. QED
      BY <3>6 DEF Registry!RegNext
  <2>7. CASE Release(w)
    <3>1. wr'[w].pc = "done" /\ wr[w].pc = "unlock" /\ idx' = idx
      BY <1>0, <2>7 DEF Release, Become, WriterType
    <3>2. call[w] = "committed" /\ call' = [call EXCEPT ![w] = "returned"]
      BY <2>3, <3>1 DEF CallPhase
    <3>3. Registry!Return(w)
      BY <2>2, <3>1, <3>2 DEF Registry!Return, Registry!Becomes
    <3>4. QED
      BY <3>3 DEF Registry!RegNext
  <2>8. QED
    BY <1>2, <2>4, <2>5, <2>6, <2>7
<1>3. QED
  BY <1>1, <1>2 DEF Write

\* A writer that dies or fails, before or after its effect, fails its call.
LEMMA FailRefines ==
    ASSUME LSInv, NEW w \in Writers, FailWriter(w)
    PROVE  [Registry!RegNext]_(Registry!regVars)
<1> DEFINE asked == [v \in Writers |-> [src |-> wr[v].src, ver |-> wr[v].ver]]
           call == [v \in Writers |-> CallPhase(wr[v])]
<1>0. wr \in [Writers -> WriterType] /\ wr[w] \in WriterType
  BY DEF LSInv, LSTypeOK, WriterType
<1>1. /\ idx' = idx /\ wr'[w].pc = "failed"
      /\ wr[w].pc \in {"lock", "read", "blob", "index", "unlock"}
      /\ \A v \in Writers : wr'[v].src = wr[v].src /\ wr'[v].ver = wr[v].ver
      /\ \A v \in Writers \ {w} : wr'[v] = wr[v]
  BY <1>0 DEF FailWriter, Become, WriterType
<1>2. asked' = asked
  BY <1>1
<1>3. call[w] \in {"pending", "committed"} /\ call' = [call EXCEPT ![w] = "failed"]
  BY <1>1 DEF CallPhase
<1>4. Registry!Fail(w)
  BY <1>1, <1>2, <1>3 DEF Registry!Fail, Registry!Becomes
<1>5. QED
  BY <1>4 DEF Registry!RegNext

\* The JSON/blob store implements the atomic registry: for any number of
\* writers, every behaviour of the files is a behaviour of SourceRegistry.
THEOREM StoreImplementsRegistry == LSSpec => ImplementsRegistry
<1>1. LSInit => Registry!RegInit
  <2> SUFFICES ASSUME LSInit PROVE Registry!RegInit
    OBVIOUS
  <2>1. \A w \in Writers : wr[w].pc = "start"
    BY DEF LSInit, NewWriter
  <2>2. QED
    BY <2>1 DEF LSInit, Registry!RegInit, CallPhase
<1>2. LSInv /\ [LSNext]_lsVars => [Registry!RegNext]_(Registry!regVars)
  <2> SUFFICES ASSUME LSInv, [LSNext]_lsVars
               PROVE  [Registry!RegNext]_(Registry!regVars)
    OBVIOUS
  <2>1. CASE \E w \in Writers : Write(w) \/ FailWriter(w)
    BY <2>1, WriteRefines, FailRefines
  <2>2. CASE UNCHANGED <<idx, wr>>
    BY <2>2 DEF Registry!regVars
  <2>3. QED
    BY <2>1, <2>2 DEF LSNext, StartList, ReadRow, FinishList, DamageBlob, Tick, lsVars
<1>3. QED
  BY <1>1, <1>2, InitInv, NextInv, PTL DEF LSSpec, ImplementsRegistry, Registry!RegSpec

---------------------------------------------------------------------------
(* SQLiteStore, migration and backup.                                      *)

DbType == [file : {"none", "empty", "ready"}, rows : SUBSET Rows]
SqlWriterType == [pc : {"start", "commit", "done"}, src : Sources, ver : Contents,
                  time : 0..MaxClock]
MigrationType ==
    [pc : {"check", "refused", "list", "init", "copy", "migrated", "failed"},
     fp : SUBSET Rows, listed : SUBSET Rows, todo : SUBSET Rows, target : SUBSET Rows]
CopyType == [pc : {"check", "refused", "copy", "verify", "verified", "mismatch", "failed"},
             fp : SUBSET Rows]

SQTypeOK ==
    /\ db \in [Stores -> DbType]
    /\ sw \in [SqlWriters -> SqlWriterType]
    /\ mig \in [Migrations -> MigrationType]
    /\ cp \in [Copies -> CopyType]

main == db["main"].rows

DirectlyRegistered(r) == \E w \in SqlWriters : sw[w].pc = "done" /\ Row(sw[w]) = r

\* Where the rows of the main store come from.
Provenance == \A r \in main : r \in idx \/ DirectlyRegistered(r)

\* What a migration t has read and what of it has been carried over.
MigrationInv(t) ==
    /\ t.fp \subseteq idx /\ t.listed \subseteq idx /\ t.todo \subseteq t.listed
    /\ t.pc \in {"init", "copy", "migrated"} =>
          /\ t.fp \subseteq t.listed
          /\ \A r \in t.listed \ t.todo : r \in main \/ Preempted(r)
    /\ t.pc = "migrated" =>
          /\ t.todo = {} /\ t.target \subseteq main
          /\ \A r \in t.listed : r \in t.target \/ \E w \in SqlWriters : sw[w].pc = "done"

SqlIInv ==
    /\ LSInv /\ SQTypeOK
    /\ Provenance
    /\ \A m \in Migrations : MigrationInv(mig[m])
    /\ VerifiedCopyKept

---------------------------------------------------------------------------
(* Proofs                                                                  *)

LEMMA SqlInitial == Init => SqlIInv
<1> SUFFICES ASSUME Init PROVE SqlIInv OBVIOUS
<1>1. LSInv BY InitInv DEF Init
<1>2. \A s \in Sources, c \in Contents : NewSqlWriter(s, c) \in SqlWriterType
  BY StoreAssumption DEF NewSqlWriter, SqlWriterType
<1>3. sw \in [SqlWriters -> SqlWriterType] BY <1>2 DEF Init
<1>4. NoStore \in DbType /\ NewMigration \in MigrationType /\ NewCopy \in CopyType
  BY DEF NoStore, NewMigration, NewCopy, DbType, MigrationType, CopyType
<1>5. SQTypeOK BY <1>3, <1>4 DEF Init, SQTypeOK
<1>6. main = {} BY DEF main, Init, NoStore, Stores
<1>7. \A m \in Migrations : MigrationInv(mig[m])
  BY DEF Init, NewMigration, MigrationInv
<1>8. VerifiedCopyKept BY DEF VerifiedCopyKept, Init, NewCopy
<1> QED BY <1>1, <1>5, <1>6, <1>7, <1>8 DEF SqlIInv, Provenance

\* What every step keeps of the stores: the index and the main store only grow, and a
\* registration that committed stays so.
Onward ==
    /\ LSInv' /\ SQTypeOK' /\ idx \subseteq idx' /\ main \subseteq main'
    /\ \A w \in SqlWriters : sw[w].pc = "done" => sw'[w] = sw[w]
    /\ \A r \in main' \ main : r \in idx' \/ DirectlyRegistered(r)'

LEMMA ProvenanceStable ==
    ASSUME SqlIInv, Onward PROVE Provenance'
<1>1. \A r : DirectlyRegistered(r) => DirectlyRegistered(r)'
  BY DEF Onward, DirectlyRegistered, Row
<1> QED BY <1>1 DEF SqlIInv, Provenance, Onward

LEMMA PreemptedStable ==
    ASSUME Onward, NEW r, Preempted(r) PROVE Preempted(r)'
BY DEF Preempted, Onward, Row, main

\* A migration that does not move keeps its invariant.
LEMMA RestingMigration ==
    ASSUME SqlIInv, Onward, NEW m \in Migrations, mig'[m] = mig[m]
    PROVE  MigrationInv(mig[m])'
<1> DEFINE t == mig[m]
<1>0. MigrationInv(t) BY DEF SqlIInv
<1>1. t.fp \subseteq idx' /\ t.listed \subseteq idx' BY <1>0 DEF MigrationInv, Onward
<1>2. t.pc \in {"init", "copy", "migrated"} =>
          \A r \in t.listed \ t.todo : r \in main' \/ Preempted(r)'
  BY <1>0, PreemptedStable DEF MigrationInv, Onward
<1>3. t.pc = "migrated" =>
          /\ t.target \subseteq main'
          /\ \A r \in t.listed : r \in t.target \/ \E w \in SqlWriters : sw'[w].pc = "done"
  BY <1>0 DEF MigrationInv, Onward
<1> QED BY <1>0, <1>1, <1>2, <1>3 DEF MigrationInv

\* A step that leaves the copies and their destinations alone.
LEMMA RestingCopies ==
    ASSUME SqlIInv, cp' = cp, \A s \in Stores \ {"main"} : db'[s] = db[s]
    PROVE  VerifiedCopyKept'
BY CopiesAssumption DEF SqlIInv, VerifiedCopyKept, Rival

LEMMA RegistrationStep ==
    ASSUME SqlIInv, NEW w \in SqlWriters, SqlCapture(w) \/ SqlCommit(w)
    PROVE  SqlIInv'
<1>0. /\ LSInv /\ SQTypeOK /\ UNCHANGED lsVars /\ UNCHANGED <<mig, cp>>
      /\ LSInv' /\ clock \in 0..MaxClock
  BY NextInv DEF SqlIInv, SqlCapture, SqlCommit, LSInv, LSTypeOK
<1>1. Onward /\ \A s \in Stores \ {"main"} : db'[s] = db[s]
  <2>1. CASE SqlCapture(w)
    <3>1. sw' \in [SqlWriters -> SqlWriterType] /\ \A v \in SqlWriters : sw[v].pc = "done" => sw'[v] = sw[v]
      BY <1>0, <2>1 DEF SqlCapture, SQTypeOK, SqlWriterType
    <3> QED BY <1>0, <2>1, <3>1 DEF SqlCapture, Onward, SQTypeOK, main, lsVars
  <2>2. CASE SqlCommit(w)
    <3> DEFINE row == Row(sw[w])
               rows == Inserted(main, row)
    <3>1. row \in Rows BY <1>0 DEF SQTypeOK, SqlWriterType, Row, Rows
    <3>2. main \subseteq Rows BY <1>0 DEF SQTypeOK, DbType, main, Stores
    <3>3. rows \subseteq main \cup {row} /\ main \subseteq rows BY DEF Inserted
    <3>4. db' = [db EXCEPT !["main"] = [file |-> "ready", rows |-> rows]]
      BY <2>2 DEF SqlCommit, main
    <3>5. [file |-> "ready", rows |-> rows] \in DbType
      BY <3>1, <3>2, <3>3 DEF DbType
    <3> HIDE DEF rows, row
    <3>6. /\ db' \in [Stores -> DbType] /\ main' = rows
          /\ \A s \in Stores \ {"main"} : db'[s] = db[s]
      BY <1>0, <3>4, <3>5 DEF SQTypeOK, main, Stores
    <3>7. /\ sw' \in [SqlWriters -> SqlWriterType]
          /\ \A v \in SqlWriters : sw[v].pc = "done" => sw'[v] = sw[v]
          /\ sw'[w].pc = "done" /\ Row(sw'[w]) = Row(sw[w])
      BY <1>0, <2>2 DEF SqlCommit, SQTypeOK, SqlWriterType, Row
    <3>8. Row(sw'[w]) = row BY <3>7 DEF row
    <3>9. SQTypeOK' BY <1>0, <3>6, <3>7 DEF SQTypeOK
    <3>10. \A r \in main' \ main : DirectlyRegistered(r)'
      BY <3>3, <3>6, <3>7, <3>8 DEF DirectlyRegistered, Row
    <3> QED BY <1>0, <3>3, <3>6, <3>7, <3>9, <3>10 DEF Onward, lsVars
  <2> QED BY <2>1, <2>2
<1>2. \A m \in Migrations : MigrationInv(mig[m])' BY <1>0, <1>1, RestingMigration
<1> QED BY <1>0, <1>1, <1>2, ProvenanceStable, RestingCopies DEF SqlIInv, Onward

LEMMA JsonStep ==
    ASSUME SqlIInv, [LSNext]_lsVars, UNCHANGED sqVars
    PROVE  SqlIInv'
<1>1. Onward
  BY NextInv DEF SqlIInv, Onward, SQTypeOK, sqVars, main
<1>2. \A m \in Migrations : MigrationInv(mig[m])' BY <1>1, RestingMigration DEF sqVars
<1> QED BY <1>1, <1>2, ProvenanceStable, RestingCopies DEF SqlIInv, Onward, sqVars

\* A migration that moves and adds nothing but rows of the index.
LEMMA MigrationMoves ==
    ASSUME SqlIInv, NEW m \in Migrations, NEW t \in MigrationType, MoveTo(m, t),
           db' \in [Stores -> DbType], main \subseteq main', main' \subseteq main \cup idx,
           \A s \in Stores \ {"main"} : db'[s] = db[s],
           UNCHANGED <<lsVars, sw, cp>>,
           t.fp \subseteq idx, t.listed \subseteq idx, t.todo \subseteq t.listed,
           t.pc \in {"init", "copy", "migrated"} => t.fp \subseteq t.listed,
           t.pc \in {"init", "copy", "migrated"} =>
              \A r \in t.listed \ t.todo : r \in main' \/ Preempted(r),
           t.pc = "migrated" =>
              /\ t.todo = {} /\ t.target \subseteq main'
              /\ \A r \in t.listed : r \in t.target \/ \E w \in SqlWriters : sw[w].pc = "done"
    PROVE  SqlIInv'
<1>1. /\ mig' \in [Migrations -> MigrationType] /\ mig'[m] = t
      /\ \A n \in Migrations \ {m} : mig'[n] = mig[n]
  BY DEF MoveTo, SqlIInv, SQTypeOK
<1>2. LSInv' BY NextInv DEF SqlIInv
<1>3. SQTypeOK' BY <1>1 DEF SqlIInv, SQTypeOK
<1>4. Onward BY <1>2, <1>3 DEF Onward, lsVars
<1>5. \A r : Preempted(r) => Preempted(r)' BY <1>4, PreemptedStable
<1>6. MigrationInv(mig[m])'
  <2>1. /\ t.fp \subseteq idx' /\ t.listed \subseteq idx'
        /\ t.pc \in {"init", "copy", "migrated"} =>
              \A r \in t.listed \ t.todo : r \in main' \/ Preempted(r)'
        /\ t.pc = "migrated" =>
              \A r \in t.listed : r \in t.target \/ \E w \in SqlWriters : sw'[w].pc = "done"
    BY <1>5 DEF lsVars
  <2> QED BY <1>1, <2>1 DEF MigrationInv
<1>7. \A n \in Migrations : MigrationInv(mig[n])'
  <2> SUFFICES ASSUME NEW n \in Migrations PROVE MigrationInv(mig[n])' OBVIOUS
  <2>1. CASE n = m BY <1>6, <2>1
  <2>2. CASE n # m BY <1>1, <1>4, <2>2, RestingMigration
  <2> QED BY <2>1, <2>2
<1> QED BY <1>2, <1>3, <1>4, <1>7, ProvenanceStable, RestingCopies DEF SqlIInv

LEMMA MigrationStep ==
    ASSUME SqlIInv, NEW m \in Migrations,
           \/ MigrateCheck(m) \/ MigrateList(m) \/ MigrateInit(m)
           \/ MigrateRecord(m) \/ MigrateReport(m) \/ MigrateFails(m)
    PROVE  SqlIInv'
<1> DEFINE o == mig[m]
<1>0. /\ o \in MigrationType /\ MigrationInv(o) /\ idx \subseteq Rows /\ main \subseteq Rows
      /\ db \in [Stores -> DbType] /\ UNCHANGED <<lsVars, sw, cp>> /\ "main" \in Stores
  BY DEF SqlIInv, LSInv, LSTypeOK, SQTypeOK, MigrateCheck, MigrateList, MigrateInit,
         MigrateRecord, MigrateReport, MigrateFails, main, DbType, Stores
<1>1. ASSUME NEW pc \in {"refused", "failed"}, MoveTo(m, [mig[m] EXCEPT !.pc = pc]),
             UNCHANGED db
      PROVE  SqlIInv'
  <2> DEFINE t == [mig[m] EXCEPT !.pc = pc]
  <2>1. t \in MigrationType /\ t.pc = pc /\ t.fp = o.fp /\ t.listed = o.listed /\ t.todo = o.todo
    BY <1>0 DEF MigrationType
  <2> HIDE DEF t
  <2>2. MoveTo(m, t) BY <1>1 DEF t
  <2>3. main' = main BY <1>1 DEF main
  <2> QED BY <1>0, <1>1, <2>1, <2>2, <2>3, MigrationMoves DEF MigrationInv
<1>2. CASE MigrateCheck(m)
  <2>1. CASE MoveTo(m, [mig[m] EXCEPT !.pc = "refused"])
    BY <1>1, <1>2, <2>1 DEF MigrateCheck
  <2>2. CASE MoveTo(m, [mig[m] EXCEPT !.pc = "list", !.fp = idx])
    <3> DEFINE t == [mig[m] EXCEPT !.pc = "list", !.fp = idx]
    <3>1. t \in MigrationType /\ t.pc = "list" /\ t.fp = idx /\ t.listed = o.listed /\ t.todo = o.todo
      BY <1>0 DEF MigrationType
    <3> HIDE DEF t
    <3>2. MoveTo(m, t) BY <2>2 DEF t
    <3>3. main' = main /\ UNCHANGED db BY <1>2 DEF main, MigrateCheck
    <3> QED BY <1>0, <3>1, <3>2, <3>3, MigrationMoves DEF MigrationInv
  <2> QED BY <1>2, <2>1, <2>2 DEF MigrateCheck
<1>3. CASE MigrateList(m)
  <2>1. CASE MoveTo(m, [mig[m] EXCEPT !.pc = "failed"])
    BY <1>1, <1>3, <2>1 DEF MigrateList
  <2>2. CASE MoveTo(m, [mig[m] EXCEPT !.pc = "init", !.listed = idx, !.todo = idx])
    <3> DEFINE t == [mig[m] EXCEPT !.pc = "init", !.listed = idx, !.todo = idx]
    <3>1. t \in MigrationType /\ t.pc = "init" /\ t.fp = o.fp /\ t.listed = idx /\ t.todo = idx
      BY <1>0 DEF MigrationType
    <3> HIDE DEF t
    <3>2. MoveTo(m, t) BY <2>2 DEF t
    <3>3. main' = main /\ UNCHANGED db BY <1>3 DEF main, MigrateList
    <3> QED BY <1>0, <3>1, <3>2, <3>3, MigrationMoves DEF MigrationInv
  <2> QED BY <1>3, <2>1, <2>2 DEF MigrateList
<1>4. ASSUME NEW f \in {"empty", "ready", "none"}, db' = [db EXCEPT !["main"].file = f]
      PROVE  /\ db' \in [Stores -> DbType] /\ main' = main
             /\ \A s \in Stores \ {"main"} : db'[s] = db[s]
  <2> DEFINE d == [db["main"] EXCEPT !.file = f]
  <2>1. db' = [db EXCEPT !["main"] = d] BY <1>4
  <2>2. d \in DbType /\ d.rows = main BY <1>0 DEF DbType, main
  <2> HIDE DEF d
  <2> QED BY <1>0, <2>1, <2>2 DEF main
<1>5. CASE MigrateInit(m)
  <2> DEFINE t == [mig[m] EXCEPT !.pc = "copy"]
  <2>0. o.pc = "init" /\ db' = [db EXCEPT !["main"].file = "ready"] /\ MoveTo(m, t)
    BY <1>5 DEF MigrateInit
  <2>1. t \in MigrationType /\ t.pc = "copy" /\ t.fp = o.fp /\ t.listed = o.listed /\ t.todo = o.todo
    BY <1>0 DEF MigrationType
  <2> HIDE DEF t
  <2>2. /\ o.fp \subseteq o.listed
        /\ \A r \in o.listed \ o.todo : r \in main \/ Preempted(r)
    BY <1>0, <2>0 DEF MigrationInv
  <2> QED BY <1>0, <1>4, <2>0, <2>1, <2>2, MigrationMoves DEF MigrationInv
<1>6. CASE MigrateRecord(m)
  <2>1. PICK r \in o.todo :
          /\ db' = [db EXCEPT !["main"].rows = Inserted(@, MigratedRow(r))]
          /\ MoveTo(m, [mig[m] EXCEPT !.todo = @ \ {r}])
    BY <1>6 DEF MigrateRecord
  <2> DEFINE t == [mig[m] EXCEPT !.todo = @ \ {r}]
             rows == Inserted(main, r)
             d == [db["main"] EXCEPT !.rows = rows]
  <2>0. o.pc = "copy" BY <1>6 DEF MigrateRecord
  <2>2. r \in idx /\ r \in Rows BY <1>0 DEF MigrationInv
  <2>3. main \subseteq rows /\ rows \subseteq main \cup {r} BY DEF Inserted
  <2>4. db' = [db EXCEPT !["main"] = d] BY <2>1 DEF MigratedRow, main
  <2>5. r \in rows \/ Preempted(r)
    <3>1. CASE Registered(main, r)
      <4>1. PICK x \in main : x.src = r.src /\ x.ver = r.ver BY <3>1 DEF Registered
      <4>2. CASE x \in idx
        <5>1. x = r BY <2>2, <4>1, <4>2 DEF SqlIInv, LSInv, VersionsUnique
        <5> QED BY <2>3, <5>1
      <4>3. CASE DirectlyRegistered(x)
        <5>1. PICK w \in SqlWriters : sw[w].pc = "done" /\ Row(sw[w]) = x
          BY <4>3 DEF DirectlyRegistered
        <5>2. sw[w].src = x.src /\ sw[w].ver = x.ver BY <5>1 DEF Row
        <5> QED BY <4>1, <5>1, <5>2 DEF Preempted, main
      <4> QED BY <4>2, <4>3 DEF SqlIInv, Provenance
    <3>2. CASE ~Registered(main, r) BY <3>2 DEF Inserted
    <3> QED BY <3>1, <3>2
  <2> HIDE DEF rows
  <2>6. d \in DbType /\ d.rows = rows
    <3>1. db["main"] \in DbType /\ rows \in SUBSET Rows BY <1>0, <2>2, <2>3
    <3> QED BY <3>1 DEF DbType
  <2> HIDE DEF d
  <2>7. /\ db' \in [Stores -> DbType] /\ main' = rows
        /\ \A s \in Stores \ {"main"} : db'[s] = db[s]
    BY <1>0, <2>4, <2>6 DEF main
  <2>8. t \in MigrationType /\ t.pc = "copy" /\ t.fp = o.fp /\ t.listed = o.listed
        /\ t.todo = o.todo \ {r}
    BY <1>0, <2>0 DEF MigrationType
  <2> HIDE DEF t
  <2>9. \A q \in t.listed \ t.todo : q \in main' \/ Preempted(q)
    <3> SUFFICES ASSUME NEW q \in t.listed \ t.todo PROVE q \in main' \/ Preempted(q) OBVIOUS
    <3>1. CASE q = r BY <2>5, <2>7, <3>1
    <3>2. CASE q # r BY <1>0, <2>0, <2>3, <2>7, <2>8, <3>2 DEF MigrationInv
    <3> QED BY <3>1, <3>2
  <2>10. MoveTo(m, t) BY <2>1 DEF t
  <2>11. main \subseteq main' /\ main' \subseteq main \cup idx BY <2>2, <2>3, <2>7
  <2>12. /\ t.fp \subseteq idx /\ t.listed \subseteq idx /\ t.todo \subseteq t.listed
         /\ t.fp \subseteq t.listed /\ t.pc # "migrated"
    BY <1>0, <2>0, <2>8 DEF MigrationInv
  <2> QED BY <1>0, <2>7, <2>8, <2>9, <2>10, <2>11, <2>12, MigrationMoves
<1>7. CASE MigrateReport(m)
  <2> DEFINE t == [mig[m] EXCEPT !.pc = "migrated", !.target = main]
  <2>0. o.pc = "copy" /\ o.todo = {} /\ MoveTo(m, t) /\ UNCHANGED db
    BY <1>7 DEF MigrateReport, main
  <2>1. t \in MigrationType /\ t.pc = "migrated" /\ t.fp = o.fp /\ t.listed = o.listed
        /\ t.todo = {} /\ t.target = main
    BY <1>0, <2>0 DEF MigrationType
  <2> HIDE DEF t
  <2>2. main' = main BY <2>0 DEF main
  <2>3. \A r \in t.listed : r \in main \/ Preempted(r)
    BY <1>0, <2>0, <2>1 DEF MigrationInv
  <2>4. \A r \in t.listed : r \in t.target \/ \E w \in SqlWriters : sw[w].pc = "done"
    BY <2>1, <2>3 DEF Preempted
  <2> QED BY <1>0, <2>0, <2>1, <2>2, <2>3, <2>4, MigrationMoves DEF MigrationInv
<1>8. CASE MigrateFails(m)
  <2>1. CASE UNCHANGED db BY <1>1, <1>8, <2>1 DEF MigrateFails
  <2>2. CASE db' = [db EXCEPT !["main"].file = Abandoned("main")]
    <3> DEFINE t == [mig[m] EXCEPT !.pc = "failed"]
    <3>1. t \in MigrationType /\ t.pc = "failed" /\ t.fp = o.fp /\ t.listed = o.listed /\ t.todo = o.todo
      BY <1>0 DEF MigrationType
    <3> HIDE DEF t
    <3>2. MoveTo(m, t) BY <1>8 DEF t, MigrateFails
    <3>3. Abandoned("main") \in {"empty", "ready", "none"}
      BY <1>0 DEF Abandoned, DbType
    <3>4. /\ db' \in [Stores -> DbType] /\ main' = main
          /\ \A s \in Stores \ {"main"} : db'[s] = db[s]
      BY <1>4, <2>2, <3>3
    <3> QED BY <1>0, <3>1, <3>2, <3>4, MigrationMoves DEF MigrationInv
  <2> QED BY <1>8, <2>1, <2>2 DEF MigrateFails
<1> QED BY <1>2, <1>3, <1>5, <1>6, <1>7, <1>8

\* A copy moves, and leaves what is in every destination it does not share.
LEMMA CopyMoves ==
    ASSUME SqlIInv, NEW c \in Copies, NEW k \in CopyType, cp' = [cp EXCEPT ![c] = k],
           db' \in [Stores -> DbType], UNCHANGED <<lsVars, sw, mig>>,
           \A s \in Stores : s # To[c] => db'[s].rows = db[s].rows,
           cp[c].pc # "verified",
           cp[c].pc \notin {"check", "refused"} \/ db'[To[c]].rows = db[To[c]].rows,
           cp[c].pc \notin {"check", "refused"} => k.pc \notin {"check", "refused"},
           k.pc = "verified" => db'[To[c]].rows = k.fp
    PROVE  SqlIInv'
<1>0. To[c] \in Stores /\ To[c] # "main" /\ "main" \in Stores
      /\ \A d \in Copies : To[d] \in Stores
  BY CopiesAssumption DEF Stores
<1>1. LSInv' BY NextInv DEF SqlIInv
<1>2. /\ cp' \in [Copies -> CopyType] /\ cp'[c] = k
      /\ \A d \in Copies \ {c} : cp'[d] = cp[d]
  BY DEF SqlIInv, SQTypeOK
<1>3. SQTypeOK' BY <1>2 DEF SqlIInv, SQTypeOK
<1>4. main' = main BY <1>0 DEF main
<1>5. Onward BY <1>1, <1>3, <1>4 DEF Onward, lsVars
<1>6. \A m \in Migrations : MigrationInv(mig[m])' BY <1>5, RestingMigration
<1>7. VerifiedCopyKept'
  <2> SUFFICES ASSUME NEW d \in Copies, cp'[d].pc = "verified"
               PROVE  db'[To[d]].rows = cp'[d].fp \/ Rival(d)'
    BY DEF VerifiedCopyKept
  <2>1. CASE d = c BY <1>2, <2>1
  <2>2. CASE d # c
    <3>1. cp[d].pc = "verified" /\ cp'[d] = cp[d] BY <1>2, <2>2
    <3>2. db[To[d]].rows = cp[d].fp \/ Rival(d) BY <3>1 DEF SqlIInv, VerifiedCopyKept
    <3>3. Rival(d) => Rival(d)' BY <1>2 DEF Rival
    <3>4. CASE To[d] = To[c] /\ cp[c].pc \notin {"check", "refused"}
      BY <1>2, <2>2, <3>4 DEF Rival
    <3>5. CASE ~(To[d] = To[c] /\ cp[c].pc \notin {"check", "refused"})
      BY <1>0, <3>1, <3>2, <3>3, <3>5
    <3> QED BY <3>4, <3>5
  <2> QED BY <2>1, <2>2
<1> QED BY <1>1, <1>3, <1>5, <1>6, <1>7, ProvenanceStable DEF SqlIInv

LEMMA CopyStep ==
    ASSUME SqlIInv, NEW c \in Copies,
           CopyCheck(c) \/ CopySnapshot(c) \/ CopyVerify(c) \/ CopyFails(c)
    PROVE  SqlIInv'
<1> DEFINE o == cp[c]
<1>0. /\ cp \in [Copies -> CopyType] /\ o \in CopyType /\ db \in [Stores -> DbType]
      /\ UNCHANGED <<lsVars, sw, mig>> /\ From[c] \in Stores /\ To[c] \in Stores
  BY CopiesAssumption
     DEF SqlIInv, SQTypeOK, CopyCheck, CopySnapshot, CopyVerify, CopyFails
<1>1. \A p \in {"refused", "verify", "verified", "mismatch", "failed"} :
          LET k == [cp[c] EXCEPT !.pc = p]
          IN  k \in CopyType /\ k.pc = p /\ k.fp = o.fp
  BY <1>0 DEF CopyType
<1>2. CASE CopyCheck(c)
  <2>0. o.pc = "check" /\ UNCHANGED db BY <1>2 DEF CopyCheck
  <2>1. CASE cp' = [cp EXCEPT ![c] = [pc |-> "copy", fp |-> db[From[c]].rows]]
    <3> DEFINE k == [pc |-> "copy", fp |-> db[From[c]].rows]
    <3>1. k \in CopyType /\ k.pc = "copy" BY <1>0 DEF CopyType, DbType
    <3>2. cp' = [cp EXCEPT ![c] = k] BY <2>1
    <3> HIDE DEF k
    <3> QED BY <1>0, <2>0, <3>1, <3>2, CopyMoves
  <2>2. CASE cp' = [cp EXCEPT ![c].pc = "refused"]
    <3> DEFINE k == [cp[c] EXCEPT !.pc = "refused"]
    <3>1. k \in CopyType /\ k.pc = "refused" BY <1>1
    <3>2. cp' = [cp EXCEPT ![c] = k] BY <2>2
    <3> HIDE DEF k
    <3> QED BY <1>0, <2>0, <3>1, <3>2, CopyMoves
  <2> QED BY <1>2, <2>1, <2>2 DEF CopyCheck
<1>3. CASE CopySnapshot(c)
  <2> DEFINE k == [cp[c] EXCEPT !.pc = "verify"]
             d == db[From[c]]
  <2>1. k \in CopyType /\ k.pc = "verify" BY <1>1
  <2>2. o.pc = "copy" /\ cp' = [cp EXCEPT ![c] = k] /\ db' = [db EXCEPT ![To[c]] = d]
    BY <1>3 DEF CopySnapshot
  <2>3. d \in DbType BY <1>0
  <2> HIDE DEF k, d
  <2>4. db' \in [Stores -> DbType] /\ \A s \in Stores : s # To[c] => db'[s].rows = db[s].rows
    BY <1>0, <2>2, <2>3
  <2> QED BY <1>0, <2>1, <2>2, <2>4, CopyMoves
<1>4. CASE CopyVerify(c)
  <2>0. o.pc = "verify" /\ UNCHANGED db BY <1>4 DEF CopyVerify
  <2>1. PICK p \in {"verified", "mismatch"} :
          cp' = [cp EXCEPT ![c].pc = p] /\ (p = "verified" => db[To[c]].rows = o.fp)
    BY <1>4 DEF CopyVerify, CopyMatches
  <2> DEFINE k == [cp[c] EXCEPT !.pc = p]
  <2>2. k \in CopyType /\ k.pc = p /\ k.fp = o.fp BY <1>1
  <2>3. cp' = [cp EXCEPT ![c] = k] BY <2>1
  <2> HIDE DEF k
  <2> QED BY <1>0, <2>0, <2>1, <2>2, <2>3, CopyMoves
<1>5. CASE CopyFails(c)
  <2> DEFINE k == [cp[c] EXCEPT !.pc = "failed"]
  <2>0. o.pc \in {"copy", "verify"} /\ cp' = [cp EXCEPT ![c] = k] BY <1>5 DEF CopyFails
  <2>1. k \in CopyType /\ k.pc = "failed" BY <1>1
  <2> HIDE DEF k
  <2>2. db' \in [Stores -> DbType] /\ \A s \in Stores : db'[s].rows = db[s].rows
    <3>1. CASE UNCHANGED db BY <1>0, <3>1
    <3>2. CASE db' = [db EXCEPT ![To[c]].file = Abandoned(To[c])]
      <4>1. PICK f \in {"none", "empty", "ready"} : f = Abandoned(To[c])
        BY <1>0 DEF Abandoned, DbType
      <4> DEFINE d == [db[To[c]] EXCEPT !.file = f]
      <4>2. db' = [db EXCEPT ![To[c]] = d] BY <3>2, <4>1
      <4>3. d \in DbType /\ d.rows = db[To[c]].rows BY <1>0 DEF DbType
      <4> HIDE DEF d
      <4> QED BY <1>0, <4>2, <4>3
    <3> QED BY <1>5, <3>1, <3>2 DEF CopyFails
  <2> QED BY <1>0, <2>0, <2>1, <2>2, CopyMoves
<1> QED BY <1>2, <1>3, <1>4, <1>5

LEMMA SqlStable ==
    ASSUME SqlIInv, [Next]_vars PROVE SqlIInv'
<1>1. CASE LSNext /\ UNCHANGED sqVars BY <1>1, JsonStep
<1>2. CASE \E w \in SqlWriters : SqlCapture(w) \/ SqlCommit(w)
  BY <1>2, RegistrationStep
<1>3. CASE \E m \in Migrations :
              \/ MigrateCheck(m) \/ MigrateList(m) \/ MigrateInit(m)
              \/ MigrateRecord(m) \/ MigrateReport(m) \/ MigrateFails(m)
  BY <1>3, MigrationStep
<1>4. CASE \E c \in Copies :
              CopyCheck(c) \/ CopySnapshot(c) \/ CopyVerify(c) \/ CopyFails(c)
  BY <1>4, CopyStep
<1>5. CASE UNCHANGED vars
  <2>1. UNCHANGED lsVars /\ UNCHANGED sqVars BY <1>5 DEF vars
  <2> QED BY <2>1, JsonStep
<1> QED BY <1>1, <1>2, <1>3, <1>4, <1>5 DEF Next

\* The inductive invariant of the two stores, the migrations and the copies.
THEOREM SqlInvariant == Spec => []SqlIInv
BY SqlInitial, SqlStable, PTL DEF Spec

\* A migration that reports MIGRATED has lost nothing it listed, however many other
\* migrations and registrations ran into the same target beside it or died there,
\* and it reports the source's fingerprint when no registration came between.
THEOREM MigrationsKeepHistory == Spec => []MigratedHistoryKept
<1>1. ASSUME SqlIInv PROVE MigratedHistoryKept
  <2> SUFFICES ASSUME NEW m \in Migrations, mig[m].pc = "migrated"
               PROVE  /\ \A r \in mig[m].listed : r \in db["main"].rows \/ Preempted(r)
                      /\ (idx = mig[m].fp /\ \A w \in SqlWriters : sw[w].pc # "done") =>
                            mig[m].target = mig[m].fp
    BY DEF MigratedHistoryKept
  <2>1. MigrationInv(mig[m]) BY <1>1 DEF SqlIInv
  <2>2. \A r \in mig[m].listed : r \in db["main"].rows \/ Preempted(r)
    BY <2>1 DEF MigrationInv, main
  <2>3. ASSUME idx = mig[m].fp, \A w \in SqlWriters : sw[w].pc # "done"
        PROVE  mig[m].target = mig[m].fp
    <3>1. mig[m].target \subseteq idx
      BY <1>1, <2>1, <2>3 DEF MigrationInv, SqlIInv, Provenance, DirectlyRegistered
    <3>2. mig[m].fp \subseteq mig[m].listed /\ mig[m].listed \subseteq mig[m].target
      BY <2>1, <2>3 DEF MigrationInv
    <3> QED BY <2>3, <3>1, <3>2
  <2> QED BY <2>2, <2>3
<1> QED BY <1>1, SqlInvariant, PTL

\* What BACKUP_VERIFIED and RESTORE_VERIFIED reported stays true whatever the
\* writers, the migrations and the copies to other destinations do afterwards.
THEOREM VerifiedCopiesStay == Spec => []VerifiedCopyKept
<1>1. SqlIInv => VerifiedCopyKept BY DEF SqlIInv
<1> QED BY <1>1, SqlInvariant, PTL
===========================================================================
