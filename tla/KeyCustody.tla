---------------------------- MODULE KeyCustody ----------------------------
(***************************************************************************)
(* Keys and what they protect: the per-domain key files                    *)
(* (pmiri/privacy.py, DpapiKeyProvider), the encrypted traces              *)
(* (EncryptedTraceStore) and the versioned blob cipher                     *)
(* (pmiri/storage_crypto.py, AesGcmBlobCipher).                            *)
(*                                                                         *)
(* A caller makes one call.  Captures, reads, encryptions, decryptions and *)
(* rotations all go through get_key,                                       *)
(*                                                                         *)
(*   lock -> look [-> store] -> release -> keyed                           *)
(*                                                                         *)
(* and continue at "keyed" with what they do with the key.  Callers are    *)
(* threads of one process, which share the cipher object, or processes.    *)
(* A key is the number of its generation; a ciphertext is the key it was   *)
(* made with, and AES-GCM opens it with that key only.                     *)
(***************************************************************************)
EXTENDS Integers

CONSTANTS
    Callers,    \* calls
    Free,       \* no caller: the lock of a key file is free
    Versions,   \* key versions of the cipher
    FirstVersion, \* current_key_version the cipher is built with
    Ttl,        \* ttl_seconds of the retention policy
    MaxClock,   \* bound: the last second of the model's clock
    MaxDamage   \* bound: files damaged from outside

ASSUME CustodyAssumption ==
    /\ Free \notin Callers
    /\ FirstVersion \in Versions /\ "TRACE" \notin Versions
    /\ Ttl \in Nat \ {0}     \* TraceRetentionPolicy.validate
    /\ MaxClock \in Nat /\ MaxDamage \in Nat

Trace == "TRACE"                      \* policy.key_domain
Domains == {Trace} \cup Versions      \* STORE_BLOB_<version> for the cipher

VARIABLES
    keyFile,   \* per domain: 0 no file, -1 a damaged record, or the key
    keyLock,   \* per domain: who holds the thread lock and the file lock
    minted,    \* number of keys generated
    trace,     \* per capturing caller: its trace file
    cur, accepted,      \* current_key_version, accepted_key_versions
    escrowed,  \* <<version, key>> the escrow adapter was notified of
    blobs,     \* envelopes the cipher returned
    call, clock, damage,
    overlap    \* history: two rotations assigned at the same time

keyVars == <<keyFile, keyLock, minted>>
cipherVars == <<cur, accepted, escrowed, blobs, overlap>>
vars == <<keyVars, trace, cipherVars, call, clock, damage>>

NoTrace == [file |-> "none", key |-> 0, exp |-> 0]

Kinds == {"capture", "read", "purge", "encrypt", "decrypt", "rotate"}

\* todo is a purge's file list, removed the files its result counts, old a
\* rotation's copy of accepted_key_versions.
NewCall(k) ==
    [kind |-> k, pc |-> "start", res |-> "none", dom |-> Trace, key |-> 0, time |-> 0,
     target |-> NoTrace, id |-> Free, todo |-> {}, removed |-> {}, old |-> {}]

Init ==
    /\ keyFile = [d \in Domains |-> 0]
    /\ keyLock = [d \in Domains |-> Free]
    /\ minted = 0
    /\ trace = [c \in Callers |-> NoTrace]
    /\ cur = FirstVersion /\ accepted = {FirstVersion}
    /\ escrowed = {} /\ blobs = {} /\ overlap = FALSE
    /\ call \in [Callers -> {NewCall(k) : k \in Kinds}]
    /\ clock = 0 /\ damage = 0

At(c, kind, pc) == call[c].kind = kind /\ call[c].pc = pc
Become(c, t) == call' = [call EXCEPT ![c] = t]
End(c, r) == Become(c, [call[c] EXCEPT !.pc = "done", !.res = r])

---------------------------------------------------------------------------
(* DpapiKeyProvider.get_key                                                *)

\* Defect for mutation: the file lock is opened but not taken.
LockKey_Open(c) ==
    /\ call[c].pc = "lock"
    /\ keyLock' = [keyLock EXCEPT ![call[c].dom] = c]
    /\ Become(c, [call[c] EXCEPT !.pc = "look"])
    /\ UNCHANGED <<keyFile, minted, trace, cipherVars, clock, damage>>

\* _key_file_lock
LockKey(c) ==
    /\ call[c].pc = "lock"
    /\ keyLock[call[c].dom] = Free
    /\ keyLock' = [keyLock EXCEPT ![call[c].dom] = c]
    /\ Become(c, [call[c] EXCEPT !.pc = "look"])
    /\ UNCHANGED <<keyFile, minted, trace, cipherVars, clock, damage>>

Unlocked(c) == [d \in Domains |-> IF keyLock[d] = c THEN Free ELSE keyLock[d]]

\* An existing record is validated and unprotected, or the call fails; without
\* one a key is generated.
LookKey(c) ==
    /\ call[c].pc = "look"
    /\ \/ /\ keyFile[call[c].dom] > 0
          /\ Become(c, [call[c] EXCEPT !.pc = "release", !.key = keyFile[call[c].dom]])
          /\ UNCHANGED <<keyLock, minted>>
       \/ /\ keyFile[call[c].dom] = -1
          /\ keyLock' = Unlocked(c)
          /\ End(c, "failed")
          /\ UNCHANGED minted
       \/ /\ keyFile[call[c].dom] = 0
          /\ minted' = minted + 1
          /\ Become(c, [call[c] EXCEPT !.pc = "store", !.key = minted + 1])
          /\ UNCHANGED keyLock
    /\ UNCHANGED <<keyFile, trace, cipherVars, clock, damage>>

\* The record is written to a temporary file and renamed into place.
StoreKey(c) ==
    /\ call[c].pc = "store"
    /\ keyFile' = [keyFile EXCEPT ![call[c].dom] = call[c].key]
    /\ Become(c, [call[c] EXCEPT !.pc = "release"])
    /\ UNCHANGED <<keyLock, minted, trace, cipherVars, clock, damage>>

ReleaseKey(c) ==
    /\ call[c].pc = "release"
    /\ keyLock' = Unlocked(c)
    /\ Become(c, [call[c] EXCEPT !.pc = "keyed"])
    /\ UNCHANGED <<keyFile, minted, trace, cipherVars, clock, damage>>

\* DPAPI, the file system or the escrow adapter fails, or the process dies; the
\* locks are released by the finally clause or the operating system.
Fail(c) ==
    /\ call[c].pc \in {"lock", "look", "store", "release", "keyed"}
    /\ keyLock' = Unlocked(c)
    /\ Become(c, [call[c] EXCEPT !.pc = "done", !.res = "failed", !.key = 0])
    /\ UNCHANGED <<keyFile, minted, trace, cipherVars, clock, damage>>

---------------------------------------------------------------------------
(* EncryptedTraceStore                                                     *)

Expired(now, t) == now >= t.exp

\* The policy may be disabled and the role or the payload refused; captured_at
\* is read before the key.
CaptureStart(c) ==
    /\ At(c, "capture", "start")
    /\ \/ End(c, "refused")
       \/ Become(c, [call[c] EXCEPT !.pc = "lock", !.time = clock])
    /\ UNCHANGED <<keyVars, trace, cipherVars, clock, damage>>

\* Encrypt, write a temporary file, rename: RECORDED.
CaptureWrite(c) ==
    /\ At(c, "capture", "keyed")
    /\ trace' = [trace EXCEPT ![c] = [file |-> "good", key |-> call[c].key,
                                      exp |-> call[c].time + Ttl]]
    /\ End(c, "recorded")
    /\ UNCHANGED <<keyVars, cipherVars, clock, damage>>

\* read is given the id of a recorded trace; the role may be refused.
ReadStart(c) ==
    /\ At(c, "read", "start")
    /\ \E i \in Callers :
         /\ call[i].res = "recorded"
         /\ \/ End(c, "refused")
            \/ Become(c, [call[c] EXCEPT !.pc = "open", !.id = i])
    /\ UNCHANGED <<keyVars, trace, cipherVars, clock, damage>>

ReadOpen(c) ==
    /\ At(c, "read", "open")
    /\ LET t == trace[call[c].id] IN
         CASE t.file = "none" -> End(c, "not_found")
           [] t.file = "bad"  -> End(c, "invalid")
           [] OTHER -> Become(c, [call[c] EXCEPT !.pc = "judge", !.target = t])
    /\ UNCHANGED <<keyVars, trace, cipherVars, clock, damage>>

\* Defect for mutation: a trace is still served in the second it expires.
ReadJudge_Inclusive(c) ==
    /\ At(c, "read", "judge")
    /\ IF clock > call[c].target.exp
       THEN End(c, "expired")
       ELSE Become(c, [call[c] EXCEPT !.pc = "lock", !.time = clock])
    /\ UNCHANGED <<keyVars, trace, cipherVars, clock, damage>>

ReadJudge(c) ==
    /\ At(c, "read", "judge")
    /\ IF Expired(clock, call[c].target)
       THEN End(c, "expired")
       ELSE Become(c, [call[c] EXCEPT !.pc = "lock", !.time = clock])
    /\ UNCHANGED <<keyVars, trace, cipherVars, clock, damage>>

ReadDecrypt(c) ==
    /\ At(c, "read", "keyed")
    /\ End(c, IF call[c].key = call[c].target.key THEN "payload" ELSE "invalid")
    /\ UNCHANGED <<keyVars, trace, cipherVars, clock, damage>>

Files == {i \in Callers : trace[i].file # "none"}

\* current and the list of files are read once.
PurgeStart(c) ==
    /\ At(c, "purge", "start")
    /\ Become(c, [call[c] EXCEPT !.pc = "next", !.time = clock, !.todo = Files])
    /\ UNCHANGED <<keyVars, trace, cipherVars, clock, damage>>

\* One file is read; one that is gone, damaged or not expired is skipped.
PurgeRead(c) ==
    /\ At(c, "purge", "next")
    /\ \E i \in call[c].todo :
         LET rest == [call[c] EXCEPT !.todo = @ \ {i}] IN
         IF trace[i].file = "good" /\ Expired(call[c].time, trace[i])
         THEN Become(c, [rest EXCEPT !.pc = "unlink", !.id = i])
         ELSE Become(c, rest)
    /\ UNCHANGED <<keyVars, trace, cipherVars, clock, damage>>

\* unlink raises when another purge was faster, and the file is not counted.
PurgeUnlink(c) ==
    /\ At(c, "purge", "unlink")
    /\ trace' = [trace EXCEPT ![call[c].id].file = "none"]
    /\ Become(c, [call[c] EXCEPT !.pc = "next",
                  !.removed = @ \cup ({call[c].id} \cap Files)])
    /\ UNCHANGED <<keyVars, cipherVars, clock, damage>>

PurgeEnd(c) ==
    /\ At(c, "purge", "next") /\ call[c].todo = {}
    /\ End(c, "purged")
    /\ UNCHANGED <<keyVars, trace, cipherVars, clock, damage>>

---------------------------------------------------------------------------
(* AesGcmBlobCipher                                                        *)

\* Defect for mutation: the version is left out of the key's domain.
EncryptStart_BareDomain(c) ==
    /\ At(c, "encrypt", "start")
    /\ Become(c, [call[c] EXCEPT !.pc = "lock", !.dom = Trace])
    /\ UNCHANGED <<keyVars, trace, cipherVars, clock, damage>>

\* The version is read once, before the key.
EncryptStart(c) ==
    /\ At(c, "encrypt", "start")
    /\ Become(c, [call[c] EXCEPT !.pc = "lock", !.dom = cur])
    /\ UNCHANGED <<keyVars, trace, cipherVars, clock, damage>>

EncryptEnd(c) ==
    /\ At(c, "encrypt", "keyed")
    /\ blobs' = blobs \cup {[ver |-> call[c].dom, key |-> call[c].key]}
    /\ End(c, "sealed")
    /\ UNCHANGED <<keyVars, trace, cur, accepted, escrowed, overlap, clock, damage>>

\* The envelope's version must be an accepted one.
DecryptStart(c) ==
    /\ At(c, "decrypt", "start")
    /\ \E b \in blobs :
         IF b.ver \in accepted
         THEN Become(c, [call[c] EXCEPT !.pc = "lock", !.dom = b.ver,
                                        !.target = [NoTrace EXCEPT !.key = b.key]])
         ELSE End(c, "not_accepted")
    /\ UNCHANGED <<keyVars, trace, cipherVars, clock, damage>>

DecryptEnd(c) ==
    /\ At(c, "decrypt", "keyed")
    /\ End(c, IF call[c].key = call[c].target.key THEN "plaintext" ELSE "invalid")
    /\ UNCHANGED <<keyVars, trace, cipherVars, clock, damage>>

\* rotate probes the key of the new version first.
RotateStart(c) ==
    /\ At(c, "rotate", "start")
    /\ \E v \in Versions : Become(c, [call[c] EXCEPT !.pc = "lock", !.dom = v])
    /\ UNCHANGED <<keyVars, trace, cipherVars, clock, damage>>

\* Defect for mutation: a failing escrow does not stop the rotation.
RotateEscrow_Ignored(c) ==
    /\ At(c, "rotate", "keyed")
    /\ escrowed' \in {escrowed, escrowed \cup {<<call[c].dom, call[c].key>>}}
    /\ Become(c, [call[c] EXCEPT !.pc = "activate"])
    /\ UNCHANGED <<keyVars, trace, cur, accepted, blobs, overlap, clock, damage>>

\* The escrow adapter is told the version and the key's fingerprint; it may
\* raise although it has recorded them.
RotateEscrow(c) ==
    /\ At(c, "rotate", "keyed")
    /\ escrowed' = escrowed \cup {<<call[c].dom, call[c].key>>}
    /\ \/ Become(c, [call[c] EXCEPT !.pc = "activate"])
       \/ End(c, "failed")
    /\ UNCHANGED <<keyVars, trace, cur, accepted, blobs, overlap, clock, damage>>

Assigning == {c \in Callers : call[c].kind = "rotate" /\ call[c].pc \in {"accept", "assign"}}

\* self.current_key_version = new_key_version
RotateActivate(c) ==
    /\ At(c, "rotate", "activate")
    /\ cur' = call[c].dom
    /\ Become(c, [call[c] EXCEPT !.pc = "accept"])
    /\ overlap' = (overlap \/ Assigning # {})
    /\ UNCHANGED <<keyVars, trace, accepted, escrowed, blobs, clock, damage>>

\* Defect for mutation: the new version is accepted instead of the old ones.
RotateReadAccepted_Forgets(c) ==
    /\ At(c, "rotate", "accept")
    /\ Become(c, [call[c] EXCEPT !.pc = "assign", !.old = {}])
    /\ UNCHANGED <<keyVars, trace, cipherVars, clock, damage>>

\* set(self.accepted_key_versions) is read, and assigned in a later step.
RotateReadAccepted(c) ==
    /\ At(c, "rotate", "accept")
    /\ Become(c, [call[c] EXCEPT !.pc = "assign", !.old = accepted])
    /\ UNCHANGED <<keyVars, trace, cipherVars, clock, damage>>

RotateAccept(c) ==
    /\ At(c, "rotate", "assign")
    /\ accepted' = call[c].old \cup {call[c].dom}
    /\ End(c, "rotated")
    /\ UNCHANGED <<keyVars, trace, cur, escrowed, blobs, overlap, clock, damage>>

---------------------------------------------------------------------------
(* Environment                                                             *)

Tick ==
    /\ clock < MaxClock
    /\ clock' = clock + 1
    /\ UNCHANGED <<keyVars, trace, cipherVars, call, damage>>

\* A key record or a trace file is damaged from outside.
Damage ==
    /\ damage < MaxDamage
    /\ damage' = damage + 1
    /\ \/ \E d \in Domains : /\ keyFile[d] # 0
                             /\ keyFile' = [keyFile EXCEPT ![d] = -1]
                             /\ UNCHANGED trace
       \/ \E i \in Files : /\ trace' = [trace EXCEPT ![i].file = "bad"]
                           /\ UNCHANGED keyFile
    /\ UNCHANGED <<keyLock, minted, cipherVars, call, clock>>

GetKey(c) == LockKey(c) \/ LookKey(c) \/ StoreKey(c) \/ ReleaseKey(c) \/ Fail(c)

TraceStep(c) ==
    \/ CaptureStart(c) \/ CaptureWrite(c)
    \/ ReadStart(c) \/ ReadOpen(c) \/ ReadJudge(c) \/ ReadDecrypt(c)
    \/ PurgeStart(c) \/ PurgeRead(c) \/ PurgeUnlink(c) \/ PurgeEnd(c)

CipherStep(c) ==
    \/ EncryptStart(c) \/ EncryptEnd(c) \/ DecryptStart(c) \/ DecryptEnd(c)
    \/ RotateStart(c) \/ RotateEscrow(c) \/ RotateActivate(c)
    \/ RotateReadAccepted(c) \/ RotateAccept(c)

Next == Tick \/ Damage \/ \E c \in Callers : GetKey(c) \/ TraceStep(c) \/ CipherStep(c)

Spec == Init /\ [][Next]_vars

---------------------------------------------------------------------------
(* Properties                                                              *)

TraceFiles == [file : {"none", "good", "bad"}, key : Nat, exp : Nat]
PCs == {"start", "lock", "look", "store", "release", "keyed", "open", "judge",
        "next", "unlink", "activate", "accept", "assign", "done"}
Results == {"none", "refused", "failed", "recorded", "not_found", "expired", "invalid",
            "payload", "purged", "sealed", "not_accepted", "plaintext", "rotated"}
Calls ==
    [kind : Kinds, pc : PCs, res : Results,
     dom : Domains, key : Nat, time : 0..MaxClock, target : TraceFiles,
     id : Callers \cup {Free}, todo : SUBSET Callers, removed : SUBSET Callers,
     old : SUBSET Versions]

\* The types of all variables.
TypeOK ==
    /\ minted \in Nat
    /\ keyFile \in [Domains -> Nat \cup {-1}]
    /\ keyLock \in [Domains -> Callers \cup {Free}]
    /\ trace \in [Callers -> TraceFiles]
    /\ cur \in Versions /\ accepted \in SUBSET Versions
    /\ escrowed \in SUBSET (Versions \X Nat)
    /\ blobs \in SUBSET [ver : Versions, key : Nat]
    /\ overlap \in BOOLEAN
    /\ call \in [Callers -> Calls]
    /\ clock \in 0..MaxClock /\ damage \in 0..MaxDamage

Returned(c) == call[c].key # 0 /\ call[c].pc # "store"

\* get_key gives every caller of a domain, in whatever process and however many
\* callers die or fail while they create it, the same key, and no key is returned
\* that the key file does not keep unless the file was damaged (privacy.py, get_key).
KeyAgreement ==
    /\ \A c, d \in Callers :
         Returned(c) /\ Returned(d) /\ call[c].dom = call[d].dom => call[c].key = call[d].key
    /\ \A c \in Callers :
         Returned(c) => keyFile[call[c].dom] \in {call[c].key, -1}

\* What each caller was given: the key of its domain, from the moment get_key
\* has it in the file.
Given == [c \in Callers |-> IF Returned(c) THEN {<<call[c].dom, call[c].key>>} ELSE {}]

Vault == INSTANCE KeyVault WITH stored <- keyFile, given <- Given

\* Whatever the locks, failures and other callers in between, get_key behaves like
\* a register that is written once, with a key no other domain has, at the instant
\* its creator gets it, and that gives everyone after it the same key; a call that
\* fails or dies leaves the kept key in place, and a damaged record is an error and
\* never a reason for a second key (privacy.py, get_key).
ImplementsVault == Vault!VaultSpec

\* A recorded trace is served until it expires and not after: a read decrypts
\* only what was unexpired at its clock read, misses a recorded trace only once
\* it has expired, and finds an invalid one only after damage from outside, with
\* captures, purges and key creation by others in between (read, purge, capture).
TraceServedUntilExpiry ==
    \A c \in Callers : call[c].kind = "read" =>
        /\ call[c].res = "payload" => ~ Expired(call[c].time, call[c].target)
        /\ call[c].res = "not_found" => Expired(clock, trace[call[c].id])
        /\ call[c].res = "invalid" => damage > 0

\* Every blob sealed under a rotated version was sealed with a key whose
\* fingerprint had been escrowed, although the rotation and the encryption
\* fetched the key on their own (rotate, encrypt).
EscrowBeforeUse ==
    \A b \in blobs : b.ver # FirstVersion => <<b.ver, b.key>> \in escrowed

\* "retaining accepted old versions for readback": as long as no two rotations
\* overlapped, outside the two assignments of a rotation the cipher accepts the
\* version of every blob it sealed, and of every one it is sealing (rotate).
RotationKeepsBlobsOpenable ==
    ~ overlap /\ Assigning = {} =>
        /\ \A b \in blobs : b.ver \in accepted
        /\ \A c \in Callers :
             call[c].kind = "encrypt" /\ call[c].pc # "start" => call[c].dom \in accepted

===========================================================================
