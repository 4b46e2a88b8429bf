-------------------------- MODULE KeyCustodyProofs --------------------------
(***************************************************************************)
(* Proofs about KeyCustody, for any number of callers and versions, any    *)
(* retention time and any bounds.                                          *)
(***************************************************************************)
EXTENDS KeyCustody, TLAPS

\* The cipher's calls use the key of a version.
CipherDomain ==
    \A c \in Callers :
        call[c].kind \in {"encrypt", "decrypt", "rotate"} /\ call[c].pc \notin {"start", "done"}
            => call[c].dom \in Versions

\* A read that was begun, and a purge about to unlink, have a trace's id.
Identified ==
    \A c \in Callers :
        \/ call[c].kind = "read" /\ call[c].pc \notin {"start", "done"}
        \/ call[c].kind = "read" /\ call[c].res \in {"not_found", "expired", "invalid", "payload"}
        \/ call[c].pc = "unlink"
        => call[c].id \in Callers

TypeInv == TypeOK /\ CipherDomain /\ Identified

\* The initial state is well typed.
LEMMA InitType == Init => TypeInv
<1> SUFFICES ASSUME Init PROVE TypeInv
  OBVIOUS
<1>0. NoTrace \in TraceFiles
  BY DEF NoTrace, TraceFiles
<1>1. ASSUME NEW k \in Kinds
      PROVE NewCall(k) \in Calls /\ NewCall(k).pc = "start" /\ NewCall(k).res = "none"
  <2>1. Trace \in Domains /\ 0 \in 0..MaxClock /\ Free \in Callers \cup {Free}
    BY CustodyAssumption DEF Domains
  <2>2. QED
    BY <1>0, <2>1 DEF NewCall, Calls, PCs, Results
<1>2. call \in [Callers -> Calls] /\ \A c \in Callers : call[c].pc = "start" /\ call[c].res = "none"
  BY <1>1 DEF Init
<1>3. keyFile \in [Domains -> Nat \cup {-1}] /\ keyLock \in [Domains -> Callers \cup {Free}]
  BY DEF Init
<1>4. /\ minted \in Nat /\ trace \in [Callers -> TraceFiles]
      /\ cur \in Versions /\ accepted \in SUBSET Versions /\ overlap \in BOOLEAN
      /\ clock \in 0..MaxClock /\ damage \in 0..MaxDamage
  <2>1. 0 \in 0..MaxClock /\ 0 \in 0..MaxDamage /\ {FirstVersion} \in SUBSET Versions
    BY CustodyAssumption
  <2>2. QED
    BY <1>0, <2>1, CustodyAssumption DEF Init
<1>5. escrowed \in SUBSET (Versions \X Nat) /\ blobs \in SUBSET [ver : Versions, key : Nat]
  BY DEF Init
<1>6. CipherDomain /\ Identified
  BY <1>2 DEF CipherDomain, Identified
<1>7. QED
  BY <1>2, <1>3, <1>4, <1>5, <1>6 DEF TypeInv, TypeOK

\* Replacing one call by a well-typed one.
LEMMA BecomeType ==
    ASSUME call \in [Callers -> Calls], NEW c \in Callers, NEW t \in Calls, Become(c, t)
    PROVE  /\ call' \in [Callers -> Calls]
           /\ call'[c] = t
           /\ \A d \in Callers \ {c} : call'[d] = call[d]
BY DEF Become

\* Every step of a call leaves a call behind.
LEMMA StepCallType ==
    ASSUME TypeInv, NEW c \in Callers, GetKey(c) \/ TraceStep(c) \/ CipherStep(c)
    PROVE  call' \in [Callers -> Calls]
<1>0. call \in [Callers -> Calls] /\ call[c] \in Calls
  BY DEF TypeInv, TypeOK
<1>00. /\ call[c].dom \in Domains /\ call[c].key \in Nat /\ call[c].id \in Callers \cup {Free}
       /\ call[c].todo \in SUBSET Callers /\ call[c].removed \in SUBSET Callers
       /\ clock \in 0..MaxClock /\ keyFile[call[c].dom] \in Nat \cup {-1}
       /\ minted \in Nat /\ accepted \in SUBSET Versions /\ cur \in Domains
       /\ Files \in SUBSET Callers /\ trace \in [Callers -> TraceFiles]
  BY <1>0 DEF Calls, TypeInv, TypeOK, Domains, Files
<1> USE DEF PCs, Results
<1>000. \A r \in Results : [call[c] EXCEPT !.pc = "done", !.res = r] \in Calls
  BY <1>0, ZenonT(40) DEF Calls
<1>1. CASE LockKey(c)
  <2>1. [call[c] EXCEPT !.pc = "look"] \in Calls
    BY <1>0, <1>00 DEF Calls
  <2>2. QED
    BY <1>0, <1>000, <1>1, <2>1, BecomeType DEF LockKey, End
<1>2. CASE LookKey(c)
  <2>1. \A k \in Nat : /\ [call[c] EXCEPT !.pc = "release", !.key = k] \in Calls
                       /\ [call[c] EXCEPT !.pc = "store", !.key = k] \in Calls
    BY <1>0, ZenonT(40) DEF Calls
  <2>2. minted + 1 \in Nat /\ (keyFile[call[c].dom] > 0 => keyFile[call[c].dom] \in Nat)
    BY <1>00
  <2>3. QED
    BY <1>0, <1>00, <1>000, <1>2, <2>1, <2>2, BecomeType DEF LookKey, End
<1>3. CASE StoreKey(c)
  <2>1. [call[c] EXCEPT !.pc = "release"] \in Calls
    BY <1>0, <1>00 DEF Calls
  <2>2. QED
    BY <1>0, <1>000, <1>3, <2>1, BecomeType DEF StoreKey, End
<1>4. CASE ReleaseKey(c)
  <2>1. [call[c] EXCEPT !.pc = "keyed"] \in Calls
    BY <1>0, <1>00 DEF Calls
  <2>2. QED
    BY <1>0, <1>000, <1>4, <2>1, BecomeType DEF ReleaseKey, End
<1>5. CASE Fail(c)
  <2>1. [call[c] EXCEPT !.pc = "done", !.res = "failed", !.key = 0] \in Calls
    BY <1>0, <1>00 DEF Calls
  <2>2. QED
    BY <1>0, <1>000, <1>5, <2>1, BecomeType DEF Fail, End
<1>6. CASE CaptureStart(c)
  <2>1. [call[c] EXCEPT !.pc = "lock", !.time = clock] \in Calls
    BY <1>0, <1>00 DEF Calls
  <2>2. QED
    BY <1>0, <1>000, <1>6, <2>1, BecomeType DEF CaptureStart, End
<1>7. CASE CaptureWrite(c)
  BY <1>0, <1>000, <1>7, BecomeType DEF CaptureWrite, End
<1>8. CASE ReadStart(c)
  <2>1. \A i \in Callers : [call[c] EXCEPT !.pc = "open", !.id = i] \in Calls
    BY <1>0 DEF Calls
  <2>2. QED
    BY <1>0, <1>000, <1>8, <2>1, BecomeType DEF ReadStart, End
<1>9. CASE ReadOpen(c)
  <2>1. \A t \in TraceFiles : [call[c] EXCEPT !.pc = "judge", !.target = t] \in Calls
    BY <1>0 DEF Calls
  <2>2. PICK t \in TraceFiles : t = trace[call[c].id]
    BY <1>0, <1>00, <1>9 DEF ReadOpen, At, TypeInv, Identified, Calls, Kinds
  <2>3. CASE t.file = "none"
    BY <1>0, <1>000, <1>9, <2>2, <2>3, BecomeType DEF ReadOpen, End
  <2>4. CASE t.file = "bad"
    BY <1>0, <1>000, <1>9, <2>2, <2>4, BecomeType DEF ReadOpen, End
  <2>5. CASE t.file \notin {"none", "bad"}
    BY <1>0, <1>00, <1>9, <2>1, <2>2, <2>5, BecomeType DEF ReadOpen
  <2>6. QED
    BY <2>3, <2>4, <2>5
<1>10. CASE ReadJudge(c)
  <2>1. [call[c] EXCEPT !.pc = "lock", !.time = clock] \in Calls
    BY <1>0, <1>00 DEF Calls
  <2>2. QED
    BY <1>0, <1>000, <1>10, <2>1, BecomeType DEF ReadJudge, End
<1>11. CASE ReadDecrypt(c)
  BY <1>0, <1>000, <1>11, BecomeType DEF ReadDecrypt, End
<1>12. CASE PurgeStart(c)
  <2>1. [call[c] EXCEPT !.pc = "next", !.time = clock, !.todo = Files] \in Calls
    BY <1>0, <1>00 DEF Calls
  <2>2. QED
    BY <1>0, <1>000, <1>12, <2>1, BecomeType DEF PurgeStart, End
<1>13. CASE PurgeRead(c)
  <2>1. ASSUME NEW i \in Callers
        PROVE  /\ [call[c] EXCEPT !.todo = @ \ {i}] \in Calls
               /\ [[call[c] EXCEPT !.todo = @ \ {i}] EXCEPT !.pc = "unlink", !.id = i] \in Calls
    BY <1>0, <1>00 DEF Calls
  <2>2. PICK i \in Callers :
          \/ Become(c, [[call[c] EXCEPT !.todo = @ \ {i}] EXCEPT !.pc = "unlink", !.id = i])
          \/ Become(c, [call[c] EXCEPT !.todo = @ \ {i}])
    BY <1>00, <1>13 DEF PurgeRead
  <2>3. QED
    BY <1>0, <2>1, <2>2, BecomeType
<1>14. CASE PurgeUnlink(c)
  <2>1. [call[c] EXCEPT !.pc = "next", !.removed = @ \cup ({call[c].id} \cap Files)] \in Calls
    BY <1>0, <1>00 DEF Calls
  <2>2. QED
    BY <1>0, <1>000, <1>14, <2>1, BecomeType DEF PurgeUnlink, End
<1>15. CASE PurgeEnd(c)
  BY <1>0, <1>000, <1>15, BecomeType DEF PurgeEnd, End
<1>16. CASE EncryptStart(c)
  <2>1. [call[c] EXCEPT !.pc = "lock", !.dom = cur] \in Calls
    BY <1>0, <1>00 DEF Calls
  <2>2. QED
    BY <1>0, <1>000, <1>16, <2>1, BecomeType DEF EncryptStart, End
<1>17. CASE EncryptEnd(c)
  BY <1>0, <1>000, <1>17, BecomeType DEF EncryptEnd, End
<1>18. CASE DecryptStart(c)
  <2>1. \A b \in blobs : b.ver \in Domains /\ b.key \in Nat
    BY DEF TypeInv, TypeOK, Domains
  <2>2. ASSUME NEW b \in blobs
        PROVE  [call[c] EXCEPT !.pc = "lock", !.dom = b.ver,
                               !.target = [NoTrace EXCEPT !.key = b.key]] \in Calls
    BY <1>0, <2>1 DEF Calls, NoTrace, TraceFiles
  <2>3. PICK b \in blobs :
          \/ Become(c, [call[c] EXCEPT !.pc = "lock", !.dom = b.ver,
                                       !.target = [NoTrace EXCEPT !.key = b.key]])
          \/ End(c, "not_accepted")
    BY <1>18 DEF DecryptStart
  <2>4. QED
    BY <1>0, <1>000, <2>2, <2>3, BecomeType DEF End
<1>19. CASE DecryptEnd(c)
  BY <1>0, <1>000, <1>19, BecomeType DEF DecryptEnd, End
<1>20. CASE RotateStart(c)
  <2>1. \A v \in Versions : [call[c] EXCEPT !.pc = "lock", !.dom = v] \in Calls
    BY <1>0 DEF Calls, Domains
  <2>2. QED
    BY <1>0, <1>20, <2>1, BecomeType DEF RotateStart
<1>21. CASE RotateEscrow(c)
  <2>1. [call[c] EXCEPT !.pc = "activate"] \in Calls
    BY <1>0, <1>00 DEF Calls
  <2>2. QED
    BY <1>0, <1>000, <1>21, <2>1, BecomeType DEF RotateEscrow, End
<1>22. CASE RotateActivate(c)
  <2>1. [call[c] EXCEPT !.pc = "accept"] \in Calls
    BY <1>0, <1>00 DEF Calls
  <2>2. QED
    BY <1>0, <1>000, <1>22, <2>1, BecomeType DEF RotateActivate, End
<1>23. CASE RotateReadAccepted(c)
  <2>1. [call[c] EXCEPT !.pc = "assign", !.old = accepted] \in Calls
    BY <1>0, <1>00 DEF Calls
  <2>2. QED
    BY <1>0, <1>000, <1>23, <2>1, BecomeType DEF RotateReadAccepted, End
<1>24. CASE RotateAccept(c)
  BY <1>0, <1>000, <1>24, BecomeType DEF RotateAccept, End
<1>25. QED
  BY <1>1, <1>2, <1>3, <1>4, <1>5, <1>6, <1>7, <1>8, <1>9, <1>10, <1>11, <1>12, <1>13,
     <1>14, <1>15, <1>16, <1>17, <1>18, <1>19, <1>20, <1>21, <1>22, <1>23, <1>24 DEF GetKey,
     TraceStep, CipherStep

\* What a step outside get_key does to the fields of its call that get_key reads.
Elsewhere(c) ==
    /\ UNCHANGED keyVars
    /\ \A d \in Callers \ {c} : call'[d] = call[d]
    /\ call'[c].kind = call[c].kind /\ call'[c].key = call[c].key
    /\ call[c].pc \notin {"lock", "look", "store", "release", "done"}
    /\ call'[c].pc \notin {"start", "look", "store", "release", "keyed"}
    /\ call'[c].pc \in {"activate", "accept", "assign"} => call[c].pc \in {"keyed", "activate", "accept"}
    /\ call[c].pc \in {"keyed", "activate", "accept", "assign"}
         => call'[c].pc \in {"activate", "accept", "assign", "done"}
    /\ \/ call'[c].dom = call[c].dom
       \/ call[c].pc = "start" /\ call'[c].pc = "lock" /\ call'[c].dom \in Versions
    /\ call[c].pc = "start" => \/ call'[c].pc = "done"
                               \/ call[c].kind \in {"capture", "read", "purge"}
                               \/ call'[c].dom \in Versions
    /\ call'[c].id = call[c].id \/ call'[c].id \in Callers
    /\ call'[c].pc = "unlink" => call'[c].id \in Callers
    /\ call[c].kind = "read" /\ call[c].pc = "start" => \/ call'[c].res = "refused" /\ call'[c].pc = "done"
                                                        \/ call'[c].id \in Callers

\* Every step of the trace store and of the cipher is such a step.
LEMMA ElsewhereStep ==
    ASSUME TypeInv, NEW c \in Callers, TraceStep(c) \/ CipherStep(c)
    PROVE  Elsewhere(c)
<1>0. call \in [Callers -> Calls] /\ call[c] \in Calls
  BY DEF TypeInv, TypeOK
<1>00. /\ cur \in Versions /\ \A b \in blobs : b.ver \in Versions
       /\ call[c].todo \in SUBSET Callers
  BY <1>0 DEF TypeInv, TypeOK, Calls
<1>000. UNCHANGED keyVars
  BY DEF TraceStep, CipherStep, CaptureStart, CaptureWrite, ReadStart, ReadOpen, ReadJudge,
     ReadDecrypt, PurgeStart, PurgeRead, PurgeUnlink, PurgeEnd, EncryptStart, EncryptEnd,
     DecryptStart, DecryptEnd, RotateStart, RotateEscrow, RotateActivate,
     RotateReadAccepted, RotateAccept
<1>1. CASE CaptureStart(c)
  <2>1. CASE End(c, "refused")
    BY <1>0, <1>00, <1>000, <1>1, <2>1 DEF CaptureStart, Elsewhere, Become, End, At, Calls
  <2>2. CASE Become(c, [call[c] EXCEPT !.pc = "lock", !.time = clock])
    BY <1>0, <1>00, <1>000, <1>1, <2>2 DEF CaptureStart, Elsewhere, Become, End, At, Calls
  <2>3. QED
    BY <1>1, <2>1, <2>2 DEF CaptureStart
<1>2. CASE CaptureWrite(c)
  BY <1>0, <1>00, <1>000, <1>2 DEF CaptureWrite, Elsewhere, Become, End, At, Calls
<1>3. CASE ReadStart(c)
  <2>1. CASE End(c, "refused")
    BY <1>0, <1>00, <1>000, <1>3, <2>1 DEF ReadStart, Elsewhere, Become, End, At, Calls
  <2>2. CASE \E i \in Callers : call[i].res = "recorded" /\ Become(c, [call[c] EXCEPT !.pc = "open", !.id = i])
    BY <1>0, <1>00, <1>000, <1>3, <2>2 DEF ReadStart, Elsewhere, Become, End, At, Calls
  <2>3. QED
    BY <1>3, <2>1, <2>2 DEF ReadStart
<1>4. CASE ReadOpen(c)
  <2>1. CASE End(c, "not_found")
    BY <1>0, <1>00, <1>000, <1>4, <2>1 DEF ReadOpen, Elsewhere, Become, End, At, Calls
  <2>2. CASE End(c, "invalid")
    BY <1>0, <1>00, <1>000, <1>4, <2>2 DEF ReadOpen, Elsewhere, Become, End, At, Calls
  <2>3. CASE Become(c, [call[c] EXCEPT !.pc = "judge", !.target = trace[call[c].id]])
    BY <1>0, <1>00, <1>000, <1>4, <2>3 DEF ReadOpen, Elsewhere, Become, End, At, Calls
  <2>4. QED
    BY <1>4, <2>1, <2>2, <2>3 DEF ReadOpen
<1>5. CASE ReadJudge(c)
  <2>1. CASE End(c, "expired")
    BY <1>0, <1>00, <1>000, <1>5, <2>1 DEF ReadJudge, Elsewhere, Become, End, At, Calls
  <2>2. CASE Become(c, [call[c] EXCEPT !.pc = "lock", !.time = clock])
    BY <1>0, <1>00, <1>000, <1>5, <2>2 DEF ReadJudge, Elsewhere, Become, End, At, Calls
  <2>3. QED
    BY <1>5, <2>1, <2>2 DEF ReadJudge
<1>6. CASE ReadDecrypt(c)
  <2>1. CASE End(c, "payload")
    BY <1>0, <1>00, <1>000, <1>6, <2>1 DEF ReadDecrypt, Elsewhere, Become, End, At, Calls
  <2>2. CASE End(c, "invalid")
    BY <1>0, <1>00, <1>000, <1>6, <2>2 DEF ReadDecrypt, Elsewhere, Become, End, At, Calls
  <2>3. QED
    BY <1>6, <2>1, <2>2 DEF ReadDecrypt
<1>7. CASE PurgeStart(c)
  BY <1>0, <1>00, <1>000, <1>7 DEF PurgeStart, Elsewhere, Become, End, At, Calls
<1>8. CASE PurgeRead(c)
  <2>1. CASE \E i \in call[c].todo : Become(c, [[call[c] EXCEPT !.todo = @ \ {i}] EXCEPT !.pc = "unlink", !.id = i])
    BY <1>0, <1>00, <1>000, <1>8, <2>1 DEF PurgeRead, Elsewhere, Become, End, At, Calls
  <2>2. CASE \E i \in call[c].todo : Become(c, [call[c] EXCEPT !.todo = @ \ {i}])
    BY <1>0, <1>00, <1>000, <1>8, <2>2 DEF PurgeRead, Elsewhere, Become, End, At, Calls
  <2>3. QED
    BY <1>8, <2>1, <2>2 DEF PurgeRead
<1>9. CASE PurgeUnlink(c)
  BY <1>0, <1>00, <1>000, <1>9 DEF PurgeUnlink, Elsewhere, Become, End, At, Calls
<1>10. CASE PurgeEnd(c)
  BY <1>0, <1>00, <1>000, <1>10 DEF PurgeEnd, Elsewhere, Become, End, At, Calls
<1>11. CASE EncryptStart(c)
  BY <1>0, <1>00, <1>000, <1>11 DEF EncryptStart, Elsewhere, Become, End, At, Calls
<1>12. CASE EncryptEnd(c)
  BY <1>0, <1>00, <1>000, <1>12 DEF EncryptEnd, Elsewhere, Become, End, At, Calls
<1>13. CASE DecryptStart(c)
  <2>1. CASE End(c, "not_accepted")
    BY <1>0, <1>00, <1>000, <1>13, <2>1 DEF DecryptStart, Elsewhere, Become, End, At, Calls
  <2>2. CASE \E b \in blobs : Become(c, [call[c] EXCEPT !.pc = "lock", !.dom = b.ver, !.target = [NoTrace EXCEPT !.key = b.key]])
    BY <1>0, <1>00, <1>000, <1>13, <2>2 DEF DecryptStart, Elsewhere, Become, End, At, Calls
  <2>3. QED
    BY <1>13, <2>1, <2>2 DEF DecryptStart
<1>14. CASE DecryptEnd(c)
  <2>1. CASE End(c, "plaintext")
    BY <1>0, <1>00, <1>000, <1>14, <2>1 DEF DecryptEnd, Elsewhere, Become, End, At, Calls
  <2>2. CASE End(c, "invalid")
    BY <1>0, <1>00, <1>000, <1>14, <2>2 DEF DecryptEnd, Elsewhere, Become, End, At, Calls
  <2>3. QED
    BY <1>14, <2>1, <2>2 DEF DecryptEnd
<1>15. CASE RotateStart(c)
  <2>1. CASE \E v \in Versions : Become(c, [call[c] EXCEPT !.pc = "lock", !.dom = v])
    BY <1>0, <1>00, <1>000, <1>15, <2>1 DEF RotateStart, Elsewhere, Become, End, At, Calls
  <2>2. QED
    BY <1>15, <2>1 DEF RotateStart
<1>16. CASE RotateEscrow(c)
  <2>1. CASE Become(c, [call[c] EXCEPT !.pc = "activate"])
    BY <1>0, <1>00, <1>000, <1>16, <2>1 DEF RotateEscrow, Elsewhere, Become, End, At, Calls
  <2>2. CASE End(c, "failed")
    BY <1>0, <1>00, <1>000, <1>16, <2>2 DEF RotateEscrow, Elsewhere, Become, End, At, Calls
  <2>3. QED
    BY <1>16, <2>1, <2>2 DEF RotateEscrow
<1>17. CASE RotateActivate(c)
  BY <1>0, <1>00, <1>000, <1>17 DEF RotateActivate, Elsewhere, Become, End, At, Calls
<1>18. CASE RotateReadAccepted(c)
  BY <1>0, <1>00, <1>000, <1>18 DEF RotateReadAccepted, Elsewhere, Become, End, At, Calls
<1>19. CASE RotateAccept(c)
  BY <1>0, <1>00, <1>000, <1>19 DEF RotateAccept, Elsewhere, Become, End, At, Calls
<1>20. QED
  BY <1>1, <1>2, <1>3, <1>4, <1>5, <1>6, <1>7, <1>8, <1>9, <1>10, <1>11, <1>12, <1>13,
     <1>14, <1>15, <1>16, <1>17, <1>18, <1>19 DEF TraceStep, CipherStep

\* What a step of get_key does to the fields of its call.
Inside(c) ==
    /\ \A d \in Callers \ {c} : call'[d] = call[d]
    /\ call'[c].kind = call[c].kind /\ call'[c].dom = call[c].dom /\ call'[c].id = call[c].id
    /\ call[c].pc \notin {"start", "done"}
    /\ call'[c].pc \in {"look", "store", "release", "keyed", "done"}
    /\ call'[c].pc = "done" => call'[c].res = "failed"
    /\ call'[c].pc # "done" => call'[c].res = call[c].res

\* Every step of get_key is such a step.
LEMMA GetKeyStep ==
    ASSUME TypeInv, NEW c \in Callers, GetKey(c)
    PROVE  Inside(c)
<1>0. call \in [Callers -> Calls] /\ call[c] \in Calls
  BY DEF TypeInv, TypeOK
<1>1. CASE LockKey(c)
  BY <1>0, <1>1 DEF LockKey, Inside, Become, Calls
<1>2. CASE LookKey(c)
  <2>1. CASE Become(c, [call[c] EXCEPT !.pc = "release", !.key = keyFile[call[c].dom]])
    BY <1>0, <1>2, <2>1 DEF LookKey, Inside, Become, End, Calls
  <2>2. CASE End(c, "failed")
    BY <1>0, <1>2, <2>2 DEF LookKey, Inside, Become, End, Calls
  <2>3. CASE Become(c, [call[c] EXCEPT !.pc = "store", !.key = minted + 1])
    BY <1>0, <1>2, <2>3 DEF LookKey, Inside, Become, End, Calls
  <2>4. QED
    BY <1>2, <2>1, <2>2, <2>3 DEF LookKey
<1>3. CASE StoreKey(c)
  BY <1>0, <1>3 DEF StoreKey, Inside, Become, Calls
<1>4. CASE ReleaseKey(c)
  BY <1>0, <1>4 DEF ReleaseKey, Inside, Become, Calls
<1>5. CASE Fail(c)
  BY <1>0, <1>5 DEF Fail, Inside, Become, Calls
<1>6. QED
  BY <1>1, <1>2, <1>3, <1>4, <1>5 DEF GetKey

\* Every step of a call keeps the types.
LEMMA StepType ==
    ASSUME TypeInv, NEW c \in Callers, GetKey(c) \/ TraceStep(c) \/ CipherStep(c)
    PROVE  TypeInv'
<1>0. call' \in [Callers -> Calls] /\ call \in [Callers -> Calls]
  BY StepCallType DEF TypeInv, TypeOK
<1>00. /\ call[c] \in Calls /\ call[c].key \in Nat /\ call[c].dom \in Domains
       /\ call[c].time \in Nat /\ call[c].old \in SUBSET Versions
  BY <1>0, CustodyAssumption DEF Calls
<1>1. LockKey(c) => TypeOK'
  BY <1>0, <1>00, CustodyAssumption DEF TypeInv, TypeOK, CipherDomain, LockKey, At,
     Unlocked,
     keyVars, cipherVars
<1>2. LookKey(c) => TypeOK'
  BY <1>0, <1>00, CustodyAssumption DEF TypeInv, TypeOK, CipherDomain, LookKey, At,
     Unlocked,
     keyVars, cipherVars
<1>3. StoreKey(c) => TypeOK'
  BY <1>0, <1>00, CustodyAssumption DEF TypeInv, TypeOK, CipherDomain, StoreKey, At,
     Unlocked,
     keyVars, cipherVars
<1>4. ReleaseKey(c) => TypeOK'
  BY <1>0, <1>00, CustodyAssumption DEF TypeInv, TypeOK, CipherDomain, ReleaseKey, At,
     Unlocked,
     keyVars, cipherVars
<1>5. Fail(c) => TypeOK'
  BY <1>0, <1>00, CustodyAssumption DEF TypeInv, TypeOK, CipherDomain, Fail, At, Unlocked,
     keyVars, cipherVars
<1>6. CaptureStart(c) => TypeOK'
  BY <1>0, <1>00, CustodyAssumption DEF TypeInv, TypeOK, CipherDomain, CaptureStart, At,
     Unlocked,
     keyVars, cipherVars
<1>7. CaptureWrite(c) => TypeOK'
  BY <1>0, <1>00, CustodyAssumption DEF TypeInv, TypeOK, CipherDomain, CaptureWrite, At,
     Unlocked,
     keyVars, cipherVars, TraceFiles
<1>8. ReadStart(c) => TypeOK'
  BY <1>0, <1>00, CustodyAssumption DEF TypeInv, TypeOK, CipherDomain, ReadStart, At,
     Unlocked,
     keyVars, cipherVars
<1>9. ReadOpen(c) => TypeOK'
  BY <1>0, <1>00, CustodyAssumption DEF TypeInv, TypeOK, CipherDomain, ReadOpen, At,
     Unlocked,
     keyVars, cipherVars
<1>10. ReadJudge(c) => TypeOK'
  BY <1>0, <1>00, CustodyAssumption DEF TypeInv, TypeOK, CipherDomain, ReadJudge, At,
     Unlocked,
     keyVars, cipherVars
<1>11. ReadDecrypt(c) => TypeOK'
  BY <1>0, <1>00, CustodyAssumption DEF TypeInv, TypeOK, CipherDomain, ReadDecrypt, At,
     Unlocked,
     keyVars, cipherVars
<1>12. PurgeStart(c) => TypeOK'
  BY <1>0, <1>00, CustodyAssumption DEF TypeInv, TypeOK, CipherDomain, PurgeStart, At,
     Unlocked,
     keyVars, cipherVars
<1>13. PurgeRead(c) => TypeOK'
  BY <1>0, <1>00, CustodyAssumption DEF TypeInv, TypeOK, CipherDomain, PurgeRead, At,
     Unlocked,
     keyVars, cipherVars
<1>14. PurgeUnlink(c) => TypeOK'
  <2>1. ASSUME PurgeUnlink(c)
        PROVE [trace[call[c].id] EXCEPT !.file = "none"] \in TraceFiles
    BY <1>00, <2>1 DEF PurgeUnlink, At, TypeInv, TypeOK, Identified, TraceFiles
  <2>2. QED
    BY <1>0, <1>00, <2>1 DEF TypeInv, TypeOK, PurgeUnlink, keyVars, cipherVars
<1>15. PurgeEnd(c) => TypeOK'
  BY <1>0, <1>00, CustodyAssumption DEF TypeInv, TypeOK, CipherDomain, PurgeEnd, At,
     Unlocked,
     keyVars, cipherVars
<1>16. EncryptStart(c) => TypeOK'
  BY <1>0, <1>00, CustodyAssumption DEF TypeInv, TypeOK, CipherDomain, EncryptStart, At,
     Unlocked,
     keyVars, cipherVars
<1>17. EncryptEnd(c) => TypeOK'
  BY <1>0, <1>00, CustodyAssumption DEF TypeInv, TypeOK, CipherDomain, EncryptEnd, At,
     Unlocked,
     keyVars, cipherVars
<1>18. DecryptStart(c) => TypeOK'
  BY <1>0, <1>00, CustodyAssumption DEF TypeInv, TypeOK, CipherDomain, DecryptStart, At,
     Unlocked,
     keyVars, cipherVars
<1>19. DecryptEnd(c) => TypeOK'
  BY <1>0, <1>00, CustodyAssumption DEF TypeInv, TypeOK, CipherDomain, DecryptEnd, At,
     Unlocked,
     keyVars, cipherVars
<1>20. RotateStart(c) => TypeOK'
  BY <1>0, <1>00, CustodyAssumption DEF TypeInv, TypeOK, CipherDomain, RotateStart, At,
     Unlocked,
     keyVars, cipherVars
<1>21. RotateEscrow(c) => TypeOK'
  BY <1>0, <1>00, CustodyAssumption DEF TypeInv, TypeOK, CipherDomain, RotateEscrow, At,
     Unlocked,
     keyVars, cipherVars
<1>22. RotateActivate(c) => TypeOK'
  BY <1>0, <1>00, CustodyAssumption DEF TypeInv, TypeOK, CipherDomain, RotateActivate, At,
     Unlocked,
     keyVars, cipherVars
<1>23. RotateReadAccepted(c) => TypeOK'
  BY <1>0, <1>00, CustodyAssumption DEF TypeInv, TypeOK, CipherDomain, RotateReadAccepted,
     At, Unlocked,
     keyVars, cipherVars
<1>24. RotateAccept(c) => TypeOK'
  BY <1>0, <1>00, CustodyAssumption DEF TypeInv, TypeOK, CipherDomain, RotateAccept, At,
     Unlocked,
     keyVars, cipherVars
<1>25. TypeOK'
  BY <1>1, <1>2, <1>3, <1>4, <1>5, <1>6, <1>7, <1>8, <1>9, <1>10, <1>11, <1>12, <1>13,
     <1>14, <1>15, <1>16, <1>17, <1>18, <1>19, <1>20, <1>21, <1>22, <1>23, <1>24 DEF GetKey,
     TraceStep, CipherStep
<1>26. CASE TraceStep(c) \/ CipherStep(c)
  <2>1. CipherDomain'
    BY <1>26, ElsewhereStep DEF Elsewhere, TypeInv, CipherDomain
  <2>2. Identified'
    BY <1>26, ElsewhereStep DEF Elsewhere, TypeInv, Identified
  <2>3. QED
    BY <1>25, <2>1, <2>2 DEF TypeInv
<1>27. CASE GetKey(c)
  BY <1>25, <1>27, GetKeyStep DEF Inside, TypeInv, CipherDomain, Identified
<1>28. QED
  BY <1>26, <1>27

\* The clock and damage from outside keep the types.
LEMMA EnvironmentType ==
    ASSUME TypeInv, Tick \/ Damage
    PROVE  TypeInv' /\ call' = call
<1>1. CASE Tick
  BY <1>1, CustodyAssumption DEF Tick, TypeInv, TypeOK, CipherDomain, Identified, keyVars,
     cipherVars
<1>2. CASE Damage
  <2>1. damage' \in 0..MaxDamage /\ UNCHANGED <<keyLock, minted, cipherVars, call, clock>>
    BY <1>2, CustodyAssumption DEF Damage, TypeInv, TypeOK
  <2>2. keyFile' \in [Domains -> Nat \cup {-1}]
    BY <1>2 DEF Damage, TypeInv, TypeOK
  <2>3. \A i \in Callers : [trace[i] EXCEPT !.file = "bad"] \in TraceFiles
    BY DEF TypeInv, TypeOK, TraceFiles
  <2>4. trace' \in [Callers -> TraceFiles]
    BY <1>2, <2>3 DEF Damage, TypeInv, TypeOK, Files
  <2>5. QED
    BY <2>1, <2>2, <2>4 DEF TypeInv, TypeOK, CipherDomain, Identified, cipherVars
<1>3. QED
  BY <1>1, <1>2

\* No step breaks the types.
LEMMA NextType == TypeInv /\ [Next]_vars => TypeInv'
<1> SUFFICES ASSUME TypeInv, [Next]_vars PROVE TypeInv'
  OBVIOUS
<1>1. CASE UNCHANGED vars
  BY <1>1 DEF vars, keyVars, cipherVars, TypeInv, TypeOK, CipherDomain, Identified, Calls
<1>2. CASE Next
  BY <1>2, StepType, EnvironmentType DEF Next
<1>3. QED
  BY <1>1, <1>2

\* The key files, their locks, the traces, the cipher and every call keep their
\* types, for any number of callers (privacy.py, storage_crypto.py).
THEOREM CustodyTypeCorrect == Spec => []TypeOK
<1>1. TypeInv => TypeOK
  BY DEF TypeInv
<1>2. QED
  BY InitType, NextType, <1>1, PTL DEF Spec

---------------------------------------------------------------------------
(* One key per domain                                                      *)

Fetched == {"release", "keyed", "activate", "accept", "assign"}

\* A call without a key has not looked, one that has looked has a key; a call in
\* the critical section owns the lock; a call about to store its key sees no file.
Custody ==
    \A c \in Callers :
        /\ call[c].key # 0 => call[c].pc \in Fetched \cup {"store", "done"}
        /\ call[c].pc \in Fetched \cup {"store"} => call[c].key # 0
        /\ call[c].pc \in {"look", "store", "release"} => keyLock[call[c].dom] = c
        /\ call[c].pc = "store" => keyFile[call[c].dom] = 0

KeyInv == TypeInv /\ Custody /\ KeyAgreement

\* Before the first call there is no key.
LEMMA InitKey == Init => KeyInv
<1> SUFFICES ASSUME Init PROVE KeyInv
  OBVIOUS
<1>1. \A k \in Kinds : NewCall(k).key = 0 /\ NewCall(k).pc = "start"
  BY DEF NewCall
<1>2. \A c \in Callers : call[c].key = 0 /\ call[c].pc = "start"
  BY <1>1 DEF Init
<1>3. QED
  BY <1>2, InitType DEF KeyInv, Custody, KeyAgreement, Returned, Fetched

\* A step outside get_key neither changes a key nor a domain that has one.
LEMMA ElsewhereKey ==
    ASSUME KeyInv, NEW c \in Callers, TraceStep(c) \/ CipherStep(c)
    PROVE  KeyInv'
<1>1. Elsewhere(c) /\ TypeInv'
  BY ElsewhereStep, StepType DEF KeyInv
<1>2. Custody'
  <2>1. ASSUME NEW d \in Callers, d # c PROVE call'[d] = call[d]
    BY <1>1, <2>1 DEF Elsewhere
  <2>2. keyLock' = keyLock /\ keyFile' = keyFile
    BY <1>1 DEF Elsewhere, keyVars
  <2>3. /\ call'[c].key # 0 => call'[c].pc \in Fetched \cup {"store", "done"}
        /\ call'[c].pc \in Fetched \cup {"store"} => call'[c].key # 0
        /\ call'[c].pc \notin {"look", "store", "release"}
    BY <1>1 DEF KeyInv, Custody, Elsewhere, Fetched
  <2>4. QED
    BY <2>1, <2>2, <2>3 DEF KeyInv, Custody
<1>3. \A d \in Callers : Returned(d)' => Returned(d) /\ call'[d].dom = call[d].dom
                                                   /\ call'[d].key = call[d].key
  BY <1>1 DEF KeyInv, Custody, Elsewhere, Fetched, Returned
<1>4. KeyAgreement'
  BY <1>1, <1>3 DEF KeyInv, KeyAgreement, Elsewhere, keyVars
<1>5. QED
  BY <1>1, <1>2, <1>4 DEF KeyInv

\* A step of get_key: who holds the lock is the only one to store a key, and stores
\* one only where there is none.
LEMMA GetKeyKey ==
    ASSUME KeyInv, NEW c \in Callers, GetKey(c)
    PROVE  KeyInv'
<1>0. Inside(c) /\ TypeInv' /\ call \in [Callers -> Calls] /\ call[c] \in Calls
  BY GetKeyStep, StepType DEF KeyInv, TypeInv, TypeOK
<1>00. /\ call[c].dom \in Domains /\ keyFile \in [Domains -> Nat \cup {-1}] /\ minted \in Nat
       /\ keyLock \in [Domains -> Callers \cup {Free}] /\ Free \notin Callers
       /\ \A d \in Callers : call[d].dom \in Domains
  BY <1>0, CustodyAssumption DEF KeyInv, TypeInv, TypeOK, Calls
<1>1. CASE LockKey(c)
  <2>1. call'[c].pc = "look" /\ call'[c].key = call[c].key /\ call[c].pc = "lock"
    BY <1>0, <1>1 DEF LockKey, Become, Calls
  <2>2. /\ keyLock[call[c].dom] = Free /\ UNCHANGED keyFile
        /\ keyLock' = [keyLock EXCEPT ![call[c].dom] = c]
    BY <1>1 DEF LockKey
  <2>3. Custody'
    BY <1>0, <1>00, <2>1, <2>2 DEF KeyInv, Custody, Inside, Fetched
  <2>4. KeyAgreement'
    BY <1>0, <2>1, <2>2 DEF KeyInv, Custody, Fetched, KeyAgreement, Returned, Inside
  <2>5. QED
    BY <1>0, <2>3, <2>4 DEF KeyInv
<1>2. CASE LookKey(c)
  <2>0. call[c].pc = "look" /\ UNCHANGED keyFile
    BY <1>2 DEF LookKey
  <2>1. CASE /\ keyFile[call[c].dom] > 0 /\ UNCHANGED keyLock
             /\ Become(c, [call[c] EXCEPT !.pc = "release", !.key = keyFile[call[c].dom]])
    <3>1. call'[c].pc = "release" /\ call'[c].key = keyFile[call[c].dom]
      BY <1>0, <2>1 DEF Become, Calls
    <3>2. keyFile[call[c].dom] # 0 /\ keyFile[call[c].dom] # -1
      BY <2>1, <1>00
    <3>3. Custody'
      BY <1>0, <1>00, <2>0, <2>1, <3>1, <3>2 DEF KeyInv, Custody, Inside, Fetched
    <3>4. KeyAgreement'
      BY <1>0, <2>0, <3>1, <3>2 DEF KeyInv, Custody, Fetched, KeyAgreement, Returned, Inside
    <3>5. QED
      BY <1>0, <3>3, <3>4 DEF KeyInv
  <2>2. CASE keyLock' = Unlocked(c) /\ End(c, "failed")
    <3>1. call'[c].pc = "done" /\ call'[c].key = call[c].key
      BY <1>0, <2>2 DEF End, Become, Calls
    <3>2. Custody'
      BY <1>0, <1>00, <2>0, <2>2, <3>1 DEF KeyInv, Custody, Inside, Fetched, Unlocked
    <3>3. KeyAgreement'
      BY <1>0, <2>0, <3>1 DEF KeyInv, Custody, Fetched, KeyAgreement, Returned, Inside
    <3>4. QED
      BY <1>0, <3>2, <3>3 DEF KeyInv
  <2>3. CASE /\ keyFile[call[c].dom] = 0 /\ UNCHANGED keyLock
             /\ Become(c, [call[c] EXCEPT !.pc = "store", !.key = minted + 1])
    <3>1. call'[c].pc = "store" /\ call'[c].key = minted + 1 /\ minted + 1 # 0
      BY <1>0, <1>00, <2>3 DEF Become, Calls
    <3>2. Custody'
      BY <1>0, <1>00, <2>0, <2>3, <3>1 DEF KeyInv, Custody, Inside, Fetched
    <3>3. KeyAgreement'
      BY <1>0, <2>0, <3>1 DEF KeyInv, Custody, Fetched, KeyAgreement, Returned, Inside
    <3>4. QED
      BY <1>0, <3>2, <3>3 DEF KeyInv
  <2>4. QED
    BY <1>2, <2>1, <2>2, <2>3 DEF LookKey
<1>3. CASE StoreKey(c)
  <2>1. call'[c].pc = "release" /\ call'[c].key = call[c].key /\ call[c].pc = "store"
    BY <1>0, <1>3 DEF StoreKey, Become, Calls
  <2>2. UNCHANGED keyLock /\ keyFile' = [keyFile EXCEPT ![call[c].dom] = call[c].key]
    BY <1>3 DEF StoreKey
  <2>3. \A d \in Callers : Returned(d) => call[d].dom # call[c].dom
    BY <1>0, <2>1 DEF KeyInv, Custody, KeyAgreement, Returned
  <2>4. Custody'
    BY <1>0, <1>00, <2>1, <2>2 DEF KeyInv, Custody, Inside, Fetched
  <2>5. KeyAgreement'
    BY <1>0, <1>00, <2>1, <2>2, <2>3 DEF KeyInv, KeyAgreement, Returned, Inside
  <2>6. QED
    BY <1>0, <2>4, <2>5 DEF KeyInv
<1>4. CASE ReleaseKey(c)
  <2>1. call'[c].pc = "keyed" /\ call'[c].key = call[c].key /\ call[c].pc = "release"
    BY <1>0, <1>4 DEF ReleaseKey, Become, Calls
  <2>2. keyLock' = Unlocked(c) /\ UNCHANGED keyFile
    BY <1>4 DEF ReleaseKey
  <2>3. Custody'
    BY <1>0, <1>00, <2>1, <2>2 DEF KeyInv, Custody, Inside, Fetched, Unlocked
  <2>4. KeyAgreement'
    BY <1>0, <2>1, <2>2 DEF KeyInv, Custody, Fetched, KeyAgreement, Returned, Inside
  <2>5. QED
    BY <1>0, <2>3, <2>4 DEF KeyInv
<1>5. CASE Fail(c)
  <2>1. call'[c].pc = "done" /\ call'[c].key = 0
    BY <1>0, <1>5 DEF Fail, Become, Calls
  <2>2. keyLock' = Unlocked(c) /\ UNCHANGED keyFile
    BY <1>5 DEF Fail
  <2>3. Custody'
    BY <1>0, <1>00, <2>1, <2>2 DEF KeyInv, Custody, Inside, Fetched, Unlocked
  <2>4. KeyAgreement'
    BY <1>0, <2>1, <2>2 DEF KeyInv, KeyAgreement, Returned, Inside
  <2>5. QED
    BY <1>0, <2>3, <2>4 DEF KeyInv
<1>6. QED
  BY <1>1, <1>2, <1>3, <1>4, <1>5 DEF GetKey

\* No step lets two callers of a domain have different keys.
LEMMA NextKey == KeyInv /\ [Next]_vars => KeyInv'
<1> SUFFICES ASSUME KeyInv, [Next]_vars PROVE KeyInv'
  OBVIOUS
<1>0. TypeInv'
  BY NextType DEF KeyInv
<1>1. CASE UNCHANGED vars
  BY <1>0, <1>1 DEF vars, keyVars, KeyInv, Custody, KeyAgreement, Returned
<1>2. CASE Tick
  BY <1>0, <1>2 DEF Tick, keyVars, KeyInv, Custody, KeyAgreement, Returned
<1>3. CASE Damage
  <2>1. \A d \in Domains : keyFile'[d] = keyFile[d] \/ (keyFile[d] # 0 /\ keyFile'[d] = -1)
    BY <1>3 DEF Damage, KeyInv, TypeInv, TypeOK
  <2>2. UNCHANGED <<keyLock, call>> /\ \A c \in Callers : call[c].dom \in Domains
    BY <1>3 DEF Damage, KeyInv, TypeInv, TypeOK, Calls
  <2>3. QED
    BY <1>0, <2>1, <2>2 DEF KeyInv, Custody, KeyAgreement, Returned
<1>4. CASE \E c \in Callers : GetKey(c) \/ TraceStep(c) \/ CipherStep(c)
  BY <1>4, ElsewhereKey, GetKeyKey
<1>5. QED
  BY <1>1, <1>2, <1>3, <1>4 DEF Next

\* For any number of callers, dying or failing wherever they are, get_key gives all
\* callers of a domain the key its file keeps (privacy.py, get_key).
THEOREM KeyAgreementHolds == Spec => []KeyAgreement
<1>1. KeyInv => KeyAgreement
  BY DEF KeyInv
<1>2. QED
  BY InitKey, NextKey, <1>1, PTL DEF Spec

---------------------------------------------------------------------------
(* The key files are a vault                                               *)

\* A key is counted when it is generated; one that is not stored yet is in no key
\* file and with no other call.
Fresh ==
    /\ \A d \in Domains : keyFile[d] <= minted
    /\ \A c \in Callers : call[c].key <= minted
    /\ \A c \in Callers : call[c].pc = "store" =>
         /\ \A d \in Domains : keyFile[d] # call[c].key
         /\ \A b \in Callers \ {c} : call[b].key # call[c].key

VaultInv == KeyInv /\ Fresh

\* A step of get_key, as far as keys and key files are concerned.
Fetches(c) ==
    \/ /\ call[c].pc = "lock" /\ call'[c].pc = "look" /\ call'[c].key = call[c].key
       /\ UNCHANGED <<keyFile, minted>>
    \/ /\ call[c].pc = "look" /\ keyFile[call[c].dom] > 0
       /\ call'[c].pc = "release" /\ call'[c].key = keyFile[call[c].dom]
       /\ UNCHANGED <<keyFile, minted>>
    \/ /\ call[c].pc = "look" /\ call'[c].pc = "done" /\ call'[c].key = call[c].key
       /\ UNCHANGED <<keyFile, minted>>
    \/ /\ call[c].pc = "look" /\ keyFile[call[c].dom] = 0
       /\ call'[c].pc = "store" /\ call'[c].key = minted + 1
       /\ minted' = minted + 1 /\ UNCHANGED keyFile
    \/ /\ call[c].pc = "store" /\ call'[c].pc = "release" /\ call'[c].key = call[c].key
       /\ keyFile' = [keyFile EXCEPT ![call[c].dom] = call[c].key] /\ UNCHANGED minted
    \/ /\ call[c].pc = "release" /\ call'[c].pc = "keyed" /\ call'[c].key = call[c].key
       /\ UNCHANGED <<keyFile, minted>>
    \/ /\ call'[c].pc = "done" /\ call'[c].key = 0
       /\ UNCHANGED <<keyFile, minted>>

\* get_key does nothing else.
LEMMA GetKeyFetches ==
    ASSUME KeyInv, NEW c \in Callers, GetKey(c)
    PROVE  Fetches(c)
<1>0. call \in [Callers -> Calls] /\ call[c] \in Calls
  BY DEF KeyInv, TypeInv, TypeOK
<1>1. CASE LockKey(c)
  BY <1>0, <1>1 DEF LockKey, Become, Calls, Fetches
<1>2. CASE LookKey(c)
  <2>1. CASE /\ keyFile[call[c].dom] > 0 /\ UNCHANGED minted
             /\ Become(c, [call[c] EXCEPT !.pc = "release", !.key = keyFile[call[c].dom]])
    BY <1>0, <1>2, <2>1 DEF LookKey, Become, Calls, Fetches
  <2>2. CASE UNCHANGED minted /\ End(c, "failed")
    BY <1>0, <1>2, <2>2 DEF LookKey, End, Become, Calls, Fetches
  <2>3. CASE /\ keyFile[call[c].dom] = 0 /\ minted' = minted + 1
             /\ Become(c, [call[c] EXCEPT !.pc = "store", !.key = minted + 1])
    BY <1>0, <1>2, <2>3 DEF LookKey, Become, Calls, Fetches
  <2>4. QED
    BY <1>2, <2>1, <2>2, <2>3 DEF LookKey
<1>3. CASE StoreKey(c)
  BY <1>0, <1>3 DEF StoreKey, Become, Calls, Fetches
<1>4. CASE ReleaseKey(c)
  BY <1>0, <1>4 DEF ReleaseKey, Become, Calls, Fetches
<1>5. CASE Fail(c)
  BY <1>0, <1>5 DEF Fail, Become, Calls, Fetches
<1>6. QED
  BY <1>1, <1>2, <1>3, <1>4, <1>5 DEF GetKey

\* Keys and domains have their types, and a call that has not looked has no key.
LEMMA KeyFacts ==
    ASSUME KeyInv
    PROVE  /\ minted \in Nat /\ keyFile \in [Domains -> Nat \cup {-1}]
           /\ \A c \in Callers : /\ call[c].dom \in Domains /\ call[c].key \in Nat
                                 /\ call[c].pc \in {"start", "lock", "look"} => call[c].key = 0
                                 /\ call[c].pc = "store" => call[c].key > 0
<1>1. \A c \in Callers : call[c] \in Calls
  BY DEF KeyInv, TypeInv, TypeOK
<1>2. \A c \in Callers : /\ call[c].pc \in {"start", "lock", "look"} => call[c].key = 0
                         /\ call[c].pc = "store" => call[c].key # 0
  BY DEF KeyInv, Custody, Fetched
<1>3. QED
  BY <1>1, <1>2 DEF KeyInv, TypeInv, TypeOK, Calls

\* No step stores or hands out a key that is still unstored elsewhere.
LEMMA NextFresh == VaultInv /\ [Next]_vars => VaultInv'
<1> SUFFICES ASSUME VaultInv, [Next]_vars PROVE Fresh'
  BY NextKey DEF VaultInv
<1>0. KeyInv /\ Fresh
  BY DEF VaultInv
<1>1. CASE UNCHANGED vars \/ Tick
  <2>1. UNCHANGED <<keyFile, minted, call>>
    BY <1>1 DEF vars, keyVars, Tick
  <2>2. QED
    BY <1>0, <2>1 DEF Fresh
<1>2. CASE Damage
  <2>1. \A d \in Domains : keyFile'[d] = keyFile[d] \/ keyFile'[d] = -1
    BY <1>2, KeyFacts, <1>0 DEF Damage
  <2>2. UNCHANGED <<minted, call>>
    BY <1>2 DEF Damage
  <2>3. QED
    BY <1>0, <2>1, <2>2, KeyFacts DEF Fresh
<1>3. ASSUME NEW c \in Callers, GetKey(c)
      PROVE  Fresh'
  <2>1. Fetches(c) /\ \A b \in Callers \ {c} : call'[b] = call[b]
    BY <1>0, <1>3, GetKeyFetches, GetKeyStep DEF KeyInv, Inside
  <2>2. /\ minted \in Nat /\ keyFile \in [Domains -> Nat \cup {-1}]
        /\ \A b \in Callers : call[b].dom \in Domains /\ call[b].key \in Nat
    BY <1>0, KeyFacts
  <2>3. CASE /\ call'[c].pc \notin {"store"} /\ UNCHANGED <<keyFile, minted>>
             /\ call'[c].key \in {call[c].key, 0}
    BY <1>0, <2>1, <2>2, <2>3, KeyFacts DEF Fresh
  <2>4. CASE /\ call'[c].pc = "release" /\ UNCHANGED <<keyFile, minted>>
             /\ call'[c].key = keyFile[call[c].dom]
    BY <1>0, <2>1, <2>2, <2>4 DEF Fresh
  <2>5. CASE /\ call'[c].pc = "store" /\ call'[c].key = minted + 1
             /\ minted' = minted + 1 /\ UNCHANGED keyFile
    <3>1. /\ \A d \in Domains : keyFile[d] <= minted /\ keyFile[d] # minted + 1
          /\ \A b \in Callers : call[b].key <= minted /\ call[b].key # minted + 1
      BY <1>0, <2>2 DEF Fresh
    <3>2. /\ \A d \in Domains : keyFile'[d] <= minted'
          /\ \A b \in Callers : call'[b].key <= minted'
      BY <2>1, <2>2, <2>5, <3>1
    <3>3. QED
      BY <1>0, <2>1, <2>5, <3>1, <3>2 DEF Fresh
  <2>6. CASE /\ call[c].pc = "store" /\ call'[c].pc = "release" /\ call'[c].key = call[c].key
             /\ keyFile' = [keyFile EXCEPT ![call[c].dom] = call[c].key] /\ UNCHANGED minted
    <3>1. \A d \in Domains : keyFile'[d] \in {keyFile[d], call[c].key}
      BY <2>2, <2>6
    <3>2. QED
      BY <1>0, <2>1, <2>6, <3>1 DEF Fresh
  <2>7. QED
    BY <2>1, <2>3, <2>4, <2>5, <2>6 DEF Fetches
<1>4. ASSUME NEW c \in Callers, TraceStep(c) \/ CipherStep(c)
      PROVE  Fresh'
  <2>1. Elsewhere(c)
    BY <1>0, <1>4, ElsewhereStep DEF KeyInv
  <2>2. /\ UNCHANGED <<keyFile, minted>> /\ call'[c].pc # "store"
        /\ \A b \in Callers : call'[b].key = call[b].key
        /\ \A b \in Callers \ {c} : call'[b] = call[b]
    BY <2>1 DEF Elsewhere, keyVars
  <2>3. QED
    BY <1>0, <2>2 DEF Fresh
<1>5. QED
  BY <1>1, <1>2, <1>3, <1>4 DEF Next

\* What the callers were given depends on their own calls alone.
LEMMA GivenStays ==
    ASSUME \A b \in Callers : /\ Returned(b)' <=> Returned(b)
                              /\ Returned(b) => /\ call'[b].dom = call[b].dom
                                                /\ call'[b].key = call[b].key
    PROVE  Given' = Given
<1>1. \A b \in Callers : (IF Returned(b)' THEN {<<call'[b].dom, call'[b].key>>} ELSE {})
                       = (IF Returned(b) THEN {<<call[b].dom, call[b].key>>} ELSE {})
  OBVIOUS
<1>2. QED
  BY <1>1 DEF Given

\* One call was given a key, or lost it, and no other.
LEMMA GivenMoves ==
    ASSUME NEW c \in Callers, NEW g,
           g = IF Returned(c)' THEN {<<call'[c].dom, call'[c].key>>} ELSE {},
           \A b \in Callers \ {c} : call'[b] = call[b]
    PROVE  Given' = [Given EXCEPT ![c] = g]
<1>1. \A b \in Callers \ {c} : Returned(b)' <=> Returned(b)
  BY DEF Returned
<1>2. \A b \in Callers : (IF Returned(b)' THEN {<<call'[b].dom, call'[b].key>>} ELSE {})
                       = (IF b = c THEN g ELSE Given[b])
  BY <1>1 DEF Given
<1>3. Given' = [b \in Callers |-> IF Returned(b)' THEN {<<call'[b].dom, call'[b].key>>} ELSE {}]
  BY DEF Given
<1>4. [Given EXCEPT ![c] = g] = [b \in Callers |-> IF b = c THEN g ELSE Given[b]]
  BY DEF Given
<1>5. QED
  BY <1>2, <1>3, <1>4

\* Before the first call the vault is empty.
LEMMA InitVault == Init => VaultInv /\ Vault!VaultInit
<1> SUFFICES ASSUME Init PROVE VaultInv /\ Vault!VaultInit
  OBVIOUS
<1>1. \A k \in Kinds : NewCall(k).key = 0 /\ NewCall(k).pc = "start"
  BY DEF NewCall
<1>2. \A c \in Callers : call[c].key = 0 /\ call[c].pc = "start"
  BY <1>1 DEF Init
<1>3. Fresh
  BY <1>2 DEF Fresh, Init
<1>4. Vault!VaultInit
  BY <1>2 DEF Vault!VaultInit, Given, Returned, Init
<1>5. QED
  BY <1>3, <1>4, InitKey DEF VaultInv

\* A step of get_key creates a key, hands out the kept one, takes one back from a
\* call that fails, or is not seen.
LEMMA FetchIsVaultStep ==
    ASSUME VaultInv, NEW c \in Callers, GetKey(c)
    PROVE  [Vault!VaultNext]_<<keyFile, Given>>
<1>0. KeyInv /\ Fresh /\ call[c].dom \in Domains
  BY KeyFacts DEF VaultInv
<1>1. /\ Fetches(c) /\ \A b \in Callers \ {c} : call'[b] = call[b]
      /\ call'[c].dom = call[c].dom
  BY <1>0, GetKeyFetches, GetKeyStep DEF KeyInv, Inside
<1>2. /\ minted \in Nat /\ keyFile \in [Domains -> Nat \cup {-1}]
      /\ call[c].pc \in {"lock", "look"} => call[c].key = 0
      /\ call[c].pc = "store" => call[c].key > 0
  BY <1>0, KeyFacts
<1>3. CASE UNCHANGED keyFile /\ (Returned(c)' <=> Returned(c)) /\ call'[c].key = call[c].key
  <2>1. Given' = Given
    BY <1>1, <1>3, GivenStays DEF Returned
  <2>2. QED
    BY <1>3, <2>1
<1>4. CASE /\ call[c].pc = "look" /\ keyFile[call[c].dom] > 0 /\ UNCHANGED keyFile
           /\ call'[c].pc = "release" /\ call'[c].key = keyFile[call[c].dom]
  <2>1. ~ Returned(c) /\ Returned(c)'
    BY <1>2, <1>4 DEF Returned
  <2>2. Given' = [Given EXCEPT ![c] = {<<call[c].dom, keyFile[call[c].dom]>>}]
    BY <1>1, <1>4, <2>1, GivenMoves
  <2>3. Given[c] = {}
    BY <2>1 DEF Given
  <2>4. Vault!Again(c, call[c].dom)
    BY <1>4, <2>2, <2>3 DEF Vault!Again, Vault!Give
  <2>5. QED
    BY <1>0, <2>4 DEF Vault!VaultNext
<1>5. CASE /\ call[c].pc = "store" /\ call'[c].pc = "release" /\ call'[c].key = call[c].key
           /\ keyFile' = [keyFile EXCEPT ![call[c].dom] = call[c].key]
  <2>1. ~ Returned(c) /\ Returned(c)'
    BY <1>2, <1>5 DEF Returned
  <2>2. Given' = [Given EXCEPT ![c] = {<<call[c].dom, call[c].key>>}]
    BY <1>1, <1>5, <2>1, GivenMoves
  <2>3. Given[c] = {} /\ keyFile[call[c].dom] = 0 /\ call[c].key > 0
    BY <1>0, <1>2, <1>5, <2>1 DEF Given, KeyInv, Custody
  <2>4. keyFile'[call[c].dom] = call[c].key
    BY <1>0, <1>2, <1>5
  <2>5. Vault!Unheard(call[c].key)
    <3>1. \A d \in Domains : keyFile[d] # call[c].key
      BY <1>0, <1>5 DEF Fresh
    <3>2. ASSUME NEW b \in Callers, NEW g \in Given[b] PROVE g[2] # call[c].key
      <4>1. Returned(b) /\ g = <<call[b].dom, call[b].key>>
        BY <3>2 DEF Given
      <4>2. b # c
        BY <2>1, <4>1
      <4>3. QED
        BY <1>0, <1>5, <4>1, <4>2 DEF Fresh
    <3>3. QED
      BY <3>1, <3>2 DEF Vault!Unheard
  <2>6. Vault!First(c, call[c].dom)
    BY <1>5, <2>2, <2>3, <2>4, <2>5 DEF Vault!First, Vault!Give
  <2>7. QED
    BY <1>0, <2>6 DEF Vault!VaultNext
<1>6. CASE UNCHANGED keyFile /\ call'[c].key = 0 /\ Returned(c)
  <2>1. ~ Returned(c)'
    BY <1>6 DEF Returned
  <2>2. Given' = [Given EXCEPT ![c] = {}]
    BY <1>1, <2>1, GivenMoves
  <2>3. Given[c] # {}
    BY <1>6 DEF Given
  <2>4. Vault!Withdraw(c)
    BY <1>6, <2>2, <2>3 DEF Vault!Withdraw
  <2>5. QED
    BY <2>4 DEF Vault!VaultNext
<1>7. CASE UNCHANGED keyFile /\ call'[c].key = 0 /\ ~ Returned(c)
  <2>1. ~ Returned(c)'
    BY <1>7 DEF Returned
  <2>2. Given' = Given
    BY <1>1, <1>7, <2>1, GivenStays DEF Returned
  <2>3. QED
    BY <1>7, <2>2
<1>8. CASE /\ call[c].pc = "look" /\ call'[c].pc = "store" /\ UNCHANGED keyFile
  <2>1. ~ Returned(c) /\ ~ Returned(c)'
    BY <1>2, <1>8 DEF Returned
  <2>2. Given' = Given
    BY <1>1, <2>1, GivenStays DEF Returned
  <2>3. QED
    BY <1>8, <2>2
<1>9. QED
  BY <1>1, <1>2, <1>3, <1>4, <1>5, <1>6, <1>7, <1>8 DEF Fetches, Returned

\* Every step of the key files and of their users is a step of the vault or is not
\* seen in it.
LEMMA NextVault == VaultInv /\ [Next]_vars => [Vault!VaultNext]_<<keyFile, Given>>
<1> SUFFICES ASSUME VaultInv, [Next]_vars PROVE [Vault!VaultNext]_<<keyFile, Given>>
  OBVIOUS
<1>0. KeyInv /\ keyFile \in [Domains -> Nat \cup {-1}]
  BY KeyFacts DEF VaultInv
<1>1. CASE UNCHANGED vars \/ Tick
  <2>1. UNCHANGED <<keyFile, call>>
    BY <1>1 DEF vars, keyVars, Tick
  <2>2. Given' = Given
    BY <2>1, GivenStays DEF Returned
  <2>3. QED
    BY <2>1, <2>2
<1>2. CASE Damage
  <2>1. Given' = Given
    BY <1>2, GivenStays DEF Damage, Returned
  <2>2. CASE UNCHANGED keyFile
    BY <2>1, <2>2
  <2>3. CASE \E d \in Domains : keyFile[d] # 0 /\ keyFile' = [keyFile EXCEPT ![d] = -1]
    <3>1. PICK d \in Domains : keyFile[d] # 0 /\ keyFile' = [keyFile EXCEPT ![d] = -1]
      BY <2>3
    <3>2. CASE keyFile[d] = -1
      <4>1. keyFile' = keyFile
        BY <1>0, <3>1, <3>2
      <4>2. QED
        BY <2>1, <4>1
    <3>3. CASE keyFile[d] > 0
      <4>1. Vault!Lose(d)
        BY <2>1, <3>1, <3>3 DEF Vault!Lose
      <4>2. QED
        BY <4>1 DEF Vault!VaultNext
    <3>4. QED
      BY <1>0, <3>1, <3>2, <3>3
  <2>4. QED
    BY <1>2, <2>2, <2>3 DEF Damage
<1>3. ASSUME NEW c \in Callers, TraceStep(c) \/ CipherStep(c)
      PROVE  UNCHANGED <<keyFile, Given>>
  <2>1. Elsewhere(c)
    BY <1>0, <1>3, ElsewhereStep DEF KeyInv
  <2>2. /\ \A b \in Callers \ {c} : call'[b] = call[b]
        /\ call'[c].key = call[c].key /\ UNCHANGED keyFile
        /\ call[c].pc # "store" /\ call'[c].pc # "store"
        /\ call'[c].dom = call[c].dom \/ call[c].pc = "start"
    BY <2>1 DEF Elsewhere, keyVars
  <2>3. call[c].pc = "start" => ~ Returned(c)
    BY <1>0, KeyFacts DEF Returned
  <2>4. Given' = Given
    BY <2>2, <2>3, GivenStays DEF Returned
  <2>5. QED
    BY <2>2, <2>4
<1>4. QED
  BY <1>1, <1>2, <1>3, FetchIsVaultStep DEF Next

\* For any number of callers and domains, get_key behaves like a register per domain
\* that is written once, with a key nobody has heard of, and never overwritten
\* (privacy.py, get_key).
THEOREM KeyFilesImplementVault == Spec => ImplementsVault
<1>1. ImplementsVault <=> Vault!VaultInit /\ [][Vault!VaultNext]_<<keyFile, Given>>
  BY DEF ImplementsVault, Vault!VaultSpec, Vault!vaultVars
<1>2. QED
  BY InitVault, NextFresh, NextVault, <1>1, PTL DEF Spec

---------------------------------------------------------------------------
(* Rotation and escrow                                                     *)

\* A call that has used its key keeps it: nothing fails any more.
Settled(c) == call[c].key # 0 /\ call[c].pc \in {"activate", "accept", "assign", "done"}

\* The first version, or one whose key a rotation has escrowed.
Vouched(v) ==
    \/ v = FirstVersion
    \/ \E r \in Callers : Settled(r) /\ call[r].dom = v /\ <<v, call[r].key>> \in escrowed

\* The version that encrypts, and every one an encryption has read, is vouched for.
EscrowInv ==
    /\ Vouched(cur)
    /\ \A c \in Callers :
         /\ call[c].kind = "encrypt" /\ call[c].pc # "start" => Vouched(call[c].dom)
         /\ call[c].kind = "rotate" /\ call[c].pc \in {"activate", "accept", "assign"}
               => <<call[c].dom, call[c].key>> \in escrowed
    /\ EscrowBeforeUse

\* A step of get_key, of the trace store or of a decryption leaves the cipher's state
\* and the other calls alone; an encrypting or rotating call it belongs to stays
\* within get_key or ends.
LEMMA Bystander ==
    ASSUME KeyInv, NEW c \in Callers,
           GetKey(c) \/ TraceStep(c) \/ DecryptStart(c) \/ DecryptEnd(c)
    PROVE  /\ UNCHANGED cipherVars
           /\ \A d \in Callers \ {c} : call'[d] = call[d]
           /\ call'[c].kind = call[c].kind
           /\ call[c].kind \in {"encrypt", "rotate"} =>
                 /\ call'[c].dom = call[c].dom /\ call[c].pc # "start"
                 /\ call'[c].pc \notin {"start", "activate", "accept", "assign"}
<1>0. TypeInv
  BY DEF KeyInv
<1>1. CASE GetKey(c)
  <2>1. Inside(c)
    BY <1>0, <1>1, GetKeyStep
  <2>2. UNCHANGED cipherVars
    BY <1>1 DEF GetKey, LockKey, LookKey, StoreKey, ReleaseKey, Fail
  <2>3. QED
    BY <2>1, <2>2 DEF Inside
<1>2. CASE TraceStep(c)
  <2>1. Elsewhere(c)
    BY <1>0, <1>2, ElsewhereStep
  <2>2. UNCHANGED cipherVars /\ call[c].kind \in {"capture", "read", "purge"}
    BY <1>2 DEF TraceStep, At, CaptureStart, CaptureWrite, ReadStart, ReadOpen, ReadJudge,
       ReadDecrypt, PurgeStart, PurgeRead, PurgeUnlink, PurgeEnd
  <2>3. QED
    BY <2>1, <2>2 DEF Elsewhere
<1>3. CASE DecryptStart(c) \/ DecryptEnd(c)
  <2>1. Elsewhere(c)
    BY <1>0, <1>3, ElsewhereStep DEF CipherStep
  <2>2. UNCHANGED cipherVars /\ call[c].kind = "decrypt"
    BY <1>3 DEF At, DecryptStart, DecryptEnd
  <2>3. QED
    BY <2>1, <2>2 DEF Elsewhere
<1>4. QED
  BY <1>1, <1>2, <1>3

\* What is settled stays, and escrow records are not taken back.
LEMMA VouchedStays ==
    ASSUME KeyInv, Next, NEW v, Vouched(v)
    PROVE  Vouched(v)'
<1>1. escrowed \subseteq escrowed'
  BY ZenonT(40) DEF Next, Tick, Damage, GetKey, LockKey, LookKey, StoreKey, ReleaseKey, Fail,
     TraceStep,
     CaptureStart, CaptureWrite, ReadStart, ReadOpen, ReadJudge, ReadDecrypt, PurgeStart,
     PurgeRead, PurgeUnlink, PurgeEnd, CipherStep, EncryptStart, EncryptEnd, DecryptStart,
     DecryptEnd, RotateStart, RotateEscrow, RotateActivate, RotateReadAccepted,
     RotateAccept,
     cipherVars
<1>2. ASSUME NEW r \in Callers, Settled(r)
      PROVE  Settled(r)' /\ call'[r].dom = call[r].dom /\ call'[r].key = call[r].key
  <2>1. CASE Tick \/ Damage
    BY <1>2, <2>1, EnvironmentType DEF KeyInv, Settled
  <2>2. ASSUME NEW c \in Callers, GetKey(c) PROVE Settled(r)' /\ call'[r] = call[r]
    <3>1. Inside(c) /\ call[c].pc \in {"lock", "look", "store", "release", "keyed"}
      BY <2>2, GetKeyStep DEF KeyInv, GetKey, LockKey, LookKey, StoreKey, ReleaseKey, Fail
    <3>2. QED
      BY <1>2, <3>1 DEF Inside, Settled
  <2>3. ASSUME NEW c \in Callers, TraceStep(c) \/ CipherStep(c)
        PROVE  Settled(r)' /\ call'[r].dom = call[r].dom /\ call'[r].key = call[r].key
    <3>1. Elsewhere(c)
      BY <2>3, ElsewhereStep DEF KeyInv
    <3>2. QED
      BY <1>2, <3>1 DEF Elsewhere, Settled
  <2>4. QED
    BY <2>1, <2>2, <2>3 DEF Next
<1>3. QED
  BY <1>1, <1>2 DEF Vouched

\* How a step of an encryption or a rotation changes its call and the cipher.
LEMMA EncryptRotateStep ==
    ASSUME KeyInv, NEW c \in Callers
    PROVE  /\ EncryptStart(c) =>
                 /\ call[c].kind = "encrypt" /\ call'[c].kind = "encrypt"
                 /\ call'[c].dom = cur /\ UNCHANGED cipherVars
           /\ EncryptEnd(c) =>
                 /\ call[c].kind = "encrypt" /\ call[c].pc = "keyed"
                 /\ call'[c].kind = "encrypt" /\ call'[c].dom = call[c].dom
                 /\ blobs' = blobs \cup {[ver |-> call[c].dom, key |-> call[c].key]}
                 /\ UNCHANGED <<cur, accepted, escrowed, overlap>>
           /\ RotateStart(c) =>
                 /\ call[c].kind = "rotate" /\ call'[c].kind = "rotate"
                 /\ call[c].pc = "start" /\ call'[c].pc = "lock" /\ UNCHANGED cipherVars
           /\ RotateEscrow(c) =>
                 /\ call[c].kind = "rotate" /\ call'[c].kind = "rotate"
                 /\ call[c].pc = "keyed" /\ call'[c].pc \in {"activate", "done"}
                 /\ call'[c].dom = call[c].dom /\ call'[c].key = call[c].key
                 /\ escrowed' = escrowed \cup {<<call[c].dom, call[c].key>>}
                 /\ UNCHANGED <<cur, accepted, blobs, overlap>>
           /\ RotateActivate(c) =>
                 /\ call[c].kind = "rotate" /\ call'[c].kind = "rotate"
                 /\ call[c].pc = "activate" /\ call'[c].pc = "accept"
                 /\ call'[c].dom = call[c].dom /\ call'[c].key = call[c].key
                 /\ cur' = call[c].dom /\ UNCHANGED <<escrowed, accepted, blobs>>
           /\ RotateReadAccepted(c) =>
                 /\ call[c].kind = "rotate" /\ call'[c].kind = "rotate"
                 /\ call[c].pc = "accept" /\ call'[c].pc = "assign"
                 /\ call'[c].dom = call[c].dom /\ call'[c].key = call[c].key
                 /\ call'[c].old = accepted /\ UNCHANGED cipherVars
           /\ RotateAccept(c) =>
                 /\ call[c].kind = "rotate" /\ call'[c].kind = "rotate"
                 /\ call[c].pc = "assign" /\ call'[c].pc = "done"
                 /\ accepted' = call[c].old \cup {call[c].dom}
                 /\ UNCHANGED <<cur, escrowed, blobs, overlap>>
<1>0. call \in [Callers -> Calls] /\ call[c] \in Calls
  BY DEF KeyInv, TypeInv, TypeOK
<1> USE <1>0 DEF At, Become, End, Calls
<1>1. EncryptStart(c) =>
                 /\ call[c].kind = "encrypt" /\ call'[c].kind = "encrypt"
                 /\ call'[c].dom = cur /\ UNCHANGED cipherVars
  BY DEF EncryptStart
<1>2. EncryptEnd(c) =>
                 /\ call[c].kind = "encrypt" /\ call[c].pc = "keyed"
                 /\ call'[c].kind = "encrypt" /\ call'[c].dom = call[c].dom
                 /\ blobs' = blobs \cup {[ver |-> call[c].dom, key |-> call[c].key]}
                 /\ UNCHANGED <<cur, accepted, escrowed, overlap>>
  BY DEF EncryptEnd
<1>3. RotateStart(c) =>
                 /\ call[c].kind = "rotate" /\ call'[c].kind = "rotate"
                 /\ call[c].pc = "start" /\ call'[c].pc = "lock" /\ UNCHANGED cipherVars
  BY DEF RotateStart
<1>4. RotateEscrow(c) =>
                 /\ call[c].kind = "rotate" /\ call'[c].kind = "rotate"
                 /\ call[c].pc = "keyed" /\ call'[c].pc \in {"activate", "done"}
                 /\ call'[c].dom = call[c].dom /\ call'[c].key = call[c].key
                 /\ escrowed' = escrowed \cup {<<call[c].dom, call[c].key>>}
                 /\ UNCHANGED <<cur, accepted, blobs, overlap>>
  <2> SUFFICES ASSUME RotateEscrow(c)
               PROVE  /\ call'[c].kind = call[c].kind /\ call'[c].pc \in {"activate", "done"}
                      /\ call'[c].dom = call[c].dom /\ call'[c].key = call[c].key
    BY DEF RotateEscrow
  <2>1. CASE Become(c, [call[c] EXCEPT !.pc = "activate"])
    BY <2>1
  <2>2. CASE End(c, "failed")
    BY <2>2
  <2>3. QED
    BY <2>1, <2>2 DEF RotateEscrow
<1>5. RotateActivate(c) =>
                 /\ call[c].kind = "rotate" /\ call'[c].kind = "rotate"
                 /\ call[c].pc = "activate" /\ call'[c].pc = "accept"
                 /\ call'[c].dom = call[c].dom /\ call'[c].key = call[c].key
                 /\ cur' = call[c].dom /\ UNCHANGED <<escrowed, accepted, blobs>>
  BY DEF RotateActivate
<1>6. RotateReadAccepted(c) =>
                 /\ call[c].kind = "rotate" /\ call'[c].kind = "rotate"
                 /\ call[c].pc = "accept" /\ call'[c].pc = "assign"
                 /\ call'[c].dom = call[c].dom /\ call'[c].key = call[c].key
                 /\ call'[c].old = accepted /\ UNCHANGED cipherVars
  BY DEF RotateReadAccepted
<1>7. RotateAccept(c) =>
                 /\ call[c].kind = "rotate" /\ call'[c].kind = "rotate"
                 /\ call[c].pc = "assign" /\ call'[c].pc = "done"
                 /\ accepted' = call[c].old \cup {call[c].dom}
                 /\ UNCHANGED <<cur, escrowed, blobs, overlap>>
  BY DEF RotateAccept
<1>8. QED
  BY <1>1, <1>2, <1>3, <1>4, <1>5, <1>6, <1>7

\* No step lets an encryption use a version that nobody vouches for: an encryption
\* and the rotation before it have the same key, by KeyAgreement.
LEMMA NextEscrow == KeyInv /\ EscrowInv /\ [Next]_vars => EscrowInv'
<1> SUFFICES ASSUME KeyInv, EscrowInv, [Next]_vars PROVE EscrowInv'
  OBVIOUS
<1>1. CASE UNCHANGED vars
  BY <1>1 DEF vars, keyVars, cipherVars, EscrowInv, EscrowBeforeUse, Vouched, Settled
<1>2. CASE Next
  <2>0. \A v : Vouched(v) => Vouched(v)'
    BY <1>2, VouchedStays
  <2>1. CASE Tick \/ Damage
    <3>1. call' = call /\ UNCHANGED cipherVars
      BY <2>1, EnvironmentType DEF KeyInv, Tick, Damage
    <3>2. QED
      BY <2>0, <3>1 DEF EscrowInv, EscrowBeforeUse, cipherVars
  <2>2. ASSUME NEW c \in Callers,
               GetKey(c) \/ TraceStep(c) \/ DecryptStart(c) \/ DecryptEnd(c)
        PROVE  EscrowInv'
    BY <2>0, <2>2, Bystander DEF EscrowInv, EscrowBeforeUse, cipherVars
  <2>3. ASSUME NEW c \in Callers,
               \/ EncryptStart(c) \/ EncryptEnd(c) \/ RotateStart(c) \/ RotateEscrow(c)
               \/ RotateActivate(c) \/ RotateReadAccepted(c) \/ RotateAccept(c)
        PROVE  EscrowInv'
    <3>1. Elsewhere(c)
      BY <2>3, ElsewhereStep DEF KeyInv, CipherStep
    <3>2. \A d \in Callers \ {c} : call'[d] = call[d]
      BY <3>1 DEF Elsewhere
    <3>3. CASE EncryptStart(c)
      <4>1. /\ call[c].kind = "encrypt" /\ call'[c].kind = "encrypt"
            /\ call'[c].dom = cur /\ UNCHANGED cipherVars
        BY <3>3, EncryptRotateStep
      <4>2. QED
        BY <2>0, <3>2, <4>1 DEF EscrowInv, EscrowBeforeUse, cipherVars
    <3>4. CASE EncryptEnd(c)
      <4>1. /\ call[c].kind = "encrypt" /\ call[c].pc = "keyed"
            /\ call'[c].kind = "encrypt" /\ call'[c].dom = call[c].dom
            /\ blobs' = blobs \cup {[ver |-> call[c].dom, key |-> call[c].key]}
            /\ UNCHANGED <<cur, accepted, escrowed, overlap>>
        BY <3>4, EncryptRotateStep
      <4>2. call[c].dom # FirstVersion => <<call[c].dom, call[c].key>> \in escrowed
        <5>1. Returned(c) /\ Vouched(call[c].dom)
          BY <4>1 DEF KeyInv, Custody, Fetched, Returned, EscrowInv
        <5>2. \A r \in Callers : Settled(r) => Returned(r)
          BY DEF Settled, Returned
        <5>3. QED
          BY <5>1, <5>2 DEF Vouched, KeyInv, KeyAgreement
      <4>3. EscrowBeforeUse'
        BY <4>1, <4>2 DEF EscrowInv, EscrowBeforeUse
      <4>4. QED
        BY <2>0, <3>2, <4>1, <4>3 DEF EscrowInv
    <3>5. CASE RotateStart(c)
      <4>1. /\ call[c].kind = "rotate" /\ call'[c].kind = "rotate"
            /\ call'[c].pc = "lock" /\ UNCHANGED cipherVars
        BY <3>5, EncryptRotateStep
      <4>2. QED
        BY <2>0, <3>2, <4>1 DEF EscrowInv, EscrowBeforeUse, cipherVars
    <3>6. CASE RotateEscrow(c)
      <4>1. /\ call[c].kind = "rotate" /\ call'[c].kind = "rotate"
            /\ call'[c].dom = call[c].dom /\ call'[c].key = call[c].key
            /\ escrowed' = escrowed \cup {<<call[c].dom, call[c].key>>}
            /\ UNCHANGED <<cur, accepted, blobs, overlap>>
        BY <3>6, EncryptRotateStep
      <4>2. QED
        BY <2>0, <3>2, <4>1 DEF EscrowInv, EscrowBeforeUse
    <3>7. CASE RotateActivate(c)
      <4>1. /\ call[c].kind = "rotate" /\ call'[c].kind = "rotate"
            /\ call[c].pc = "activate"
            /\ call'[c].dom = call[c].dom /\ call'[c].key = call[c].key
            /\ cur' = call[c].dom /\ UNCHANGED <<escrowed, accepted, blobs>>
        BY <3>7, EncryptRotateStep
      <4>2. Settled(c)
        BY <4>1 DEF KeyInv, Custody, Fetched, Settled
      <4>3. Vouched(call[c].dom)
        BY <4>1, <4>2 DEF EscrowInv, Vouched
      <4>4. QED
        BY <2>0, <3>2, <4>1, <4>3 DEF EscrowInv, EscrowBeforeUse
    <3>8. CASE RotateReadAccepted(c)
      <4>1. /\ call[c].kind = "rotate" /\ call'[c].kind = "rotate"
            /\ call[c].pc = "accept"
            /\ call'[c].dom = call[c].dom /\ call'[c].key = call[c].key
            /\ UNCHANGED cipherVars
        BY <3>8, EncryptRotateStep
      <4>2. QED
        BY <2>0, <3>2, <4>1 DEF EscrowInv, EscrowBeforeUse, cipherVars
    <3>9. CASE RotateAccept(c)
      <4>1. /\ call[c].kind = "rotate" /\ call'[c].kind = "rotate"
            /\ call'[c].pc = "done" /\ UNCHANGED <<cur, escrowed, blobs, overlap>>
        BY <3>9, EncryptRotateStep
      <4>2. QED
        BY <2>0, <3>2, <4>1 DEF EscrowInv, EscrowBeforeUse
    <3>10. QED
      BY <2>3, <3>3, <3>4, <3>5, <3>6, <3>7, <3>8, <3>9
  <2>4. QED
    BY <1>2, <2>1, <2>2, <2>3 DEF Next, CipherStep
<1>3. QED
  BY <1>1, <1>2

\* Every blob sealed under a rotated version was sealed with an escrowed key, although
\* rotation and encryption fetch the key on their own (storage_crypto.py, rotate).
THEOREM EscrowPrecedesUse == Spec => []EscrowBeforeUse
<1>1. Init => EscrowInv
  <2>1. \A k \in Kinds : NewCall(k).pc = "start"
    BY DEF NewCall
  <2>2. QED
    BY <2>1 DEF Init, EscrowInv, EscrowBeforeUse, Vouched
<1>2. EscrowInv => EscrowBeforeUse
  BY DEF EscrowInv
<1>3. QED
  BY <1>1, <1>2, InitKey, NextKey, NextEscrow, PTL DEF Spec

\* The versions the cipher accepts, and the one a rotation is about to add.
Openable == accepted \cup {call[c].dom : c \in Assigning}

\* While rotations do not overlap at most one is between its two assignments, it knows
\* all accepted versions, and every version in use is accepted or about to be.
RotationInv ==
    ~ overlap =>
        /\ \A c, d \in Assigning : c = d
        /\ \A c \in Assigning : call[c].pc = "assign" => call[c].old = accepted
        /\ cur \in Openable
        /\ \A b \in blobs : b.ver \in Openable
        /\ \A c \in Callers :
             call[c].kind = "encrypt" /\ call[c].pc # "start" => call[c].dom \in Openable

\* A version is in use by an encryption that has read it.
Using(d, v) == call[d].kind = "encrypt" /\ call[d].pc # "start" /\ call[d].dom = v

\* A step that assigns neither version and brings no new version into use.
LEMMA RotationFrame ==
    ASSUME RotationInv, UNCHANGED <<accepted, overlap, cur>>, Assigning' = Assigning,
           \A d \in Assigning : /\ call'[d].dom = call[d].dom
                                /\ \/ call'[d].pc = call[d].pc /\ call'[d].old = call[d].old
                                   \/ call'[d].old = accepted,
           \A b \in blobs' : b \in blobs \/ \E d \in Callers : Using(d, b.ver),
           \A d \in Callers : \A v : Using(d, v)' => v = cur \/ Using(d, v)
    PROVE  RotationInv'
<1>1. Openable' = Openable
  BY DEF Openable
<1>2. SUFFICES ASSUME ~ overlap PROVE RotationInv'
  BY DEF RotationInv
<1>3. \A d \in Callers : \A v : Using(d, v) => v \in Openable
  BY <1>2 DEF RotationInv, Using
<1>4. \A d \in Callers : \A v : Using(d, v)' => v \in Openable'
  BY <1>1, <1>2, <1>3 DEF RotationInv
<1>5. \A b \in blobs' : b.ver \in Openable'
  BY <1>1, <1>2, <1>3 DEF RotationInv
<1>6. \A d \in Assigning' : call'[d].pc = "assign" => call'[d].old = accepted'
  BY <1>2 DEF RotationInv
<1>7. (\A c, d \in Assigning' : c = d) /\ cur' \in Openable'
  BY <1>1, <1>2 DEF RotationInv
<1>8. QED
  BY <1>4, <1>5, <1>6, <1>7 DEF RotationInv, Using

\* No step makes a version in use unopenable while rotations do not overlap.
LEMMA NextRotation == KeyInv /\ RotationInv /\ [Next]_vars => RotationInv'
<1> SUFFICES ASSUME KeyInv, RotationInv, [Next]_vars PROVE RotationInv'
  OBVIOUS
<1>1. CASE UNCHANGED vars
  BY <1>1 DEF vars, cipherVars, RotationInv, Openable, Assigning
<1>2. CASE Next
  <2>1. CASE Tick \/ Damage
    <3>1. call' = call /\ UNCHANGED cipherVars
      BY <2>1, EnvironmentType DEF KeyInv, Tick, Damage
    <3>2. QED
      BY <3>1 DEF RotationInv, Openable, Assigning, cipherVars
  <2>2. ASSUME NEW c \in Callers,
               GetKey(c) \/ TraceStep(c) \/ DecryptStart(c) \/ DecryptEnd(c)
        PROVE  RotationInv'
    <3>1. /\ UNCHANGED cipherVars
          /\ \A d \in Callers \ {c} : call'[d] = call[d]
          /\ call'[c].kind = call[c].kind
          /\ call[c].kind \in {"encrypt", "rotate"} =>
                 /\ call'[c].dom = call[c].dom /\ call[c].pc # "start"
                 /\ call'[c].pc \notin {"start", "activate", "accept", "assign"}
      BY <2>2, Bystander
    <3>2. call[c].pc \notin {"accept", "assign"} \/ call[c].kind # "rotate"
      BY <2>2 DEF GetKey, LockKey, LookKey, StoreKey, ReleaseKey, Fail, TraceStep, At,
         CaptureStart, CaptureWrite, ReadStart, ReadOpen, ReadJudge, ReadDecrypt,
         PurgeStart,
         PurgeRead, PurgeUnlink, PurgeEnd, DecryptStart, DecryptEnd
    <3>3. Assigning' = Assigning /\ \A d \in Assigning : call'[d] = call[d]
      BY <3>1, <3>2 DEF Assigning
    <3>4. \A d \in Callers : \A v : Using(d, v)' => Using(d, v)
      BY <3>1 DEF Using
    <3>5. UNCHANGED <<accepted, overlap, cur, blobs>>
      BY <3>1 DEF cipherVars
    <3>6. QED
      BY <3>3, <3>4, <3>5, RotationFrame
  <2>3. ASSUME NEW c \in Callers,
               \/ EncryptStart(c) \/ EncryptEnd(c) \/ RotateStart(c) \/ RotateEscrow(c)
               \/ RotateActivate(c) \/ RotateReadAccepted(c) \/ RotateAccept(c)
        PROVE  RotationInv'
    <3>1. \A d \in Callers \ {c} : call'[d] = call[d]
      BY <2>3, ElsewhereStep DEF KeyInv, CipherStep, Elsewhere
    <3>2. CASE EncryptStart(c)
      <4>1. /\ call[c].kind = "encrypt" /\ call'[c].kind = "encrypt"
            /\ call'[c].dom = cur /\ UNCHANGED cipherVars
        BY <3>2, EncryptRotateStep
      <4>2. Assigning' = Assigning /\ \A d \in Assigning : call'[d] = call[d]
        BY <3>1, <4>1 DEF Assigning
      <4>3. \A d \in Callers : \A v : Using(d, v)' => v = cur \/ Using(d, v)
        BY <3>1, <4>1 DEF Using
      <4>4. UNCHANGED <<accepted, overlap, cur, blobs>>
        BY <4>1 DEF cipherVars
      <4>5. QED
        BY <4>2, <4>3, <4>4, RotationFrame
    <3>3. CASE EncryptEnd(c)
      <4>1. /\ call[c].kind = "encrypt" /\ call[c].pc = "keyed"
            /\ call'[c].kind = "encrypt" /\ call'[c].dom = call[c].dom
            /\ blobs' = blobs \cup {[ver |-> call[c].dom, key |-> call[c].key]}
            /\ UNCHANGED <<cur, accepted, escrowed, overlap>>
        BY <3>3, EncryptRotateStep
      <4>2. Assigning' = Assigning /\ \A d \in Assigning : call'[d] = call[d]
        BY <3>1, <4>1 DEF Assigning
      <4>3. \A d \in Callers : \A v : Using(d, v)' => Using(d, v)
        BY <3>1, <4>1 DEF Using
      <4>4. \A b \in blobs' : b \in blobs \/ Using(c, b.ver)
        BY <4>1 DEF Using
      <4>5. QED
        BY <4>1, <4>2, <4>3, <4>4, RotationFrame
    <3>4. CASE RotateStart(c) \/ RotateEscrow(c)
      <4>1. /\ call[c].kind = "rotate" /\ call'[c].kind = "rotate"
            /\ call[c].pc \in {"start", "keyed"} /\ call'[c].pc \in {"lock", "activate", "done"}
            /\ UNCHANGED <<cur, accepted, blobs, overlap>>
        BY <3>4, EncryptRotateStep DEF cipherVars
      <4>2. Assigning' = Assigning /\ \A d \in Assigning : call'[d] = call[d]
        BY <3>1, <4>1 DEF Assigning
      <4>3. \A d \in Callers : \A v : Using(d, v)' => Using(d, v)
        BY <3>1, <4>1 DEF Using
      <4>4. QED
        BY <4>1, <4>2, <4>3, RotationFrame
    <3>5. CASE RotateActivate(c)
      <4>1. /\ call[c].kind = "rotate" /\ call'[c].kind = "rotate"
            /\ call[c].pc = "activate" /\ call'[c].pc = "accept"
            /\ call'[c].dom = call[c].dom
            /\ cur' = call[c].dom /\ UNCHANGED <<accepted, blobs>>
        BY <3>5, EncryptRotateStep
      <4>2. Assigning' = Assigning \cup {c} /\ c \notin Assigning
        BY <3>1, <4>1 DEF Assigning
      <4>3. SUFFICES ASSUME ~ overlap' PROVE RotationInv'
        BY DEF RotationInv
      <4>4. ~ overlap /\ Assigning = {}
        BY <3>5, <4>3 DEF RotateActivate
      <4>5. Openable' = Openable \cup {call[c].dom}
        BY <4>1, <4>2, <4>4 DEF Openable
      <4>6. QED
        BY <3>1, <4>1, <4>2, <4>4, <4>5 DEF RotationInv
    <3>6. CASE RotateReadAccepted(c)
      <4>1. /\ call[c].kind = "rotate" /\ call'[c].kind = "rotate"
            /\ call[c].pc = "accept" /\ call'[c].pc = "assign"
            /\ call'[c].dom = call[c].dom
            /\ call'[c].old = accepted /\ UNCHANGED cipherVars
        BY <3>6, EncryptRotateStep
      <4>2. Assigning' = Assigning
        BY <3>1, <4>1 DEF Assigning
      <4>3. \A d \in Assigning :
               /\ call'[d].dom = call[d].dom
               /\ call'[d] = call[d] \/ call'[d].old = accepted
        BY <3>1, <4>1 DEF Assigning
      <4>4. \A d \in Callers : \A v : Using(d, v)' => Using(d, v)
        BY <3>1, <4>1 DEF Using
      <4>5. UNCHANGED <<accepted, overlap, cur, blobs>>
        BY <4>1 DEF cipherVars
      <4>6. QED
        BY <4>2, <4>3, <4>4, <4>5, RotationFrame
    <3>7. CASE RotateAccept(c)
      <4>1. /\ call[c].kind = "rotate" /\ call'[c].kind = "rotate"
            /\ call[c].pc = "assign" /\ call'[c].pc = "done"
            /\ accepted' = call[c].old \cup {call[c].dom}
            /\ UNCHANGED <<cur, escrowed, blobs, overlap>>
        BY <3>7, EncryptRotateStep
      <4>2. Assigning' = Assigning \ {c} /\ c \in Assigning
        BY <3>1, <4>1 DEF Assigning
      <4>3. SUFFICES ASSUME ~ overlap' PROVE RotationInv'
        BY DEF RotationInv
      <4>4. Assigning = {c} /\ call[c].old = accepted
        BY <4>1, <4>2, <4>3 DEF RotationInv
      <4>5. Openable' = Openable
        BY <4>1, <4>2, <4>4 DEF Openable
      <4>6. QED
        BY <3>1, <4>1, <4>2, <4>3, <4>4, <4>5 DEF RotationInv
    <3>8. QED
      BY <2>3, <3>2, <3>3, <3>4, <3>5, <3>6, <3>7
  <2>4. QED
    BY <1>2, <2>1, <2>2, <2>3 DEF Next, CipherStep
<1>3. QED
  BY <1>1, <1>2

\* As long as no two rotations overlapped, outside a rotation's two assignments the
\* cipher can open every blob it sealed or is sealing (storage_crypto.py, rotate).
THEOREM RotationsKeepBlobsOpenable == Spec => []RotationKeepsBlobsOpenable
<1>1. Init => RotationInv
  <2>1. \A k \in Kinds : NewCall(k).pc = "start"
    BY DEF NewCall
  <2>2. QED
    BY <2>1 DEF Init, RotationInv, Openable, Assigning
<1>2. RotationInv => RotationKeepsBlobsOpenable
  BY DEF RotationInv, RotationKeepsBlobsOpenable, Openable
<1>3. QED
  BY <1>1, <1>2, InitKey, NextKey, NextRotation, PTL DEF Spec

---------------------------------------------------------------------------
(* The traces                                                              *)

Getting == {"lock", "look", "store", "release", "keyed"}
Recorded(i) == call[i].res = "recorded"

\* How far a call t of the trace store is decides what it knows of its trace: reads
\* and purges hold the id of a recorded one; a read past its clock read holds the
\* trace's key and found it unexpired, a purge about to unlink found it expired.
TraceCallInv(t) ==
    /\ t.kind \in {"capture", "read", "purge"} => t.dom = Trace
    /\ t.pc # "done" => t.res = "none"
    /\ t.res = "recorded" => t.kind = "capture" /\ t.key # 0
    /\ t.kind = "read" =>
          /\ t.pc # "start" /\ t.res # "refused" => t.id \in Callers /\ Recorded(t.id)
          /\ t.pc \in Getting \cup {"judge"} => t.target.key = call[t.id].key
          /\ t.pc \in Getting \/ t.res = "payload" => ~ Expired(t.time, t.target)
          /\ t.res = "not_found" => Expired(clock, trace[t.id])
          /\ t.res = "invalid" => damage > 0
    /\ t.kind = "purge" =>
          /\ t.pc \in {"next", "unlink"} => t.time <= clock /\ \A i \in t.todo : Recorded(i)
          /\ t.pc = "unlink" =>
                t.id \in Callers /\ Recorded(t.id) /\ Expired(t.time, trace[t.id])

\* A recorded trace keeps its key; its file is gone only once it has expired.
TraceFileInv(i) ==
    /\ ~ Recorded(i) => trace[i].file = "none"
    /\ Recorded(i) =>
          /\ trace[i].key = call[i].key
          /\ trace[i].file = "none" => Expired(clock, trace[i])
          /\ trace[i].file = "bad" => damage > 0

TraceInv == \A c \in Callers : TraceCallInv(call[c]) /\ TraceFileInv(c)

\* Time and damage do not run back, and what was recorded keeps key and expiry.
Ahead ==
    /\ clock <= clock' /\ damage <= damage'
    /\ \A i \in Callers : Recorded(i) =>
          call'[i] = call[i] /\ trace'[i].key = trace[i].key /\ trace'[i].exp = trace[i].exp

\* What a call knows stays true while the world moves on.
LEMMA TraceCallAhead ==
    ASSUME TypeInv, TypeInv', Ahead, NEW d \in Callers, NEW t \in Calls, TraceCallInv(t),
           call'[d] = t
    PROVE  TraceCallInv(call[d])'
<1>0. /\ clock \in Nat /\ clock' \in Nat /\ damage \in Nat /\ damage' \in Nat
      /\ \A i \in Callers : trace[i].exp \in Nat
      /\ t.time \in Nat /\ t.todo \subseteq Callers
  BY DEF TypeInv, TypeOK, TraceFiles, Calls
<1>1. t.kind = "read" =>
          /\ t.pc # "start" /\ t.res # "refused" =>
                t.id \in Callers /\ Recorded(t.id) /\ call'[t.id] = call[t.id]
          /\ t.res = "not_found" => clock' >= trace'[t.id].exp
          /\ t.res = "invalid" => damage' > 0
  <2> SUFFICES ASSUME t.kind = "read"
               PROVE  /\ t.pc # "start" /\ t.res # "refused" =>
                            t.id \in Callers /\ Recorded(t.id) /\ call'[t.id] = call[t.id]
                      /\ t.res = "not_found" => clock' >= trace'[t.id].exp
                      /\ t.res = "invalid" => damage' > 0
    OBVIOUS
  <2>1. t.pc # "start" /\ t.res # "refused" =>
          t.id \in Callers /\ Recorded(t.id) /\ call'[t.id] = call[t.id]
    BY DEF TraceCallInv, Ahead
  <2>2. ASSUME t.res = "not_found" PROVE clock' >= trace'[t.id].exp
    <3>1. t.pc # "start" /\ t.res # "refused" BY <2>2 DEF TraceCallInv
    <3>2. clock >= trace[t.id].exp BY <2>2 DEF TraceCallInv, Expired
    <3>3. t.id \in Callers /\ trace'[t.id].exp = trace[t.id].exp BY <2>1, <3>1 DEF Ahead
    <3> QED BY <1>0, <3>2, <3>3 DEF Ahead
  <2>3. t.res = "invalid" => damage' > 0 BY <1>0 DEF TraceCallInv, Ahead
  <2> QED BY <2>1, <2>2, <2>3
<1>2. t.kind = "purge" =>
          /\ t.pc \in {"next", "unlink"} =>
                t.time <= clock' /\ \A i \in t.todo : call'[i].res = "recorded"
          /\ t.pc = "unlink" =>
                /\ t.id \in Callers /\ call'[t.id].res = "recorded"
                /\ t.time >= trace'[t.id].exp
  BY <1>0 DEF TraceCallInv, Ahead, Recorded, Expired
<1> QED BY <1>1, <1>2 DEF TraceCallInv, Recorded, Expired, Getting

\* Call c moves to t: a trace file appears only as its own when it records, and
\* disappears only when it has expired.
LEMMA TraceMoves ==
    ASSUME TypeInv, TypeInv', TraceInv, NEW c \in Callers, NEW t \in Calls,
           call[c].pc # "done", call'[c] = t, \A d \in Callers \ {c} : call'[d] = call[d],
           UNCHANGED <<clock, damage>>, TraceCallInv(t),
           \A i \in Callers :
              \/ trace'[i] = trace[i] /\ (i = c => t.res # "recorded")
              \/ /\ Recorded(i) /\ Expired(clock, trace[i]) /\ trace'[i].file = "none"
                 /\ trace'[i].key = trace[i].key /\ trace'[i].exp = trace[i].exp
              \/ /\ i = c /\ t.res = "recorded" /\ trace'[i].file = "good"
                 /\ trace'[i].key = t.key
    PROVE  TraceInv'
<1>1. ~ Recorded(c) BY DEF TraceInv, TraceCallInv, Recorded
<1>2. Ahead
  BY <1>1 DEF Ahead, TypeInv, TypeOK
<1>3. ASSUME NEW d \in Callers PROVE TraceCallInv(call[d])'
  <2>1. CASE d = c BY <1>2, <2>1, TraceCallAhead
  <2>2. CASE d # c
    <3>1. call[d] \in Calls /\ TraceCallInv(call[d]) /\ call'[d] = call[d]
      BY <2>2 DEF TypeInv, TypeOK, TraceInv
    <3> QED BY <1>2, <3>1, TraceCallAhead
  <2> QED BY <2>1, <2>2
<1>4. ASSUME NEW d \in Callers PROVE TraceFileInv(d)'
  <2>1. TraceFileInv(d) BY DEF TraceInv
  <2>2. CASE d = c
    BY <1>1, <2>1, <2>2 DEF TraceFileInv, Recorded, Expired
  <2>3. CASE d # c
    BY <2>1, <2>3 DEF TraceFileInv, Recorded, Expired
  <2> QED BY <2>2, <2>3
<1> QED BY <1>3, <1>4 DEF TraceInv

\* The environment: the clock and damage.
LEMMA TraceEnvironment ==
    ASSUME TypeInv, TraceInv, Tick \/ Damage PROVE TraceInv'
<1>1. TypeInv' /\ call' = call BY EnvironmentType
<1>2. /\ \/ trace' = trace /\ clock' = clock + 1 /\ damage' = damage
         \/ /\ clock' = clock /\ damage' = damage + 1
            /\ \/ trace' = trace
               \/ \E i \in Files : trace' = [trace EXCEPT ![i].file = "bad"]
  BY DEF Tick, Damage
<1>3. clock \in Nat /\ damage \in Nat /\ trace \in [Callers -> TraceFiles]
      /\ \A i \in Callers : trace[i].exp \in Nat
  BY DEF TypeInv, TypeOK, TraceFiles
<1>4. \A i \in Callers :
         /\ trace'[i].key = trace[i].key /\ trace'[i].exp = trace[i].exp
         /\ trace'[i].file = trace[i].file \/ (trace'[i].file = "bad" /\ i \in Files /\ damage' > 0)
  <2>1. ASSUME NEW j \in Files, trace' = [trace EXCEPT ![j].file = "bad"]
        PROVE  \A i \in Callers :
                 /\ trace'[i].key = trace[i].key /\ trace'[i].exp = trace[i].exp
                 /\ trace'[i].file = trace[i].file \/ (trace'[i].file = "bad" /\ i \in Files)
    BY <1>3, <2>1 DEF TraceFiles, Files
  <2>2. damage' > 0 \/ trace' = trace BY <1>2, <1>3
  <2> QED BY <1>2, <2>1, <2>2
<1>5. clock <= clock' /\ damage <= damage' /\ clock' \in Nat /\ damage' \in Nat
  BY <1>2, <1>3
<1>6. Ahead BY <1>1, <1>4, <1>5 DEF Ahead
<1>7. ASSUME NEW d \in Callers PROVE TraceCallInv(call[d])'
  <2>1. call[d] \in Calls /\ TraceCallInv(call[d]) /\ call'[d] = call[d]
    BY <1>1 DEF TypeInv, TypeOK, TraceInv
  <2> QED BY <1>1, <1>6, <2>1, TraceCallAhead
<1>8. ASSUME NEW d \in Callers PROVE TraceFileInv(d)'
  <2>1. TraceFileInv(d) /\ trace[d].exp \in Nat BY <1>3 DEF TraceInv
  <2>2. Recorded(d)' = Recorded(d) BY <1>1 DEF Recorded
  <2>3. d \in Files => Recorded(d) BY <2>1 DEF TraceFileInv, Files
  <2>4. Expired(clock, trace[d]) => Expired(clock, trace[d])'
    BY <1>3, <1>4, <1>5, <2>1 DEF Expired
  <2> QED BY <1>1, <1>3, <1>4, <1>5, <2>1, <2>2, <2>3, <2>4 DEF TraceFileInv
<1> QED BY <1>7, <1>8 DEF TraceInv

\* get_key and the cipher know nothing of traces: what they do to the fields of their
\* call that the trace store reads.
Aside(c) ==
    /\ UNCHANGED <<trace, clock, damage>>
    /\ call[c].pc # "done" /\ call'[c].kind = call[c].kind
    /\ \A d \in Callers \ {c} : call'[d] = call[d]
    /\ \/ call'[c].pc # "done" /\ call'[c].res = call[c].res
       \/ call'[c].pc = "done" /\ call'[c].res \notin {"recorded", "refused"}
    /\ \/ call[c].kind \in {"encrypt", "decrypt", "rotate"}
       \/ /\ call[c].pc \in Getting
          /\ \/ call'[c].pc \in Getting
             \/ call'[c].res = "failed" /\ call'[c].pc = "done"
          /\ call'[c].dom = call[c].dom /\ call'[c].id = call[c].id
          /\ call'[c].time = call[c].time /\ call'[c].target = call[c].target

LEMMA GetKeyAside ==
    ASSUME TypeInv, NEW c \in Callers, GetKey(c) PROVE Aside(c)
<1>0. call \in [Callers -> Calls] /\ call[c] \in Calls /\ UNCHANGED <<trace, clock, damage>>
  BY DEF TypeInv, TypeOK, GetKey, LockKey, LookKey, StoreKey, ReleaseKey, Fail
<1>1. ASSUME NEW p \in {"look", "keyed", "release"}, call[c].pc \in Getting,
             Become(c, [call[c] EXCEPT !.pc = p])
      PROVE  Aside(c)
  BY <1>0, <1>1 DEF Become, Calls, Aside, Getting
<1>2. ASSUME NEW p \in {"release", "store"}, NEW k, call[c].pc \in Getting,
             Become(c, [call[c] EXCEPT !.pc = p, !.key = k])
      PROVE  Aside(c)
  BY <1>0, <1>2 DEF Become, Calls, Aside, Getting
<1>3. ASSUME call[c].pc \in Getting, End(c, "failed") PROVE Aside(c)
  BY <1>0, <1>3 DEF Become, End, Calls, Aside, Getting
<1>4. ASSUME call[c].pc \in Getting,
             Become(c, [call[c] EXCEPT !.pc = "done", !.res = "failed", !.key = 0])
      PROVE  Aside(c)
  BY <1>0, <1>4 DEF Become, Calls, Aside, Getting
<1>5. CASE LockKey(c) BY <1>1, <1>5 DEF LockKey, Getting
<1>6. CASE LookKey(c)
  <2>1. \/ Become(c, [call[c] EXCEPT !.pc = "release", !.key = keyFile[call[c].dom]])
        \/ End(c, "failed")
        \/ Become(c, [call[c] EXCEPT !.pc = "store", !.key = minted + 1])
    BY <1>6 DEF LookKey
  <2>2. call[c].pc \in Getting BY <1>6 DEF LookKey, Getting
  <2> QED BY <1>2, <1>3, <2>1, <2>2
<1>7. CASE StoreKey(c) BY <1>1, <1>7 DEF StoreKey, Getting
<1>8. CASE ReleaseKey(c) BY <1>1, <1>8 DEF ReleaseKey, Getting
<1>9. CASE Fail(c) BY <1>4, <1>9 DEF Fail, Getting
<1> QED BY <1>5, <1>6, <1>7, <1>8, <1>9 DEF GetKey

LEMMA CipherAside ==
    ASSUME TypeInv, NEW c \in Callers, CipherStep(c) PROVE Aside(c)
<1>0. call \in [Callers -> Calls] /\ call[c] \in Calls /\ UNCHANGED <<trace, clock, damage>>
  BY DEF TypeInv, TypeOK, CipherStep, EncryptStart, EncryptEnd, DecryptStart, DecryptEnd,
     RotateStart, RotateEscrow, RotateActivate, RotateReadAccepted, RotateAccept
<1>1. call[c].pc # "done" /\ call[c].kind \in {"encrypt", "decrypt", "rotate"}
  BY DEF CipherStep, EncryptStart, EncryptEnd, DecryptStart, DecryptEnd, At,
     RotateStart, RotateEscrow, RotateActivate, RotateReadAccepted, RotateAccept
<1>2. ASSUME NEW r \in Results \ {"recorded", "refused"}, End(c, r) PROVE Aside(c)
  BY <1>0, <1>1, <1>2 DEF Become, End, Calls, Aside
<1>3. ASSUME NEW p \in {"activate", "accept"}, Become(c, [call[c] EXCEPT !.pc = p])
      PROVE  Aside(c)
  BY <1>0, <1>1, <1>3 DEF Become, Calls, Aside
<1>4. ASSUME NEW v, Become(c, [call[c] EXCEPT !.pc = "lock", !.dom = v]) PROVE Aside(c)
  BY <1>0, <1>1, <1>4 DEF Become, Calls, Aside
<1>5. ASSUME NEW v, NEW f, Become(c, [call[c] EXCEPT !.pc = "lock", !.dom = v, !.target = f])
      PROVE  Aside(c)
  BY <1>0, <1>1, <1>5 DEF Become, Calls, Aside
<1>6. ASSUME NEW v, Become(c, [call[c] EXCEPT !.pc = "assign", !.old = v]) PROVE Aside(c)
  BY <1>0, <1>1, <1>6 DEF Become, Calls, Aside
<1> USE DEF Results
<1>7. CASE EncryptStart(c) BY <1>4, <1>7 DEF EncryptStart
<1>8. CASE EncryptEnd(c) BY <1>2, <1>8 DEF EncryptEnd
<1>9. CASE DecryptStart(c)
  <2>1. PICK b \in blobs :
          \/ Become(c, [call[c] EXCEPT !.pc = "lock", !.dom = b.ver,
                                       !.target = [NoTrace EXCEPT !.key = b.key]])
          \/ End(c, "not_accepted")
    BY <1>9 DEF DecryptStart
  <2> QED BY <1>2, <1>5, <2>1
<1>10. CASE DecryptEnd(c)
  <2>1. End(c, "plaintext") \/ End(c, "invalid") BY <1>10 DEF DecryptEnd
  <2> QED BY <1>2, <2>1
<1>11. CASE RotateStart(c) BY <1>4, <1>11 DEF RotateStart
<1>12. CASE RotateEscrow(c) BY <1>2, <1>3, <1>12 DEF RotateEscrow
<1>13. CASE RotateActivate(c) BY <1>3, <1>13 DEF RotateActivate
<1>14. CASE RotateReadAccepted(c) BY <1>6, <1>14 DEF RotateReadAccepted
<1>15. CASE RotateAccept(c) BY <1>2, <1>15 DEF RotateAccept
<1> QED BY <1>7, <1>8, <1>9, <1>10, <1>11, <1>12, <1>13, <1>14, <1>15 DEF CipherStep

LEMMA TraceAside ==
    ASSUME TypeInv, TypeInv', TraceInv, NEW c \in Callers, Aside(c) PROVE TraceInv'
<1>1. PICK t \in Calls : t = call'[c] BY DEF TypeInv, TypeOK
<1> DEFINE o == call[c]
<1>2. o \in Calls /\ TraceCallInv(o) /\ o.pc # "done" /\ o.res = "none"
  BY DEF TypeInv, TypeOK, TraceInv, TraceCallInv, Aside
<1>3. t.res # "recorded" /\ t.kind = o.kind BY <1>1, <1>2 DEF Aside
<1>4. TraceCallInv(t)
  <2>1. CASE o.kind \in {"encrypt", "decrypt", "rotate"}
    BY <1>1, <1>2, <1>3, <2>1 DEF Aside, TraceCallInv
  <2>2. CASE /\ o.pc \in Getting
             /\ t.pc \in Getting \/ (t.res = "failed" /\ t.pc = "done")
             /\ t.dom = o.dom /\ t.id = o.id /\ t.time = o.time /\ t.target = o.target
    <3>1. t.pc # "done" => t.res = "none" BY <1>1, <1>2 DEF Aside
    <3> QED BY <1>2, <1>3, <2>2, <3>1 DEF TraceCallInv, Getting
  <2> QED BY <1>1, <2>1, <2>2 DEF Aside
<1>5. UNCHANGED <<trace, clock, damage>> /\ \A d \in Callers \ {c} : call'[d] = call[d]
  BY DEF Aside
<1> QED BY <1>1, <1>2, <1>3, <1>4, <1>5, TraceMoves

\* The steps of the trace store that leave the files alone.
LEMMA TraceReads ==
    ASSUME KeyInv, TypeInv', TraceInv, NEW c \in Callers,
           \/ CaptureStart(c) \/ ReadStart(c) \/ ReadOpen(c) \/ ReadJudge(c) \/ ReadDecrypt(c)
           \/ PurgeStart(c) \/ PurgeRead(c) \/ PurgeEnd(c)
    PROVE  TraceInv'
<1> DEFINE o == call[c]
<1>a. UNCHANGED <<trace, clock, damage>>
  BY DEF CaptureStart, ReadStart, ReadOpen, ReadJudge, ReadDecrypt, PurgeStart, PurgeRead,
     PurgeEnd
<1>b. TypeInv /\ call \in [Callers -> Calls] /\ clock \in Nat
  BY DEF KeyInv, TypeInv, TypeOK
<1>0. /\ TypeInv /\ call \in [Callers -> Calls] /\ o \in Calls /\ TraceCallInv(o)
      /\ UNCHANGED <<trace, clock, damage>> /\ clock \in Nat
  BY <1>a, <1>b DEF TraceInv
<1>1. o.pc # "done" /\ o.kind \in {"capture", "read", "purge"}
  BY DEF At, CaptureStart, ReadStart, ReadOpen, ReadJudge, ReadDecrypt, PurgeStart,
     PurgeRead, PurgeEnd
<1>2. o.res = "none" /\ o.dom = Trace BY <1>0, <1>1 DEF TraceCallInv
<1>3. ASSUME NEW t \in Calls, Become(c, t), TraceCallInv(t), t.res # "recorded"
      PROVE  TraceInv'
  <2>1. call'[c] = t /\ \A d \in Callers \ {c} : call'[d] = call[d]
    BY <1>0, <1>3, BecomeType
  <2> QED BY <1>0, <1>1, <1>3, <2>1, TraceMoves
<1>4. ASSUME NEW r \in Results \ {"recorded"}, End(c, r),
             r = "refused" \/ o.kind # "read" \/ (o.id \in Callers /\ Recorded(o.id)),
             o.kind = "read" =>
                /\ r = "payload" => ~ Expired(o.time, o.target)
                /\ r = "not_found" => Expired(clock, trace[o.id])
                /\ r = "invalid" => damage > 0
      PROVE  TraceInv'
  <2> DEFINE t == [call[c] EXCEPT !.pc = "done", !.res = r]
  <2>1. /\ t \in Calls /\ t.pc = "done" /\ t.res = r /\ t.kind = o.kind /\ t.dom = o.dom
        /\ t.id = o.id /\ t.time = o.time /\ t.target = o.target
    BY <1>0 DEF Calls, PCs
  <2>2. Become(c, t) BY <1>4 DEF End
  <2> HIDE DEF t
  <2>3. TraceCallInv(t) BY <1>1, <1>2, <1>4, <2>1 DEF TraceCallInv, Getting
  <2> QED BY <1>3, <2>1, <2>2, <2>3
<1>5. CASE CaptureStart(c)
  <2>1. CASE End(c, "refused") BY <1>4, <2>1 DEF Results
  <2>2. CASE Become(c, [call[c] EXCEPT !.pc = "lock", !.time = clock])
    <3> DEFINE t == [call[c] EXCEPT !.pc = "lock", !.time = clock]
    <3>1. t \in Calls /\ t.pc = "lock" /\ t.kind = "capture" /\ t.res = "none" /\ t.dom = Trace
      BY <1>0, <1>2, <1>5 DEF Calls, PCs, CaptureStart, At, TypeInv, TypeOK
    <3>2. Become(c, t) BY <2>2
    <3> HIDE DEF t
    <3>3. TraceCallInv(t) BY <3>1 DEF TraceCallInv
    <3> QED BY <1>3, <3>1, <3>2, <3>3
  <2> QED BY <1>5, <2>1, <2>2 DEF CaptureStart
<1>6. CASE ReadStart(c)
  <2>1. PICK i \in Callers :
          /\ call[i].res = "recorded"
          /\ End(c, "refused") \/ Become(c, [call[c] EXCEPT !.pc = "open", !.id = i])
    BY <1>6 DEF ReadStart
  <2>2. CASE End(c, "refused") BY <1>4, <2>2 DEF Results
  <2>3. CASE Become(c, [call[c] EXCEPT !.pc = "open", !.id = i])
    <3> DEFINE t == [call[c] EXCEPT !.pc = "open", !.id = i]
    <3>1. /\ t \in Calls /\ t.pc = "open" /\ t.kind = "read" /\ t.res = "none"
          /\ t.dom = Trace /\ t.id = i
      BY <1>0, <1>2, <1>6 DEF Calls, PCs, ReadStart, At
    <3>2. Become(c, t) BY <2>3
    <3> HIDE DEF t
    <3>3. TraceCallInv(t) BY <2>1, <3>1 DEF TraceCallInv, Recorded, Getting
    <3> QED BY <1>3, <3>1, <3>2, <3>3
  <2> QED BY <2>1, <2>2, <2>3
<1>7. CASE ReadOpen(c)
  <2>0. o.kind = "read" /\ o.pc = "open" BY <1>7 DEF ReadOpen, At
  <2>1. o.id \in Callers /\ Recorded(o.id) BY <1>0, <1>2, <2>0 DEF TraceCallInv
  <2>2. PICK f \in TraceFiles : f = trace[o.id] BY <1>0, <2>1 DEF TypeInv, TypeOK
  <2>3. /\ f.key = call[o.id].key
        /\ f.file = "none" => Expired(clock, f)
        /\ f.file = "bad" => damage > 0
    BY <2>1, <2>2 DEF TraceInv, TraceFileInv
  <2>4. CASE f.file = "none"
    <3>1. End(c, "not_found") BY <1>7, <2>2, <2>4 DEF ReadOpen
    <3> QED BY <1>4, <2>1, <2>2, <2>3, <2>4, <3>1 DEF Results
  <2>5. CASE f.file = "bad"
    <3>1. End(c, "invalid") BY <1>7, <2>2, <2>5 DEF ReadOpen
    <3> QED BY <1>4, <2>1, <2>3, <2>5, <3>1 DEF Results
  <2>6. CASE f.file \notin {"none", "bad"}
    <3> DEFINE t == [call[c] EXCEPT !.pc = "judge", !.target = f]
    <3>1. /\ t \in Calls /\ t.pc = "judge" /\ t.kind = "read" /\ t.res = "none"
          /\ t.dom = Trace /\ t.id = o.id /\ t.target = f
      BY <1>0, <1>2, <2>0 DEF Calls, PCs
    <3>2. Become(c, t) BY <1>7, <2>2, <2>6 DEF ReadOpen
    <3> HIDE DEF t
    <3>3. TraceCallInv(t) BY <2>1, <2>3, <3>1 DEF TraceCallInv, Getting
    <3> QED BY <1>3, <3>1, <3>2, <3>3
  <2> QED BY <2>4, <2>5, <2>6
<1>8. CASE ReadJudge(c)
  <2>0. o.kind = "read" /\ o.pc = "judge" BY <1>8 DEF ReadJudge, At
  <2>1. o.id \in Callers /\ Recorded(o.id) /\ o.target.key = call[o.id].key
    BY <1>0, <1>2, <2>0 DEF TraceCallInv
  <2>2. CASE Expired(clock, o.target)
    <3>1. End(c, "expired") BY <1>8, <2>2 DEF ReadJudge
    <3> QED BY <1>4, <2>1, <3>1 DEF Results
  <2>3. CASE ~ Expired(clock, o.target)
    <3> DEFINE t == [call[c] EXCEPT !.pc = "lock", !.time = clock]
    <3>1. /\ t \in Calls /\ t.pc = "lock" /\ t.kind = "read" /\ t.res = "none"
          /\ t.dom = Trace /\ t.id = o.id /\ t.target = o.target /\ t.time = clock
      BY <1>0, <1>2, <2>0 DEF Calls, PCs, TypeInv, TypeOK
    <3>2. Become(c, t) BY <1>8, <2>3 DEF ReadJudge
    <3> HIDE DEF t
    <3>3. TraceCallInv(t) BY <2>1, <2>3, <3>1 DEF TraceCallInv, Getting
    <3> QED BY <1>3, <3>1, <3>2, <3>3
  <2> QED BY <2>2, <2>3
<1>9. CASE ReadDecrypt(c)
  <2>0. o.kind = "read" /\ o.pc = "keyed" BY <1>9 DEF ReadDecrypt, At
  <2>1. /\ o.id \in Callers /\ Recorded(o.id) /\ o.target.key = call[o.id].key
        /\ ~ Expired(o.time, o.target)
    BY <1>0, <1>2, <2>0 DEF TraceCallInv, Getting
  <2>2. Returned(c) BY <2>0 DEF KeyInv, Custody, Fetched, Returned
  <2>3. Returned(o.id) /\ call[o.id].dom = Trace
    BY <2>1 DEF TraceInv, TraceCallInv, Recorded, Returned
  <2>4. o.key = o.target.key BY <1>2, <2>1, <2>2, <2>3 DEF KeyInv, KeyAgreement
  <2>5. End(c, "payload") BY <1>9, <2>4 DEF ReadDecrypt
  <2> QED BY <1>4, <2>1, <2>5 DEF Results
<1>10. CASE PurgeStart(c)
  <2> DEFINE t == [call[c] EXCEPT !.pc = "next", !.time = clock, !.todo = Files]
  <2>1. /\ t \in Calls /\ t.pc = "next" /\ t.kind = "purge" /\ t.res = "none"
        /\ t.dom = Trace /\ t.time = clock /\ t.todo = Files
    BY <1>0, <1>2, <1>10 DEF Calls, PCs, TypeInv, TypeOK, PurgeStart, At, Files
  <2>2. Become(c, t) BY <1>10 DEF PurgeStart
  <2>3. \A i \in Files : Recorded(i) BY DEF Files, TraceInv, TraceFileInv
  <2> HIDE DEF t
  <2>4. TraceCallInv(t) BY <1>0, <2>1, <2>3 DEF TraceCallInv
  <2> QED BY <1>3, <2>1, <2>2, <2>4
<1>11. CASE PurgeRead(c)
  <2>0. o.kind = "purge" /\ o.pc = "next" BY <1>11 DEF PurgeRead, At
  <2>1. /\ o.time <= clock /\ o.todo \subseteq Callers /\ \A i \in o.todo : Recorded(i)
    BY <1>0, <2>0 DEF TraceCallInv, Calls
  <2>2. PICK i \in o.todo :
          \/ /\ Expired(o.time, trace[i])
             /\ Become(c, [[call[c] EXCEPT !.todo = @ \ {i}] EXCEPT !.pc = "unlink", !.id = i])
          \/ Become(c, [call[c] EXCEPT !.todo = @ \ {i}])
    BY <1>11 DEF PurgeRead
  <2>3. CASE Become(c, [call[c] EXCEPT !.todo = @ \ {i}])
    <3> DEFINE t == [call[c] EXCEPT !.todo = @ \ {i}]
    <3>1. /\ t \in Calls /\ t.pc = "next" /\ t.kind = "purge" /\ t.res = "none"
          /\ t.dom = Trace /\ t.time = o.time /\ t.todo \subseteq o.todo
      BY <1>0, <1>2, <2>0 DEF Calls
    <3>2. Become(c, t) BY <2>3
    <3> HIDE DEF t
    <3>3. TraceCallInv(t) BY <2>1, <3>1 DEF TraceCallInv
    <3> QED BY <1>3, <3>1, <3>2, <3>3
  <2>4. CASE /\ Expired(o.time, trace[i])
             /\ Become(c, [[call[c] EXCEPT !.todo = @ \ {i}] EXCEPT !.pc = "unlink", !.id = i])
    <3> DEFINE t == [[call[c] EXCEPT !.todo = @ \ {i}] EXCEPT !.pc = "unlink", !.id = i]
    <3>1. /\ t \in Calls /\ t.pc = "unlink" /\ t.kind = "purge" /\ t.res = "none"
          /\ t.dom = Trace /\ t.time = o.time /\ t.todo \subseteq o.todo /\ t.id = i
      BY <1>0, <1>2, <2>0, <2>1 DEF Calls, PCs
    <3>2. Become(c, t) BY <2>4
    <3> HIDE DEF t
    <3>3. TraceCallInv(t) BY <2>1, <2>4, <3>1 DEF TraceCallInv
    <3> QED BY <1>3, <3>1, <3>2, <3>3
  <2> QED BY <2>2, <2>3, <2>4
<1>12. CASE PurgeEnd(c)
  <2>1. o.kind = "purge" /\ End(c, "purged") BY <1>12 DEF PurgeEnd, At
  <2> QED BY <1>4, <2>1 DEF Results
<1> QED BY <1>5, <1>6, <1>7, <1>8, <1>9, <1>10, <1>11, <1>12

\* A capture writes its file and a purge removes one.
LEMMA TraceWrites ==
    ASSUME KeyInv, TypeInv', TraceInv, NEW c \in Callers, CaptureWrite(c) \/ PurgeUnlink(c)
    PROVE  TraceInv'
<1> DEFINE o == call[c]
<1>0. /\ TypeInv /\ call \in [Callers -> Calls] /\ o \in Calls /\ TraceCallInv(o)
      /\ UNCHANGED <<clock, damage>> /\ clock \in Nat /\ trace \in [Callers -> TraceFiles]
  BY DEF KeyInv, TypeInv, TypeOK, TraceInv, CaptureWrite, PurgeUnlink
<1>1. CASE CaptureWrite(c)
  <2> DEFINE t == [call[c] EXCEPT !.pc = "done", !.res = "recorded"]
             f == [file |-> "good", key |-> call[c].key, exp |-> call[c].time + Ttl]
  <2>0. o.kind = "capture" /\ o.pc = "keyed" /\ o.dom = Trace
    BY <1>0, <1>1 DEF CaptureWrite, At, TraceCallInv
  <2>1. /\ t \in Calls /\ t.pc = "done" /\ t.res = "recorded" /\ t.kind = "capture"
        /\ t.dom = Trace /\ t.key = o.key
    BY <1>0, <2>0 DEF Calls, PCs, Results
  <2>2. Become(c, t) /\ trace' = [trace EXCEPT ![c] = f] BY <1>1 DEF CaptureWrite, End
  <2>3. o.key # 0 BY <2>0 DEF KeyInv, Custody, Fetched
  <2>4. f.file = "good" /\ f.key = o.key OBVIOUS
  <2> HIDE DEF t, f
  <2>5. TraceCallInv(t) BY <2>1, <2>3 DEF TraceCallInv
  <2>6. call'[c] = t /\ \A d \in Callers \ {c} : call'[d] = call[d]
    BY <1>0, <2>1, <2>2, BecomeType
  <2>7. \A i \in Callers :
           \/ trace'[i] = trace[i] /\ (i = c => t.res # "recorded")
           \/ i = c /\ t.res = "recorded" /\ trace'[i].file = "good" /\ trace'[i].key = t.key
    BY <1>0, <2>1, <2>2, <2>4
  <2> QED BY <1>0, <2>0, <2>1, <2>5, <2>6, <2>7, TraceMoves
<1>2. CASE PurgeUnlink(c)
  <2>1. PICK R \in SUBSET Callers : R = o.removed \cup ({o.id} \cap Files)
    BY <1>0 DEF Calls, Files
  <2> DEFINE t == [call[c] EXCEPT !.pc = "next", !.removed = R]
             f == [trace[o.id] EXCEPT !.file = "none"]
  <2>0. o.kind = "purge" /\ o.pc = "unlink" BY <1>2 DEF PurgeUnlink, At
  <2>2. /\ o.id \in Callers /\ Recorded(o.id) /\ Expired(o.time, trace[o.id])
        /\ o.time <= clock /\ o.time \in Nat /\ \A i \in o.todo : Recorded(i)
        /\ o.dom = Trace /\ o.res = "none"
    BY <1>0, <2>0 DEF TraceCallInv, Calls
  <2>3. /\ t \in Calls /\ t.pc = "next" /\ t.res = "none" /\ t.kind = "purge"
        /\ t.dom = Trace /\ t.time = o.time /\ t.todo = o.todo
    BY <1>0, <2>0, <2>2 DEF Calls, PCs
  <2>4. Become(c, t) /\ trace' = [trace EXCEPT ![o.id] = f]
    BY <1>2, <2>1 DEF PurgeUnlink
  <2>5. f.file = "none" /\ f.key = trace[o.id].key /\ f.exp = trace[o.id].exp
        /\ trace[o.id].exp \in Nat
    BY <1>0, <2>2 DEF TraceFiles
  <2> HIDE DEF t, f
  <2>6. TraceCallInv(t) BY <2>2, <2>3 DEF TraceCallInv
  <2>7. call'[c] = t /\ \A d \in Callers \ {c} : call'[d] = call[d]
    BY <1>0, <2>3, <2>4, BecomeType
  <2>8. Expired(clock, trace[o.id]) BY <1>0, <2>2, <2>5 DEF Expired
  <2>9. \A i \in Callers :
           \/ trace'[i] = trace[i] /\ (i = c => t.res # "recorded")
           \/ /\ Recorded(i) /\ Expired(clock, trace[i]) /\ trace'[i].file = "none"
              /\ trace'[i].key = trace[i].key /\ trace'[i].exp = trace[i].exp
    BY <1>0, <2>2, <2>3, <2>4, <2>5, <2>8
  <2> QED BY <1>0, <2>0, <2>3, <2>6, <2>7, <2>9, TraceMoves
<1> QED BY <1>1, <1>2

LEMMA NextTrace == KeyInv /\ TraceInv /\ [Next]_vars => TraceInv'
<1> SUFFICES ASSUME KeyInv, TraceInv, [Next]_vars PROVE TraceInv'
  OBVIOUS
<1>0. TypeInv /\ TypeInv' BY NextType DEF KeyInv
<1>1. CASE UNCHANGED vars
  <2>1. UNCHANGED <<call, trace, clock, damage>> BY <1>1 DEF vars
  <2> QED BY <2>1 DEF TraceInv, TraceCallInv, TraceFileInv, Recorded, Expired
<1>2. CASE Tick \/ Damage BY <1>0, <1>2, TraceEnvironment
<1>3. ASSUME NEW c \in Callers, GetKey(c) PROVE TraceInv'
  BY <1>0, <1>3, GetKeyAside, TraceAside
<1>4. ASSUME NEW c \in Callers, TraceStep(c) PROVE TraceInv'
  BY <1>0, <1>4, TraceReads, TraceWrites DEF TraceStep
<1>5. ASSUME NEW c \in Callers, CipherStep(c) PROVE TraceInv'
  BY <1>0, <1>5, CipherAside, TraceAside
<1> QED BY <1>1, <1>2, <1>3, <1>4, <1>5 DEF Next

\* A recorded trace is served until it expires and not after (privacy.py, read, purge,
\* capture): no interleaving of captures, purges and reads with the creation of the key
\* makes a read miss an unexpired trace, serve one that had expired when it looked at
\* the clock, or reject one that nobody damaged.
THEOREM TracesServedUntilExpiry == Spec => []TraceServedUntilExpiry
<1>1. Init => TraceInv
  <2> SUFFICES ASSUME Init PROVE TraceInv OBVIOUS
  <2>1. \A k \in Kinds : /\ NewCall(k).pc = "start" /\ NewCall(k).res = "none"
                         /\ NewCall(k).dom = Trace
    BY DEF NewCall
  <2>2. ASSUME NEW c \in Callers
        PROVE  call[c].pc = "start" /\ call[c].res = "none" /\ call[c].dom = Trace
    <3>1. PICK k \in Kinds : call[c] = NewCall(k) BY DEF Init
    <3> QED BY <2>1, <3>1
  <2>3. \A c \in Callers : trace[c].file = "none"
    BY DEF Init, NoTrace
  <2> QED BY <2>2, <2>3 DEF TraceInv, TraceCallInv, TraceFileInv, Recorded, Getting
<1>2. TraceInv => TraceServedUntilExpiry
  BY DEF TraceInv, TraceCallInv, TraceServedUntilExpiry
<1> QED BY <1>1, <1>2, InitKey, NextKey, NextTrace, PTL DEF Spec
===========================================================================
