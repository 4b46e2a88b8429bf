--------------------------- MODULE ProcessGuards ---------------------------
(***************************************************************************)
(* The in-memory guards of one process (pmiri/request_auth.py: ReplayGuard *)
(* and FixedWindowRateLimiter), as RequestAuthorizationService.evaluate    *)
(* uses them when no durable ones are supplied (module ControlPlane has    *)
(* those).  Each consume is atomic under its Lock, but the times it is     *)
(* given were read before, so calls reach the guards in any order:         *)
(*                                                                         *)
(*   start -> rate -> replay -> allowed | denied                           *)
(***************************************************************************)
EXTENDS Integers, Sequences, FiniteSets

CONSTANTS
    GuardCalls,     \* calls of evaluate by threads of the process
    GuardIds,       \* request_id values
    GuardUntil,     \* valid_until of the principals that call
    MaxEntries,     \* ReplayGuard.max_entries
    GuardRequests,  \* FixedWindowRateLimiter.max_requests
    GuardWindow,    \* FixedWindowRateLimiter.window_seconds
    GuardMaxClock   \* bound: the last second of the clock

\* Both constructors refuse smaller values.
ASSUME GuardsAssumption ==
    /\ MaxEntries \in Nat \ {0}
    /\ GuardRequests \in Nat \ {0} /\ GuardWindow \in Nat \ {0}
    /\ GuardUntil \subseteq Nat /\ GuardMaxClock \in Nat

VARIABLES seen, window, gcall, gclock, consumed

pgVars == <<seen, window, gcall, gclock, consumed>>

\* seen: _order, with the expiry that _seen has for each id.  window: the row of
\* _windows for the one key (principal and operation), or none.  consumed is
\* history: the calls of ReplayGuard.consume, in that order.
PGInit ==
    /\ seen = <<>>
    /\ window = <<>>
    /\ gclock = 0
    /\ consumed = <<>>
    /\ gcall \in [GuardCalls -> {[pc |-> "start", id |-> i, until |-> u, now |-> 0, win |-> -1] :
                                    i \in GuardIds, u \in GuardUntil}]

CallAt(c, l) == gcall[c].pc = l
MoveCall(c, r) == gcall' = [gcall EXCEPT ![c] = r]
CallDenied(c) == MoveCall(c, [gcall[c] EXCEPT !.pc = "denied"])

\* current = utc_now(), by which the principal must still be valid.
StartCall(c) ==
    /\ CallAt(c, "start")
    /\ \/ /\ gclock <= gcall[c].until
          /\ MoveCall(c, [gcall[c] EXCEPT !.pc = "rate", !.now = gclock])
       \/ gclock > gcall[c].until /\ CallDenied(c)
    /\ UNCHANGED <<seen, window, gclock, consumed>>

---------------------------------------------------------------------------
(* FixedWindowRateLimiter.consume                                          *)

\* Defect for mutation: a window that is not this second's is over.
WindowOver_NotNow(t) == t # window[1].start

WindowOver(t) == t - window[1].start >= GuardWindow

\* The row found for the key, or a fresh one.
RateRow(t) ==
    IF window = <<>> \/ (window # <<>> /\ WindowOver(t)) THEN [start |-> t, count |-> 0]
    ELSE window[1]

\* The service's clock is read just before the lock is taken.
LimitRate(c) ==
    /\ CallAt(c, "rate")
    /\ \E t \in gcall[c].now..gclock :
          LET row == RateRow(t)
          IN  \/ /\ row.count < GuardRequests
                 /\ window' = <<[row EXCEPT !.count = @ + 1]>>
                 /\ MoveCall(c, [gcall[c] EXCEPT !.pc = "replay", !.win = row.start])
              \/ /\ row.count >= GuardRequests
                 /\ window' = <<row>>
                 /\ CallDenied(c)
    /\ UNCHANGED <<seen, gclock, consumed>>

---------------------------------------------------------------------------
(* ReplayGuard.consume                                                     *)

\* The while loop: expired ids at the front go; one that is not expired keeps those
\* behind it, expired or not.
Purged(now) ==
    LET expired == {n \in 0..Len(seen) : \A i \in 1..n : seen[i].expires <= now}
        n == CHOOSE m \in expired : \A k \in expired : k <= m
    IN  SubSeq(seen, n + 1, Len(seen))

\* Defect for mutation: room is made one entry too early.
WithRoom_Early(q) == IF Len(q) + 1 >= MaxEntries /\ q # <<>> THEN Tail(q) ELSE q

\* At max_entries the oldest id is evicted, expired or not.
WithRoom(q) == IF Len(q) >= MaxEntries THEN Tail(q) ELSE q

ConsumeId(c) ==
    LET t == gcall[c]
        q == Purged(t.now)
        known == \E i \in DOMAIN q : q[i].id = t.id
    IN  /\ CallAt(c, "replay")
        /\ \/ known /\ seen' = q /\ CallDenied(c)
           \/ /\ ~known
              /\ seen' = Append(WithRoom(q), [id |-> t.id, expires |-> t.until])
              /\ MoveCall(c, [t EXCEPT !.pc = "allowed"])
        /\ consumed' = Append(consumed, [id |-> t.id, expires |-> t.until,
                                         now |-> t.now, ok |-> ~known])
        /\ UNCHANGED <<window, gclock>>

TickGuards ==
    /\ gclock < GuardMaxClock
    /\ gclock' = gclock + 1
    /\ UNCHANGED <<seen, window, gcall, consumed>>

PGNext == (\E c \in GuardCalls : StartCall(c) \/ LimitRate(c) \/ ConsumeId(c)) \/ TickGuards

PGSpec == PGInit /\ [][PGNext]_pgVars

---------------------------------------------------------------------------
(* Properties                                                              *)

Entries == [id : GuardIds, expires : GuardUntil]

\* Type invariant: the deque and the dictionary hold the same ids, each once, and
\* no more than max_entries of them.
PGTypeOK ==
    /\ seen \in Seq(Entries) /\ Len(seen) <= MaxEntries
    /\ \A i, k \in DOMAIN seen : seen[i].id = seen[k].id => i = k
    /\ window \in Seq([start : 0..GuardMaxClock, count : 1..GuardRequests])
    /\ gcall \in [GuardCalls -> [pc : {"start", "rate", "replay", "allowed", "denied"},
                    id : GuardIds, until : GuardUntil, now : 0..GuardMaxClock,
                    win : -1..GuardMaxClock]]
    /\ gclock \in 0..GuardMaxClock
    /\ consumed \in Seq([id : GuardIds, expires : GuardUntil, now : 0..GuardMaxClock,
                         ok : BOOLEAN])

Accepted(i) == consumed[i].ok
Between(i, k) == {m \in (i + 1)..(k - 1) : Accepted(m)}

\* A request_id is accepted a second time only after a call came for whose clock
\* read the first acceptance had expired, or after max_entries other ids were
\* accepted in between: the guard's bound is the only way to lose an id before
\* its time, and it loses the oldest one, in whatever order clock reads and
\* calls come.
ForgottenOnlyWhenPushedOut ==
    \A i, k \in DOMAIN consumed :
        (i < k /\ Accepted(i) /\ Accepted(k) /\ consumed[i].id = consumed[k].id) =>
            \/ \E m \in (i + 1)..k : consumed[i].expires <= consumed[m].now
            \/ Cardinality(Between(i, k)) >= MaxEntries

\* A window admits at most max_requests calls, and the next window starts no
\* sooner than window_seconds later, although the times that calls bring are
\* read before the lock and may come in the wrong order.
InWindow(w) == {c \in GuardCalls : gcall[c].win = w}

WindowAllowance ==
    \A w \in 0..GuardMaxClock :
        /\ Cardinality(InWindow(w)) <= GuardRequests
        /\ \A v \in (w + 1)..GuardMaxClock :
              (InWindow(w) # {} /\ InWindow(v) # {}) => v - w >= GuardWindow
============================================================================
