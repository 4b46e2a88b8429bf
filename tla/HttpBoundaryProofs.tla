------------------------ MODULE HttpBoundaryProofs ------------------------
(***************************************************************************)
(* Machine-checked proofs about HttpBoundary, for any number of            *)
(* connections and any number of I/O faults and process deaths.            *)
(***************************************************************************)
EXTENDS HttpBoundary, TLAPS

HttpPCs == {"accept", "dispatch", "auditEmission", "reject", "send", "done"}

ConnType ==
    [pc : HttpPCs, kind : Kinds, status : Nat, inTry : BOOLEAN, sent : Nat,
     rejections : Nat, emitted : BOOLEAN]

Events == [conn : Conns, outcome : {"EMITTED", "REJECTED"}, status : Nat]

\* The types of connections and file; the counters are not read by anything.
HttpTypeInv ==
    /\ conn \in [Conns -> ConnType]
    /\ lines \in Seq([event : Events, whole : BOOLEAN])
    /\ torn \in BOOLEAN

Fresh(t) == t.pc \in {"accept", "dispatch", "auditEmission"}

\* How far a connection is decides how often it has been counted and as what; the
\* one way back to "reject" is from the 401 sent inside the try block.
CountInv(t) ==
    /\ Fresh(t) => t.rejections = 0 /\ ~t.inTry /\ ~t.emitted
    /\ t.pc # "done" => t.sent = 0
    /\ t.pc = "reject" =>
          /\ t.status \notin {200, 503} /\ ~t.emitted
          /\ t.rejections \in {0, 1}
          /\ t.inTry => t.kind = "noAuthRef" /\ t.rejections = 0
          /\ t.rejections = 1 => t.kind = "noAuthRef" /\ t.status = 500
    /\ t.pc = "send" =>
          /\ t.inTry => t.kind = "noAuthRef" /\ t.rejections = 1 /\ ~t.emitted
          /\ t.rejections > 1 => t.kind = "noAuthRef" /\ t.status \in {500, 503}
    /\ t.rejections > 1 => t.kind = "noAuthRef" /\ t.sent \in {0, 500, 503}
    /\ t.emitted => t.rejections = 0 /\ t.pc \in {"send", "done"}

Outcome(status) == IF status = 200 THEN "EMITTED" ELSE "REJECTED"

\* What the audit file L knows of connection c at its record t: nothing before it is
\* judged, the outcome when a response is due, only emissions of an emitted one, and
\* only rejections of one that may be rejected again.
LogInv(c, t, L) ==
    /\ Fresh(t) => \A ev \in L : ev.conn # c
    /\ (t.pc = "send" /\ t.status # 503 /\ t.kind # "probe") =>
          Event(c, Outcome(t.status), t.status) \in L
    /\ (t.sent \notin {0, 503} /\ t.kind # "probe") => Event(c, Outcome(t.sent), t.sent) \in L
    /\ t.emitted => \A ev \in L : ev.conn = c => ev.outcome = "EMITTED"
    /\ (t.pc = "reject" \/ (t.pc = "send" /\ t.inTry)) =>
          \A ev \in L : ev.conn = c => ev.outcome = "REJECTED"

\* The inductive invariant.
HttpIInv ==
    /\ HttpTypeInv
    /\ \A c \in Conns : CountInv(conn[c]) /\ LogInv(c, conn[c], Logged)

---------------------------------------------------------------------------
(* The audit file.                                                         *)

\* The statuses of the early rejections are neither a success nor the 503.
LEMMA EarlyStatus ==
    ASSUME NEW k \in DOMAIN EarlyReject
    PROVE  EarlyReject[k] \in Nat \ {200, 503}
BY DEF EarlyReject

\* A line that is written is logged, and nothing that was logged is lost.
LEMMA LineLogged ==
    ASSUME HttpTypeInv, NEW ev \in Events, LineWritten(ev)
    PROVE  /\ Logged' = Logged \cup {ev}
           /\ lines' \in Seq([event : Events, whole : BOOLEAN])
           /\ torn' \in BOOLEAN
<1> DEFINE S == [event : Events, whole : BOOLEAN]
           whole == ~torn
           l == [event |-> ev, whole |-> whole]
<1> whole \in BOOLEAN
  BY DEF HttpTypeInv
<1>1. lines' = Append(lines, l) /\ lines \in Seq(S)
  BY DEF LineWritten, HttpTypeInv
<1> HIDE DEF whole
<1>2. l \in S
  OBVIOUS
<1> HIDE DEF S
<1>3. /\ lines' \in Seq(S) /\ Len(lines) \in Nat
      /\ DOMAIN lines = 1..Len(lines) /\ DOMAIN lines' = 1..(Len(lines) + 1)
  BY <1>1, <1>2
<1>4. /\ \A i \in 1..Len(lines) : lines'[i] = lines[i]
      /\ lines'[Len(lines) + 1] = l
  BY <1>1, <1>2
<1>5. l.event = ev
  OBVIOUS
<1> HIDE DEF l
<1>6. Logged' = Logged \cup {ev}
  BY <1>3, <1>4, <1>5 DEF Logged
<1>7. QED
  BY <1>3, <1>6 DEF S, LineWritten

\* An append that succeeds logs its event; one that fails may have.
LEMMA Appended ==
    ASSUME HttpTypeInv, NEW ev \in Events, AppendSucceeds(ev) \/ AppendFails(ev)
    PROVE  /\ Logged' = Logged \/ Logged' = Logged \cup {ev}
           /\ AppendSucceeds(ev) => Logged' = Logged \cup {ev}
           /\ lines' \in Seq([event : Events, whole : BOOLEAN])
           /\ torn' \in BOOLEAN
<1>1. CASE LineWritten(ev)
  BY <1>1, LineLogged DEF AppendSucceeds
<1>2. CASE ~LineWritten(ev)
  <2>1. UNCHANGED lines /\ torn' \in BOOLEAN /\ ~AppendSucceeds(ev)
    BY <1>2 DEF AppendSucceeds, AppendFails, HttpTypeInv
  <2>2. QED
    BY <2>1 DEF HttpTypeInv, Logged
<1>3. QED
  BY <1>1, <1>2

---------------------------------------------------------------------------
(* The steps.                                                              *)

\* A step of connection c that at most logs an event of its own leaves what is known
\* of the others as it is.
LEMMA BecomeKeeps ==
    ASSUME HttpIInv, NEW c \in Conns, NEW r \in ConnType, Become(c, r),
           lines' \in Seq([event : Events, whole : BOOLEAN]), torn' \in BOOLEAN,
           NEW ev, ev.conn = c, Logged' \in {Logged, Logged \cup {ev}},
           CountInv(r), LogInv(c, r, Logged')
    PROVE  HttpIInv'
<1>1. conn \in [Conns -> ConnType]
  BY DEF HttpIInv, HttpTypeInv
<1>2. conn' = [conn EXCEPT ![c] = r] /\ conn' \in [Conns -> ConnType]
  BY <1>1 DEF Become
<1>3. ASSUME NEW d \in Conns PROVE CountInv(conn'[d]) /\ LogInv(d, conn'[d], Logged')
  <2>1. CASE d = c
    BY <1>1, <1>2, <2>1
  <2>2. CASE d # c
    <3>1. conn'[d] = conn[d] /\ CountInv(conn[d]) /\ LogInv(d, conn[d], Logged)
      BY <1>1, <1>2, <2>2 DEF HttpIInv
    <3>2. Logged \subseteq Logged' /\ \A e \in Logged' : e \in Logged \/ e.conn # d
      BY <2>2
    <3>3. LogInv(d, conn[d], Logged')
      BY <3>1, <3>2 DEF LogInv
    <3>4. QED
      BY <3>1, <3>3
  <2>3. QED
    BY <2>1, <2>2
<1>4. HttpTypeInv'
  BY <1>2 DEF HttpTypeInv
<1>5. QED
  BY <1>3, <1>4 DEF HttpIInv

\* A step that writes nothing.
LEMMA SilentKeeps ==
    ASSUME HttpIInv, NEW c \in Conns, NEW r \in ConnType, Become(c, r),
           UNCHANGED <<lines, torn>>, CountInv(r), LogInv(c, r, Logged)
    PROVE  HttpIInv'
<1> DEFINE ev == Event(c, "REJECTED", 0)
<1>1. ev.conn = c /\ Logged' = Logged
  BY DEF Event, Logged
<1>2. lines' \in Seq([event : Events, whole : BOOLEAN]) /\ torn' \in BOOLEAN
  BY DEF HttpIInv, HttpTypeInv
<1> HIDE DEF ev
<1>3. QED
  BY <1>1, <1>2, BecomeKeeps

\* The updates of a connection's record keep its type.
LEMMA UpdateType ==
    ASSUME NEW t \in ConnType, NEW p \in HttpPCs, NEW s \in Nat
    PROVE  /\ [t EXCEPT !.pc = p, !.status = s] \in ConnType
           /\ \A b \in BOOLEAN : /\ [t EXCEPT !.pc = p, !.status = s, !.inTry = b] \in ConnType
                                /\ [t EXCEPT !.pc = p, !.status = s, !.emitted = b] \in ConnType
           /\ \A n \in Nat : /\ [t EXCEPT !.pc = p, !.rejections = n] \in ConnType
                            /\ [t EXCEPT !.pc = p, !.rejections = n, !.status = s] \in ConnType
                            /\ [t EXCEPT !.pc = p, !.status = s, !.rejections = n] \in ConnType
BY DEF ConnType

\* Each step of a connection, one case per action.
LEMMA ConnKeeps ==
    ASSUME HttpIInv, NEW c \in Conns,
           \/ Accept(c) \/ Dispatch(c) \/ Reject(c)
           \/ AuditEmission(c) \/ Send(c) \/ SendFails(c)
    PROVE  HttpIInv'
<1> DEFINE t == conn[c]
<1>1. t \in ConnType /\ CountInv(t) /\ LogInv(c, t, Logged) /\ HttpTypeInv
  BY DEF HttpIInv, HttpTypeInv
<1>2. /\ t.status \in Nat /\ t.rejections \in Nat /\ t.kind \in Kinds
      /\ t.inTry \in BOOLEAN /\ t.emitted \in BOOLEAN
  BY <1>1 DEF ConnType
<1> HIDE DEF t
<1>3. CASE Accept(c)
  <2>1. CASE Become(c, [t EXCEPT !.pc = "send", !.status = 200]) /\ t.kind = "probe"
    <3> DEFINE r == [t EXCEPT !.pc = "send", !.status = 200]
    <3>1. r \in ConnType
      BY <1>1, ZenonT(40) DEF ConnType, HttpPCs
    <3>2. CountInv(r) /\ LogInv(c, r, Logged)
      BY <1>1, <1>3, <2>1 DEF Accept, t, ConnType, CountInv, LogInv, Fresh
    <3>3. QED
      BY <1>3, <2>1, <3>1, <3>2, SilentKeeps DEF Accept, t
  <2>2. CASE Become(c, [t EXCEPT !.pc = "dispatch"])
    <3> DEFINE r == [t EXCEPT !.pc = "dispatch"]
    <3>1. r \in ConnType
      BY <1>1 DEF ConnType, HttpPCs
    <3>2. CountInv(r) /\ LogInv(c, r, Logged)
      BY <1>1, <1>3, <2>2 DEF Accept, t, ConnType, CountInv, LogInv, Fresh
    <3>3. QED
      BY <1>3, <2>2, <3>1, <3>2, SilentKeeps DEF Accept, t
  <2>3. CASE /\ t.kind \in DOMAIN EarlyReject
             /\ Become(c, [t EXCEPT !.pc = "reject", !.status = EarlyReject[t.kind],
                                    !.inTry = (t.kind = "noAuthRef")])
    <3>0. PICK s \in Nat \ {200, 503}, b \in BOOLEAN :
            /\ Become(c, [t EXCEPT !.pc = "reject", !.status = s, !.inTry = b])
            /\ b => t.kind = "noAuthRef"
      BY <2>3, EarlyStatus, ZenonT(40)
    <3> DEFINE r == [t EXCEPT !.pc = "reject", !.status = s, !.inTry = b]
    <3>1. r \in ConnType
      BY <1>1 DEF ConnType, HttpPCs
    <3>2. CountInv(r) /\ LogInv(c, r, Logged)
      BY <1>1, <1>2, <1>3, <3>0 DEF Accept, t, ConnType, CountInv, LogInv, Fresh
    <3>3. QED
      BY <1>3, <3>0, <3>1, <3>2, SilentKeeps DEF Accept, t
  <2>4. QED
    BY <1>3, <2>1, <2>2, <2>3 DEF Accept, t
<1>4. CASE Dispatch(c)
  <2>1. CASE Become(c, [t EXCEPT !.pc = "auditEmission"])
    <3> DEFINE r == [t EXCEPT !.pc = "auditEmission"]
    <3>1. r \in ConnType
      BY <1>1 DEF ConnType, HttpPCs
    <3>2. CountInv(r) /\ LogInv(c, r, Logged)
      BY <1>1, <1>4 DEF Dispatch, t, ConnType, CountInv, LogInv, Fresh
    <3>3. QED
      BY <1>4, <2>1, <3>1, <3>2, SilentKeeps DEF Dispatch, t
  <2>2. ASSUME NEW s \in {400, 500}, Become(c, [t EXCEPT !.pc = "reject", !.status = s])
        PROVE  HttpIInv'
    <3> DEFINE r == [t EXCEPT !.pc = "reject", !.status = s]
    <3>1. r \in ConnType
      <4>1. "reject" \in HttpPCs /\ s \in Nat
        BY <1>2 DEF HttpPCs
      <4>2. QED
        BY <1>1, <4>1, UpdateType, ZenonT(30)
    <3>2. CountInv(r) /\ LogInv(c, r, Logged)
      BY <1>1, <1>4 DEF Dispatch, t, ConnType, CountInv, LogInv, Fresh
    <3>3. QED
      BY <1>4, <2>2, <3>1, <3>2, SilentKeeps DEF Dispatch, t
  <2>3. QED
    BY <1>4, <2>1, <2>2 DEF Dispatch, t
<1>5. CASE Reject(c)
  <2> DEFINE ev == Event(c, "REJECTED", t.status)
  <2>1. ev \in Events /\ ev.conn = c /\ ev.outcome = "REJECTED" /\ t.pc = "reject"
    BY <1>2, <1>5 DEF Event, Events, Reject, t
  <2>2. CASE /\ AppendSucceeds(ev)
             /\ Become(c, [t EXCEPT !.pc = "send", !.rejections = @ + 1])
    <3> DEFINE r == [t EXCEPT !.pc = "send", !.rejections = @ + 1]
    <3>0. /\ Logged' = Logged \cup {ev} /\ torn' \in BOOLEAN
          /\ lines' \in Seq([event : Events, whole : BOOLEAN])
      BY <1>1, <2>1, <2>2, Appended
    <3>1. r \in ConnType
      <4>1. "send" \in HttpPCs /\ t.rejections + 1 \in Nat
        BY <1>2 DEF HttpPCs
      <4>2. QED
        BY <1>1, <4>1, UpdateType, Zenon
    <3>2. CountInv(r)
      BY <1>1, <1>2, <2>1 DEF ConnType, CountInv, Fresh
    <3>3. LogInv(c, r, Logged \cup {ev})
      BY <1>1, <1>2, <2>1 DEF ConnType, CountInv, LogInv, Fresh, Outcome
    <3>4. QED
      BY <2>1, <2>2, <3>0, <3>1, <3>2, <3>3, BecomeKeeps
  <2>3. CASE /\ AppendFails(ev)
             /\ Become(c, [t EXCEPT !.pc = "send", !.rejections = @ + 1, !.status = 503])
    <3> DEFINE r == [t EXCEPT !.pc = "send", !.rejections = @ + 1, !.status = 503]
    <3>0. /\ Logged' \in {Logged, Logged \cup {ev}} /\ torn' \in BOOLEAN
          /\ lines' \in Seq([event : Events, whole : BOOLEAN])
      BY <1>1, <2>1, <2>3, Appended
    <3>1. r \in ConnType
      <4>1. "send" \in HttpPCs /\ t.rejections + 1 \in Nat
        BY <1>2 DEF HttpPCs
      <4>2. PICK s \in Nat : s = 503
        OBVIOUS
      <4>3. [t EXCEPT !.pc = "send", !.rejections = @ + 1, !.status = s] \in ConnType
        BY <1>1, <4>1, UpdateType, Zenon
      <4>4. QED
        BY <4>2, <4>3
    <3>2. CountInv(r)
      BY <1>1, <1>2, <2>1 DEF ConnType, CountInv, Fresh
    <3>3. LogInv(c, r, Logged')
      BY <1>1, <1>2, <2>1, <3>0 DEF ConnType, CountInv, LogInv, Fresh
    <3>4. QED
      BY <2>1, <2>3, <3>0, <3>1, <3>2, <3>3, BecomeKeeps
  <2>4. QED
    BY <1>5, <2>2, <2>3 DEF Reject, t
<1>6. CASE AuditEmission(c)
  <2> DEFINE ev == Event(c, "EMITTED", 200)
  <2>1. ev \in Events /\ ev.conn = c /\ ev.outcome = "EMITTED" /\ t.pc = "auditEmission"
    BY <1>6 DEF Event, Events, AuditEmission, t
  <2>2. CASE /\ AppendSucceeds(ev)
             /\ Become(c, [t EXCEPT !.pc = "send", !.status = 200, !.emitted = TRUE])
    <3> DEFINE r == [t EXCEPT !.pc = "send", !.status = 200, !.emitted = TRUE]
    <3>0. /\ Logged' = Logged \cup {ev} /\ torn' \in BOOLEAN
          /\ lines' \in Seq([event : Events, whole : BOOLEAN])
      BY <1>1, <2>1, <2>2, Appended
    <3>1. r \in ConnType
      <4>1. "send" \in HttpPCs
        BY DEF HttpPCs
      <4>2. PICK s \in Nat : s = 200
        OBVIOUS
      <4>3. [t EXCEPT !.pc = "send", !.status = s, !.emitted = TRUE] \in ConnType
        BY <1>1, <4>1, UpdateType, Zenon
      <4>4. QED
        BY <4>2, <4>3
    <3>2. CountInv(r)
      BY <1>1, <1>2, <2>1 DEF ConnType, CountInv, Fresh
    <3>3. LogInv(c, r, Logged \cup {ev})
      BY <1>1, <1>2, <2>1 DEF ConnType, CountInv, LogInv, Fresh, Outcome
    <3>4. QED
      BY <2>1, <2>2, <3>0, <3>1, <3>2, <3>3, BecomeKeeps
  <2>3. CASE /\ AppendFails(ev)
             /\ Become(c, [t EXCEPT !.pc = "send", !.status = 503, !.rejections = @ + 1])
    <3> DEFINE r == [t EXCEPT !.pc = "send", !.status = 503, !.rejections = @ + 1]
    <3>0. /\ Logged' \in {Logged, Logged \cup {ev}} /\ torn' \in BOOLEAN
          /\ lines' \in Seq([event : Events, whole : BOOLEAN])
      BY <1>1, <2>1, <2>3, Appended
    <3>1. r \in ConnType
      <4>1. "send" \in HttpPCs /\ t.rejections + 1 \in Nat
        BY <1>2 DEF HttpPCs
      <4>2. PICK s \in Nat : s = 503
        OBVIOUS
      <4>3. [t EXCEPT !.pc = "send", !.status = s, !.rejections = @ + 1] \in ConnType
        BY <1>1, <4>1, UpdateType, Zenon
      <4>4. QED
        BY <4>2, <4>3
    <3>2. CountInv(r)
      BY <1>1, <1>2, <2>1 DEF ConnType, CountInv, Fresh
    <3>3. LogInv(c, r, Logged')
      BY <1>1, <1>2, <2>1 DEF ConnType, CountInv, LogInv, Fresh
    <3>4. QED
      BY <2>1, <2>3, <3>0, <3>1, <3>2, <3>3, BecomeKeeps, ZenonT(40)
  <2>4. QED
    BY <1>6, <2>2, <2>3 DEF AuditEmission, t
<1>7. CASE Send(c)
  <2> DEFINE r == [t EXCEPT !.pc = "done", !.sent = t.status, !.inTry = FALSE]
  <2>1. r \in ConnType
    BY <1>1, <1>2 DEF ConnType, HttpPCs
  <2>2. CountInv(r)
    BY <1>1, <1>2, <1>7 DEF Send, t, ConnType, CountInv, Fresh
  <2>3. LogInv(c, r, Logged)
    BY <1>1, <1>2, <1>7 DEF Send, t, ConnType, CountInv, LogInv, Fresh
  <2>4. QED
    BY <1>7, <2>1, <2>2, <2>3, SilentKeeps DEF Send, t
<1>8. CASE SendFails(c)
  <2>1. CASE t.inTry /\ Become(c, [t EXCEPT !.pc = "reject", !.status = 500, !.inTry = FALSE])
    <3> DEFINE r == [t EXCEPT !.pc = "reject", !.status = 500, !.inTry = FALSE]
    <3>1. r \in ConnType
      <4>1. "reject" \in HttpPCs
        BY <1>2 DEF HttpPCs
      <4>2. PICK s \in Nat : s = 500
        OBVIOUS
      <4>3. [t EXCEPT !.pc = "reject", !.status = s, !.inTry = FALSE] \in ConnType
        BY <1>1, <4>1, UpdateType, Zenon
      <4>4. QED
        BY <4>2, <4>3
    <3>2. CountInv(r)
      BY <1>1, <1>2, <1>8, <2>1 DEF SendFails, t, ConnType, CountInv, Fresh
    <3>3. LogInv(c, r, Logged)
      BY <1>1, <1>2, <1>8, <2>1 DEF SendFails, t, ConnType, CountInv, LogInv, Fresh
    <3>4. QED
      BY <1>8, <2>1, <3>1, <3>2, <3>3, SilentKeeps DEF SendFails, t
  <2>2. CASE Become(c, [t EXCEPT !.pc = "done"])
    <3> DEFINE r == [t EXCEPT !.pc = "done"]
    <3>1. r \in ConnType
      BY <1>1, <1>2 DEF ConnType, HttpPCs
    <3>2. CountInv(r)
      BY <1>1, <1>2, <1>8 DEF SendFails, t, ConnType, CountInv, Fresh
    <3>3. LogInv(c, r, Logged)
      BY <1>1, <1>2, <1>8 DEF SendFails, t, ConnType, CountInv, LogInv, Fresh
    <3>4. QED
      BY <1>8, <2>2, <3>1, <3>2, <3>3, SilentKeeps DEF SendFails, t
  <2>3. QED
    BY <1>8, <2>1, <2>2 DEF SendFails, t
<1>9. QED
  BY <1>3, <1>4, <1>5, <1>6, <1>7, <1>8

\* A process death ends the open connections without an answer and keeps the file.
LEMMA CrashKeeps == ASSUME HttpIInv, Crash PROVE HttpIInv'
<1>1. conn \in [Conns -> ConnType] /\ Logged' = Logged
  BY DEF HttpIInv, HttpTypeInv, Crash, Logged
<1>2. ASSUME NEW c \in Conns
      PROVE  /\ conn'[c] \in ConnType
             /\ CountInv(conn'[c]) /\ LogInv(c, conn'[c], Logged)
  <2>1. conn[c] \in ConnType /\ CountInv(conn[c]) /\ LogInv(c, conn[c], Logged)
    BY <1>1 DEF HttpIInv
  <2>2. CASE ~InFlight(c)
    BY <2>1, <2>2 DEF Crash
  <2>3. CASE InFlight(c)
    <3> DEFINE r == [conn[c] EXCEPT !.pc = "done"]
    <3>1. conn'[c] = r /\ conn[c].pc \notin {"accept", "done"}
      BY <2>3 DEF Crash, InFlight
    <3>2. r \in ConnType
      BY <2>1 DEF ConnType, HttpPCs
    <3>3. CountInv(r) /\ LogInv(c, r, Logged)
      BY <2>1, <3>1 DEF ConnType, CountInv, LogInv, Fresh
    <3>4. QED
      BY <3>1, <3>2, <3>3
  <2>4. QED
    BY <2>2, <2>3
<1>3. conn' \in [Conns -> ConnType]
  BY <1>2 DEF Crash
<1>4. torn' \in BOOLEAN /\ lines' = lines
  BY DEF Crash, HttpIInv, HttpTypeInv
<1>5. QED
  BY <1>1, <1>2, <1>3, <1>4 DEF HttpIInv, HttpTypeInv

\* Threads, faults and process deaths keep the invariant.
LEMMA NextHttp == HttpIInv /\ [Next]_vars => HttpIInv'
<1> SUFFICES ASSUME HttpIInv, [Next]_vars PROVE HttpIInv'
  OBVIOUS
<1>1. CASE Next
  BY <1>1, ConnKeeps, CrashKeeps DEF Next
<1>2. CASE UNCHANGED vars
  BY <1>2 DEF vars, HttpIInv, HttpTypeInv, Logged
<1>3. QED
  BY <1>1, <1>2

\* Before the first connection is accepted nothing is counted and nothing logged.
LEMMA InitHttp == Init => HttpIInv
<1> SUFFICES ASSUME Init PROVE HttpIInv
  OBVIOUS
<1>1. \A k \in Kinds : NewConn(k) \in ConnType
  BY DEF NewConn, ConnType, HttpPCs
<1>2. conn \in [Conns -> ConnType] /\ Logged = {} /\ torn \in BOOLEAN
      /\ lines \in Seq([event : Events, whole : BOOLEAN])
  <2>1. conn \in [Conns -> ConnType]
    BY <1>1 DEF Init
  <2>2. lines = <<>> /\ torn = FALSE
    BY DEF Init
  <2>3. Logged = {}
    BY <2>2 DEF Logged
  <2> DEFINE S == [event : Events, whole : BOOLEAN]
  <2> HIDE DEF S
  <2>4. lines \in Seq(S)
    BY <2>2
  <2>5. QED
    BY <2>1, <2>2, <2>3, <2>4 DEF S
<1>3. ASSUME NEW c \in Conns PROVE CountInv(conn[c]) /\ LogInv(c, conn[c], Logged)
  <2>1. PICK k \in Kinds : conn[c] = NewConn(k)
    BY DEF Init
  <2>2. QED
    BY <1>2, <2>1 DEF NewConn, CountInv, LogInv, Fresh
<1>4. QED
  BY <1>2, <1>3 DEF HttpIInv, HttpTypeInv

---------------------------------------------------------------------------
(* The theorems.                                                           *)

\* The inductive invariant holds throughout.
THEOREM HttpInvariant == Spec => []HttpIInv
<1>1. QED
  BY InitHttp, NextHttp, PTL DEF Spec

\* Fail closed (http_api.py, _reject and the emission in do_POST): however many
\* appends fail or are cut short by a process death, no client receives a read
\* result or a rejection other than 503 that the audit file does not record.
THEOREM AnswersAreAudited == Spec => []AnsweredIsAudited
<1>1. HttpIInv => AnsweredIsAudited
  <2> SUFFICES ASSUME HttpIInv, NEW c \in Conns,
                      conn[c].sent \notin {0, 503}, conn[c].kind # "probe"
               PROVE  Event(c, Outcome(conn[c].sent), conn[c].sent) \in Logged
    BY DEF AnsweredIsAudited, Outcome
  <2>1. QED
    BY DEF HttpIInv, LogInv
<1>2. QED
  BY <1>1, HttpInvariant, PTL

\* No connection is counted or audited with both outcomes, and only the 401 of
\* do_POST's try block can be rejected twice, although the write to a client that
\* is gone raises inside and outside of that block.
THEOREM OutcomesAreUnique == Spec => []OneOutcomeRecorded
<1>1. HttpIInv => OneOutcomeRecorded
  <2> SUFFICES ASSUME HttpIInv, NEW c \in Conns
               PROVE  /\ conn[c].emitted =>
                            /\ conn[c].rejections = 0
                            /\ \A ev \in Logged : ev.conn = c => ev.outcome = "EMITTED"
                      /\ conn[c].rejections > 1 =>
                            conn[c].kind = "noAuthRef" /\ conn[c].sent \in {0, 500, 503}
    BY DEF OneOutcomeRecorded
  <2>1. CountInv(conn[c]) /\ LogInv(c, conn[c], Logged)
    BY DEF HttpIInv
  <2>2. conn[c].emitted => conn[c].rejections = 0
    BY <2>1 DEF CountInv
  <2>3. conn[c].emitted => \A ev \in Logged : ev.conn = c => ev.outcome = "EMITTED"
    BY <2>1 DEF LogInv
  <2>4. conn[c].rejections > 1 => conn[c].kind = "noAuthRef" /\ conn[c].sent \in {0, 500, 503}
    BY <2>1 DEF CountInv
  <2>5. QED
    BY <2>2, <2>3, <2>4
<1>2. QED
  BY <1>1, HttpInvariant, PTL
---------------------------------------------------------------------------
(* Refinement                                                              *)

Answered(t) == IF t.kind = "probe" THEN 0 ELSE t.sent

\* A step that leaves file and answers as they are shows nothing.
LEMMA QuietStep ==
    ASSUME Logged' = Logged,
           \A c \in Conns : Answered(conn[c])' = Answered(conn[c])
    PROVE  [Audited!AuditNext]_(Audited!auditVars)
<1> DEFINE answer == [c \in Conns |-> Answered(conn[c])]
<1>1. answer' = answer
  OBVIOUS
<1>2. QED
  BY <1>1 DEF Audited!auditVars, Answered

\* An append, failed or not, records the outcome of its connection or nothing.
LEMMA AppendRefines ==
    ASSUME HttpIInv, NEW c \in Conns, conn[c].pc \in {"reject", "auditEmission"},
           NEW ev \in Events, ev.conn = c,
           ev.outcome = IF conn[c].pc = "reject" THEN "REJECTED" ELSE "EMITTED",
           ev.outcome = Outcome(ev.status),
           Logged' = Logged \/ Logged' = Logged \cup {ev},
           \A d \in Conns : Answered(conn[d])' = Answered(conn[d])
    PROVE  [Audited!AuditNext]_(Audited!auditVars)
<1> DEFINE answer == [d \in Conns |-> Answered(conn[d])]
<1>1. CASE Logged' = Logged
  BY <1>1, QuietStep
<1>2. CASE Logged' = Logged \cup {ev} /\ ev \notin Logged
  <2>1. CountInv(conn[c]) /\ LogInv(c, conn[c], Logged)
    BY DEF HttpIInv
  <2>2. answer[c] = 0
    BY <2>1 DEF CountInv, Answered
  <2>3. \A e \in Logged : e.conn = c => e.outcome = ev.outcome
    BY <2>1 DEF LogInv, Fresh
  <2>4. answer' = answer
    OBVIOUS
  <2>5. ev \in Logged' \ Logged
    BY <1>2
  <2>6. ev.outcome = Audited!Outcome(ev.status)
    BY DEF Outcome, Audited!Outcome
  <2>7. Audited!Record(c)
    BY <1>2, <2>2, <2>3, <2>4, <2>5, <2>6 DEF Audited!Record, Audited!About, Answered
  <2>8. QED
    BY <2>7 DEF Audited!AuditNext
<1>3. QED
  BY <1>1, <1>2

\* Only _send changes what a client has received.
LEMMA OnlySendAnswers ==
    ASSUME HttpTypeInv, NEW c \in Conns,
           Accept(c) \/ Dispatch(c) \/ Reject(c) \/ AuditEmission(c) \/ SendFails(c)
    PROVE  conn'[c].sent = conn[c].sent /\ conn'[c].kind = conn[c].kind
<1>1. conn[c] \in ConnType /\ conn \in [Conns -> ConnType]
  BY DEF HttpTypeInv
<1>2. CASE Accept(c)
  <2>1. CASE Become(c, [conn[c] EXCEPT !.pc = "send", !.status = 200])
    BY <1>1, <2>1 DEF Become, ConnType
  <2>2. CASE Become(c, [conn[c] EXCEPT !.pc = "dispatch"])
    BY <1>1, <2>2 DEF Become, ConnType
  <2>3. CASE Become(c, [conn[c] EXCEPT !.pc = "reject", !.status = EarlyReject[conn[c].kind],
                                       !.inTry = (conn[c].kind = "noAuthRef")])
    <3>1. PICK s, b : conn'[c] = [conn[c] EXCEPT !.pc = "reject", !.status = s, !.inTry = b]
      BY <1>1, <2>3 DEF Become
    <3>2. QED
      BY <1>1, <3>1 DEF ConnType
  <2>4. QED
    BY <1>2, <2>1, <2>2, <2>3 DEF Accept
<1>3. CASE Dispatch(c)
  <2>1. CASE Become(c, [conn[c] EXCEPT !.pc = "auditEmission"])
    BY <1>1, <2>1 DEF Become, ConnType
  <2>2. ASSUME NEW s \in {400, 500},
               Become(c, [conn[c] EXCEPT !.pc = "reject", !.status = s])
        PROVE  conn'[c].sent = conn[c].sent /\ conn'[c].kind = conn[c].kind
    BY <1>1, <2>2 DEF Become, ConnType
  <2>3. QED
    BY <1>3, <2>1, <2>2 DEF Dispatch
<1>4. CASE Reject(c)
  <2>1. CASE Become(c, [conn[c] EXCEPT !.pc = "send", !.rejections = @ + 1])
    BY <1>1, <2>1 DEF Become, ConnType
  <2>2. CASE Become(c, [conn[c] EXCEPT !.pc = "send", !.rejections = @ + 1, !.status = 503])
    BY <1>1, <2>2 DEF Become, ConnType
  <2>3. QED
    BY <1>4, <2>1, <2>2 DEF Reject
<1>5. CASE AuditEmission(c)
  <2>1. CASE Become(c, [conn[c] EXCEPT !.pc = "send", !.status = 200, !.emitted = TRUE])
    BY <1>1, <2>1 DEF Become, ConnType
  <2>2. CASE Become(c, [conn[c] EXCEPT !.pc = "send", !.status = 503, !.rejections = @ + 1])
    BY <1>1, <2>2 DEF Become, ConnType
  <2>3. QED
    BY <1>5, <2>1, <2>2 DEF AuditEmission
<1>6. CASE SendFails(c)
  <2>1. CASE Become(c, [conn[c] EXCEPT !.pc = "reject", !.status = 500, !.inTry = FALSE])
    BY <1>1, <2>1 DEF Become, ConnType
  <2>2. CASE Become(c, [conn[c] EXCEPT !.pc = "done"])
    BY <1>1, <2>2 DEF Become, ConnType
  <2>3. QED
    BY <1>6, <2>1, <2>2 DEF SendFails
<1>7. QED
  BY <1>2, <1>3, <1>4, <1>5, <1>6

\* Each step of a connection records, answers, or shows nothing.
LEMMA ConnRefines ==
    ASSUME HttpIInv, NEW c \in Conns,
           \/ Accept(c) \/ Dispatch(c) \/ Reject(c)
           \/ AuditEmission(c) \/ Send(c) \/ SendFails(c)
    PROVE  [Audited!AuditNext]_(Audited!auditVars)
<1> DEFINE t == conn[c]
           answer == [d \in Conns |-> Answered(conn[d])]
<1>1. /\ conn \in [Conns -> ConnType] /\ t \in ConnType
      /\ CountInv(t) /\ LogInv(c, t, Logged) /\ HttpTypeInv
  BY DEF HttpIInv, HttpTypeInv
<1>2. /\ t.status \in Nat /\ t.kind \in Kinds
      /\ \A d \in Conns \ {c} : conn'[d] = conn[d]
  BY <1>1 DEF ConnType, Accept, Dispatch, Reject, AuditEmission, Send, SendFails, Become
<1>3. CASE Send(c)
  <2>1. /\ t.pc = "send" /\ UNCHANGED lines
        /\ conn'[c].sent = t.status /\ conn'[c].kind = t.kind
    BY <1>1, <1>3 DEF Send, Become, ConnType
  <2>2. Logged' = Logged
    BY <2>1 DEF Logged
  <2>3. CASE t.kind = "probe"
    BY <1>2, <2>1, <2>2, <2>3, QuietStep DEF Answered
  <2>4. CASE t.kind # "probe"
    <3>1. answer[c] = 0 /\ answer' = [answer EXCEPT ![c] = t.status]
      <4>1. Answered(t) = 0 /\ Answered(conn[c])' = t.status
        BY <1>1, <2>1, <2>4 DEF Answered, CountInv
      <4>2. \A d \in Conns \ {c} : Answered(conn[d])' = Answered(conn[d])
        BY <1>2 DEF Answered
      <4>3. QED
        BY <4>1, <4>2
    <3>2. CASE t.status = 503
      <4>1. t.status \in {503} \cup {ev.status : ev \in Audited!About(c)}
        BY <3>2
      <4>2. Audited!Answer(c)
        BY <2>2, <3>1, <4>1 DEF Audited!Answer, Answered
      <4>3. QED
        BY <4>2 DEF Audited!AuditNext
    <3>3. CASE t.status # 503
      <4>1. Event(c, Outcome(t.status), t.status) \in Logged
        BY <1>1, <2>1, <2>4, <3>3 DEF LogInv
      <4>2. t.status \in {ev.status : ev \in Audited!About(c)}
        BY <4>1 DEF Audited!About, Event
      <4>3. Audited!Answer(c)
        BY <2>2, <3>1, <4>2 DEF Audited!Answer, Answered
      <4>4. QED
        BY <4>3 DEF Audited!AuditNext
    <3>4. QED
      BY <3>2, <3>3
  <2>5. QED
    BY <2>3, <2>4
<1>4. CASE Accept(c) \/ Dispatch(c) \/ SendFails(c)
  <2>1. UNCHANGED lines /\ conn'[c].sent = t.sent /\ conn'[c].kind = t.kind
    <3>1. UNCHANGED lines
      BY <1>4 DEF Accept, Dispatch, SendFails
    <3>2. conn'[c].sent = conn[c].sent /\ conn'[c].kind = conn[c].kind
      BY <1>1, <1>4, OnlySendAnswers
    <3>3. QED
      BY <3>1, <3>2
  <2>2. Logged' = Logged
    BY <2>1 DEF Logged
  <2>3. QED
    BY <1>2, <2>1, <2>2, QuietStep DEF Answered
<1>5. CASE Reject(c)
  <2> DEFINE ev == Event(c, "REJECTED", t.status)
  <2>1. /\ ev \in Events /\ ev.conn = c /\ ev.outcome = "REJECTED" /\ ev.status = t.status
        /\ t.pc = "reject" /\ (AppendSucceeds(ev) \/ AppendFails(ev))
    BY <1>2, <1>5 DEF Event, Events, Reject
  <2>2. conn'[c].sent = t.sent /\ conn'[c].kind = t.kind
    BY <1>1, <1>5, OnlySendAnswers
  <2>3. t.status # 200
    BY <1>1, <2>1 DEF CountInv
  <2>4. Logged' = Logged \/ Logged' = Logged \cup {ev}
    BY <1>1, <2>1, Appended
  <2> HIDE DEF ev
  <2>5. QED
    BY <1>2, <2>1, <2>2, <2>3, <2>4, AppendRefines DEF Outcome, Answered
<1>6. CASE AuditEmission(c)
  <2> DEFINE ev == Event(c, "EMITTED", 200)
  <2>1. /\ ev \in Events /\ ev.conn = c /\ ev.outcome = "EMITTED" /\ ev.status = 200
        /\ t.pc = "auditEmission" /\ (AppendSucceeds(ev) \/ AppendFails(ev))
    BY <1>6 DEF Event, Events, AuditEmission
  <2>2. conn'[c].sent = t.sent /\ conn'[c].kind = t.kind
    BY <1>1, <1>6, OnlySendAnswers
  <2>3. Logged' = Logged \/ Logged' = Logged \cup {ev}
    BY <1>1, <2>1, Appended
  <2> HIDE DEF ev
  <2>4. QED
    BY <1>2, <2>1, <2>2, <2>3, AppendRefines DEF Outcome, Answered
<1>7. QED
  BY <1>3, <1>4, <1>5, <1>6

\* The boundary implements AuditedAnswers: for any number of threads, I/O faults
\* and process deaths, every outcome reaches the audit file before its client, and
\* nothing about a client reaches it after its answer or with the other outcome.
THEOREM BoundaryImplementsAuditedAnswers == Spec => ImplementsAuditedAnswers
<1>1. Init => Audited!AuditInit
  <2> SUFFICES ASSUME Init PROVE Audited!AuditInit
    OBVIOUS
  <2>1. Logged = {}
    BY DEF Init, Logged
  <2>2. \A c \in Conns : conn[c].sent = 0
    BY DEF Init, NewConn
  <2>3. QED
    BY <2>1, <2>2 DEF Audited!AuditInit
<1>2. HttpIInv /\ [Next]_vars => [Audited!AuditNext]_(Audited!auditVars)
  <2> SUFFICES ASSUME HttpIInv, [Next]_vars
               PROVE  [Audited!AuditNext]_(Audited!auditVars)
    OBVIOUS
  <2>1. ASSUME NEW c \in Conns,
               \/ Accept(c) \/ Dispatch(c) \/ Reject(c)
               \/ AuditEmission(c) \/ Send(c) \/ SendFails(c)
        PROVE  [Audited!AuditNext]_(Audited!auditVars)
    BY <2>1, ConnRefines
  <2>2. CASE Crash
    <3>1. Logged' = Logged
      BY <2>2 DEF Crash, Logged
    <3>2. \A c \in Conns : conn'[c].sent = conn[c].sent /\ conn'[c].kind = conn[c].kind
      BY <2>2 DEF Crash, HttpIInv, HttpTypeInv, ConnType
    <3>3. QED
      BY <3>1, <3>2, QuietStep DEF Answered
  <2>3. CASE UNCHANGED vars
    BY <2>3, QuietStep DEF vars, Logged, Answered
  <2>4. QED
    BY <2>1, <2>2, <2>3 DEF Next
<1>3. QED
  BY <1>1, <1>2, InitHttp, NextHttp, PTL
     DEF Spec, ImplementsAuditedAnswers, Audited!AuditSpec
===========================================================================
