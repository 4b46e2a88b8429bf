------------------------------ MODULE MCGateD ------------------------------
(* The Gate-D parts of one process on small instances.  A behaviour is     *)
(* about the emission fence, the in-memory guards, one outbound target or  *)
(* one record of fetched content, chosen at the start, so that their       *)
(* states do not multiply.                                                 *)
EXTENDS MCEmissionFence, ProcessGuards, OutboundTarget, ConnectorContent

CONSTANTS c1, c2, c3, c4, i1, i2, i3

VARIABLE part

mcVars == <<part, vars, pgVars, outVars, ccVars>>

PathTokens == {Slash, Dot, "a", "%2e", "%c3"}
LongPaths == {<<Slash>> \o p : p \in UNION {[1..n -> PathTokens] : n \in 0..4}}
ShortPaths == {NoPath, <<Slash, "%">>, <<Slash, "%2f">>, <<Slash, "a">>}

\* Two calls bring the same request id.
MCIds == (c1 :> i1) @@ (c2 :> i2) @@ (c3 :> i3) @@ (c4 :> i1)

\* Every path for an answer that is allowed; every answer for a short path.
MCOutPaths == ShortPaths
MCOutAnswers == UNION {[1..n -> AddressKinds] : n \in 0..2}

PlainDecision == NewDecision("ok", <<Slash, "a">>, <<"public">>, "MATCHED", "MATCHED", TRUE)

\* Records of fetched content: chains of states with at most one illegal step,
\* truthfully projected, and legal ones with a wrong time, origin or other field.
BodyOf(h) ==
    LET s == IF h = <<>> THEN "NOT_APPLICABLE" ELSE h[Len(h)].to
    IN  [operation |-> "connector_fetch", history |-> h, ends |-> s,
         visibility |-> Visibility(s), typed |-> s = "ADMITTED_TYPED_DATA", bound |-> TRUE]

Chain(c, at) ==
    [i \in DOMAIN c |-> Transition(IF i = 1 THEN "NOT_APPLICABLE" ELSE c[i - 1], c[i],
                                   IF i = 1 THEN at ELSE 1, TRUE)]

IllegalSteps(h) == {i \in DOMAIN h : <<h[i].from, h[i].to>> \notin LEGAL_TRANSITIONS}

Chains(n, at, k) ==
    {h \in {Chain(c, at) : c \in UNION {[1..m -> LIFECYCLES] : m \in 0..n}} :
        Cardinality(IllegalSteps(h)) <= k}

LegalBodies == {BodyOf(h) : h \in Chains(3, 0, 0)}

FlawedBodies ==
    LET of(b) == {[b EXCEPT !.operation = "external_fetch"], [b EXCEPT !.bound = FALSE],
                  [b EXCEPT !.typed = ~@], [b EXCEPT !.visibility = "QUARANTINE_ONLY"],
                  [b EXCEPT !.ends = "QUARANTINED"]}
                 \cup {[b EXCEPT !.history[i].named = FALSE] : i \in DOMAIN b.history}
                 \cup {[b EXCEPT !.history[i].at = 3 - i] : i \in DOMAIN b.history}
                 \cup {[b EXCEPT !.history[i].from = s] :
                          i \in DOMAIN b.history, s \in LIFECYCLES}
    IN  UNION {of(b) : b \in LegalBodies}

MCDrafts == {BodyOf(h) : h \in Chains(4, 0, 1) \cup Chains(2, 1, 0)} \cup FlawedBodies

MCRevisions ==
    {BodyOf(<<>>), BodyOf(Chain(<<"QUARANTINED">>, 0)), BodyOf(Chain(<<"QUARANTINED">>, 1)),
     BodyOf(Chain(<<"QUARANTINED", "ADMITTED_TYPED_DATA">>, 0)),
     BodyOf(Chain(<<"QUARANTINED", "REJECTED">>, 0))}

\* Revisions, and decisions without a record, only among the revisions.
ContentBound ==
    \/ body \in Revisions /\ seal \in Revisions \cup {NoBody}
    \/ body' = body /\ (net' = net \/ net'.from # NoBody)

MCInit ==
    /\ part \in {"fence", "guards", "outbound", "content"}
    /\ CCInit /\ (part # "content" => body = BodyOf(<<>>))
    /\ \/ part = "fence" /\ Init
       \/ part # "fence" /\ CPInit /\ engineNow = clock /\ provider = NoTransport
          /\ \E d \in Dests : job = [j \in Jobs |-> NewJob(d)]
    /\ \/ part = "guards" /\ PGInit /\ [c \in GuardCalls |-> gcall[c].id] = MCIds
          /\ gcall[c2].until = 1 /\ gcall[c3].until = 3 /\ gcall[c4].until = 3
       \/ /\ part # "guards" /\ seen = <<>> /\ window = <<>> /\ gclock = 0 /\ consumed = <<>>
          /\ gcall = [c \in GuardCalls |->
                [pc |-> "start", id |-> i1, until |-> 1, now |-> 0, win |-> -1]]
    /\ outEpoch = 0
    /\ \/ part = "outbound" /\ OutInit
       \/ /\ part = "outbound"
          /\ \E p \in LongPaths :
                out = NewDecision("ok", p, <<"public", "public">>, "MATCHED", "MATCHED", TRUE)
       \/ part # "outbound" /\ out = PlainDecision

MCNext ==
    /\ \/ part = "fence" /\ Next /\ UNCHANGED <<pgVars, outVars, ccVars>>
       \/ part = "guards" /\ PGNext /\ UNCHANGED <<vars, outVars, ccVars>>
       \/ part = "outbound" /\ OutNext /\ UNCHANGED <<vars, pgVars, ccVars>>
       \/ part = "content" /\ CCNext /\ ContentBound /\ UNCHANGED <<vars, pgVars, outVars>>
    /\ UNCHANGED part

MCSpec == MCInit /\ [][MCNext]_mcVars
============================================================================
