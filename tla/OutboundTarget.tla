--------------------------- MODULE OutboundTarget ---------------------------
(***************************************************************************)
(* From a URL to a pinned connection: normalize_url (pmiri/network.py),    *)
(* GateDDecisionEngine.evaluate_network (pmiri/gate_d.py), which judges    *)
(* the supplied observations twice, once itself and once in                *)
(* build_connection_binding, and the transport of pmiri/transports.py that *)
(* normalizes its endpoint and its target again and must find what was     *)
(* decided.                                                                *)
(*                                                                         *)
(*   percent -> dots .. -> resolve -> bindConn -> bindInv                  *)
(*           -> stampConn -> stampInv -> decided            the decision   *)
(*   percent -> dots .. -> construct -> ready | refused     the transport  *)
(*   percent -> dots .. -> fetch -> sent | refused          one request    *)
(*                                                                         *)
(* Each of the four epochs is a SELECT of its own, so an invalidation may  *)
(* come between any two.  A path is a sequence of tokens: a character, or  *)
(* a percent escape.                                                       *)
(***************************************************************************)
EXTENDS Integers, SequencesExt

CONSTANTS
    OutPaths,     \* paths of the URLs, sequences of tokens
    OutAnswers,   \* resolver answers, sequences of address kinds
    OutMaxEpoch   \* bound: invalidations

VARIABLES out, outEpoch

outVars == <<out, outEpoch>>

Slash == "/"
Dot == "."

\* Escapes of an unreserved character, of a delimiter, of anything else with
\* lower-case digits and with upper-case digits; a "%" that begins no escape.
Escapes == {"%2e", "%2f", "%c3", "%C3"}
Tokens == {Slash, Dot, "a", "%"} \cup Escapes

AddressKinds == {"public", "private", "reserved", "unparsable"}

\* A path of a URL with a host is empty or begins with a slash; an answer of the
\* resolver is a list, and the addresses in it may be of any kind.
ASSUME OutboundAssumption ==
    /\ OutMaxEpoch \in Nat
    /\ \A p \in OutPaths : p \in Seq(Tokens) /\ (p # <<>> => p[1] = Slash)
    /\ OutAnswers \subseteq Seq(AddressKinds)

NoPath == <<>>
NoEpochRead == -1
NoAddress == "none"

(***************************************************************************)
(* shape: what the checks of normalize_url on scheme, host, port, user     *)
(* info and fragment say of the URL.  buf, segs: input_buffer and output   *)
(* of _remove_dot_segments.  target: the decided path.  status: the        *)
(* binding's binding_status; event: its final result; conn, inv: its       *)
(* epochs; dconn, dinv: the decision's.  endpoint, asked: the path given   *)
(* to the transport, and to fetch; path: the transport's own target.       *)
(***************************************************************************)
NewDecision(shape, url, answer, tls, reval, enabled) ==
    [pc |-> "percent", task |-> "decide", shape |-> shape, url |-> url,
     answer |-> answer, tls |-> tls, reval |-> reval, enabled |-> enabled,
     buf |-> url, segs |-> <<>>, target |-> NoPath, action |-> "none",
     reason |-> "NONE", resolution |-> "DENIED_MIXED", selected |-> NoAddress, status |-> "DENIED",
     event |-> "DENIED", bound |-> FALSE, bselected |-> NoAddress,
     conn |-> NoEpochRead, inv |-> NoEpochRead,
     dconn |-> NoEpochRead, dinv |-> NoEpochRead, endpoint |-> NoPath,
     path |-> NoPath, asked |-> NoPath]

OutInit ==
    /\ outEpoch = 0
    /\ \E shape \in {"ok", "invalid"}, url \in OutPaths, answer \in OutAnswers,
          tls \in {"MATCHED", "MISMATCHED"},
          reval \in {"MATCHED", "MISMATCHED", "DENIED"}, enabled \in BOOLEAN :
          out = NewDecision(shape, url, answer, tls, reval, enabled)

OutAt(l) == out.pc = l

---------------------------------------------------------------------------
(* normalize_url                                                           *)

\* MALFORMED_PERCENT_ENCODING, ENCODED_DELIMITER_FORBIDDEN.
Malformed(path) == \E i \in DOMAIN path : path[i] \in {"%", "%2f"}

\* Defect for mutation: escapes of unreserved characters stay escaped.
Canonical_KeepsDots(t) == IF t = "%c3" THEN "%C3" ELSE t

\* An escape of an unreserved character is decoded, any other upper-cased.
Canonical(t) == CASE t = "%2e" -> Dot
                  [] t = "%c3" -> "%C3"
                  [] OTHER -> t

\* _canonicalize_percent_encoding of the whole path, after the other checks; then
\* the loop of _remove_dot_segments begins with the result.  A URL that does
\* not normalize is a DENY decision, and ends a transport or a fetch.
Percent ==
    /\ OutAt("percent")
    /\ \/ /\ out.shape = "ok" /\ ~Malformed(out.buf)
          /\ out' = [out EXCEPT !.pc = "dots", !.segs = <<>>,
                        !.buf = LET p == IF @ = NoPath THEN <<Slash>> ELSE @
                                IN  [i \in DOMAIN p |-> Canonical(p[i])]]
       \/ /\ ~(out.shape = "ok" /\ ~Malformed(out.buf))
          /\ out' = IF out.task = "decide"
                      THEN [out EXCEPT !.pc = "stampConn", !.action = "DENY",
                                       !.reason = "URL_INVALID"]
                      ELSE [out EXCEPT !.pc = "refused"]
    /\ UNCHANGED outEpoch

Begins(s, p) == IsPrefix(p, s)
Up(segs) == IF segs = <<>> THEN segs ELSE Front(segs)

\* The first segment of a buffer with its slash, up to the next slash.
FirstSegment(b) ==
    LET next == {i \in 2..Len(b) : b[i] = Slash}
    IN  IF next = {} THEN b
        ELSE SubSeq(b, 1, (CHOOSE i \in next : \A k \in next : i <= k) - 1)

After(b, n) == SubSeq(b, n + 1, Len(b))

\* One iteration of _remove_dot_segments.  The branches for a buffer that does not
\* begin with a slash are never taken (OutTypeOK).
RemoveDots(b, segs) ==
    CASE Begins(b, <<Slash, Dot, Slash>>)      -> [buf |-> After(b, 2), segs |-> segs]
      [] b = <<Slash, Dot>>                    -> [buf |-> <<Slash>>, segs |-> segs]
      [] Begins(b, <<Slash, Dot, Dot, Slash>>) -> [buf |-> After(b, 3), segs |-> Up(segs)]
      [] b = <<Slash, Dot, Dot>>               -> [buf |-> <<Slash>>, segs |-> Up(segs)]
      [] OTHER -> [buf |-> After(b, Len(FirstSegment(b))),
                   segs |-> Append(segs, FirstSegment(b))]

Dots ==
    /\ OutAt("dots") /\ out.buf # <<>>
    /\ LET next == RemoveDots(out.buf, out.segs)
       IN  out' = [out EXCEPT !.buf = next.buf, !.segs = next.segs]
    /\ UNCHANGED outEpoch

\* "".join(output), or "/" when nothing is left.
Joined(segs) == LET p == FlattenSeq(segs) IN IF p = <<>> THEN <<Slash>> ELSE p

\* The normalized path goes where normalize_url was called from.
Normalized ==
    /\ OutAt("dots") /\ out.buf = <<>>
    /\ LET p == Joined(out.segs)
       IN  out' = CASE out.task = "decide" -> [out EXCEPT !.pc = "resolve", !.target = p]
                    [] out.task = "construct" -> [out EXCEPT !.pc = "construct", !.path = p]
                    [] out.task = "fetch" -> [out EXCEPT !.pc = "fetch", !.asked = p]
    /\ UNCHANGED outEpoch

---------------------------------------------------------------------------
(* evaluate_network                                                        *)

\* classify_address, and what the callers say of an answer that is no address.
Classify(kind) == CASE kind = "public" -> "ALLOWLISTED_PUBLIC"
                    [] kind = "private" -> "DENIED_PRIVATE"
                    [] kind = "reserved" -> "DENIED_RESERVED"
                    [] kind = "unparsable" -> "DENIED_UNALLOWLISTED"

AllPublic(answer) ==
    /\ answer # <<>>
    /\ \A i \in DOMAIN answer : Classify(answer[i]) = "ALLOWLISTED_PUBLIC"

\* evaluate_network's own cascade: action_result and reason_class.
Verdict(answer, tls, reval, enabled) ==
    CASE answer = <<>> -> <<"DENY", "DNS_UNVALIDATED">>
      [] ~AllPublic(answer) -> <<"DENY", "PRIVATE_ADDRESS">>
      [] tls # "MATCHED" -> <<"DENY", "TLS_IDENTITY_MISMATCH">>
      [] reval # "MATCHED" -> <<"DENY", "DNS_REBINDING">>
      [] ~enabled -> <<"DENY", "EXACT_BINDING_MISSING">>
      [] OTHER -> <<"ALLOW", "NONE">>

\* NetworkPolicy.evaluate_resolution, and the verdict.
Resolution ==
    LET v == Verdict(out.answer, out.tls, out.reval, out.enabled)
    IN  /\ OutAt("resolve")
        /\ out' = [out EXCEPT !.pc = "bindConn",
              !.resolution = IF AllPublic(out.answer) THEN "ALL_ALLOWLISTED_PUBLIC"
                                                      ELSE "DENIED_MIXED",
              !.selected = IF AllPublic(out.answer) THEN Head(out.answer) ELSE NoAddress,
              !.action = v[1], !.reason = v[2]]
        /\ UNCHANGED outEpoch

\* build_connection_binding: binding_status and the result of its only event.
BindingStatus(answer, tls, reval, enabled) ==
    CASE ~AllPublic(answer) -> <<"DENIED", "DENIED">>
      [] tls # "MATCHED" -> <<"DENIED", "MISMATCHED">>
      [] reval # "MATCHED" -> <<"STALE", "MISMATCHED">>
      [] ~enabled -> <<"DENIED", "DENIED">>
      [] OTHER -> <<"VALIDATED", "MATCHED">>

\* No binding is built for an empty answer.  The two epochs are its arguments.
BindConn ==
    /\ OutAt("bindConn")
    /\ \/ out.answer = <<>> /\ out' = [out EXCEPT !.pc = "stampConn"]
       \/ /\ out.answer # <<>>
          /\ out' = [out EXCEPT !.pc = "bindInv", !.conn = outEpoch]
    /\ UNCHANGED outEpoch

\* validate_connection_binding, of a record that keeps its fingerprint: a set of
\* addresses, a selected one just when all are public, and a VALIDATED status that
\* addresses, certificate and last event bear out.  Its single event is the initial
\* resolution and carries the record's own epochs.
ConnectionBindingValid(answer, tls, status, event, selected) ==
    /\ answer # <<>>
    /\ AllPublic(answer) <=> selected # NoAddress
    /\ selected # NoAddress => selected \in Range(answer)
    /\ status = "VALIDATED" => selected # NoAddress /\ tls = "MATCHED" /\ event = "MATCHED"

\* The record, and its own validator, which raises.
BindInv ==
    LET s == BindingStatus(out.answer, out.tls, out.reval, out.enabled)
        first == IF AllPublic(out.answer) THEN Head(out.answer) ELSE NoAddress
    IN  /\ OutAt("bindInv")
        /\ out' = [out EXCEPT !.inv = outEpoch, !.bound = TRUE, !.bselected = first,
                     !.status = s[1], !.event = s[2],
                     !.pc = IF ConnectionBindingValid(out.answer, out.tls, s[1], s[2], first)
                            THEN "stampConn" ELSE "raised"]
        /\ UNCHANGED outEpoch

\* The record's connection_epoch and invalidation_epoch.
StampConn ==
    /\ OutAt("stampConn")
    /\ out' = [out EXCEPT !.pc = "stampInv", !.dconn = outEpoch]
    /\ UNCHANGED outEpoch

\* REASON_CLASSES, of the reasons evaluate_network gives.
ReasonClasses == {"NONE", "URL_INVALID", "PRIVATE_ADDRESS", "TLS_IDENTITY_MISMATCH",
                  "DNS_REBINDING", "EXACT_BINDING_MISSING"}

\* validate_outbound_decision: the vocabulary, and an ALLOW that the binding bears
\* out; anything else raises out of evaluate_network.
OutboundValid ==
    /\ out.reason \in ReasonClasses
    /\ out.action = "ALLOW" =>
          /\ out.tls = "MATCHED" /\ out.resolution = "ALL_ALLOWLISTED_PUBLIC"
          /\ out.status = "VALIDATED" /\ out.event = "MATCHED"

StampInv ==
    /\ OutAt("stampInv")
    /\ out' = [out EXCEPT !.pc = IF OutboundValid THEN "decided" ELSE "raised",
                          !.dinv = outEpoch]
    /\ UNCHANGED outEpoch

---------------------------------------------------------------------------
(* _AuthorizedHttpsTransport, HttpsConnectorTransport.fetch                *)

\* A transport for an endpoint: the URL that was judged, its normalized form, or
\* another one.
Construct ==
    /\ OutAt("decided")
    /\ \E e \in {out.url, out.target} \cup OutPaths :
          out' = [out EXCEPT !.pc = "percent", !.task = "construct",
                             !.endpoint = e, !.buf = e]
    /\ UNCHANGED outEpoch

\* Defect for mutation: the endpoint is compared as it was given.
BindingAccepted_RawEndpoint ==
    /\ out.action = "ALLOW" /\ out.bound /\ out.status = "VALIDATED"
    /\ out.event = "MATCHED" /\ out.tls = "MATCHED"
    /\ out.resolution = "ALL_ALLOWLISTED_PUBLIC"
    /\ out.selected = out.bselected
    /\ out.dconn = out.conn /\ out.dinv = out.inv
    /\ out.endpoint = out.target

\* _validate_binding: an ALLOW decision, its binding, the same selected address
\* and epochs, and the endpoint's normalized target.
BindingAccepted ==
    /\ out.action = "ALLOW" /\ out.bound /\ out.status = "VALIDATED"
    /\ ConnectionBindingValid(out.answer, out.tls, out.status, out.event, out.bselected)
    /\ out.event = "MATCHED" /\ out.tls = "MATCHED"
    /\ out.resolution = "ALL_ALLOWLISTED_PUBLIC"
    /\ out.selected = out.bselected
    /\ out.dconn = out.conn /\ out.dinv = out.inv
    /\ out.path = out.target

Accept ==
    /\ OutAt("construct")
    /\ out' = [out EXCEPT !.pc = IF BindingAccepted THEN "ready" ELSE "refused"]
    /\ UNCHANGED outEpoch

Fetch ==
    /\ OutAt("ready")
    /\ \E e \in {out.url, out.endpoint, out.target} \cup OutPaths :
          out' = [out EXCEPT !.pc = "percent", !.task = "fetch", !.asked = e, !.buf = e]
    /\ UNCHANGED outEpoch

\* connector_target_binding_mismatch, or the request goes to self.target.
Send ==
    /\ OutAt("fetch")
    /\ out' = [out EXCEPT !.pc = IF out.asked = out.path THEN "sent" ELSE "refused"]
    /\ UNCHANGED outEpoch

OutInvalidate ==
    /\ outEpoch < OutMaxEpoch
    /\ outEpoch' = outEpoch + 1
    /\ UNCHANGED out

OutStep ==
    \/ Percent \/ Dots \/ Normalized \/ Resolution \/ BindConn \/ BindInv
    \/ StampConn \/ StampInv \/ Construct \/ Accept \/ Fetch \/ Send

OutNext == OutStep \/ OutInvalidate

OutSpec == OutInit /\ [][OutNext]_outVars

---------------------------------------------------------------------------
(* Properties                                                              *)

OutPCs == {"percent", "dots", "resolve", "bindConn", "bindInv", "stampConn",
           "stampInv", "decided", "raised", "construct", "ready", "fetch",
           "sent", "refused"}
IsPath(p) == Range(p) \subseteq Tokens
OutEpochs == 0..OutMaxEpoch \cup {NoEpochRead}

\* Type invariant of a decision and its transport; the buffer of
\* _remove_dot_segments always begins with a slash.
OutTypeOK ==
    /\ out.pc \in OutPCs /\ out.task \in {"decide", "construct", "fetch"}
    /\ \A p \in {out.url, out.buf, out.target, out.endpoint, out.path, out.asked} : IsPath(p)
    /\ out.buf # <<>> => out.buf[1] = Slash
    /\ out.action \in {"none", "ALLOW", "DENY"}
    /\ out.reason \in ReasonClasses \cup {"DNS_UNVALIDATED"}
    /\ out.status \in {"VALIDATED", "DENIED", "STALE"}
    /\ out.event \in {"MATCHED", "MISMATCHED", "DENIED"}
    /\ {out.selected, out.bselected} \subseteq AddressKinds \cup {NoAddress}
    /\ {out.conn, out.inv, out.dconn, out.dinv} \subseteq OutEpochs
    /\ outEpoch \in 0..OutMaxEpoch

\* The three judges agree.  The cascade of evaluate_network and the one of
\* build_connection_binding never differ about ALLOW, whatever was observed, so
\* evaluate_network does not raise from its own validator (it does for an empty
\* answer, whose reason_class is not in the vocabulary).  The transport accepts an
\* ALLOW for the URL that was judged and for the normalized form the record names,
\* which is normalized a second time, unless an invalidation split the reads of
\* the epoch.
JudgesAgree ==
    /\ OutAt("raised") => out.answer = <<>>
    /\ OutAt("decided") => (out.action = "ALLOW" <=> (out.bound /\ out.status = "VALIDATED"))
    /\ (OutAt("refused") /\ out.task = "construct" /\ out.action = "ALLOW"
          /\ out.endpoint \in {out.url, out.target})
       => out.conn # out.dconn \/ out.inv # out.dinv

NoDotSegment(p) ==
    \A i \in DOMAIN p : p[i] = Slash =>
        FirstSegment(After(p, i - 1)) \notin {<<Slash, Dot>>, <<Slash, Dot, Dot>>}

\* What is sent goes to a public address of an answer that was public throughout,
\* with a path that is the decided one, free of dot segments and escaped
\* delimiters however the three URLs were spelled, on a binding and a record of
\* the same epochs.
SentWhereDecided ==
    OutAt("sent") =>
        /\ out.action = "ALLOW"
        /\ Range(out.answer) = {"public"}
        /\ out.path = out.target /\ NoDotSegment(out.path)
        /\ Range(out.path) \cap {"%", "%2f", "%2e", "%c3"} = {}
        /\ out.conn = out.dconn /\ out.inv = out.dinv
=============================================================================
