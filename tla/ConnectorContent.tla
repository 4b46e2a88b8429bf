-------------------------- MODULE ConnectorContent --------------------------
(***************************************************************************)
(* The content operations of Gate D: the lifecycle record of fetched       *)
(* content (pmiri/decisions.py: LEGAL_TRANSITIONS, validate_lifecycle,     *)
(* validate_outbound_decision, validate_external_emission) and its way     *)
(* through evaluate_network, build_integrated_envelope and                 *)
(* execute_connector (pmiri/gate_d.py).                                    *)
(*                                                                         *)
(* The record is a dictionary in the caller's hands: he rewrites it and    *)
(* seals it before, between and after the calls that judge it, in any      *)
(* order.  Epochs, bindings and the matching of the transport are in       *)
(* EmissionFence.                                                          *)
(***************************************************************************)
EXTENDS Naturals, Sequences

CONSTANTS
    Drafts,    \* the records a caller may begin with, right or wrong (see Bodies)
    Revisions, \* the ones he may turn to later
    NoBody     \* no record: the fingerprint of a bare reference

VARIABLES
    body,      \* the lifecycle record without its fingerprint
    seal,      \* its lifecycle_fingerprint: the body it was computed over
    net,       \* the latest network decision's content fields
    env,       \* the envelope: those it copied, and whether it allows
    fetched    \* history: what connector.fetch was last called under

ccVars == <<body, seal, net, env, fetched>>

LIFECYCLES == {"NOT_APPLICABLE", "QUARANTINED", "ADMITTED_TYPED_DATA", "REJECTED",
               "DISCARDED", "ABORTED"}

ContentOperations == {"connector_fetch", "external_fetch"}

\* Defect for mutation: a rejection may be taken back.
LEGAL_TRANSITIONS_Reopen ==
    {<<"NOT_APPLICABLE", "QUARANTINED">>, <<"REJECTED", "QUARANTINED">>}
    \cup {"QUARANTINED"} \X {"ADMITTED_TYPED_DATA", "REJECTED", "DISCARDED", "ABORTED"}
    \cup {"ADMITTED_TYPED_DATA"} \X {"DISCARDED", "ABORTED"}

LEGAL_TRANSITIONS ==
    {<<"NOT_APPLICABLE", "QUARANTINED">>}
    \cup {"QUARANTINED"} \X {"ADMITTED_TYPED_DATA", "REJECTED", "DISCARDED", "ABORTED"}
    \cup {"ADMITTED_TYPED_DATA"} \X {"DISCARDED", "ABORTED"}

Visibility(state) ==
    CASE state = "QUARANTINED" -> "QUARANTINE_ONLY"
      [] state = "ADMITTED_TYPED_DATA" -> "TYPED_DATA_ONLY"
      [] OTHER -> "NONE"

\* named: the event and the reason class are the ones the pair calls for.
Transition(from, to, at, named) == [from |-> from, to |-> to, at |-> at, named |-> named]

Visibilities == {"NONE", "QUARANTINE_ONLY", "TYPED_DATA_ONLY"}

\* A lifecycle record.  ends: history_terminal_state and admission_state; typed: the
\* typed-data proof is there; bound: identities, fingerprints and the admission
\* predicate are in order.
Bodies ==
    [operation : ContentOperations, ends : LIFECYCLES, visibility : Visibilities,
     typed : BOOLEAN, bound : BOOLEAN,
     history : Seq([from : LIFECYCLES, to : LIFECYCLES, at : Nat, named : BOOLEAN])]

ASSUME DraftsAssumption == Drafts \cup Revisions \subseteq Bodies /\ NoBody \notin Bodies

\* No network decision, or no envelope, yet.
NoDecision ==
    [made |-> FALSE, allow |-> FALSE, lifecycle |-> "NOT_APPLICABLE",
     admission |-> "NOT_APPLICABLE", visibility |-> "NONE", fp |-> NoBody, from |-> NoBody]

CCInit ==
    /\ body \in Drafts /\ seal = NoBody
    /\ net = NoDecision
    /\ env = [allow |-> FALSE, net |-> NoDecision]
    /\ fetched = [body |-> NoBody, net |-> NoDecision]

---------------------------------------------------------------------------
(* validate_lifecycle                                                      *)

\* The state before the i-th transition, by the ones before it.
Before(h, i) == IF i = 1 THEN "NOT_APPLICABLE" ELSE h[i - 1].to

HistoryLegal(b) ==
    /\ \A i \in DOMAIN b.history :
          /\ b.history[i].from = Before(b.history, i)
          /\ i > 1 => b.history[i].at >= b.history[i - 1].at
          /\ <<b.history[i].from, b.history[i].to>> \in LEGAL_TRANSITIONS
          /\ b.history[i].named
    /\ b.ends # "NOT_APPLICABLE" => b.history # <<>>
    /\ b.history # <<>> => b.history[Len(b.history)].to = b.ends

\* What the record says of the content follows from where its history ends.
ProjectionHolds(b) ==
    /\ b.visibility = Visibility(b.ends)
    /\ b.typed <=> b.ends = "ADMITTED_TYPED_DATA"
    /\ b.bound

\* The fingerprint is computed again over the record.
ValidLifecycle(b, s) == s = b /\ ProjectionHolds(b) /\ HistoryLegal(b)

---------------------------------------------------------------------------
(* The caller's record                                                     *)

Edit(b) ==
    /\ b # body
    /\ body' = b
    /\ UNCHANGED <<seal, net, env, fetched>>

Seal ==
    /\ seal # body
    /\ seal' = body
    /\ UNCHANGED <<body, net, env, fetched>>

---------------------------------------------------------------------------
(* GateDDecisionEngine.evaluate_network and build_integrated_envelope      *)

\* content_lifecycle of the record, for a content operation: never NOT_APPLICABLE.
RecordedLifecycle(state, allow) ==
    IF state # "NOT_APPLICABLE" THEN state
    ELSE IF allow THEN "QUARANTINED" ELSE "ABORTED"

\* With a lifecycle: it must be valid, of this operation, and in the state the
\* caller claims, if he claims one.  Anything else raises.
EvaluateWith(claimed, allow) ==
    /\ ValidLifecycle(body, seal)
    /\ body.operation = "connector_fetch"
    /\ claimed \in {"NOT_APPLICABLE", body.ends}
    /\ net' = [made |-> TRUE, allow |-> allow,
               lifecycle |-> RecordedLifecycle(body.ends, allow),
               admission |-> body.ends, visibility |-> body.visibility,
               fp |-> seal, from |-> body]
    /\ UNCHANGED <<body, seal, env, fetched>>

\* Without one: a schema-valid candidate whose fingerprint is of a bare reference.
EvaluateWithout(claimed, allow) ==
    LET state == RecordedLifecycle(claimed, allow)
    IN  /\ net' = [made |-> TRUE, allow |-> allow, lifecycle |-> state,
                   admission |-> state, visibility |-> Visibility(state),
                   fp |-> NoBody, from |-> NoBody]
        /\ UNCHANGED <<body, seal, env, fetched>>

\* The content fields are copied; others says what trust, capability and the
\* request binding decide.
BuildContentEnvelope(others) ==
    /\ net.made
    /\ env' = [allow |-> net.allow /\ others, net |-> net]
    /\ UNCHANGED <<body, seal, net, fetched>>

---------------------------------------------------------------------------
(* EnforcedTransportRuntime.execute_connector                              *)

\* Defect for mutation: the fence compares the reference, not the fingerprint.
LifecycleExact_ByRef(b, s, d) == d.admission = b.ends /\ d.visibility = b.visibility

\* The decision's and the envelope's copies are those of the record presented.
LifecycleExact(b, s, d) ==
    /\ d.fp = s
    /\ d.admission = b.ends /\ d.visibility = b.visibility

\* The envelope names the decision presented: decision_fingerprint covers all of it.
SameDecision(e, d) == [e.net EXCEPT !.from = NoBody] = [d EXCEPT !.from = NoBody]

\* validate_external_emission for a content operation.
ExternalEmissionValid ==
    /\ env.allow /\ net.allow
    /\ SameDecision(env, net)
    /\ ValidLifecycle(body, seal) /\ body.operation = "connector_fetch"
    /\ LifecycleExact(body, seal, net) /\ LifecycleExact(body, seal, env.net)

\* Everything else of execute_connector ends in a receipt DENIED or BLOCKED.
ExecuteConnector ==
    /\ ExternalEmissionValid
    /\ fetched' = [body |-> body, net |-> env.net]
    /\ UNCHANGED <<body, seal, net, env>>

CCNext ==
    \/ \E b \in Revisions : Edit(b)
    \/ Seal
    \/ \E s \in LIFECYCLES, allow \in BOOLEAN : EvaluateWith(s, allow) \/ EvaluateWithout(s, allow)
    \/ \E others \in BOOLEAN : BuildContentEnvelope(others)
    \/ ExecuteConnector

CCSpec == CCInit /\ [][CCNext]_ccVars

---------------------------------------------------------------------------
(* Properties                                                              *)

\* Type invariant of the record and of what was decided about it; a decision about
\* a content operation never says NOT_APPLICABLE.
CCTypeOK ==
    /\ body \in Bodies /\ seal \in Bodies \cup {NoBody}
    /\ \A d \in {net, env.net, fetched.net} :
          /\ d.made \in BOOLEAN /\ d.allow \in BOOLEAN /\ d.fp \in Bodies \cup {NoBody}
          /\ d.lifecycle \in LIFECYCLES /\ d.admission \in LIFECYCLES
          /\ d.visibility \in Visibilities
          /\ d.made => d.lifecycle # "NOT_APPLICABLE"
    /\ env.allow \in BOOLEAN

\* However the caller edits and seals his record between the calls, and however
\* often he asks for a new decision, the connector fetches only with the very
\* record, to the last transition, that the decision behind the envelope was
\* compiled from; never on the strength of a decision compiled without one.
FetchedWithDecidedContent ==
    fetched.body # NoBody => fetched.body = fetched.net.from

Withdrawn == {"REJECTED", "DISCARDED", "ABORTED"}

\* A decision lets fetched content be seen as typed data only if its history went
\* through quarantine first and never through a rejection, a discard or an abort.
AdmittedOutOfQuarantine ==
    \A d \in {net, fetched.net} :
        (d.from # NoBody /\ d.visibility = "TYPED_DATA_ONLY") =>
            LET h == d.from.history
            IN  /\ \A i \in DOMAIN h : h[i].to \notin Withdrawn
                /\ \A i \in DOMAIN h : h[i].to = "ADMITTED_TYPED_DATA" =>
                      \E k \in 1..(i - 1) : h[k].to = "QUARANTINED" /\ h[k].at <= h[i].at
============================================================================
