---------------------------- MODULE MCCleanRoom ----------------------------
(* The clean-room tools on small instances.  A process of the tools runs   *)
(* one command: a behaviour is about launches, bundles or replays, chosen  *)
(* at the start, so that their states do not multiply.                     *)
EXTENDS CaseLauncher, CandidateReplay, TLC

CONSTANTS one, two, c1, c2, k1, k2, r1, r2, b1, b2

VARIABLE command

mcVars == <<command, hoVars, crVars, clVars>>

MCDomains == <<"network", "teardown">>
MCExpected == [network |-> "DENIED", teardown |-> "AVAILABLE"]
MCOrder == <<c1, c2>>

Obs(n, t) == [network |-> n, teardown |-> t]
Good == CreateAttestation(Obs("DENIED", "AVAILABLE"), "FRESH_CASE_ROOT")
Unready == CreateAttestation(Obs("DENIED", "FAILED"), "FRESH_CASE_ROOT")

\* A good one, an honest failure, the failure relabelled with a new digest, and one
\* that leaves a domain out.
MCAttestations ==
    {Good, Unready,
     [Unready EXCEPT !.status = "VERIFIED", !.outcome = "READY_FOR_REPLAY"],
     [Good EXCEPT !.obs = [network |-> "DENIED"]]}

\* The inputs, with another runner manifest, with another catalog and other handlers
\* that no manifest declares, and with a catalog that does not load.
In(p, m, c, h) == [pinned |-> p, manifest |-> m, catalog |-> c, handlers |-> h]
MCInputs == {In(1, 1, 1, 1), In(1, 2, 1, 1), In(1, 1, 2, 2), In(1, 1, 0, 1)}
MCSound == {In(1, 1, 1, 1), In(1, 2, 1, 1)}
MCSeconds == {1}

\* Two launches: the second begins after the first, of which no process forked,
\* wrote or ran late; both persist.
LaunchBound ==
    ~At(two, "check") =>
        /\ ~At(one, "check") /\ replaced = 0
        /\ \A l \in Launches :
              /\ run[l].child = "none" /\ run[l].out = 0 /\ ~run[l].late
              /\ run[l].pc # "died"
              /\ ~run[l].keep => run[l].result # "none"

\* No preflight has changed a record.
Quiet ==
    /\ \A k \in Preflights : pf[k].pc = "idle"
    /\ tree[c2] = Absent /\ origin[c1] = [checked |-> 1, printed |-> 1]
    /\ \A b \in Bundles : bundle[b].moved[c1] = 0

\* A bundle of a tree in which the inputs are edited or preflights write records;
\* a second one begins after the first, of a tree nobody touches.  Two preflights
\* may be at the selected record at once; once the other case has one, that case is
\* the one preflights are of.
BundleBound ==
    /\ Len(was) > 1 => Quiet /\ tree[Source] \in Sound
    /\ bundle[b2].pc # "start" =>
          /\ bundle[b1].pc # "start" /\ Len(was) = 1 /\ Quiet
    /\ pf[k2].pc # "idle" => tree[c2] = Absent /\ pf[k1].case = c1 /\ pf[k2].case = c1
    /\ tree[c2] # Absent => (pf[k1].pc = "idle" \/ pf[k1].case = c2)

\* Two replays of one case of an unchanged tree, one of a tree that is edited once,
\* or one of two cases.
ReplayBound ==
    /\ Len(was) <= 2 /\ pf[k2].pc = "idle"
    /\ Len(was) = 2 => attested[c2] = 0 /\ tree[c2] = Absent /\ pf[k1].case = c1
    /\ replay[r2].pc # "start" =>
          /\ replay[r1].pc # "start" /\ replay[r1].keep
          /\ Len(was) = 1 /\ Quiet /\ attested[c2] = 0

FirstInputs == In(1, 1, 1, 1)
FirstReplay == NewReplay(Fingerprints(FirstInputs), FirstInputs.handlers, TRUE)

MCInit ==
    /\ command \in {"launch", "bundle", "replay"}
    /\ CLInit /\ HOInit /\ CRInit
    /\ tree[Source] = FirstInputs /\ tree[Selected] # Absent
    /\ replay[r2] = FirstReplay
    /\ command # "launch" => attFile = Good
    /\ command # "replay" => replay[r1] = FirstReplay
    /\ command = "launch" => tree[Selected].result = "BLOCKED"

MCNext ==
    /\ \/ command = "launch" /\ CLNext /\ UNCHANGED <<hoVars, crVars>> /\ LaunchBound'
       \/ command = "bundle" /\ HONext /\ UNCHANGED <<crVars, clVars>> /\ BundleBound'
       \/ command = "replay" /\ CRNext /\ UNCHANGED clVars /\ ReplayBound'
    /\ UNCHANGED command

MCSpec == MCInit /\ [][MCNext]_mcVars /\ CLFairness
===========================================================================
