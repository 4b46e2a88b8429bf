-------------------------- MODULE MCReadPipeline --------------------------
(* Small instance of ReadPipeline: two principals that share one           *)
(* principal_ref (so one rate key), one at epoch 0 whose zone attestation  *)
(* ends first, and one at epoch 1 whose own validity ends first.           *)
EXTENDS ReadPipeline, TLC

CONSTANTS alice, aliceNext, pAlice, rid1, rid2, projA, projB, local_read

MCPrincipals ==
    { [auth |-> alice, name |-> pAlice, projects |-> {projA},
       operations |-> {Operation}, purposes |-> {local_read}, epoch |-> 0,
       issued |-> 0, until |-> 3, zoneIssued |-> 0, zoneUntil |-> 2],
      [auth |-> aliceNext, name |-> pAlice, projects |-> {projA, projB},
       operations |-> {Operation}, purposes |-> {local_read}, epoch |-> 1,
       issued |-> 0, until |-> 2, zoneIssued |-> 0, zoneUntil |-> 3] }

Req(auth, rid, project) ==
    [auth |-> auth, rid |-> rid, project |-> project, purpose |-> local_read]

\* The same request id under both references, and a request out of scope.
MCRequests ==
    { Req(alice, rid1, projA), Req(aliceNext, rid1, projA), Req(alice, rid2, projB) }

Symm == Permutations(Attempts)
===========================================================================
