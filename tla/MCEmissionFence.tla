-------------------------- MODULE MCEmissionFence --------------------------
(* Small instance of EmissionFence: one caller re-registered for the next  *)
(* epoch under a second authentication reference.                          *)
EXTENDS EmissionFence, TLC

CONSTANTS alice, aliceNext, pAlice

MCPrincipal(auth, e, last) ==
    [auth |-> auth, name |-> pAlice, projects |-> {"p"}, operations |-> {"o"},
     purposes |-> {"u"}, epoch |-> e, issued |-> 0, until |-> last,
     zoneIssued |-> 0, zoneUntil |-> last]

MCPrincipals == {MCPrincipal(alice, 0, 0), MCPrincipal(aliceNext, 1, 1)}

Assertion(scoped, status, manifest) ==
    [scoped |-> scoped, status |-> status, manifest |-> manifest,
     from |-> 0, until |-> 0]

MCAssertions ==
    { Assertion(TRUE, "ACTIVE", TRUE), Assertion(FALSE, "REVOKED", TRUE) }

Symm == Permutations(Dests)
===========================================================================
