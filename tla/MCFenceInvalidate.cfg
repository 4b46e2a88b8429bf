SPECIFICATION Spec
CONSTANTS
    alice = alice
    aliceNext = aliceNext
    pAlice = pAlice
    NoPrincipal = NoPrincipal
    NoDest = NoDest
    Jobs = {j1}
    Dests = {d1, d2}
    RequestIds = {r1}
    Principals <- MCPrincipals
    Assertions <- MCAssertions
    MaxRequests = 1
    WindowSeconds = 1
    MaxClock = 2
    MaxEpoch = 1
SYMMETRY Symm
CHECK_DEADLOCK FALSE
INVARIANTS
    OnlyCurrentDecisionsEmitted
