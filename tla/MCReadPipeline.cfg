SPECIFICATION Spec
CONSTANTS
    alice = alice
    aliceNext = aliceNext
    pAlice = pAlice
    rid1 = rid1
    rid2 = rid2
    projA = projA
    projB = projB
    local_read = local_read
    Operation = read
    NoPrincipal = NoPrincipal
    Attempts = {t1, t2}
    RequestIds = {rid1, rid2}
    Principals <- MCPrincipals
    Requests <- MCRequests
    MaxRequests = 1
    WindowSeconds = 2
    MaxClock = 3
    MaxEpoch = 1
SYMMETRY Symm
CHECK_DEADLOCK FALSE
INVARIANTS
    DisclosureLinearized
    SingleConsumer
    ReplayOnlyAtExpiry
    TypeOK
    RateWindowBound
PROPERTIES
    DisclosureImplementsAct
