SPECIFICATION MCSpec
CONSTANTS
    alice = alice
    aliceNext = aliceNext
    pAlice = pAlice
    NoPrincipal = NoPrincipal
    NoDest = NoDest
    Jobs = {j1}
    Dests = {d1, d2}
    RequestIds = {r1}
    Principals <- MCPrincipals
    Assertions <- MCAssertions
    MaxRequests = 1
    WindowSeconds = 1
    MaxClock = 2
    MaxEpoch = 1
    c1 = c1
    c2 = c2
    c3 = c3
    c4 = c4
    i1 = i1
    i2 = i2
    i3 = i3
    GuardCalls = {c1, c2, c3, c4}
    GuardIds = {i1, i2, i3}
    GuardUntil = {1, 3}
    MaxEntries = 2
    GuardRequests = 2
    GuardWindow = 2
    GuardMaxClock = 2
    OutPaths <- MCOutPaths
    OutAnswers <- MCOutAnswers
    OutMaxEpoch = 1
    Drafts <- MCDrafts
    Revisions <- MCRevisions
    NoBody = NoBody
SYMMETRY Symm
CHECK_DEADLOCK FALSE
INVARIANTS
    EmissionLinearized
    SentToBoundTarget
    ForgottenOnlyWhenPushedOut
    WindowAllowance
    JudgesAgree
    SentWhereDecided
    FetchedWithDecidedContent
    AdmittedOutOfQuarantine
PROPERTIES
    EmissionImplementsAct
