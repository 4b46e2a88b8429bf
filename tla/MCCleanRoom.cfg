SPECIFICATION MCSpec
CONSTANTS
    one = one
    two = two
    c1 = c1
    c2 = c2
    k1 = k1
    k2 = k2
    r1 = r1
    r2 = r2
    b1 = b1
    b2 = b2
    NoAttestation = NoAttestation
    NoLaunch = NoLaunch
    Launches = {one, two}
    Domains <- MCDomains
    Expected <- MCExpected
    Attestations <- MCAttestations
    MaxWrites = 1
    MaxReplaced = 1
    Source = src
    Cases = {c1, c2}
    Selected = c1
    Preflights = {k1, k2}
    Bundles = {b1, b2}
    Inputs <- MCInputs
    Sound <- MCSound
    Seconds <- MCSeconds
    MaxEdits = 2
    Replays = {r1, r2}
    Order <- MCOrder
CHECK_DEADLOCK FALSE
INVARIANTS
    RecordedRanToCompletion
    ReportMatchesSeal
    HandoffIsSnapshot
    RecordedEvidenceKept
    ReplayedInputsChecked
PROPERTIES
    EveryLaunchReturns
    JobRunnersEnd
