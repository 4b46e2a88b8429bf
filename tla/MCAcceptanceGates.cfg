SPECIFICATION MCSpec
CONSTANTS
    Profiles = {p1}
    Default = p1
    Authorities = {a1, a2}
    Observations = {o1}
    Evaluators = {e1, e2}
    Acceptors = {f1}
    MaxBusy = 2
    MaxBundles = 2
    MaxChanges = 1
SYMMETRY Symm
CHECK_DEADLOCK FALSE
INVARIANTS
    ReadyIsSigned
PROPERTIES
    MixedPackageNeedsReturns
