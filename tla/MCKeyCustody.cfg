SPECIFICATION Spec
CONSTANTS
    Callers = {c1, c2, c3}
    Free = Free
    Versions = {"V1", "V2"}
    FirstVersion = "V1"
    Ttl = 1
    MaxClock = 2
    MaxDamage = 1
SYMMETRY Symm
CHECK_DEADLOCK FALSE
INVARIANTS
    TypeOK
    TraceServedUntilExpiry
    EscrowBeforeUse
    RotationKeepsBlobsOpenable
PROPERTIES
    ImplementsVault
