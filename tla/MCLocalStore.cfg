SPECIFICATION LSFairSpec
CONSTANTS
    Sources = {s1}
    Contents = {1, 2}
    Writers = {w1, w2, w3}
    Readers = {r1}
    NoWriter = NoWriter
    MaxClock = 1
    MaxDamage = 1
CHECK_DEADLOCK FALSE
INVARIANTS
    LSTypeOK
    ReadsComplete
    RegistrationVisible
PROPERTIES
    HistoryKept
    EveryRegistrationEnds
    ImplementsRegistry
