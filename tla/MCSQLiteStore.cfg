SPECIFICATION MCSpec
CONSTANTS
    b1 = b1
    x1 = x1
    Sources = {s1}
    Contents = {1, 2}
    Writers = {w1, w2}
    Readers = {}
    NoWriter = NoWriter
    SqlWriters = {v1, v2}
    Migrations = {m1, m2}
    Copies = {b1, x1}
    From <- ChainFrom
    To <- ChainTo
    MaxClock = 1
    MaxDamage = 1
SYMMETRY Symm
CHECK_DEADLOCK FALSE
INVARIANTS
    MigratedHistoryKept
    VerifiedCopyKept
