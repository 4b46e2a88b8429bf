SPECIFICATION Spec
CONSTANTS
    Conns = {c1, c2}
    MaxFaults = 2
SYMMETRY Symm
CHECK_DEADLOCK FALSE
INVARIANTS
    EmissionVerifiable
