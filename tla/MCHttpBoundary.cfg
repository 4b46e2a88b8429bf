SPECIFICATION Spec
CONSTANTS
    Conns = {c1, c2, c3}
    MaxFaults = 2
SYMMETRY Symm
CHECK_DEADLOCK FALSE
INVARIANTS
    AnsweredIsAudited
    OneOutcomeRecorded
PROPERTIES
    ImplementsAuditedAnswers
