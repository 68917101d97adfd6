SPECIFICATION Spec
CONSTANTS
    Tasks = {t1, t2}
    MaxTx = 2
    MaxSessions = 1
    MaxFaults = 1
    MaxOperations = 3
SYMMETRY Sym
INVARIANTS
    TypeOK
    PendingIsMirrored
    AccessIsIndexed
    SuccessIsOwnUpgrade
    NoSecondTransaction
CHECK_DEADLOCK FALSE
