SPECIFICATION FairSpec
CONSTANTS
    MaxEpoch = 2
    MaxRequests = 1
    MaxResolvers = 1
INVARIANTS
    TypeOK
    HearsItsOperation
    AccessHasSession
    ScopedAccessIsFresh
    ReceiptIsOfLastFlow
PROPERTIES
    AccessIsNew
    ActivatedBeforeAccess
    BusyEnds
