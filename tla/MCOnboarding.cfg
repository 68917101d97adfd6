SPECIFICATION FairSpec
CONSTANTS
    MaxCandidates = 3
    MaxInterruptions = 1
    MaxFiles = 2
    MaxLookups = 2
    MaxLeft = 1
INVARIANTS
    TypeOK
    SubmittedOnce
    OneIdentity
    BackLeavesNothing
    InspectionUndisturbed
    RegistrationPolls
PROPERTIES
    PostedAsAsked
    HandedOverVerified
    BackIsAnswered
CHECK_DEADLOCK FALSE
