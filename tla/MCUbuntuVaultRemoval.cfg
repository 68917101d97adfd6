CONSTANTS
    k1 = k1
    NoKey = NoKey
    Keys <- MCKeys
    MaxGeneration = 2
    MaxFaults = 2
SPECIFICATION FairRemovalSpec
INVARIANTS
    RemovalTypeOK
    HalfRemovedIsRecorded
    WrappingKeyKept
PROPERTIES
    RemovalCompletes
