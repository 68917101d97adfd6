SPECIFICATION Spec
CONSTANTS
    MaxEpoch = 2
    MaxRequests = 0
    MaxResolvers = 1
INVARIANT RemovalLocksEveryTab
