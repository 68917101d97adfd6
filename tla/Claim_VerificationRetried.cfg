SPECIFICATION OnlineSpec
CONSTANTS
    MaxEpoch = 2
    MaxRequests = 0
    MaxResolvers = 1
PROPERTY VerificationRetried
