SPECIFICATION Spec
CONSTANTS
    c1 = c1
    t1 = t1
    t2 = t2
    alice = alice
    bob = bob
    NoOne = NoOne
    Clients <- MCClients
    Tasks <- MCTasks
    Identities <- MCIdentity
    MaxVersion = 3
    MaxTransactions = 1
    MaxInterruptions = 1
ACTION_CONSTRAINT Connected
SYMMETRY TaskSymmetry
INVARIANTS
    TypeOK
    BusyIsRunning
PROPERTIES
    NeverRewound
    RetainedUntilActive
    SealedBeforePost
