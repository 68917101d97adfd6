SPECIFICATION Spec
CONSTANTS
    c1 = c1
    t1 = t1
    t2 = t2
    alice = alice
    bob = bob
    NoOne = NoOne
    Clients <- MCClients
    Tasks <- MCTasks
    Identities <- MCIdentities
    MaxVersion = 2
    MaxTransactions = 1
    MaxInterruptions = 1
PROPERTY
    LockRevokes
