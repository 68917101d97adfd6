CONSTANTS
    k1 = k1
    k2 = k2
    Keys <- MCKeys
    NoKey = NoKey
    MaxGeneration = 3
SPECIFICATION Spec
INVARIANTS TypeOK StoreInvariant DowngradeAcknowledged
PROPERTIES RecoverableSlotPreserved ImplementsAtomicVault
