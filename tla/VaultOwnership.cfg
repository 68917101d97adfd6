CONSTANTS
    Processes = {p1, p2, p3}
    MaxFiles = 3
SPECIFICATION Spec
INVARIANTS TypeOK OwnershipInvariant
