SPECIFICATION FairSpec
CONSTANTS
    MaxBlock = 4
    MaxCrashes = 4
    UserRoot <- SomeUserRoots
INVARIANTS
    Recoverable
    RecoveryFits
PROPERTIES
    ImplementsAtomicCommit
    Recovers
CHECK_DEADLOCK FALSE
