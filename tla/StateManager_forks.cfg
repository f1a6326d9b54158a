SPECIFICATION FairSpec
CONSTANTS
    MaxHeight = 3
    MaxReorgs = 1
    MaxCrashes = 1
INVARIANTS
    MapsAgree
    AssertionsHold
PROPERTIES
    ImplementsChain
    Settles
CHECK_DEADLOCK FALSE
