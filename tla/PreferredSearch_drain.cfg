SPECIFICATION FairSpec
CONSTANTS
    MaxNumber = 3
    MaxCopies = 2
INVARIANTS
    RunIsConsecutive
    IndexIsBacked
PROPERTIES
    NothingSkipped
    ImplementsTracker
    Drains
