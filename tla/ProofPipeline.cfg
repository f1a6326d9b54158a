SPECIFICATION FairSpec
CONSTANTS
    MaxInfos = 4
    Channel = 1
    Jump = 2
    Threads = 1
    Lag = 1
    MaxSlot = 6
    MaxReorgs = 1
    MaxCrashes = 1
    MaxFailures = 1
INVARIANTS
    NeverBroken
    UnprovenIsKept
    BatchContinues
    NothingLeftOut
    PanicsOnlyOnReorgs
PROPERTIES
    Proven
CHECK_DEADLOCK FALSE
