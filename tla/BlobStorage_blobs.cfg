SPECIFICATION Spec
CONSTANTS
    DEFERRED_SLOTS_COUNT = 2
    MAX_VISIBLE_HEIGHT_INCREASE_PER_SLOT = 2
    UNREGISTERED_BLOBS_PER_SLOT = 1
    MAX_EMERGENCY_REGISTRATION_BLOB_SIZE = 1
    Room = 2
    Shapes <- SomeShapes
    MaxPerSlot = 2
    MaxSlot = 3
    MaxNumber = 0
    MaxCopies = 1
INVARIANTS
    NoneLost
    EscrowMatchesPlace
    SelectionFits
PROPERTIES
    BlockIsVisiblePart
CHECK_DEADLOCK FALSE
