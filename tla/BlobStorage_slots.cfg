SPECIFICATION Spec
CONSTANTS
    DEFERRED_SLOTS_COUNT = 3
    MAX_VISIBLE_HEIGHT_INCREASE_PER_SLOT = 2
    UNREGISTERED_BLOBS_PER_SLOT = 1
    MAX_EMERGENCY_REGISTRATION_BLOB_SIZE = 1
    Room = 2
    Shapes <- OneShape
    MaxPerSlot = 1
    MaxSlot = 6
    MaxNumber = 1
    MaxCopies = 1
INVARIANTS
    NeverOverdue
PROPERTIES
    NoBlockNoBlobs
    RecoveryGains
    ImplementsClock
CHECK_DEADLOCK FALSE
