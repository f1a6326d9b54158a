SPECIFICATION Spec
CONSTANTS
    Sequencers = {s1, s2}
    None = None
    DEFERRED_SLOTS_COUNT = 2
    MAX_VISIBLE_HEIGHT_INCREASE_PER_SLOT = 2
    Parse = 0
    Check = 1
    Deferral = 0
    Needs = {1}
    MinimumBond = 1
    Supply = 1
    SeqBond = 1
    MaxSlot = 4
INVARIANTS
    ReturnFindsSequencer
CHECK_DEADLOCK FALSE
