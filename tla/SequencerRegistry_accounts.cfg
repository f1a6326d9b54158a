SPECIFICATION Spec
CONSTANTS
    Sequencers = {s1, s2}
    None = None
    DEFERRED_SLOTS_COUNT = 3
    MAX_VISIBLE_HEIGHT_INCREASE_PER_SLOT = 3
    Parse = 1
    Check = 1
    Deferral = 1
    Needs = {1, 3}
    MinimumBond = 1
    Supply = 4
    SeqBond = 3
    MaxSlot = 6
SYMMETRY Symmetry
INVARIANTS
    TypeOK
    ReadyIsSelected
    RegistrySolvent
    BankSolvent
    Conserved
CHECK_DEADLOCK FALSE
