\* A re-organisation between the ledger reads of one lookup.
SPECIFICATION Spec
CONSTANTS
    b1 = b1
    Blobs = {b1}
    Proofs = {}
    MAX_NB_OF_BLOB_SUBMISSION_RETRIES = 2
    RetryModulus = 4
    MaxSlots = 2
    MaxCopies = 1
    MaxCrashes = 0
    MaxReorgs = 1
    MaxDiscards = 0
    MaxErrors = 0
INVARIANT FinalizedIsFinal
CHECK_DEADLOCK FALSE
