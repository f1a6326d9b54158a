\* Every task ends, under fairness, with a crash, a re-organisation and timeouts.
SPECIFICATION FairSpec
CONSTANTS
    b1 = b1
    Blobs = {b1}
    Proofs = {}
    MAX_NB_OF_BLOB_SUBMISSION_RETRIES = 2
    RetryModulus = 4
    MaxSlots = 2
    MaxCopies = 1
    MaxCrashes = 1
    MaxReorgs = 1
    MaxDiscards = 0
    MaxErrors = 1
PROPERTY TasksEnd
CHECK_DEADLOCK FALSE
