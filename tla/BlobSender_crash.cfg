\* One blob: crash, re-organisation, discard, error, timeout in every order.
SPECIFICATION Spec
CONSTANTS
    b1 = b1
    Blobs = {b1}
    Proofs = {}
    MAX_NB_OF_BLOB_SUBMISSION_RETRIES = 2
    RetryModulus = 4
    MaxSlots = 3
    MaxCopies = 2
    MaxCrashes = 1
    MaxReorgs = 1
    MaxDiscards = 1
    MaxErrors = 1
INVARIANTS NoBlobGivenUp HooksAtLeastOnce NoBlobForgotten CounterIsExact
CHECK_DEADLOCK FALSE
