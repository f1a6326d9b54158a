-------------------------- MODULE PreferredTracker --------------------------
(***************************************************************************)
(* What the preferred-blob half of sov-blob-storage promises: a DA block   *)
(* arrives, and in one step the tracker takes its copies and releases the  *)
(* run that PreferredRun describes.  PreferredSearch implements it.        *)
(***************************************************************************)
EXTENDS Integers, PreferredRun

CONSTANTS
    MaxNumber,  \* bound: sequence numbers 0..MaxNumber
    MaxCopies   \* bound: copies of one number in one DA block

VARIABLES
    next,   \* SequencerNumberTracker.next_sequence_number
    index,  \* the keys of SequencerNumberTracker.saved_sequencer_numbers
    store,  \* the keys of deferred_preferred_sequencer_blobs
    batch,  \* the numbers that are batches (never changes)
    posted  \* the copies of each number on the slot's DA block

vars == <<next, index, store, batch, posted>>

Numbers == 0..MaxNumber
Deliveries == [Numbers -> 0..MaxCopies]

Init ==
    /\ next = 0 /\ index = {} /\ store = {}
    /\ batch \in SUBSET Numbers
    /\ posted = [m \in Numbers |-> 0]

Arrive ==
    /\ posted' \in Deliveries
    /\ UNCHANGED <<next, index, store, batch>>

Slot ==
    /\ next' = NextNumber(next, posted, index, batch)
    /\ index' = IndexAfter(next, posted, index, batch)
    /\ store' = StoreAfter(next, posted, index, batch, store)
    /\ UNCHANGED <<batch, posted>>

Next == Arrive \/ Slot

Spec == Init /\ [][Next]_vars
=============================================================================
