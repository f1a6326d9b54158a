-------------------------- MODULE PreferredSearch ---------------------------
(***************************************************************************)
(* pick_preferred_blobs_to_process of sov-blob-storage, one action per     *)
(* iteration of its loop.  A slot's DA block arrives (Slot); the loop of   *)
(* find_next_run_of_blobs takes the next number from the new blobs or from *)
(* the saved ones (TakeNew, TakeStored) until it has a batch or is stuck;  *)
(* get_blobs_to_process_from_run then saves what is left and releases the  *)
(* run (Commit).                                                           *)
(***************************************************************************)
EXTENDS Integers

CONSTANTS MaxNumber, MaxCopies

ASSUME NumberAssumption == MaxNumber \in Nat
ASSUME CopiesAssumption == MaxCopies \in Nat

VARIABLES
    next, index, store, batch,  \* as in PreferredTracker
    pc,          \* "idle", "loop" or "commit"
    posted,      \* the copies of each number on the slot's DA block
    copies,      \* the iterator new_blobs: copies not taken yet
    saved,       \* the iterator stored_sequencer_numbers: keys not taken yet
    number,      \* the local next_sequence_number of the loop
    takenNew,    \* the BlobArrival::New members of next_run_of_blobs
    takenStored  \* its BlobArrival::Stored members

trackerVars == <<next, index, store, batch>>
loopVars == <<pc, posted, copies, saved, number, takenNew, takenStored>>
vars == <<trackerVars, loopVars>>

Numbers == 0..MaxNumber
Deliveries == [Numbers -> 0..MaxCopies]

Tracker == INSTANCE PreferredTracker WITH
    next <- next, index <- index, store <- store, batch <- batch, posted <- posted

Init ==
    /\ Tracker!Init
    /\ pc = "idle" /\ copies = posted
    /\ saved = {} /\ number = 0 /\ takenNew = {} /\ takenStored = {}
-----------------------------------------------------------------------------
\* Plausible bug: copies of released numbers are kept.
RetainedAll(delivery) == [m \in Numbers |-> delivery[m]]

\* A late copy, whose number was released before, is discarded.
Retained(delivery) == [m \in Numbers |-> IF m < next THEN 0 ELSE delivery[m]]

Slot(delivery) ==
    /\ pc = "idle"
    /\ pc' = "loop"
    /\ posted' = delivery
    /\ copies' = Retained(delivery)
    /\ saved' = index
    /\ number' = next
    /\ takenNew' = {} /\ takenStored' = {}
    /\ UNCHANGED trackerVars

\* new_blobs is sorted, so peek returns the smallest number that is left.
NewIsNext ==
    /\ number \in Numbers
    /\ copies[number] > 0
    /\ \A m \in Numbers : m < number => copies[m] = 0

StoredIsNext == number \in saved /\ \A s \in saved : number <= s

\* Plausible bug: the loop runs on past the first batch.
AdvancePastBatch ==
    /\ number' = number + 1
    /\ pc' = "loop"

\* "If we've found a batch, we're done."
Advance ==
    /\ number' = number + 1
    /\ pc' = IF number \in batch THEN "commit" ELSE "loop"

TakeNew ==
    /\ pc = "loop" /\ NewIsNext
    /\ copies' = [copies EXCEPT ![number] = copies[number] - 1]
    /\ takenNew' = takenNew \cup {number}
    /\ Advance
    /\ UNCHANGED <<trackerVars, posted, saved, takenStored>>

TakeStored ==
    /\ pc = "loop" /\ ~NewIsNext /\ StoredIsNext
    /\ saved' = saved \ {number}
    /\ takenStored' = takenStored \cup {number}
    /\ Advance
    /\ UNCHANGED <<trackerVars, posted, copies, takenNew>>

\* Plausible bug: the loop has no exit when neither iterator has the number.
StuckForever ==
    /\ pc = "loop" /\ ~NewIsNext /\ ~StoredIsNext
    /\ UNCHANGED vars

Stuck ==
    /\ pc = "loop" /\ ~NewIsNext /\ ~StoredIsNext
    /\ pc' = "commit"
    /\ UNCHANGED <<trackerVars, posted, copies, saved, number, takenNew, takenStored>>
-----------------------------------------------------------------------------
\* The run is not empty and its last blob is a batch.
CreateRollupBlock == number > next /\ number - 1 \in batch

Remaining == {m \in Numbers : copies[m] > 0}

\* Plausible bug: the first saved number is cut off too.
SplitOffAbove(n) == {m \in index : m > n}

\* saved_sequencer_numbers.split_off(next_sequence_number)
SplitOff(n) == {m \in index : m >= n}

\* Plausible bug: the stored blobs of the run are removed before it is known
\* whether there is a block.
SaveRunRemoving == (store \cup Remaining \cup takenNew) \ takenStored

SaveRun == store \cup Remaining \cup takenNew

\* The locals go out of scope when pick_preferred_blobs_to_process returns.
DropLocals ==
    /\ copies' = [m \in Numbers |-> 0]
    /\ saved' = {} /\ number' = 0 /\ takenNew' = {} /\ takenStored' = {}

\* get_blobs_to_process_from_run: the remaining new blobs are saved first,
\* then the run is released, or its new blobs are saved as well.
Commit ==
    /\ pc = "commit"
    /\ pc' = "idle"
    /\ \/ /\ CreateRollupBlock
          /\ next' = number
          /\ index' = SplitOff(number) \cup Remaining
          /\ store' = (store \cup Remaining) \ takenStored
       \/ /\ ~CreateRollupBlock
          /\ next' = next
          /\ index' = SplitOff(next) \cup Remaining \cup takenNew
          /\ store' = SaveRun
    /\ UNCHANGED <<batch, posted>>
    /\ DropLocals

Next ==
    \/ \E delivery \in Deliveries : Slot(delivery)
    \/ TakeNew \/ TakeStored \/ Stuck \/ Commit

Spec == Init /\ [][Next]_vars

\* Slots follow one another and a slot is always processed to its end.
FairSpec == Spec /\ WF_vars(Next)
-----------------------------------------------------------------------------
\* Every variable has its type.
TypeOK ==
    /\ next \in 0..(MaxNumber + 1) /\ number \in 0..(MaxNumber + 1)
    /\ index \subseteq Numbers /\ store \subseteq Numbers
    /\ batch \subseteq Numbers /\ saved \subseteq Numbers
    /\ pc \in {"idle", "loop", "commit"}
    /\ posted \in Deliveries /\ copies \in Deliveries
    /\ takenNew \subseteq Numbers /\ takenStored \subseteq Numbers

\* The assertions at the end of pick_preferred_blobs_to_process: the run has
\* consecutive numbers, each taken from one place, and at most one batch,
\* which is the last.
RunIsConsecutive ==
    pc = "commit" =>
        /\ takenNew \cup takenStored = next..(number - 1)
        /\ takenNew \cap takenStored = {}
        /\ \A m \in batch : m \in next..(number - 1) => m = number - 1

\* "Blob was present in index but not in storage. This is a bug.": a saved
\* number that may still be released has its blob in storage.
IndexIsBacked == \A m \in index : m >= next => m \in store

\* A slot loses no preferred blob: what it posted, and what was saved before
\* it, is released or stays saved, in the index and in storage.
NothingSkipped ==
    [][pc = "commit" =>
          \A m \in index \cup {k \in Numbers : posted[k] > 0} :
              m >= next => m < next' \/ m \in index' \cap store']_vars

\* Whatever arrived, once the DA layer stays quiet the tracker releases every
\* run it holds: no saved batch is stuck behind a duplicate for ever.
Available == {m \in index : m >= next}

CompleteRun(numbers) ==
    \E m \in batch : m >= next /\ next..m \subseteq numbers

Quiet == \A m \in Numbers : posted[m] = 0

Drains == <>[]Quiet => <>[]~CompleteRun(Available)

\* The abstract tracker: each slot is one step of PreferredTracker.
ImplementsTracker == Tracker!Spec
=============================================================================
