----------------------------- MODULE BlobSender -----------------------------
(***************************************************************************)
(* The blob sender of a full node (crates/full-node/sov-blob-sender):      *)
(* publish_batch_blob and publish_proof_blob store a blob in a local       *)
(* database and spawn a task that drives it through                        *)
(*      MustSubmit -> Published -> Processed -> Finalized                  *)
(* and back to MustSubmit on a timeout, a re-organisation or a discard.    *)
(* The process may crash between any two awaits; only the database and the *)
(* DA layer survive.                                                       *)
(*                                                                         *)
(* The DA layer and the ledger are external.  They appear as a mempool of  *)
(* posted copies and a chain of processed slots with a finalized prefix.   *)
(* The outcome of a copy is the one the blob selector                      *)
(* (sov-blob-storage) records for it.  The sender is the one of the        *)
(* preferred sequencer: each blob has a sequence number of its own, the    *)
(* same in all its copies.  A copy that waits in the selector's storage    *)
(* for its turn is still in the mempool here.                              *)
(***************************************************************************)
EXTENDS Integers, Sequences, FiniteSets

CONSTANTS
    Blobs,          \* BlobInternalIds
    Proofs,         \* the blobs sent with publish_proof_blob
    MAX_NB_OF_BLOB_SUBMISSION_RETRIES,
    RetryModulus,   \* nb_of_retries_attempted is a u8: 2^8 in the code
    MaxSlots,       \* bound: slots of the DA chain
    MaxCopies,      \* bound: copies of one blob the mempool tells apart
    MaxCrashes,     \* bound: crashes of the node
    MaxReorgs,      \* bound: re-organisations of the DA chain
    MaxDiscards,    \* bound: drops, discards other than SequenceNumberTooLow
    MaxErrors       \* bound: database, ledger and DA errors

ASSUME BlobsAssumption ==
    /\ Proofs \subseteq Blobs
    /\ IsFiniteSet(Blobs)

ASSUME BoundsAssumption ==
    /\ MAX_NB_OF_BLOB_SUBMISSION_RETRIES \in Nat
    /\ RetryModulus \in Nat \ {0}
    /\ MaxSlots \in Nat /\ MaxCopies \in Nat /\ MaxCrashes \in Nat
    /\ MaxReorgs \in Nat /\ MaxDiscards \in Nat /\ MaxErrors \in Nat

VARIABLES
    blobs,      \* tables Blobs and BlobInfos: "absent", or the saved status
    up,         \* the process is running
    shutdown,   \* the shutdown watch channel has fired
    restartDb,  \* blobs_to_send_after_restart: the stored blobs
    restartCompleted, \* blobs_to_send_after_restart: the sequencer's completed blobs
    callPc,     \* the publish_blob_inner call: "idle", "check" or "locked"
    callDb, callCompleted, callNew,    \* the requests the call has left
    pc,         \* where the task of each blob is
    status, selector,   \* the task's BlobSubmissionStatus and BlobSelectorStatus
    retries,    \* nb_of_retries_attempted
    slot,       \* the slot number the task's last ledger read returned
    inFlight,   \* the keys of in_flight_blobs
    counter,    \* nb_of_concurrent_blob_submissions
    mempool,    \* external: copies of each blob posted and not yet in a slot
    chain,      \* external: the processed slots, at most one copy in each
    finalized,  \* external: latest finalized slot number
    used,       \* how much of each bound has been used
    pushed,     \* history: blobs ever stored by submit_blob_on_da
    onPublished, onFinalized,  \* history: blobs whose hooks were called
    torn,       \* history: a re-organisation fell between two ledger reads
    leaked      \* history: blobs whose removal from the database failed

restartVars == <<restartDb, restartCompleted>>
callVars    == <<callPc, callDb, callCompleted, callNew>>
taskVars    == <<pc, status, selector, retries, slot>>
senderVars  == <<up, shutdown, restartVars, callVars, taskVars, inFlight, counter>>
daVars      == <<mempool, chain, finalized>>
history     == <<pushed, onPublished, onFinalized, torn, leaked>>
vars        == <<senderVars, blobs, daVars, used, history>>

NoBlob == "no blob"
Statuses  == {"MustSubmit", "Published", "Processed", "Finalized"}
Selectors == {"None", "Accepted", "Dropped", "SequenceNumberTooLow", "OtherReason"}
Takes     == {"Accepted", "Dropped"}    \* the number of the blob is taken
Running   == {"head", "send", "receipt", "hook", "poll", "discarded", "finality", "remove"}
Entry     == [blob : Blobs \cup {NoBlob}, selector : Selectors]
Resources == {"crashes", "reorgs", "discards", "errors"}
MaxUsed   == [crashes |-> MaxCrashes, reorgs |-> MaxReorgs,
              discards |-> MaxDiscards, errors |-> MaxErrors]

IsRunning(b) == pc[b] \in Running
Use(r)       == used[r] < MaxUsed[r] /\ used' = [used EXCEPT ![r] = @ + 1]

-----------------------------------------------------------------------------
(* The caller: publish_batch_blob, publish_proof_blob.                      *)

Init ==
    /\ blobs = [b \in Blobs |-> "absent"]
    /\ up = TRUE
    /\ shutdown = FALSE
    /\ restartDb = {} /\ restartCompleted = {}
    /\ callPc = "idle" /\ callDb = {} /\ callCompleted = {} /\ callNew = NoBlob
    /\ pc = [b \in Blobs |-> "idle"]
    /\ status = [b \in Blobs |-> "MustSubmit"]
    /\ selector = [b \in Blobs |-> "None"]
    /\ retries = [b \in Blobs |-> 0]
    /\ slot = [b \in Blobs |-> 0]
    /\ inFlight = {}
    /\ counter = 0
    /\ mempool = [b \in Blobs |-> 0]
    /\ chain = <<>>
    /\ finalized = 0
    /\ used = [r \in Resources |-> 0]
    /\ pushed = {}
    /\ onPublished = {} /\ onFinalized = {}
    /\ torn = {}
    /\ leaked = {}

SetCall(at, db, completed, new) ==
    callPc' = at /\ callDb' = db /\ callCompleted' = completed /\ callNew' = new

\* publish_blob_inner: the first call after a start takes over the blobs left
\* by the previous run of the node; the new blob is submitted last.
Publish(b) ==
    /\ up /\ callPc = "idle"
    /\ SetCall("check", restartDb, restartCompleted, b)
    /\ restartDb' = {} /\ restartCompleted' = {}
    /\ UNCHANGED <<up, shutdown, taskVars, inFlight, counter, blobs, daVars, used, history>>

\* The next request of the call: stored blobs, then completed ones, then the new one.
Requests ==
    IF callDb # {} THEN callDb
    ELSE IF callCompleted # {} THEN callCompleted ELSE {callNew}

\* A stored blob resumes with its saved status, the others start at MustSubmit.
RequestStatus(b) == IF b \in callDb THEN blobs[b] ELSE "MustSubmit"

\* One request of the call is done.
Dequeue(b) ==
    IF callDb # {} THEN SetCall("check", callDb \ {b}, callCompleted, callNew)
    ELSE IF callCompleted # {} THEN SetCall("check", {}, callCompleted \ {b}, callNew)
    ELSE SetCall("idle", {}, {}, NoBlob)

\* The whole state of the task of b.
SetTask(b, at, st, sel, attempts, n) ==
    /\ pc' = [pc EXCEPT ![b] = at]
    /\ status' = [status EXCEPT ![b] = st]
    /\ selector' = [selector EXCEPT ![b] = sel]
    /\ retries' = [retries EXCEPT ![b] = attempts]
    /\ slot' = [slot EXCEPT ![b] = n]

\* submit_blob_on_da looks at the shutdown channel before it waits for the lock.
SubmitCheck ==
    /\ up /\ callPc = "check"
    /\ IF shutdown THEN \E b \in Requests : Dequeue(b)
                   ELSE SetCall("locked", callDb, callCompleted, callNew)
    /\ UNCHANGED <<up, shutdown, restartVars, taskVars, inFlight, counter, blobs, daVars,
                   used, history>>

\* submit_blob_on_da with the lock held: skip a blob in flight, otherwise store it,
\* spawn its task, enter it in the map and drop the map's finished tasks.
SubmitLocked ==
    /\ up /\ callPc = "locked"
    /\ \E b \in Requests :
        /\ Dequeue(b)
        /\ IF b \in inFlight
           THEN UNCHANGED <<taskVars, inFlight, counter, blobs, pushed>>
           ELSE /\ blobs' = [blobs EXCEPT ![b] = IF @ = "absent" THEN "MustSubmit" ELSE @]
                /\ pushed' = pushed \cup {b}
                /\ counter' = counter + 1
                /\ SetTask(b, "head", RequestStatus(b), "None", 0, 0)
                /\ inFlight' = {c \in inFlight : IsRunning(c)} \cup {b}
    /\ UNCHANGED <<up, shutdown, restartVars, daVars, used, onPublished, onFinalized, torn,
                   leaked>>

\* The store of a new blob fails: the call returns the error, the caller shuts the
\* node down and the rest of the call's requests stay in the database.
SubmitError ==
    /\ up /\ callPc = "locked"
    /\ \E b \in Requests : b \notin inFlight
    /\ Use("errors")
    /\ SetCall("idle", {}, {}, NoBlob)
    /\ shutdown' = TRUE
    /\ UNCHANGED <<up, restartVars, taskVars, inFlight, counter, blobs, daVars, history>>

-----------------------------------------------------------------------------
(* The task of a blob: manage_blob_submission_inside_task.  Each action is   *)
(* what the task does between two awaits.                                    *)

\* The task of b ends: its counter is given back, its entry stays in the map.
Finish(b) ==
    /\ SetTask(b, "done", "MustSubmit", "None", 0, 0)
    /\ counter' = counter - 1

\* The task of b goes back to the head of its loop with a new status.
Enter(b, st, sel) == SetTask(b, "head", st, sel, retries[b], 0)

Goto(b, at) ==
    /\ pc' = [pc EXCEPT ![b] = at]
    /\ UNCHANGED <<status, selector, retries, slot>>

At(b, at, statuses) == up /\ pc[b] = at /\ status[b] \in statuses

\* The status is saved at the head of the loop, except for Finalized.
SaveState(b) ==
    /\ \/ At(b, "head", {"MustSubmit"}) /\ Goto(b, "send")
       \/ At(b, "head", {"Published"})  /\ Goto(b, "hook")
       \/ At(b, "head", {"Processed"})  /\ Goto(b, "poll")
    /\ blobs' = [blobs EXCEPT ![b] = status[b]]
    /\ UNCHANGED <<up, shutdown, restartVars, callVars, inFlight, counter, daVars, used,
                   history>>

\* send_blob hands a copy to the DA layer; the receipt is awaited.
SendBlob(b) ==
    /\ At(b, "send", {"MustSubmit"})
    /\ mempool' = [mempool EXCEPT ![b] = IF @ < MaxCopies THEN @ + 1 ELSE @]
    /\ Goto(b, "receipt")
    /\ UNCHANGED <<up, shutdown, restartVars, callVars, inFlight, counter, blobs, chain, finalized,
                   used, history>>

\* The receipt arrives: Published, and one more attempt is counted in a u8.
Receipt(b) ==
    /\ At(b, "receipt", {"MustSubmit"})
    /\ SetTask(b, "head", "Published", "None", (retries[b] + 1) % RetryModulus, slot[b])
    /\ UNCHANGED <<up, shutdown, restartVars, callVars, inFlight, counter, blobs, daVars,
                   used, history>>

\* on_published_blob, after the status has been saved.
OnPublishedBlob(b) ==
    /\ At(b, "hook", {"Published"})
    /\ onPublished' = onPublished \cup {b}
    /\ Goto(b, "poll")
    /\ UNCHANGED <<up, shutdown, restartVars, callVars, inFlight, counter, blobs, daVars, used,
                   pushed, onFinalized, torn, leaked>>

\* Mutant: the attempts are not bounded.
TimeoutForever(b) ==
    /\ At(b, "poll", {"Published"})
    /\ Enter(b, "MustSubmit", "None")
    /\ UNCHANGED <<up, shutdown, counter, restartVars, callVars, inFlight, blobs, daVars,
                   used, history>>

\* check_timeout is true: shut down after the last attempt, resubmit before it.
Timeout(b) ==
    /\ At(b, "poll", {"Published"})
    /\ IF retries[b] >= MAX_NB_OF_BLOB_SUBMISSION_RETRIES
       THEN Finish(b) /\ shutdown' = TRUE
       ELSE Enter(b, "MustSubmit", "None") /\ UNCHANGED <<counter, shutdown>>
    /\ UNCHANGED <<up, restartVars, callVars, inFlight, blobs, daVars, used, history>>

\* What the ledger holds under the hash of b: the latest entry of the table.
\* Every copy of a blob has the same bytes, so the same hash.  A processed proof
\* leaves no batch receipt.
Slots(b, selectors) ==
    {n \in 1..Len(chain) : chain[n].blob = b /\ chain[n].selector \in selectors}
Latest(S) == IF S = {} THEN 0 ELSE CHOOSE n \in S : \A m \in S : m <= n
BatchByHash(b) == IF b \in Proofs THEN 0 ELSE Latest(Slots(b, {"Accepted"}))
DiscardedBlobByHash(b) == Latest(Slots(b, {"Dropped", "SequenceNumberTooLow", "OtherReason"}))

\* blob_finalized_or_discarded, first read: a batch with this hash.
GetBatchByHash(b) ==
    /\ At(b, "poll", {"Published", "Processed"})
    /\ LET n == BatchByHash(b) IN
       IF n = 0 THEN Goto(b, "discarded")
                ELSE SetTask(b, "finality", status[b], "Accepted", retries[b], n)
    /\ UNCHANGED <<up, shutdown, restartVars, callVars, inFlight, counter, blobs, daVars,
                   used, history>>

\* Second read, when there is no batch: a discarded blob with this hash.  Neither:
\* a published blob waits and polls again, a processed one was re-organised away.
GetDiscardedBlobByHash(b) ==
    /\ At(b, "discarded", {"Published", "Processed"})
    /\ LET n == DiscardedBlobByHash(b) IN
       \/ n # 0 /\ SetTask(b, "finality", status[b], chain[n].selector, retries[b], n)
       \/ n = 0 /\ status[b] = "Published" /\ Goto(b, "poll")
       \/ n = 0 /\ status[b] = "Processed" /\ Enter(b, "MustSubmit", "None")
    /\ UNCHANGED <<up, shutdown, restartVars, callVars, inFlight, counter, blobs, daVars,
                   used, history>>

\* Last read: the latest finalized slot number.  Published always goes through
\* Processed; Processed waits until the slot of the entry is finalized.
GetLatestFinalized(b) ==
    LET n == slot[b]
        isFinalized == n <= finalized
        stale == n > Len(chain) \/ chain[n] # [blob |-> b, selector |-> selector[b]]
    IN  /\ At(b, "finality", {"Published", "Processed"})
        /\ \/ status[b] = "Published" /\ Enter(b, "Processed", selector[b])
           \/ status[b] = "Processed" /\ isFinalized /\ Enter(b, "Finalized", selector[b])
           \/ status[b] = "Processed" /\ ~isFinalized /\ Goto(b, "poll")
        /\ torn' = IF status[b] = "Processed" /\ isFinalized /\ stale
                   THEN torn \cup {b} ELSE torn
        /\ UNCHANGED <<up, shutdown, restartVars, callVars, inFlight, counter, blobs, daVars, used,
                       pushed, onPublished, onFinalized, leaked>>

\* Mutant: every discard ends the task.
OnFinalizedDropsDiscards(b) ==
    /\ At(b, "head", {"Finalized"})
    /\ onFinalized' = onFinalized \cup {b}
    /\ Goto(b, "remove")
    /\ UNCHANGED <<up, shutdown, restartVars, callVars, inFlight, counter, blobs, daVars, used,
                   pushed, onPublished, torn, leaked>>

\* Mutant: the blob is removed before the hook.
OnFinalizedRemovesFirst(b) ==
    /\ At(b, "head", {"Finalized"})
    /\ IF selector[b] \in {"Accepted", "SequenceNumberTooLow"}
       THEN blobs' = [blobs EXCEPT ![b] = "absent"] /\ Goto(b, "remove")
       ELSE Enter(b, "MustSubmit", "None") /\ UNCHANGED blobs
    /\ UNCHANGED <<up, shutdown, restartVars, callVars, inFlight, counter, daVars, used,
                   history>>

\* Finalized: on_finalized_blob before the removal; any other discard resubmits.
OnFinalizedBlob(b) ==
    /\ At(b, "head", {"Finalized"})
    /\ IF selector[b] \in {"Accepted", "SequenceNumberTooLow"}
       THEN /\ onFinalized' = onFinalized \cup {b}
            /\ Goto(b, "remove")
       ELSE /\ Enter(b, "MustSubmit", "None")
            /\ UNCHANGED onFinalized
    /\ UNCHANGED <<up, shutdown, restartVars, callVars, inFlight, counter, blobs, daVars, used,
                   pushed, onPublished, torn, leaked>>

RemoveBlob(b) ==
    /\ At(b, "remove", {"Finalized"})
    /\ blobs' = [blobs EXCEPT ![b] = "absent"]
    /\ Finish(b)
    /\ UNCHANGED <<up, shutdown, restartVars, callVars, inFlight, daVars, used, history>>

\* remove_blob_or_err fails: logged, and the task ends all the same.
RemoveError(b) ==
    /\ At(b, "remove", {"Finalized"})
    /\ Use("errors")
    /\ Finish(b)
    /\ leaked' = leaked \cup {b}
    /\ UNCHANGED <<up, shutdown, restartVars, callVars, inFlight, blobs, daVars, pushed,
                   onPublished, onFinalized, torn>>

\* A failed save, a failed send or a failed ledger read shuts the node down.
TaskError(b) ==
    /\ \/ At(b, "head", {"MustSubmit", "Published", "Processed"})
       \/ At(b, "receipt", {"MustSubmit"})
       \/ \E at \in {"poll", "discarded", "finality"} : At(b, at, {"Published", "Processed"})
    /\ Use("errors")
    /\ Finish(b)
    /\ shutdown' = TRUE
    /\ UNCHANGED <<up, restartVars, callVars, inFlight, blobs, daVars, history>>

\* future_or_shutdown drops the task at an await once the channel has fired.
TaskShutdown(b) ==
    /\ up /\ shutdown /\ IsRunning(b)
    /\ Finish(b)
    /\ UNCHANGED <<up, shutdown, restartVars, callVars, inFlight, blobs, daVars, used,
                   history>>

-----------------------------------------------------------------------------
(* main_task, the process and its environment.                               *)

\* Mutant: the tick clears the map.
MainTaskTickClears ==
    /\ up /\ ~shutdown
    /\ inFlight # {}
    /\ inFlight' = {}
    /\ UNCHANGED <<up, shutdown, restartVars, callVars, taskVars, counter, blobs, daVars,
                   used, history>>

\* Every ten seconds the finished tasks leave the map.
MainTaskTick ==
    /\ up /\ ~shutdown
    /\ \E b \in inFlight : ~IsRunning(b)
    /\ inFlight' = {b \in inFlight : IsRunning(b)}
    /\ UNCHANGED <<up, shutdown, restartVars, callVars, taskVars, counter, blobs, daVars,
                   used, history>>

\* On shutdown the map is taken and every task of it is joined, under the lock.
MainTaskShutdown ==
    /\ up /\ shutdown
    /\ inFlight # {}
    /\ \A b \in inFlight : ~IsRunning(b)
    /\ inFlight' = {}
    /\ UNCHANGED <<up, shutdown, restartVars, callVars, taskVars, counter, blobs, daVars,
                   used, history>>

\* Another part of the node asks for a shutdown.
Shutdown ==
    /\ up /\ ~shutdown
    /\ Use("errors")
    /\ shutdown' = TRUE
    /\ UNCHANGED <<up, restartVars, callVars, taskVars, inFlight, counter, blobs, daVars,
                   history>>

Crash ==
    /\ up
    /\ Use("crashes")
    /\ up' = FALSE
    /\ shutdown' = FALSE
    /\ restartDb' = {} /\ restartCompleted' = {}
    /\ SetCall("idle", {}, {}, NoBlob)
    /\ pc' = [b \in Blobs |-> "idle"]
    /\ status' = [b \in Blobs |-> "MustSubmit"]
    /\ selector' = [b \in Blobs |-> "None"]
    /\ retries' = [b \in Blobs |-> 0]
    /\ slot' = [b \in Blobs |-> 0]
    /\ inFlight' = {}
    /\ counter' = 0
    /\ UNCHANGED <<blobs, daVars, history>>

\* Mutant: blobs that were already published are not loaded.
RestartSkipsPublished ==
    /\ ~up
    /\ up' = TRUE
    /\ restartDb' = {b \in Blobs : blobs[b] = "MustSubmit"}
    /\ restartCompleted' \in SUBSET pushed
    /\ UNCHANGED <<shutdown, callVars, taskVars, inFlight, counter, blobs, daVars, used,
                   history>>

\* new_with_task_intervals: the stored blobs are loaded, and the sequencer hands
\* over the completed blobs of its own database.
Restart ==
    /\ ~up
    /\ up' = TRUE
    /\ restartDb' = {b \in Blobs : blobs[b] # "absent"}
    /\ restartCompleted' \in SUBSET pushed
    /\ UNCHANGED <<shutdown, callVars, taskVars, inFlight, counter, blobs, daVars, used,
                   history>>

\* upcoming_sequence_numbers is past the number of b: the selector has taken a copy of b
\* in a run of blobs, whatever became of that copy afterwards.
SequenceNumberTaken(b) == Slots(b, Takes) # {}

\* What the selector records for a copy of b.  The next number is stored before the blobs of
\* the run are validated, so a blob is also dropped (OutOfCapacity, SenderInsufficientStake)
\* after its number was taken.  Without a preferred sequencer no number is looked at.
Selection(b) ==
    {"OtherReason"} \cup (IF SequenceNumberTaken(b) THEN {"SequenceNumberTooLow"}
                                                   ELSE Takes)

\* A slot with a copy of b.
ProduceSlot(b) ==
    /\ Len(chain) < MaxSlots
    /\ mempool[b] > 0
    /\ mempool' = [mempool EXCEPT ![b] = @ - 1]
    /\ \E sel \in Selection(b) :
        /\ IF sel \in {"Dropped", "OtherReason"} THEN Use("discards") ELSE UNCHANGED used
        /\ chain' = Append(chain, [blob |-> b, selector |-> sel])
    /\ UNCHANGED <<senderVars, blobs, finalized, history>>

ProduceEmptySlot ==
    /\ Len(chain) < MaxSlots
    /\ chain' = Append(chain, [blob |-> NoBlob, selector |-> "None"])
    /\ UNCHANGED <<senderVars, blobs, mempool, finalized, used, history>>

LoseCopy(b) ==
    /\ mempool[b] > 0
    /\ mempool' = [mempool EXCEPT ![b] = @ - 1]
    /\ UNCHANGED <<senderVars, blobs, chain, finalized, used, history>>

Finalize ==
    /\ finalized < Len(chain)
    /\ finalized' = finalized + 1
    /\ UNCHANGED <<senderVars, blobs, mempool, chain, used, history>>

\* The slots after the k-th are replaced; their copies may return to the mempool.
Reorg ==
    /\ Use("reorgs")
    /\ \E k \in finalized..(Len(chain) - 1) :
        /\ chain' = SubSeq(chain, 1, k)
        /\ \E back \in SUBSET {chain[n].blob : n \in (k + 1)..Len(chain)} :
            mempool' = [b \in Blobs |-> IF b \in back /\ mempool[b] < MaxCopies
                                        THEN mempool[b] + 1 ELSE mempool[b]]
    /\ UNCHANGED <<senderVars, blobs, finalized, history>>

-----------------------------------------------------------------------------
TaskStep(b) ==
    \/ SaveState(b) \/ SendBlob(b) \/ Receipt(b) \/ OnPublishedBlob(b)
    \/ GetBatchByHash(b) \/ GetDiscardedBlobByHash(b) \/ GetLatestFinalized(b)
    \/ OnFinalizedBlob(b) \/ RemoveBlob(b)

CallerStep == SubmitCheck \/ SubmitLocked

Next ==
    \/ \E b \in Blobs : \/ Publish(b) \/ TaskStep(b) \/ Timeout(b) \/ RemoveError(b)
                        \/ TaskError(b) \/ TaskShutdown(b) \/ ProduceSlot(b) \/ LoseCopy(b)
    \/ CallerStep \/ SubmitError
    \/ MainTaskTick \/ MainTaskShutdown \/ Shutdown \/ Crash \/ Restart
    \/ ProduceEmptySlot \/ Finalize \/ Reorg

Spec == Init /\ [][Next]_vars

\* A spawned task is polled until it ends, a publish call runs to its end, the
\* clock reaches the timeout of a blob that keeps polling, and the DA layer
\* finalizes the slots it has.
Fairness ==
    /\ WF_vars(CallerStep)
    /\ WF_vars(Finalize)
    /\ \A b \in Blobs : /\ WF_vars(TaskStep(b))
                        /\ WF_vars(TaskShutdown(b))
                        /\ SF_vars(Timeout(b))

FairSpec == Spec /\ Fairness

-----------------------------------------------------------------------------
(* Properties                                                                *)

TypeOK ==
    /\ blobs \in [Blobs -> {"absent", "MustSubmit", "Published", "Processed"}]
    /\ up \in BOOLEAN /\ shutdown \in BOOLEAN
    /\ restartDb \subseteq Blobs /\ restartCompleted \subseteq Blobs
    /\ callPc \in {"idle", "check", "locked"}
    /\ callDb \subseteq Blobs /\ callCompleted \subseteq Blobs
    /\ callPc # "idle" => callNew \in Blobs
    /\ pc \in [Blobs -> Running \cup {"idle", "done"}]
    /\ status \in [Blobs -> Statuses]
    /\ selector \in [Blobs -> Selectors]
    /\ retries \in [Blobs -> 0..(RetryModulus - 1)]
    /\ slot \in [Blobs -> Nat]
    /\ inFlight \subseteq Blobs
    /\ counter \in Int
    /\ mempool \in [Blobs -> 0..MaxCopies]
    /\ chain \in Seq(Entry)
    /\ finalized \in Nat
    /\ used \in [Resources -> Nat]
    /\ pushed \subseteq Blobs
    /\ onPublished \subseteq Blobs /\ onFinalized \subseteq Blobs
    /\ torn \subseteq Blobs /\ leaked \subseteq Blobs

\* Some copy of b was accepted in a finalized slot.
AcceptedForGood(b) == \E n \in Slots(b, {"Accepted"}) : n <= finalized

\* The selector took the number of b in a finalized slot.
TakenForGood(b) == \E n \in Slots(b, Takes) : n <= finalized

\* A blob that was stored for publishing leaves the database only when sending it again is of
\* no use: a finalized slot took its sequence number, with a copy that was accepted or
\* dropped.  This holds whatever crashes, timeouts, lost copies, re-organisations and
\* discards happen, unless a re-organisation fell between the two ledger reads of one
\* blob_finalized_or_discarded call.
NoBlobGivenUp ==
    \A b \in pushed \ torn : blobs[b] = "absent" => TakenForGood(b)

\* "We guarantee at-least-once delivery of all events": a blob that has left the
\* database had both of its hooks called, also when a crash fell in between.
HooksAtLeastOnce ==
    \A b \in pushed : blobs[b] = "absent" => b \in onPublished \cap onFinalized

\* While the node runs no stored blob is forgotten: it has a task, or it waits for
\* the first publish call after the restart, or its removal failed.
NoBlobForgotten ==
    up /\ ~shutdown =>
        \A b \in Blobs : blobs[b] # "absent" =>
            \/ IsRunning(b)
            \/ b \in restartDb \cup callDb
            \/ b \in leaked

\* nb_of_concurrent_blob_submissions, which the sequencer reads to slow itself
\* down, is the number of tasks that are running, on every path out of a task.
CounterIsExact == counter = Cardinality({b \in Blobs : IsRunning(b)})

\* on_finalized_blob: "The blob is considered to be finalized by the rollup node", on the
\* word of blob_finalized_or_discarded, which "decides if a given blob was finalized on
\* the DA or discarded by the rollup".
FinalizedIsFinal ==
    \A b \in onFinalized : AcceptedForGood(b)

\* Every task ends: the blob is resolved, the retries are used up, or the node
\* stops.
TasksEnd == \A b \in Blobs : IsRunning(b) ~> ~IsRunning(b)
=============================================================================
