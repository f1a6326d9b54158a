-------------------------- MODULE BlobSenderProofs --------------------------
(* What the blob sender guarantees for every set of blobs and every bound. *)
EXTENDS BlobSenderTaskProofs

\* The time each SMT leaf may take.
USE SMTT(40)

\* Which hooks have been called at each point of a task, and behind each saved status.
HookInv ==
    \A b \in Blobs :
        /\ blobs[b] = "Processed" => b \in onPublished
        /\ IsRunning(b) /\ status[b] \in {"Processed", "Finalized"} => b \in onPublished
        /\ pc[b] \in {"poll", "discarded", "finality"} => b \in onPublished
        /\ pc[b] = "remove" => b \in onFinalized

\* A discard with SequenceNumberTooLow follows a copy that took the number.
ChainInv ==
    /\ finalized <= Len(chain)
    /\ \A n \in 1..Len(chain) : chain[n].selector = "SequenceNumberTooLow" =>
          \E m \in 1..(n - 1) : chain[m].blob = chain[n].blob /\ chain[m].selector \in Takes

\* What a task has concluded from its reads of the ledger.
DecidedInv ==
    \A b \in Blobs :
        /\ pc[b] = "finality" => slot[b] >= 1
        /\ pc[b] = "remove" => selector[b] \in {"Accepted", "SequenceNumberTooLow"}
        /\ b \notin torn /\ status[b] = "Finalized"
              /\ selector[b] \in {"Accepted", "SequenceNumberTooLow"} => TakenForGood(b)

IInv == /\ TypeOK /\ TrackInv /\ HookInv /\ HooksAtLeastOnce /\ NoBlobForgotten
        /\ ChainInv /\ DecidedInv /\ NoBlobGivenUp

\* HookInv is preserved.
LEMMA NextHook ==
    ASSUME TypeOK, TrackInv, HookInv, Next
    PROVE  HookInv'
<1> USE DEF HookInv
<1>1. ASSUME NEW b \in Blobs, TaskStep(b) PROVE HookInv'
  <2>1. \A c \in Blobs \ {b} : /\ blobs'[c] = blobs[c] /\ pc'[c] = pc[c]
                               /\ status'[c] = status[c]
    <3>1. blobs' = blobs \/ \E st : blobs' = [blobs EXCEPT ![b] = st]
        BY <1>1, TaskStores
    <3>2. status' = status \/ \E st : status' = [status EXCEPT ![b] = st]
        BY Zenon, <1>1 DEF TaskStep, SaveState, SendBlob, Receipt, OnPublishedBlob, GetBatchByHash,
           GetDiscardedBlobByHash, GetLatestFinalized, OnFinalizedBlob, RemoveBlob,
           Goto, Enter, Finish, SetTask
    <3>3. \E at : pc' = [pc EXCEPT ![b] = at]
        BY Zenon, <1>1, TaskMoves
    <3> QED BY <3>1, <3>2, <3>3 DEF TypeOK
  <2>2. onPublished \subseteq onPublished' /\ onFinalized \subseteq onFinalized'
    BY Zenon, <1>1 DEF TaskStep, SaveState, SendBlob, Receipt, OnPublishedBlob, GetBatchByHash,
       GetDiscardedBlobByHash, GetLatestFinalized, OnFinalizedBlob, RemoveBlob, history
  <2> DEFINE Hooked ==
        /\ blobs'[b] = "Processed" => b \in onPublished'
        /\ pc'[b] \in Running /\ status'[b] \in {"Processed", "Finalized"} => b \in onPublished'
        /\ pc'[b] \in {"poll", "discarded", "finality"} => b \in onPublished'
        /\ pc'[b] = "remove" => b \in onFinalized'
  <2>3. Hooked
    <3> USE DEF TypeOK, IsRunning, Running, At, Goto, Enter, SetTask, Finish, history
    <3>1. CASE SaveState(b)
        BY <3>1 DEF SaveState
    <3>2. CASE SendBlob(b)
        BY <3>2 DEF SendBlob
    <3>3. CASE Receipt(b)
        BY <3>3 DEF Receipt
    <3>4. CASE OnPublishedBlob(b)
        BY <3>4 DEF OnPublishedBlob
    <3>5. CASE GetBatchByHash(b)
        BY <3>5 DEF GetBatchByHash
    <3>6. CASE GetDiscardedBlobByHash(b)
        BY Zenon, <3>6 DEF GetDiscardedBlobByHash
    <3>7. CASE GetLatestFinalized(b)
        BY Zenon, <3>7 DEF GetLatestFinalized
    <3>8. CASE OnFinalizedBlob(b)
        BY <3>8 DEF OnFinalizedBlob
    <3>9. CASE RemoveBlob(b)
        BY <3>9 DEF RemoveBlob
    <3> QED BY ZenonT(40), <1>1, <3>1, <3>2, <3>3, <3>4, <3>5, <3>6, <3>7, <3>8, <3>9 DEF TaskStep
  <2> QED BY Zenon, <2>1, <2>2, <2>3 DEF IsRunning
<1>2. ASSUME NEW b \in Blobs,
             Timeout(b) \/ RemoveError(b) \/ TaskError(b) \/ TaskShutdown(b)
      PROVE  HookInv'
  <2>1. \E at \in {"head", "done"} : pc' = [pc EXCEPT ![b] = at]
    BY <1>2, TaskGivesUp
  <2>2. UNCHANGED <<blobs, onPublished, onFinalized>>
    BY <1>2, TaskGivesUp
  <2>3. status' = [status EXCEPT ![b] = "MustSubmit"]
    BY <1>2 DEF Timeout, RemoveError, TaskError, TaskShutdown, Enter, Finish, SetTask
  <2> QED BY <2>1, <2>2, <2>3 DEF TypeOK, IsRunning, Running
<1>3. CASE SubmitLocked
  <2>1. PICK b \in Requests :
           IF b \in inFlight
           THEN UNCHANGED <<taskVars, inFlight, counter, blobs, pushed>>
           ELSE /\ blobs' = [blobs EXCEPT ![b] = IF @ = "absent" THEN "MustSubmit" ELSE @]
                /\ SetTask(b, "head", RequestStatus(b), "None", 0, 0)
    BY Zenon, <1>3 DEF SubmitLocked
  <2>2. b \in Blobs /\ UNCHANGED <<onPublished, onFinalized>>
    BY <1>3 DEF SubmitLocked, Requests, TypeOK
  <2>3. CASE b \in inFlight
    BY Zenon, <2>1, <2>2, <2>3 DEF IsRunning, taskVars
  <2>4. CASE b \notin inFlight
    <3>1. RequestStatus(b) \in {"Processed", "Finalized"} => blobs[b] = "Processed"
        BY Zenon, <2>2 DEF RequestStatus, TypeOK
    <3>2. /\ blobs'[b] = "Processed" => blobs[b] = "Processed"
          /\ \A c \in Blobs \ {b} : /\ blobs'[c] = blobs[c] /\ pc'[c] = pc[c]
                                    /\ status'[c] = status[c]
          /\ pc'[b] = "head" /\ status'[b] = RequestStatus(b)
        BY <2>1, <2>2, <2>4 DEF SetTask, TypeOK
    <3> QED BY <2>2, <3>1, <3>2 DEF IsRunning
  <2> QED BY Zenon, <2>3, <2>4
<1>4. CASE Crash
    BY <1>4 DEF Crash, IsRunning, Running, history
<1>5. ASSUME UNCHANGED <<pc, status, blobs, onPublished, onFinalized>> PROVE HookInv'
    BY <1>5 DEF IsRunning
<1>6. ASSUME NEW b \in Blobs, Publish(b) \/ ProduceSlot(b) \/ LoseCopy(b) PROVE HookInv'
    BY Zenon, <1>5, <1>6 DEF Publish, ProduceSlot, LoseCopy, senderVars, taskVars, history
<1>7. CASE \/ SubmitCheck \/ SubmitError \/ MainTaskTick \/ MainTaskShutdown \/ Shutdown
           \/ Restart \/ ProduceEmptySlot \/ Finalize \/ Reorg
    BY Zenon, <1>5, <1>7 DEF SubmitCheck, SubmitError, MainTaskTick, MainTaskShutdown, Shutdown,
       Restart, ProduceEmptySlot, Finalize, Reorg, senderVars, taskVars, history
<1> QED BY Zenon, <1>1, <1>2, <1>3, <1>4, <1>6, <1>7 DEF Next, CallerStep

\* HooksAtLeastOnce is preserved: the only step that takes a blob out of the table
\* follows both hooks.
LEMMA NextHooks ==
    ASSUME TypeOK, TrackInv, HookInv, HooksAtLeastOnce, Next
    PROVE  HooksAtLeastOnce'
<1> USE DEF HooksAtLeastOnce
<1>1. ASSUME NEW b \in Blobs, TaskStep(b) PROVE HooksAtLeastOnce'
  <2>1. onPublished \subseteq onPublished' /\ onFinalized \subseteq onFinalized'
    BY Zenon, <1>1 DEF TaskStep, SaveState, SendBlob, Receipt, OnPublishedBlob, GetBatchByHash,
       GetDiscardedBlobByHash, GetLatestFinalized, OnFinalizedBlob, RemoveBlob, history
  <2>2. pushed' = pushed /\ pushed \subseteq Blobs
    BY <1>1, TaskMoves DEF TypeOK
  <2>3. \A c \in Blobs \ {b} : blobs'[c] = blobs[c]
    <3>1. blobs' = blobs \/ \E st : blobs' = [blobs EXCEPT ![b] = st]
        BY <1>1, TaskStores
    <3> QED BY <3>1 DEF TypeOK
  <2>4. blobs'[b] = "absent" /\ blobs[b] # "absent" => b \in onPublished \cap onFinalized
    <3>1. \/ blobs' = blobs
          \/ blobs' = [blobs EXCEPT ![b] = status[b]]
          \/ /\ pc[b] = "remove" /\ status[b] = "Finalized"
             /\ blobs' = [blobs EXCEPT ![b] = "absent"]
        BY <1>1, TaskStores
    <3>2. status[b] # "absent"
        BY Zenon DEF TypeOK, Statuses
    <3>3. pc[b] = "remove" /\ status[b] = "Finalized" => b \in onPublished \cap onFinalized
        BY DEF HookInv, IsRunning, Running
    <3> QED BY <3>1, <3>2, <3>3 DEF TypeOK
  <2> QED BY <2>1, <2>2, <2>3, <2>4
<1>2. ASSUME NEW b \in Blobs,
             Timeout(b) \/ RemoveError(b) \/ TaskError(b) \/ TaskShutdown(b)
      PROVE  HooksAtLeastOnce'
    BY <1>2, TaskGivesUp
<1>3. CASE SubmitLocked
  <2>1. PICK b \in Requests :
           \/ UNCHANGED <<blobs, pushed>>
           \/ /\ blobs' = [blobs EXCEPT ![b] = IF @ = "absent" THEN "MustSubmit" ELSE @]
              /\ pushed' = pushed \cup {b}
    BY <1>3 DEF SubmitLocked
  <2>2. b \in Blobs /\ UNCHANGED <<onPublished, onFinalized>>
    BY <1>3 DEF SubmitLocked, Requests, TypeOK
  <2> QED BY <2>1, <2>2 DEF TypeOK
<1>4. ASSUME UNCHANGED <<blobs, pushed, onPublished, onFinalized>> PROVE HooksAtLeastOnce'
    BY <1>4
<1>5. ASSUME NEW b \in Blobs, Publish(b) \/ ProduceSlot(b) \/ LoseCopy(b)
      PROVE  HooksAtLeastOnce'
    BY <1>4, <1>5 DEF Publish, ProduceSlot, LoseCopy, history
<1>6. CASE \/ SubmitCheck \/ SubmitError \/ MainTaskTick \/ MainTaskShutdown \/ Shutdown
           \/ Crash \/ Restart \/ ProduceEmptySlot \/ Finalize \/ Reorg
    BY Zenon, <1>4, <1>6 DEF SubmitCheck, SubmitError, MainTaskTick, MainTaskShutdown, Shutdown,
       Crash, Restart, ProduceEmptySlot, Finalize, Reorg, history
<1> QED BY <1>1, <1>2, <1>3, <1>5, <1>6 DEF Next, CallerStep

\* NoBlobForgotten is preserved: a task ends with its blob in the table only when the
\* node is shutting down or the removal failed.
LEMMA NextForgotten ==
    ASSUME TypeOK, TrackInv, NoBlobForgotten, Next
    PROVE  NoBlobForgotten'
<1> USE DEF NoBlobForgotten
<1>1. ASSUME NEW b \in Blobs, TaskStep(b) PROVE NoBlobForgotten'
  <2>1. UNCHANGED <<up, shutdown, restartDb, callDb, leaked>>
    BY Zenon, <1>1 DEF TaskStep, SaveState, SendBlob, Receipt, OnPublishedBlob, GetBatchByHash,
       GetDiscardedBlobByHash, GetLatestFinalized, OnFinalizedBlob, RemoveBlob, history,
       restartVars, callVars
  <2>2. PICK at \in Running \cup {"done"} : pc' = [pc EXCEPT ![b] = at]
    BY <1>1, TaskMoves
  <2>3. \A c \in Blobs \ {b} : blobs'[c] = blobs[c] /\ pc'[c] = pc[c]
    <3>1. blobs' = blobs \/ \E st : blobs' = [blobs EXCEPT ![b] = st]
        BY <1>1, TaskStores
    <3> QED BY <2>2, <3>1 DEF TypeOK
  <2>4. blobs'[b] = "absent" \/ pc'[b] \in Running
    <3>1. RemoveBlob(b) => blobs'[b] = "absent"
        BY DEF RemoveBlob, TypeOK
    <3>2. ~RemoveBlob(b) => pc'[b] # "done"
        BY ZenonT(40), <1>1 DEF TaskStep, SaveState, SendBlob, Receipt, OnPublishedBlob,
           GetBatchByHash, GetDiscardedBlobByHash, GetLatestFinalized, OnFinalizedBlob, Goto,
           Enter, SetTask, TypeOK
    <3>3. pc'[b] = at
        BY <2>2 DEF TypeOK
    <3> QED BY <2>2, <3>1, <3>2, <3>3
  <2> QED BY Zenon, <2>1, <2>3, <2>4 DEF IsRunning
<1>2. ASSUME NEW b \in Blobs, Timeout(b) PROVE NoBlobForgotten'
  <2>1. CASE retries[b] >= MAX_NB_OF_BLOB_SUBMISSION_RETRIES
    BY Zenon, <1>2, <2>1 DEF Timeout
  <2>2. CASE ~(retries[b] >= MAX_NB_OF_BLOB_SUBMISSION_RETRIES)
    <3>1. pc' = [pc EXCEPT ![b] = "head"] /\ pc[b] = "poll"
        BY <1>2, <2>2 DEF Timeout, Enter, SetTask, At
    <3>2. \A c \in Blobs : IsRunning(c)' = IsRunning(c)
        BY <3>1 DEF TypeOK, IsRunning, Running
    <3>3. UNCHANGED <<up, shutdown, blobs, restartDb, callDb, leaked>>
        BY <1>2, <2>2 DEF Timeout, restartVars, callVars, history
    <3> QED BY <3>2, <3>3
  <2> QED BY <2>1, <2>2
<1>3. ASSUME NEW b \in Blobs, RemoveError(b) PROVE NoBlobForgotten'
    BY <1>3 DEF RemoveError, Finish, SetTask, TypeOK, IsRunning, restartVars, callVars
<1>4. ASSUME NEW b \in Blobs, TaskError(b) \/ TaskShutdown(b) PROVE NoBlobForgotten'
  <2>1. CASE TaskError(b)
    BY <2>1 DEF TaskError
  <2>2. CASE TaskShutdown(b)
    BY <2>2 DEF TaskShutdown
  <2> QED BY Zenon, <1>4, <2>1, <2>2
<1>5. ASSUME NEW b \in Blobs, Publish(b) PROVE NoBlobForgotten'
  <2>1. /\ restartDb \cup callDb = restartDb' \cup callDb'
        /\ UNCHANGED <<up, shutdown, pc, blobs, leaked>>
    BY <1>5 DEF Publish, SetCall, TrackInv, taskVars, history
  <2> QED BY <2>1 DEF IsRunning
<1>6. CASE SubmitCheck
  <2>1. CASE shutdown
    BY <1>6, <2>1 DEF SubmitCheck
  <2>2. CASE ~shutdown
    BY Zenon, <1>6, <2>2 DEF SubmitCheck, SetCall, IsRunning, taskVars, restartVars, history
  <2> QED BY <2>1, <2>2
<1>7. CASE SubmitLocked
  <2>1. PICK b \in Requests :
           /\ Dequeue(b)
           /\ IF b \in inFlight
              THEN UNCHANGED <<taskVars, inFlight, counter, blobs, pushed>>
              ELSE /\ blobs' = [blobs EXCEPT ![b] = IF @ = "absent" THEN "MustSubmit" ELSE @]
                   /\ SetTask(b, "head", RequestStatus(b), "None", 0, 0)
    BY <1>7 DEF SubmitLocked
  <2>2. b \in Blobs /\ UNCHANGED <<up, shutdown, restartDb, leaked>>
    BY <1>7 DEF SubmitLocked, Requests, TypeOK, restartVars
  <2>3. callDb \ {b} \subseteq callDb'
    BY <2>1 DEF Dequeue, SetCall
  <2>4. CASE b \in inFlight
    <3>1. b \notin callDb
        BY <2>4 DEF TrackInv
    <3> QED BY Zenon, <2>1, <2>2, <2>3, <2>4, <3>1 DEF IsRunning, taskVars
  <2>5. CASE b \notin inFlight
    <3>1. /\ \A c \in Blobs \ {b} : blobs'[c] = blobs[c] /\ pc'[c] = pc[c]
          /\ pc'[b] = "head"
        BY <2>1, <2>2, <2>5 DEF SetTask, TypeOK
    <3> QED BY <2>2, <2>3, <3>1 DEF IsRunning, Running
  <2> QED BY Zenon, <2>4, <2>5
<1>8. CASE SubmitError \/ Shutdown
    BY Zenon, <1>8 DEF SubmitError, Shutdown
<1>9. CASE Crash
    BY <1>9 DEF Crash
<1>10. CASE Restart
    BY <1>10 DEF Restart
<1>11. ASSUME UNCHANGED <<up, shutdown, pc, blobs, restartDb, callDb, leaked>>
       PROVE  NoBlobForgotten'
    BY <1>11 DEF IsRunning
<1>12. ASSUME NEW b \in Blobs, ProduceSlot(b) \/ LoseCopy(b) PROVE NoBlobForgotten'
    BY Zenon, <1>11, <1>12 DEF ProduceSlot, LoseCopy, senderVars, taskVars, restartVars, callVars,
       history
<1>13. CASE MainTaskTick \/ MainTaskShutdown \/ ProduceEmptySlot \/ Finalize \/ Reorg
    BY Zenon, <1>11, <1>13 DEF MainTaskTick, MainTaskShutdown, ProduceEmptySlot, Finalize, Reorg,
       senderVars, taskVars, restartVars, callVars, history
<1> QED BY ZenonT(40), <1>1, <1>2, <1>3, <1>4, <1>5, <1>6, <1>7, <1>8, <1>9, <1>10, <1>12, <1>13
        DEF Next, CallerStep

-----------------------------------------------------------------------------
\* What a step does to the chain: nothing, one more slot, one more finalized slot, or
\* slots that are not finalized are gone.
LEMMA ChainMoves ==
    ASSUME TypeOK, Next
    PROVE  \/ UNCHANGED <<chain, finalized>>
           \/ /\ UNCHANGED finalized
              /\ \E e \in Entry :
                    /\ chain' = Append(chain, e)
                    /\ e.selector = "SequenceNumberTooLow" => Slots(e.blob, Takes) # {}
           \/ UNCHANGED chain /\ finalized' = finalized + 1 /\ finalized < Len(chain)
           \/ /\ UNCHANGED finalized
              /\ \E k \in finalized..(Len(chain) - 1) : chain' = SubSeq(chain, 1, k)
<1>1. ASSUME NEW b \in Blobs, ProduceSlot(b)
      PROVE  /\ UNCHANGED finalized
             /\ \E e \in Entry :
                   /\ chain' = Append(chain, e)
                   /\ e.selector = "SequenceNumberTooLow" => Slots(e.blob, Takes) # {}
  <2>1. PICK sel \in Selection(b) : chain' = Append(chain, [blob |-> b, selector |-> sel])
    BY Zenon, <1>1 DEF ProduceSlot
  <2> DEFINE e == [blob |-> b, selector |-> sel]
  <2>2. sel \in Selectors /\ (sel = "SequenceNumberTooLow" => Slots(b, Takes) # {})
    BY DEF Selection, SequenceNumberTaken, Selectors, Takes
  <2>3. e \in Entry /\ e.blob = b /\ e.selector = sel /\ chain' = Append(chain, e)
    BY <2>1, <2>2 DEF Entry
  <2>4. UNCHANGED finalized
    BY Zenon, <1>1 DEF ProduceSlot
  <2> HIDE DEF e
  <2> QED BY Zenon, <2>2, <2>3, <2>4
<1>2. CASE ProduceEmptySlot
  <2>1. [blob |-> NoBlob, selector |-> "None"] \in Entry
    BY DEF Entry, Selectors
  <2> QED BY <1>2, <2>1 DEF ProduceEmptySlot
<1>3. CASE Finalize \/ Reorg
    BY <1>3 DEF Finalize, Reorg
<1>4. ASSUME NEW b \in Blobs,
             \/ Publish(b) \/ TaskStep(b) \/ Timeout(b) \/ RemoveError(b)
             \/ TaskError(b) \/ TaskShutdown(b) \/ LoseCopy(b)
      PROVE  UNCHANGED <<chain, finalized>>
  <2>1. CASE TaskStep(b)
    BY ZenonT(40), <2>1 DEF TaskStep, SaveState, SendBlob, Receipt, OnPublishedBlob,
       GetBatchByHash, GetDiscardedBlobByHash, GetLatestFinalized, OnFinalizedBlob, RemoveBlob,
       daVars
  <2> QED BY Zenon, <1>4, <2>1 DEF Publish, Timeout, RemoveError, TaskError, TaskShutdown,
             LoseCopy, daVars
<1>5. CASE \/ SubmitCheck \/ SubmitLocked \/ SubmitError \/ MainTaskTick \/ MainTaskShutdown
           \/ Shutdown \/ Crash \/ Restart
    BY Zenon, <1>5 DEF SubmitCheck, SubmitLocked, SubmitError, MainTaskTick, MainTaskShutdown,
       Shutdown, Crash, Restart, daVars
<1> QED BY ZenonT(40), <1>1, <1>2, <1>3, <1>4, <1>5 DEF Next, CallerStep

\* A finalized slot is never replaced.
LEMMA NextChain ==
    ASSUME TypeOK, ChainInv, Next
    PROVE  /\ ChainInv'
           /\ finalized <= finalized' /\ finalized' <= Len(chain')
           /\ \A n \in 1..finalized : chain'[n] = chain[n]
<1> DEFINE Goal == /\ ChainInv'
                   /\ finalized <= finalized' /\ finalized' <= Len(chain')
                   /\ \A n \in 1..finalized : chain'[n] = chain[n]
<1>0. chain \in Seq(Entry) /\ finalized \in Nat /\ Len(chain) \in Nat
    BY DEF TypeOK
<1>1. CASE UNCHANGED <<chain, finalized>>
    BY <1>0, <1>1 DEF ChainInv
<1>2. CASE UNCHANGED chain /\ finalized' = finalized + 1 /\ finalized < Len(chain)
    BY <1>0, <1>2 DEF ChainInv
<1>3. ASSUME UNCHANGED finalized, NEW e \in Entry, chain' = Append(chain, e),
             e.selector = "SequenceNumberTooLow" => Slots(e.blob, Takes) # {}
      PROVE  Goal
  <2>1. Len(chain') = Len(chain) + 1 /\ chain'[Len(chain) + 1] = e
    BY <1>0, <1>3
  <2>2. \A n \in 1..Len(chain) : chain'[n] = chain[n]
    BY <1>0, <1>3
  <2>3. ASSUME NEW n \in 1..Len(chain'), chain'[n].selector = "SequenceNumberTooLow"
        PROVE  \E m \in 1..(n - 1) : /\ chain'[m].blob = chain'[n].blob
                                     /\ chain'[m].selector \in Takes
    <3>1. CASE n \in 1..Len(chain)
      <4>1. PICK m \in 1..(n - 1) : chain[m].blob = chain[n].blob /\ chain[m].selector \in Takes
        BY <2>2, <2>3, <3>1 DEF ChainInv
      <4>2. m \in 1..Len(chain)
        BY <1>0, <3>1
      <4> QED BY <2>2, <3>1, <4>1, <4>2
    <3>2. CASE n = Len(chain) + 1
      <4>1. PICK m \in Slots(e.blob, Takes) : TRUE
        BY <1>3, <2>1, <2>3, <3>2
      <4>2. m \in 1..Len(chain) /\ chain[m].blob = e.blob /\ chain[m].selector \in Takes
        BY <4>1 DEF Slots
      <4> QED BY <1>0, <2>1, <2>2, <3>2, <4>2
    <3> QED BY <1>0, <2>1, <3>1, <3>2
  <2>4. finalized' <= Len(chain')
    BY <1>0, <1>3, <2>1 DEF ChainInv
  <2>5. \A n \in 1..finalized : chain'[n] = chain[n]
    BY <1>0, <2>2 DEF ChainInv
  <2> QED BY <1>0, <1>3, <2>3, <2>4, <2>5 DEF ChainInv
<1>4. ASSUME UNCHANGED finalized, NEW k \in finalized..(Len(chain) - 1),
             chain' = SubSeq(chain, 1, k)
      PROVE  Goal
  <2>1. k \in Nat /\ finalized <= k /\ k <= Len(chain)
    BY <1>0
  <2>2. Len(chain') = k /\ \A n \in 1..k : chain'[n] = chain[n]
    BY <1>0, <1>4, <2>1
  <2>3. ASSUME NEW n \in 1..k, chain[n].selector = "SequenceNumberTooLow"
        PROVE  \E m \in 1..(n - 1) : /\ chain'[m].blob = chain[n].blob
                                     /\ chain'[m].selector \in Takes
    <3>1. PICK m \in 1..(n - 1) : chain[m].blob = chain[n].blob /\ chain[m].selector \in Takes
      BY <2>1, <2>3, <1>0 DEF ChainInv
    <3>2. m \in 1..k
      BY <2>1
    <3> QED BY <2>2, <3>1, <3>2
  <2> QED BY <1>0, <1>4, <2>1, <2>2, <2>3 DEF ChainInv
<1> QED BY Zenon, ChainMoves, <1>1, <1>2, <1>3, <1>4

\* A number that is taken in a finalized slot stays taken.
LEMMA ForGood ==
    ASSUME TypeOK, TrackInv, ChainInv, Next, NEW b, TakenForGood(b)
    PROVE  TakenForGood(b)'
<1>1. PICK n \in 1..Len(chain) : /\ chain[n].blob = b /\ chain[n].selector \in Takes
                                 /\ n <= finalized
    BY DEF TakenForGood, Slots
<1>2. finalized \in Nat /\ finalized' \in Nat /\ Len(chain') \in Nat
    BY NextType DEF TypeOK
<1>3. n \in 1..finalized /\ n \in 1..Len(chain') /\ n <= finalized'
    BY <1>1, <1>2, NextChain
<1>4. chain'[n] = chain[n]
    BY <1>3, NextChain
<1> QED BY <1>1, <1>3, <1>4 DEF TakenForGood, Slots

\* The three reads of blob_finalized_or_discarded agree, or torn records that they do not.
LEMMA DecisionIsSound ==
    ASSUME TypeOK, ChainInv, NEW b \in Blobs, slot[b] >= 1, slot[b] <= finalized,
           ~(slot[b] > Len(chain) \/ chain[slot[b]] # [blob |-> b, selector |-> selector[b]]),
           selector[b] \in {"Accepted", "SequenceNumberTooLow"}
    PROVE  TakenForGood(b)
<1>1. /\ slot[b] \in 1..Len(chain) /\ finalized \in Nat
      /\ chain[slot[b]].blob = b /\ chain[slot[b]].selector = selector[b]
    BY DEF TypeOK
<1>2. CASE selector[b] = "Accepted"
    BY <1>1, <1>2 DEF TakenForGood, Slots, Takes
<1>3. CASE selector[b] = "SequenceNumberTooLow"
  <2>1. PICK m \in 1..(slot[b] - 1) : chain[m].blob = b /\ chain[m].selector \in Takes
    BY <1>1, <1>3 DEF ChainInv
  <2>2. m \in 1..Len(chain) /\ m <= finalized
    BY <1>1
  <2> QED BY <2>1, <2>2 DEF TakenForGood, Slots
<1> QED BY <1>2, <1>3

\* DecidedInv of one blob is kept by a step that leaves its task alone.
LEMMA DecidedStays ==
    ASSUME TypeOK, TrackInv, ChainInv, DecidedInv, Next, NEW c \in Blobs,
           pc'[c] = pc[c], status'[c] = status[c], selector'[c] = selector[c],
           slot'[c] = slot[c], torn \subseteq torn'
    PROVE  /\ pc'[c] = "finality" => slot'[c] >= 1
           /\ pc'[c] = "remove" => selector'[c] \in {"Accepted", "SequenceNumberTooLow"}
           /\ c \notin torn' /\ status'[c] = "Finalized"
                 /\ selector'[c] \in {"Accepted", "SequenceNumberTooLow"} => TakenForGood(c)'
BY ForGood DEF DecidedInv

\* DecidedInv is preserved: a task enters Finalized only with an entry of a finalized
\* slot, and loses its conclusion when it goes back or ends.
LEMMA NextDecided ==
    ASSUME TypeOK, TrackInv, ChainInv, DecidedInv, Next
    PROVE  DecidedInv'
<1> DEFINE Decided(c) ==
        /\ pc'[c] = "finality" => slot'[c] >= 1
        /\ pc'[c] = "remove" => selector'[c] \in {"Accepted", "SequenceNumberTooLow"}
        /\ c \notin torn' /\ status'[c] = "Finalized"
              /\ selector'[c] \in {"Accepted", "SequenceNumberTooLow"} => TakenForGood(c)'
\* The task goes back or ends, without a conclusion.
<1> DEFINE Returns(c) ==
        \E at \in {"head", "done"}, st \in {"MustSubmit", "Published", "Processed"} :
            \E sel, n, k : SetTask(c, at, st, sel, n, k)
<1> DEFINE Same(c) == /\ pc'[c] = pc[c] /\ status'[c] = status[c]
                      /\ selector'[c] = selector[c] /\ slot'[c] = slot[c]
<1> SUFFICES \A c \in Blobs : Decided(c)
    BY DEF DecidedInv
<1>a. ASSUME torn \subseteq torn', NEW c \in Blobs, Same(c) PROVE Decided(c)
    BY <1>a, DecidedStays
<1>b. ASSUME NEW b \in Blobs, NEW at, NEW st, NEW sel, NEW n, NEW k,
             SetTask(b, at, st, sel, n, k)
      PROVE  /\ \A c \in Blobs \ {b} : Same(c)
             /\ pc'[b] = at /\ status'[b] = st /\ selector'[b] = sel /\ slot'[b] = k
    BY <1>b DEF SetTask, TypeOK
<1>c. ASSUME NEW b \in Blobs, NEW at, Goto(b, at)
      PROVE  /\ \A c \in Blobs \ {b} : Same(c)
             /\ pc'[b] = at /\ status'[b] = status[b] /\ selector'[b] = selector[b]
             /\ slot'[b] = slot[b]
    BY <1>c DEF Goto, TypeOK
<1> HIDE DEF Same
<1>1. ASSUME NEW b \in Blobs, TaskStep(b) PROVE \A c \in Blobs : Decided(c)
  <2>1. torn \subseteq torn'
    BY Zenon, <1>1 DEF TaskStep, SaveState, SendBlob, Receipt, OnPublishedBlob, GetBatchByHash,
       GetDiscardedBlobByHash, GetLatestFinalized, OnFinalizedBlob, RemoveBlob, history
  <2>2. \A c \in Blobs \ {b} : Same(c)
    <3>1. \/ \E at : Goto(b, at)
          \/ \E at, st, sel, n, k : SetTask(b, at, st, sel, n, k)
        BY ZenonT(40), <1>1 DEF TaskStep, SaveState, SendBlob, Receipt, OnPublishedBlob,
           GetBatchByHash, GetDiscardedBlobByHash, GetLatestFinalized, OnFinalizedBlob, RemoveBlob,
           Enter, Finish
    <3> QED BY Zenon, <3>1, <1>b, <1>c
  <2>3. Decided(b)
    <3>1. ASSUME NEW at, Goto(b, at), at \notin {"finality", "remove"} PROVE Decided(b)
        BY <3>1, <2>1, <1>c, ForGood DEF DecidedInv
    <3>2. ASSUME Returns(b) PROVE Decided(b)
        BY <3>2, <1>b
    <3>a. ASSUME NEW st \in {"Published", "Processed"}, NEW sel, NEW n, NEW k, k >= 1,
                 SetTask(b, "finality", st, sel, n, k)
          PROVE  Decided(b)
      <4>1. pc'[b] = "finality" /\ status'[b] = st /\ slot'[b] = k
        BY Zenon, <3>a, <1>b
      <4> QED BY <3>a, <4>1
    <3> HIDE DEF Decided
    <3>3. CASE SaveState(b)
        BY Zenon, <3>1, <3>3 DEF SaveState
    <3>4. CASE SendBlob(b) \/ OnPublishedBlob(b)
        BY ZenonT(40), <3>1, <3>4 DEF SendBlob, OnPublishedBlob
    <3>5. CASE Receipt(b) \/ RemoveBlob(b)
      <4>1. CASE Receipt(b)
        BY ZenonT(40), <3>2, <4>1 DEF Receipt
      <4>2. CASE RemoveBlob(b)
        BY ZenonT(40), <3>2, <4>2 DEF RemoveBlob, Finish
      <4> QED BY Zenon, <3>5, <4>1, <4>2
    <3>6. CASE GetBatchByHash(b)
      <4>1. BatchByHash(b) # 0 => BatchByHash(b) >= 1
        BY LatestSlot DEF BatchByHash, Selectors
      <4>2. CASE BatchByHash(b) = 0
        BY ZenonT(40), <3>1, <3>6, <4>2 DEF GetBatchByHash
      <4>3. CASE BatchByHash(b) # 0
        BY Zenon, <3>a, <3>6, <4>1, <4>3 DEF GetBatchByHash, At
      <4> QED BY <4>2, <4>3
    <3>7. CASE GetDiscardedBlobByHash(b)
      <4> DEFINE n == DiscardedBlobByHash(b)
      <4>1. n # 0 => n >= 1
        BY LatestSlot DEF DiscardedBlobByHash, Selectors
      <4>2. CASE Goto(b, "poll") \/ Enter(b, "MustSubmit", "None")
        BY ZenonT(40), <3>1, <3>2, <4>2 DEF Enter
      <4>3. CASE n # 0 /\ SetTask(b, "finality", status[b], chain[n].selector, retries[b], n)
        <5>1. status[b] \in {"Published", "Processed"}
          BY Zenon, <3>7 DEF GetDiscardedBlobByHash, At
        <5> HIDE DEF n
        <5> QED BY Zenon, <3>a, <4>1, <4>3, <5>1
      <4> QED BY Zenon, <3>7, <4>2, <4>3 DEF GetDiscardedBlobByHash
    <3>8. CASE GetLatestFinalized(b)
      <4>1. CASE Enter(b, "Processed", selector[b]) \/ Goto(b, "poll")
        BY ZenonT(40), <3>1, <3>2, <4>1 DEF Enter
      <4>2. CASE /\ status[b] = "Processed" /\ slot[b] <= finalized
                 /\ Enter(b, "Finalized", selector[b])
        <5>1. pc'[b] = "head" /\ selector'[b] = selector[b]
          BY ZenonT(40), <1>b, <4>2 DEF Enter
        <5>2. slot[b] >= 1
          BY <3>8 DEF GetLatestFinalized, At, DecidedInv
        <5>3. b \notin torn' =>
                ~(slot[b] > Len(chain) \/ chain[slot[b]] # [blob |-> b, selector |-> selector[b]])
          BY Zenon, <3>8, <4>2 DEF GetLatestFinalized
        <5> QED BY <4>2, <5>1, <5>2, <5>3, DecisionIsSound, ForGood DEF Decided
      <4> QED BY ZenonT(40), <3>8, <4>1, <4>2 DEF GetLatestFinalized
    <3>9. CASE OnFinalizedBlob(b)
      <4>1. CASE selector[b] \in {"Accepted", "SequenceNumberTooLow"}
        <5>1. Goto(b, "remove") /\ torn' = torn
          BY Zenon, <3>9, <4>1 DEF OnFinalizedBlob
        <5> QED BY <1>c, <4>1, <5>1, ForGood DEF DecidedInv, Decided
      <4>2. CASE selector[b] \notin {"Accepted", "SequenceNumberTooLow"}
        BY ZenonT(40), <3>2, <3>9, <4>2 DEF OnFinalizedBlob, Enter
      <4> QED BY <4>1, <4>2
    <3> QED BY Zenon, <1>1, <3>3, <3>4, <3>5, <3>6, <3>7, <3>8, <3>9 DEF TaskStep
  <2> QED BY <1>a, <2>1, <2>2, <2>3
<1>2. ASSUME NEW b \in Blobs,
             Timeout(b) \/ RemoveError(b) \/ TaskError(b) \/ TaskShutdown(b)
      PROVE  \A c \in Blobs : Decided(c)
  <2>1. torn' = torn
    BY Zenon, <1>2 DEF Timeout, RemoveError, TaskError, TaskShutdown, history
  <2>2. \E at \in {"head", "done"} : \E n, k : SetTask(b, at, "MustSubmit", "None", n, k)
    BY Zenon, <1>2 DEF Timeout, RemoveError, TaskError, TaskShutdown, Enter, Finish
  <2> QED BY <1>a, <1>b, <2>1, <2>2
<1>3. CASE SubmitLocked
  <2>1. PICK b \in Requests :
           \/ UNCHANGED taskVars
           \/ SetTask(b, "head", RequestStatus(b), "None", 0, 0)
    BY Zenon, <1>3 DEF SubmitLocked
  <2>2. b \in Blobs /\ torn' = torn
    BY <1>3 DEF SubmitLocked, Requests, TypeOK
  <2>3. CASE UNCHANGED taskVars
    BY <1>a, <2>2, <2>3 DEF taskVars, Same
  <2>4. CASE SetTask(b, "head", RequestStatus(b), "None", 0, 0)
    BY <1>a, <1>b, <2>2, <2>4
  <2> QED BY <2>1, <2>3, <2>4
<1>4. CASE Crash
    BY <1>4 DEF Crash
<1>5. ASSUME UNCHANGED <<taskVars, torn>> PROVE \A c \in Blobs : Decided(c)
    BY <1>a, <1>5 DEF taskVars, Same
<1>6. ASSUME NEW b \in Blobs, Publish(b) \/ ProduceSlot(b) \/ LoseCopy(b)
      PROVE  \A c \in Blobs : Decided(c)
    BY Zenon, <1>5, <1>6 DEF Publish, ProduceSlot, LoseCopy, senderVars, taskVars, history
<1>7. CASE \/ SubmitCheck \/ SubmitError \/ MainTaskTick \/ MainTaskShutdown \/ Shutdown
           \/ Restart \/ ProduceEmptySlot \/ Finalize \/ Reorg
    BY Zenon, <1>5, <1>7 DEF SubmitCheck, SubmitError, MainTaskTick, MainTaskShutdown, Shutdown,
       Restart, ProduceEmptySlot, Finalize, Reorg, senderVars, taskVars, history
<1> QED BY Zenon, <1>1, <1>2, <1>3, <1>4, <1>6, <1>7 DEF Next, CallerStep

\* NoBlobGivenUp is preserved: a blob leaves the table only from a task that has concluded
\* that its number was taken for good, and that conclusion lasts.
LEMMA NextGivenUp ==
    ASSUME TypeOK, TrackInv, ChainInv, DecidedInv, NoBlobGivenUp, Next
    PROVE  NoBlobGivenUp'
<1>0. ASSUME NEW b \in pushed \ torn', blobs[b] = "absent", torn \subseteq torn'
      PROVE  TakenForGood(b)'
    BY <1>0, ForGood DEF NoBlobGivenUp
<1>1. ASSUME NEW b \in Blobs, TaskStep(b) PROVE NoBlobGivenUp'
  <2>1. torn \subseteq torn' /\ pushed' = pushed
    BY Zenon, <1>1 DEF TaskStep, SaveState, SendBlob, Receipt, OnPublishedBlob, GetBatchByHash,
       GetDiscardedBlobByHash, GetLatestFinalized, OnFinalizedBlob, RemoveBlob, history
  <2>2. \A c \in Blobs \ {b} : blobs'[c] = blobs[c]
    <3>1. blobs' = blobs \/ \E st : blobs' = [blobs EXCEPT ![b] = st]
        BY <1>1, TaskStores
    <3> QED BY <3>1 DEF TypeOK
  <2>3. blobs'[b] = "absent" => blobs[b] = "absent" \/ (b \notin torn' => TakenForGood(b)')
    <3>1. \/ blobs' = blobs
          \/ blobs' = [blobs EXCEPT ![b] = status[b]]
          \/ pc[b] = "remove" /\ status[b] = "Finalized"
        BY <1>1, TaskStores
    <3>2. status[b] # "absent"
        BY Zenon DEF TypeOK, Statuses
    <3>3. pc[b] = "remove" /\ status[b] = "Finalized" /\ b \notin torn' => TakenForGood(b)'
        BY <2>1, ForGood DEF DecidedInv
    <3> QED BY <3>1, <3>2, <3>3 DEF TypeOK
  <2>4. pushed \subseteq Blobs
    BY DEF TypeOK
  <2> QED BY <1>0, <2>1, <2>2, <2>3, <2>4 DEF NoBlobGivenUp
<1>2. CASE SubmitLocked
  <2>1. PICK b \in Requests :
           \/ UNCHANGED <<blobs, pushed>>
           \/ /\ blobs' = [blobs EXCEPT ![b] = IF @ = "absent" THEN "MustSubmit" ELSE @]
              /\ pushed' = pushed \cup {b}
    BY <1>2 DEF SubmitLocked
  <2>2. b \in Blobs /\ torn' = torn /\ pushed \subseteq Blobs
    BY <1>2 DEF SubmitLocked, Requests, TypeOK
  <2>3. \A c \in pushed' : blobs'[c] = "absent" => c \in pushed /\ blobs[c] = "absent"
    BY <2>1, <2>2 DEF TypeOK
  <2> QED BY <1>0, <2>2, <2>3 DEF NoBlobGivenUp
<1>3. ASSUME UNCHANGED <<blobs, pushed, torn>> PROVE NoBlobGivenUp'
    BY <1>0, <1>3 DEF NoBlobGivenUp
<1>4. ASSUME NEW b \in Blobs,
             \/ Timeout(b) \/ RemoveError(b) \/ TaskError(b) \/ TaskShutdown(b)
             \/ Publish(b) \/ ProduceSlot(b) \/ LoseCopy(b)
      PROVE  NoBlobGivenUp'
    BY Zenon, <1>3, <1>4 DEF Timeout, RemoveError, TaskError, TaskShutdown, Publish, ProduceSlot,
       LoseCopy, history
<1>5. CASE \/ SubmitCheck \/ SubmitError \/ MainTaskTick \/ MainTaskShutdown \/ Shutdown
           \/ Crash \/ Restart \/ ProduceEmptySlot \/ Finalize \/ Reorg
    BY Zenon, <1>3, <1>5 DEF SubmitCheck, SubmitError, MainTaskTick, MainTaskShutdown, Shutdown,
       Crash, Restart, ProduceEmptySlot, Finalize, Reorg, history
<1> QED BY Zenon, <1>1, <1>2, <1>4, <1>5 DEF Next, CallerStep

-----------------------------------------------------------------------------
\* The invariant is inductive.
LEMMA Inductive ==
    Spec => [](IInv /\ CounterIsExact)
<1>1. Init => IInv /\ CounterIsExact
  <2> SUFFICES ASSUME Init PROVE IInv /\ CounterIsExact
    OBVIOUS
  <2>1. TypeOK
    <3>1. up \in BOOLEAN /\ shutdown \in BOOLEAN
        BY Zenon DEF Init
    <3>2. /\ blobs \in [Blobs -> {"absent", "MustSubmit", "Published", "Processed"}]
          /\ pc \in [Blobs -> Running \cup {"idle", "done"}]
          /\ status \in [Blobs -> Statuses] /\ selector \in [Blobs -> Selectors]
        BY DEF Init, Statuses, Selectors
    <3>3. /\ retries \in [Blobs -> 0..(RetryModulus - 1)] /\ slot \in [Blobs -> Nat]
          /\ mempool \in [Blobs -> 0..MaxCopies] /\ used \in [Resources -> Nat]
          /\ finalized \in Nat /\ counter \in Int
        BY BoundsAssumption DEF Init
    <3>4. chain \in Seq(Entry)
        BY DEF Init
    <3> QED BY <3>1, <3>2, <3>3, <3>4 DEF Init, TypeOK
  <2>2. TrackInv /\ HookInv /\ HooksAtLeastOnce /\ NoBlobForgotten
    BY DEF Init, TrackInv, HookInv, HooksAtLeastOnce, NoBlobForgotten, IsRunning, Running
  <2>3. ChainInv /\ DecidedInv /\ NoBlobGivenUp
    BY DEF Init, ChainInv, DecidedInv, NoBlobGivenUp
  <2>4. {b \in Blobs : IsRunning(b)} = {} /\ counter = 0
    BY DEF Init, IsRunning, Running
  <2>5. CounterIsExact
    BY <2>4, FS_EmptySet DEF CounterIsExact
  <2> QED BY <2>1, <2>2, <2>3, <2>5 DEF IInv
<1>2. IInv /\ CounterIsExact /\ [Next]_vars => (IInv /\ CounterIsExact)'
  <2> SUFFICES ASSUME IInv, CounterIsExact, [Next]_vars PROVE (IInv /\ CounterIsExact)'
    OBVIOUS
  <2>1. CASE Next
    <3>1. TypeOK' /\ TrackInv' /\ HookInv' /\ HooksAtLeastOnce' /\ NoBlobForgotten'
        BY Zenon, <2>1, NextType, NextTrack, NextHook, NextHooks, NextForgotten DEF IInv
    <3>2. ChainInv' /\ DecidedInv' /\ NoBlobGivenUp' /\ CounterIsExact'
        BY Zenon, <2>1, NextChain, NextDecided, NextGivenUp, NextCounter DEF IInv
    <3> QED BY Zenon, <3>1, <3>2 DEF IInv
  <2>2. CASE UNCHANGED vars
    <3> USE <2>2 DEF vars, senderVars, restartVars, callVars, taskVars, daVars, history, IInv
    <3>1. TypeOK'
        BY Zenon DEF TypeOK
    <3>2. TrackInv' /\ HookInv' /\ HooksAtLeastOnce' /\ NoBlobForgotten' /\ CounterIsExact'
        BY Zenon DEF TrackInv, HookInv, HooksAtLeastOnce, NoBlobForgotten, CounterIsExact, IsRunning
    <3>3. ChainInv' /\ DecidedInv' /\ NoBlobGivenUp'
        BY ZenonT(40) DEF ChainInv, DecidedInv, NoBlobGivenUp, TakenForGood, Slots
    <3> QED BY <3>1, <3>2, <3>3
  <2> QED BY <2>1, <2>2
<1> QED BY <1>1, <1>2, PTL DEF Spec

\* The blob sender's state has its type.
THEOREM TypeCorrect == Spec => []TypeOK
<1>1. IInv => TypeOK
    BY DEF IInv
<1> QED BY Inductive, <1>1, PTL

\* At-least-once delivery of the hooks: a blob that left the table had on_published_blob
\* and on_finalized_blob called, whatever crashes, timeouts, errors and re-organisations
\* fell between the steps of its task.
THEOREM HooksDelivered == Spec => []HooksAtLeastOnce
<1>1. IInv => HooksAtLeastOnce
    BY DEF IInv
<1> QED BY Inductive, <1>1, PTL

\* A running node never forgets a stored blob: submit_blob_on_da, the restart list and
\* every exit of a task keep it tracked, unless its removal failed.
THEOREM NothingForgotten == Spec => []NoBlobForgotten
<1>1. IInv => NoBlobForgotten
    BY DEF IInv
<1> QED BY Inductive, <1>1, PTL

\* No blob is given up while it could still be accepted: one that left the table had its
\* sequence number taken in a finalized slot, by a copy that was accepted or dropped.  This
\* holds whatever crashes, timeouts, lost copies, re-organisations and discards fell between
\* the steps of its task, unless the reads of one blob_finalized_or_discarded call were torn.
THEOREM NothingGivenUp == Spec => []NoBlobGivenUp
<1>1. IInv => NoBlobGivenUp
    BY DEF IInv
<1> QED BY Inductive, <1>1, PTL

\* nb_of_concurrent_blob_submissions is the number of running tasks.
THEOREM CounterExact == Spec => []CounterIsExact
BY Inductive, PTL
=============================================================================
