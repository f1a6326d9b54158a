------------------------ MODULE BlobSenderTaskProofs ------------------------
(* The types of the blob sender's state, who tracks a stored blob, and how many tasks
   run: what the steps of the tasks, of the calls and of the restart do to the in-flight
   map and to the counter. *)
EXTENDS BlobSender, WellFoundedInduction, FiniteSetTheorems, TLAPS

\* The time each SMT leaf may take.
USE SMTT(40)

\* Where a stored blob is, seen from the map, the call and the restart list.
TrackInv ==
    /\ ~up => callPc = "idle" /\ inFlight = {} /\ restartDb = {}
    /\ restartDb # {} => callPc = "idle"
    /\ callPc = "idle" => callDb = {}
    /\ \A b \in restartDb \cup callDb : blobs[b] # "absent" /\ b \notin inFlight
    /\ \A b \in Blobs : IsRunning(b) => b \in inFlight /\ blobs[b] # "absent"

\* The ledger's answer is the number of a slot of the chain, or 0.
LEMMA LatestSlot ==
    ASSUME TypeOK, NEW b, NEW S, S \subseteq Selectors
    PROVE  /\ Latest(Slots(b, S)) \in Nat
           /\ Latest(Slots(b, S)) # 0 =>
                  /\ Latest(Slots(b, S)) \in 1..Len(chain)
                  /\ chain[Latest(Slots(b, S))].selector \in Selectors
<1> DEFINE M == Slots(b, S)
<1>1. M \subseteq 1..Len(chain) /\ Len(chain) \in Nat
    BY DEF TypeOK, Slots
<1>2. CASE M = {}
    BY <1>2 DEF Latest
<1>3. CASE M # {}
  <2> DEFINE G == {g \in Nat : \E m \in M : g = Len(chain) - m}
             R == {ss \in Nat \X Nat : ss[1] < ss[2]}
  <2>1. \E n \in M : \A m \in M : m <= n
    <3>1. G \subseteq Nat /\ G # {}
        <4>1. PICK m \in M : TRUE
            BY <1>3
        <4>2. Len(chain) - m \in G
            BY <1>1, <4>1
        <4> QED BY <4>2
    <3>2. PICK g \in G : \A h \in G : ~ (<<h, g>> \in R)
        <4>1. IsWellFoundedOn(R, Nat)
            BY NatLessThanWellFounded DEF OpToRel
        <4> HIDE DEF G, R
        <4> QED BY Zenon, <3>1, <4>1, WFMin
    <3>3. \A h \in G : ~ (h < g)
        BY Zenon, <3>2, <3>1
    <3>4. PICK n \in M : g = Len(chain) - n
        BY <3>2
    <3>5. ASSUME NEW m \in M PROVE m <= n
        <4>1. Len(chain) - m \in G
            BY <1>1
        <4> QED BY <4>1, <3>3, <3>4, <1>1
    <3> QED BY <3>5
  <2>2. Latest(M) \in M
    BY <2>1, <1>3 DEF Latest
  <2>3. \A n \in 1..Len(chain) : chain[n].selector \in Selectors
    <3>1. chain \in Seq(Entry)
        BY DEF TypeOK
    <3>2. \A e \in Entry : e.selector \in Selectors
        BY DEF Entry
    <3>3. \A n \in 1..Len(chain) : chain[n] \in Entry
        BY <3>1
    <3> QED BY <3>2, <3>3
  <2>4. \A n \in 1..Len(chain) : n \in Nat
    OBVIOUS
  <2> HIDE DEF M
  <2> QED BY <2>2, <2>3, <2>4, <1>1 DEF M
<1> QED BY <1>2, <1>3

\* The part of TypeOK that is about the tasks.
TaskType ==
    /\ pc \in [Blobs -> Running \cup {"idle", "done"}]
    /\ status \in [Blobs -> Statuses]
    /\ selector \in [Blobs -> Selectors]
    /\ retries \in [Blobs -> 0..(RetryModulus - 1)]
    /\ slot \in [Blobs -> Nat]

\* The updates of a task's state keep its type.
LEMMA SetTaskType ==
    ASSUME TaskType, NEW b \in Blobs, NEW at \in Running \cup {"idle", "done"},
           NEW st \in Statuses, NEW sel \in Selectors,
           NEW n \in 0..(RetryModulus - 1), NEW sl \in Nat,
           SetTask(b, at, st, sel, n, sl)
    PROVE  TaskType'
BY DEF TaskType, SetTask

LEMMA GotoType ==
    ASSUME TaskType, NEW b \in Blobs, NEW at \in Running, Goto(b, at)
    PROVE  TaskType'
BY DEF TaskType, Goto

LEMMA EnterType ==
    ASSUME TaskType, NEW b \in Blobs, NEW st \in Statuses, NEW sel \in Selectors,
           Enter(b, st, sel)
    PROVE  TaskType'
<1>1. retries[b] \in 0..(RetryModulus - 1) /\ "head" \in Running
    BY DEF TaskType, Running
<1> QED BY <1>1, SetTaskType DEF Enter

LEMMA FinishType ==
    ASSUME TaskType, NEW b \in Blobs, Finish(b)
    PROVE  TaskType'
<1>1. 0 \in 0..(RetryModulus - 1)
    BY BoundsAssumption
<1> QED BY <1>1, SetTaskType DEF Finish, Statuses, Selectors

\* The tasks keep their type in every step of a task.
LEMMA TaskStepTaskType ==
    ASSUME TypeOK, NEW b \in Blobs, TaskStep(b)
    PROVE  TaskType'
<1>0. TaskType /\ {"poll", "hook", "send", "receipt", "remove", "discarded",
                   "finality", "head"} \subseteq Running
    BY DEF TypeOK, TaskType, Running
<1>a. /\ {"MustSubmit", "Published", "Processed", "Finalized"} \subseteq Statuses
      /\ {"None", "Accepted"} \subseteq Selectors
    BY DEF Statuses, Selectors
<1>b. /\ status[b] \in Statuses /\ selector[b] \in Selectors
      /\ retries[b] \in 0..(RetryModulus - 1) /\ slot[b] \in Nat
    BY <1>0 DEF TaskType
<1>1. CASE SaveState(b)
    BY <1>0, <1>1, GotoType DEF SaveState
<1>2. CASE SendBlob(b)
    BY <1>0, <1>2, GotoType DEF SendBlob
<1>3. CASE Receipt(b)
  <2>1. (retries[b] + 1) % RetryModulus \in 0..(RetryModulus - 1)
    BY <1>b, BoundsAssumption
  <2> QED BY <1>0, <1>a, <1>b, <1>3, <2>1, SetTaskType DEF Receipt
<1>4. CASE OnPublishedBlob(b)
    BY <1>0, <1>4, GotoType DEF OnPublishedBlob
<1>5. CASE GetBatchByHash(b)
  <2>1. BatchByHash(b) \in Nat
    BY LatestSlot, <1>a DEF BatchByHash
  <2> QED BY <1>0, <1>a, <1>b, <1>5, <2>1, GotoType, SetTaskType DEF GetBatchByHash
<1>6. CASE GetDiscardedBlobByHash(b)
  <2>1. /\ DiscardedBlobByHash(b) \in Nat
        /\ DiscardedBlobByHash(b) # 0 =>
               chain[DiscardedBlobByHash(b)].selector \in Selectors
    BY LatestSlot DEF DiscardedBlobByHash, Selectors
  <2> QED BY <1>0, <1>a, <1>b, <1>6, <2>1, GotoType, EnterType, SetTaskType
          DEF GetDiscardedBlobByHash
<1>7. CASE GetLatestFinalized(b)
    BY <1>0, <1>a, <1>b, <1>7, GotoType, EnterType DEF GetLatestFinalized
<1>8. CASE OnFinalizedBlob(b)
    BY <1>0, <1>a, <1>8, GotoType, EnterType DEF OnFinalizedBlob
<1>9. CASE RemoveBlob(b)
    BY <1>0, <1>9, FinishType DEF RemoveBlob
<1> QED BY <1>1, <1>2, <1>3, <1>4, <1>5, <1>6, <1>7, <1>8, <1>9 DEF TaskStep

\* Every other step keeps the type of the tasks too.
LEMMA NextTaskType ==
    ASSUME TypeOK, TrackInv, Next
    PROVE  TaskType'
<1>0. TaskType
    BY DEF TypeOK, TaskType
<1>1. ASSUME NEW b \in Blobs, Timeout(b) PROVE TaskType'
  <2>1. "MustSubmit" \in Statuses /\ "None" \in Selectors
    BY DEF Statuses, Selectors
  <2> QED BY <1>0, <1>1, <2>1, FinishType, EnterType DEF Timeout
<1>2. ASSUME NEW b \in Blobs, RemoveError(b) \/ TaskError(b) \/ TaskShutdown(b)
      PROVE  TaskType'
    BY <1>0, <1>2, FinishType DEF RemoveError, TaskError, TaskShutdown
<1>3. CASE SubmitLocked
  <2>1. PICK b \in Requests :
           \/ UNCHANGED taskVars
           \/ callPc # "idle" /\ SetTask(b, "head", RequestStatus(b), "None", 0, 0)
    BY <1>3 DEF SubmitLocked, taskVars
  <2>2. CASE UNCHANGED taskVars
    BY <1>0, <2>2 DEF taskVars, TaskType
  <2>3. CASE callPc # "idle" /\ SetTask(b, "head", RequestStatus(b), "None", 0, 0)
    <3>1. b \in Blobs
        BY <2>3 DEF TypeOK, Requests
    <3>2. RequestStatus(b) \in Statuses
        BY <3>1 DEF RequestStatus, TrackInv, TypeOK, Statuses
    <3>3. 0 \in 0..(RetryModulus - 1) /\ "head" \in Running /\ "None" \in Selectors
        BY BoundsAssumption DEF Running, Selectors
    <3> QED BY <1>0, <2>3, <3>1, <3>2, <3>3, SetTaskType
  <2> QED BY <2>1, <2>2, <2>3
<1>4. CASE Crash
    BY <1>4, BoundsAssumption DEF Crash, TaskType, Statuses, Selectors
<1>5. ASSUME UNCHANGED taskVars PROVE TaskType'
    BY <1>0, <1>5 DEF taskVars, TaskType
<1>6. ASSUME NEW b \in Blobs, Publish(b) \/ ProduceSlot(b) \/ LoseCopy(b) PROVE TaskType'
    BY <1>5, <1>6 DEF Publish, ProduceSlot, LoseCopy, senderVars
<1>7. CASE \/ SubmitCheck \/ SubmitError \/ MainTaskTick \/ MainTaskShutdown \/ Shutdown
           \/ Restart \/ ProduceEmptySlot \/ Finalize \/ Reorg
    BY ZenonT(40), <1>5, <1>7 DEF SubmitCheck, SubmitError, MainTaskTick, MainTaskShutdown,
       Shutdown, Restart, ProduceEmptySlot, Finalize, Reorg, senderVars
<1> QED BY <1>1, <1>2, <1>3, <1>4, <1>6, <1>7, TaskStepTaskType DEF Next, CallerStep

\* The part of TypeOK that is not about the tasks.
Chains   == Seq(Entry)
Tables   == [Blobs -> {"absent", "MustSubmit", "Published", "Processed"}]
Mempools == [Blobs -> 0..MaxCopies]
Usages   == [Resources -> Nat]

RestType ==
    /\ blobs \in Tables
    /\ up \in BOOLEAN /\ shutdown \in BOOLEAN
    /\ restartDb \subseteq Blobs /\ restartCompleted \subseteq Blobs
    /\ callPc \in {"idle", "check", "locked"}
    /\ callDb \subseteq Blobs /\ callCompleted \subseteq Blobs
    /\ callPc # "idle" => callNew \in Blobs
    /\ inFlight \subseteq Blobs
    /\ counter \in Int
    /\ mempool \in Mempools
    /\ chain \in Chains
    /\ finalized \in Nat
    /\ used \in Usages
    /\ pushed \subseteq Blobs
    /\ onPublished \subseteq Blobs /\ onFinalized \subseteq Blobs
    /\ torn \subseteq Blobs /\ leaked \subseteq Blobs

LEMMA NextRestType ==
    ASSUME TypeOK, Next
    PROVE  RestType'
<1>0. RestType
    BY DEF TypeOK, RestType, Chains, Tables, Mempools, Usages
<1> USE DEF RestType, restartVars, callVars, daVars, history
<1>1. ASSUME NEW b \in Blobs, TaskStep(b) PROVE RestType'
  <2> USE <1>0
  <2>1. CASE SaveState(b)
    <3>1. blobs' \in Tables
        BY <2>1 DEF SaveState, At, Tables
    <3> QED BY <2>1, <3>1 DEF SaveState
  <2>2. CASE SendBlob(b)
    <3>1. mempool' \in Mempools
        BY <2>2, BoundsAssumption DEF SendBlob, Mempools
    <3> QED BY <2>2, <3>1 DEF SendBlob
  <2>3. CASE Receipt(b) \/ GetBatchByHash(b) \/ GetDiscardedBlobByHash(b)
    BY <2>3 DEF Receipt, GetBatchByHash, GetDiscardedBlobByHash
  <2>4. CASE OnPublishedBlob(b)
    BY <2>4 DEF OnPublishedBlob
  <2>5. CASE GetLatestFinalized(b)
    BY <2>5 DEF GetLatestFinalized
  <2>6. CASE OnFinalizedBlob(b)
    BY <2>6 DEF OnFinalizedBlob
  <2>7. CASE RemoveBlob(b)
    <3>1. blobs' \in Tables
        BY <2>7 DEF RemoveBlob, Tables
    <3> QED BY <2>7, <3>1 DEF RemoveBlob, Finish
  <2> QED BY <1>1, <2>1, <2>2, <2>3, <2>4, <2>5, <2>6, <2>7 DEF TaskStep
<1>2. ASSUME NEW r \in Resources, Use(r) PROVE used' \in Usages
    BY <1>0, <1>2 DEF Use, Usages
<1>3. {"crashes", "reorgs", "discards", "errors"} \subseteq Resources
    BY DEF Resources
<1>4. ASSUME NEW b \in Blobs, Timeout(b) \/ TaskShutdown(b) PROVE RestType'
  <2>1. CASE Timeout(b)
    <3>1. counter' \in Int
        BY <1>0, <2>1 DEF Timeout, Finish
    <3>2. shutdown' = TRUE \/ shutdown' = shutdown
        BY <2>1, Zenon DEF Timeout
    <3> QED BY Zenon, <1>0, <2>1, <3>1, <3>2 DEF Timeout
  <2>2. CASE TaskShutdown(b)
    BY <1>0, <2>2 DEF TaskShutdown, Finish
  <2> QED BY <1>4, <2>1, <2>2
<1>5. ASSUME NEW b \in Blobs, RemoveError(b) \/ TaskError(b) PROVE RestType'
  <2>1. used' \in Usages
    BY <1>2, <1>3, <1>5 DEF RemoveError, TaskError
  <2>2. CASE RemoveError(b)
    BY <1>0, <2>1, <2>2 DEF RemoveError, Finish
  <2>3. CASE TaskError(b)
    BY <1>0, <2>1, <2>3 DEF TaskError, Finish
  <2> QED BY <1>5, <2>2, <2>3
<1>6. ASSUME NEW b \in Blobs, Publish(b) PROVE RestType'
    BY <1>0, <1>6 DEF Publish, SetCall
<1>7. ASSUME NEW b \in Blobs, ProduceSlot(b) PROVE RestType'
  <2>1. PICK sel \in Selectors : chain' = Append(chain, [blob |-> b, selector |-> sel])
    BY <1>7 DEF ProduceSlot, Selection, Selectors, Takes
  <2>2. chain' \in Chains
    <3>1. [blob |-> b, selector |-> sel] \in Entry
        BY DEF Entry
    <3> QED BY <1>0, <2>1, <3>1 DEF Chains
  <2>3. mempool' \in Mempools
    <3>1. mempool[b] > 0 /\ mempool' = [mempool EXCEPT ![b] = @ - 1]
        BY <1>7 DEF ProduceSlot
    <3> QED BY <1>0, <3>1, BoundsAssumption DEF Mempools
  <2>4. used' \in Usages
    BY <1>0, <1>2, <1>3, <1>7 DEF ProduceSlot
  <2> QED BY <1>0, <1>7, <2>2, <2>3, <2>4 DEF ProduceSlot, senderVars
<1>8. ASSUME NEW b \in Blobs, LoseCopy(b) PROVE RestType'
  <2>1. mempool' \in Mempools
    BY <1>0, <1>8, BoundsAssumption DEF LoseCopy, Mempools
  <2> QED BY <1>0, <1>8, <2>1 DEF LoseCopy, senderVars
<1>9. CASE SubmitCheck
    BY <1>0, <1>9 DEF SubmitCheck, Requests, Dequeue, SetCall
<1>10. CASE SubmitLocked
  <2>1. PICK b \in Requests :
           /\ Dequeue(b)
           /\ IF b \in inFlight
              THEN UNCHANGED <<taskVars, inFlight, counter, blobs, pushed>>
              ELSE /\ blobs' = [blobs EXCEPT ![b] = IF @ = "absent" THEN "MustSubmit" ELSE @]
                   /\ pushed' = pushed \cup {b}
                   /\ counter' = counter + 1
                   /\ SetTask(b, "head", RequestStatus(b), "None", 0, 0)
                   /\ inFlight' = {c \in inFlight : IsRunning(c)} \cup {b}
    BY <1>10 DEF SubmitLocked
  <2>2. b \in Blobs
    BY <1>0, <1>10 DEF SubmitLocked, Requests
  <2>3. /\ callPc' \in {"idle", "check", "locked"}
        /\ callDb' \subseteq Blobs /\ callCompleted' \subseteq Blobs
        /\ callPc' # "idle" => callNew' \in Blobs
    BY <1>0, <1>10, <2>1 DEF Dequeue, SetCall, SubmitLocked
  <2>4. /\ blobs' \in Tables
        /\ pushed' \subseteq Blobs /\ inFlight' \subseteq Blobs /\ counter' \in Int
    <3>1. CASE b \in inFlight
        BY <1>0, <2>1, <3>1
    <3>2. CASE b \notin inFlight
        <4>1. blobs' \in Tables
            BY <1>0, <2>1, <2>2, <3>2 DEF Tables
        <4> QED BY <1>0, <2>1, <2>2, <3>2, <4>1
    <3> QED BY <3>1, <3>2
  <2> QED BY <1>0, <1>10, <2>3, <2>4 DEF SubmitLocked
<1>11. CASE SubmitError \/ Shutdown \/ Crash
  <2>1. used' \in Usages
    BY <1>2, <1>3, <1>11 DEF SubmitError, Shutdown, Crash
  <2>2. CASE SubmitError
    BY <1>0, <2>1, <2>2 DEF SubmitError, SetCall
  <2>3. CASE Shutdown
    BY <1>0, <2>1, <2>3 DEF Shutdown
  <2>4. CASE Crash
    <3>1. /\ up' = FALSE /\ shutdown' = FALSE /\ restartDb' = {} /\ restartCompleted' = {}
          /\ callPc' = "idle" /\ callDb' = {} /\ callCompleted' = {} /\ inFlight' = {}
          /\ counter' = 0 /\ UNCHANGED <<blobs, daVars, history>>
        BY <2>4 DEF Crash, SetCall
    <3>2. up' \in BOOLEAN /\ shutdown' \in BOOLEAN
        BY <3>1, Zenon
    <3> QED BY <1>0, <2>1, <3>1, <3>2
  <2> QED BY <1>11, <2>2, <2>3, <2>4
<1>12. CASE MainTaskTick \/ MainTaskShutdown
  <2>1. inFlight' \subseteq Blobs
    BY <1>0, <1>12 DEF MainTaskTick, MainTaskShutdown
  <2> QED BY <1>0, <1>12, <2>1 DEF MainTaskTick, MainTaskShutdown
<1>13. CASE Restart
    BY <1>0, <1>13 DEF Restart
<1>14. CASE ProduceEmptySlot
  <2>1. chain' \in Chains
    <3>1. [blob |-> NoBlob, selector |-> "None"] \in Entry
        BY DEF Entry, Selectors
    <3> QED BY <1>0, <1>14, <3>1 DEF ProduceEmptySlot, Chains
  <2> QED BY <1>0, <1>14, <2>1 DEF ProduceEmptySlot, senderVars
<1>15. CASE Finalize
    BY <1>0, <1>15 DEF Finalize, senderVars
<1>16. CASE Reorg
  <2>1. PICK k \in finalized..(Len(chain) - 1) : chain' = SubSeq(chain, 1, k)
    BY <1>16 DEF Reorg
  <2>2. chain' \in Chains
    <3>1. chain \in Seq(Entry) /\ k \in Nat /\ k <= Len(chain)
        BY <1>0, <2>1 DEF Chains
    <3> QED BY <2>1, <3>1 DEF Chains
  <2>3. mempool' \in Mempools
    <3>1. PICK back : mempool' = [b \in Blobs |-> IF b \in back /\ mempool[b] < MaxCopies
                                                 THEN mempool[b] + 1 ELSE mempool[b]]
        BY Zenon, <1>16 DEF Reorg
    <3> QED BY <1>0, <3>1, BoundsAssumption DEF Mempools
  <2>4. used' \in Usages
    BY Zenon, <1>2, <1>3, <1>16 DEF Reorg
  <2> QED BY ZenonT(40), <1>0, <1>16, <2>2, <2>3, <2>4 DEF Reorg, senderVars
<1> QED BY ZenonT(40), <1>1, <1>4, <1>5, <1>6, <1>7, <1>8, <1>9, <1>10, <1>11, <1>12, <1>13,
           <1>14, <1>15, <1>16 DEF Next, CallerStep

\* TypeOK is preserved, given that the requests of a call are stored blobs.
LEMMA NextType ==
    ASSUME TypeOK, TrackInv, Next
    PROVE  TypeOK'
<1>1. TaskType' /\ RestType'
    BY NextTaskType, NextRestType
<1> QED BY <1>1 DEF TypeOK, TaskType, RestType, Chains, Tables, Mempools, Usages

-----------------------------------------------------------------------------
\* What a step of a task does to the places the invariants look at: it moves the
\* task of b, which was running, and touches no other.
LEMMA TaskMoves ==
    ASSUME TypeOK, NEW b \in Blobs, TaskStep(b)
    PROVE  /\ up /\ IsRunning(b)
           /\ \E at \in Running \cup {"done"} : pc' = [pc EXCEPT ![b] = at]
           /\ UNCHANGED <<up, restartVars, callVars, inFlight, pushed, leaked>>
<1>1. up /\ IsRunning(b)
    BY ZenonT(40) DEF TaskStep, SaveState, SendBlob, Receipt, OnPublishedBlob, GetBatchByHash,
       GetDiscardedBlobByHash, GetLatestFinalized, OnFinalizedBlob, RemoveBlob, At, IsRunning,
       Running
<1>2. \E at \in Running \cup {"done"} : pc' = [pc EXCEPT ![b] = at]
  <2>1. \/ \E at \in {"send", "hook", "poll", "receipt", "discarded", "remove"} : Goto(b, at)
        \/ \E at \in {"head", "finality", "done"} :
              \E st, sel, n, k : SetTask(b, at, st, sel, n, k)
    BY ZenonT(40) DEF TaskStep, SaveState, SendBlob, Receipt, OnPublishedBlob, GetBatchByHash,
       GetDiscardedBlobByHash, GetLatestFinalized, OnFinalizedBlob, RemoveBlob, Enter, Finish
  <2> QED BY ZenonT(40), <2>1 DEF Goto, SetTask, Running
<1>3. UNCHANGED <<up, restartVars, callVars, inFlight, pushed, leaked>>
    BY ZenonT(40) DEF TaskStep, SaveState, SendBlob, Receipt, OnPublishedBlob, GetBatchByHash,
       GetDiscardedBlobByHash, GetLatestFinalized, OnFinalizedBlob, RemoveBlob, history
<1> QED BY Zenon, <1>1, <1>2, <1>3

\* A step of a task changes the table only under its own blob, and the entry leaves
\* the table only when the task ends after on_finalized_blob.
LEMMA TaskStores ==
    ASSUME TypeOK, NEW b \in Blobs, TaskStep(b)
    PROVE  \/ blobs' = blobs
           \/ /\ pc[b] = "head" /\ status[b] # "Finalized" /\ pc'[b] # "done"
              /\ blobs' = [blobs EXCEPT ![b] = status[b]]
           \/ /\ pc[b] = "remove" /\ status[b] = "Finalized" /\ pc'[b] = "done"
              /\ blobs' = [blobs EXCEPT ![b] = "absent"]
<1>1. CASE SaveState(b)
    BY <1>1 DEF SaveState, TypeOK, At, Goto
<1>2. CASE RemoveBlob(b)
    BY <1>2 DEF RemoveBlob, TypeOK, At, Finish, SetTask
<1>3. CASE ~SaveState(b) /\ ~RemoveBlob(b)
    BY Zenon, <1>3 DEF TaskStep, SendBlob, Receipt, OnPublishedBlob, GetBatchByHash,
       GetDiscardedBlobByHash, GetLatestFinalized, OnFinalizedBlob
<1> QED BY <1>1, <1>2, <1>3

\* The ends of a task that keep its blob in the table.
LEMMA TaskGivesUp ==
    ASSUME TypeOK, NEW b \in Blobs,
           Timeout(b) \/ RemoveError(b) \/ TaskError(b) \/ TaskShutdown(b)
    PROVE  /\ up /\ IsRunning(b)
           /\ \E at \in {"head", "done"} : pc' = [pc EXCEPT ![b] = at]
           /\ UNCHANGED <<up, restartVars, callVars, inFlight, blobs, pushed,
                          onPublished, onFinalized>>
<1> USE DEF TypeOK, IsRunning, Running, At, Enter, SetTask, Finish, history
<1>1. CASE Timeout(b)
    BY <1>1 DEF Timeout
<1>2. CASE RemoveError(b)
    BY <1>2 DEF RemoveError
<1>3. CASE TaskError(b)
    BY <1>3 DEF TaskError
<1>4. CASE TaskShutdown(b)
    BY <1>4 DEF TaskShutdown
<1> QED BY <1>1, <1>2, <1>3, <1>4

\* TrackInv is preserved.
LEMMA NextTrack ==
    ASSUME TypeOK, TrackInv, Next
    PROVE  TrackInv'
<1> USE DEF TrackInv, restartVars, callVars
<1>1. ASSUME NEW b \in Blobs, TaskStep(b) PROVE TrackInv'
  <2>1. PICK at \in Running \cup {"done"} : pc' = [pc EXCEPT ![b] = at]
    BY <1>1, TaskMoves
  <2>2. /\ up /\ b \in inFlight /\ b \notin restartDb \cup callDb /\ blobs[b] # "absent"
        /\ UNCHANGED <<up, restartVars, callVars, inFlight>>
    BY <1>1, TaskMoves
  <2>3. \A c \in Blobs \ {b} : blobs'[c] = blobs[c] /\ IsRunning(c)' = IsRunning(c)
    <3>1. ASSUME NEW c \in Blobs \ {b} PROVE blobs'[c] = blobs[c]
        <4>1. blobs' = blobs \/ \E st : blobs' = [blobs EXCEPT ![b] = st]
            BY <1>1, TaskStores
        <4> QED BY <4>1 DEF TypeOK
    <3>2. ASSUME NEW c \in Blobs \ {b} PROVE pc'[c] = pc[c]
        BY <2>1 DEF TypeOK
    <3> QED BY <3>1, <3>2 DEF IsRunning
  <2>4. blobs'[b] # "absent" \/ ~IsRunning(b)'
    <3>1. blobs'[b] # "absent" \/ pc'[b] = "done"
        BY Zenon, <1>1, <2>2, TaskStores DEF TypeOK, Statuses
    <3> QED BY <3>1 DEF IsRunning, Running
  <2> QED BY Zenon, <2>2, <2>3, <2>4 DEF TypeOK
<1>2. ASSUME NEW b \in Blobs,
             Timeout(b) \/ RemoveError(b) \/ TaskError(b) \/ TaskShutdown(b)
      PROVE  TrackInv'
    BY ZenonT(40), <1>2, TaskGivesUp DEF TypeOK, IsRunning
<1>3. ASSUME NEW b \in Blobs, Publish(b) PROVE TrackInv'
  <2>1. /\ up /\ up' = up /\ callPc = "idle" /\ callPc' = "check"
        /\ restartDb' = {} /\ callDb' = restartDb /\ UNCHANGED <<pc, inFlight, blobs>>
    BY <1>3 DEF Publish, SetCall, taskVars
  <2> QED BY Zenon, <2>1 DEF IsRunning
<1>4. CASE SubmitCheck
  <2>1. /\ up /\ up' = up /\ callPc = "check" /\ UNCHANGED <<restartDb, pc, inFlight, blobs>>
    BY <1>4 DEF SubmitCheck, taskVars
  <2>2. callDb' \subseteq callDb /\ (callPc' = "idle" => callDb' = {})
    BY <1>4 DEF SubmitCheck, Dequeue, SetCall
  <2> QED BY <2>1, <2>2 DEF IsRunning
<1>5. CASE SubmitLocked
  <2>1. PICK b \in Requests :
           /\ Dequeue(b)
           /\ IF b \in inFlight
              THEN UNCHANGED <<taskVars, inFlight, counter, blobs, pushed>>
              ELSE /\ blobs' = [blobs EXCEPT ![b] = IF @ = "absent" THEN "MustSubmit" ELSE @]
                   /\ SetTask(b, "head", RequestStatus(b), "None", 0, 0)
                   /\ inFlight' = {c \in inFlight : IsRunning(c)} \cup {b}
    BY <1>5 DEF SubmitLocked
  <2>2. up /\ callPc = "locked" /\ b \in Blobs /\ UNCHANGED <<up, restartDb>>
    BY <1>5 DEF SubmitLocked, Requests, TypeOK
  <2>3. restartDb' = {} /\ callDb' \subseteq callDb \ {b} /\ (callPc' = "idle" => callDb' = {})
    BY <2>1, <2>2 DEF Dequeue, SetCall
  <2>4. CASE b \in inFlight
    BY <2>1, <2>2, <2>3, <2>4 DEF IsRunning, taskVars
  <2>5. CASE b \notin inFlight
    <3>1. /\ blobs'[b] # "absent" /\ \A c \in Blobs \ {b} : blobs'[c] = blobs[c]
          /\ \A c \in Blobs \ {b} : IsRunning(c)' = IsRunning(c)
        BY <2>1, <2>2, <2>5 DEF SetTask, IsRunning, TypeOK
    <3> QED BY ZenonT(40), <2>1, <2>2, <2>3, <2>5, <3>1 DEF TypeOK
  <2> QED BY <2>4, <2>5
<1>6. CASE MainTaskTick \/ MainTaskShutdown
    BY <1>6 DEF MainTaskTick, MainTaskShutdown, IsRunning, TypeOK, taskVars
<1>7. CASE Crash
    BY Zenon, <1>7 DEF Crash, SetCall, IsRunning, Running
<1>8. CASE Restart
    BY <1>8 DEF Restart, IsRunning, TypeOK, taskVars
<1>9. CASE SubmitError
    BY <1>9 DEF SubmitError, SetCall, IsRunning, TypeOK, taskVars
<1>10. CASE Shutdown
    BY <1>10 DEF Shutdown, IsRunning, TypeOK, taskVars
<1>11. ASSUME \/ \E b \in Blobs : ProduceSlot(b) \/ LoseCopy(b)
              \/ ProduceEmptySlot \/ Finalize \/ Reorg
       PROVE  TrackInv'
  <2>1. UNCHANGED <<senderVars, blobs>>
    BY Zenon, <1>11 DEF ProduceSlot, LoseCopy, ProduceEmptySlot, Finalize, Reorg
  <2> QED BY Zenon, <2>1 DEF senderVars, taskVars, IsRunning
<1> QED BY ZenonT(40), <1>1, <1>2, <1>3, <1>4, <1>5, <1>6, <1>7, <1>8, <1>9, <1>10, <1>11
        DEF Next, CallerStep

-----------------------------------------------------------------------------
\* The blobs that have a running task.
RunningBlobs == {b \in Blobs : IsRunning(b)}

\* A step spawns one task for a blob that had none and counts it, ends one task and
\* gives its count back, ends them all in a crash, or changes neither.
LEMMA RunningMoves ==
    ASSUME TypeOK, TrackInv, Next
    PROVE  \/ RunningBlobs' = RunningBlobs /\ counter' = counter
           \/ \E b \in Blobs \ RunningBlobs :
                  RunningBlobs' = RunningBlobs \cup {b} /\ counter' = counter + 1
           \/ \E b \in RunningBlobs :
                  RunningBlobs' = RunningBlobs \ {b} /\ counter' = counter - 1
           \/ RunningBlobs' = {} /\ counter' = 0
<1> DEFINE Moves ==
           \/ RunningBlobs' = RunningBlobs /\ counter' = counter
           \/ \E b \in Blobs \ RunningBlobs :
                  RunningBlobs' = RunningBlobs \cup {b} /\ counter' = counter + 1
           \/ \E b \in RunningBlobs :
                  RunningBlobs' = RunningBlobs \ {b} /\ counter' = counter - 1
           \/ RunningBlobs' = {} /\ counter' = 0
<1>a. ASSUME NEW b \in Blobs, IsRunning(b), Finish(b) PROVE Moves
  <2>1. pc' = [pc EXCEPT ![b] = "done"] /\ counter' = counter - 1
    BY <1>a DEF Finish, SetTask
  <2>2. RunningBlobs' = RunningBlobs \ {b}
    BY <2>1 DEF RunningBlobs, IsRunning, Running, TypeOK
  <2>3. b \in RunningBlobs
    BY <1>a DEF RunningBlobs
  <2> QED BY <2>1, <2>2, <2>3
<1>b. ASSUME NEW b \in Blobs, NEW at \in Running, IsRunning(b),
             pc' = [pc EXCEPT ![b] = at], counter' = counter
      PROVE  Moves
  <2>1. RunningBlobs' = RunningBlobs
    BY <1>b DEF RunningBlobs, IsRunning, TypeOK
  <2> QED BY <1>b, <2>1
<1>c. ASSUME UNCHANGED <<pc, counter>> PROVE Moves
    BY <1>c DEF RunningBlobs, IsRunning
<1>1. ASSUME NEW b \in Blobs, TaskStep(b) PROVE Moves
  <2>1. CASE RemoveBlob(b)
    BY <1>1, <2>1, <1>a, TaskMoves DEF RemoveBlob
  <2>2. CASE ~RemoveBlob(b)
    <3>1. counter' = counter
        BY Zenon, <1>1, <2>2 DEF TaskStep, SaveState, SendBlob, Receipt, OnPublishedBlob,
           GetBatchByHash, GetDiscardedBlobByHash, GetLatestFinalized, OnFinalizedBlob
    <3>2. pc'[b] # "done"
        BY ZenonT(40), <1>1, <2>2 DEF TaskStep, SaveState, SendBlob, Receipt, OnPublishedBlob,
           GetBatchByHash, GetDiscardedBlobByHash, GetLatestFinalized, OnFinalizedBlob,
           Goto, Enter, SetTask, TypeOK
    <3>3. PICK at \in Running \cup {"done"} : pc' = [pc EXCEPT ![b] = at]
        BY <1>1, TaskMoves
    <3>4. at \in Running
        BY <3>2, <3>3 DEF TypeOK
    <3> QED BY Zenon, <1>1, <3>1, <3>3, <3>4, <1>b, TaskMoves
  <2> QED BY <2>1, <2>2
<1>2. ASSUME NEW b \in Blobs, Timeout(b) PROVE Moves
  <2>1. IsRunning(b)
    BY <1>2, TaskGivesUp
  <2>2. Finish(b) \/ (pc' = [pc EXCEPT ![b] = "head"] /\ counter' = counter)
    BY <1>2 DEF Timeout, Enter, SetTask
  <2>3. "head" \in Running
    BY DEF Running
  <2> QED BY <2>1, <2>2, <2>3, <1>a, <1>b
<1>3. ASSUME NEW b \in Blobs, RemoveError(b) \/ TaskError(b) \/ TaskShutdown(b) PROVE Moves
  <2>1. IsRunning(b) /\ Finish(b)
    BY Zenon, <1>3, TaskGivesUp DEF RemoveError, TaskError, TaskShutdown
  <2> QED BY <2>1, <1>a
<1>4. CASE SubmitLocked
  <2>1. PICK b \in Requests :
           IF b \in inFlight
           THEN UNCHANGED <<taskVars, inFlight, counter, blobs, pushed>>
           ELSE /\ counter' = counter + 1
                /\ SetTask(b, "head", RequestStatus(b), "None", 0, 0)
    BY <1>4 DEF SubmitLocked
  <2>2. CASE b \in inFlight
    BY <2>1, <2>2, <1>c DEF taskVars
  <2>3. CASE b \notin inFlight
    <3>1. b \in Blobs /\ b \notin RunningBlobs
        BY <1>4, <2>3 DEF SubmitLocked, Requests, TypeOK, TrackInv, RunningBlobs
    <3>2. pc' = [pc EXCEPT ![b] = "head"]
        BY <2>1, <2>3 DEF SetTask
    <3>3. RunningBlobs' = RunningBlobs \cup {b}
        BY <3>1, <3>2 DEF RunningBlobs, IsRunning, Running, TypeOK
    <3> QED BY <2>1, <2>3, <3>1, <3>3
  <2> QED BY <2>2, <2>3
<1>5. CASE Crash
  <2>1. RunningBlobs' = {} /\ counter' = 0
    BY <1>5 DEF Crash, RunningBlobs, IsRunning, Running
  <2> QED BY <2>1
<1>6. ASSUME NEW b \in Blobs, Publish(b) \/ ProduceSlot(b) \/ LoseCopy(b) PROVE Moves
    BY Zenon, <1>c, <1>6 DEF Publish, ProduceSlot, LoseCopy, senderVars, taskVars
<1>7. CASE \/ SubmitCheck \/ SubmitError \/ MainTaskTick \/ MainTaskShutdown \/ Shutdown
           \/ Restart \/ ProduceEmptySlot \/ Finalize \/ Reorg
    BY Zenon, <1>c, <1>7 DEF SubmitCheck, SubmitError, MainTaskTick, MainTaskShutdown, Shutdown,
       Restart, ProduceEmptySlot, Finalize, Reorg, senderVars, taskVars
<1> QED BY <1>1, <1>2, <1>3, <1>4, <1>5, <1>6, <1>7 DEF Next, CallerStep

\* nb_of_concurrent_blob_submissions stays exact in every step.
LEMMA NextCounter ==
    ASSUME TypeOK, TrackInv, CounterIsExact, Next
    PROVE  CounterIsExact'
<1>1. IsFiniteSet(RunningBlobs) /\ counter = Cardinality(RunningBlobs)
    BY FS_Subset, BlobsAssumption DEF RunningBlobs, CounterIsExact
<1>2. counter' = Cardinality(RunningBlobs')
    BY <1>1, RunningMoves, FS_AddElement, FS_RemoveElement, FS_EmptySet
<1> QED BY <1>2 DEF CounterIsExact, RunningBlobs
=============================================================================
