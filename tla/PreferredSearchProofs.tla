----------------------- MODULE PreferredSearchProofs ------------------------
(***************************************************************************)
(* PreferredSearch implements PreferredTracker, for every bound.           *)
(*                                                                         *)
(* The inductive invariant says what the loop has done so far in terms of  *)
(* the slot's input alone: the numbers taken from the new blobs are those  *)
(* FromNew describes, the numbers taken from storage are the others, and   *)
(* every number below the loop's one was reached.                          *)
(***************************************************************************)
EXTENDS PreferredSearch, TLAPS

\* The time each SMT leaf may take.
USE SMTT(40)

FN(m) == Tracker!FromNew(m, next, posted)
RC(m) == Tracker!Reached(m, next, posted, index)

Below == next..(number - 1)

\* The loop's locals as functions of the slot's input and of number.
LocalsInv ==
    /\ next <= number
    /\ takenNew = {m \in Below : FN(m)}
    /\ takenStored = {m \in Below : ~FN(m)}
    /\ saved = index \ takenStored
    /\ copies = [m \in Numbers |-> IF m < next THEN 0
                                   ELSE IF m \in takenNew THEN posted[m] - 1
                                   ELSE posted[m]]

\* Every number below the loop's one was reached, and the loop stops at the
\* first batch or at the first number it cannot reach.
RunInv ==
    /\ \A m \in Below : RC(m)
    /\ \A m \in batch : m \in Below => pc = "commit" /\ m = number - 1
    /\ pc = "commit" => CreateRollupBlock \/ ~RC(number)

IInv ==
    /\ TypeOK
    /\ IndexIsBacked
    /\ pc # "idle" => LocalsInv /\ RunInv

USE NumberAssumption, CopiesAssumption
-----------------------------------------------------------------------------
\* The loop peeks at a new blob exactly when FromNew holds of its number.
LEMMA PeekNew ==
    ASSUME TypeOK, LocalsInv
    PROVE  NewIsNext <=> FN(number)
<1> USE DEF TypeOK, LocalsInv, Below, Deliveries, Numbers
<1>1. ASSUME NewIsNext PROVE FN(number)
  <2>1. number \in Tracker!Fresh(next, posted)
    BY <1>1 DEF NewIsNext, Tracker!Fresh
  <2>2. ASSUME NEW d \in Tracker!Repeated(next, posted), d < number PROVE FALSE
    <3>1. d \in Numbers /\ d >= next /\ posted[d] > 1
      BY <2>2 DEF Tracker!Repeated, Tracker!Fresh
    <3>2. copies[d] > 0
      BY <3>1
    <3> QED BY <3>1, <3>2, <2>2, <1>1 DEF NewIsNext
  <2>3. \A d \in Tracker!Repeated(next, posted) : d \in Int
    BY DEF Tracker!Repeated, Tracker!Fresh
  <2> QED BY <2>1, <2>2, <2>3 DEF FN, Tracker!FromNew
<1>2. ASSUME FN(number) PROVE NewIsNext
  <2>1. number \in Numbers /\ posted[number] > 0 /\ number >= next
    BY <1>2 DEF FN, Tracker!FromNew, Tracker!Fresh
  <2>2. copies[number] > 0
    BY <2>1
  <2>3. ASSUME NEW m \in Numbers, m < number PROVE copies[m] = 0
    <3>1. CASE m < next
      BY <3>1
    <3>2. CASE m >= next /\ posted[m] = 0
      <4>1. ~FN(m)
        BY <3>2 DEF FN, Tracker!FromNew, Tracker!Fresh
      <4> QED BY <3>2, <4>1
    <3>3. CASE m >= next /\ posted[m] > 0
      <4>1. posted[m] = 1
        BY <3>3, <2>3, <1>2 DEF FN, Tracker!FromNew, Tracker!Repeated, Tracker!Fresh
      <4>2. FN(m)
        <5>1. m \in Tracker!Fresh(next, posted)
          BY <3>3 DEF Tracker!Fresh
        <5>2. \A d \in Tracker!Repeated(next, posted) : number <= d
          BY <1>2 DEF FN, Tracker!FromNew
        <5>3. \A d \in Tracker!Repeated(next, posted) : d \in Int
          BY DEF Tracker!Repeated, Tracker!Fresh
        <5> QED BY <5>1, <5>2, <5>3, <2>3 DEF FN, Tracker!FromNew
      <4> QED BY <3>3, <4>1, <4>2, <2>3
    <3> QED BY <3>1, <3>2, <3>3
  <2> QED BY <2>1, <2>2, <2>3 DEF NewIsNext
<1> QED BY <1>1, <1>2

\* It peeks at a stored one exactly when FromIndex holds of its number.
LEMMA PeekStored ==
    ASSUME TypeOK, LocalsInv
    PROVE  StoredIsNext <=> Tracker!FromIndex(number, next, posted, index)
<1> USE DEF TypeOK, LocalsInv, Below, Numbers
<1>1. number \in saved <=> number \in index
  OBVIOUS
<1>2. \A s \in index : s \in saved <=> ~(s < number /\ s >= next /\ ~FN(s))
  OBVIOUS
<1>3. \A s \in index : s \in Int
  OBVIOUS
<1> QED BY <1>1, <1>2, <1>3 DEF StoredIsNext, Tracker!FromIndex, FN
-----------------------------------------------------------------------------
LEMMA InitIInv == Init => IInv
  BY DEF Init, Tracker!Init, IInv, TypeOK, IndexIsBacked, Deliveries, Numbers,
         Tracker!Numbers

LEMMA SlotIInv ==
    ASSUME IInv, NEW delivery \in Deliveries, Slot(delivery)
    PROVE  IInv'
<1> USE DEF IInv, TypeOK, Slot, trackerVars
<1>1. TypeOK'
  <2>1. copies' \in Deliveries
    BY DEF Retained, Deliveries, Numbers
  <2> QED BY <2>1
<1>2. IndexIsBacked'
  BY DEF IndexIsBacked
<1>3. LocalsInv'
  BY DEF LocalsInv, Below, Retained, Numbers, Deliveries
<1>4. RunInv'
  BY DEF RunInv, Below, Numbers
<1> QED BY <1>1, <1>2, <1>3, <1>4

\* One iteration of the loop takes the next number: from the new blobs or
\* from storage, and it was reached.
LEMMA TakeIInv ==
    ASSUME IInv, TakeNew \/ TakeStored
    PROVE  IInv'
<1> USE DEF IInv
<1>0. pc = "loop" /\ LocalsInv /\ RunInv /\ UNCHANGED <<trackerVars, posted>> /\ Advance
  BY DEF TakeNew, TakeStored
<1>1. next' = next /\ index' = index /\ store' = store /\ batch' = batch /\ posted' = posted
  BY <1>0 DEF trackerVars
<1>2. number \in Numbers /\ RC(number) /\ (TakeNew <=> FN(number))
  <2>1. CASE TakeNew
    <3>1. FN(number) /\ number \in Numbers
      BY <2>1, <1>0, PeekNew DEF TakeNew, NewIsNext
    <3> QED BY <2>1, <3>1 DEF RC, FN, Tracker!Reached
  <2>2. CASE TakeStored
    <3>1. ~FN(number) /\ Tracker!FromIndex(number, next, posted, index)
      BY <2>2, <1>0, PeekNew, PeekStored DEF TakeStored
    <3>2. number \in Numbers /\ ~TakeNew
      BY <2>2 DEF TakeStored, StoredIsNext, TypeOK, TakeNew
    <3> QED BY <3>1, <3>2 DEF RC, Tracker!Reached
  <2> QED BY <2>1, <2>2
<1>3. number' = number + 1
  BY <1>0 DEF Advance
<1>4. \A m : FN(m)' <=> FN(m)
  BY <1>1 DEF FN
<1>5. \A m : RC(m)' <=> RC(m)
  BY <1>1 DEF RC
<1>6. Below' = Below \cup {number} /\ number \notin Below
  BY <1>0, <1>1, <1>2, <1>3 DEF Below, LocalsInv, TypeOK, Numbers
<1>7. takenNew' = {m \in Below' : FN(m)} /\ takenStored' = {m \in Below' : ~FN(m)}
  BY <1>0, <1>2, <1>6 DEF LocalsInv, TakeNew, TakeStored
<1>8. saved' = index \ takenStored'
  BY <1>0, <1>2, <1>6 DEF LocalsInv, TakeNew, TakeStored
<1>9. copies' = [m \in Numbers |-> IF m < next THEN 0
                                  ELSE IF m \in takenNew' THEN posted[m] - 1
                                  ELSE posted[m]]
  <2>1. CASE TakeNew
    <3>1. copies' = [copies EXCEPT ![number] = copies[number] - 1]
          /\ takenNew' = takenNew \cup {number}
      BY <2>1 DEF TakeNew
    <3>2. number \notin takenNew /\ ~(number < next)
      BY <1>0, <1>2, <1>6 DEF LocalsInv, TypeOK, Numbers
    <3>3. copies[number] = posted[number]
      BY <3>2, <1>0, <1>2 DEF LocalsInv
    <3>4. copies' = [m \in Numbers |-> IF m = number THEN posted[number] - 1 ELSE copies[m]]
      BY <3>1, <3>3, <1>0 DEF LocalsInv
    <3>5. ASSUME NEW m \in Numbers
          PROVE  (IF m = number THEN posted[number] - 1 ELSE copies[m])
                 = IF m < next THEN 0 ELSE IF m \in takenNew' THEN posted[m] - 1 ELSE posted[m]
      BY <3>1, <3>2, <1>0 DEF LocalsInv
    <3> QED BY <3>4, <3>5
  <2>2. CASE TakeStored
    BY <2>2, <1>0 DEF TakeStored, LocalsInv
  <2> QED BY <2>1, <2>2
<1>10. LocalsInv'
  <2>1. next' <= number'
    BY <1>0, <1>1, <1>3 DEF LocalsInv, TypeOK, Numbers
  <2> QED BY <2>1, <1>1, <1>4, <1>7, <1>8, <1>9 DEF LocalsInv
<1>11. RunInv'
  <2>1. \A m \in Below' : RC(m)'
    BY <1>0, <1>2, <1>5, <1>6 DEF RunInv
  <2>2. \A m \in batch : m \in Below' => pc' = "commit" /\ m = number' - 1
    BY <1>0, <1>2, <1>3, <1>6 DEF RunInv, Advance, Numbers
  <2>3. pc' = "commit" => CreateRollupBlock'
    BY <1>0, <1>1, <1>2, <1>3 DEF Advance, CreateRollupBlock, LocalsInv, TypeOK, Numbers
  <2> QED BY <1>1, <2>1, <2>2, <2>3 DEF RunInv
<1>12. TypeOK'
  <2>1. copies' \in Deliveries
    <3>1. CASE TakeNew
      BY <3>1, <1>2 DEF TakeNew, NewIsNext, TypeOK, Deliveries, Numbers
    <3>2. CASE TakeStored
      BY <3>2 DEF TakeStored, TypeOK
    <3> QED BY <3>1, <3>2
  <2>2. number' \in 0..(MaxNumber + 1)
    BY <1>2, <1>3 DEF Numbers
  <2>3. takenNew' \subseteq Numbers /\ takenStored' \subseteq Numbers /\ saved' \subseteq Numbers
    BY Zenon, <1>2 DEF TakeNew, TakeStored, TypeOK
  <2>4. pc' \in {"idle", "loop", "commit"}
    BY <1>0 DEF Advance
  <2> QED BY <1>1, <2>1, <2>2, <2>3, <2>4 DEF TypeOK
<1>13. IndexIsBacked'
  BY <1>1 DEF IndexIsBacked
<1> QED BY <1>10, <1>11, <1>12, <1>13

LEMMA StuckIInv ==
    ASSUME IInv, Stuck
    PROVE  IInv'
<1> USE DEF IInv, Stuck, trackerVars
<1>1. ~RC(number)
  BY PeekNew, PeekStored DEF RC, FN, Tracker!Reached
<1>2. TypeOK' /\ IndexIsBacked'
  BY DEF TypeOK, IndexIsBacked
<1>3. LocalsInv'
  BY DEF LocalsInv, Below, FN
<1>4. RunInv'
  <2>1. ~RC(number)' /\ \A m : RC(m)' <=> RC(m)
    BY <1>1 DEF RC
  <2> QED BY <2>1 DEF RunInv, Below
<1> QED BY <1>2, <1>3, <1>4
-----------------------------------------------------------------------------
\* A run has one end.
LEMMA OneEnd ==
    ASSUME TypeOK,
           NEW m \in Numbers, Tracker!EndsRun(m, next, posted, index, batch),
           NEW k \in Numbers, Tracker!EndsRun(k, next, posted, index, batch)
    PROVE  m = k
  BY DEF Tracker!EndsRun, TypeOK, Numbers

\* What Commit leaves behind is what PreferredRun says.
LEMMA CommitResult ==
    ASSUME IInv, pc = "commit"
    PROVE  /\ Tracker!NextNumber(next, posted, index, batch)
                = IF CreateRollupBlock THEN number ELSE next
           /\ Tracker!Leftover(next, posted, index, batch)
                = Remaining \cup IF CreateRollupBlock THEN {} ELSE takenNew
           /\ Tracker!Consumed(next, posted, index, batch)
                = IF CreateRollupBlock THEN takenStored ELSE {}
<1> DEFINE nn == Tracker!NextNumber(next, posted, index, batch)
<1>0. TypeOK /\ LocalsInv /\ RunInv
  BY DEF IInv
<1>1. CASE CreateRollupBlock
  <2>1. Tracker!EndsRun(number - 1, next, posted, index, batch)
    <3>1. number - 1 \in batch /\ next <= number - 1
      BY <1>0, <1>1 DEF CreateRollupBlock, TypeOK, Numbers
    <3>2. ASSUME NEW k \in next..(number - 1)
          PROVE  Tracker!Reached(k, next, posted, index) /\ (k \in batch => k = number - 1)
      BY <1>0 DEF RunInv, Below, RC
    <3> QED BY <3>1, <3>2 DEF Tracker!EndsRun
  <2>2. number - 1 \in batch /\ number - 1 \in Numbers
    BY <1>0, <1>1 DEF CreateRollupBlock, TypeOK
  <2>3. \A m \in batch : Tracker!EndsRun(m, next, posted, index, batch) => m = number - 1
    BY <1>0, <2>1, <2>2, OneEnd DEF TypeOK
  <2>4. nn = number
    <3>1. (CHOOSE m \in batch : Tracker!EndsRun(m, next, posted, index, batch)) = number - 1
      BY <2>1, <2>2, <2>3
    <3>2. Tracker!HasRun(next, posted, index, batch)
      BY <2>1, <2>2 DEF Tracker!HasRun
    <3>3. 1 + (number - 1) = number
      BY <1>0 DEF TypeOK
    <3> QED BY Zenon, <3>1, <3>2, <3>3 DEF Tracker!NextNumber
  <2>5. Tracker!Leftover(next, posted, index, batch) = Remaining
    <3>1. ASSUME NEW m \in Numbers
          PROVE  (m \in Tracker!Fresh(next, posted)
                    /\ (m >= number \/ m \in Tracker!Repeated(next, posted) \/ ~FN(m)))
                 <=> copies[m] > 0
      <4>1. CASE m < next
        BY <4>1, <1>0 DEF LocalsInv, Tracker!Fresh, TypeOK, Numbers
      <4>2. CASE m >= next /\ m \in takenNew
        BY <4>2, <1>0 DEF LocalsInv, Below, Tracker!Fresh, Tracker!Repeated, TypeOK, Numbers,
           Deliveries
      <4>3. CASE m >= next /\ m \notin takenNew
        BY <4>3, <1>0 DEF LocalsInv, Below, Tracker!Fresh, TypeOK, Numbers, Deliveries
      <4> QED BY <4>1, <4>2, <4>3, <1>0 DEF TypeOK, Numbers
    <3>2. Tracker!Fresh(next, posted) \subseteq Numbers
      BY <1>0 DEF Tracker!Fresh, TypeOK, Deliveries
    <3>3. Tracker!Leftover(next, posted, index, batch)
            = {m \in Tracker!Fresh(next, posted) :
                  m >= number \/ m \in Tracker!Repeated(next, posted) \/ ~FN(m)}
      BY <2>4 DEF Tracker!Leftover, FN
    <3> QED BY <3>1, <3>2, <3>3 DEF Remaining
  <2>6. Tracker!Consumed(next, posted, index, batch) = takenStored
    BY <2>4, <1>0 DEF Tracker!Consumed, LocalsInv, Below, FN
  <2> QED BY <1>1, <2>4, <2>5, <2>6
<1>2. CASE ~CreateRollupBlock
  <2>1. ~Tracker!HasRun(next, posted, index, batch)
    <3> SUFFICES ASSUME NEW m \in batch, Tracker!EndsRun(m, next, posted, index, batch)
                 PROVE  FALSE
      BY DEF Tracker!HasRun
    <3>0. m \in Int /\ number \in Int /\ next \in Int /\ next <= number /\ next <= m
      BY <1>0 DEF TypeOK, Numbers, LocalsInv, Tracker!EndsRun
    <3>1. CASE m < number
      BY <3>0, <3>1, <1>0, <1>2 DEF RunInv, Below, CreateRollupBlock
    <3>2. CASE m >= number
      <4>1. RC(number)
        BY <3>0, <3>2 DEF Tracker!EndsRun, RC
      <4> QED BY <4>1, <1>0, <1>2 DEF RunInv
    <3> QED BY <3>0, <3>1, <3>2
  <2>2. nn = next
    BY <2>1 DEF Tracker!NextNumber
  <2>3. Tracker!Leftover(next, posted, index, batch) = Tracker!Fresh(next, posted)
    <3>1. \A m \in Tracker!Fresh(next, posted) : m >= next
      BY DEF Tracker!Fresh
    <3> QED BY <2>2, <3>1 DEF Tracker!Leftover
  <2>4. Tracker!Fresh(next, posted) = Remaining \cup takenNew
    <3>1. takenNew \subseteq Tracker!Fresh(next, posted)
      BY <1>0 DEF LocalsInv, FN, Tracker!FromNew
    <3>2. \A m \in Numbers : m \notin takenNew =>
             (m \in Tracker!Fresh(next, posted) <=> copies[m] > 0)
      BY <1>0 DEF LocalsInv, Tracker!Fresh, TypeOK, Numbers, Deliveries
    <3>3. Tracker!Fresh(next, posted) \subseteq Numbers
      BY <1>0 DEF Tracker!Fresh, TypeOK, Deliveries
    <3>4. \A m \in takenNew : copies[m] > 0 => m \in Tracker!Fresh(next, posted)
      BY <3>1
    <3> QED BY <3>1, <3>2, <3>3, <3>4 DEF Remaining
  <2>5. Tracker!Consumed(next, posted, index, batch) = {}
    BY <2>2, <1>0 DEF Tracker!Consumed, TypeOK
  <2> QED BY <1>2, <2>2, <2>3, <2>4, <2>5
<1> QED BY <1>1, <1>2

LEMMA CommitSlot ==
    ASSUME IInv, Commit
    PROVE  Tracker!Slot
<1>1. pc = "commit" /\ TypeOK
  BY DEF Commit, IInv
<1>2. CASE CreateRollupBlock
  BY <1>1, <1>2, CommitResult
     DEF Commit, SplitOff, Tracker!Slot, Tracker!IndexAfter, Tracker!StoreAfter
<1>3. CASE ~CreateRollupBlock
  BY <1>1, <1>3, CommitResult
     DEF Commit, SplitOff, SaveRun, Tracker!Slot, Tracker!IndexAfter, Tracker!StoreAfter
<1> QED BY <1>2, <1>3

LEMMA CommitBacked ==
    ASSUME IInv, Commit
    PROVE  /\ IndexIsBacked'
           /\ \A m \in index \cup {k \in Numbers : posted[k] > 0} :
                  m >= next => m < next' \/ m \in index' \cap store'
<1>0. TypeOK /\ LocalsInv /\ RunInv /\ IndexIsBacked
  BY DEF IInv, Commit
<1>1. \A m \in takenStored : m < number
  BY <1>0 DEF LocalsInv, Below, TypeOK
<1>2. \A m \in Numbers : posted[m] > 0 /\ m >= next => m \in Remaining \/ m \in takenNew
  BY <1>0 DEF LocalsInv, Remaining, TypeOK, Numbers
<1>3. \A m \in takenNew : m < number
  BY <1>0 DEF LocalsInv, Below, TypeOK
<1>4. next <= number /\ next \in Int /\ number \in Int /\ index \subseteq Numbers
  BY <1>0 DEF LocalsInv, TypeOK
<1>5. \A m \in Numbers : m \in Int
  BY DEF Numbers
<1>6. CASE CreateRollupBlock
  <2>1. next' = number /\ index' = SplitOff(number) \cup Remaining
        /\ store' = (store \cup Remaining) \ takenStored
    BY <1>6 DEF Commit
  <2>2. Remaining \subseteq Numbers
    BY DEF Remaining
  <2>3. ASSUME NEW m \in Numbers, m >= number, m \in index \cup Remaining
        PROVE  m \in index' \cap store'
    BY <2>1, <2>3, <1>0, <1>1, <1>4, <1>5 DEF SplitOff, IndexIsBacked
  <2>4. index' \subseteq index \cup Remaining
    BY <2>1 DEF SplitOff
  <2>5. IndexIsBacked'
    BY <2>1, <2>2, <2>3, <2>4, <1>4 DEF IndexIsBacked
  <2>6. ASSUME NEW m \in index \cup {k \in Numbers : posted[k] > 0}, m >= next
        PROVE  m < number \/ m \in index' \cap store'
    BY <2>3, <2>6, <1>2, <1>3, <1>4, <1>5
  <2> QED BY <2>1, <2>5, <2>6
<1>7. CASE ~CreateRollupBlock
  BY <1>7, <1>0, <1>2, <1>4, <1>5 DEF Commit, SplitOff, SaveRun, IndexIsBacked
<1> QED BY <1>6, <1>7

LEMMA CommitIInv ==
    ASSUME IInv, Commit
    PROVE  IInv'
<1>1. pc' = "idle" /\ IndexIsBacked'
  BY CommitBacked DEF Commit
<1>2. TypeOK'
  <2>1. copies' \in Deliveries
    BY DEF Commit, DropLocals, Deliveries
  <2> QED BY <2>1 DEF IInv, TypeOK, Commit, DropLocals, SplitOff, SaveRun, Remaining
<1> QED BY <1>1, <1>2 DEF IInv

LEMMA Inductive ==
    ASSUME IInv, [Next]_vars
    PROVE  IInv'
<1>1. CASE Next
  BY <1>1, SlotIInv, TakeIInv, StuckIInv, CommitIInv DEF Next
<1>2. CASE UNCHANGED vars
  BY <1>2 DEF vars, trackerVars, loopVars, IInv, TypeOK, IndexIsBacked, LocalsInv, RunInv,
              Below, FN, RC, CreateRollupBlock
<1> QED BY <1>1, <1>2

LEMMA Invariance == Spec => []IInv
  BY InitIInv, Inductive, PTL DEF Spec
-----------------------------------------------------------------------------
\* A saved number that may still be released has its blob in storage: the
\* `expect` of get_blobs_to_process_from_run never fails.
THEOREM StoredBlobPresent == Spec => []IndexIsBacked
<1>1. IInv => IndexIsBacked
  BY DEF IInv
<1> QED BY <1>1, Invariance, PTL

\* The assertions of pick_preferred_blobs_to_process hold: a run is
\* consecutive and only its last blob is a batch.
THEOREM AssertionsHold == Spec => []RunIsConsecutive
<1>1. IInv => RunIsConsecutive
  BY DEF IInv, RunIsConsecutive, LocalsInv, RunInv, Below
<1> QED BY <1>1, Invariance, PTL

\* No preferred blob is lost by a slot, whatever copies arrive in it.
THEOREM NoneSkipped == Spec => NothingSkipped
<1>1. IInv /\ [Next]_vars =>
        [pc = "commit" =>
           \A m \in index \cup {k \in Numbers : posted[k] > 0} :
              m >= next => m < next' \/ m \in index' \cap store']_vars
  <2> SUFFICES ASSUME IInv, Next, pc = "commit"
               PROVE  \A m \in index \cup {k \in Numbers : posted[k] > 0} :
                         m >= next => m < next' \/ m \in index' \cap store'
    OBVIOUS
  <2>1. Commit
    BY DEF Next, Slot, TakeNew, TakeStored, Stuck
  <2> QED BY <2>1, CommitBacked
<1> QED BY <1>1, Invariance, PTL DEF Spec, NothingSkipped

\* The loop implements the one-step tracker: in every slot it releases the
\* shortest run PreferredRun describes and leaves the index and the storage
\* PreferredRun describes.
THEOREM LoopImplementsTracker == Spec => ImplementsTracker
<1>1. Init => Tracker!Init
  BY DEF Init
<1>2. IInv /\ [Next]_vars => [Tracker!Next]_(Tracker!vars)
  <2> SUFFICES ASSUME IInv, [Next]_vars
               PROVE  Tracker!Next \/ UNCHANGED Tracker!vars
    OBVIOUS
  <2>1. CASE Commit
    BY <2>1, CommitSlot DEF Tracker!Next
  <2>2. ASSUME NEW delivery \in Deliveries, Slot(delivery)
        PROVE  Tracker!Arrive
    BY <2>2 DEF Slot, trackerVars, Tracker!Arrive, Tracker!Deliveries, Tracker!Numbers,
                Deliveries, Numbers
  <2>3. CASE TakeNew \/ TakeStored \/ Stuck
    BY <2>3 DEF TakeNew, TakeStored, Stuck, trackerVars, Tracker!vars
  <2>4. CASE UNCHANGED vars
    BY <2>4 DEF vars, trackerVars, loopVars, Tracker!vars
  <2> QED BY <2>1, <2>2, <2>3, <2>4 DEF Next, Tracker!Next
<1> QED BY <1>1, <1>2, Invariance, PTL DEF Spec, ImplementsTracker, Tracker!Spec
=============================================================================
