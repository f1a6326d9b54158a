---------------------------- MODULE BlobStorage -----------------------------
(***************************************************************************)
(* Blob selection (sov-blob-storage) under the soft-confirmations kernel:  *)
(* one action per DA slot, for each of the three ways to select blobs      *)
(* (preferred sequencer, recovery, based), and the calls of the sequencer  *)
(* registry that change the standing of the preferred sequencer.           *)
(*                                                                         *)
(* A slot runs synchronize_chain, get_blobs_for_this_slot and, if a rollup *)
(* block is created, increment_rollup_height (apply_slot).  The preferred  *)
(* sequencer's blobs are their sequence numbers and go through             *)
(* PreferredRun.  Another blob is its position on the DA layer, what blob  *)
(* selection reads of it (its shape) and where its gas is held.            *)
(***************************************************************************)
EXTENDS Integers, Sequences, FiniteSets, FiniteSetsExt, PreferredRun

CONSTANTS
    DEFERRED_SLOTS_COUNT,
    MAX_VISIBLE_HEIGHT_INCREASE_PER_SLOT,
    UNREGISTERED_BLOBS_PER_SLOT,
    MAX_EMERGENCY_REGISTRATION_BLOB_SIZE,
    Room,       \* the size limit of the blobs that are not preferred
    Shapes,     \* what selection reads of a blob; length on the DA layer, size decoded
    MaxPerSlot, \* bound: such blobs in one DA block
    MaxSlot,    \* bound: slots
    MaxNumber,  \* bound: sequence numbers 0..MaxNumber
    MaxCopies   \* bound: copies of one number in one DA block

ASSUME SlotAssumption ==
    /\ DEFERRED_SLOTS_COUNT \in Nat
    /\ MAX_VISIBLE_HEIGHT_INCREASE_PER_SLOT \in Nat \ {0}
    /\ MaxSlot \in Nat

ASSUME SizeAssumption ==
    /\ UNREGISTERED_BLOBS_PER_SLOT \in Nat
    /\ MAX_EMERGENCY_REGISTRATION_BLOB_SIZE \in Nat
    /\ Room \in Nat /\ MaxPerSlot \in Nat
    /\ Shapes \subseteq [registered : BOOLEAN, proof : BOOLEAN, sound : BOOLEAN,
                         length : Nat, size : Nat]

ASSUME NumberAssumption == MaxNumber \in Nat /\ MaxCopies \in Nat

VARIABLES
    trueSlot,   \* chain_state.true_slot_number
    visible,    \* chain_state.next_visible_slot_number
    next,       \* upcoming_sequence_numbers.next_sequence_number
    index,      \* the keys of upcoming_sequence_numbers.saved_sequencer_numbers
    store,      \* the keys of deferred_preferred_sequencer_blobs
    batch,      \* the sequence numbers that are batches (never changes)
    deferred,   \* deferred_blobs: the blobs stored for each slot
    preferred,  \* sequencer_registry.preferred_sequencer is set
    standing,   \* its entry in known_sequencers: "active", "pending" or "gone"
    readyAt,    \* ready_at of its pending withdrawal
    ran,        \* the preferred blobs of the slot's rollup block
    selected,   \* the other blobs of the slot's rollup block
    arrived,    \* history: how many other blobs the DA layer has had
    settled     \* history: those that were selected or discarded

slotVars == <<trueSlot, visible>>
trackerVars == <<next, index, store, batch>>
registryVars == <<preferred, standing, readyAt>>
blobVars == <<deferred, ran, selected, arrived, settled>>
vars == <<slotVars, trackerVars, registryVars, blobVars>>

Slots == 1..MaxSlot
Numbers == 0..MaxNumber
Deliveries == [Numbers -> 0..MaxCopies]
Arrivals == UNION {[1..n -> Shapes] : n \in 0..MaxPerSlot}

Ids(blobs) == {b.id : b \in Range(blobs)}

Init ==
    /\ trueSlot = 0 /\ visible = 0
    /\ next = 0 /\ index = {} /\ store = {} /\ batch \in SUBSET Numbers
    /\ deferred = [s \in Slots |-> <<>>]
    /\ preferred \in BOOLEAN /\ standing = "active" /\ readyAt = 0
    /\ ran = {} /\ selected = <<>>
    /\ arrived = 0 /\ settled = {}
-----------------------------------------------------------------------------
(* Selecting blobs: BlobsAccumulatorWithSizeLimit and the loops over it.   *)

\* A loop over a sequence, from its first element to its last.
FoldLeft(Step(_, _), acc, seq) ==
    MapThenFoldSet(LAMBDA x, a : Step(a, x), acc, LAMBDA i : seq[i], Max, DOMAIN seq)

Accumulator == [room |-> Room, unregistered |-> 0, kept |-> <<>>, discarded |-> {}]

\* Mutant: the discard is not reported.
DiscardSilently(acc, b) == acc

Discard(acc, b) == [acc EXCEPT !.discarded = acc.discarded \cup {b.id}]

\* Mutant: the limit is not checked again.
PushAlways(acc, b) ==
    [acc EXCEPT !.room = acc.room - b.shape.size, !.kept = Append(acc.kept, b)]

PushOrIgnore(acc, b) ==
    IF b.shape.size <= acc.room
    THEN [acc EXCEPT !.room = acc.room - b.shape.size, !.kept = Append(acc.kept, b)]
    ELSE Discard(acc, b)

\* Mutant: deferred or not, the gas goes to the bank.
ReserveDirect(b, defer) == [b EXCEPT !.escrow = "direct"]

\* validate_blob: the gas goes to an account of its own if the blob is
\* deferred, and to the bank if it is used now.
Reserve(b, defer) ==
    [b EXCEPT !.escrow = IF defer THEN "derived" ELSE "direct"]

MayRegister(acc, b) ==
    /\ ~b.shape.proof
    /\ acc.unregistered < UNREGISTERED_BLOBS_PER_SLOT
    /\ b.shape.length <= MAX_EMERGENCY_REGISTRATION_BLOB_SIZE

\* select_blobs_da_ordering_helper, one blob.  A sound blob deserializes and
\* its sender can pay for it.
Consider(acc, b, defer) ==
    IF b.shape.length > acc.room THEN Discard(acc, b)
    ELSE IF b.shape.registered THEN
        IF b.shape.sound THEN PushOrIgnore(acc, Reserve(b, defer)) ELSE Discard(acc, b)
    ELSE IF MayRegister(acc, b) THEN
        LET counted == [acc EXCEPT !.unregistered = acc.unregistered + 1]
        IN  IF b.shape.sound THEN PushOrIgnore(counted, b) ELSE Discard(counted, b)
    ELSE Discard(acc, b)

SelectDaOrdering(acc, blobs, defer) ==
    FoldLeft(LAMBDA a, b : Consider(a, b, defer), acc, blobs)

\* A stored blob whose escrow no longer covers the pre-execution checks (short)
\* is dropped; otherwise its gas moves to the bank.
Retrieve(acc, b, short) ==
    IF b.escrow = "none" THEN PushOrIgnore(acc, b)
    ELSE IF b.id \in short THEN Discard(acc, b)
    ELSE PushOrIgnore(acc, [b EXCEPT !.escrow = "direct"])

\* The blobs stored for the next n slots.
StoredFor(n, stored) == FoldLeft(LAMBDA a, b : a \o b, <<>>, [i \in 1..n |-> stored[visible + i]])

RetrieveStored(acc, n, stored, short) ==
    FoldLeft(LAMBDA a, b : Retrieve(a, b, short), acc, StoredFor(n, stored))

StoreBatches(blobs) == [deferred EXCEPT ![trueSlot + 1] = blobs]

\* Mutant: take_blobs_for_slot reads without removing.
TakeSlotsKeeping(n, stored) == stored

TakeSlots(n, stored) ==
    [s \in Slots |-> IF s \in (visible + 1)..(visible + n) THEN <<>> ELSE stored[s]]

\* Mutant: the slot before synchronize_chain.
IncomingUnsynchronized(shapes) ==
    [i \in DOMAIN shapes |->
        [id |-> arrived + i, slot |-> trueSlot, shape |-> shapes[i], escrow |-> "none"]]

OfKind(blobs, proof) ==
    FoldLeft(LAMBDA a, b : IF b.shape.proof = proof THEN Append(a, b) ELSE a, <<>>, blobs)

\* The slot's blobs, batches before proofs.
Incoming(shapes) ==
    LET blobs == [i \in DOMAIN shapes |->
                    [id |-> arrived + i, slot |-> trueSlot + 1,
                     shape |-> shapes[i], escrow |-> "none"]]
    IN  OfKind(blobs, FALSE) \o OfKind(blobs, TRUE)
-----------------------------------------------------------------------------
\* synchronize_chain and, with a rollup block, increment_rollup_height.
Advance(increase) ==
    /\ trueSlot < MaxSlot
    /\ trueSlot' = trueSlot + 1
    /\ visible' = visible + increase

Output(shapes, kept, discarded) ==
    /\ arrived' = arrived + Len(shapes)
    /\ selected' = kept
    /\ settled' = settled \cup Ids(kept) \cup discarded

HasPreferred == DEFERRED_SLOTS_COUNT > 0 /\ preferred /\ standing # "gone"

\* get_blobs_for_this_slot without a sequencer that may defer anything.
BasedSlot(shapes) ==
    LET acc == SelectDaOrdering(Accumulator, Incoming(shapes), FALSE)
    IN  /\ DEFERRED_SLOTS_COUNT = 0
        /\ Advance(trueSlot + 1 - visible)
        /\ Output(shapes, acc.kept, acc.discarded)
        /\ ran' = {}
        /\ UNCHANGED <<deferred, trackerVars, registryVars>>

\* select_blobs_in_recovery_mode one slot behind: the slot's own blobs.
RecoveryLastSlot(shapes) ==
    LET current == SelectDaOrdering(Accumulator, Incoming(shapes), FALSE)
        acc == FoldLeft(PushOrIgnore, Accumulator, current.kept)
        all == RetrieveStored(acc, 1, deferred, {})
    IN  /\ DEFERRED_SLOTS_COUNT > 0 /\ ~HasPreferred
        /\ trueSlot + 1 - visible = 1
        /\ Advance(1)
        /\ deferred' = TakeSlots(1, deferred)
        /\ Output(shapes, all.kept, current.discarded \cup all.discarded)
        /\ ran' = {}
        /\ UNCHANGED <<trackerVars, registryVars>>

\* Mutant: one slot at a time.
RecoverySlotOne(shapes, short) ==
    LET new == SelectDaOrdering(Accumulator, Incoming(shapes), TRUE)
        stored == StoreBatches(new.kept)
        acc == RetrieveStored(Accumulator, 1, stored, short)
    IN  /\ DEFERRED_SLOTS_COUNT > 0 /\ ~HasPreferred
        /\ trueSlot + 1 - visible >= 2
        /\ Advance(1)
        /\ deferred' = TakeSlots(1, stored)
        /\ Output(shapes, acc.kept, new.discarded \cup acc.discarded)
        /\ ran' = {}
        /\ UNCHANGED <<trackerVars, registryVars>>

\* Otherwise the slot's blobs are stored and two slots are taken.
RecoverySlot(shapes, short) ==
    LET new == SelectDaOrdering(Accumulator, Incoming(shapes), TRUE)
        stored == StoreBatches(new.kept)
        acc == RetrieveStored(Accumulator, 2, stored, short)
    IN  /\ DEFERRED_SLOTS_COUNT > 0 /\ ~HasPreferred
        /\ trueSlot + 1 - visible >= 2
        /\ Advance(2)
        /\ deferred' = TakeSlots(2, stored)
        /\ Output(shapes, acc.kept, new.discarded \cup acc.discarded)
        /\ ran' = {}
        /\ UNCHANGED <<trackerVars, registryVars>>

Lesser(a, b) == IF a <= b THEN a ELSE b

\* Mutant: the forced block comes a slot late.
VisibleIncreaseLate(run, requested) ==
    IF run
    THEN Lesser(requested, Lesser(trueSlot + 1 - visible, MAX_VISIBLE_HEIGHT_INCREASE_PER_SLOT))
    ELSE IF visible + DEFERRED_SLOTS_COUNT < trueSlot + 1 THEN 1
    ELSE 0

\* Mutant: the limit is the lag before synchronize_chain.
VisibleIncreaseUnsynchronized(run, requested) ==
    IF run
    THEN Lesser(requested, Lesser(trueSlot - visible, MAX_VISIBLE_HEIGHT_INCREASE_PER_SLOT))
    ELSE IF visible + DEFERRED_SLOTS_COUNT <= trueSlot + 1 THEN 1
    ELSE 0

\* The visible slot number advances by what the run's batch requests, within
\* limits; without a run only if the full deferral has passed.
VisibleIncrease(run, requested) ==
    IF run
    THEN Lesser(requested, Lesser(trueSlot + 1 - visible, MAX_VISIBLE_HEIGHT_INCREASE_PER_SLOT))
    ELSE IF visible + DEFERRED_SLOTS_COUNT <= trueSlot + 1 THEN 1
    ELSE 0

\* Mutant: the slot's blobs are used one slot early.
SelectOthersEarly(shapes, increase, short) ==
    LET old == RetrieveStored(Accumulator, increase, deferred, short)
        useNow == visible + increase >= trueSlot
        new == SelectDaOrdering(IF useNow THEN old ELSE Accumulator, Incoming(shapes), ~useNow)
    IN  /\ deferred' = TakeSlots(increase, IF useNow THEN deferred ELSE StoreBatches(new.kept))
        /\ Output(shapes, IF useNow THEN new.kept ELSE old.kept, old.discarded \cup new.discarded)

\* Steps 5 and 6 of select_blobs_for_preferred_sequencer.
SelectOthers(shapes, increase, short) ==
    LET old == RetrieveStored(Accumulator, increase, deferred, short)
        useNow == visible + increase = trueSlot + 1
        new == SelectDaOrdering(IF useNow THEN old ELSE Accumulator, Incoming(shapes), ~useNow)
    IN  /\ deferred' = TakeSlots(increase, IF useNow THEN deferred ELSE StoreBatches(new.kept))
        /\ Output(shapes, IF useNow THEN new.kept ELSE old.kept, old.discarded \cup new.discarded)

\* deserialize_or_try_slash_sender slashes the preferred sequencer for a blob
\* that is malformed; registry entry and preference are deleted.
Slash(malformed) ==
    /\ preferred' = (preferred /\ ~malformed)
    /\ standing' = IF malformed THEN "gone" ELSE standing
    /\ readyAt' = IF malformed THEN 0 ELSE readyAt

\* add_preferred_blobs_to_selection: the blobs of the run that do not fit or
\* that the sequencer cannot pay for are discarded; all of them if it is not
\* an active sequencer.
MayRun(numbers, malformed) ==
    IF malformed \/ standing # "active" THEN {{}} ELSE SUBSET numbers

\* select_blobs_for_preferred_sequencer
PreferredSlot(copies, malformed, requested, shapes, short) ==
    LET run == HasRun(next, copies, index, batch)
        after == NextNumber(next, copies, index, batch)
        increase == VisibleIncrease(run, requested)
    IN  /\ HasPreferred
        /\ Advance(increase)
        /\ next' = after
        /\ index' = IndexAfter(next, copies, index, batch)
        /\ store' = StoreAfter(next, copies, index, batch, store)
        /\ ran' \in MayRun(next..(after - 1), malformed)
        /\ Slash(malformed)
        /\ SelectOthers(shapes, increase, short)
        /\ UNCHANGED batch
-----------------------------------------------------------------------------
(* Calls of the sequencer registry by transactions of the rollup block.    *)

\* A batch of another sequencer executes transactions.
OthersExecute == \E b \in Range(selected) : b.shape.registered /\ ~b.shape.proof

Executes == OthersExecute \/ ran \cap batch # {}

\* Not in a batch of one's own.
InitiateWithdrawal ==
    /\ preferred /\ standing = "active" /\ OthersExecute
    /\ standing' = "pending"
    /\ readyAt' = visible + DEFERRED_SLOTS_COUNT + 1
    /\ UNCHANGED <<slotVars, trackerVars, preferred, blobVars>>

Withdraw ==
    /\ preferred /\ standing = "pending" /\ readyAt <= visible /\ Executes
    /\ standing' = "gone" /\ readyAt' = 0
    /\ UNCHANGED <<slotVars, trackerVars, preferred, blobVars>>

\* A deposit makes a pending sequencer active again.
Deposit ==
    /\ preferred /\ standing = "pending" /\ Executes
    /\ standing' = "active" /\ readyAt' = 0
    /\ UNCHANGED <<slotVars, trackerVars, preferred, blobVars>>

\* The preference outlives a withdrawal: the same DA address may register again,
\* by a transaction of another sequencer or by an emergency registration.
Register ==
    /\ preferred /\ standing = "gone"
    /\ \E b \in Range(selected) : ~b.shape.proof
    /\ standing' = "active"
    /\ UNCHANGED <<slotVars, trackerVars, preferred, readyAt, blobVars>>

Pending == UNION {Ids(deferred[s]) : s \in Slots}

Next ==
    \/ \E shapes \in Arrivals :
          \/ BasedSlot(shapes)
          \/ RecoveryLastSlot(shapes)
          \/ \E short \in SUBSET Pending : RecoverySlot(shapes, short)
          \/ \E copies \in Deliveries, malformed \in BOOLEAN,
                requested \in 1..MAX_VISIBLE_HEIGHT_INCREASE_PER_SLOT,
                short \in SUBSET Pending :
                PreferredSlot(copies, malformed, requested, shapes, short)
    \/ InitiateWithdrawal \/ Withdraw \/ Deposit \/ Register

Spec == Init /\ [][Next]_vars
-----------------------------------------------------------------------------
\* Deferred blobs wait for a slot that is not visible yet, and none waits for
\* DEFERRED_SLOTS_COUNT slots: whatever the preferred sequencer does, it can
\* not keep another sequencer's blob out for longer.
NeverOverdue ==
    \A s \in Slots : deferred[s] # <<>> =>
        visible < s /\ s <= trueSlot /\ trueSlot - s < DEFERRED_SLOTS_COUNT

\* Every blob that is not preferred is waiting, or was selected or discarded,
\* and never two of these.
NoneLost == Pending \cup settled = 1..arrived /\ Pending \cap settled = {}

\* "A blob reached the end of selection with its funds still in a deferred
\* escrow", "Deferred blobs must store their gas in a derived account" and
\* "Blob from known sender does not have reserved balance": gas is in escrow
\* exactly as long as the blob waits.
EscrowMatchesPlace ==
    /\ \A b \in Range(selected) : b.escrow = IF b.shape.registered THEN "direct" ELSE "none"
    /\ \A s \in Slots : \A b \in Range(deferred[s]) :
          b.escrow = IF b.shape.registered THEN "derived" ELSE "none"

TotalSize(blobs) == FoldLeft(LAMBDA n, b : n + b.shape.size, 0, blobs)

\* The blobs of a rollup block fit, whether they come from storage or not.
SelectionFits == TotalSize(selected) <= Room

\* A rollup block executes blobs of the slots it makes visible and of no
\* others, in the order of the DA layer, batches of a slot before its proofs:
\* what a transaction sees does not depend on slots that are not visible.
Before(a, b) ==
    \/ a.slot < b.slot
    \/ a.slot = b.slot /\ ~a.shape.proof /\ b.shape.proof
    \/ a.slot = b.slot /\ a.shape.proof = b.shape.proof /\ a.id < b.id

BlockIsVisiblePart ==
    [][trueSlot' > trueSlot =>
          /\ \A b \in Range(selected') : visible < b.slot /\ b.slot <= visible'
          /\ \A i, j \in DOMAIN selected' : i < j => Before(selected'[i], selected'[j])]_vars

\* The assertion of apply_slot: no blob is executed without a rollup block.
NoBlockNoBlobs ==
    [][trueSlot' > trueSlot /\ visible' = visible => selected' = <<>> /\ ran' = {}]_vars

\* "In recovery mode, the rollup processes two visible slots at a time until
\* it catches up": every slot gains one.
RecoveryGains ==
    [][trueSlot' > trueSlot /\ ~HasPreferred =>
          \/ trueSlot' = visible'
          \/ trueSlot' - visible' < trueSlot - visible]_vars

\* The slot numbers behave as SlotClock says: visible never passes true and
\* lags by less than DEFERRED_SLOTS_COUNT.
Clock == INSTANCE SlotClock
ImplementsClock == Clock!Spec
=============================================================================
