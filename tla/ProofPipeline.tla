--------------------------- MODULE ProofPipeline ----------------------------
(***************************************************************************)
(* How a slot gets its proof or its attestation (sov-stf-runner,           *)
(* processes/).  The runner stores what a proof of a slot needs, its STF   *)
(* info, in the ledger and announces the slot in a bounded channel once it *)
(* is provable.  A manager reads the announced slots one by one: in zk     *)
(* mode it has Jump of them proved and posts one aggregated proof, in      *)
(* optimistic mode it posts an attestation of each.  Only then it advances *)
(* the counter `next`, which the runner stores with the next slot.         *)
(*                                                                         *)
(* view[s] is what the ledger shows of this after slot s.  The slots after *)
(* `final` are in memory and a crash loses them.  An info is the number of *)
(* its slot, which is how the ledger finds it; that a re-organisation puts *)
(* another block at this slot is what `posted` and `replaced` are for.  A  *)
(* fork that was left is not returned to.                                  *)
(***************************************************************************)
EXTENDS Integers, FiniteSets, Sequences, Functions

CONSTANTS
    MaxInfos,   \* max_nb_of_infos_in_db
    Channel,    \* max_channel_size
    Jump,       \* aggregated_proof_block_jump
    Threads,    \* num_threads of the prover
    Lag,        \* by how much the visible slot may lag (module SlotClock)
    MaxSlot, MaxReorgs, MaxCrashes, MaxFailures \* bounds

ASSUME ConstantsAssumption ==
    /\ MaxInfos \in Nat /\ Channel \in 1..MaxInfos
    /\ Jump \in Nat \ {0} /\ Threads \in Nat \ {0} /\ Lag \in Nat \ {0}
    /\ MaxSlot \in Nat /\ MaxReorgs \in Nat /\ MaxCrashes \in Nat /\ MaxFailures \in Nat

VARIABLES
    mode,       \* "zk" or "optimistic"
    pc,         \* runner: "down", "notify", "idle", "execute", or "broken": cannot start
    head,       \* last slot
    final,      \* last slot on disk
    view,       \* slot -> next, provable slot, oldest slot, and infos in the ledger
    next,       \* next_height_to_receive, shared by the runner and the manager
    sendNext,   \* next_height_to_send
    target,     \* height_to_notify of the loop that is running
    channel,    \* announced slots
    manager,    \* "idle", "submit", "aggregate", "publish", "advance" or "dead"
    batch,      \* infos of the proof that is made
    status,     \* info -> state of its block proof
    posted,     \* history: slots whose block, of the node's chain, has a published proof
    replaced,   \* history: slots that got another block after the manager had read them
    reorgs, crashes, failures, \* how much of the bounds has been used
    panicked    \* history: assertions of the code that failed

ledger == <<head, final, view>>
sender == <<next, sendNext, target, channel>>
proving == <<manager, batch, status, posted>>
bounds == <<mode, reorgs, crashes, failures>>
vars == <<pc, ledger, sender, proving, replaced, bounds, panicked>>

Slots == 1..MaxSlot

Init ==
    /\ mode \in {"zk", "optimistic"} /\ pc = "down"
    /\ head = 0 /\ final = 0
    /\ view = [s \in {0} |-> [next |-> 1, provable |-> 0, oldest |-> 1, infos |-> {}]]
    /\ next = 1 /\ sendNext = 1 /\ target = 0 /\ channel = <<>>
    /\ manager = "idle" /\ batch = <<>> /\ posted = {} /\ replaced = {}
    /\ status = [s \in Slots |-> "none"]
    /\ reorgs = 0 /\ crashes = 0 /\ failures = 0 /\ panicked = {}

Smaller(a, b) == IF a < b THEN a ELSE b
Larger(a, b) == IF a > b THEN a ELSE b

Up == pc \notin {"down", "broken"}
-----------------------------------------------------------------------------
\* startup_notify_about_infos_from_db: "Too many STF infos in the db".
StartupFits(write, received) == received <= write /\ write - received <= MaxInfos

\* Plausible bug: the stored slot is taken as the last one that was received.
SkipFirst(received) == received + 1

\* next_height_to_send of a new channel.
FirstToSend(received) == received

\* new_stf_info_channel, and the start of the state manager.  The slots that are not on disk
\* may have got other blocks while the node was down.
Restart ==
    /\ pc = "down"
    /\ head' = final /\ view' = Restrict(view, {final})
    /\ next' = view[final].next /\ sendNext' = FirstToSend(view[final].next)
    /\ channel' = <<>>
    /\ target' = Smaller(view[final].provable, final)
    /\ pc' = IF final = 0 \/ StartupFits(final, view[final].next) THEN "notify" ELSE "broken"
    /\ manager' = "idle" /\ batch' = <<>> /\ status' = [s \in Slots |-> "none"]
    /\ reorgs' \in IF final < head THEN reorgs..MaxReorgs ELSE {reorgs}
    /\ posted' = IF reorgs' = reorgs THEN posted ELSE posted \cap (1..final)
    /\ replaced' = replaced \cap (1..(next' - 1))
    /\ UNCHANGED <<final, mode, crashes, failures, panicked>>

\* The loop of notify: a full channel stops the runner.
Notify ==
    /\ pc = "notify" /\ sendNext <= target
    /\ Len(channel) < Channel /\ manager # "dead"
    /\ channel' = Append(channel, sendNext)
    /\ sendNext' = sendNext + 1
    /\ UNCHANGED <<pc, ledger, next, target, proving, replaced, bounds, panicked>>

\* Plausible bug: the runner does not wait for space in the channel (try_send).
EndNotifyFull ==
    /\ pc = "notify" /\ (sendNext > target \/ Len(channel) = Channel)
    /\ pc' = "idle"
    /\ UNCHANGED <<ledger, sender, proving, replaced, bounds, panicked>>

EndNotify ==
    /\ pc = "notify" /\ sendNext > target
    /\ pc' = "idle"
    /\ UNCHANGED <<ledger, sender, proving, replaced, bounds, panicked>>

\* A slot is executed after slot k.  When that is not the head, the chain has been
\* re-organised and the ledger shows the fork from then on.
Execute(k) ==
    /\ pc = "idle" /\ k < MaxSlot
    /\ reorgs' = IF k < head THEN reorgs + 1 ELSE reorgs
    /\ reorgs' <= MaxReorgs
    /\ head' = k /\ view' = Restrict(view, final..k)
    /\ posted' = IF k < head THEN posted \cap (1..k) ELSE posted
    /\ replaced' = replaced \cup ((k + 1)..(next + Len(batch) - 1))
    /\ pc' = "execute"
    /\ UNCHANGED <<final, sender, manager, batch, status, mode, crashes, failures, panicked>>

\* Plausible bug: what was announced is deleted.
PrunedAnnounced(slot) == {i \in view[head].oldest..slot : i < sendNext}

\* prune_entries: what it deletes, with the break at the first slot that was not received,
\* and the new oldest slot.
Pruned(slot) == {i \in view[head].oldest..(slot - MaxInfos - 1) : i < next}
Oldest(slot) == Larger(view[head].oldest, slot - MaxInfos)

\* max_provable_slot_number: one before the visible slot of the state after `slot`.
Provable(slot) == {p \in view[head].provable..(slot - 1) : p >= slot - Lag}

\* Plausible bug: the slot that is executed next is announced with the others.
AnnounceAhead(provable, write) == write + 1

\* The height up to which notify announces.
HeightToNotify(provable, write) == Smaller(provable, write)

StfInfoBatch(slot, provable) ==
    [next |-> next, provable |-> provable, oldest |-> Oldest(slot),
     infos |-> (view[head].infos \ Pruned(slot)) \cup {slot}]

\* materialize_stf_info, save_change_set, finalize, and the start of notify.
Materialize(provable, finalized) ==
    LET slot == head + 1 IN
    /\ pc = "execute"
    /\ IF next <= slot
       THEN /\ head' = slot /\ final' = finalized
            /\ view' = [s \in finalized..slot |->
                            IF s = slot THEN StfInfoBatch(slot, provable) ELSE view[s]]
            /\ target' = HeightToNotify(provable, slot)
            /\ pc' = "notify" /\ UNCHANGED panicked
       ELSE /\ pc' = "down" /\ panicked' = panicked \cup {"write is smaller than next"}
            /\ UNCHANGED <<ledger, target>>
    /\ UNCHANGED <<next, sendNext, channel, proving, replaced, bounds>>
-----------------------------------------------------------------------------
\* read_next and the part of process_stf_info before the first await.
ReadNext ==
    LET slot == Head(channel) IN
    /\ Up /\ manager = "idle" /\ channel # <<>>
    /\ channel' = Tail(channel)
    /\ IF slot < next THEN UNCHANGED <<manager, batch, panicked>>
       ELSE IF slot \notin view[head].infos
       THEN /\ manager' = "dead" /\ panicked' = panicked \cup {"missing from ledger"}
            /\ UNCHANGED batch
       ELSE /\ batch' = IF next + Len(batch) <= slot THEN Append(batch, slot) ELSE batch
            /\ manager' = IF mode = "zk" THEN "submit" ELSE "publish"
            /\ UNCHANGED panicked
    /\ UNCHANGED <<pc, ledger, next, sendNext, target, status, posted, replaced, bounds>>

Pending == {s \in Slots : status[s] = "proving"}

\* prove_any_unproven_blocks and start_proving: only the info that was read last waits, and
\* a busy prover is asked again and again.
Submit ==
    /\ Up /\ manager = "submit"
    /\ Cardinality(Pending) < Threads
    /\ status' = [status EXCEPT ![batch[Len(batch)]] = "proving"]
    /\ manager' = IF Len(batch) >= Jump THEN "aggregate" ELSE "idle"
    /\ UNCHANGED <<pc, ledger, sender, batch, posted, replaced, bounds, panicked>>

\* A thread of the prover is done.
Prove(slot) ==
    /\ Up /\ status[slot] = "proving"
    /\ \/ /\ status' = [status EXCEPT ![slot] = "proved"]
          /\ UNCHANGED failures
       \/ /\ failures < MaxFailures /\ failures' = failures + 1
          /\ status' = [status EXCEPT ![slot] = "failed"]
    /\ UNCHANGED <<pc, ledger, sender, manager, batch, posted, replaced, mode, reorgs, crashes,
                   panicked>>

\* create_aggregated_proof; it is asked again while a block proof is in progress.
Aggregate ==
    /\ Up /\ manager = "aggregate"
    /\ \A i \in Range(batch) : status[i] = "proved"
    /\ status' = [s \in Slots |-> IF s \in Range(batch) THEN "none" ELSE status[s]]
    /\ manager' = "publish"
    /\ UNCHANGED <<pc, ledger, sender, batch, posted, replaced, bounds, panicked>>

\* The first block proof that is not there yet has failed.
FirstFailed ==
    \E n \in DOMAIN batch :
        status[batch[n]] = "failed" /\ \A m \in 1..(n - 1) : status[batch[m]] = "proved"

\* Plausible bug: the retries have no limit.
RetryForEver == Up /\ manager = "aggregate" /\ FirstFailed /\ UNCHANGED vars

\* A failed block proof stays failed, so the retries end with an error.
GiveUp ==
    /\ Up /\ manager = "aggregate" /\ FirstFailed
    /\ manager' = "dead"
    /\ UNCHANGED <<pc, ledger, sender, batch, status, posted, replaced, bounds, panicked>>

\* The aggregation, a bonding proof or the publication fails for good.
Fail ==
    /\ Up /\ manager \in {"aggregate", "publish"} /\ failures < MaxFailures
    /\ failures' = failures + 1
    /\ manager' = "dead"
    /\ UNCHANGED <<pc, ledger, sender, batch, status, posted, replaced, mode, reorgs, crashes,
                   panicked>>

\* publish_proof_blob_with_metadata or publish_attestation_blob_with_metadata.
Publish ==
    /\ Up /\ manager = "publish"
    /\ posted' = posted \cup (Range(batch) \ replaced)
    /\ manager' = "advance"
    /\ UNCHANGED <<pc, ledger, sender, batch, status, replaced, bounds, panicked>>

\* Plausible bug: the counter is advanced before the proof is published.
AdvanceFirst ==
    /\ Up /\ manager \in {"publish", "advance"}
    /\ next' = next + Len(batch)
    /\ batch' = <<>> /\ manager' = "idle"
    /\ UNCHANGED <<pc, ledger, sendNext, target, channel, status, posted, replaced, bounds,
                   panicked>>

\* inc_next_height_to_receive_by.
Advance ==
    /\ Up /\ manager = "advance"
    /\ next' = next + Len(batch)
    /\ batch' = <<>> /\ manager' = "idle"
    /\ UNCHANGED <<pc, ledger, sendNext, target, channel, status, posted, replaced, bounds,
                   panicked>>
-----------------------------------------------------------------------------
\* The task monitor shuts the node down when the manager has ended.
Shutdown ==
    /\ Up /\ manager = "dead"
    /\ pc' = "down"
    /\ UNCHANGED <<ledger, sender, proving, replaced, bounds, panicked>>

Crash ==
    /\ Up /\ crashes < MaxCrashes
    /\ crashes' = crashes + 1
    /\ pc' = "down"
    /\ UNCHANGED <<ledger, sender, proving, replaced, mode, reorgs, failures, panicked>>

Slot ==
    \/ \E k \in final..head : Execute(k)
    \/ \E p \in Provable(head + 1), f \in final..(head + 1) : Materialize(p, f)

Node ==
    \/ Restart \/ Notify \/ EndNotify \/ Slot \/ Shutdown
    \/ ReadNext \/ Submit \/ Aggregate \/ GiveUp \/ Publish \/ Advance
    \/ \E s \in Slots : Prove(s)

Next == Node \/ Fail \/ Crash

Spec == Init /\ [][Next]_vars

\* The tasks of the node go on, and a node that went down is started again.
FairSpec == Spec /\ WF_vars(Node)
-----------------------------------------------------------------------------
\* "Too many STF infos in the db": this assertion of the start cannot fail when the database
\* may hold as many infos as can be in the channel, in the proof that is made and in the
\* slots that are not yet visible.  If it failed, it would fail at every start.
NeverBroken == MaxInfos >= Channel + Jump + Lag => pc # "broken"

\* The info of a slot that has no proof yet is not pruned, in the ledger after any slot that
\* the node may go back to.
UnprovenIsKept == \A s \in final..head : view[s].next..s \subseteq view[s].infos

\* The slots of an aggregated proof are consecutive and continue the last one, after any
\* crash, failure or re-organisation.  Its blocks are those of the node's chain, unless a
\* re-organisation replaced a block that the manager had read: such a block stays in the
\* proof, next to blocks of the new fork.
BatchContinues ==
    \A n \in DOMAIN batch :
        batch[n] = next + n - 1 /\ (batch[n] <= head \/ batch[n] \in replaced)

\* The counter, in memory and on disk, is not ahead of the published proofs: below it, every
\* block of the node's chain has its proof, but for the blocks that replaced one which the
\* manager had read.  A proof may be published twice.
NothingLeftOut ==
    /\ 1..(next - 1) \subseteq posted \cup replaced
    /\ \A s \in final..head : 1..(view[s].next - 1) \subseteq posted \cup replaced

\* Without re-organisations the write height is never behind the counter, and every
\* announced slot is found in the ledger.
PanicsOnlyOnReorgs == panicked # {} => reorgs > 0

\* Every block of the node's chain gets its proof, but the last ones, for which Jump slots
\* are not there yet, and those that replaced a block which the manager had read:
\* next_height_to_send is not lowered, so they are not announced again.  The node and the
\* manager do not wait for each other for ever.
Proven ==
    <>[](1..(((MaxSlot - Lag) \div Jump) * Jump) \subseteq posted \cup replaced)
=============================================================================
