---------------------------- MODULE StateManager ----------------------------
(***************************************************************************)
(* The main loop of a node (sov-stf-runner): runner.rs asks the DA layer   *)
(* for the next block, state_manager/mod.rs decides whether it continues a *)
(* block that was executed, searches for the fork point when it does not,  *)
(* and finalizes executed blocks behind the DA layer.  The storage manager *)
(* keeps the state of every fork (StorageManager).                         *)
(*                                                                         *)
(* The DA layer is external: a head that may move to any fork above the    *)
(* last finalized block, and a finalized block that only moves up.  Every  *)
(* call to it is an action of its own, so it may change between any two.   *)
(* A failed assertion ends the process, which starts again from its disk.  *)
(***************************************************************************)
EXTENDS StorageManager

CONSTANTS
    MaxHeight,  \* bound: height of the DA chain
    MaxReorgs,  \* bound: re-organisations of the DA layer
    MaxCrashes  \* bound: crashes of the node

ASSUME BoundsAssumption ==
    MaxHeight \in Nat /\ MaxReorgs \in Nat /\ MaxCrashes \in Nat

VARIABLES
    head,       \* external: the head of the best DA fork
    abandoned,  \* external: the heads of forks that were the best one before
    finalized,  \* external: the last block the DA layer has finalized
    reorgs, crashes,    \* how much of each bound has been used
    pc,         \* where the loop of the runner is; "down" between two processes
    next,       \* next_da_height
    requested,  \* requested_height of fetch_block_reorg_aware
    block,      \* the block that was fetched
    syncHeight, \* last_finalized_height of the bulk fetcher, read at the start
    target,     \* target_da_height of the DaSyncState
    cached,     \* last_finalized of the cached finalized headers
    stateOn,    \* state_on_block: executed block -> its state root
    seenOn,     \* seen_on_height: height -> executed blocks
    lastFinalized, lastRoot,    \* last_processed_finalized_header, ..._state_root
    low, high, searchHead,      \* the variables of the binary search
    candidate, thisHead,        \* the answers to its two concurrent calls
    toFinalize, \* finalized_transitions that the storage has still to finalize
    reported,   \* latest finalized slot of the ledger's reader
    failures    \* history: the assertions that have failed

daVars     == <<head, abandoned, finalized, reorgs>>
fetchVars  == <<next, requested, block>>
managerVars == <<stateOn, seenOn, lastFinalized, lastRoot>>
searchVars == <<low, high, searchHead, candidate, thisHead>>
nodeVars   == <<pc, fetchVars, syncHeight, target, cached, managerVars, searchVars,
                toFinalize, reported>>
vars       == <<daVars, crashes, nodeVars, failures, storageVars>>

NotRead == <<-1>>   \* a call that has not answered: a path no block has
Heights == 1..MaxHeight
Seen    == DOMAIN stateOn

Init ==
    /\ InitStorage
    /\ head = Genesis /\ abandoned = {} /\ finalized = Genesis
    /\ reorgs = 0 /\ crashes = 0
    /\ pc = "fetch" /\ next = 1 /\ requested = 1 /\ block = Genesis
    /\ syncHeight = 0 /\ target = 0 /\ cached = Genesis
    /\ stateOn = << >> /\ seenOn = [h \in Heights |-> {}]
    /\ lastFinalized = Genesis /\ lastRoot = <<Genesis>>
    /\ low = 0 /\ high = 0 /\ searchHead = NotRead
    /\ candidate = NotRead /\ thisHead = NotRead
    /\ toFinalize = << >> /\ reported = 0
    /\ failures = {}

-----------------------------------------------------------------------------
(* The DA layer and the tasks that poll it.                                 *)

\* A block is a choice between forks: the number of re-organisations before it.
DaExtend ==
    /\ Height(head) < MaxHeight
    /\ head' = Append(head, reorgs)
    /\ UNCHANGED <<abandoned, finalized, reorgs, crashes, nodeVars, failures, storageVars>>

\* Another fork becomes the best one: new blocks on an ancestor of the head, or none, or
\* a fork that was the best one before.  It may be shorter than the old one.
Fork(n, length) == At(head, n) \o [i \in 1..length |-> reorgs + 1]

Forks ==
    LET fresh == {Fork(n, length) : n \in 0..(Height(head) - 1), length \in 0..MaxHeight}
    IN  {b \in fresh \cup abandoned : Leads(finalized, b) /\ Height(b) <= MaxHeight}

DaReorg ==
    /\ reorgs < MaxReorgs
    /\ reorgs' = reorgs + 1
    /\ head' \in Forks
    /\ abandoned' = abandoned \cup {head}
    /\ UNCHANGED <<finalized, crashes, nodeVars, failures, storageVars>>

DaFinalize ==
    /\ Height(finalized) < Height(head)
    /\ finalized' = At(head, Height(finalized) + 1)
    /\ UNCHANGED <<head, abandoned, reorgs, crashes, nodeVars, failures, storageVars>>

\* background_header_fetch_task.  The headers it caches are finalized, so a cached
\* header is the one the DA layer would return.
PollFinalized ==
    /\ pc # "down" /\ cached # finalized
    /\ cached' = finalized
    /\ UNCHANGED <<daVars, crashes, pc, fetchVars, syncHeight, target, managerVars,
                   searchVars, toFinalize, reported, failures, storageVars>>

\* spawn_sync_status_updater
UpdateTarget ==
    /\ pc # "down" /\ target # Height(head)
    /\ target' = Height(head)
    /\ UNCHANGED <<daVars, crashes, pc, fetchVars, syncHeight, cached, managerVars,
                   searchVars, toFinalize, reported, failures, storageVars>>

-----------------------------------------------------------------------------
(* runner.rs: process_next_slot.                                            *)

\* The loop goes round with a new height.
FetchAt(n) ==
    /\ pc' = "fetch"
    /\ next' = n /\ requested' = n /\ block' = Genesis
    /\ low' = 0 /\ high' = 0 /\ searchHead' = NotRead
    /\ candidate' = NotRead /\ thisHead' = NotRead

\* The process ends; only the disk is left.
Stop ==
    /\ pc' = "down"
    /\ next' = 0 /\ requested' = 0 /\ block' = Genesis
    /\ syncHeight' = 0 /\ target' = 0 /\ cached' = Genesis
    /\ stateOn' = << >> /\ seenOn' = [h \in Heights |-> {}]
    /\ lastFinalized' = Genesis /\ lastRoot' = << >>
    /\ low' = 0 /\ high' = 0 /\ searchHead' = NotRead
    /\ candidate' = NotRead /\ thisHead' = NotRead
    /\ toFinalize' = << >> /\ reported' = 0
    /\ chainForks' = {} /\ blocksToParent' = {} /\ snapshots' = << >>
    /\ UNCHANGED <<disk, diskFinalized>>

Fail(what) == failures' = failures \cup {what} /\ Stop

\* A block on the last finalized one is not recognised.
OnlyOnSeen(b) == b \notin Seen /\ Parent(b) \in Seen

\* is_continuation
IsContinuation(b) ==
    /\ Height(b) > Height(lastFinalized)
    /\ b \notin Seen
    /\ Parent(b) = lastFinalized \/ Parent(b) \in Seen

\* check_continuation up to its first await: the state of a continuation is created;
\* without executed blocks the fork point is known, otherwise it has to be searched.
CheckContinuation(b) ==
    \/ /\ IsContinuation(b)
       /\ CreateStateFor(b)
       /\ pc' = "execute" /\ block' = b
       /\ UNCHANGED <<next, requested, searchVars>>
    \/ /\ ~IsContinuation(b)
       /\ Seen = {}
       /\ FetchAt(Height(lastFinalized) + 1)
       /\ UNCHANGED storageVars
    \/ /\ ~IsContinuation(b)
       /\ Seen # {}
       /\ pc' = "head" /\ block' = b
       /\ UNCHANGED <<next, requested, searchVars, storageVars>>

\* A height that was final when the node started comes from the bulk fetcher, another
\* one from the best fork; the call waits until there is such a block.
FetchBlock ==
    LET n == IF next <= syncHeight THEN next ELSE requested
    IN  /\ pc = "fetch"
        /\ n <= Height(head)
        /\ CheckContinuation(At(head, n))
        /\ UNCHANGED <<daVars, crashes, syncHeight, target, cached, managerVars, toFinalize,
                       reported, failures>>

\* fetch_block_reorg_aware: the head is reported below the height that is waited for.
\* Each retry is at least two heights lower, so the limit of ten attempts is not
\* reached below height twenty.
RollBack ==
    /\ pc = "fetch" /\ next > syncHeight
    /\ target + 1 < requested
    /\ requested' = target
    /\ UNCHANGED <<daVars, crashes, pc, next, block, syncHeight, target, cached, managerVars,
                   searchVars, toFinalize, reported, failures, storageVars>>

-----------------------------------------------------------------------------
(* state_manager/mod.rs: the search for the fork point.                     *)

HighestSeen == Max({h \in Heights : seenOn[h] # {}})
EarliestSeen == Min({h \in Heights : seenOn[h] # {}})

\* choose_fork_point reads the head, try_find_candidate_in_current_chain takes the
\* heights between the last finalized block and what both chains have.
ReadHead ==
    LET l == Height(lastFinalized) + 1
        h == Min({HighestSeen, Height(head)}) + 1
    IN  /\ pc = "head"
        /\ IF Height(head) <= Height(lastFinalized)
           THEN /\ FetchAt(Height(lastFinalized) + 1)
                /\ UNCHANGED <<syncHeight, target, cached, managerVars, toFinalize, reported,
                               failures, storageVars>>
           ELSE IF l >= h
           THEN Fail("search")
           ELSE /\ pc' = "probe" /\ low' = l /\ high' = h /\ searchHead' = head
                /\ UNCHANGED <<fetchVars, candidate, thisHead, syncHeight, target, cached,
                               managerVars, toFinalize, reported, failures, storageVars>>
        /\ UNCHANGED <<daVars, crashes>>

Middle == low + (high - low) \div 2

\* The two calls of an iteration run concurrently; a header that does not exist yet
\* is waited for.
ProbeHeader ==
    /\ pc = "probe" /\ candidate = NotRead
    /\ Middle <= Height(head)
    /\ candidate' = At(head, Middle)
    /\ UNCHANGED <<daVars, crashes, pc, fetchVars, syncHeight, target, cached, managerVars,
                   low, high, searchHead, thisHead, toFinalize, reported, failures, storageVars>>

ProbeHead ==
    /\ pc = "probe" /\ thisHead = NotRead
    /\ thisHead' = head
    /\ UNCHANGED <<daVars, crashes, pc, fetchVars, syncHeight, target, cached, managerVars,
                   low, high, searchHead, candidate, toFinalize, reported, failures, storageVars>>

\* is_head_changed: neither the same head nor the next one.
HeadChanged == thisHead # searchHead /\ (thisHead = Genesis \/ Parent(thisHead) # searchHead)

IsForkPoint(b) == b \notin Seen /\ Parent(b) \in Seen

\* handle_exhausted_search
Exhausted(l, h) ==
    LET earliest == Height(lastFinalized) + 1
        anySeen == CHOOSE b \in seenOn[EarliestSeen] : TRUE
    IN  IF \/ h > HighestSeen + 1
           \/ l < earliest
           \/ l = earliest /\ Height(candidate) # earliest
           \/ l = earliest /\ Parent(anySeen) # Parent(candidate)
        THEN Fail("search")
        ELSE FetchAt(l) /\ UNCHANGED <<syncHeight, target, cached, managerVars, toFinalize,
                                       reported, failures, storageVars>>

\* One iteration of binary_search_for_fork_point, once both calls have answered.
Decide ==
    /\ pc = "probe" /\ candidate # NotRead /\ thisHead # NotRead
    /\ IF HeadChanged \/ IsForkPoint(candidate)
       THEN /\ FetchAt(IF ~HeadChanged THEN Height(candidate)
                       ELSE IF Height(thisHead) < Height(block) THEN Height(thisHead) + 1
                       ELSE Height(block))
            /\ UNCHANGED <<syncHeight, target, cached, managerVars, toFinalize, reported,
                           failures, storageVars>>
       ELSE LET l == IF candidate \in Seen THEN Middle + 1 ELSE low
                h == IF candidate \in Seen THEN high ELSE Middle - 1
            IN  IF l > h
                THEN Exhausted(l, h)
                ELSE /\ low' = l /\ high' = h /\ searchHead' = thisHead
                     /\ candidate' = NotRead /\ thisHead' = NotRead
                     /\ UNCHANGED <<pc, fetchVars, syncHeight, target, cached, managerVars,
                                    toFinalize, reported, failures, storageVars>>
    /\ UNCHANGED <<daVars, crashes>>

-----------------------------------------------------------------------------
(* state_manager/mod.rs: process_stf_changes.                               *)

\* get_pre_state_root_for_contiuation
PreStateRoot(b) == IF Parent(b) \in Seen THEN stateOn[Parent(b)] ELSE lastRoot

\* The block that was just executed is taken to be final.
ExecutedIsFinal(highest) == block

\* get_effective_finalized_header: not above what has been executed, not below what
\* has been finalized.
EffectiveFinalized(highest) ==
    IF Height(cached) > highest THEN At(head, highest)
    ELSE IF Height(cached) < Height(lastFinalized) THEN lastFinalized
    ELSE cached

\* Orphaned blocks are not pruned.
AllAbove(seen, f) == {b \in seen : Height(b) > Height(f)}

\* prune_orphaned_transitions and extract_finalized_transitions: what stays of the
\* executed blocks when f is finalized.
Survivors(seen, f) == {b \in seen : f # b /\ Leads(f, b)}

\* The executed blocks that become final, oldest first.
FinalizedTransitions(f) ==
    [i \in 1..(Height(f) - Height(lastFinalized)) |-> At(f, Height(lastFinalized) + i)]

\* The block has been executed on the state that was created for it.  It is recorded,
\* blocks behind the DA layer's finality become final, the change set is saved and
\* the readers of the node are moved to the new state.
ProcessStfChanges ==
    LET root == Append(StateUpTo(Parent(block)), block)
        seen == Seen \cup {block}
        highest == Max({Height(b) : b \in seen})
        f == EffectiveFinalized(highest)
        stay == Survivors(seen, f)
        roots == [b \in seen |-> IF b = block THEN root ELSE stateOn[b]]
        transitions == FinalizedTransitions(f)
        entry == IF transitions = << >> THEN NoEntry ELSE Height(f)
        sound == /\ Min({Height(b) : b \in seen}) = Height(lastFinalized) + 1
                 /\ \A i \in DOMAIN transitions : transitions[i] \in seen
                 /\ transitions # << >> => Parent(transitions[1]) = lastFinalized
                 /\ \A b \in stay : Parent(b) \in stay \cup {f}
                 /\ PreStateRoot(block) = StateUpTo(Parent(block))
                 /\ CanSave(block)
    IN  /\ pc = "execute"
        /\ IF f \notin seen \cup {lastFinalized}
           THEN Fail("effective finalized header")
           ELSE IF ~sound
           THEN Fail("process")
           ELSE /\ stateOn' = [b \in stay |-> roots[b]]
                /\ seenOn' = [h \in Heights |-> {b \in stay : Height(b) = h}]
                /\ lastFinalized' = f
                /\ lastRoot' = IF transitions = << >> THEN lastRoot ELSE roots[f]
                /\ SaveChangeSet(block, entry)
                /\ reported' = Min({Height(block), IF entry # NoEntry THEN entry
                                                   ELSE FinalizedUpTo(Parent(block))})
                /\ toFinalize' = transitions
                /\ pc' = "finalize"
                /\ UNCHANGED <<fetchVars, syncHeight, target, cached, searchVars, failures>>
        /\ UNCHANGED <<daVars, crashes>>

\* The storage finalizes the transitions one at a time, each written to disk.
FinalizeTransition ==
    /\ pc = "finalize" /\ toFinalize # << >>
    /\ IF CanFinalize(Head(toFinalize))
       THEN /\ Finalize(Head(toFinalize))
            /\ toFinalize' = Tail(toFinalize)
            /\ UNCHANGED <<pc, fetchVars, syncHeight, target, cached, managerVars, searchVars,
                           reported, failures>>
       ELSE Fail("finalize")
    /\ UNCHANGED <<daVars, crashes>>

\* update_synced with the height that was asked for, and the next height.
EndSlot ==
    /\ pc = "finalize" /\ toFinalize = << >>
    /\ target' = Max({target, next})
    /\ FetchAt(next + 1)
    /\ UNCHANGED <<daVars, crashes, syncHeight, cached, managerVars, toFinalize, reported,
                   failures, storageVars>>

-----------------------------------------------------------------------------
Crash ==
    /\ pc # "down"
    /\ crashes < MaxCrashes
    /\ crashes' = crashes + 1
    /\ Stop
    /\ UNCHANGED <<daVars, failures>>

\* StateTransitionRunner::new, StateManager::new: the last block on disk is taken to be
\* the DA layer's block at its height.
Restart ==
    /\ pc = "down"
    /\ OpenStorage
    /\ LET height == Len(disk) - 1 IN
        /\ lastFinalized' = At(head, height)
        /\ next' = height + 1 /\ requested' = height + 1
        /\ reported' = height
    /\ lastRoot' = disk
    /\ pc' = "fetch" /\ syncHeight' = Height(finalized) /\ cached' = finalized
    /\ target' = Height(head)
    /\ UNCHANGED <<daVars, crashes, block, stateOn, seenOn, searchVars, toFinalize, failures>>

Da == DaExtend \/ DaReorg \/ DaFinalize
Runner ==
    \/ FetchBlock \/ RollBack \/ ReadHead \/ ProbeHeader \/ ProbeHead \/ Decide
    \/ ProcessStfChanges \/ FinalizeTransition \/ EndSlot \/ Restart

Next == Da \/ PollFinalized \/ UpdateTarget \/ Runner \/ Crash

Spec == Init /\ [][Next]_vars

\* The loop of the runner and the task that polls the head are scheduled, a node that
\* stopped is started again; nothing is assumed of the DA layer.
FairSpec == Spec /\ WF_vars(Runner) /\ WF_vars(UpdateTarget)

-----------------------------------------------------------------------------
(* Properties                                                                *)

\* dbg_validate_internal_consistency and check_internal_consistency: between two slots
\* the maps of the state manager and of the storage manager describe one tree, every
\* branch of which starts at the last finalized block.
MapsAgree ==
    pc \in {"fetch", "head", "probe"} =>
        /\ Seen = UNION {seenOn[h] : h \in Heights}
        /\ Seen = DOMAIN snapshots /\ Seen = blocksToParent /\ Seen = chainForks
        /\ \A b \in Seen : Parent(b) \in Seen \cup {lastFinalized}
        /\ disk = lastRoot /\ disk[Len(disk)] = lastFinalized

\* The assertions of the state manager and the errors of the storage manager: none of
\* them can happen, whatever the DA layer does between two calls, except that the
\* finalized header is one the node has not executed.
AssertionsHold == failures \subseteq {"effective finalized header"}

Chain == INSTANCE FinalizedChain WITH finalized <- finalized, chain <- disk

\* What is on disk is the DA layer's finalized chain: each finalized block once, in
\* order, executed on the state of its parent, across forks, restarts and failures.
ImplementsChain == Chain!Spec

\* The node is waiting for a height the DA chain does not have.
Waiting ==
    \/ pc = "fetch" /\ requested > Height(head)
    \/ pc = "probe" /\ candidate = NotRead /\ Middle > Height(head)

\* The search and its retries come to an end: once the DA layer is quiet the node has
\* executed its head, or it waits for a height above the head.
Settles == <>[](head \in Seen \/ Leads(head, lastFinalized) \/ Waiting)
=============================================================================
