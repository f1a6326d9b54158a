--------------------------- MODULE StorageManager ---------------------------
(***************************************************************************)
(* The storage manager of a node (sov-db, storage_manager/nomt_based): the *)
(* change sets of blocks that may still be re-organised away are snapshots *)
(* in memory, arranged by the DA forks; finalizing a block writes its      *)
(* change set to disk and drops the forks that lost.                       *)
(*                                                                         *)
(* A DA block is the path that leads to it: the labels of the blocks at    *)
(* each height.  Its parent is the path without the last label, so the     *)
(* hashes of the code become paths.  A state, and its root, is the         *)
(* sequence of the blocks executed to reach it.                            *)
(***************************************************************************)
EXTENDS Integers, Sequences, FiniteSets, FiniteSetsExt

VARIABLES
    chainForks,     \* chain_forks: the blocks listed as a child of their parent
    blocksToParent, \* the keys of blocks_to_parent
    snapshots,      \* rockbound_snapshots and nomt_snapshots: block -> ledger entry
    disk,           \* the blocks whose change sets are on disk, oldest first
    diskFinalized   \* the latest finalized slot in the ledger on disk

storageVars == <<chainForks, blocksToParent, snapshots, disk, diskFinalized>>

NoEntry == -1       \* a change set without an entry in the table FinalizedSlots

Genesis == << >>
Height(b) == Len(b)
At(b, n) == SubSeq(b, 1, n)         \* the ancestor of b, or b, at height n
Parent(b) == At(b, Len(b) - 1)
Leads(a, b) == Height(a) <= Height(b) /\ At(b, Height(a)) = a  \* a is b or an ancestor of b
Children(b) == {c \in chainForks : c # Genesis /\ Parent(c) = b}

InitStorage ==
    /\ chainForks = {} /\ blocksToParent = {}
    /\ snapshots = << >>
    /\ disk = <<Genesis>>
    /\ diskFinalized = 0

\* create_state_up_to: the snapshots from b back to the first block without one,
\* on top of the disk.
References(b) ==
    LET from == CHOOSE n \in 0..Height(b) :
                    /\ n = 0 \/ At(b, n) \notin DOMAIN snapshots
                    /\ \A m \in (n + 1)..Height(b) : At(b, m) \in DOMAIN snapshots
    IN  [i \in 1..(Height(b) - from) |-> At(b, from + i)]

StateUpTo(b) == disk \o References(b)

\* The latest finalized slot a reader of that state sees in the ledger.
FinalizedUpTo(b) ==
    LET entries == SelectSeq(References(b), LAMBDA c : snapshots[c] # NoEntry)
    IN  IF entries = << >> THEN diskFinalized ELSE snapshots[entries[Len(entries)]]

\* create_state_for: the block is registered as a child of its parent.
CreateStateFor(b) ==
    /\ blocksToParent' = blocksToParent \cup {b}
    /\ chainForks' = IF b \in blocksToParent THEN chainForks ELSE chainForks \cup {b}
    /\ UNCHANGED <<snapshots, disk, diskFinalized>>

\* The conditions under which save_change_set and finalize do not return an error.
CanSave(b) == Children(Parent(b)) # {} /\ b \notin DOMAIN snapshots
CanFinalize(b) == b \in DOMAIN snapshots

SaveChangeSet(b, entry) ==
    /\ snapshots' = [c \in DOMAIN snapshots \cup {b} |-> IF c = b THEN entry ELSE snapshots[c]]
    /\ UNCHANGED <<chainForks, blocksToParent, disk, diskFinalized>>

\* finalize: b and those ancestors that are still registered are written to disk,
\* oldest first; the siblings of each, with all that follows them, are dropped.
Segments(b) ==
    LET from == CHOOSE n \in 1..Height(b) :
                    /\ At(b, n - 1) \notin blocksToParent
                    /\ \A m \in n..(Height(b) - 1) : At(b, m) \in blocksToParent
    IN  [i \in 1..(Height(b) - from + 1) |-> At(b, from + i - 1)]

KeepLosers(kept) == {}  \* the forks that lost are left in the maps

Discarded(kept) ==
    LET siblings == {c \in chainForks : \E k \in kept : c # k /\ Parent(c) = Parent(k)}
    IN  {c \in chainForks : \E s \in siblings : Leads(s, c)}

Finalize(b) ==
    LET kept == Range(Segments(b))
        gone == kept \cup Discarded(kept)
        entries == SelectSeq(Segments(b), LAMBDA c : snapshots[c] # NoEntry)
    IN  /\ disk' = disk \o Segments(b)
        /\ diskFinalized' = IF entries = << >> THEN diskFinalized
                                               ELSE snapshots[entries[Len(entries)]]
        /\ snapshots' = [c \in DOMAIN snapshots \ gone |-> snapshots[c]]
        /\ blocksToParent' = blocksToParent \ gone
        /\ chainForks' = chainForks \ gone

\* NomtStorageManager::new after a restart: the forks are gone, and the finalized
\* slot of the ledger is set to its head slot (update_ledger_finalized_height).
OpenStorage ==
    /\ chainForks' = {} /\ blocksToParent' = {}
    /\ snapshots' = << >>
    /\ diskFinalized' = Len(disk) - 1
    /\ UNCHANGED disk
=============================================================================
