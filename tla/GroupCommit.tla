---------------------------- MODULE GroupCommit -----------------------------
(***************************************************************************)
(* The databases of a node (sov-db, storage_manager/nomt_based/groups.rs): *)
(* a finalized block is written to six of them one after the other, the    *)
(* live database last.  A node that opens them after a crash takes the     *)
(* live database as the truth and rolls each of the others back by one     *)
(* block when its root differs.                                            *)
(*                                                                         *)
(* What a database holds is the number of its last block.  Its root is     *)
(* that number too, except in the user database: a block may leave the     *)
(* user state, and so its root, as it was, or bring an earlier one back.   *)
(* The kernel state holds the slot number, so every block changes it.      *)
(***************************************************************************)
EXTENDS Integers

CONSTANTS
    MaxBlock,   \* bound: the last block, counted from genesis, which is block 0
    MaxCrashes, \* bound: crashes of the node
    UserRoot    \* block -> root of the user state after it

Empty == -1     \* a database nothing was committed to
Versions == Empty..MaxBlock

ASSUME BoundsAssumption ==
    /\ MaxBlock \in Nat /\ MaxCrashes \in Nat
    /\ DOMAIN UserRoot = Versions

VARIABLES
    db,         \* database -> last block in it
    undo,       \* NOMT's rollback log, of length one: what rollback(1) returns to
    block,      \* the block that is committed
    pc,         \* "down", "recover", "open", "commit" or "bailed"
    step,       \* position of the next database to commit, or to roll back
    crashes,    \* how much of the bound has been used
    failed      \* history: an assertion or an error of the recovery

vars == <<db, undo, block, pc, step, crashes, failed>>

Nomt == {"kernel", "user"}
Stores == Nomt \cup {"ledger", "accessory", "archival", "live"}
NoUndo == -2

\* The order in which DbGroup::commit writes the databases.  The recovery treats the
\* first five in the same order.
Position ==
    [kernel |-> 1, user |-> 2, ledger |-> 3, accessory |-> 4, archival |-> 5, live |-> 6]

\* The databases are created empty.
Init ==
    /\ db = [s \in Stores |-> Empty]
    /\ undo = [s \in Nomt |-> NoUndo]
    /\ block = 0 /\ pc = "down" /\ step = 1
    /\ crashes = 0 /\ failed = FALSE

Root(s, v) == IF s = "user" THEN UserRoot[v] ELSE v

\* is_kernel_nomt_root_newer and its siblings.  The roots are read before the first
\* rollback; a rollback changes no other database, so reading them later is the same.
IsNewer(s) == Root(s, db[s]) # Root(s, db["live"])
-----------------------------------------------------------------------------
\* DbGroup::commit.  The node continues after the head slot of its ledger.
BeginCommit ==
    /\ pc = "open" /\ db["ledger"] < MaxBlock
    /\ block' = db["ledger"] + 1
    /\ pc' = "commit" /\ step' = 1
    /\ UNCHANGED <<db, undo, crashes, failed>>

\* Plausible bug: a NOMT database is opened without opts.rollback(true).
CommitUnlogged(s) ==
    /\ db' = [db EXCEPT ![s] = block]
    /\ UNCHANGED undo

\* NomtStateDb::commit: a NOMT database keeps what it held in its log.
CommitNomt(s) ==
    /\ db' = [db EXCEPT ![s] = block]
    /\ undo' = [undo EXCEPT ![s] = db[s]]

\* The batch of the ledger or of the accessory database, with the root of the block.
CommitTables(s) ==
    /\ db' = [db EXCEPT ![s] = block]
    /\ UNCHANGED undo

\* FlatStateDb::commit counts the versions itself, from the live database.
CommitFlat(s) ==
    /\ db' = [db EXCEPT ![s] = db["live"] + 1]
    /\ UNCHANGED undo

CommitStore(s) ==
    /\ pc = "commit" /\ Position[s] = step
    /\ \/ s \in Nomt /\ CommitNomt(s)
       \/ s \in {"ledger", "accessory"} /\ CommitTables(s)
       \/ s \in {"archival", "live"} /\ CommitFlat(s)
    /\ step' = step + 1
    /\ pc' = IF step = 6 THEN "open" ELSE "commit"
    /\ UNCHANGED <<block, crashes, failed>>

Crash ==
    /\ pc \in {"recover", "open", "commit"}
    /\ crashes < MaxCrashes
    /\ crashes' = crashes + 1
    /\ pc' = "down"
    /\ UNCHANGED <<db, undo, block, step, failed>>
-----------------------------------------------------------------------------
\* No live root although NOMT is not empty: genesis was not committed to the end.
FirstCommitTorn ==
    db["live"] = Empty /\ (db["kernel"] # Empty \/ UserRoot[db["user"]] # UserRoot[Empty])

\* Plausible bug: the databases are used as they are.
OpenUnchecked ==
    /\ pc = "down"
    /\ pc' = IF FirstCommitTorn THEN "bailed" ELSE "open"
    /\ step' = 1
    /\ UNCHANGED <<db, undo, block, crashes, failed>>

\* DbGroup::new, up to the comparison of the roots.
Open ==
    /\ pc = "down"
    /\ pc' = IF FirstCommitTorn THEN "bailed" ELSE "recover"
    /\ step' = 1
    /\ UNCHANGED <<db, undo, block, crashes, failed>>

\* NOMT needs an entry in its log, validate_and_rollback_archival asserts that the
\* archival database is one ahead of a live one that is not empty.
CanRollBack(s) ==
    /\ s \in Nomt => undo[s] # NoUndo
    /\ s = "archival" => db["live"] # Empty /\ db["archival"] = db["live"] + 1

Before(v) == IF v = Empty THEN Empty ELSE v - 1

\* Plausible bug: the head slot stays.
KeepHeadSlot == db["ledger"]

\* LedgerDb::rollback_head_slot deletes the last slot with its batches, transactions, events
\* and discarded blobs, and moves the finalized slot back.  The STF infos and the metadata of
\* the slot stay; nothing here depends on them.
DeleteHeadSlot == Before(db["ledger"])

\* AccessoryDb::rollback deletes the keys of the last version and its root.
DeleteVersion == Before(db["accessory"])

\* rollback_archival deletes the keys of the last version and its root.
DeleteArchivalVersion == Before(db["archival"])

RolledBack(s) ==
    IF s \in Nomt THEN undo[s]
    ELSE IF s = "ledger" THEN DeleteHeadSlot
    ELSE IF s = "accessory" THEN DeleteVersion
    ELSE DeleteArchivalVersion

RollBack(s) ==
    /\ pc = "recover" /\ Position[s] = step /\ s # "live"
    /\ step' = step + 1
    /\ IF ~IsNewer(s)
       THEN UNCHANGED <<db, undo, pc, failed>>
       ELSE IF CanRollBack(s)
       THEN /\ db' = [db EXCEPT ![s] = RolledBack(s)]
            /\ undo' = [n \in Nomt |-> IF n = s THEN NoUndo ELSE undo[n]]
            /\ UNCHANGED <<pc, failed>>
       ELSE pc' = "down" /\ failed' = TRUE /\ UNCHANGED <<db, undo>>
    /\ UNCHANGED <<block, crashes>>

\* The roots are read again; check_all panics when one differs.
CheckAll ==
    /\ pc = "recover" /\ step = 6
    /\ pc' = IF \E s \in Stores : IsNewer(s) THEN "down" ELSE "open"
    /\ failed' = (failed \/ \E s \in Stores : IsNewer(s))
    /\ UNCHANGED <<db, undo, block, step, crashes>>

\* Plausible misreading of the message: the state databases are kept.
DeleteButState ==
    /\ pc = "bailed"
    /\ db' = [s \in Stores |-> IF s \in Nomt THEN db[s] ELSE Empty]
    /\ pc' = "down"
    /\ UNCHANGED <<undo, block, step, crashes, failed>>

\* "Delete the rollup databases and start again."
DeleteDatabases ==
    /\ pc = "bailed"
    /\ db' = [s \in Stores |-> Empty]
    /\ undo' = [s \in Nomt |-> NoUndo]
    /\ pc' = "down"
    /\ UNCHANGED <<block, step, crashes, failed>>

Recovery == Open \/ CheckAll \/ DeleteDatabases \/ \E s \in Stores : RollBack(s)

Next == BeginCommit \/ Crash \/ Recovery \/ \E s \in Stores : CommitStore(s)

Spec == Init /\ [][Next]_vars

\* A node that went down is started again and its start goes on.
FairSpec == Spec /\ WF_vars(Recovery)
-----------------------------------------------------------------------------
\* What the recovery relies on, at every point of a commit and of a recovery that a
\* crash interrupts: a database is at the block of the live one or one ahead of it, and
\* NOMT can undo the difference with the one entry of its log.
Recoverable ==
    \A s \in Stores :
        /\ db[s] \in {db["live"], db["live"] + 1}
        /\ s \in Nomt /\ IsNewer(s) => undo[s] = db["live"]

\* The assertions of the recovery and check_all never fail, and no rollback lacks what it
\* needs.
RecoveryFits == ~failed

Torn == -3

\* What a node reads from its databases: nothing while they are recovered; while a block is
\* committed, the block before it.
View ==
    IF pc \notin {"open", "commit"} THEN -2
    ELSE IF pc = "open" /\ \E s \in Stores : IsNewer(s) THEN Torn
    ELSE db["live"]

Group == INSTANCE AtomicCommit WITH committed <- db["live"], view <- View

\* The group commits atomically: the write of the live database is the commit, an open
\* group shows the same block in all databases, and "it is safe to delete all the
\* databases" whenever the start asks for it.
ImplementsAtomicCommit == Group!Spec

\* Whatever a crash has left, the databases can be opened again: no start fails for ever.
Recovers == pc = "down" ~> pc = "open"
=============================================================================
