---------------------------- MODULE AtomicCommit ----------------------------
(***************************************************************************)
(* What a node expects of its group of databases: a block is committed to  *)
(* all of them or to none, committed blocks are never lost or skipped, and *)
(* a group that is open shows the last committed block.                    *)
(***************************************************************************)
EXTENDS Integers

VARIABLES
    committed,  \* the last committed block, Empty before genesis
    view        \* the block an open group shows, or Closed

Empty == -1
Closed == -2

Init == committed = Empty /\ view = Closed

Open == view' = committed /\ UNCHANGED committed

Commit ==
    /\ view = committed
    /\ committed' = committed + 1
    /\ view' = committed'

Close == view' = Closed /\ UNCHANGED committed

Spec == Init /\ [][Open \/ Commit \/ Close]_<<committed, view>>
=============================================================================
