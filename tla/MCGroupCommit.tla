---------------------------- MODULE MCGroupCommit ----------------------------
(* TLC instances of GroupCommit. *)
EXTENDS GroupCommit

\* Block 1 leaves the user state as it was, block 3 brings an earlier one back.
SomeUserRoots == [v \in -1..4 |-> IF v = -1 THEN 0 ELSE IF v \in {2, 4} THEN 2 ELSE 1]
=============================================================================
