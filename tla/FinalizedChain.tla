--------------------------- MODULE FinalizedChain ---------------------------
(***************************************************************************)
(* What a node promises about its databases: they hold the blocks the DA   *)
(* layer has finalized, each executed once and on the state of its parent, *)
(* and they only grow, one block at a time.                                *)
(***************************************************************************)
EXTENDS Integers, Sequences

VARIABLES
    finalized,  \* the path to the last block the DA layer has finalized
    chain       \* the blocks on disk, in the order they were executed

Init == finalized = << >> /\ chain = << << >> >>

DaFinalizes ==
    /\ Len(finalized') = Len(finalized) + 1
    /\ SubSeq(finalized', 1, Len(finalized)) = finalized
    /\ UNCHANGED chain

Commit ==
    /\ Len(chain) <= Len(finalized)
    /\ chain' = Append(chain, SubSeq(finalized, 1, Len(chain)))
    /\ UNCHANGED finalized

Spec == Init /\ [][DaFinalizes \/ Commit]_<<finalized, chain>>
=============================================================================
