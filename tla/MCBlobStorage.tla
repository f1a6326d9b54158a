--------------------------- MODULE MCBlobStorage ----------------------------
(* TLC instances of BlobStorage. *)
EXTENDS BlobStorage

Shape(r, p, ok, l, n) ==
    [registered |-> r, proof |-> p, sound |-> ok, length |-> l, size |-> n]

small == Shape(TRUE, FALSE, TRUE, 1, 1)
large == Shape(TRUE, FALSE, TRUE, 2, 2)
growing == Shape(TRUE, FALSE, TRUE, 1, 2)
proof == Shape(TRUE, TRUE, TRUE, 1, 1)
unsound == Shape(TRUE, FALSE, FALSE, 1, 1)
newcomer == Shape(FALSE, FALSE, TRUE, 1, 1)
badNewcomer == Shape(FALSE, FALSE, FALSE, 1, 1)
largeNewcomer == Shape(FALSE, FALSE, TRUE, 2, 2)
newcomerProof == Shape(FALSE, TRUE, TRUE, 1, 1)

OneShape == {small}
SomeShapes == {growing, proof, newcomer}
AllShapes ==
    {small, large, growing, proof, unsound, newcomer, badNewcomer, largeNewcomer, newcomerProof}
=============================================================================
