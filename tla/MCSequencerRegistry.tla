------------------------ MODULE MCSequencerRegistry -------------------------
(* TLC instances of SequencerRegistry. *)
EXTENDS SequencerRegistry, TLC

\* Nothing tells the sequencers apart but the state.
Symmetry == Permutations(Sequencers)
=============================================================================
