--------------------------- MODULE MCStateManager ---------------------------
(* TLC instances of StateManager. *)
EXTENDS StateManager
=============================================================================
