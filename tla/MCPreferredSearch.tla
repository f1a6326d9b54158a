------------------------- MODULE MCPreferredSearch --------------------------
(* TLC instances of PreferredSearch. *)
EXTENDS PreferredSearch
=============================================================================
