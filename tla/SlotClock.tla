----------------------------- MODULE SlotClock ------------------------------
(***************************************************************************)
(* What the kernel promises about its two slot numbers.  Every DA block    *)
(* advances the true slot number by one.  The visible slot number, the one *)
(* transactions see, advances by any amount, never passes the true one and *)
(* stays less than DEFERRED_SLOTS_COUNT behind it; with                    *)
(* DEFERRED_SLOTS_COUNT = 0 it does not lag at all.                        *)
(***************************************************************************)
EXTENDS Integers

CONSTANT DEFERRED_SLOTS_COUNT

VARIABLES trueSlot, visible

Lag == IF DEFERRED_SLOTS_COUNT = 0 THEN 1 ELSE DEFERRED_SLOTS_COUNT

Init == trueSlot = 0 /\ visible = 0

Tick ==
    /\ trueSlot' = trueSlot + 1
    /\ visible' \in visible..trueSlot'
    /\ trueSlot' - visible' < Lag

Spec == Init /\ [][Tick]_<<trueSlot, visible>>
=============================================================================
