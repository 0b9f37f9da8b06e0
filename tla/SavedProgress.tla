--------------------------- MODULE SavedProgress ---------------------------
(***************************************************************************)
(* What a training run promises to whoever starts it again: the step it    *)
(* can be resumed from goes through the save points one after the other,   *)
(* is never taken back, and reaches the last one.                          *)
(***************************************************************************)
EXTENDS Naturals

CONSTANT Points    \* the steps a run saves

VARIABLE saved     \* the step a run can be resumed from; 0 is the beginning

Init == saved = 0

Advance ==
    \E p \in Points :
        /\ p > saved
        /\ \A q \in Points : q > saved => q >= p
        /\ saved' = p

Spec == Init /\ [][Advance]_saved /\ WF_saved(Advance)
=============================================================================
