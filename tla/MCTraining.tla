----------------------------- MODULE MCTraining -----------------------------
(***************************************************************************)
(* The runs of Training have no definitions of their own: five steps of    *)
(* two micro-batches, saved every second step, so that the last step is    *)
(* not a periodic one.                                                     *)
(***************************************************************************)
EXTENDS Training
=============================================================================
