-------------------------- MODULE MCResumableBench --------------------------
(* Two methods on two samples. *)
EXTENDS ResumableBench
=============================================================================
