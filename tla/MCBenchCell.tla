---------------------------- MODULE MCBenchCell ----------------------------
(* Three samples, one of them much longer than the others, on two groups. *)
EXTENDS BenchChildren

MCWeights == <<5, 1, 1>>
=============================================================================
