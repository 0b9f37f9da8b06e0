---------------------------- MODULE MCFeatureStore ----------------------------
(* FeatureStore with captures of one or two inputs of one or three examples. *)
EXTENDS FeatureStore

CONSTANTS j1, j2, c1, c2

Three == [j \in Jobs |-> 3]
ThreeOne == [j \in Jobs |-> IF j = j1 THEN 3 ELSE 1]
OneContract == [j \in Jobs |-> c1]
TwoContracts == [j \in Jobs |-> IF j = j1 THEN c1 ELSE c2]

===============================================================================
