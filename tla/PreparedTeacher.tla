-------------------------- MODULE PreparedTeacher --------------------------
(***************************************************************************)
(* A corpus is prepared, and then a teacher file is written of its         *)
(* training split.  TeacherShards takes the records it reads for given,    *)
(* with distinct ids: here they are those of the split on disk.            *)
(***************************************************************************)
EXTENDS TeacherShards, PrepareDataset

preparedVars == <<vars, prepareVars>>

PreparedInit == Init /\ PrepareInit

\* No stage has run yet on the split.
Untouched == faults = 0 /\ disk = <<[n \in Names |-> None], [n \in Names |-> None]>>
                 /\ \A r \in Ranks : pc[r] = "exit"

\* The launcher takes any two splits it finds, those of a killed preparation
\* too, and does not look at their manifest.
Generating ==
    /\ Idle
    /\ \A n \in SplitNames : split[n] # NoFile
    /\ Len(split.train) = N

PreparedNext ==
    \/ Untouched /\ PrepareNext /\ UNCHANGED vars
    \/ Generating /\ Next /\ UNCHANGED prepareVars

PreparedSpec == PreparedInit /\ [][PreparedNext]_preparedVars
=============================================================================
