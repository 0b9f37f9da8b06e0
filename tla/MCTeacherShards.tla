--------------------------- MODULE MCTeacherShards ---------------------------
(* TeacherShards on four records.                                          *)
EXTENDS TeacherShards

\* One record that generation leaves empty.
FourRecords == [i \in 0 .. 3 |-> IF i = 1 THEN "empty" ELSE "row"]

===============================================================================
