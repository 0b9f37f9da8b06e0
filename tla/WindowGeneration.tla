-------------------------- MODULE WindowGeneration --------------------------
(***************************************************************************)
(* The users of BatchSizing, WindowBatches, ServerPool and                 *)
(* SummaryRendering: a training job whose ranks agree on a size, a rank    *)
(* that generates a window of teacher rows with the model in its own       *)
(* process, one that has servers do it, and one record on its way through  *)
(* generation into training.  TeacherShards takes such a window in one     *)
(* step: its rows, or none of them.                                        *)
(***************************************************************************)
EXTENDS WindowBatches, ServerPool, SummaryRendering

VARIABLES
    user,     \* "train", "hf", "server" or "record"
    agreed    \* the size all ranks of a training job take; 0 before

searching == <<fits, searchVars>>
vars == <<user, agreed, searching, limit, windowVars, poolVars, renderVars>>

\* The record of a user whose records are all alike.
Unread == [document |-> << >>, joined |-> FALSE, budgeted |-> TRUE]

Init ==
    /\ user \in {"train", "hf", "server", "record"} /\ agreed = 0
    /\ SearchInit /\ WindowInit /\ PoolInit /\ RenderInit
    /\ user # "train" => \A r \in Ranks \ {0} : fits[r] = Sizes
    /\ user # "hf" => limit = Min(TokenLimits)
    /\ user \in {"server", "record"} => fits[0] = Sizes
    /\ user # "server" => up = Urls /\ bad = {}
    /\ user # "record" => record = Unread

\* tune_batch_size
Tune ==
    /\ user = "train" /\ \E r \in Ranks : Search(r)
    /\ UNCHANGED <<user, agreed, limit, windowVars, poolVars, renderVars>>

Agree ==
    /\ user = "train" /\ AllSelected /\ agreed = 0
    /\ agreed' = Agreement({best[r] : r \in Ranks})
    /\ UNCHANGED <<user, searching, limit, windowVars, poolVars, renderVars>>

\* flush_window of generate_teacher_jsonl
Generate ==
    /\ user = "hf"
    /\ \/ Search(0) /\ UNCHANGED windowVars
       \/ Flush /\ UNCHANGED searching
    /\ UNCHANGED <<user, agreed, limit, fits, poolVars, renderVars>>

\* flush_window of generate_teacher_jsonl_server
Request ==
    /\ user = "server" /\ Serve
    /\ UNCHANGED <<user, agreed, searching, limit, windowVars, renderVars>>

\* A record of a window, and of iter_summary_examples when features are
\* captured of the teacher file.
Prepare ==
    /\ user = "record" /\ Render
    /\ UNCHANGED <<user, agreed, searching, limit, windowVars, poolVars>>

Next == Tune \/ Agree \/ Generate \/ Request \/ Prepare

Spec == Init /\ [][Next]_vars

----------------------------------------------------------------------------
\* Every search ends with the largest size that fits its GPU; and the size the
\* ranks of a training job agree on fits every one of them, also those that
\* never probed it, and is the largest that does.
SizesFit ==
    /\ LargestFit
    /\ agreed # 0 /\ (\A r \in Ranks : Monotone(r)) =>
           agreed = Max({n \in Sizes : \A r \in Ranks : n \in fits[r]})
=============================================================================
