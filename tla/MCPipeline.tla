----------------------------- MODULE MCPipeline -----------------------------
(***************************************************************************)
(* Command lines for the runs of Pipeline.                                 *)
(***************************************************************************)
EXTENDS Pipeline

CONSTANTS l1, l2, i1, i2

Base == [input |-> i1, filter |-> FALSE, warnOnly |-> FALSE, dryRun |-> FALSE,
         servers |-> FALSE, stages |-> Stages]

\* The command of the README: validation filters anomalies.
FilterArgs == {[Base EXCEPT !.filter = TRUE]}

\* The same with managed servers.
ServerArgs == {[Base EXCEPT !.filter = TRUE, !.servers = TRUE]}

\* Without --filter-anomalies.
GateArgs == {Base}

\* Two inputs, a dry run, and a run that leaves the training out and only warns.
JobArgs ==
    {[Base EXCEPT !.filter = TRUE, !.input = i] : i \in {i1, i2}}
        \cup {[Base EXCEPT !.dryRun = TRUE],
              [Base EXCEPT !.warnOnly = TRUE, !.input = i2, !.stages = Stages \ {"train"}]}

\* The same command on another input.
TwoInputs == {[Base EXCEPT !.input = i, !.filter = TRUE] : i \in {i1, i2}}
=============================================================================
