--------------------------- MODULE BenchChildren ---------------------------
(***************************************************************************)
(* BenchCell takes a child that it gives up, and all that child has        *)
(* started, from the GPU in one step; ServedChild looks inside that step.  *)
(* A behaviour is one of a cell or one of a single child that has a        *)
(* server.                                                                 *)
(***************************************************************************)
EXTENDS BenchCell, ServedChild

VARIABLE subject    \* "cell" or "child"

allVars == <<subject, vars, servedVars>>

ChildrenInit ==
    /\ subject \in {"cell", "child"}
    /\ Init /\ ServedInit
    /\ subject = "cell" => phasesLeft = 1
    /\ subject = "child" => mode = CHOOSE m \in Modes : TRUE

CellStep(A) == subject = "cell" /\ A /\ UNCHANGED <<subject, servedVars>>

ChildrenNext ==
    \/ CellStep(Next)
    \/ subject = "child" /\ ServedNext /\ UNCHANGED <<subject, vars>>

\* The orchestrator goes on and the clock runs; a child may hang for ever.
ChildrenSpec ==
    /\ ChildrenInit /\ [][ChildrenNext]_allVars
    /\ WF_allVars(CellStep(Orchestrate)) /\ WF_allVars(CellStep(Deadline))

\* A cell comes to its end although children hang, crash and find no room.
Finishes == subject = "cell" ~> phase = "done"
=============================================================================
