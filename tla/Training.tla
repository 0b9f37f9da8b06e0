------------------------------ MODULE Training ------------------------------
(***************************************************************************)
(* Finetuning/trainer.py with _run_training of run_train.py: the ranks of  *)
(* a training job, the collectives they meet in, and the checkpoints that  *)
(* rank 0 writes for all of them.  A job may die at any point; the next    *)
(* one resumes from the latest link, or begins anew without one.           *)
(*                                                                         *)
(* A step of the optimizer is its place in the count; gradients, losses    *)
(* and learning rates are left out.  The two reductions around it follow   *)
(* one another without a branch and are one collective here.  A rank       *)
(* leaves a collective together with the others, which nobody can see.     *)
(*                                                                         *)
(* An operator A_Change is action or operator A with a plausible mistake   *)
(* in it, to show that a property would notice; no action uses one.        *)
(***************************************************************************)
EXTENDS CheckpointStore

CONSTANTS
    World,          \* number of ranks
    Accum,          \* micro-batches of an optimizer step
    Batches,        \* micro-batches a rank's loader has over all epochs
    SaveInterval,   \* steps between periodic checkpoints
    EvalInterval,   \* steps between evaluations; 0 is none of them
    Overwrite,      \* a job may begin anew although there is a checkpoint
    MaxFaults       \* bound on the number of faults in a behaviour

\* validate_fixed_accumulation_plan and resolve_total_steps
ASSUME PlanAssumption ==
    /\ World \in Nat \ {0}
    /\ Accum \in Nat \ {0}
    /\ Batches \in Nat
    /\ TotalSteps <= Batches \div Accum
    /\ SaveInterval \in Nat \ {0}
    /\ EvalInterval \in Nat
    /\ Overwrite \in BOOLEAN
    /\ MaxFaults \in Nat

VARIABLES
    job,           \* number of the job that runs or ran last
    pc,            \* where a rank is
    global_step,   \* optimizer steps a rank counts
    fed,           \* micro-batches a rank has taken from its loader
    evaluated,     \* step of a rank's last evaluation; 0 is none
    ending,        \* a rank has left the training loop
    faults         \* faults so far

rankVars == <<global_step, fed, evaluated, ending>>
vars == <<storeVars, job, pc, rankVars, faults>>

Ranks == 0 .. World - 1
Saving == {"save", "link", "rotate"}
Collectives == {"reduce", "barrier", "evaluate"}
Ended == {"done", "dead"}

Goto(r, label) == pc' = [pc EXCEPT ![r] = label]

Init ==
    /\ StoreInit
    /\ job = 0
    /\ pc = [r \in Ranks |-> "dead"]
    /\ global_step = [r \in Ranks |-> 0]
    /\ fed = [r \in Ranks |-> 0]
    /\ evaluated = [r \in Ranks |-> 0]
    /\ ending = [r \in Ranks |-> FALSE]
    /\ faults = 0

(***************************************************************************)
(* A job starts.  Without Overwrite it resumes whenever the latest link    *)
(* exists, as an operator who wants to go on does.                         *)
(***************************************************************************)
Launch ==
    /\ \A r \in Ranks : pc[r] \in Ended
    /\ job < MaxLaunches
    /\ job' = job + 1
    /\ \/ link # None /\ pc' = [r \in Ranks |-> "resume"]
       \/ (link = None \/ Overwrite) /\ pc' = [r \in Ranks |-> "loop"]
    /\ global_step' = [r \in Ranks |-> 0]
    /\ fed' = [r \in Ranks |-> 0]
    /\ evaluated' = [r \in Ranks |-> 0]
    /\ ending' = [r \in Ranks |-> FALSE]
    /\ UNCHANGED <<storeVars, faults>>


\* resolve_resume_dir and load: every rank reads the checkpoint itself.
Resume(r) ==
    /\ pc[r] = "resume"
    /\ IF LatestDir # None /\ Whole(LatestDir)
       THEN Goto(r, "loop") /\ global_step' = [global_step EXCEPT ![r] = LatestDir]
       ELSE Goto(r, "dead") /\ UNCHANGED global_step
    /\ UNCHANGED <<storeVars, job, fed, evaluated, ending, faults>>

\* One turn of the loop over epochs and batches; a full window goes on to the
\* optimizer step.  The window of a resumed job begins with its first batch.
TrainBatch(r) ==
    /\ pc[r] = "loop"
    /\ global_step[r] < TotalSteps /\ fed[r] < Batches
    /\ fed' = [fed EXCEPT ![r] = @ + 1]
    /\ Goto(r, IF (fed[r] + 1) % Accum = 0 THEN "reduce" ELSE "loop")
    /\ UNCHANGED <<storeVars, job, global_step, evaluated, ending, faults>>

\* What follows an optimizer step and its checkpoint, and what follows the
\* loop: the last evaluation, unless the last step has just had one.  A
\* validation set is taken to be configured.
EvalOrLoop(step) ==
    IF EvalInterval > 0 /\ step % EvalInterval = 0 THEN "evaluate" ELSE "loop"

AfterBarrier(r) ==
    IF ~ending[r] THEN EvalOrLoop(global_step[r])
    ELSE IF evaluated[r] # global_step[r] THEN "evaluate" ELSE "return"

\* A collective completes when all ranks of the job are in it.
Together(c) == \A r \in Ranks : pc[r] = c

OptimizerStep ==
    /\ Together("reduce")
    /\ global_step' = [r \in Ranks |-> global_step[r] + 1]
    /\ pc' = [r \in Ranks |->
                 IF (global_step[r] + 1) % SaveInterval = 0
                 THEN IF r = 0 THEN "save" ELSE "barrier"
                 ELSE EvalOrLoop(global_step[r] + 1)]
    /\ UNCHANGED <<storeVars, job, fed, evaluated, ending, faults>>

\* After the loop a rank compares the latest checkpoint with its own count;
\* rank 0 saves when they differ, and every rank passes one barrier.
LeaveLoop_NoBarrier(r) ==
    /\ pc[r] = "loop"
    /\ global_step[r] >= TotalSteps \/ fed[r] >= Batches
    /\ IF global_step[r] <= 0 THEN Goto(r, "dead")
       ELSE IF LatestDir # global_step[r]
       THEN Goto(r, IF r = 0 THEN "save" ELSE "barrier")
       ELSE Goto(r, IF evaluated[r] # global_step[r] THEN "evaluate" ELSE "return")
    /\ ending' = [ending EXCEPT ![r] = TRUE]
    /\ UNCHANGED <<storeVars, job, global_step, fed, evaluated, faults>>

LeaveLoop_AnyLatest(r) ==
    /\ pc[r] = "loop"
    /\ global_step[r] >= TotalSteps \/ fed[r] >= Batches
    /\ IF global_step[r] <= 0 THEN Goto(r, "dead")
       ELSE Goto(r, IF r = 0 /\ LatestDir = None THEN "save" ELSE "barrier")
    /\ ending' = [ending EXCEPT ![r] = TRUE]
    /\ UNCHANGED <<storeVars, job, global_step, fed, evaluated, faults>>

LeaveLoop(r) ==
    /\ pc[r] = "loop"
    /\ global_step[r] >= TotalSteps \/ fed[r] >= Batches
    /\ IF global_step[r] <= 0 THEN Goto(r, "dead")
       ELSE Goto(r, IF r = 0 /\ LatestDir # global_step[r] THEN "save" ELSE "barrier")
    /\ ending' = [ending EXCEPT ![r] = TRUE]
    /\ UNCHANGED <<storeVars, job, global_step, fed, evaluated, faults>>

Barrier ==
    /\ Together("barrier")
    /\ pc' = [r \in Ranks |-> AfterBarrier(r)]
    /\ UNCHANGED <<storeVars, job, rankVars, faults>>

Evaluate ==
    /\ Together("evaluate")
    /\ evaluated' = global_step
    /\ pc' = [r \in Ranks |-> IF ending[r] THEN "return" ELSE "loop"]
    /\ UNCHANGED <<storeVars, job, global_step, fed, ending, faults>>

\* _run_training returns what latest_dir finds.
Return(r) ==
    /\ pc[r] = "return"
    /\ Goto(r, IF LatestDir # None THEN "done" ELSE "dead")
    /\ UNCHANGED <<storeVars, job, rankVars, faults>>

(***************************************************************************)
(* CheckpointManager.save, by rank 0.                                      *)
(***************************************************************************)
SaveRemove ==
    /\ pc[0] = "save"
    /\ dir[global_step[0]] # None
    /\ Shrink(global_step[0])
    /\ UNCHANGED <<keep, link, victims, job, pc, rankVars, faults>>

\* Everything is written to a staging directory that takes the name at once.
SavePublish ==
    /\ pc[0] = "save"
    /\ Publish(global_step[0], job)
    /\ Goto(0, "link")
    /\ UNCHANGED <<keep, link, victims, job, rankVars, faults>>

SaveLink ==
    /\ pc[0] = "link"
    /\ link' = global_step[0]
    /\ victims' = Obsolete
    /\ Goto(0, "rotate")
    /\ UNCHANGED <<keep, dir, job, rankVars, faults>>

SaveRotate ==
    /\ pc[0] = "rotate"
    /\ IF victims = {}
       THEN Goto(0, "barrier") /\ UNCHANGED <<dir, victims>>
       ELSE LET v == CHOOSE s \in victims : \A t \in victims : s <= t
            IN  /\ Shrink(v)
                /\ victims' = IF dir'[v] = None THEN victims \ {v} ELSE victims
                /\ UNCHANGED pc
    /\ UNCHANGED <<keep, link, job, rankVars, faults>>

(***************************************************************************)
(* Faults.  A rank that raises or is killed ends, and torchrun then ends   *)
(* the others wherever they are; a crash of the machine is both at once.   *)
(***************************************************************************)
Fail(r) ==
    /\ pc[r] \notin Ended
    /\ faults < MaxFaults
    /\ faults' = faults + 1
    /\ Goto(r, "dead")
    /\ UNCHANGED <<storeVars, job, rankVars>>

Reap ==
    /\ \E r \in Ranks : pc[r] = "dead"
    /\ \E r \in Ranks : pc[r] \notin Ended
    /\ pc' = [r \in Ranks |-> IF pc[r] = "done" THEN "done" ELSE "dead"]
    /\ UNCHANGED <<storeVars, job, rankVars, faults>>

RankStep(r) == Resume(r) \/ TrainBatch(r) \/ LeaveLoop(r) \/ Return(r)
SaveStep == SaveRemove \/ SavePublish \/ SaveLink \/ SaveRotate
Collective == OptimizerStep \/ Barrier \/ Evaluate

\* All ranks have ended and nobody starts another job.
Finished ==
    /\ \A r \in Ranks : pc[r] \in Ended
    /\ job = MaxLaunches
    /\ UNCHANGED vars

Next ==
    \/ Launch
    \/ \E r \in Ranks : RankStep(r) \/ Fail(r)
    \/ SaveStep
    \/ Collective
    \/ Reap
    \/ Finished

Spec == Init /\ [][Next]_vars

\* The ranks are scheduled, torchrun stops a broken job, and a run that has
\* not reached its end is started again.
FairSpec ==
    /\ Spec
    /\ WF_vars(Launch)
    /\ WF_vars(SaveStep)
    /\ WF_vars(Collective)
    /\ WF_vars(Reap)
    /\ \A r \in Ranks : WF_vars(RankStep(r))

-----------------------------------------------------------------------------

TypeOK ==
    /\ StoreTypeOK
    /\ job \in 0 .. MaxLaunches
    /\ pc \in [Ranks -> {"resume", "loop", "return"} \cup Saving \cup Collectives \cup Ended]
    /\ global_step \in [Ranks -> 0 .. TotalSteps]
    /\ fed \in [Ranks -> 0 .. Batches]
    /\ evaluated \in [Ranks -> 0 .. TotalSteps]
    /\ ending \in [Ranks -> BOOLEAN]
    /\ faults \in 0 .. MaxFaults

\* Whatever the last crash has interrupted, the latest link names a directory
\* that can be loaded: checkpoint.py moves the link only to a directory that
\* is whole, and neither the replacement of a directory nor the rotation may
\* touch the one it names.
LatestLoadable == link # None => Whole(link)

\* Two ranks that wait in a collective wait in the same one, at the same step,
\* and none waits for a rank that has returned; each rank decides on its own
\* and from a directory that rank 0 is changing whether it needs a last save.
CollectivesAgree ==
    \A r, q \in Ranks :
        pc[r] \in Collectives =>
            /\ pc[q] # "done"
            /\ pc[q] \in Collectives =>
                   <<pc[r], global_step[r], ending[r]>> = <<pc[q], global_step[q], ending[q]>>

\* A rank that returns has the last step in the latest checkpoint.
ReturnsLastStep ==
    \A r \in Ranks : pc[r] = "done" => link = TotalSteps /\ Whole(link)

\* trainer.py's test_trainer_always_saves_final_checkpoint_and_can_resume: the
\* checkpoint a run returns has been written by that run, or by the one it was
\* resumed from.
FinalCheckpointIsOwn ==
    \A r \in Ranks : pc[r] = "done" /\ fed[r] > 0 => dir[link].job = job

\* The run implements SavedProgress: the step it can be resumed from goes from
\* one save point to the next, never back, and the last one is reached.
SavePoints == {s \in Steps : s % SaveInterval = 0} \cup {TotalSteps}
Progress == INSTANCE SavedProgress
                WITH Points <- SavePoints, saved <- IF link = None THEN 0 ELSE link
=============================================================================
