--------------------------- MODULE TrainingProofs ---------------------------
(***************************************************************************)
(* For every number of ranks, steps, intervals and deaths: the ranks of a  *)
(* job meet in the same collectives, and in a run that is only continued   *)
(* and never begun anew the latest link can be loaded, goes from one save  *)
(* point to the next, and names the last step when a rank returns.         *)
(***************************************************************************)
EXTENDS Training, FiniteSetTheorems, WellFoundedInduction, TLAPS

\* The step a rank is at; one that has still to resume is at the one it reads.
At(r) == IF pc[r] = "resume" THEN link ELSE global_step[r]

\* The collective a rank comes to next, "end" if there is none.
Coming(r) ==
    IF pc[r] \in {"resume", "loop"} THEN IF At(r) < TotalSteps THEN "reduce" ELSE "barrier"
    ELSE IF pc[r] \in Saving THEN "barrier"
    ELSE IF pc[r] \in {"return", "done"} THEN "end"
    ELSE pc[r]

\* Whether it comes to it after the training loop.
Leaving(r) == ending[r] \/ (pc[r] \in {"resume", "loop"} /\ At(r) = TotalSteps)

Alive(r) == pc[r] # "dead"

\* Ranks that are alive come to the same collective, in the same state.
Lockstep ==
    \A r, q \in Ranks :
        Alive(r) /\ Alive(q) =>
            /\ At(r) = At(q) /\ Coming(r) = Coming(q) /\ Leaving(r) = Leaving(q)
            /\ evaluated[r] = evaluated[q]

\* A rank that is still to resume finds what the others have found.
Resuming ==
    \A q \in Ranks :
        pc[q] = "resume" =>
            /\ link # None
            /\ pc[0] \notin Saving
            /\ pc[0] = "loop" => Complete(link)

\* The batches a rank has taken, and where it may have left the loop.
InWindow(r) ==
    /\ pc[r] = "reduce" => fed[r] <= (global_step[r] + 1) * Accum
    /\ pc[r] = "resume" => fed[r] = 0
    /\ pc[r] \in {"loop", "barrier", "evaluate"} \cup Saving =>
           fed[r] < (global_step[r] + 1) * Accum
    /\ pc[r] \in {"resume", "loop", "reduce"} => ~ending[r]
    /\ pc[r] \in {"return", "done"} => ending[r]
    /\ pc[r] = "reduce" => global_step[r] < TotalSteps
    /\ Alive(r) /\ ending[r] => global_step[r] = TotalSteps
    /\ pc[r] \in Saving => r = 0 /\ global_step[r] > 0
    /\ Alive(r) => job > 0

\* A rotation removes what is there.
Rotating == pc[0] = "rotate" => \A s \in victims : dir[s] # None

RanksInv == TypeOK /\ Lockstep /\ Resuming /\ Rotating /\ \A r \in Ranks : InWindow(r)

-----------------------------------------------------------------------------
Last == IF link = None THEN 0 ELSE link

\* Nothing is beyond the save point that follows the latest checkpoint.
Reachable(s) == \A p \in SavePoints : p > Last => s <= p

\* The directories on disk, of which the link names a whole one.
DiskInv ==
    /\ link # None => Whole(link) /\ link \in SavePoints
    /\ \A s \in Steps : dir[s] # None => Reachable(s)

\* A rank is at the latest checkpoint or between it and the next save point.
Between ==
    \A r \in Ranks : Alive(r) =>
        /\ pc[r] = "resume" => link # None
        /\ Last <= At(r) /\ Reachable(At(r))
        /\ Coming(r) = "end" => Last = TotalSteps

\* What rank 0 has still to save, and what a rotation may remove.
SaverInv ==
    /\ pc[0] \in {"save", "link"} => global_step[0] \in SavePoints /\ global_step[0] > Last
    /\ pc[0] = "link" => Whole(global_step[0])
    /\ pc[0] = "rotate" => link = global_step[0] /\ \A s \in victims : s < link
    /\ pc[0] \notin {"save", "link", "resume", "dead"} =>
           /\ global_step[0] % SaveInterval = 0 => global_step[0] = Last
           /\ ending[0] => Last = TotalSteps

StoreInv == DiskInv /\ Between /\ SaverInv

-----------------------------------------------------------------------------
(* Arithmetic of the plan. *)

LEMMA Constants ==
    /\ TotalSteps \in Nat /\ TotalSteps > 0 /\ World \in Nat /\ World > 0
    /\ Accum \in Nat /\ Accum > 0 /\ Batches \in Nat
    /\ SaveInterval \in Nat /\ SaveInterval > 0 /\ EvalInterval \in Nat
    /\ MaxLaunches \in Nat /\ MaxFaults \in Nat /\ None \notin Int
    /\ 0 \in Ranks /\ Ranks \subseteq Nat /\ Steps \subseteq Int
BY StoreAssumption, PlanAssumption DEF Ranks, Steps

LEMMA Multiple ==
    ASSUME NEW a \in Nat, a > 0, NEW k \in Nat
    PROVE  (k * a) % a = 0
OBVIOUS

\* The loader of a rank lasts for every step.
LEMMA Enough ==
    ASSUME NEW k \in Nat, k <= TotalSteps
    PROVE  k * Accum <= Batches
<1> DEFINE d == Batches \div Accum
<1>1. d \in Nat /\ d * Accum <= Batches
  BY Constants
<1>2. k <= d
  BY Constants, <1>1, PlanAssumption
<1>3. k * Accum <= d * Accum
  <2> HIDE DEF d
  <2>1. \E e \in Nat : d = k + e
    <3>1. d - k \in Nat /\ d = k + (d - k)
      BY <1>1, <1>2
    <3> QED
      BY <3>1
  <2>2. PICK e \in Nat : d = k + e
    BY <2>1
  <2>3. d * Accum = k * Accum + e * Accum /\ e * Accum \in Nat /\ k * Accum \in Nat
    BY <2>2, Constants
  <2> QED
    BY <2>3
<1> QED
  <2> HIDE DEF d
  <2> QED
    BY <1>1, <1>3, Constants

-----------------------------------------------------------------------------
(* The ranks. *)

Labels ==
    {"resume", "loop", "return", "save", "link", "rotate", "reduce", "barrier", "evaluate",
     "done", "dead"}

LEMMA LabelsAre == {"resume", "loop", "return"} \cup Saving \cup Collectives \cup Ended = Labels
BY DEF Saving, Collectives, Ended, Labels

LEMMA Types ==
    TypeOK <=> /\ keep \in Keeps /\ dir \in [Steps -> Directory \cup {None}]
               /\ link \in Steps \cup {None} /\ victims \in SUBSET Steps
               /\ job \in 0 .. MaxLaunches /\ pc \in [Ranks -> Labels]
               /\ global_step \in [Ranks -> 0 .. TotalSteps] /\ fed \in [Ranks -> 0 .. Batches]
               /\ evaluated \in [Ranks -> 0 .. TotalSteps] /\ ending \in [Ranks -> BOOLEAN]
               /\ faults \in 0 .. MaxFaults
BY LabelsAre DEF TypeOK, StoreTypeOK

\* Nothing a rank is compared by has changed, unless it has died.
AsBefore(q) ==
    Alive(q)' => /\ Alive(q) /\ At(q)' = At(q) /\ Coming(q)' = Coming(q)
                 /\ Leaving(q)' = Leaving(q) /\ evaluated'[q] = evaluated[q]

LEMMA LockstepKept ==
    ASSUME Lockstep, \A q \in Ranks : AsBefore(q)
    PROVE  Lockstep'
BY DEF Lockstep, AsBefore

LEMMA WindowOpen ==
    ASSUME NEW k \in Nat
    PROVE  0 < (k + 1) * Accum
<1>1. (k + 1) * Accum = k * Accum + Accum /\ k * Accum \in Nat
  BY Constants
<1> QED
  BY <1>1, Constants

LEMMA RotatingKept ==
    ASSUME Rotating, pc'[0] = "rotate" => pc[0] = "rotate", UNCHANGED <<dir, victims>>
    PROVE  Rotating'
BY DEF Rotating

LEMMA InitRanks == Init => RanksInv
<1> SUFFICES ASSUME Init PROVE RanksInv
  OBVIOUS
<1>1. TypeOK
  BY Constants, StoreAssumption DEF Init, StoreInit, TypeOK, StoreTypeOK, Ended, Steps, Directory
<1>2. Lockstep /\ Resuming /\ Rotating /\ \A r \in Ranks : InWindow(r)
  BY Constants DEF Init, StoreInit, Lockstep, Resuming, Rotating, InWindow, Alive, Saving
<1> QED
  BY <1>1, <1>2 DEF RanksInv

LEMMA LaunchKeeps ==
    ASSUME RanksInv, Launch
    PROVE  RanksInv'
<1> USE Constants DEF RanksInv, Launch
<1>1. TypeOK'
  BY DEF TypeOK, StoreTypeOK, storeVars, disk
<1>2. Lockstep'
  BY DEF Lockstep, Alive, At, Coming, Leaving, storeVars, disk, Saving
<1>3. Resuming'
  BY DEF Resuming, Saving, storeVars, disk
<1>4. ASSUME NEW r \in Ranks
      PROVE  InWindow(r)'
  <2>1. fed'[r] = 0 /\ global_step'[r] = 0 /\ ~ending'[r] /\ pc'[r] \in {"resume", "loop"}
    BY DEF TypeOK
  <2>2. job' > 0
    BY Types
  <2> QED
    BY <2>1, <2>2, WindowOpen DEF InWindow, Saving, Alive
<1>5. Rotating'
  BY Constants, RotatingKept DEF storeVars, disk, Rotating
<1> QED
  BY <1>1, <1>2, <1>3, <1>4, <1>5

LEMMA ResumeKeeps ==
    ASSUME RanksInv, NEW r \in Ranks, Resume(r)
    PROVE  RanksInv' /\ \A q \in Ranks : AsBefore(q)
<1> USE Constants DEF RanksInv, Resume, Goto
<1>1. TypeOK'
  <2>1. pc \in [Ranks -> Labels] /\ global_step \in [Ranks -> 0 .. TotalSteps]
    BY Types
  <2>2. pc' \in [Ranks -> Labels]
    <3>1. PICK l \in Labels : pc' = [pc EXCEPT ![r] = l]
      BY DEF Labels
    <3> QED
      BY <2>1, <3>1
  <2>3. global_step' \in [Ranks -> 0 .. TotalSteps]
    BY SMTT(30), <2>1, Types DEF LatestDir, Steps
  <2> QED
    BY <2>2, <2>3, Types, LabelsAre DEF storeVars, disk, TypeOK, StoreTypeOK
<1>2a. \A q \in Ranks : AsBefore(q)
  BY DEF AsBefore, TypeOK, StoreTypeOK, Alive, At, Coming, Leaving, InWindow, storeVars, disk,
         LatestDir, Saving
<1>2. Lockstep'
  BY <1>2a, LockstepKept
<1>2b. /\ pc \in [Ranks -> Labels] /\ link' = link /\ dir' = dir
       /\ fed \in [Ranks -> 0 .. Batches] /\ global_step \in [Ranks -> 0 .. TotalSteps]
  BY Types DEF storeVars, disk
<1>3. Resuming'
  <2> SUFFICES ASSUME NEW q \in Ranks, pc'[q] = "resume"
               PROVE  link' # None /\ pc'[0] \notin Saving /\ (pc'[0] = "loop" => Complete(link)')
    BY DEF Resuming
  <2>1. pc[q] = "resume" /\ q # r
    BY <1>2b
  <2>2. link # None /\ pc[0] \notin Saving /\ (pc[0] = "loop" => Complete(link))
    BY <2>1 DEF Resuming
  <2>3. r = 0 /\ pc'[0] = "loop" => Complete(link)
    BY <1>2b DEF LatestDir
  <2> QED
    BY <1>2b, <2>2, <2>3 DEF Complete, Saving
<1>4. ASSUME NEW q \in Ranks
      PROVE  InWindow(q)'
  <2>1. InWindow(q)
    OBVIOUS
  <2>2. CASE q # r
    BY <1>2b, <2>1, <2>2 DEF InWindow, Alive, Saving
  <2>3. CASE q = r /\ pc'[r] = "loop"
    <3>1. global_step'[r] \in Nat /\ fed'[r] = 0 /\ ~ending'[r]
      BY <1>1, <1>2b, <2>1, <2>3 DEF InWindow, TypeOK
    <3> QED
      BY <2>3, <3>1, WindowOpen DEF InWindow, Alive, Saving
  <2>4. CASE q = r /\ pc'[r] = "dead"
    BY <2>4 DEF InWindow, Alive, Saving
  <2> QED
    BY <1>2b, <2>2, <2>3, <2>4
<1>5. Rotating'
  BY <1>2b, RotatingKept DEF storeVars, disk, Rotating
<1> QED
  BY <1>2a, <1>1, <1>2, <1>3, <1>4, <1>5

LEMMA WindowKept ==
    ASSUME NEW q \in Ranks, InWindow(q), pc'[q] = pc[q], fed'[q] = fed[q],
           global_step'[q] = global_step[q], ending'[q] = ending[q], job' = job
    PROVE  InWindow(q)'
BY DEF InWindow, Alive

\* A rank in the loop that has steps to do has batches left to do them with.
LEMMA BatchLeft ==
    ASSUME TypeOK, NEW r \in Ranks, InWindow(r), pc[r] = "loop",
           global_step[r] >= TotalSteps \/ fed[r] >= Batches
    PROVE  global_step[r] = TotalSteps
<1> DEFINE s == global_step[r]
           e == (s + 1) * Accum
<1>1. s \in Nat /\ s <= TotalSteps /\ fed[r] \in Nat /\ fed[r] < e
  BY Types, Constants DEF InWindow
<1>2. SUFFICES ASSUME s < TotalSteps PROVE FALSE
  BY <1>1, Constants
<1>3. s + 1 \in Nat /\ s + 1 <= TotalSteps
  BY <1>1, <1>2, Constants
<1>4. e <= Batches /\ e \in Nat
  <2> HIDE DEF s
  <2> QED
    BY <1>3, Enough, Constants
<1>5. fed[r] >= Batches
  <2>1. ~(s >= TotalSteps)
    BY <1>1, <1>2, Constants
  <2> QED
    BY <2>1
<1> QED
  <2> HIDE DEF e
  <2> QED
    BY <1>1, <1>4, <1>5, Constants

LEMMA TrainBatchKeeps ==
    ASSUME RanksInv, NEW r \in Ranks, TrainBatch(r)
    PROVE  RanksInv' /\ \A q \in Ranks : AsBefore(q)
<1>1. /\ TypeOK /\ Lockstep /\ Resuming /\ InWindow(r)
      /\ pc[r] = "loop" /\ global_step[r] < TotalSteps /\ fed[r] < Batches
      /\ fed' = [fed EXCEPT ![r] = @ + 1]
      /\ UNCHANGED <<keep, dir, link, victims, job, global_step, evaluated, ending, faults>>
      /\ pc' = [pc EXCEPT ![r] = IF (fed[r] + 1) % Accum = 0 THEN "reduce" ELSE "loop"]
  BY DEF RanksInv, TrainBatch, Goto, storeVars, disk
<1>2. /\ pc \in [Ranks -> Labels] /\ fed \in [Ranks -> 0 .. Batches]
      /\ global_step \in [Ranks -> 0 .. TotalSteps]
  BY <1>1, Types
<1>3. TypeOK'
  <2>1. pc' \in [Ranks -> Labels] /\ fed' \in [Ranks -> 0 .. Batches]
    BY <1>1, <1>2, Constants DEF Labels
  <2> QED
    BY <1>1, <2>1, Types, LabelsAre DEF TypeOK, StoreTypeOK
<1>4a. \A q \in Ranks : AsBefore(q)
  BY <1>1, <1>2, Constants DEF AsBefore, Alive, At, Coming, Leaving, Saving
<1>4. Lockstep'
  BY <1>1, <1>4a, LockstepKept
<1>5. Resuming'
  BY <1>1, <1>2, Constants DEF Resuming, Saving, Complete
<1>6. InWindow(r)'
  <2> DEFINE k == global_step[r] + 1
             e == k * Accum
             n == fed[r]
  <2>1. k \in Nat /\ n \in Nat /\ n < e /\ ~ending[r] /\ job' > 0
    BY <1>1, <1>2, Constants DEF InWindow, Alive
  <2>2. e \in Nat /\ e % Accum = 0
    <3> HIDE DEF k
    <3> QED
      BY <2>1, Multiple, Constants
  <2>3. /\ fed'[r] = n + 1 /\ global_step'[r] + 1 = k /\ ending'[r] = ending[r]
        /\ pc'[r] = IF (n + 1) % Accum = 0 THEN "reduce" ELSE "loop"
    BY <1>1, <1>2
  <2>4. global_step'[r] < TotalSteps
    BY <1>1, <1>2
  <2>5. n + 1 <= e /\ (pc'[r] = "loop" => n + 1 < e)
    <3> HIDE DEF n, e
    <3> QED
      BY <2>1, <2>2, <2>3
  <2>6. (global_step'[r] + 1) * Accum = e
    BY <2>3
  <2> HIDE DEF n, e, k
  <2> QED
    BY <2>1, <2>3, <2>4, <2>5, <2>6 DEF InWindow, Alive, Saving
<1>7. ASSUME NEW q \in Ranks
      PROVE  InWindow(q)'
  <2>1. CASE q = r
    BY <1>6, <2>1
  <2>2. CASE q # r
    BY <1>1, <1>2, <2>2, WindowKept DEF RanksInv
  <2> QED
    BY <2>1, <2>2
<1>8. Rotating'
  BY <1>1, <1>2, Constants, RotatingKept DEF RanksInv
<1> QED
  BY <1>4a, <1>3, <1>4, <1>5, <1>7, <1>8 DEF RanksInv

LEMMA LeaveLoopKeeps ==
    ASSUME RanksInv, NEW r \in Ranks, LeaveLoop(r)
    PROVE  RanksInv' /\ \A q \in Ranks : AsBefore(q)
<1>1. /\ TypeOK /\ Lockstep /\ Resuming /\ InWindow(r) /\ pc[r] = "loop"
      /\ ending' = [ending EXCEPT ![r] = TRUE]
      /\ UNCHANGED <<keep, dir, link, victims, job, global_step, fed, evaluated, faults>>
  BY DEF RanksInv, LeaveLoop, storeVars, disk
<1>2. /\ pc \in [Ranks -> Labels] /\ ending \in [Ranks -> BOOLEAN]
      /\ global_step \in [Ranks -> 0 .. TotalSteps] /\ link \in Steps \cup {None}
  BY <1>1, Types
<1>3. global_step[r] = TotalSteps
  BY <1>1, BatchLeft DEF LeaveLoop
<1>4. pc' = [pc EXCEPT ![r] =
                IF r = 0 /\ LatestDir # global_step[r] THEN "save" ELSE "barrier"]
  BY <1>3, Constants DEF LeaveLoop, Goto
<1>5. TypeOK'
  <2>1. pc' \in [Ranks -> Labels] /\ ending' \in [Ranks -> BOOLEAN]
    BY <1>1, <1>2, <1>4 DEF Labels
  <2> QED
    BY <1>1, <2>1, Types, LabelsAre DEF TypeOK, StoreTypeOK
<1>6a. \A q \in Ranks : AsBefore(q)
  BY <1>1, <1>2, <1>3, <1>4, Constants DEF AsBefore, Alive, At, Coming, Leaving, Saving
<1>6. Lockstep'
  BY <1>1, <1>6a, LockstepKept
<1>7. Resuming'
  <2> SUFFICES ASSUME NEW q \in Ranks, pc'[q] = "resume"
               PROVE  link' # None /\ pc'[0] \notin Saving /\ (pc'[0] = "loop" => Complete(link)')
    BY DEF Resuming
  <2>1. pc[q] = "resume" /\ q # r
    BY <1>2, <1>4
  <2>2. link # None /\ pc[0] \notin Saving /\ (pc[0] = "loop" => Complete(link))
    BY <1>1, <2>1 DEF Resuming
  <2>3. link = global_step[r]
    BY <1>1, <2>1 DEF Lockstep, Alive, At
  <2>4. r = 0 => LatestDir = global_step[r]
    BY <1>1, <2>2, <2>3 DEF LatestDir
  <2> QED
    BY <1>1, <1>2, <1>4, <2>2, <2>4, Constants DEF Complete, Saving
<1>8. ASSUME NEW q \in Ranks
      PROVE  InWindow(q)'
  <2>1. CASE q = r
    BY <1>1, <1>2, <1>3, <1>4, <2>1, Constants DEF InWindow, Alive, Saving
  <2>2. CASE q # r
    BY <1>1, <1>2, <1>4, <2>2, WindowKept DEF RanksInv
  <2> QED
    BY <2>1, <2>2
<1>9. Rotating'
  BY <1>1, <1>2, <1>4, Constants, RotatingKept DEF RanksInv
<1> QED
  BY <1>6a, <1>5, <1>6, <1>7, <1>8, <1>9 DEF RanksInv

\* A rank that ends, in whatever way, is compared with nobody any more or as
\* one that returns.
LEMMA EndKeeps ==
    ASSUME RanksInv, UNCHANGED <<storeVars, job, rankVars>>, faults' \in 0 .. MaxFaults,
           pc' \in [Ranks -> Labels],
           \A q \in Ranks : \/ pc'[q] \in {pc[q], "dead"}
                            \/ pc[q] = "return" /\ pc'[q] = "done"
    PROVE  RanksInv' /\ \A q \in Ranks : AsBefore(q)
<1>1. /\ TypeOK /\ Lockstep /\ Resuming
      /\ UNCHANGED <<keep, dir, link, victims, job, global_step, fed, evaluated, ending>>
  BY DEF RanksInv, storeVars, disk, rankVars
<1>2. TypeOK'
  BY <1>1, Types, LabelsAre DEF TypeOK, StoreTypeOK
<1>3a. \A q \in Ranks : AsBefore(q)
  BY <1>1 DEF AsBefore, Alive, At, Coming, Leaving, Saving
<1>3. Lockstep'
  BY <1>1, <1>3a, LockstepKept
<1>4. Resuming'
  BY <1>1, Constants DEF Resuming, Saving, Complete
<1>5. ASSUME NEW q \in Ranks
      PROVE  InWindow(q)'
  BY <1>1 DEF RanksInv, InWindow, Alive, Saving
<1>6. Rotating'
  BY <1>1, Constants, RotatingKept DEF RanksInv
<1> QED
  BY <1>3a, <1>2, <1>3, <1>4, <1>5, <1>6 DEF RanksInv

LEMMA EndsKeep ==
    ASSUME RanksInv,
           \/ \E r \in Ranks : Return(r) \/ Fail(r)
           \/ Reap
    PROVE  RanksInv' /\ \A q \in Ranks : AsBefore(q)
<1>1. TypeOK /\ pc \in [Ranks -> Labels] /\ faults \in 0 .. MaxFaults
  BY Types DEF RanksInv
<1>2. ASSUME NEW r \in Ranks, Return(r)
      PROVE  RanksInv' /\ \A q \in Ranks : AsBefore(q)
  <2>1. UNCHANGED <<storeVars, job, rankVars, faults>> /\ pc[r] = "return"
    BY <1>2 DEF Return
  <2>2. PICK l \in {"done", "dead"} : pc' = [pc EXCEPT ![r] = l]
    BY <1>2 DEF Return, Goto
  <2>3. pc' \in [Ranks -> Labels]
    BY <1>1, <2>2 DEF Labels
  <2>4. \A q \in Ranks : \/ pc'[q] \in {pc[q], "dead"}
                         \/ pc[q] = "return" /\ pc'[q] = "done"
    BY <1>1, <2>1, <2>2
  <2> QED
    BY <1>1, <2>1, <2>3, <2>4, EndKeeps
<1>3. ASSUME NEW r \in Ranks, Fail(r)
      PROVE  RanksInv' /\ \A q \in Ranks : AsBefore(q)
  <2>1. /\ UNCHANGED <<storeVars, job, rankVars>> /\ faults' = faults + 1 /\ faults < MaxFaults
        /\ pc' = [pc EXCEPT ![r] = "dead"]
    BY <1>3 DEF Fail, Goto
  <2>2. faults' \in 0 .. MaxFaults
    BY <1>1, <2>1, Constants
  <2>3. pc' \in [Ranks -> Labels] /\ \A q \in Ranks : pc'[q] \in {pc[q], "dead"}
    BY <1>1, <2>1 DEF Labels
  <2> QED
    BY <2>1, <2>2, <2>3, EndKeeps
<1>4. CASE Reap
  <2>1. /\ UNCHANGED <<storeVars, job, rankVars, faults>>
        /\ pc' = [r \in Ranks |-> IF pc[r] = "done" THEN "done" ELSE "dead"]
    BY <1>4 DEF Reap
  <2>2. pc' \in [Ranks -> Labels] /\ \A q \in Ranks : pc'[q] \in {pc[q], "dead"}
    BY <1>1, <2>1 DEF Labels
  <2> QED
    BY <1>1, <2>1, <2>2, EndKeeps
<1> QED
  BY <1>2, <1>3, <1>4

\* What a collective does to the ranks: all of them go on together.
LEMMA OptimizerStepKeeps ==
    ASSUME RanksInv, OptimizerStep
    PROVE  RanksInv'
<1>1. /\ TypeOK /\ Lockstep /\ \A r \in Ranks : pc[r] = "reduce"
      /\ UNCHANGED <<keep, dir, link, victims, job, fed, evaluated, ending, faults>>
      /\ global_step' = [r \in Ranks |-> global_step[r] + 1]
      /\ pc' = [r \in Ranks |->
                 IF (global_step[r] + 1) % SaveInterval = 0
                 THEN IF r = 0 THEN "save" ELSE "barrier"
                 ELSE EvalOrLoop(global_step[r] + 1)]
  BY DEF RanksInv, OptimizerStep, Together, storeVars, disk
<1>2. \A r \in Ranks :
          /\ global_step[r] \in Nat /\ global_step[r] < TotalSteps /\ ~ending[r]
          /\ fed[r] \in Nat /\ fed[r] <= (global_step[r] + 1) * Accum
  BY <1>1, Types, Constants DEF RanksInv, InWindow
<1>3. \A r \in Ranks : EvalOrLoop(global_step[r] + 1) \in {"evaluate", "loop"}
  BY DEF EvalOrLoop
<1>4. \A r \in Ranks : pc'[r] \in {"save", "barrier", "evaluate", "loop"} /\ (pc'[r] = "save" => r = 0)
  BY <1>1, <1>3
<1>5. TypeOK'
  <2>1. pc' \in [Ranks -> Labels]
    BY <1>1, <1>4 DEF Labels
  <2>2. global_step' \in [Ranks -> 0 .. TotalSteps]
    BY <1>1, <1>2, Constants
  <2> QED
    BY <1>1, <2>1, <2>2, Types, LabelsAre DEF TypeOK, StoreTypeOK
<1>6. Lockstep'
  <2> SUFFICES ASSUME NEW r \in Ranks, NEW q \in Ranks
               PROVE  /\ At(r)' = At(q)' /\ Coming(r)' = Coming(q)' /\ Leaving(r)' = Leaving(q)'
                      /\ evaluated'[r] = evaluated'[q]
    BY DEF Lockstep
  <2>1. global_step[r] = global_step[q] /\ evaluated[r] = evaluated[q] /\ ~ending[r] /\ ~ending[q]
    BY <1>1, <1>2 DEF Lockstep, Alive, At
  <2>2. At(r)' = At(q)' /\ evaluated'[r] = evaluated'[q]
    BY <1>1, <1>4, <2>1 DEF At
  <2>3. CASE (global_step[r] + 1) % SaveInterval = 0
    BY <1>1, <2>1, <2>2, <2>3 DEF Coming, Leaving, Saving
  <2>4. CASE (global_step[r] + 1) % SaveInterval # 0
    <3>1. pc'[r] = pc'[q] /\ pc'[r] \in {"evaluate", "loop"}
      BY <1>1, <1>3, <2>1, <2>4
    <3> QED
      BY <1>1, <2>1, <2>2, <3>1 DEF Coming, Leaving, Saving
  <2> QED
    BY <2>2, <2>3, <2>4
<1>7. Resuming'
  BY <1>4 DEF Resuming
<1>8. ASSUME NEW r \in Ranks
      PROVE  InWindow(r)'
  <2> DEFINE k == global_step[r] + 1
             e == k * Accum
             f == (k + 1) * Accum
  <2>1. k \in Nat /\ fed[r] <= e /\ fed[r] \in Nat
    BY <1>2
  <2>2. e \in Nat /\ f = e + Accum
    <3> HIDE DEF k
    <3> QED
      BY <2>1, Constants
  <2>3. fed'[r] < f
    <3> HIDE DEF e, f
    <3> QED
      BY <1>1, <2>1, <2>2, Constants
  <2>4. (global_step'[r] + 1) * Accum = f /\ job' > 0 /\ global_step'[r] > 0
    BY <1>1, <1>2, Constants DEF RanksInv, InWindow, Alive
  <2> HIDE DEF f
  <2> QED
    BY <1>1, <1>2, <1>4, <2>3, <2>4 DEF InWindow, Saving
<1>9. Rotating'
  BY <1>1, <1>4, Constants, RotatingKept DEF RanksInv
<1> QED
  BY <1>5, <1>6, <1>7, <1>8, <1>9 DEF RanksInv

LEMMA BarrierKeeps ==
    ASSUME RanksInv, Barrier
    PROVE  RanksInv'
<1>1. /\ TypeOK /\ Lockstep /\ \A r \in Ranks : pc[r] = "barrier"
      /\ UNCHANGED <<keep, dir, link, victims, job, global_step, fed, evaluated, ending, faults>>
      /\ pc' = [r \in Ranks |-> AfterBarrier(r)]
  BY DEF RanksInv, Barrier, Together, storeVars, disk, rankVars
<1>2. \A r \in Ranks : pc'[r] \in {"evaluate", "loop", "return"} /\ (pc'[r] = "loop" => ~ending[r])
                       /\ (pc'[r] = "return" => ending[r])
  BY <1>1 DEF AfterBarrier, EvalOrLoop
<1>3. TypeOK'
  <2>1. pc' \in [Ranks -> Labels]
    BY <1>1, <1>2 DEF Labels
  <2> QED
    BY <1>1, <2>1, Types, LabelsAre DEF TypeOK, StoreTypeOK
<1>4. Lockstep'
  <2> SUFFICES ASSUME NEW r \in Ranks, NEW q \in Ranks
               PROVE  /\ At(r)' = At(q)' /\ Coming(r)' = Coming(q)' /\ Leaving(r)' = Leaving(q)'
                      /\ evaluated'[r] = evaluated'[q]
    BY DEF Lockstep
  <2>1. /\ global_step[r] = global_step[q] /\ evaluated[r] = evaluated[q] /\ ending[r] = ending[q]
    BY <1>1, Types DEF Lockstep, Alive, At, Leaving
  <2>2. pc'[r] = pc'[q]
    BY <1>1, <2>1 DEF AfterBarrier
  <2> QED
    BY <1>1, <1>2, <2>1, <2>2 DEF At, Coming, Leaving, Saving
<1>5. Resuming'
  BY <1>2 DEF Resuming
<1>6. ASSUME NEW r \in Ranks
      PROVE  InWindow(r)'
  BY <1>1, <1>2 DEF RanksInv, InWindow, Alive, Saving
<1>7. Rotating'
  BY <1>1, <1>2, Constants, RotatingKept DEF RanksInv
<1> QED
  BY <1>3, <1>4, <1>5, <1>6, <1>7 DEF RanksInv

LEMMA EvaluateKeeps ==
    ASSUME RanksInv, Evaluate
    PROVE  RanksInv'
<1>1. /\ TypeOK /\ Lockstep /\ \A r \in Ranks : pc[r] = "evaluate"
      /\ UNCHANGED <<keep, dir, link, victims, job, global_step, fed, ending, faults>>
      /\ evaluated' = global_step
      /\ pc' = [r \in Ranks |-> IF ending[r] THEN "return" ELSE "loop"]
  BY DEF RanksInv, Evaluate, Together, storeVars, disk
<1>2. TypeOK'
  <2>1. pc' \in [Ranks -> Labels]
    BY <1>1 DEF Labels
  <2> QED
    BY <1>1, <2>1, Types, LabelsAre DEF TypeOK, StoreTypeOK
<1>3. Lockstep'
  <2> SUFFICES ASSUME NEW r \in Ranks, NEW q \in Ranks
               PROVE  /\ At(r)' = At(q)' /\ Coming(r)' = Coming(q)' /\ Leaving(r)' = Leaving(q)'
                      /\ evaluated'[r] = evaluated'[q]
    BY DEF Lockstep
  <2>1. global_step[r] = global_step[q] /\ ending[r] = ending[q]
    BY <1>1, Types DEF Lockstep, Alive, At, Leaving
  <2> QED
    BY <1>1, <2>1 DEF At, Coming, Leaving, Saving
<1>4. Resuming'
  BY <1>1 DEF Resuming
<1>5. ASSUME NEW r \in Ranks
      PROVE  InWindow(r)'
  BY <1>1 DEF RanksInv, InWindow, Alive, Saving
<1>6. Rotating'
  BY <1>1, Constants, RotatingKept DEF RanksInv
<1> QED
  BY <1>2, <1>3, <1>4, <1>5, <1>6 DEF RanksInv

LEMMA ShrinkTyped ==
    ASSUME dir \in [Steps -> Directory \cup {None}], NEW s \in Steps, dir[s] # None, Shrink(s)
    PROVE  /\ dir' \in [Steps -> Directory \cup {None}]
           /\ \A t \in Steps : t # s => dir'[t] = dir[t]
<1>1. ASSUME NEW f \in SUBSET dir[s].files, dir' = [dir EXCEPT ![s].files = f]
      PROVE  /\ dir' \in [Steps -> Directory \cup {None}]
             /\ \A t \in Steps : t # s => dir'[t] = dir[t]
  <2>1. dir[s] \in Directory
    OBVIOUS
  <2>2. PICK d : d = [dir[s] EXCEPT !.files = f]
    OBVIOUS
  <2>3. d \in Directory
    BY <2>1, <2>2 DEF Directory
  <2>4. dir' = [dir EXCEPT ![s] = d]
    BY <1>1, <2>2
  <2> QED
    BY <2>3, <2>4
<1>2. CASE dir' = [dir EXCEPT ![s] = None]
  BY <1>2
<1> QED
  BY <1>1, <1>2 DEF Shrink

LEMMA ObsoleteComplete == Obsolete \in SUBSET Steps /\ \A s \in Obsolete : dir[s] # None
BY DEF Obsolete, Complete

LEMMA LeastStep ==
    ASSUME NEW S \in SUBSET Steps, S # {}
    PROVE  \E v \in S : \A t \in S : v <= t
<1> DEFINE Less == OpToRel(<, Nat)
<1>1. IsWellFoundedOn(Less, Nat)
  BY NatLessThanWellFounded
<1>2. \A i, j \in Nat : i < j => <<i, j>> \in Less
  BY DEF OpToRel
<1>3. S \subseteq Nat
  BY Constants DEF Steps
<1> HIDE DEF Less
<1>4. PICK v \in S : \A t \in S : <<t, v>> \notin Less
  BY <1>1, <1>3, WFMin
<1>5. ASSUME NEW t \in S
      PROVE  v <= t
  <2>1. v \in Nat /\ t \in Nat /\ ~(t < v)
    BY <1>2, <1>3, <1>4
  <2> QED
    BY <2>1
<1> QED
  BY <1>5

\* One removal of a rotation: of the lowest step that has to go.
LEMMA RotateKeeps ==
    ASSUME TypeOK, Rotating, SaveRotate
    PROVE  /\ dir' \in [Steps -> Directory \cup {None}] /\ link' = link
           /\ victims' \subseteq victims /\ Rotating'
           /\ \A t \in Steps : t \notin victims => dir'[t] = dir[t]
           /\ \A t \in Steps : dir'[t] # None => dir[t] # None
<1>1. pc[0] = "rotate" /\ link' = link
  BY DEF SaveRotate
<1>2. CASE victims = {}
  BY <1>1, <1>2, Types DEF SaveRotate, Rotating
<1>3. CASE victims # {}
  <2> DEFINE v == CHOOSE s \in victims : \A t \in victims : s <= t
  <2>1. v \in victims
    <3>1. \E s \in victims : \A t \in victims : s <= t
      BY <1>3, LeastStep, Types
    <3> QED
      BY <3>1
  <2>2. /\ Shrink(v) /\ victims' = IF dir'[v] = None THEN victims \ {v} ELSE victims
    BY <1>3 DEF SaveRotate
  <2> HIDE DEF v
  <2>3. v \in Steps /\ dir[v] # None
    BY <1>1, <2>1, Types DEF Rotating
  <2>4. /\ dir' \in [Steps -> Directory \cup {None}]
        /\ \A t \in Steps : t # v => dir'[t] = dir[t]
    BY <2>2, <2>3, ShrinkTyped, Types
  <2>5. Rotating'
    BY <1>1, <2>2, <2>4, Types DEF Rotating
  <2> QED
    BY <1>1, <2>1, <2>2, <2>3, <2>4, <2>5
<1> QED
  BY <1>2, <1>3

\* Rank 0 saves when all the others wait for it or are dead, and nobody has
\* still to resume.
LEMMA SaveKeeps ==
    ASSUME RanksInv, SaveStep
    PROVE  RanksInv' /\ \A q \in Ranks : AsBefore(q)
<1>1. /\ TypeOK /\ Lockstep /\ Resuming /\ pc[0] \in Saving
      /\ UNCHANGED <<keep, job, rankVars, faults>>
  BY DEF RanksInv, SaveStep, SaveRemove, SavePublish, SaveLink, SaveRotate, Saving, storeVars, disk
<1>2. /\ UNCHANGED <<global_step, fed, evaluated, ending>>
      /\ \A q \in Ranks : pc[q] # "resume"
  BY <1>1 DEF rankVars, Resuming
<1>3. \E l \in Saving \cup {"barrier"} : pc' = [pc EXCEPT ![0] = l]
  <2>1. pc = [pc EXCEPT ![0] = pc[0]]
    BY <1>1, Types
  <2>2. CASE SaveRemove
    BY <1>1, <2>1, <2>2 DEF SaveRemove
  <2>3. CASE SavePublish \/ SaveLink
    BY <2>3 DEF SavePublish, SaveLink, Goto, Saving
  <2>4. CASE SaveRotate
    BY <1>1, <2>1, <2>4 DEF SaveRotate, Goto
  <2> QED
    BY <2>2, <2>3, <2>4 DEF SaveStep
<1>4. PICK l \in Saving \cup {"barrier"} : pc' = [pc EXCEPT ![0] = l]
  BY <1>3
<1>5. /\ dir' \in [Steps -> Directory \cup {None}] /\ link' \in Steps \cup {None}
      /\ victims' \in SUBSET Steps /\ Rotating'
  <2>1. global_step[0] \in Steps /\ job \in Jobs
    BY <1>1, Types, Constants DEF RanksInv, InWindow, Alive, Saving, Steps, Jobs
  <2>2. CASE SaveRemove
    BY <1>1, <2>1, <2>2, ShrinkTyped, Types DEF SaveRemove, Rotating
  <2>3. CASE SavePublish
    BY <1>1, <2>1, <2>3, Types, Constants DEF SavePublish, Publish, Directory, Rotating, Goto
  <2>4. CASE SaveLink
    BY <1>1, <2>1, <2>4, Types, ObsoleteComplete DEF SaveLink, Rotating
  <2>5. CASE SaveRotate
    BY <1>1, <2>5, RotateKeeps, Types DEF RanksInv
  <2> QED
    BY <2>2, <2>3, <2>4, <2>5 DEF SaveStep
<1>6. TypeOK'
  <2>1. pc' \in [Ranks -> Labels]
    BY <1>1, <1>4, Types, Constants DEF Labels, Saving
  <2> QED
    BY <1>1, <1>2, <1>5, <2>1, Types, LabelsAre DEF TypeOK, StoreTypeOK
<1>7a. \A q \in Ranks : AsBefore(q)
  BY <1>1, <1>2, <1>4, Types, Constants DEF AsBefore, Alive, At, Coming, Leaving, Saving
<1>7. Lockstep'
  BY <1>1, <1>7a, LockstepKept
<1>8. Resuming'
  BY <1>1, <1>2, <1>4, Types DEF Resuming, Saving
<1>9. ASSUME NEW q \in Ranks
      PROVE  InWindow(q)'
  BY <1>1, <1>2, <1>4, Types, Constants DEF RanksInv, InWindow, Alive, Saving
<1> QED
  BY <1>7a, <1>5, <1>6, <1>7, <1>8, <1>9 DEF RanksInv

LEMMA RanksStep == RanksInv /\ [Next]_vars => RanksInv'
<1> SUFFICES ASSUME RanksInv, [Next]_vars PROVE RanksInv'
  OBVIOUS
<1>1. CASE Launch
  BY <1>1, LaunchKeeps
<1>2. ASSUME NEW r \in Ranks, RankStep(r) \/ Fail(r)
      PROVE  RanksInv'
  BY <1>2, ResumeKeeps, TrainBatchKeeps, LeaveLoopKeeps, EndsKeep DEF RankStep
<1>3. CASE SaveStep
  BY <1>3, SaveKeeps
<1>4. CASE Collective
  BY <1>4, OptimizerStepKeeps, BarrierKeeps, EvaluateKeeps DEF Collective
<1>5. CASE Reap
  BY <1>5, EndsKeep
<1>6. CASE Finished \/ UNCHANGED vars
  <2>1. UNCHANGED <<keep, dir, link, victims, job, pc, global_step, fed, evaluated, ending, faults>>
    BY <1>6 DEF Finished, vars, storeVars, disk, rankVars
  <2>2. TypeOK'
    BY <2>1, Types, LabelsAre DEF RanksInv, TypeOK, StoreTypeOK
  <2>3. Lockstep' /\ Resuming' /\ Rotating'
    BY <2>1 DEF RanksInv, Lockstep, Resuming, Rotating, Alive, At, Coming, Leaving, Complete
  <2>4. \A q \in Ranks : InWindow(q)'
    BY <2>1, WindowKept DEF RanksInv
  <2> QED
    BY <2>2, <2>3, <2>4 DEF RanksInv
<1> QED
  BY <1>1, <1>2, <1>3, <1>4, <1>5, <1>6 DEF Next

\* Counters, places and files of a job keep their types.
THEOREM TypeCorrect == Spec => []TypeOK
<1>1. RanksInv => TypeOK
  BY DEF RanksInv
<1> QED
  BY InitRanks, RanksStep, <1>1, PTL DEF Spec

\* The barriers of trainer.py:194 and its reductions: no rank waits in one while
\* another waits elsewhere or has returned, for every number of ranks, whatever
\* dies and whatever the link and the directories are (Overwrite too), although
\* every rank looks for the latest checkpoint on its own.
THEOREM RanksMeet == Spec => []CollectivesAgree
<1>1. RanksInv => CollectivesAgree
  <2> SUFFICES ASSUME RanksInv, NEW r \in Ranks, NEW q \in Ranks, pc[r] \in Collectives
               PROVE  /\ pc[q] # "done"
                      /\ pc[q] \in Collectives =>
                           <<pc[r], global_step[r], ending[r]>> = <<pc[q], global_step[q], ending[q]>>
    BY DEF CollectivesAgree
  <2>1. pc[q] # "done"
    BY DEF RanksInv, Lockstep, Alive, Coming, Collectives, Saving
  <2>2. ASSUME pc[q] \in Collectives
        PROVE  /\ pc[r] = pc[q] /\ global_step[r] = global_step[q]
               /\ ending[r] = ending[q]
    <3>1. At(r) = At(q) /\ Coming(r) = Coming(q) /\ Leaving(r) = Leaving(q)
      BY <2>2 DEF RanksInv, Lockstep, Alive, Collectives
    <3>2. ending[r] \in BOOLEAN /\ ending[q] \in BOOLEAN
      BY Types DEF RanksInv
    <3> QED
      BY <2>2, <3>1, <3>2 DEF At, Coming, Leaving, Collectives, Saving
  <2> QED
    BY <2>1, <2>2
<1> QED
  BY InitRanks, RanksStep, <1>1, PTL DEF Spec

-----------------------------------------------------------------------------
(* The store, of a run that is continued and never begun anew. *)

LEMMA LastStep ==
    ASSUME RanksInv
    PROVE  /\ Last \in 0 .. TotalSteps /\ (link # None => Last = link /\ link \in Steps)
           /\ TotalSteps \in SavePoints /\ SavePoints \subseteq Steps
BY Types, Constants DEF RanksInv, Last, SavePoints, Steps

LEMMA InitStore == Init => StoreInv
<1> SUFFICES ASSUME Init PROVE StoreInv
  OBVIOUS
<1>1. DiskInv /\ Between
  BY DEF Init, StoreInit, DiskInv, Between, Alive
<1>2. SaverInv
  BY Constants DEF Init, SaverInv
<1> QED
  BY <1>1, <1>2 DEF StoreInv

LEMMA LaunchStores ==
    ASSUME ~Overwrite, RanksInv, StoreInv, Launch
    PROVE  StoreInv'
<1>1. /\ UNCHANGED <<dir, link, victims>>
      /\ \/ link # None /\ pc' = [r \in Ranks |-> "resume"]
         \/ link = None /\ pc' = [r \in Ranks |-> "loop"]
      /\ global_step' = [r \in Ranks |-> 0] /\ ending' = [r \in Ranks |-> FALSE]
  BY DEF Launch, storeVars, disk
<1>2. Last' = Last
  BY <1>1 DEF Last
<1>3. DiskInv'
  BY <1>1, <1>2 DEF StoreInv, DiskInv, Whole, Reachable
<1>4. Between'
  <2> SUFFICES ASSUME NEW r \in Ranks
               PROVE  /\ pc'[r] = "resume" => link' # None
                      /\ Last' <= At(r)' /\ Reachable(At(r))' /\ Coming(r)' # "end"
    BY DEF Between
  <2>1. Coming(r)' # "end" /\ (pc'[r] = "resume" => link' # None)
    BY <1>1 DEF Coming
  <2>2. At(r)' = Last
    BY <1>1 DEF At, Last
  <2>3. \A p \in SavePoints : p > Last => Last <= p
    <3>1. Last \in Int /\ SavePoints \subseteq Int
      BY LastStep, Constants DEF Steps
    <3> QED
      BY <3>1
  <2> QED
    BY <1>2, <2>1, <2>2, <2>3, LastStep DEF Reachable
<1>5. SaverInv'
  BY <1>1, <1>2, Constants DEF SaverInv, Last
<1> QED
  BY <1>3, <1>4, <1>5 DEF StoreInv

\* Steps of ranks on their own change nothing on disk.
LEMMA BetweenKept ==
    ASSUME Between, UNCHANGED <<dir, link>>, \A q \in Ranks : AsBefore(q),
           \A q \in Ranks : pc'[q] = "resume" => pc[q] = "resume"
    PROVE  Between'
<1>1. Last' = Last
  BY DEF Last
<1> QED
  BY <1>1 DEF Between, AsBefore, Reachable

LEMMA DiskKept ==
    ASSUME DiskInv, UNCHANGED <<dir, link>>
    PROVE  DiskInv'
BY DEF DiskInv, Whole, Reachable, Last

LEMMA RankStores ==
    ASSUME RanksInv, StoreInv, NEW r \in Ranks, RankStep(r) \/ Fail(r)
    PROVE  StoreInv'
<1>1. /\ UNCHANGED <<dir, link, victims>>
      /\ pc \in [Ranks -> Labels] /\ global_step \in [Ranks -> 0 .. TotalSteps]
      /\ ending \in [Ranks -> BOOLEAN]
  BY Types DEF RanksInv, RankStep, Resume, TrainBatch, LeaveLoop, Return, Fail, storeVars, disk
<1>2. \A q \in Ranks : AsBefore(q)
  BY ResumeKeeps, TrainBatchKeeps, LeaveLoopKeeps, EndsKeep DEF RankStep
<1>3. \A q \in Ranks : pc'[q] = "resume" => pc[q] = "resume"
  BY <1>1 DEF RankStep, Resume, TrainBatch, LeaveLoop, Return, Fail, Goto
<1>4. Last' = Last
  BY <1>1 DEF Last
<1>5. SaverInv'
  <2>1. CASE Resume(r)
    <3>1. CASE r = 0 /\ pc'[0] = "loop"
      <4>1. link # None /\ global_step'[0] = link /\ ending'[0] = ending[0] /\ ~ending[0]
        BY <1>1, <2>1, <3>1, Constants DEF Resume, Goto, RanksInv, InWindow, LatestDir
      <4> QED
        BY <3>1, <4>1, <1>4 DEF SaverInv, Last
    <3>2. CASE r = 0 /\ pc'[0] = "dead"
      BY <3>2 DEF SaverInv
    <3>3. CASE r # 0
      BY <1>1, <1>4, <2>1, <3>3, Constants DEF Resume, Goto, StoreInv, SaverInv, Whole
    <3> QED
      BY <1>1, <2>1, <3>1, <3>2, <3>3, Constants DEF Resume, Goto
  <2>2. CASE TrainBatch(r)
    <3>1. \E l \in {"reduce", "loop"} : pc' = [pc EXCEPT ![r] = l]
      BY <2>2 DEF TrainBatch, Goto
    <3>2. pc[r] = "loop" /\ global_step' = global_step /\ ending' = ending
      BY <2>2 DEF TrainBatch
    <3> QED
      BY <1>1, <1>4, <3>1, <3>2, Constants DEF StoreInv, SaverInv, Whole
  <2>3. CASE LeaveLoop(r)
    <3>1. CASE r = 0
      <4>1. global_step[0] = TotalSteps /\ global_step' = global_step
        BY <2>3, <3>1, BatchLeft DEF LeaveLoop, RanksInv
      <4>2. pc'[0] = IF LatestDir # TotalSteps THEN "save" ELSE "barrier"
        BY <1>1, <2>3, <3>1, <4>1, Constants DEF LeaveLoop, Goto
      <4>3. LatestDir = link
        BY DEF StoreInv, DiskInv, LatestDir, Whole, Complete, Files
      <4>4. Last <= TotalSteps
        BY LastStep, Constants
      <4> QED
        BY <1>4, <4>1, <4>2, <4>3, <4>4, LastStep, Constants DEF SaverInv, Last
    <3>2. CASE r # 0
      BY <1>1, <1>4, <2>3, <3>2, Constants DEF LeaveLoop, Goto, StoreInv, SaverInv, Whole
    <3> QED
      BY <3>1, <3>2
  <2>4. CASE Return(r) \/ Fail(r)
    BY <1>1, <1>4, <2>4, Constants DEF Return, Fail, rankVars, storeVars, Goto, StoreInv, SaverInv, Whole
  <2> QED
    BY <2>1, <2>2, <2>3, <2>4 DEF RankStep
<1> QED
  BY <1>1, <1>2, <1>3, <1>5, BetweenKept, DiskKept DEF StoreInv

LEMMA OptimizerStepStores ==
    ASSUME RanksInv, StoreInv, OptimizerStep
    PROVE  StoreInv'
<1>1. /\ UNCHANGED <<dir, link, victims, ending>>
      /\ \A r \in Ranks : /\ pc[r] = "reduce" /\ ~ending[r] /\ At(r) = global_step[0]
                          /\ global_step'[r] = global_step[0] + 1
      /\ pc' = [r \in Ranks |->
                 IF (global_step[r] + 1) % SaveInterval = 0
                 THEN IF r = 0 THEN "save" ELSE "barrier"
                 ELSE EvalOrLoop(global_step[r] + 1)]
  BY Types, Constants DEF OptimizerStep, Together, storeVars, disk, RanksInv, Lockstep, Alive, InWindow, At
<1> DEFINE s == global_step[0]
<1>2. s \in Nat /\ s < TotalSteps /\ s + 1 \in Steps
  BY <1>1, Types, Constants DEF RanksInv, InWindow, Steps
<1>3. \A r \in Ranks : EvalOrLoop(global_step[r] + 1) \in {"evaluate", "loop"}
  BY DEF EvalOrLoop
<1>4. /\ \A r \in Ranks : pc'[r] \in {"save", "barrier", "evaluate", "loop"}
      /\ pc'[0] = "save" => (s + 1) % SaveInterval = 0
      /\ pc'[0] # "save" => (s + 1) % SaveInterval # 0
  BY <1>1, <1>3, Constants
<1>5. Last' = Last
  BY <1>1 DEF Last
<1>6. Last <= s /\ Reachable(s)
  BY <1>1, Constants DEF StoreInv, Between, Alive
<1>7. Reachable(s + 1)
  <2> SUFFICES ASSUME NEW p \in SavePoints, p > Last PROVE s + 1 <= p
    BY DEF Reachable
  <2>1. s <= p /\ p \in Nat
    BY <1>6, LastStep, Constants DEF Reachable, Steps
  <2>2. p # s
    <3> SUFFICES ASSUME p = s PROVE FALSE
      OBVIOUS
    <3>1. s % SaveInterval = 0
      BY <1>2, Constants DEF SavePoints
    <3>2. s = Last
      BY <1>1, <3>1, Constants DEF StoreInv, SaverInv
    <3> QED
      BY <3>2, <1>2
  <2> QED
    BY <1>2, <2>1, <2>2
<1>8. Between'
  <2> SUFFICES ASSUME NEW r \in Ranks
               PROVE  /\ pc'[r] # "resume"
                      /\ Last' <= At(r)' /\ Reachable(At(r))' /\ Coming(r)' # "end"
    BY DEF Between
  <2>1. At(r)' = s + 1 /\ pc'[r] # "resume"
    BY <1>1, <1>4 DEF At
  <2>2. Coming(r)' # "end"
    BY <1>4 DEF Coming, Saving
  <2>3. Last <= s + 1
    BY <1>2, <1>6, LastStep, Constants
  <2> QED
    BY <1>5, <1>7, <2>1, <2>2, <2>3 DEF Reachable
<1>9. SaverInv'
  <2>1. s + 1 > Last
    BY <1>2, <1>6, LastStep, Constants
  <2>2. (s + 1) % SaveInterval = 0 => s + 1 \in SavePoints
    BY <1>2 DEF SavePoints
  <2> QED
    BY <1>1, <1>4, <1>5, <2>1, <2>2, Constants DEF SaverInv
<1> QED
  BY <1>1, <1>8, <1>9, DiskKept DEF StoreInv

LEMMA MeetingStores ==
    ASSUME RanksInv, StoreInv, Barrier \/ Evaluate
    PROVE  StoreInv'
<1>1. /\ UNCHANGED <<dir, link, victims, ending, global_step>>
      /\ \A r \in Ranks : /\ pc[r] \in {"barrier", "evaluate"} /\ pc[r] = pc[0]
                          /\ pc'[r] \in {"evaluate", "loop", "return"}
                          /\ pc'[r] = "return" => ending[r]
  BY Constants DEF Barrier, Evaluate, Together, storeVars, disk, rankVars, AfterBarrier, EvalOrLoop
<1>2. Last' = Last
  BY <1>1 DEF Last
<1>3. Between'
  <2> SUFFICES ASSUME NEW r \in Ranks
               PROVE  /\ pc'[r] # "resume"
                      /\ Last' <= At(r)' /\ Reachable(At(r))'
                      /\ Coming(r)' = "end" => Last' = TotalSteps
    BY DEF Between
  <2>1. pc'[r] # "resume" /\ At(r)' = At(r)
    BY <1>1 DEF At
  <2>2. Last <= At(r) /\ Reachable(At(r))
    BY <1>1 DEF StoreInv, Between, Alive
  <2>3. ending[r] => Last = TotalSteps
    <3>1. ending[r] = ending[0]
      BY <1>1, Types, Constants DEF RanksInv, Lockstep, Alive, Leaving
    <3> QED
      BY <1>1, <3>1 DEF StoreInv, SaverInv
  <2>4. Coming(r)' = "end" => ending[r]
    BY <1>1 DEF Coming, Saving
  <2> QED
    BY <1>2, <2>1, <2>2, <2>3, <2>4 DEF Reachable
<1>4. SaverInv'
  BY <1>1, <1>2, Constants DEF StoreInv, SaverInv
<1> QED
  BY <1>1, <1>3, <1>4, DiskKept DEF StoreInv

LEMMA ReapStores ==
    ASSUME RanksInv, StoreInv, Reap
    PROVE  StoreInv'
<1>1. /\ UNCHANGED <<dir, link, victims, ending, global_step>>
      /\ \A r \in Ranks : pc'[r] \in {pc[r], "dead"}
  BY DEF Reap, storeVars, disk, rankVars
<1>2. \A q \in Ranks : AsBefore(q)
  BY EndsKeep
<1>3. SaverInv'
  BY <1>1, Constants DEF StoreInv, SaverInv, Whole, Last
<1> QED
  BY <1>1, <1>2, <1>3, BetweenKept, DiskKept DEF StoreInv

-----------------------------------------------------------------------------
(* Saving. *)

\* What is true whenever rank 0 saves.
LEMMA Saver ==
    ASSUME RanksInv, StoreInv, pc[0] \in Saving
    PROVE  /\ global_step[0] \in Steps /\ Last <= global_step[0] /\ Reachable(global_step[0])
           /\ \A q \in Ranks : pc[q] # "resume" /\ Coming(q) # "end"
           /\ \A q \in Ranks : Alive(q) => At(q) = global_step[0]
<1>1. Alive(0) /\ At(0) = global_step[0] /\ Coming(0) = "barrier"
  BY DEF Saving, Alive, At, Coming
<1>2. global_step[0] > 0 /\ global_step[0] \in Steps
  BY Types, Constants DEF RanksInv, InWindow, Steps
<1>3. \A q \in Ranks : pc[q] # "resume"
  BY DEF RanksInv, Resuming
<1>4. \A q \in Ranks : Alive(q) => Coming(q) = "barrier" /\ At(q) = global_step[0]
  BY <1>1, Constants DEF RanksInv, Lockstep
<1>5. \A q \in Ranks : ~Alive(q) => Coming(q) = "dead"
  BY DEF Alive, Coming, Saving
<1> QED
  BY <1>1, <1>2, <1>3, <1>4, <1>5, Constants DEF StoreInv, Between

\* The directory of the step to be saved is changed, which the link does not name.
LEMMA WriteStores ==
    ASSUME RanksInv, StoreInv, pc[0] = "save", UNCHANGED <<link, victims, rankVars>>,
           \A t \in Steps : t # global_step[0] => dir'[t] = dir[t],
           \A q \in Ranks : AsBefore(q), \A q \in Ranks : pc'[q] = "resume" => pc[q] = "resume",
           pc'[0] = "save" \/ (pc'[0] = "link" /\ Whole(global_step[0])')
    PROVE  StoreInv'
<1>1. Last' = Last /\ global_step' = global_step /\ ending' = ending
  BY DEF Last, rankVars
<1>2. /\ global_step[0] \in Steps /\ Reachable(global_step[0]) /\ global_step[0] > Last
      /\ global_step[0] \in SavePoints
  BY Saver DEF Saving, StoreInv, SaverInv
<1>3. DiskInv'
  <2>1. link # None => Whole(link)' /\ link \in SavePoints
    <3> SUFFICES ASSUME link # None PROVE Whole(link)' /\ link \in SavePoints
      OBVIOUS
    <3>1. link \in Steps /\ link # global_step[0] /\ Whole(link) /\ link \in SavePoints
      BY <1>2, LastStep, Constants DEF StoreInv, DiskInv
    <3> QED
      BY <3>1 DEF Whole
  <2>2. ASSUME NEW s \in Steps, dir'[s] # None
        PROVE  Reachable(s)'
    <3>1. Reachable(s)
      BY <1>2, <2>2 DEF StoreInv, DiskInv
    <3> QED
      BY <1>1, <3>1 DEF Reachable
  <2> QED
    BY <2>1, <2>2 DEF DiskInv
<1>4. Between'
  BY <1>1 DEF StoreInv, Between, AsBefore, Reachable
<1>5. SaverInv'
  BY <1>1, <1>2, Constants DEF SaverInv
<1> QED
  BY <1>3, <1>4, <1>5 DEF StoreInv

LEMMA SaveLinkStores ==
    ASSUME RanksInv, StoreInv, SaveLink
    PROVE  StoreInv'
<1> DEFINE s == global_step[0]
<1>1. /\ pc[0] = "link" /\ link' = s /\ victims' = Obsolete /\ UNCHANGED <<dir, global_step, ending>>
      /\ pc' = [pc EXCEPT ![0] = "rotate"] /\ pc'[0] = "rotate"
  BY Types, Constants DEF SaveLink, Goto, rankVars, RanksInv
<1>2. /\ s \in Steps /\ Reachable(s) /\ s > Last /\ s \in SavePoints /\ Whole(s)
      /\ Last' = s
  BY <1>1, Saver, Constants DEF Saving, StoreInv, SaverInv, Last, Steps
<1>3. \A t \in Steps : dir[t] # None => t <= s
  BY <1>2 DEF StoreInv, DiskInv, Reachable
<1>4. \A t \in Steps : t <= s => Reachable(t)'
  <2> SUFFICES ASSUME NEW t \in Steps, t <= s, NEW p \in SavePoints, p > s PROVE t <= p
    BY <1>2 DEF Reachable
  <2>1. p \in Int /\ s \in Int /\ t \in Int
    BY <1>2, LastStep, Constants
  <2> QED
    BY <2>1
<1>5. DiskInv'
  BY <1>1, <1>2, <1>3, <1>4 DEF DiskInv, Whole
<1>6. Between'
  <2> SUFFICES ASSUME NEW r \in Ranks, Alive(r)'
               PROVE  /\ pc'[r] # "resume"
                      /\ Last' <= At(r)' /\ Reachable(At(r))' /\ Coming(r)' # "end"
    BY DEF Between
  <2>1. pc'[r] # "resume" /\ Alive(r) /\ Coming(r)' # "end"
    BY <1>1, Saver, Types, Constants DEF RanksInv, Alive, Saving, Coming
  <2>2. At(r)' = s
    BY <1>1, <2>1, Saver DEF At, Saving
  <2>3. s <= s /\ \A p \in SavePoints : p > s => s <= p
    <3>1. s \in Int /\ SavePoints \subseteq Int
      BY <1>2, LastStep DEF Steps
    <3> QED
      BY <3>1
  <2>4. Reachable(At(r))'
    BY <1>2, <2>2, <2>3 DEF Reachable
  <2> QED
    BY <1>2, <2>1, <2>2, <2>3, <2>4
<1>7. \A t \in Obsolete : t < s
  <2> SUFFICES ASSUME NEW t \in Obsolete PROVE t < s
    OBVIOUS
  <2>1. t \in Steps /\ dir[t] # None /\ keep # 0
    BY DEF Obsolete, Complete
  <2>2. Cardinality({u \in Steps : Complete(u) /\ u > t}) >= keep
    BY <2>1 DEF Obsolete
  <2>3. keep \in Nat
    BY Types, StoreAssumption DEF RanksInv
  <2>4. t # s
    <3> SUFFICES ASSUME t = s PROVE FALSE
      OBVIOUS
    <3>1. {u \in Steps : Complete(u) /\ u > t} = {}
      BY <1>2, <1>3 DEF Complete, Steps
    <3>2. 0 >= keep
      BY <2>2, <3>1, FS_EmptySet
    <3> QED
      BY <2>1, <2>3, <3>2
  <2> QED
    BY <1>2, <1>3, <2>1, <2>4 DEF Steps
<1>8. ending[0] => s = TotalSteps
  BY <1>1, Constants DEF RanksInv, InWindow, Alive
<1>9. SaverInv'
  BY <1>1, <1>2, <1>7, <1>8, Constants DEF SaverInv
<1> QED
  BY <1>5, <1>6, <1>9 DEF StoreInv

LEMMA SaveRotateStores ==
    ASSUME RanksInv, StoreInv, SaveRotate
    PROVE  StoreInv'
<1>1. /\ pc[0] = "rotate" /\ link' = link /\ UNCHANGED <<global_step, ending>>
      /\ link = global_step[0] /\ \A t \in victims : t < link
      /\ pc' \in {pc, [pc EXCEPT ![0] = "barrier"]}
  BY DEF SaveRotate, Goto, rankVars, StoreInv, SaverInv
<1>2. /\ victims' \subseteq victims
      /\ \A t \in Steps : t \notin victims => dir'[t] = dir[t]
      /\ \A t \in Steps : dir'[t] # None => dir[t] # None
  BY RotateKeeps DEF RanksInv
<1>3. global_step[0] \in Steps /\ Last = global_step[0] /\ Last' = Last
  BY <1>1, Saver, Constants DEF Saving, Last, Steps
<1>4. DiskInv'
  <2>1. link \notin victims
    BY <1>1, <1>3 DEF Steps
  <2>2. Whole(link)' /\ link \in SavePoints
    BY <1>1, <1>2, <1>3, <2>1, Constants DEF StoreInv, DiskInv, Whole, Steps
  <2>3. \A s \in Steps : dir'[s] # None => Reachable(s)'
    BY <1>2, <1>3 DEF StoreInv, DiskInv, Reachable
  <2> QED
    BY <1>1, <2>2, <2>3 DEF DiskInv
<1>5. Between'
  <2>1. \A q \in Ranks : AsBefore(q)
    BY SaveKeeps DEF SaveStep
  <2>2. \A q \in Ranks : pc'[q] = "resume" => pc[q] = "resume"
    BY <1>1, Types DEF RanksInv
  <2> QED
    BY <1>1, <1>3, <2>1, <2>2 DEF StoreInv, Between, AsBefore, Reachable
<1>6. pc'[0] \in {"rotate", "barrier"}
  BY <1>1, Types, Constants DEF RanksInv
<1>7. ending[0] => Last = TotalSteps
  BY <1>1 DEF StoreInv, SaverInv
<1>8. SaverInv'
  BY <1>1, <1>2, <1>3, <1>6, <1>7 DEF SaverInv
<1> QED
  BY <1>4, <1>5, <1>8 DEF StoreInv

LEMMA SaveStores ==
    ASSUME RanksInv, StoreInv, SaveStep
    PROVE  StoreInv'
<1>1. \A q \in Ranks : AsBefore(q)
  BY SaveKeeps
<1>2. CASE SaveRemove
  <2>1. pc[0] = "save" /\ pc' = pc /\ UNCHANGED <<link, victims, rankVars>>
    BY <1>2 DEF SaveRemove
  <2>2. \A t \in Steps : t # global_step[0] => dir'[t] = dir[t]
    BY <1>2, <2>1, Saver, ShrinkTyped, Types DEF SaveRemove, Saving, RanksInv
  <2> QED
    BY <1>1, <2>1, <2>2, WriteStores
<1>3. CASE SavePublish
  <2>1. /\ pc[0] = "save" /\ pc' = [pc EXCEPT ![0] = "link"] /\ UNCHANGED <<link, victims, rankVars>>
        /\ dir' = [dir EXCEPT ![global_step[0]] = [files |-> Files, job |-> job]]
    BY <1>3 DEF SavePublish, Publish, Goto
  <2>2. global_step[0] \in Steps /\ dir \in [Steps -> Directory \cup {None}] /\ pc \in [Ranks -> Labels]
    BY <2>1, Saver, Types DEF Saving, RanksInv
  <2>3. pc'[0] = "link" /\ \A q \in Ranks : pc'[q] = "resume" => pc[q] = "resume"
    BY <2>1, <2>2, Constants
  <2>4. dir'[global_step[0]] = [files |-> Files, job |-> job] /\ global_step' = global_step
    BY <2>1, <2>2 DEF rankVars
  <2>5. [files |-> Files, job |-> job] # None
    <3>1. job \in Jobs
      BY <2>1, Types, Constants DEF RanksInv, InWindow, Alive, Jobs
    <3>2. [files |-> Files, job |-> job] \in Directory
      BY <3>1 DEF Directory
    <3> QED
      BY <3>2, StoreAssumption
  <2>6. Whole(global_step[0])'
    BY <2>4, <2>5 DEF Whole
  <2> QED
    BY <1>1, <2>1, <2>2, <2>3, <2>6, WriteStores
<1>4. CASE SaveLink
  BY <1>4, SaveLinkStores
<1>5. CASE SaveRotate
  BY <1>5, SaveRotateStores
<1> QED
  BY <1>2, <1>3, <1>4, <1>5 DEF SaveStep

LEMMA StoreStep == ~Overwrite => (RanksInv /\ StoreInv /\ [Next]_vars => StoreInv')
<1> SUFFICES ASSUME ~Overwrite, RanksInv, StoreInv, [Next]_vars PROVE StoreInv'
  OBVIOUS
<1>1. CASE Finished \/ UNCHANGED vars
  <2>1. UNCHANGED <<dir, link, victims, pc, global_step, ending>>
    BY <1>1 DEF Finished, vars, storeVars, disk, rankVars
  <2> QED
    BY <2>1 DEF StoreInv, DiskInv, Between, SaverInv, Reachable, Last, Whole, Alive, At, Coming
<1>2. CASE Collective
  BY <1>2, OptimizerStepStores, MeetingStores DEF Collective
<1> QED
  BY <1>1, <1>2, LaunchStores, RankStores, SaveStores, ReapStores DEF Next

LEMMA StoreCorrect == ~Overwrite => (Spec => [](RanksInv /\ StoreInv))
<1> SUFFICES ASSUME ~Overwrite PROVE Spec => [](RanksInv /\ StoreInv)
  OBVIOUS
<1>1. RanksInv /\ StoreInv /\ [Next]_vars => RanksInv' /\ StoreInv'
  BY RanksStep, StoreStep
<1> QED
  BY InitRanks, InitStore, <1>1, PTL DEF Spec

\* Whatever has been interrupted (a removal, a rotation, a save between its
\* publication and the link), the latest link names a whole checkpoint, for
\* every max_checkpoints (checkpoint.py:171-248).
THEOREM Loadable == ~Overwrite => (Spec => []LatestLoadable)
<1>1. RanksInv /\ StoreInv => LatestLoadable
  BY DEF StoreInv, DiskInv, LatestLoadable
<1> QED
  BY StoreCorrect, <1>1, PTL

\* A rank that returns has the last step in a whole checkpoint (trainer.py:398-406).
THEOREM LastStepKept == ~Overwrite => (Spec => []ReturnsLastStep)
<1>1. RanksInv /\ StoreInv => ReturnsLastStep
  <2> SUFFICES ASSUME RanksInv, StoreInv, NEW r \in Ranks, pc[r] = "done"
               PROVE  link = TotalSteps /\ Whole(link)
    BY DEF ReturnsLastStep
  <2>1. Last = TotalSteps
    BY DEF StoreInv, Between, Alive, Coming, Saving
  <2>2. link = TotalSteps
    BY <2>1, Constants DEF Last
  <2> QED
    BY <2>2, Constants DEF StoreInv, DiskInv
<1> QED
  BY StoreCorrect, <1>1, PTL

\* The steps a run can be resumed from are the save points in their order: the
\* safety of ImplementsSavedProgress.
THEOREM Refinement ==
    ~Overwrite => (Spec => Progress!Init /\ [][Progress!Advance]_(IF link = None THEN 0 ELSE link))
<1> SUFFICES ASSUME ~Overwrite
             PROVE  Spec => Progress!Init /\ [][Progress!Advance]_(IF link = None THEN 0 ELSE link)
  OBVIOUS
<1>1. Init => Progress!Init
  BY DEF Init, StoreInit, Progress!Init
<1>2. RanksInv /\ StoreInv /\ [Next]_vars => [Progress!Advance]_(IF link = None THEN 0 ELSE link)
  <2> SUFFICES ASSUME RanksInv, StoreInv, [Next]_vars, link' # link
               PROVE  Progress!Advance
    OBVIOUS
  <2>1. SaveLink
    BY DEF Next, Launch, RankStep, Resume, TrainBatch, LeaveLoop, Return, Fail, SaveStep,
           SaveRemove, SavePublish, SaveRotate, Collective, OptimizerStep, Barrier, Evaluate, Reap,
           Finished, vars, storeVars, disk
  <2>2. /\ link' = global_step[0] /\ global_step[0] \in SavePoints /\ global_step[0] > Last
        /\ global_step[0] \in Steps /\ Reachable(global_step[0])
    BY <2>1, Saver DEF SaveLink, Saving, StoreInv, SaverInv
  <2>3. /\ \A q \in SavePoints : q > Last => q >= global_step[0]
        /\ link' # None
    BY <2>2, LastStep, Constants DEF Reachable, Steps
  <2> QED
    BY <2>2, <2>3 DEF Progress!Advance, Last
<1>3. Spec => [](RanksInv /\ StoreInv)
  BY StoreCorrect
<1> QED
  BY <1>1, <1>2, <1>3, PTL DEF Spec
=============================================================================
