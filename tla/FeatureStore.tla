----------------------------- MODULE FeatureStore -----------------------------
(***************************************************************************)
(* Finetuning/capture_features.py: how the offline feature store is        *)
(* captured, published and merged.  A process keeps the features it has    *)
(* captured in a staging directory beside its store, moves them into a     *)
(* fresh generation when it has them all, and then replaces the manifest   *)
(* that readers follow.  In a torchrun job every rank does so for a store  *)
(* of its own and rank 0 merges them.                                      *)
(*                                                                         *)
(* A feature is named by the index of its example; <<i, j>> stands for the *)
(* file of example i as job j captures it.  The window a process gathers   *)
(* is left out: within it the files appear in an order of lengths, here in *)
(* any order.                                                              *)
(*                                                                         *)
(* An operator A_Change is action or operator A with a plausible mistake   *)
(* in it, to show that a property would notice; no action uses one.        *)
(***************************************************************************)
EXTENDS Naturals, FiniteSets

CONSTANTS
    Jobs,        \* what a capture is run on: an input, a target, budgets
    Size,        \* job -> number of examples in its input
    Contract,    \* job -> what its manifest says of target and budgets
    Worlds,      \* world sizes a capture may be launched with
    MaxLaunches, \* bound on the number of launches
    Faults,      \* subset of {"raise", "kill", "clock"}
    MaxFaults,   \* bound on the number of faults in a behaviour
    Whole,       \* the store itself, beside those of the ranks
    Merged,      \* the staging directory of the merge
    None         \* no manifest

ASSUME JobsAssumption ==
    /\ Size \in [Jobs -> Nat]
    /\ DOMAIN Contract = Jobs
ASSUME WorldsAssumption == Worlds \subseteq Nat \ {0} /\ IsFiniteSet(Worlds)
ASSUME BoundsAssumption == MaxLaunches \in Nat /\ MaxFaults \in Nat
ASSUME FaultsAssumption == Faults \subseteq {"raise", "kill", "clock"}
ASSUME NamesAssumption ==
    /\ Whole \notin Nat /\ Merged \notin Nat /\ Whole # Merged
    /\ None \notin [gen : Nat, contract : {Contract[j] : j \in Jobs}]

VARIABLES
    job,        \* what the job that runs, or ran last, captures
    world,      \* its world size
    launches,   \* launches so far; also the wall clock's second
    staging,    \* features in a staging directory
    gens,       \* store -> second -> features of that generation
    manifest,   \* store -> the generation readers find, and its contract
    stray,      \* stores with a temporary file of a manifest left in them
    filling,    \* the generation a process moves its features to
    merging,    \* rank 0 publishes the merge
    pc,         \* where a rank is
    faults      \* faults so far

vars == <<job, world, launches, staging, gens, manifest, stray, filling, merging, pc,
          faults>>
disk == <<staging, gens, manifest, stray>>

Ranks == UNION {0 .. w - 1 : w \in Worlds}
Job == {r \in Ranks : r < world}
Names == Ranks \cup {Whole}
Seconds == 1 .. MaxLaunches
Ended == {"exit", "dead"}
Publishing == {"name", "move", "temp", "replace"}

Indices(F) == {f[1] : f \in F}
Owned(r) == {i \in 0 .. Size[job] - 1 : i % world = r}

\* What a reader of store n finds behind its manifest.
Behind(n) == gens[n][manifest[n].gen]

\* ranked_path, and what _publish_feature_generation is called with
RankedPath(r) == IF world = 1 THEN Whole ELSE r
Target(r) == IF merging THEN Whole ELSE RankedPath(r)
Staged(r) == IF merging THEN Merged ELSE RankedPath(r)

Init ==
    /\ job \in Jobs
    /\ world \in Worlds
    /\ launches = 0
    /\ staging = [n \in Names \cup {Merged} |-> {}]
    /\ gens = [n \in Names |-> [t \in Seconds |-> {}]]
    /\ manifest = [n \in Names |-> None]
    /\ stray = {}
    /\ filling = [r \in Ranks |-> 0]
    /\ merging = FALSE
    /\ pc = [r \in Ranks |-> "exit"]
    /\ faults = 0

Launch(j, w) ==
    /\ \A r \in Ranks : pc[r] \in Ended
    /\ launches < MaxLaunches
    /\ launches' = launches + 1
    /\ job' = j
    /\ world' = w
    /\ merging' = FALSE
    /\ pc' = [r \in Ranks |-> IF r < w THEN "start" ELSE "exit"]
    /\ UNCHANGED <<disk, filling, faults>>

Idle ==
    /\ \A r \in Ranks : pc[r] \in Ended
    /\ launches = MaxLaunches
    /\ UNCHANGED vars

Goto(r, label) == pc' = [pc EXCEPT ![r] = label]
Fault(f) == f \in Faults /\ faults < MaxFaults /\ faults' = faults + 1

\* The store must hold nothing but features and a manifest, and there must be
\* an example; a rank of a job (allow_empty) may have none and publishes nothing.
Begin(r) ==
    /\ pc[r] = "start"
    /\ Goto(r, IF RankedPath(r) \in stray THEN "dead"
               ELSE IF Owned(r) # {} THEN "capture"
               ELSE IF world > 1 THEN "sync" ELSE "dead")
    /\ UNCHANGED <<job, world, launches, disk, filling, merging, faults>>

\* Captures an example whose index no file of the staging directory has; the
\* file is complete when it appears.
Capture(r) ==
    /\ pc[r] = "capture"
    /\ \E i \in Owned(r) \ Indices(staging[RankedPath(r)]) :
          staging' = [staging EXCEPT ![RankedPath(r)] = @ \cup {<<i, job>>}]
    /\ UNCHANGED <<job, world, launches, gens, manifest, stray, filling, merging, pc, faults>>

Captured(r) ==
    /\ pc[r] = "capture"
    /\ Owned(r) \subseteq Indices(staging[RankedPath(r)])
    /\ Goto(r, "name")
    /\ UNCHANGED <<job, world, launches, disk, filling, merging, faults>>

Name_Unversioned(r) ==
    /\ pc[r] = "name"
    /\ gens' = [gens EXCEPT ![Target(r)][1] = {}]
    /\ filling' = [filling EXCEPT ![r] = 1]
    /\ Goto(r, "move")
    /\ UNCHANGED <<job, world, launches, staging, manifest, stray, merging, faults>>

\* A generation is named by the second and starts empty, whatever had its name.
\* Launches are seconds apart; a clock that is set back repeats one.  That of a
\* merge has a random name as well, which never comes back.
Name(r) ==
    /\ pc[r] = "name"
    /\ \E t \in 1 .. launches :
          /\ \/ t = launches /\ UNCHANGED faults
             \/ t < launches /\ ~merging /\ Fault("clock")
          /\ gens' = [gens EXCEPT ![Target(r)][t] = {}]
          /\ filling' = [filling EXCEPT ![r] = t]
    /\ Goto(r, "move")
    /\ UNCHANGED <<job, world, launches, staging, manifest, stray, merging>>

Move(r) ==
    /\ pc[r] = "move"
    /\ \E f \in staging[Staged(r)] :
          /\ staging' = [staging EXCEPT ![Staged(r)] = @ \ {f}]
          /\ gens' = [gens EXCEPT ![Target(r)][filling[r]] = @ \cup {f}]
    /\ UNCHANGED <<job, world, launches, manifest, stray, filling, merging, pc, faults>>

Moved(r) ==
    /\ pc[r] = "move"
    /\ staging[Staged(r)] = {}
    /\ Goto(r, "temp")
    /\ UNCHANGED <<job, world, launches, disk, filling, merging, faults>>

\* _atomic_json_save: a temporary file in the store, renamed to the manifest.
Temp(r) ==
    /\ pc[r] = "temp"
    /\ stray' = stray \cup {Target(r)}
    /\ Goto(r, "replace")
    /\ UNCHANGED <<job, world, launches, staging, gens, manifest, filling, merging, faults>>

Shards == {q \in Job : manifest[q] # None}

Replace(r) ==
    /\ pc[r] = "replace"
    /\ manifest' = [manifest EXCEPT ![Target(r)] =
          [gen |-> filling[r],
           contract |-> IF merging THEN manifest[CHOOSE q \in Shards : TRUE].contract
                        ELSE Contract[job]]]
    /\ stray' = stray \ {Target(r)}
    /\ Goto(r, IF merging THEN "exit" ELSE "sync")
    /\ UNCHANGED <<job, world, launches, staging, gens, filling, merging, faults>>

\* Rank 0 does not wait for the others.
Sync_Alone(r) ==
    /\ pc[r] = "sync"
    /\ Goto(r, IF r = 0 /\ world > 1 THEN "merge" ELSE "exit")
    /\ UNCHANGED <<job, world, launches, disk, filling, merging, faults>>

\* The all-reduce of the statistics and the barrier behind it.
Sync(r) ==
    /\ pc[r] = "sync"
    /\ \A q \in Job : pc[q] \in {"sync", "merge", "exit"} \/ (q = 0 /\ merging)
    /\ Goto(r, IF r = 0 /\ world > 1 THEN "merge" ELSE "exit")
    /\ UNCHANGED <<job, world, launches, disk, filling, merging, faults>>

\* merge_feature_shards: copies what is behind the manifests of the ranks,
\* which must agree and name no feature twice.
Mergeable ==
    /\ Whole \notin stray
    /\ \E q \in Shards : Behind(q) # {}
    /\ \A p, q \in Shards :
          /\ manifest[p].contract = manifest[q].contract
          /\ p # q => Indices(Behind(p)) \cap Indices(Behind(q)) = {}

Merge(r) ==
    /\ pc[r] = "merge"
    /\ IF Mergeable
       THEN /\ staging' = [staging EXCEPT ![Merged] = UNION {Behind(q) : q \in Shards}]
            /\ merging' = TRUE
            /\ Goto(r, "name")
       ELSE Goto(r, "dead") /\ UNCHANGED <<staging, merging>>
    /\ UNCHANGED <<job, world, launches, gens, manifest, stray, filling, faults>>

\* The temporary file is not removed.
Raise_KeepsTemporary(r) ==
    /\ pc[r] \notin Ended
    /\ Fault("raise")
    /\ Goto(r, "dead")
    /\ UNCHANGED <<job, world, launches, disk, filling, merging>>

\* An exception: out of memory, a full disk.  Files are left as they are but
\* for the temporary one.
Raise(r) ==
    /\ pc[r] \notin Ended
    /\ Fault("raise")
    /\ stray' = IF pc[r] = "replace" THEN stray \ {Target(r)} ELSE stray
    /\ Goto(r, "dead")
    /\ UNCHANGED <<job, world, launches, staging, gens, manifest, filling, merging>>

\* A process is killed, or ended by torchrun because another rank has failed.
Kill(r) ==
    /\ pc[r] \notin Ended
    /\ \/ Fault("kill")
       \/ (\E q \in Job : pc[q] = "dead") /\ UNCHANGED faults
    /\ Goto(r, "dead")
    /\ UNCHANGED <<job, world, launches, disk, filling, merging>>

RankStep(r) ==
    \/ Begin(r) \/ Capture(r) \/ Captured(r) \/ Name(r) \/ Move(r) \/ Moved(r)
    \/ Temp(r) \/ Replace(r) \/ Sync(r) \/ Merge(r)

Next ==
    \/ \E j \in Jobs, w \in Worlds : Launch(j, w)
    \/ \E r \in Ranks : RankStep(r) \/ Raise(r) \/ Kill(r)
    \/ Idle

Spec == Init /\ [][Next]_vars

\* The capture is started again as often as MaxLaunches allows, processes that
\* can run do, and torchrun ends the ranks left over by a failed one.
FairSpec ==
    /\ Spec
    /\ WF_vars(\E j \in Jobs, w \in Worlds : Launch(j, w))
    /\ \A r \in Ranks : WF_vars(RankStep(r))
    /\ \A r \in Ranks : WF_vars(Kill(r) /\ faults' = faults)

-----------------------------------------------------------------------------
Complete(j) == {<<i, j>> : i \in 0 .. Size[j] - 1}

\* A reader who follows the manifest finds every feature of one job's input
\* and none else ("a loader either sees the old manifest/generation or the new
\* one, never a partial mixture", capture_features.py:746-747).
StoreWhole ==
    manifest[Whole] # None =>
        \E j \in Jobs : /\ Contract[j] = manifest[Whole].contract
                        /\ Behind(Whole) = Complete(j)

\* A generation a manifest has ever named is never changed, so a reader that
\* has read the manifest keeps what it found ("immutable generation",
\* capture_features.py:130).
GenerationsImmutable ==
    [][\A n \in Names : manifest[n] # None =>
          gens'[n][manifest[n].gen] = gens[n][manifest[n].gen]]_vars

\* What the manifest says of target and budgets is true of every feature
\* behind it: the check of the manifest before training (README.md:129-131)
\* is worth that much.
ManifestTruthful ==
    manifest[Whole] # None =>
        \A f \in Behind(Whole) : Contract[f[2]] = manifest[Whole].contract

\* A capture that is started again after errors ends with a published store
\* ("the capture can safely be run again after an error", README.md:131-133).
EventuallyStored == <>[](manifest[Whole] # None)

=============================================================================
