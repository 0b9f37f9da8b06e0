----------------------------- MODULE BenchCell -----------------------------
(***************************************************************************)
(* Benchmark/run_longbench_200.py: one cell (a baseline on a dataset) of a *)
(* benchmark run.  The samples are measured by one child process, or by    *)
(* several at once on the GPU groups that have room; shards that ran out   *)
(* of memory are run again alone; what is still missing is tried sample by *)
(* sample; and a file with a row for every sample is published.            *)
(*                                                                         *)
(* A child is the rows it has written.  What another user of the machine   *)
(* does to the memory of the GPUs is chosen anew at every look at it.      *)
(* Exceptions of the orchestration are those of a run with                 *)
(* --continue-on-error (the default), which go on with the next step.      *)
(*                                                                         *)
(* An operator A_Change is action or operator A with a plausible mistake   *)
(* in it, to show that a property would notice; no action uses one.        *)
(***************************************************************************)
EXTENDS Integers, Sequences, FiniteSets, FiniteSetsExt

CONSTANTS
    N,               \* number of samples
    Weights,         \* lengths of the samples
    Groups,          \* number of GPU groups
    PerGroup,        \* --processes-per-gpu
    MaxRoom,         \* most processes that ever fit beside other users
    OomRetries,      \* rounds in which shards without memory are run again
    SampleRetries,   \* attempts at one sample
    Modes,           \* subset of {"single", "parallel"}
    None             \* no row, no child

Samples == 1 .. N
Shards == 1 .. N
Solo == 0                      \* the child that is run for one sample
Children == {Solo} \cup Shards

ASSUME CellAssumption ==
    /\ N \in Nat \ {0}
    /\ Weights \in [Samples -> Nat]
    /\ Groups \in Nat \ {0} /\ PerGroup \in Nat \ {0} /\ MaxRoom \in Nat
    /\ OomRetries \in Nat /\ SampleRetries \in Nat
    /\ Modes \subseteq {"single", "parallel"}
    /\ None \notin {"success", "failed", "omitted", "timeout", "running", "exited", "crashed"}

VARIABLES
    mode,        \* one child for the cell, or one for each shard
    phase,       \* where the orchestrator is
    room,        \* group -> processes that fitted at the last look
    slots,       \* the groups of the shards that were planned
    shard,       \* sample -> the shard it belongs to
    child,       \* child -> None, "running" or how it ended
    gpu,         \* child -> the group it runs on
    rows,        \* sample -> its row in the file of the child that has it
    torn,        \* children in whose file a line is cut short
    oomlog,      \* shards whose first log shows an allocation failure
    expired,     \* the deadline has passed
    verdict,     \* shard -> None, "success", "failed" or "timeout"
    turn,        \* the shard that is started or awaited
    spot,        \* the group of the present round of retries
    queue,       \* shards or samples still to be retried
    attempt,     \* rounds, or attempts at the sample, so far
    successful,  \* samples with a success row in memory
    output       \* sample -> its row in the output file

planVars == <<mode, slots, shard>>
childVars == <<child, gpu, rows, torn, oomlog>>
retryVars == <<spot, queue, attempt>>
resultVars == <<successful, output>>
vars == <<planVars, phase, room, childVars, expired, verdict, turn, retryVars, resultVars>>

GroupIds == 1 .. Groups
Running == {c \in Children : child[c] = "running"}
NoRows == [s \in Samples |-> None]

(***************************************************************************)
(* shard_indices for samples of the lengths w: longest first, always to an *)
(* empty shard if there is one, else to the lightest; ties go to the lower *)
(* index.  An assignment is sample -> shard, 0 for a sample without one.   *)
(***************************************************************************)
Place(w, s) ==
    1 + Cardinality({t \in DOMAIN w : w[t] > w[s] \/ (w[t] = w[s] /\ t < s)})

Taken(a, b) == \E s \in DOMAIN a : a[s] = b
Load(w, a, b) == MapThenSumSet(LAMBDA s : w[s], {s \in DOMAIN a : a[s] = b})

\* Where the next sample goes, when a says where the earlier ones went.
Target(w, a, n) ==
    LET lighter(b, c) ==
            \/ ~Taken(a, b) /\ Taken(a, c)
            \/ /\ Taken(a, b) = Taken(a, c)
               /\ \/ Load(w, a, b) < Load(w, a, c)
                  \/ Load(w, a, b) = Load(w, a, c) /\ b < c
    IN  CHOOSE b \in 1 .. n : \A c \in (1 .. n) \ {b} : lighter(b, c)

ShardOf(w, n) ==
    LET placed[k \in 0 .. Len(w)] ==
            IF k = 0 THEN [s \in DOMAIN w |-> 0]
            ELSE LET before == placed[k - 1]
                     target == Target(w, before, n)
                 IN  [s \in DOMAIN w |-> IF Place(w, s) = k THEN target ELSE before[s]]
    IN  placed[Len(w)]

\* plan_shard_slots: what was asked for and fits, group by group, without empty
\* shards.
SlotsFor(free, perGroup, count) ==
    LET places == {p \in GroupIds \X (1 .. perGroup) : p[2] <= free[p[1]]}
        before(p) == {q \in places : q[1] < p[1] \/ (q[1] = p[1] /\ q[2] < p[2])}
        place(k) == CHOOSE p \in places : Cardinality(before(p)) = k - 1
    IN  [k \in 1 .. Min({count, Cardinality(places)}) |-> place(k)[1]]

Init ==
    /\ mode \in Modes
    /\ phase = "plan"
    /\ room = [g \in GroupIds |-> 0]
    /\ slots = << >> /\ shard = [s \in Samples |-> 0]
    /\ child = [c \in Children |-> None] /\ gpu = [c \in Children |-> 0]
    /\ rows = NoRows /\ torn = {} /\ oomlog = {} /\ expired = FALSE
    /\ verdict = [b \in Shards |-> None] /\ turn = 0
    /\ spot = 0 /\ queue = {} /\ attempt = 0
    /\ successful = {} /\ output = NoRows

----------------------------------------------------------------------------
(* The children. *)

FilesOf(c) == IF c = Solo THEN {Min(queue)} ELSE {s \in Samples : shard[s] = c}
Pending(c) == {s \in FilesOf(c) : rows[s] = None}

\* A child takes the samples in their order and writes a row for each, or
\* leaves one out.
Write(c) ==
    /\ child[c] = "running" /\ Pending(c) # {}
    /\ \E r \in {"success", "failed", "omitted"} : rows' = [rows EXCEPT ![Min(Pending(c))] = r]
    /\ UNCHANGED <<planVars, phase, room, child, gpu, torn, oomlog, expired, verdict, turn,
                   retryVars, resultVars>>

\* What its log shows of the memory; only the first log of a shard is read.
Logged(c) ==
    \/ UNCHANGED oomlog
    \/ mode = "parallel" /\ phase \in {"spawn", "await"} /\ oomlog' = oomlog \cup {c}

\* The end of a line may be missing when a child dies; nobody reads the file
\* of a shard that did.
Cut(c) == torn' \in {torn, IF mode = "single" \/ c = Solo THEN torn \cup {c} ELSE torn}

Exit(c) ==
    /\ child[c] = "running" /\ Pending(c) = {}
    /\ child' = [child EXCEPT ![c] = "exited"]
    /\ Logged(c)
    /\ UNCHANGED <<planVars, phase, room, gpu, rows, torn, expired, verdict, turn,
                   retryVars, resultVars>>

Crash(c) ==
    /\ child[c] = "running"
    /\ child' = [child EXCEPT ![c] = "crashed"]
    /\ Logged(c) /\ Cut(c)
    /\ UNCHANGED <<planVars, phase, room, gpu, rows, expired, verdict, turn,
                   retryVars, resultVars>>

Deadline_CellOnly ==
    /\ phase = "await" /\ ~expired
    /\ expired' = TRUE
    /\ UNCHANGED <<planVars, phase, room, childVars, verdict, turn, retryVars, resultVars>>

Deadline ==
    /\ phase \in {"await", "await shard", "await sample"} /\ ~expired
    /\ expired' = TRUE
    /\ UNCHANGED <<planVars, phase, room, childVars, verdict, turn, retryVars, resultVars>>

\* _spawn_child with an output file of its own.
Spawned(c, g) ==
    /\ child' = [child EXCEPT ![c] = "running"]
    /\ gpu' = [gpu EXCEPT ![c] = g]
    /\ rows' = [s \in Samples |-> IF s \in FilesOf(c) THEN None ELSE rows[s]]
    /\ torn' = torn \ {c}

\* _await_child: the child has ended, or the time is up and it is killed.
Collected(c) ==
    /\ child' = [child EXCEPT ![c] = None]
    /\ \/ child[c] # "running" /\ UNCHANGED <<torn, oomlog>>
       \/ child[c] = "running" /\ expired /\ Logged(c) /\ Cut(c)

\* _finalize: an exit without an error counts when there is a row for every
\* sample of the shard, whatever the row says.
Finalized(b) ==
    IF child[b] = "running" THEN "timeout"
    ELSE IF child[b] = "exited" /\ \A s \in FilesOf(b) : rows[s] # "omitted"
    THEN "success" ELSE "failed"

\* A shard's file is kept to be merged, or never looked at again.
Kept(b) ==
    /\ verdict' = [verdict EXCEPT ![b] = Finalized(b)]
    /\ rows' = IF Finalized(b) = "success" THEN rows
               ELSE [s \in Samples |-> IF s \in FilesOf(b) THEN None ELSE rows[s]]

----------------------------------------------------------------------------
(* _run_data_parallel_cell, and the single child of _execute_cell_once. *)

\* The guard of the memory refuses a single child: a row says so for every
\* sample, and the cell is over.
Guarded ==
    /\ phase = "plan" /\ mode = "single"
    /\ output' = [s \in Samples |-> "failed"]
    /\ phase' = "done"
    /\ UNCHANGED <<planVars, room, childVars, expired, verdict, turn, retryVars, successful>>

PlanSingle ==
    /\ phase = "plan" /\ mode = "single"
    /\ slots' = <<1>> /\ shard' = [s \in Samples |-> 1]
    /\ turn' = 1 /\ phase' = "spawn"
    /\ UNCHANGED <<mode, room, childVars, expired, verdict, retryVars, resultVars>>

PlanShards ==
    /\ phase = "plan" /\ mode = "parallel"
    /\ \E free \in [GroupIds -> 0 .. MaxRoom] :
          LET planned == SlotsFor(free, PerGroup, N)
          IN  /\ room' = free
              /\ slots' = planned
              /\ IF planned = << >>
                 THEN phase' = "reconcile" /\ UNCHANGED <<shard, turn>>
                 ELSE phase' = "spawn" /\ turn' = 1 /\ shard' = ShardOf(Weights, Len(planned))
    /\ UNCHANGED <<mode, childVars, expired, verdict, retryVars, resultVars>>

Spawn ==
    /\ phase = "spawn"
    /\ Spawned(turn, slots[turn])
    /\ IF turn < Len(slots) THEN turn' = turn + 1 /\ UNCHANGED phase
       ELSE turn' = 1 /\ phase' = "await"
    /\ UNCHANGED <<planVars, room, oomlog, expired, verdict, retryVars, resultVars>>

SpawnFails_LeaveOthers ==
    /\ phase = "spawn"
    /\ phase' = "reconcile"
    /\ UNCHANGED <<planVars, room, childVars, expired, verdict, turn, retryVars, resultVars>>

\* _cleanup_spawned_children; the exception ends the attempt at the cell, and
\* nothing of the files of its shards is merged.
SpawnFails ==
    /\ phase = "spawn"
    /\ child' = [c \in Children |-> IF c \in Running THEN None ELSE child[c]]
    /\ rows' = NoRows
    /\ phase' = "reconcile"
    /\ UNCHANGED <<planVars, room, gpu, torn, oomlog, expired, verdict, turn,
                   retryVars, resultVars>>

\* The only child has written the output file itself, up to the line that was
\* cut short if one was.
AwaitSingle ==
    /\ phase = "await" /\ mode = "single"
    /\ Collected(1)
    /\ output' = [s \in Samples |-> IF rows[s] = "omitted" THEN None ELSE rows[s]]
    /\ phase' = "reconcile"
    /\ UNCHANGED <<planVars, room, gpu, rows, expired, verdict, turn, retryVars,
                   successful>>

\* One deadline for all shards, which are awaited in their order.
AwaitShards ==
    /\ phase = "await" /\ mode = "parallel"
    /\ Collected(turn)
    /\ Kept(turn)
    /\ IF turn < Len(slots) THEN turn' = turn + 1 /\ UNCHANGED phase
       ELSE turn' = turn /\ phase' = "rounds"
    /\ UNCHANGED <<planVars, room, gpu, expired, retryVars, resultVars>>

OutOfMemory == {b \in 1 .. Len(slots) : verdict[b] # "success" /\ b \in oomlog}

\* A round finds a group for the shards that lacked memory, or gives up.
OomRound ==
    /\ phase = "rounds" /\ OutOfMemory # {} /\ attempt < OomRetries
    /\ \E free \in [GroupIds -> 0 .. MaxRoom] :
          LET planned == SlotsFor(free, 1, 1)
          IN  /\ room' = free
              /\ IF planned = << >>
                 THEN phase' = "merge" /\ UNCHANGED <<spot, queue>>
                 ELSE phase' = "shard" /\ spot' = planned[1] /\ queue' = OutOfMemory
    /\ attempt' = attempt + 1
    /\ UNCHANGED <<planVars, childVars, expired, verdict, turn, resultVars>>

RetryShard_OldGroup ==
    /\ phase = "shard"
    /\ Spawned(Min(queue), slots[Min(queue)])
    /\ expired' = FALSE /\ phase' = "await shard"
    /\ UNCHANGED <<planVars, room, oomlog, verdict, turn, retryVars, resultVars>>

\* The shard runs alone, on the group that has room, for as long as a cell.
RetryShard ==
    /\ phase = "shard"
    /\ Spawned(Min(queue), spot)
    /\ expired' = FALSE /\ phase' = "await shard"
    /\ UNCHANGED <<planVars, room, oomlog, verdict, turn, retryVars, resultVars>>

\* The exception ends the attempt at the cell; the shards that succeeded are not
\* merged either.
RetryShardFails ==
    /\ phase = "shard"
    /\ rows' = NoRows
    /\ phase' = "reconcile"
    /\ UNCHANGED <<planVars, room, child, gpu, torn, oomlog, expired, verdict, turn,
                   retryVars, resultVars>>

AwaitShard ==
    /\ phase = "await shard"
    /\ Collected(Min(queue))
    /\ Kept(Min(queue))
    /\ queue' = queue \ {Min(queue)}
    /\ phase' = IF queue' = {} THEN "rounds" ELSE "shard"
    /\ UNCHANGED <<planVars, room, gpu, expired, turn, spot, attempt,
                   resultVars>>

RoundsOver ==
    /\ phase = "rounds" /\ (OutOfMemory = {} \/ attempt = OomRetries)
    /\ phase' = "merge"
    /\ UNCHANGED <<planVars, room, childVars, expired, verdict, turn, retryVars, resultVars>>

\* _merge_shard_outputs: the rows of the shards that succeeded.
Merge ==
    /\ phase = "merge"
    /\ output' = [s \in Samples |-> IF verdict[shard[s]] = "success" THEN rows[s] ELSE None]
    /\ phase' = "reconcile"
    /\ UNCHANGED <<planVars, room, childVars, expired, verdict, turn, retryVars, successful>>

----------------------------------------------------------------------------
(* _retry_unresolved_samples and _rewrite_safe_cell_output. *)

\* A line cut short makes the whole output file unreadable.
Unreadable == mode = "single" /\ 1 \in torn

\* The cell's own results, logs and counters end with the call.
Forget ==
    /\ attempt' = 0 /\ turn' = 0
    /\ room' = [g \in GroupIds |-> 0]
    /\ child' = [c \in Children |-> IF c \in Running THEN child[c] ELSE None]
    /\ verdict' = [b \in Shards |-> None]
    /\ gpu' = [c \in Children |-> IF c \in Running THEN gpu[c] ELSE 0]
    /\ rows' = NoRows /\ oomlog' = {} /\ expired' = FALSE /\ spot' = 0
    /\ torn' = IF Unreadable THEN {1} ELSE {}
    /\ slots' = << >> /\ shard' = [s \in Samples |-> 0]

Reconcile_ForgetKept ==
    /\ phase = "reconcile"
    /\ successful' = {}
    /\ queue' = {s \in Samples : output[s] # "success"}
    /\ phase' = IF queue' = {} THEN "done" ELSE "sample"
    /\ Forget
    /\ UNCHANGED <<mode, output>>

\* A file with a success row for every sample stays as it is; of one that cannot
\* be read every sample is run again.
Reconcile ==
    /\ phase = "reconcile"
    /\ successful' = IF Unreadable THEN {} ELSE {s \in Samples : output[s] = "success"}
    /\ queue' = Samples \ successful'
    /\ phase' = IF queue' = {} THEN "done" ELSE "sample"
    /\ Forget
    /\ UNCHANGED <<mode, output>>

NextSample(q) == queue' = q /\ attempt' = 0

\* A child for one sample; without room for it the sample is given up.
RetrySample ==
    /\ phase = "sample" /\ queue # {} /\ attempt < SampleRetries
    /\ \/ /\ mode = "single"
          /\ Spawned(Solo, 1) /\ UNCHANGED <<room, queue, attempt>>
          /\ phase' = "await sample"
       \/ /\ mode = "parallel"
          /\ \E free \in [GroupIds -> 0 .. MaxRoom] :
                LET planned == SlotsFor(free, 1, 1)
                IN  /\ room' = free
                    /\ IF planned = << >>
                       THEN /\ NextSample(queue \ {Min(queue)})
                            /\ UNCHANGED <<phase, child, gpu, rows, torn>>
                       ELSE /\ Spawned(Solo, planned[1]) /\ UNCHANGED <<queue, attempt>>
                            /\ phase' = "await sample"
    /\ expired' = FALSE
    /\ UNCHANGED <<planVars, oomlog, verdict, turn, spot, resultVars>>

\* An exception costs the attempt.
RetrySampleFails ==
    /\ phase = "sample" /\ queue # {} /\ attempt < SampleRetries
    /\ attempt' = attempt + 1
    /\ UNCHANGED <<planVars, phase, room, childVars, expired, verdict, turn, spot, queue,
                   resultVars>>

\* A success row counts however the child ended, if its file can be read.
AwaitSample ==
    /\ phase = "await sample"
    /\ Collected(Solo)
    /\ IF Solo \notin torn' /\ rows[Min(queue)] = "success"
       THEN /\ successful' = successful \cup {Min(queue)}
            /\ NextSample(queue \ {Min(queue)})
       ELSE attempt' = attempt + 1 /\ UNCHANGED <<successful, queue>>
    /\ rows' = NoRows
    /\ phase' = "sample"
    /\ UNCHANGED <<planVars, room, gpu, expired, verdict, turn, spot, output>>

Exhausted ==
    /\ phase = "sample" /\ queue # {} /\ attempt = SampleRetries
    /\ NextSample(queue \ {Min(queue)})
    /\ UNCHANGED <<planVars, phase, room, childVars, expired, verdict, turn, spot, resultVars>>

Publish_Successes ==
    /\ phase = "sample" /\ queue = {}
    /\ output' = [s \in Samples |-> IF s \in successful THEN "success" ELSE None]
    /\ phase' = "done"
    /\ UNCHANGED <<planVars, room, childVars, expired, verdict, turn, retryVars, successful>>

Publish ==
    /\ phase = "sample" /\ queue = {}
    /\ output' = [s \in Samples |-> IF s \in successful THEN "success" ELSE "failed"]
    /\ phase' = "done"
    /\ UNCHANGED <<planVars, room, childVars, expired, verdict, turn, retryVars, successful>>

----------------------------------------------------------------------------
Child == \E c \in Children : Write(c) \/ Exit(c) \/ Crash(c)

Orchestrate ==
    \/ Guarded \/ PlanSingle \/ PlanShards \/ Spawn \/ SpawnFails
    \/ AwaitSingle \/ AwaitShards \/ OomRound \/ RetryShard \/ RetryShardFails
    \/ AwaitShard \/ RoundsOver \/ Merge \/ Reconcile \/ RetrySample
    \/ RetrySampleFails \/ AwaitSample \/ Exhausted \/ Publish

Next == Child \/ Deadline \/ Orchestrate

Spec == Init /\ [][Next]_vars

----------------------------------------------------------------------------
(* Properties. *)

\* A finished cell has a row for every sample, however its children ended: a
\* failure row for one that was never measured
\* (docs/vietbench_evaluation.md:83-85).
Accounted ==
    phase = "done" =>
        \A s \in Samples : output[s] = IF s \in successful THEN "success" ELSE "failed"

\* No group ever has more children than were asked for and fitted there when
\* the orchestrator last looked, in the first start and in every retry.
FitsBudget ==
    mode = "parallel" =>
        \A g \in GroupIds :
            Cardinality({c \in Running : gpu[c] = g}) <= Min({PerGroup, room[g]})

\* A retry has the machine to itself, and nothing runs while files are merged
\* and published: a child that was given up is dead.
Alone ==
    /\ phase \in {"await shard", "await sample"} => Cardinality(Running) <= 1
    /\ phase \notin {"spawn", "await", "await shard", "await sample"} => Running = {}

\* A success row is known while the orchestrator may still take it up: from the
\* file of a child, from the output file, or from its memory.
Known(s) == rows[s] = "success" \/ output[s] = "success" \/ s \in successful

\* The rows of a child are given up together, and only
\*   - when a shard ends otherwise than well or is killed,
\*   - when a shard cannot be started: the results of all others go with it,
\*   - when the attempt at one sample leaves a line cut short,
\*   - when the single child of the cell did: its file is replaced by one that
\*     has what the attempts at single samples found.
GivenUp(s) ==
    \/ /\ \/ phase = "await" /\ shard[s] = turn
          \/ phase = "await shard" /\ shard[s] = Min(queue)
       /\ child'[shard[s]] = None /\ verdict'[shard[s]] \in {"failed", "timeout"}
    \/ phase \in {"spawn", "shard"} /\ phase' = "reconcile"
    \/ phase = "await sample" /\ s = Min(queue) /\ Solo \in torn'
    \/ Unreadable /\ phase' = "done"

\* A result is lost in no other way: not by the recovery of another sample, nor
\* by a merge, nor by the rewriting of a file that can be read.  (That a valid
\* prefix is kept whatever the crash, run_longbench_200.py:2054-2055, is more
\* than the code does.)
ResultsKept == [][\A s \in Samples : Known(s) /\ ~Known(s)' => GivenUp(s)]_vars
=============================================================================
