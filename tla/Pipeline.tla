------------------------------ MODULE Pipeline ------------------------------
(***************************************************************************)
(* The resumable fine-tuning launcher, scripts/run_finetuning_b200.py: one *)
(* output root, the launcher processes started on it, the child process    *)
(* each of them runs for a stage, the artifacts and markers on disk, the   *)
(* run lock and the generation servers a launcher may own.                 *)
(*                                                                         *)
(* A launcher is interrupted by a signal it handles, killed, or lost with  *)
(* the machine; its child runs in a session of its own and outlives it in  *)
(* the first two cases.  How a child builds its artifact is the business   *)
(* of TeacherShards and FeatureStore; here an artifact is what   *)
(* the launcher's validators can tell of it.                               *)
(*                                                                         *)
(* An operator A_Change is action or operator A with a plausible mistake   *)
(* in it, to show that a property would notice; no action uses one.        *)
(***************************************************************************)
EXTENDS Naturals, FiniteSets

CONSTANTS
    Launchers,   \* launcher processes; a slot is reused once its leftovers end
    Args,        \* command lines a launcher may be started with
    Inputs,      \* identities of (config, inputs, target model)
    Qualities,   \* what generation may produce: "clean", "bad", "hopeless"
    Faults,      \* subset of {"signal", "kill", "machine", "child", "debris"}
    MaxFaults,   \* bound on the number of faults in a behaviour
    None         \* the absent artifact, owner, manifest

Rank == [generate_train |-> 1, generate_eval |-> 2,
         validate_teacher_train |-> 3, validate_teacher_eval |-> 4,
         cache_train |-> 5, cache_eval |-> 6, train |-> 7]

Stages == DOMAIN Rank
Splits == {"train", "eval"}

Kind == [generate_train |-> "generate", generate_eval |-> "generate",
         validate_teacher_train |-> "validate",
         validate_teacher_eval |-> "validate",
         cache_train |-> "cache", cache_eval |-> "cache", train |-> "fit"]

Split == [generate_train |-> "train", generate_eval |-> "eval",
          validate_teacher_train |-> "train", validate_teacher_eval |-> "eval",
          cache_train |-> "train", cache_eval |-> "eval", train |-> "train"]

\* The stages a run executes before st.
Earlier(st) == {e \in Stages : Rank[e] < Rank[st]}

\* A command line: what it runs on, the validation flags, whether it starts
\* the generation servers itself, and the stages that --phase1-only,
\* --skip-validation and --stages leave in the command list.
ArgSpace == [input : Inputs, filter : BOOLEAN, warnOnly : BOOLEAN,
             dryRun : BOOLEAN, servers : BOOLEAN, stages : SUBSET Stages]

\* A teacher file, and the features cached from it: the inputs its rows are
\* from and what the validation will say of them.  From an empty one no row can
\* be read, from a torn one only those before a line that is cut short.
TeacherFiles == [from : (SUBSET Inputs) \ {{}},
                 quality : Qualities \cup {"clean", "empty", "torn"}]

\* A .part file: the inputs its rows are from, and whether a line of it was cut
\* short, the first one or a later one, or inside a character.
Cuts == {"no", "first", "later", "character"}
PartFiles == [rows : SUBSET Inputs, cut : Cuts]

\* The checkpoints of a training: one at save_interval and that of the last step.
Points == {"mid", "final"}

ASSUME ArgsAssumption ==
    /\ Args \subseteq ArgSpace
    /\ Qualities \subseteq {"clean", "bad", "hopeless"}
    /\ Faults \subseteq {"signal", "kill", "machine", "child", "debris"}
    /\ MaxFaults \in Nat
    /\ None \notin Launchers /\ None \notin Inputs
    /\ None \notin {"passed", "failed"}
    /\ None \notin TeacherFiles /\ None \notin PartFiles
    /\ \A from \in SUBSET Inputs : from # None
    /\ None \notin Points

VARIABLES
    lock,        \* the launcher that holds .run.lock
    pc,          \* where each launcher is in main
    args,        \* the command line each launcher (and its child) was given
    todo,        \* the commands each launcher has not run yet
    resume,      \* the checkpoint build_commands put after --resume-from
    child,       \* the child process of each launcher
    servers,     \* the generation servers each launcher started
    manifest,    \* run_manifest.json
    marker,      \* the stages with a file in .state/
    part,        \* <teacher>.part of each split
    teacher,     \* the teacher file of each split
    report,      \* the validation report of each split
    features,    \* the feature store of each split
    stray,       \* the splits with a temporary manifest left in their store
    ckpt,        \* the complete checkpoints: the inputs each was trained on
    faults       \* faults so far

files == <<manifest, marker, part, teacher, report, features, stray, ckpt>>
vars == <<lock, pc, args, todo, resume, child, servers, files, faults>>

-----------------------------------------------------------------------------
\* Artifacts.

\* _load_completed_records finds a row in the teacher file.
HasRows(s) == teacher[s] # None /\ teacher[s].quality # "empty"

\* At least one row, every row a JSON object.
ValidJsonl(s) == HasRows(s) /\ teacher[s].quality # "torn"

\* Only the presence of the key passed_gate is looked at.
ValidReport(s) == report[s] # None

\* A generation with at least one record in it.
ValidFeatures(s) == features[s] # None /\ features[s].quality # "empty"

\* The latest complete checkpoint, unless it is an intermediate one.
ValidCheckpoint == ckpt["final"] # None

Intermediate == ckpt["mid"] # None /\ ~ValidCheckpoint

Latest ==
    IF ValidCheckpoint THEN "final" ELSE IF Intermediate THEN "mid" ELSE None

Valid(st) ==
    CASE Kind[st] = "generate" -> ValidJsonl(Split[st])
      [] Kind[st] = "validate" -> ValidReport(Split[st])
      [] Kind[st] = "cache"    -> ValidFeatures(Split[st])
      [] Kind[st] = "fit"      -> ValidCheckpoint

-----------------------------------------------------------------------------
\* Child processes.  phase says what the child has done so far and seen what
\* it has read and works from.

Live == {"start", "open", "publishing", "audited", "filtered", "reported",
         "saving", "saved", "finishing"}
Phases == Live \cup {"none", "ok", "fail"}
NoChild == [stage |-> "train", phase |-> "none", seen |-> None]
Running(l) == child[l].phase \in Live
At(l, kind, phase) == Kind[child[l].stage] = kind /\ child[l].phase = phase

\* The child of l has a temporary manifest in the feature store of split s.
Publishing(l, s) == At(l, "cache", "publishing") /\ Split[child[l].stage] = s

\* The child of l goes on to phase; nobody waits for the child of a launcher
\* that is gone.
Step(l, phase, seen) ==
    child' = [child EXCEPT ![l] =
        IF pc[l] = "idle" /\ phase \in {"ok", "fail"}
        THEN NoChild
        ELSE [@ EXCEPT !.phase = phase, !.seen = seen]]

End(l, phase) == Step(l, phase, None)

launcherVars == <<lock, pc, args, todo, resume, servers, manifest, marker, faults>>

\* generate_targets: a destination that holds rows is left alone, otherwise the
\* rows are appended to the .part file, whatever run left it there, unless it
\* can not be decoded.
GenerateStart_RefusesPart(l) ==
    LET s == Split[child[l].stage] IN
    /\ At(l, "generate", "start")
    /\ IF HasRows(s) \/ part[s] # None
       THEN End(l, IF HasRows(s) THEN "ok" ELSE "fail") /\ UNCHANGED part
       ELSE /\ Step(l, "open", None)
            /\ part' = [part EXCEPT ![s] = [rows |-> {}, cut |-> "no"]]
    /\ UNCHANGED <<launcherVars, teacher, report, features, stray, ckpt>>

Undecodable(s) == part[s] # None /\ part[s].cut = "character"

GenerateStart(l) ==
    LET s == Split[child[l].stage] IN
    /\ At(l, "generate", "start")
    /\ IF HasRows(s) \/ Undecodable(s)
       THEN End(l, IF HasRows(s) THEN "ok" ELSE "fail") /\ UNCHANGED part
       ELSE /\ Step(l, "open", None)
            /\ part' = [part EXCEPT ![s] = IF @ = None THEN [rows |-> {}, cut |-> "no"] ELSE @]
    /\ UNCHANGED <<launcherVars, teacher, report, features, stray, ckpt>>

GenerateFlush(l) ==
    LET s == Split[child[l].stage] IN
    /\ At(l, "generate", "open")
    /\ part[s] # None
    /\ part' = [part EXCEPT ![s].rows = @ \cup {args[l].input}]
    /\ UNCHANGED <<launcherVars, child, teacher, report, features, stray, ckpt>>

\* What a .part file becomes: rows behind a line that was cut are appended to it.
Yield(cut) ==
    CASE cut = "no"    -> Qualities
      [] cut = "first" -> {"empty"}
      [] OTHER         -> {"torn"}

GeneratePublish(l) ==
    LET s == Split[child[l].stage] IN
    /\ At(l, "generate", "open")
    /\ IF part[s] = None \/ part[s].rows = {}
       THEN End(l, "fail") /\ UNCHANGED <<part, teacher>>
       ELSE /\ End(l, "ok")
            /\ part' = [part EXCEPT ![s] = None]
            /\ \E q \in Yield(part[s].cut) :
                 teacher' = [teacher EXCEPT ![s] = [from |-> part[s].rows, quality |-> q]]
    /\ UNCHANGED <<launcherVars, report, features, stray, ckpt>>

\* validate_teacher_jsonl: read and audit, replace the file by its valid rows
\* (--filter-anomalies), replace the report, and only then fail on the gate.
Passed(file) == file.quality = "clean"

Filtered(file) ==
    [file EXCEPT !.quality = IF file.quality = "hopeless" THEN "empty" ELSE "clean"]

ValidateRead(l) ==
    LET s == Split[child[l].stage] IN
    /\ At(l, "validate", "start")
    /\ IF HasRows(s) THEN Step(l, "audited", teacher[s]) ELSE End(l, "fail")
    /\ UNCHANGED <<launcherVars, part, teacher, report, features, stray, ckpt>>

ValidateFilter(l) ==
    LET s == Split[child[l].stage] IN
    /\ At(l, "validate", "audited")
    /\ args[l].filter
    /\ teacher' = [teacher EXCEPT ![s] = Filtered(child[l].seen)]
    /\ Step(l, "filtered", child[l].seen)
    /\ UNCHANGED <<launcherVars, part, report, features, stray, ckpt>>

ValidateReport_Unfiltered(l) ==
    LET s == Split[child[l].stage] IN
    /\ At(l, "validate", "audited") \/ At(l, "validate", "filtered")
    /\ report' = [report EXCEPT ![s] = IF Passed(child[l].seen) THEN "passed" ELSE "failed"]
    /\ Step(l, "reported", child[l].seen)
    /\ UNCHANGED <<launcherVars, part, teacher, features, stray, ckpt>>

ValidateReport(l) ==
    LET s == Split[child[l].stage] IN
    /\ At(l, "validate", IF args[l].filter THEN "filtered" ELSE "audited")
    /\ report' = [report EXCEPT ![s] = IF Passed(child[l].seen) THEN "passed" ELSE "failed"]
    /\ Step(l, "reported", child[l].seen)
    /\ UNCHANGED <<launcherVars, part, teacher, features, stray, ckpt>>

ValidateExit(l) ==
    /\ At(l, "validate", "reported")
    /\ End(l, IF Passed(child[l].seen) \/ args[l].warnOnly THEN "ok" ELSE "fail")
    /\ UNCHANGED <<launcherVars, part, teacher, report, features, stray, ckpt>>

\* capture_features: a store with a foreign file in it is refused, and a
\* temporary manifest is one.
CacheStart(l) ==
    LET s == Split[child[l].stage] IN
    /\ At(l, "cache", "start")
    /\ IF ValidJsonl(s) /\ s \notin stray /\ ~\E m \in Launchers : Publishing(m, s)
       THEN Step(l, "open", teacher[s])
       ELSE End(l, "fail")
    /\ UNCHANGED <<launcherVars, part, teacher, report, features, stray, ckpt>>

\* The captured records are moved to a generation of their own.  Every capture
\* of the split stages its records in one directory: another that is at work
\* finds those it has captured no more, and may have none left to capture.
CacheMove(l) ==
    LET Robbed == {m \in Launchers \ {l} : At(m, "cache", "open")
                                            /\ child[m].stage = child[l].stage} IN
    /\ At(l, "cache", "open")
    /\ \E empty \in SUBSET Robbed :
         child' = [m \in Launchers |->
                     IF m = l THEN [child[m] EXCEPT !.phase = "publishing"]
                     ELSE IF m \in empty THEN [child[m] EXCEPT !.seen.quality = "empty"]
                     ELSE child[m]]
    /\ UNCHANGED <<launcherVars, part, teacher, report, features, stray, ckpt>>

\* The manifest is written to a temporary file and replaced.
CachePublish(l) ==
    /\ At(l, "cache", "publishing")
    /\ features' = [features EXCEPT ![Split[child[l].stage]] = child[l].seen]
    /\ End(l, "ok")
    /\ UNCHANGED <<launcherVars, part, teacher, report, stray, ckpt>>

\* run_train: both feature stores, and the checkpoint to resume from.
Sources(l) ==
    features["train"].from \cup features["eval"].from
        \cup (IF resume[l] = None THEN {} ELSE ckpt[resume[l]])

TrainStart(l) ==
    /\ At(l, "fit", "start")
    /\ IF /\ ValidFeatures("train") /\ ValidFeatures("eval")
          /\ resume[l] # None => ckpt[resume[l]] # None
       THEN Step(l, "open", [from |-> Sources(l), quality |-> "clean"])
       ELSE End(l, "fail")
    /\ UNCHANGED <<launcherVars, part, teacher, report, features, stray, ckpt>>

\* CheckpointManager.save removes a checkpoint of the same step, writes the new
\* one beside it and renames it, which fails if the step is there once more.
TrainRemove(l, point, phase) ==
    /\ ckpt' = [ckpt EXCEPT ![point] = None]
    /\ Step(l, phase, child[l].seen)
    /\ UNCHANGED <<launcherVars, part, teacher, report, features, stray>>

TrainPublish(l, point, phase) ==
    /\ IF ckpt[point] = None
       THEN /\ ckpt' = [ckpt EXCEPT ![point] = child[l].seen.from]
            /\ Step(l, phase, child[l].seen)
       ELSE End(l, "fail") /\ UNCHANGED ckpt
    /\ UNCHANGED <<launcherVars, part, teacher, report, features, stray>>

\* The save at save_interval, by a training that starts before it.
TrainSave(l) ==
    \/ At(l, "fit", "open") /\ resume[l] = None /\ TrainRemove(l, "mid", "saving")
    \/ At(l, "fit", "saving") /\ TrainPublish(l, "mid", "saved")

\* The save of the last step, or the end of a training that finds it there.
Trained(l) == At(l, "fit", "open") \/ At(l, "fit", "saved")

TrainFinish(l) ==
    \/ Trained(l) /\ TrainRemove(l, "final", "finishing")
    \/ At(l, "fit", "finishing") /\ TrainPublish(l, "final", "ok")

TrainSkipSave(l) ==
    /\ Trained(l) /\ ValidCheckpoint
    /\ End(l, "ok")
    /\ UNCHANGED <<launcherVars, part, teacher, report, features, stray, ckpt>>

\* What dying children leave: a row cut short, a temporary manifest.
CutShort(file) ==
    {[file EXCEPT !.cut = "character"],
     [file EXCEPT !.cut = IF @ # "no" THEN @ ELSE IF file.rows = {} THEN "first" ELSE "later"]}

Generating(l, s) == At(l, "generate", "open") /\ Split[child[l].stage] = s

Remains(s, dead) ==
    IF "debris" \in Faults /\ part[s] # None /\ \E m \in dead : Generating(m, s)
    THEN {part[s]} \cup CutShort(part[s])
    ELSE {part[s]}

Strays(dead) ==
    {s \in Splits : "debris" \in Faults /\ \E m \in dead : Publishing(m, s)}

Debris(dead) ==
    /\ \E t \in Remains("train", dead), e \in Remains("eval", dead) :
         part' = [part EXCEPT !["train"] = t, !["eval"] = e]
    /\ \E some \in SUBSET Strays(dead) : stray' = stray \cup some
    /\ UNCHANGED <<teacher, report, features, ckpt>>

\* The child of a launcher that is gone dies sooner or later: of the SIGTERM
\* sent to its group, or of the closed pipe at its next progress line.
OrphanDies(l) ==
    /\ pc[l] = "idle" /\ Running(l)
    /\ End(l, "fail")
    /\ Debris({l})
    /\ UNCHANGED launcherVars

ChildStep(l) ==
    \/ GenerateStart(l) \/ GenerateFlush(l) \/ GeneratePublish(l)
    \/ ValidateRead(l) \/ ValidateFilter(l) \/ ValidateReport(l) \/ ValidateExit(l)
    \/ CacheStart(l) \/ CacheMove(l) \/ CachePublish(l)
    \/ TrainStart(l) \/ TrainSave(l) \/ TrainFinish(l) \/ TrainSkipSave(l)
    \/ OrphanDies(l)

-----------------------------------------------------------------------------
\* The launcher: main and run_stage.

Init ==
    /\ lock = None
    /\ pc = [l \in Launchers |-> "idle"]
    /\ args = [l \in Launchers |-> None]
    /\ todo = [l \in Launchers |-> {}]
    /\ resume = [l \in Launchers |-> None]
    /\ child = [l \in Launchers |-> NoChild]
    /\ servers = [l \in Launchers |-> "none"]
    /\ manifest = None
    /\ marker = {}
    /\ part = [s \in Splits |-> None]
    /\ teacher = [s \in Splits |-> None]
    /\ report = [s \in Splits |-> None]
    /\ features = [s \in Splits |-> None]
    /\ stray = {}
    /\ ckpt = [p \in Points |-> None]
    /\ faults = 0

artifacts == <<part, teacher, report, features, stray, ckpt>>

Start_Unlocked(l, a) ==
    /\ pc[l] = "idle" /\ ~Running(l) /\ servers[l] = "none"
    /\ lock' = l
    /\ pc' = [pc EXCEPT ![l] = "locked"]
    /\ args' = [args EXCEPT ![l] = a]
    /\ UNCHANGED <<todo, resume, child, servers, manifest, marker, artifacts, faults>>

\* _job_lock; a launcher that finds the lock taken ends at once.
Start(l, a) ==
    /\ pc[l] = "idle" /\ ~Running(l) /\ servers[l] = "none"
    /\ lock = None
    /\ lock' = l
    /\ pc' = [pc EXCEPT ![l] = "locked"]
    /\ args' = [args EXCEPT ![l] = a]
    /\ UNCHANGED <<todo, resume, child, servers, manifest, marker, artifacts, faults>>

\* main returns or raises: the finally clauses stop the servers and unlock.
Exit(l) ==
    /\ lock' = None
    /\ pc' = [pc EXCEPT ![l] = "idle"]
    /\ todo' = [todo EXCEPT ![l] = {}]
    /\ servers' = [servers EXCEPT ![l] = "none"]

WriteRunManifest_Unchecked(l) ==
    /\ pc[l] = "locked"
    /\ manifest' = args[l].input
    /\ todo' = [todo EXCEPT ![l] = args[l].stages]
    /\ resume' = [resume EXCEPT ![l] = Latest]
    /\ pc' = [pc EXCEPT ![l] = "planned"]
    /\ UNCHANGED <<lock, servers, args, child, marker, artifacts, faults>>

\* _write_run_manifest: a differing manifest is refused only beside a complete
\* checkpoint, and replaced otherwise; build_commands follows.
WriteRunManifest(l) ==
    /\ pc[l] = "locked"
    /\ IF manifest # None /\ Latest # None /\ manifest # args[l].input
       THEN Exit(l) /\ UNCHANGED <<manifest, resume>>
       ELSE /\ manifest' = args[l].input
            /\ todo' = [todo EXCEPT ![l] = args[l].stages]
            /\ resume' = [resume EXCEPT ![l] = Latest]
            /\ pc' = [pc EXCEPT ![l] = "planned"]
            /\ UNCHANGED <<lock, servers>>
    /\ UNCHANGED <<args, child, marker, artifacts, faults>>

\* The servers are started unless both teacher files are already usable.
StartServers(l) ==
    /\ pc[l] = "planned"
    /\ IF args[l].servers /\ ~args[l].dryRun /\ \E s \in Splits : ~ValidJsonl(s)
       THEN /\ servers' = [servers EXCEPT ![l] = "starting"]
            /\ pc' = [pc EXCEPT ![l] = "starting"]
       ELSE /\ pc' = [pc EXCEPT ![l] = "stages"]
            /\ UNCHANGED servers
    /\ UNCHANGED <<lock, args, todo, resume, child, manifest, marker, artifacts, faults>>

ServersReady(l) ==
    /\ pc[l] = "starting"
    /\ servers' = [servers EXCEPT ![l] = "up"]
    /\ pc' = [pc EXCEPT ![l] = "stages"]
    /\ UNCHANGED <<lock, args, todo, resume, child, manifest, marker, artifacts, faults>>

\* A server process exits early, or is not ready in time.
ServersFail(l) ==
    /\ pc[l] = "starting" /\ "child" \in Faults /\ faults < MaxFaults
    /\ Exit(l)
    /\ faults' = faults + 1
    /\ UNCHANGED <<args, resume, child, manifest, marker, artifacts>>

AtStage(l, st) == pc[l] = "stages" /\ st \in todo[l] /\ Earlier(st) \cap todo[l] = {}

StageReturns_KeepsServers(l, st) ==
    /\ todo' = [todo EXCEPT ![l] = @ \ {st}]
    /\ pc' = [pc EXCEPT ![l] = "stages"]
    /\ UNCHANGED servers

\* The rest of the loop body in main once run_stage has returned.
StageReturns(l, st) ==
    /\ todo' = [todo EXCEPT ![l] = @ \ {st}]
    /\ pc' = [pc EXCEPT ![l] = "stages"]
    /\ servers' = [servers EXCEPT ![l] = IF st = "generate_eval" THEN "none" ELSE @]

\* A marker and a valid artifact: SKIP.
SkipStage(l, st) ==
    /\ AtStage(l, st)
    /\ st \in marker /\ Valid(st)
    /\ StageReturns(l, st)
    /\ UNCHANGED <<lock, args, resume, child, manifest, marker, artifacts, faults>>

\* A marker whose artifact is gone or broken: RESUME CHECK FAILED.
RefuseStage(l, st) ==
    /\ AtStage(l, st)
    /\ st \in marker /\ ~Valid(st)
    /\ ~(Kind[st] = "fit" /\ Intermediate)
    /\ Exit(l)
    /\ UNCHANGED <<args, resume, child, manifest, marker, artifacts, faults>>

\* No marker but a valid artifact: RECOVER.
RecoverStage(l, st) ==
    /\ AtStage(l, st)
    /\ st \notin marker /\ Valid(st)
    /\ marker' = marker \cup {st}
    /\ StageReturns(l, st)
    /\ UNCHANGED <<lock, args, resume, child, manifest, artifacts, faults>>

MustRun_AnyMarker(st) == ~Valid(st)

MustRun(st) == ~Valid(st) /\ (st \in marker => Kind[st] = "fit" /\ Intermediate)

DryStage(l, st) ==
    /\ AtStage(l, st)
    /\ MustRun(st) /\ args[l].dryRun
    /\ marker' = marker \ {st}
    /\ StageReturns(l, st)
    /\ UNCHANGED <<lock, args, resume, child, manifest, artifacts, faults>>

SpawnStage(l, st) ==
    /\ AtStage(l, st)
    /\ MustRun(st) /\ ~args[l].dryRun
    /\ marker' = marker \ {st}
    /\ child' = [child EXCEPT ![l] = [stage |-> st, phase |-> "start", seen |-> None]]
    /\ pc' = [pc EXCEPT ![l] = "wait"]
    /\ UNCHANGED <<lock, args, todo, resume, servers, manifest, artifacts, faults>>

StageEnds_GoesOn(l) ==
    LET st == child[l].stage IN
    /\ pc[l] = "wait" /\ ~Running(l)
    /\ child' = [child EXCEPT ![l] = NoChild]
    /\ marker' = IF child[l].phase = "ok" /\ Valid(st) THEN marker \cup {st} ELSE marker
    /\ StageReturns(l, st)
    /\ UNCHANGED <<lock, args, resume, manifest, artifacts, faults>>

\* The child has ended: its return code, the validator, the marker.
StageEnds(l) ==
    LET st == child[l].stage IN
    /\ pc[l] = "wait" /\ ~Running(l)
    /\ child' = [child EXCEPT ![l] = NoChild]
    /\ IF child[l].phase = "ok" /\ Valid(st)
       THEN /\ marker' = marker \cup {st}
            /\ StageReturns(l, st)
            /\ UNCHANGED lock
       ELSE Exit(l) /\ UNCHANGED marker
    /\ UNCHANGED <<args, resume, manifest, artifacts, faults>>

Finish(l) ==
    /\ pc[l] = "stages" /\ todo[l] = {}
    /\ Exit(l)
    /\ UNCHANGED <<args, resume, child, manifest, marker, artifacts, faults>>

-----------------------------------------------------------------------------
\* Faults.

Fault(kind) == kind \in Faults /\ faults < MaxFaults /\ faults' = faults + 1

\* _signal_handler: SIGTERM to the child's group, then SystemExit without
\* waiting.  During _start_managed_generation_servers, which catches Exception
\* only, main has no handle of the servers yet.
Signal(l) ==
    /\ Fault("signal")
    /\ pc[l] # "idle"
    /\ lock' = None
    /\ pc' = [pc EXCEPT ![l] = "idle"]
    /\ todo' = [todo EXCEPT ![l] = {}]
    /\ servers' = [servers EXCEPT ![l] = IF pc[l] = "starting" THEN @ ELSE "none"]
    /\ child' = [child EXCEPT ![l] = IF Running(l) THEN @ ELSE NoChild]
    /\ UNCHANGED <<args, resume, manifest, marker, artifacts>>

\* SIGKILL of the launcher alone: the kernel drops its lock.
Kill(l) ==
    /\ Fault("kill")
    /\ pc[l] # "idle"
    /\ lock' = None
    /\ pc' = [pc EXCEPT ![l] = "idle"]
    /\ todo' = [todo EXCEPT ![l] = {}]
    /\ child' = [child EXCEPT ![l] = IF Running(l) THEN @ ELSE NoChild]
    /\ UNCHANGED <<args, resume, servers, manifest, marker, artifacts>>

\* The machine goes down: only the files are left.
MachineCrash ==
    /\ Fault("machine")
    /\ Debris(Launchers)
    /\ lock' = None
    /\ pc' = [l \in Launchers |-> "idle"]
    /\ todo' = [l \in Launchers |-> {}]
    /\ child' = [l \in Launchers |-> NoChild]
    /\ servers' = [l \in Launchers |-> "none"]
    /\ UNCHANGED <<args, resume, manifest, marker>>

\* A child exits with an error or is killed (out of memory, a full disk).
ChildCrash(l) ==
    /\ Fault("child")
    /\ Running(l)
    /\ End(l, "fail")
    /\ Debris({l})
    /\ UNCHANGED <<lock, pc, args, todo, resume, servers, manifest, marker>>

-----------------------------------------------------------------------------
LauncherStep(l) ==
    \/ WriteRunManifest(l)
    \/ StartServers(l) \/ ServersReady(l)
    \/ \E st \in Stages : SkipStage(l, st) \/ RefuseStage(l, st) \/ RecoverStage(l, st)
                          \/ DryStage(l, st) \/ SpawnStage(l, st)
    \/ StageEnds(l)
    \/ Finish(l)

Next ==
    \/ \E l \in Launchers, a \in Args : Start(l, a)
    \/ \E l \in Launchers : LauncherStep(l)
    \/ \E l \in Launchers : ChildStep(l)
    \/ \E l \in Launchers : ServersFail(l) \/ Signal(l) \/ Kill(l) \/ ChildCrash(l)
    \/ MachineCrash

Spec == Init /\ [][Next]_vars

\* The launcher is started again whenever it ends, a child that is left alone
\* gets on with its work, and generation does yield rows in the end.
FairSpec ==
    /\ Spec
    /\ WF_vars(\E l \in Launchers, a \in Args : Start(l, a))
    /\ \A l \in Launchers :
         WF_vars(LauncherStep(l)) /\ WF_vars(ChildStep(l)) /\ SF_vars(GenerateFlush(l))

-----------------------------------------------------------------------------
\* Properties.

TypeOK ==
    /\ lock \in Launchers \cup {None}
    /\ pc \in [Launchers -> {"idle", "locked", "planned", "starting", "stages", "wait"}]
    /\ args \in [Launchers -> Args \cup {None}]
    /\ todo \in [Launchers -> SUBSET Stages]
    /\ resume \in [Launchers -> Points \cup {None}]
    /\ child \in [Launchers -> [stage : Stages, phase : Phases,
                                seen : TeacherFiles \cup {None}]]
    /\ servers \in [Launchers -> {"none", "starting", "up"}]
    /\ manifest \in Inputs \cup {None}
    /\ marker \subseteq Stages
    /\ part \in [Splits -> PartFiles \cup {None}]
    /\ teacher \in [Splits -> TeacherFiles \cup {None}]
    /\ report \in [Splits -> {"passed", "failed", None}]
    /\ features \in [Splits -> TeacherFiles \cup {None}]
    /\ stray \subseteq Splits
    /\ ckpt \in [Points -> {None} \cup SUBSET Inputs]
    /\ faults \in 0..MaxFaults

\* The stages no command line leaves out.
Required == {st \in Stages : \A a \in Args : st \in a.stages}

Started(st) == st \in marker \/ Valid(st) \/ \E l \in Launchers : Running(l) /\ child[l].stage = st

\* However runs are interrupted and whoever is left over from them, work of a
\* stage (a child, an artifact, a marker) is found only after every earlier
\* stage that each run includes has got its marker: nothing is cached before it
\* was validated, and nothing trained before both splits were cached.
StagesInOrder ==
    \A st \in Stages : Started(st) => Earlier(st) \cap Required \subseteq marker

\* .run.lock keeps two jobs from writing one run: at no time do two stage
\* children work on the artifacts of the run.
OneWriter ==
    \A l, m \in Launchers : Running(l) /\ Running(m) => l = m

\* The quality gate: what is cached for training are validated trajectories,
\* in no run records that the gate rejects.
CleanFeatures ==
    \A s \in Splits : ValidFeatures(s) => features[s].quality = "clean"

\* The servers hold the GPUs only while targets are generated: none of a
\* launcher's servers is up while its capture or training child works.
GpusReleased ==
    \A l \in Launchers :
        Running(l) /\ Kind[child[l].stage] \in {"cache", "fit"} => servers[l] = "none"

\* While a complete checkpoint exists the identity of the run is fixed.
ManifestFrozen == [][Latest # None => manifest' = manifest]_vars

\* A run trains on one set of inputs, the one its manifest names.
SingleInput == \A p \in Points : ckpt[p] # None => ckpt[p] = {manifest}

\* What no rerun of the command gets past: an artifact that is gone although its
\* marker is there, a torn teacher file or an undecodable .part file, and a
\* temporary manifest in a feature store that is not complete.
Stuck ==
    \/ \E st \in marker : ~Valid(st) /\ ~MustRun(st)
    \/ \E s \in Splits :
         \/ HasRows(s) /\ ~ValidJsonl(s)
         \/ Undecodable(s) /\ ~HasRows(s)
         \/ s \in stray /\ ~ValidFeatures(s)

\* A run that is started again whenever it was interrupted gets all its markers,
\* unless the interruption left one of these four things behind.
Resumes == <>[](Required \subseteq marker)

Completes == Resumes \/ <>[]Stuck

\* Seen from outside, a run is a list of stages whose artifacts become valid
\* once the stages before them are marked, and that are marked when they are
\* valid.  What is done stays so, but for the features and the checkpoint that
\* a worker left over from an earlier launch may still replace; a marker stays
\* too, unless there is a training to go on with.
Staged == INSTANCE StagedRun WITH
    Steps <- Stages, Before <- [st \in Stages |-> Earlier(st) \cap Required],
    Fragile <- {"cache_train", "cache_eval", "train"}, Redoable <- {"train"},
    done <- {st \in Stages : Valid(st)}, ticked <- marker

ImplementsStagedRun == Staged!Spec
=============================================================================
