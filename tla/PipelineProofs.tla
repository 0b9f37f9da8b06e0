--------------------------- MODULE PipelineProofs ---------------------------
(***************************************************************************)
(* Proofs about Pipeline, for every set of launchers and command lines and *)
(* every combination of faults.                                            *)
(***************************************************************************)
EXTENDS Pipeline, TLAPS

(***************************************************************************)
(* The stage table.                                                        *)
(***************************************************************************)
LEMMA StageFacts ==
    /\ Stages = {"generate_train", "generate_eval", "validate_teacher_train",
                 "validate_teacher_eval", "cache_train", "cache_eval", "train"}
    /\ \A st \in Stages : /\ Rank[st] \in 1..7
                          /\ Kind[st] \in {"generate", "validate", "cache", "fit"}
                          /\ Split[st] \in Splits
                          /\ Kind[st] = "fit" <=> st = "train"
                          /\ "train" \notin Earlier(st)
                          /\ Earlier(st) \subseteq Stages
BY DEF Stages, Rank, Kind, Split, Splits, Earlier

\* Its kind and its split determine a stage.
LEMMA StageKey ==
    \A st, v \in Stages : Kind[st] = Kind[v] /\ Split[st] = Split[v] => st = v
BY StageFacts DEF Kind, Split

\* A split is generated before it, or any other one, is validated.
LEMMA GenerateFirst ==
    ASSUME NEW v \in Stages, NEW g \in Stages,
           Kind[v] = "validate", Kind[g] = "generate"
    PROVE  Earlier(g) \subseteq Earlier(v) /\ g \in Earlier(v)
BY StageFacts DEF Stages, Rank, Kind, Earlier

(***************************************************************************)
(* Types.                                                                  *)
(***************************************************************************)

\* A launcher past its start has a command line, and so has whoever has a
\* child left; what a child read is what its kind of stage reads.
ArgsKnown ==
    \A l \in Launchers : pc[l] # "idle" \/ Running(l) => args[l] \in Args

Working == {"open", "publishing", "saving", "saved", "finishing"}

SeenKnown ==
    \A l \in Launchers :
        /\ child[l].phase \in {"audited", "filtered", "reported"}
             => Kind[child[l].stage] = "validate" /\ child[l].seen \in TeacherFiles
        /\ child[l].phase \in Working /\ Kind[child[l].stage] \in {"cache", "fit"}
             => child[l].seen \in TeacherFiles

Typed == TypeOK /\ ArgsKnown /\ SeenKnown

LEMMA TypedInit == Init => Typed
BY ArgsAssumption, StageFacts
DEF Init, Typed, TypeOK, ArgsKnown, SeenKnown, NoChild, Running, Live, Phases, Working

LEMMA ArgFields ==
    \A a \in Args : /\ a.input \in Inputs
                    /\ a.stages \subseteq Stages
                    /\ a.filter \in BOOLEAN /\ a.dryRun \in BOOLEAN
BY ArgsAssumption DEF ArgSpace

\* What Step does to the child of one launcher.
LEMMA StepTyped ==
    ASSUME NEW l \in Launchers, NEW phase \in Phases, NEW seen \in TeacherFiles \cup {None},
           Typed, Step(l, phase, seen)
    PROVE  /\ child' \in [Launchers -> [stage : Stages, phase : Phases,
                                        seen : TeacherFiles \cup {None}]]
           /\ \A m \in Launchers : m # l => child'[m] = child[m]
           /\ \/ child'[l] = NoChild
              \/ /\ child'[l].stage = child[l].stage
                 /\ child'[l].phase = phase /\ child'[l].seen = seen
<1>1. NoChild \in [stage : Stages, phase : Phases, seen : TeacherFiles \cup {None}]
  BY StageFacts DEF NoChild, Phases
<1>2. child[l] \in [stage : Stages, phase : Phases, seen : TeacherFiles \cup {None}]
  BY DEF Typed, TypeOK
<1> DEFINE new == [child[l] EXCEPT !.phase = phase, !.seen = seen]
<1>3. /\ new \in [stage : Stages, phase : Phases, seen : TeacherFiles \cup {None}]
      /\ new.stage = child[l].stage /\ new.phase = phase /\ new.seen = seen
  BY <1>2
<1>4. child' = [child EXCEPT ![l] =
                  IF pc[l] = "idle" /\ phase \in {"ok", "fail"} THEN NoChild ELSE new]
  BY DEF Step
<1> HIDE DEF new
<1> QED BY <1>1, <1>3, <1>4 DEF Typed, TypeOK

\* A step of a child that leaves the launchers alone.
LEMMA ChildTyped ==
    ASSUME NEW l \in Launchers, NEW phase \in Phases, NEW seen \in TeacherFiles \cup {None},
           Typed, Running(l), Step(l, phase, seen), faults' \in 0..MaxFaults,
           UNCHANGED <<lock, pc, args, todo, resume, servers, manifest, marker>>,
           phase \in {"audited", "filtered", "reported"}
             => Kind[child[l].stage] = "validate" /\ seen \in TeacherFiles,
           phase \in Working /\ Kind[child[l].stage] \in {"cache", "fit"}
             => seen \in TeacherFiles,
           part' \in [Splits -> PartFiles \cup {None}],
           teacher' \in [Splits -> TeacherFiles \cup {None}],
           report' \in [Splits -> {"passed", "failed", None}],
           features' \in [Splits -> TeacherFiles \cup {None}],
           stray' \subseteq Splits,
           ckpt' \in [Points -> {None} \cup SUBSET Inputs]
    PROVE  Typed'
<1>1. TypeOK'
  BY StepTyped DEF Typed, TypeOK
<1>3. ArgsKnown'
  <2> SUFFICES ASSUME NEW m \in Launchers, pc[m] # "idle" \/ child'[m].phase \in Live
               PROVE  args[m] \in Args
    BY DEF ArgsKnown, Running
  <2>1. pc[m] # "idle" \/ Running(m)
    BY StepTyped DEF Running, NoChild, Live
  <2> QED BY <2>1 DEF Typed, ArgsKnown
<1>2. SeenKnown'
  <2> SUFFICES ASSUME NEW m \in Launchers
               PROVE  /\ child'[m].phase \in {"audited", "filtered", "reported"}
                           => /\ Kind[child'[m].stage] = "validate"
                              /\ child'[m].seen \in TeacherFiles
                      /\ child'[m].phase \in Working /\ Kind[child'[m].stage] \in {"cache", "fit"}
                           => child'[m].seen \in TeacherFiles
    BY DEF SeenKnown
  <2>1. CASE m # l
    <3>1. child'[m] = child[m]
      BY <2>1, StepTyped
    <3> QED BY <3>1 DEF Typed, SeenKnown
  <2>2. CASE m = l
    BY <2>2, StepTyped DEF NoChild, Working
  <2> QED BY <2>1, <2>2
<1> QED BY <1>1, <1>2, <1>3 DEF Typed

\* Steps that leave the child of every launcher alone, or end it.
LEMMA LauncherTyped ==
    ASSUME Typed, TypeOK',
           \A m \in Launchers : /\ child'[m] = child[m] \/ child'[m].phase \in {"none", "start"}
                                /\ child'[m] = child[m] \/ ~Running(m)' \/ pc'[m] # "idle"
                                /\ pc'[m] # "idle" => args'[m] \in Args
                                /\ pc[m] = "idle" /\ Running(m) => args'[m] = args[m]
                                /\ pc[m] # "idle" => args'[m] = args[m]
    PROVE  Typed'
BY DEF Typed, ArgsKnown, SeenKnown, Running, Live, Working

LEMMA FileFields ==
    /\ \A f \in TeacherFiles : /\ Filtered(f) \in TeacherFiles
                               /\ [f EXCEPT !.quality = "empty"] \in TeacherFiles
                               /\ f.from \in (SUBSET Inputs) \ {{}}
    /\ \A from \in (SUBSET Inputs) \ {{}}, q \in Qualities \cup {"clean", "empty", "torn"} :
         [from |-> from, quality |-> q] \in TeacherFiles
BY DEF TeacherFiles, Filtered

\* A file that is there is not the absent one.
LEMMA NothingIsNone ==
    /\ None \notin TeacherFiles /\ None \notin PartFiles /\ None \notin Points
    /\ None \notin {"passed", "failed"} /\ (\A from \in SUBSET Inputs : from # None)
BY ArgsAssumption

\* What is left of the dead: no file comes or goes, nor a row of one.
LEMMA DebrisTyped ==
    ASSUME TypeOK, NEW dead, Debris(dead)
    PROVE  /\ part' \in [Splits -> PartFiles \cup {None}]
           /\ \A s \in Splits : part'[s] = None <=> part[s] = None
           /\ stray' \subseteq Splits
           /\ UNCHANGED <<teacher, report, features, ckpt>>
<1>1. ASSUME NEW s \in Splits, NEW r \in Remains(s, dead)
      PROVE  r \in PartFiles \cup {None} /\ (r = None <=> part[s] = None)
  <2>1. CASE r = part[s]
    BY <2>1 DEF TypeOK
  <2>2. CASE r # part[s]
    <3>1. part[s] \in PartFiles /\ r \in CutShort(part[s])
      BY <1>1, <2>2 DEF Remains, TypeOK
    <3>2. r \in PartFiles
      BY <3>1 DEF CutShort, PartFiles, Cuts
    <3> QED BY <3>1, <3>2, NothingIsNone
  <2> QED BY <2>1, <2>2
<1>2. PICK t \in Remains("train", dead), e \in Remains("eval", dead) :
        part' = [part EXCEPT !["train"] = t, !["eval"] = e]
  BY DEF Debris
<1>3. part'["train"] = t /\ part'["eval"] = e /\ DOMAIN part' = Splits
  BY <1>2 DEF TypeOK, Splits
<1>4. \A s \in Splits : part'[s] \in PartFiles \cup {None} /\ (part'[s] = None <=> part[s] = None)
  BY <1>1, <1>3 DEF Splits
<1>5. part' \in [Splits -> PartFiles \cup {None}]
  BY <1>2, <1>4 DEF TypeOK
<1>6. stray' \subseteq Splits
  BY DEF Debris, Strays, TypeOK
<1> QED BY <1>4, <1>5, <1>6 DEF Debris

\* A capture that moves its records goes on, and the others at work on the split
\* may be left with nothing.
LEMMA MoveTyped ==
    ASSUME Typed, NEW l \in Launchers, CacheMove(l)
    PROVE  /\ child' \in [Launchers -> [stage : Stages, phase : Phases,
                                        seen : TeacherFiles \cup {None}]]
           /\ \A m \in Launchers :
                \/ child'[m] = child[m]
                \/ /\ At(m, "cache", "open") /\ child'[m].stage = child[m].stage
                   /\ child[m].seen \in TeacherFiles
                   /\ \/ m = l /\ child'[m].phase = "publishing" /\ child'[m].seen = child[m].seen
                      \/ /\ child'[m].phase = "open"
                         /\ child'[m].seen = [child[m].seen EXCEPT !.quality = "empty"]
<1> DEFINE Child == [stage : Stages, phase : Phases, seen : TeacherFiles \cup {None}]
           Robbed == {m \in Launchers \ {l} : At(m, "cache", "open")
                                             /\ child[m].stage = child[l].stage}
<1>1. PICK empty \in SUBSET Robbed :
         child' = [m \in Launchers |->
                     IF m = l THEN [child[m] EXCEPT !.phase = "publishing"]
                     ELSE IF m \in empty THEN [child[m] EXCEPT !.seen.quality = "empty"]
                     ELSE child[m]]
  BY DEF CacheMove
<1>2. ASSUME NEW m \in Launchers
      PROVE  /\ child'[m] \in Child
             /\ \/ child'[m] = child[m]
                \/ /\ At(m, "cache", "open") /\ child'[m].stage = child[m].stage
                   /\ child[m].seen \in TeacherFiles
                   /\ \/ m = l /\ child'[m].phase = "publishing" /\ child'[m].seen = child[m].seen
                      \/ /\ child'[m].phase = "open"
                         /\ child'[m].seen = [child[m].seen EXCEPT !.quality = "empty"]
  <2>1. child[m] \in Child /\ "publishing" \in Phases
    BY DEF Typed, TypeOK, Phases, Live
  <2>2. At(m, "cache", "open") => child[m].seen \in TeacherFiles
    BY DEF At, Typed, SeenKnown, Working
  <2>3. CASE m = l
    <3>1. child'[m] = [child[m] EXCEPT !.phase = "publishing"] /\ At(m, "cache", "open")
      BY <1>1, <2>3 DEF CacheMove
    <3> QED BY <2>1, <2>2, <2>3, <3>1
  <2>4. CASE m # l /\ m \in empty
    <3>1. child'[m] = [child[m] EXCEPT !.seen.quality = "empty"] /\ At(m, "cache", "open")
      BY <1>1, <2>4
    <3>2. child'[m] = [child[m] EXCEPT !.seen = [child[m].seen EXCEPT !.quality = "empty"]]
      BY <2>1, <3>1
    <3>3. [child[m].seen EXCEPT !.quality = "empty"] \in TeacherFiles
      BY <2>2, <3>1, FileFields
    <3>4. child[m].phase = "open"
      BY <3>1 DEF At
    <3> HIDE DEF Child
    <3>5. /\ child'[m].stage = child[m].stage /\ child'[m].phase = child[m].phase
          /\ child'[m].seen = [child[m].seen EXCEPT !.quality = "empty"] /\ child'[m] \in Child
      BY <2>1, <3>2, <3>3 DEF Child
    <3> QED BY <2>2, <3>1, <3>4, <3>5
  <2>5. CASE m # l /\ m \notin empty
    BY <1>1, <2>1, <2>5
  <2> QED BY <2>3, <2>4, <2>5
<1>3. DOMAIN child' = Launchers
  BY <1>1
<1> QED BY <1>1, <1>2

\* What a training works from has a source.
LEMMA SourcesTyped ==
    ASSUME TypeOK, NEW l \in Launchers, ValidFeatures("train"), ValidFeatures("eval"),
           resume[l] # None => ckpt[resume[l]] # None
    PROVE  [from |-> Sources(l), quality |-> "clean"] \in TeacherFiles
<1>1. features["train"] \in TeacherFiles /\ features["eval"] \in TeacherFiles
  BY DEF ValidFeatures, TypeOK, Splits
<1>2. resume[l] # None => ckpt[resume[l]] \subseteq Inputs
  BY DEF TypeOK
<1>3. Sources(l) \in (SUBSET Inputs) \ {{}}
  BY <1>1, <1>2, FileFields DEF Sources
<1> QED BY <1>3, FileFields

LEMMA ChildStepTyped ==
    ASSUME Typed, NEW l \in Launchers, ChildStep(l)
    PROVE  Typed'
<1> DEFINE st == child[l].stage
           s == Split[st]
<1>0. st \in Stages /\ s \in Splits
  BY StageFacts DEF Typed, TypeOK
<1>00. TypeOK /\ None \in TeacherFiles \cup {None}
  BY DEF Typed
<1> USE DEF At, Running, Live, Phases, End, launcherVars, Working
<1>1. CASE GenerateStart(l)
  <2>1. part' \in [Splits -> PartFiles \cup {None}]
    <3>1. [rows |-> {}, cut |-> "no"] \in PartFiles
      BY DEF PartFiles, Cuts
    <3> QED BY <1>1, <3>1, <1>0, <1>00 DEF GenerateStart, TypeOK
  <2>2. PICK phase \in {"ok", "open", "fail"} : Step(l, phase, None)
    BY <1>1 DEF GenerateStart
  <2> QED BY <1>1, <1>00, <2>1, <2>2, ChildTyped DEF GenerateStart, TypeOK
<1>2. CASE GenerateFlush(l)
  <2>1. part' \in [Splits -> PartFiles \cup {None}]
    <3>1. args[l].input \in Inputs
      BY <1>2, ArgFields DEF GenerateFlush, Typed, ArgsKnown
    <3>2. part[s] \in PartFiles
      BY <1>2, <1>0, <1>00 DEF GenerateFlush, TypeOK
    <3>3. [part[s] EXCEPT !.rows = @ \cup {args[l].input}] \in PartFiles
      BY <3>1, <3>2 DEF PartFiles
    <3>4. part' = [part EXCEPT ![s] = [part[s] EXCEPT !.rows = @ \cup {args[l].input}]]
      BY <1>2, <1>0, <1>00 DEF GenerateFlush, TypeOK
    <3> QED BY <3>3, <3>4, <1>0, <1>00 DEF TypeOK
  <2> QED
    BY <1>2, <2>1, <1>00 DEF GenerateFlush, Typed, TypeOK, ArgsKnown, SeenKnown
<1>3. CASE GeneratePublish(l)
  <2>1. part' \in [Splits -> PartFiles \cup {None}]
    BY <1>3, <1>0, <1>00 DEF GeneratePublish, TypeOK
  <2>2. teacher' \in [Splits -> TeacherFiles \cup {None}]
    <3>1. CASE part[s] = None \/ part[s].rows = {}
      BY <1>3, <3>1, <1>00 DEF GeneratePublish, TypeOK
    <3>2. CASE part[s] # None /\ part[s].rows # {}
      <4>1. PICK q \in Yield(part[s].cut) :
              teacher' = [teacher EXCEPT ![s] = [from |-> part[s].rows, quality |-> q]]
        BY <1>3, <3>2 DEF GeneratePublish
      <4>2. part[s].rows \in (SUBSET Inputs) \ {{}}
        BY <3>2, <1>0, <1>00 DEF TypeOK, PartFiles
      <4>3. q \in Qualities \cup {"clean", "empty", "torn"}
        BY DEF Yield
      <4>4. [from |-> part[s].rows, quality |-> q] \in TeacherFiles
        BY <4>2, <4>3, FileFields
      <4> QED BY <4>1, <4>4, <1>0, <1>00 DEF TypeOK
    <3> QED BY <3>1, <3>2
  <2>3. PICK phase \in {"ok", "fail"} : Step(l, phase, None)
    BY <1>3 DEF GeneratePublish
  <2> QED BY <1>3, <1>00, <2>1, <2>2, <2>3, ChildTyped DEF GeneratePublish, TypeOK
<1>4. CASE ValidateRead(l)
  <2>1. CASE HasRows(s)
    <3>1. teacher[s] \in TeacherFiles
      BY <2>1, <1>0, <1>00 DEF HasRows, TypeOK
    <3> QED BY <1>4, <1>00, <2>1, <3>1, ChildTyped DEF ValidateRead, TypeOK
  <2>2. CASE ~HasRows(s)
    BY <1>4, <1>00, <2>2, ChildTyped DEF ValidateRead, TypeOK
  <2> QED BY <2>1, <2>2
<1>5. CASE ValidateFilter(l)
  <2>1. child[l].seen \in TeacherFiles
    BY <1>5 DEF ValidateFilter, Typed, SeenKnown
  <2>2. teacher' \in [Splits -> TeacherFiles \cup {None}]
    BY <1>5, <1>0, <1>00, <2>1, FileFields DEF ValidateFilter, TypeOK
  <2> QED BY <1>5, <1>00, <2>1, <2>2, ChildTyped DEF ValidateFilter, TypeOK
<1>6. CASE ValidateReport(l)
  <2>1. child[l].phase \in {"audited", "filtered"}
    BY <1>6 DEF ValidateReport
  <2>2. child[l].seen \in TeacherFiles /\ Kind[st] = "validate"
    BY <1>6, <2>1 DEF ValidateReport, Typed, SeenKnown
  <2>3. report' \in [Splits -> {"passed", "failed", None}]
    BY <1>6, <1>0, <1>00 DEF ValidateReport, TypeOK
  <2> QED BY <1>6, <1>00, <2>1, <2>2, <2>3, ChildTyped DEF ValidateReport, TypeOK
<1>7. CASE ValidateExit(l)
  <2>1. PICK phase \in {"ok", "fail"} : Step(l, phase, None)
    BY <1>7 DEF ValidateExit
  <2> QED BY <1>7, <1>00, <2>1, ChildTyped DEF ValidateExit, TypeOK
<1>8. CASE CacheStart(l)
  <2>1. CASE Step(l, "open", teacher[s]) /\ ValidJsonl(s)
    <3>1. teacher[s] \in TeacherFiles
      BY <2>1, <1>0, <1>00 DEF ValidJsonl, HasRows, TypeOK
    <3> QED BY <1>8, <1>00, <2>1, <3>1, ChildTyped DEF CacheStart, TypeOK
  <2>2. CASE Step(l, "fail", None)
    BY <1>8, <1>00, <2>2, ChildTyped DEF CacheStart, TypeOK
  <2> QED BY <1>8, <2>1, <2>2 DEF CacheStart
<1>9. CASE CacheMove(l)
  <2>1. TypeOK'
    BY <1>9, <1>00, MoveTyped DEF CacheMove, TypeOK
  <2>2. \A m \in Launchers : child'[m].phase \in Live => child[m].phase \in Live
    BY <1>9, MoveTyped
  <2>3. ArgsKnown'
    BY <1>9, <2>2 DEF CacheMove, Typed, ArgsKnown
  <2>4. SeenKnown'
    <3> SUFFICES ASSUME NEW m \in Launchers, child'[m] # child[m]
                 PROVE  child'[m].phase \in Working /\ child'[m].seen \in TeacherFiles
      BY StageFacts DEF Typed, SeenKnown
    <3>1. /\ child[m].seen \in TeacherFiles
          /\ child'[m].phase \in {"publishing", "open"}
          /\ \/ child'[m].seen = child[m].seen
             \/ child'[m].seen = [child[m].seen EXCEPT !.quality = "empty"]
      BY <1>9, MoveTyped
    <3>2. [child[m].seen EXCEPT !.quality = "empty"] \in TeacherFiles
      BY <3>1, FileFields
    <3> QED BY <3>1, <3>2
  <2> QED BY <2>1, <2>3, <2>4 DEF Typed
<1>10. CASE CachePublish(l)
  <2>1. child[l].seen \in TeacherFiles
    BY <1>10 DEF CachePublish, Typed, SeenKnown
  <2>2. features' \in [Splits -> TeacherFiles \cup {None}]
    BY <1>10, <1>0, <1>00, <2>1 DEF CachePublish, TypeOK
  <2> QED BY <1>10, <1>00, <2>2, ChildTyped DEF CachePublish, TypeOK
<1>11. CASE TrainStart(l)
  <2>1. CASE /\ ValidFeatures("train") /\ ValidFeatures("eval")
             /\ resume[l] # None => ckpt[resume[l]] # None
    <3>1. Step(l, "open", [from |-> Sources(l), quality |-> "clean"])
      BY <1>11, <2>1 DEF TrainStart
    <3>2. [from |-> Sources(l), quality |-> "clean"] \in TeacherFiles
      BY <1>00, <2>1, SourcesTyped
    <3> QED BY <1>11, <1>00, <3>1, <3>2, ChildTyped DEF TrainStart, TypeOK
  <2>2. CASE ~(/\ ValidFeatures("train") /\ ValidFeatures("eval")
               /\ resume[l] # None => ckpt[resume[l]] # None)
    BY <1>11, <1>00, <2>2, ChildTyped DEF TrainStart, TypeOK
  <2> QED BY <2>1, <2>2
<1>12. CASE TrainSave(l) \/ TrainFinish(l) \/ TrainSkipSave(l)
  <2>1. /\ child[l].phase \in Working /\ Kind[st] = "fit" /\ child[l].seen \in TeacherFiles
        /\ UNCHANGED <<launcherVars, part, teacher, report, features, stray>>
        /\ \E phase \in {"saving", "saved", "finishing", "ok", "fail"} :
             Step(l, phase, child[l].seen) \/ (phase \in {"ok", "fail"} /\ Step(l, phase, None))
    BY <1>12
    DEF TrainSave, TrainFinish, TrainSkipSave, TrainRemove, TrainPublish, Trained, Typed, SeenKnown
  <2>2. ckpt' \in [Points -> {None} \cup SUBSET Inputs]
    <3>1. child[l].seen.from \subseteq Inputs
      BY <2>1, FileFields
    <3>2. \/ UNCHANGED ckpt
          \/ \E p \in Points, from \in {None} \cup SUBSET Inputs : ckpt' = [ckpt EXCEPT ![p] = from]
      BY <1>12, <3>1
      DEF TrainSave, TrainFinish, TrainSkipSave, TrainRemove, TrainPublish, Points
    <3> QED BY <1>00, <3>2 DEF TypeOK
  <2> QED BY <1>00, <2>1, <2>2, ChildTyped DEF TypeOK
<1>13. CASE OrphanDies(l)
  BY <1>13, <1>00, DebrisTyped, ChildTyped DEF OrphanDies, TypeOK
<1> QED
  BY <1>1, <1>2, <1>3, <1>4, <1>5, <1>6, <1>7, <1>8, <1>9, <1>10, <1>11, <1>12, <1>13
  DEF ChildStep

\* What is left of TypeOK when a stage returns.
LEMMA ReturnsTyped ==
    ASSUME TypeOK, NEW l \in Launchers, NEW st, StageReturns(l, st)
    PROVE  /\ todo' \in [Launchers -> SUBSET Stages]
           /\ pc' \in [Launchers -> {"idle", "locked", "planned", "starting", "stages", "wait"}]
           /\ servers' \in [Launchers -> {"none", "starting", "up"}]
           /\ \A m \in Launchers : pc'[m] = IF m = l THEN "stages" ELSE pc[m]
<1>1. servers' \in [Launchers -> {"none", "starting", "up"}]
  <2>1. CASE st = "generate_eval"
    BY <2>1 DEF TypeOK, StageReturns
  <2>2. CASE st # "generate_eval"
    BY <2>2 DEF TypeOK, StageReturns
  <2> QED BY <2>1, <2>2
<1> QED BY <1>1 DEF TypeOK, StageReturns

\* The steps of a launcher and the faults.
LEMMA LauncherStepTyped ==
    ASSUME Typed, NEW l \in Launchers, LauncherStep(l)
    PROVE  Typed'
<1> USE DEF Exit, artifacts
<1>0. TypeOK /\ args[l] \in Args \cup {None} /\ (pc[l] # "idle" => args[l] \in Args)
  BY DEF Typed, TypeOK, ArgsKnown
<1>1. CASE WriteRunManifest(l)
  <2>1. /\ args[l].input \in Inputs /\ args[l].stages \subseteq Stages
        /\ Latest \in Points \cup {None}
    BY <1>1, <1>0, ArgFields DEF WriteRunManifest, Latest, Points
  <2>2. TypeOK'
    BY <1>1, <1>0, <2>1 DEF WriteRunManifest, TypeOK
  <2> QED BY <1>1, <1>0, <2>2, LauncherTyped DEF WriteRunManifest, Typed, ArgsKnown, TypeOK
<1>2. CASE StartServers(l)
  <2>1. TypeOK'
    BY <1>2, <1>0 DEF StartServers, TypeOK
  <2> QED BY <1>2, <1>0, <2>1, LauncherTyped DEF StartServers, Typed, ArgsKnown, TypeOK
<1>3. CASE ServersReady(l)
  <2>1. TypeOK'
    BY <1>3, <1>0 DEF ServersReady, TypeOK
  <2> QED BY <1>3, <1>0, <2>1, LauncherTyped DEF ServersReady, Typed, ArgsKnown, TypeOK
<1>4. ASSUME NEW st \in Stages,
             SkipStage(l, st) \/ RefuseStage(l, st) \/ RecoverStage(l, st) \/ DryStage(l, st)
      PROVE  Typed'
  <2>1. CASE RefuseStage(l, st)
    <3>1. TypeOK'
      BY <2>1, <1>0 DEF RefuseStage, TypeOK
    <3> QED BY <2>1, <1>0, <3>1, LauncherTyped DEF RefuseStage, Typed, ArgsKnown, TypeOK
  <2>2. CASE SkipStage(l, st) \/ RecoverStage(l, st) \/ DryStage(l, st)
    <3>1. /\ pc[l] = "stages" /\ StageReturns(l, st)
          /\ UNCHANGED <<lock, args, resume, child, manifest, artifacts, faults>>
          /\ marker' \subseteq marker \cup {st}
      BY <2>2 DEF SkipStage, RecoverStage, DryStage, AtStage
    <3>2. TypeOK'
      BY <3>1, <1>0, ReturnsTyped DEF TypeOK
    <3> QED BY <3>1, <1>0, <3>2, ReturnsTyped, LauncherTyped DEF Typed, ArgsKnown, TypeOK
  <2> QED BY <1>4, <2>1, <2>2
<1>5. ASSUME NEW st \in Stages, SpawnStage(l, st)
      PROVE  Typed'
  <2>1. [stage |-> st, phase |-> "start", seen |-> None]
          \in [stage : Stages, phase : Phases, seen : TeacherFiles \cup {None}]
    BY DEF Phases, Live
  <2>2. TypeOK'
    BY <1>5, <1>0, <2>1 DEF SpawnStage, TypeOK
  <2> QED
    BY <1>5, <1>0, <2>2, LauncherTyped DEF SpawnStage, AtStage, Typed, ArgsKnown, TypeOK
<1>6. CASE StageEnds(l)
  <2>1. NoChild \in [stage : Stages, phase : Phases, seen : TeacherFiles \cup {None}]
    BY StageFacts DEF NoChild, Phases
  <2>2. child[l].stage \in Stages
    BY <1>0 DEF TypeOK
  <2>3. \/ StageReturns(l, child[l].stage) /\ marker' = marker \cup {child[l].stage} /\ lock' = lock
        \/ Exit(l) /\ marker' = marker
    BY <1>6 DEF StageEnds
  <2>4. /\ child' = [child EXCEPT ![l] = NoChild] /\ pc[l] = "wait"
        /\ UNCHANGED <<args, resume, manifest, artifacts, faults>>
    BY <1>6 DEF StageEnds
  <2>5. TypeOK'
    BY <2>3, <2>4, <1>0, <2>1, <2>2, ReturnsTyped DEF TypeOK
  <2>6. \A m \in Launchers : m # l => pc'[m] = pc[m] /\ child'[m] = child[m]
    BY <2>3, <2>4, <1>0, ReturnsTyped DEF TypeOK
  <2>7. child'[l] = NoChild
    BY <2>4, <1>0 DEF TypeOK
  <2> QED
    BY <2>4, <2>5, <2>6, <2>7, <1>0, LauncherTyped
    DEF NoChild, Running, Live, Typed, ArgsKnown
<1>7. CASE Finish(l)
  <2>1. TypeOK'
    BY <1>7, <1>0 DEF Finish, TypeOK
  <2> QED BY <1>7, <1>0, <2>1, LauncherTyped DEF Finish, Typed, ArgsKnown, TypeOK
<1> QED BY <1>1, <1>2, <1>3, <1>4, <1>5, <1>6, <1>7 DEF LauncherStep

LEMMA FaultTyped ==
    ASSUME Typed, NEW l \in Launchers,
           ServersFail(l) \/ Signal(l) \/ Kill(l) \/ ChildCrash(l) \/ MachineCrash
    PROVE  Typed'
<1> USE DEF artifacts
<1>0. TypeOK /\ NoChild \in [stage : Stages, phase : Phases, seen : TeacherFiles \cup {None}]
  BY StageFacts DEF Typed, NoChild, Phases
<1>1. faults < MaxFaults => faults + 1 \in 0..MaxFaults
  BY <1>0, ArgsAssumption DEF TypeOK
<1>2. CASE ServersFail(l)
  <2>1. TypeOK'
    BY <1>0, <1>1, <1>2 DEF ServersFail, Exit, TypeOK
  <2> QED
    BY <1>0, <1>2, <2>1, LauncherTyped DEF ServersFail, Exit, Typed, ArgsKnown, TypeOK
<1>3. CASE Signal(l)
  <2>1. TypeOK'
    BY <1>0, <1>1, <1>3 DEF Signal, Fault, TypeOK
  <2> QED
    BY <1>0, <1>3, <2>1, LauncherTyped
    DEF Signal, NoChild, Typed, ArgsKnown, TypeOK, Running, Live
<1>4. CASE Kill(l)
  <2>1. TypeOK'
    BY <1>0, <1>1, <1>4 DEF Kill, Fault, TypeOK
  <2> QED
    BY <1>0, <1>4, <2>1, LauncherTyped
    DEF Kill, NoChild, Typed, ArgsKnown, TypeOK, Running, Live
<1>5. CASE MachineCrash
  <2>1. TypeOK'
    BY <1>0, <1>1, <1>5, DebrisTyped DEF MachineCrash, Fault, TypeOK
  <2> QED
    BY <1>0, <1>5, <2>1
    DEF MachineCrash, NoChild, Typed, ArgsKnown, SeenKnown, Running, Live, Working
<1>6. CASE ChildCrash(l)
  BY <1>0, <1>1, <1>6, DebrisTyped, ChildTyped
  DEF ChildCrash, Fault, End, Phases, Live, TypeOK, Working
<1> QED BY <1>2, <1>3, <1>4, <1>5, <1>6

LEMMA StartTyped ==
    ASSUME Typed, NEW l \in Launchers, NEW a \in Args, Start(l, a)
    PROVE  Typed'
<1>1. TypeOK'
  BY DEF Start, Typed, TypeOK, artifacts
<1> QED
  BY <1>1, LauncherTyped DEF Start, Typed, ArgsKnown, TypeOK

LEMMA TypedStep == Typed /\ [Next]_vars => Typed'
<1> SUFFICES ASSUME Typed, [Next]_vars PROVE Typed'
  OBVIOUS
<1>1. CASE UNCHANGED vars
  BY <1>1 DEF vars, files, Typed, TypeOK, ArgsKnown, SeenKnown, Running
<1>2. CASE MachineCrash
  <2>1. CASE Launchers = {}
    BY <1>2, <2>1, StageFacts, ArgsAssumption, DebrisTyped
    DEF MachineCrash, Fault, Typed, TypeOK, ArgsKnown, SeenKnown
  <2>2. CASE Launchers # {}
    BY <1>2, <2>2, FaultTyped
  <2> QED BY <2>1, <2>2
<1> QED
  BY <1>1, <1>2, ChildStepTyped, LauncherStepTyped, FaultTyped, StartTyped DEF Next

\* Every variable keeps its type.
THEOREM TypeCorrect == Spec => []TypeOK
<1>1. Typed => TypeOK
  BY DEF Typed
<1> QED BY TypedInit, TypedStep, <1>1, PTL DEF Spec

(***************************************************************************)
(* The order of the stages.                                                *)
(***************************************************************************)

\* What a launcher that does run its stages has behind it is marked.  The
\* marker of the last stage is the only one that is ever taken back.  A dry run
\* waits for no child.
PlanKept ==
    \A l \in Launchers :
        /\ pc[l] \notin {"idle", "locked"} /\ ~args[l].dryRun
             => (Required \ todo[l]) \ {"train"} \subseteq marker
        /\ pc[l] = "wait" => ~args[l].dryRun

OrderInv == Typed /\ PlanKept /\ StagesInOrder

LEMMA RequiredStages ==
    /\ Required \subseteq Stages
    /\ \A a \in Args : Required \subseteq a.stages
BY DEF Required

\* Markers that stay, and no stage that starts: the order is kept.
LEMMA OrderKept ==
    ASSUME StagesInOrder, marker \ {"train"} \subseteq marker',
           \A st \in Stages : Started(st)' => Started(st) \/ Earlier(st) \cap Required \subseteq marker
    PROVE  StagesInOrder'
<1> SUFFICES ASSUME NEW st \in Stages, Started(st)' PROVE Earlier(st) \cap Required \subseteq marker'
  BY DEF StagesInOrder, Required
<1>1. Earlier(st) \cap Required \subseteq marker
  BY DEF StagesInOrder
<1> QED BY <1>1, StageFacts

\* A stage whose child works has its earlier stages marked.
LEMMA RunningInOrder ==
    ASSUME Typed, StagesInOrder, NEW l \in Launchers, Running(l)
    PROVE  Earlier(child[l].stage) \cap Required \subseteq marker
BY DEF StagesInOrder, Started, Typed, TypeOK

\* Children that work after a child's step worked before it.
LEMMA StepStarts ==
    ASSUME Typed, NEW l \in Launchers, NEW phase \in Phases, NEW seen \in TeacherFiles \cup {None},
           Running(l), Step(l, phase, seen), NEW m \in Launchers, Running(m)'
    PROVE  Running(m) /\ child'[m].stage = child[m].stage
<1>1. CASE m # l
  BY <1>1, StepTyped DEF Running
<1>2. CASE m = l
  BY <1>2, StepTyped DEF Running, NoChild, Live
<1> QED BY <1>1, <1>2

\* What a child's step leaves alone.
LEMMA ChildFrame ==
    ASSUME NEW l \in Launchers, ChildStep(l)
    PROVE  /\ UNCHANGED launcherVars /\ Running(l)
           /\ UNCHANGED teacher \/ GeneratePublish(l) \/ ValidateFilter(l)
           /\ UNCHANGED report \/ ValidateReport(l)
           /\ UNCHANGED features \/ CachePublish(l)
           /\ UNCHANGED ckpt \/ TrainSave(l) \/ TrainFinish(l)
           /\ \/ UNCHANGED part
              \/ GenerateStart(l) \/ GenerateFlush(l) \/ GeneratePublish(l) \/ Debris({l})
BY DEF ChildStep, GenerateStart, GenerateFlush, GeneratePublish, ValidateRead, ValidateFilter,
       ValidateReport, ValidateExit, CacheStart, CacheMove, CachePublish, TrainStart, TrainSave,
       TrainFinish, TrainSkipSave, TrainRemove, TrainPublish, Trained, OrphanDies, Debris, At,
       Running, Live

\* A stage is as valid as its artifact is.
LEMMA SameValid ==
    ASSUME NEW v \in Stages
    PROVE  /\ Kind[v] = "generate" /\ teacher'[Split[v]] = teacher[Split[v]] => Valid(v)' = Valid(v)
           /\ Kind[v] = "validate" /\ report'[Split[v]] = report[Split[v]] => Valid(v)' = Valid(v)
           /\ Kind[v] = "cache" /\ features'[Split[v]] = features[Split[v]] => Valid(v)' = Valid(v)
           /\ Kind[v] = "fit" /\ ckpt' = ckpt => Valid(v)' = Valid(v)
BY StageFacts DEF Valid, ValidJsonl, HasRows, ValidReport, ValidFeatures, ValidCheckpoint

LEMMA SameArtifacts ==
    ASSUME UNCHANGED <<teacher, report, features, ckpt>>
    PROVE  \A v \in Stages : Valid(v)' = Valid(v)
BY StageFacts, SameValid

\* A child's step changes the artifact of its own stage, or of the generation
\* whose file its validation filters.
LEMMA OneStage ==
    ASSUME Typed, NEW l \in Launchers, ChildStep(l)
    PROVE  \E v \in Stages :
             /\ \A w \in Stages \ {v} : Valid(w)' = Valid(w)
             /\ \/ v = child[l].stage
                \/ Kind[v] = "generate" /\ Kind[child[l].stage] = "validate"
<1> DEFINE st == child[l].stage
           s == Split[st]
<1> USE DEF At
<1>0. st \in Stages /\ s \in Splits /\ TypeOK
  BY StageFacts DEF Typed, TypeOK
<1>1. CASE UNCHANGED <<teacher, report, features, ckpt>>
  BY <1>0, <1>1, SameArtifacts
<1>2. ASSUME Kind[st] \in {"generate", "validate", "cache", "fit"},
             \/ /\ Kind[st] = "generate" /\ UNCHANGED <<report, features, ckpt>>
                /\ \A t \in Splits \ {s} : teacher'[t] = teacher[t]
             \/ /\ Kind[st] = "validate" /\ UNCHANGED <<teacher, features, ckpt>>
                /\ \A t \in Splits \ {s} : report'[t] = report[t]
             \/ /\ Kind[st] = "cache" /\ UNCHANGED <<teacher, report, ckpt>>
                /\ \A t \in Splits \ {s} : features'[t] = features[t]
             \/ Kind[st] = "fit" /\ UNCHANGED <<teacher, report, features>>
      PROVE  \A w \in Stages \ {st} : Valid(w)' = Valid(w)
  <2> SUFFICES ASSUME NEW w \in Stages \ {st} PROVE Valid(w)' = Valid(w)
    OBVIOUS
  <2>1. Kind[w] # Kind[st] \/ Split[w] \in Splits \ {s}
    BY <1>0, StageFacts, StageKey
  <2>2. Kind[st] = "fit" => Kind[w] # "fit"
    BY <1>0, StageFacts
  <2> QED BY <1>2, <2>1, <2>2, StageFacts, SameValid
<1>3. CASE GeneratePublish(l)
  <2>1. /\ \A t \in Splits \ {s} : teacher'[t] = teacher[t]
        /\ UNCHANGED <<report, features, ckpt>> /\ Kind[st] = "generate"
    BY <1>3, <1>0 DEF GeneratePublish, TypeOK
  <2> QED BY <1>0, <1>2, <2>1
<1>4. CASE ValidateFilter(l)
  <2>1. /\ \A t \in Splits \ {s} : teacher'[t] = teacher[t]
        /\ UNCHANGED <<report, features, ckpt>> /\ Kind[st] = "validate"
    BY <1>4, <1>0 DEF ValidateFilter, TypeOK
  <2>2. PICK v \in Stages : Kind[v] = "generate" /\ Split[v] = s
    BY <1>0, StageFacts DEF Kind, Split, Splits
  <2>3. \A w \in Stages \ {v} : Valid(w)' = Valid(w)
    <3> SUFFICES ASSUME NEW w \in Stages \ {v} PROVE Valid(w)' = Valid(w)
      OBVIOUS
    <3>1. Kind[w] # "generate" \/ Split[w] \in Splits \ {s}
      BY <2>2, StageFacts, StageKey
    <3> QED BY <2>1, <3>1, StageFacts, SameValid
  <2> QED BY <2>1, <2>2, <2>3
<1>5. CASE ValidateReport(l)
  <2>1. /\ \A t \in Splits \ {s} : report'[t] = report[t]
        /\ UNCHANGED <<teacher, features, ckpt>> /\ Kind[st] = "validate"
    BY <1>5, <1>0 DEF ValidateReport, TypeOK
  <2> QED BY <1>0, <1>2, <2>1
<1>6. CASE CachePublish(l)
  <2>1. /\ \A t \in Splits \ {s} : features'[t] = features[t]
        /\ UNCHANGED <<teacher, report, ckpt>> /\ Kind[st] = "cache"
    BY <1>6, <1>0 DEF CachePublish, TypeOK
  <2> QED BY <1>0, <1>2, <2>1
<1>7. CASE TrainSave(l) \/ TrainFinish(l)
  <2>1. UNCHANGED <<teacher, report, features>> /\ Kind[st] = "fit"
    BY <1>7 DEF TrainSave, TrainFinish, TrainRemove, TrainPublish, Trained
  <2> QED BY <1>0, <1>2, <2>1
<1> QED BY <1>1, <1>3, <1>4, <1>5, <1>6, <1>7, ChildFrame

\* What a child goes on to, and what it works from then.
LEMMA ChildMoves ==
    ASSUME Typed, NEW l \in Launchers, ChildStep(l)
    PROVE  \/ UNCHANGED child
           \/ CacheMove(l)
           \/ \E phase \in Phases, seen \in TeacherFiles \cup {None} :
                LET s == Split[child[l].stage] IN
                /\ Step(l, phase, seen)
                /\ phase = "audited" => HasRows(s) /\ seen = teacher[s]
                /\ phase \in {"filtered", "reported"} =>
                     child[l].phase \in {"audited", "filtered"} /\ seen = child[l].seen
                /\ phase = "filtered" => ValidateFilter(l)
                /\ Kind[child[l].stage] = "cache" /\ phase \in {"open", "publishing"}
                     => ValidJsonl(s) /\ seen = teacher[s]
<1> DEFINE s == Split[child[l].stage]
<1> USE DEF At, Live, Phases, End
<1>0. s \in Splits /\ TypeOK
  BY StageFacts DEF Typed, TypeOK
<1>1. CASE \E phase \in {"open", "ok", "fail"} :
             Step(l, phase, None) /\ (phase = "open" => Kind[child[l].stage] = "generate")
  BY <1>1
<1>2. CASE ValidateRead(l) \/ CacheStart(l)
  <2>1. CASE Step(l, "fail", None)
    BY <1>1, <2>1
  <2>2. CASE ~Step(l, "fail", None)
    <3>1. /\ HasRows(s)
          /\ \/ ValidateRead(l) /\ Step(l, "audited", teacher[s])
             \/ CacheStart(l) /\ ValidJsonl(s) /\ Step(l, "open", teacher[s])
      BY <1>2, <2>2 DEF ValidateRead, CacheStart, ValidJsonl
    <3>2. teacher[s] \in TeacherFiles
      BY <3>1, <1>0 DEF HasRows, TypeOK
    <3>3. CASE ValidateRead(l) /\ Step(l, "audited", teacher[s])
      BY <3>1, <3>2, <3>3 DEF ValidateRead
    <3>4. CASE CacheStart(l) /\ ValidJsonl(s) /\ Step(l, "open", teacher[s])
      BY <3>2, <3>4
    <3> QED BY <3>1, <3>3, <3>4
  <2> QED BY <2>1, <2>2
<1>3. CASE ValidateFilter(l) \/ ValidateReport(l)
  BY <1>3, <1>0 DEF ValidateFilter, ValidateReport, TypeOK
<1>4. CASE TrainStart(l)
  <2>1. CASE /\ ValidFeatures("train") /\ ValidFeatures("eval")
             /\ resume[l] # None => ckpt[resume[l]] # None
    <3>1. Step(l, "open", [from |-> Sources(l), quality |-> "clean"]) /\ Kind[child[l].stage] = "fit"
      BY <1>4, <2>1 DEF TrainStart
    <3>2. [from |-> Sources(l), quality |-> "clean"] \in TeacherFiles
      BY <1>0, <2>1, SourcesTyped
    <3> QED BY <3>1, <3>2
  <2>2. CASE ~(/\ ValidFeatures("train") /\ ValidFeatures("eval")
               /\ resume[l] # None => ckpt[resume[l]] # None)
    BY <1>1, <1>4, <2>2 DEF TrainStart
  <2> QED BY <2>1, <2>2
<1>5. CASE TrainSave(l) \/ TrainFinish(l) \/ TrainSkipSave(l)
  <2>1. /\ Kind[child[l].stage] = "fit" /\ child[l].seen \in TeacherFiles \cup {None}
        /\ \E phase \in {"saving", "saved", "finishing", "ok", "fail"} :
             Step(l, phase, child[l].seen) \/ Step(l, phase, None)
    BY <1>0, <1>5
    DEF TrainSave, TrainFinish, TrainSkipSave, TrainRemove, TrainPublish, Trained, TypeOK
  <2> QED BY <2>1
<1> QED
  BY <1>1, <1>2, <1>3, <1>4, <1>5
  DEF ChildStep, GenerateStart, GenerateFlush, GeneratePublish, ValidateExit, CachePublish,
      OrphanDies

\* A child that goes on with its work starts no other stage.
LEMMA ChildStarts ==
    ASSUME Typed, NEW l \in Launchers, ChildStep(l)
    PROVE  \A m \in Launchers : Running(m)' => Running(m) /\ child'[m].stage = child[m].stage
<1> SUFFICES ASSUME NEW m \in Launchers, Running(m)'
             PROVE  Running(m) /\ child'[m].stage = child[m].stage
  OBVIOUS
<1>1. CASE UNCHANGED child
  BY <1>1 DEF Running
<1>2. CASE CacheMove(l)
  BY <1>2, MoveTyped DEF Running, At, Live
<1>3. CASE \E phase \in Phases, seen \in TeacherFiles \cup {None} : Step(l, phase, seen)
  BY <1>3, StepStarts, ChildFrame
<1> QED BY <1>1, <1>2, <1>3, ChildMoves

LEMMA ChildInOrder ==
    ASSUME OrderInv, NEW l \in Launchers, ChildStep(l)
    PROVE  PlanKept' /\ StagesInOrder'
<1> DEFINE cs == child[l].stage
<1>0. Typed /\ StagesInOrder /\ Running(l) /\ UNCHANGED <<pc, args, todo, marker>> /\ cs \in Stages
  BY ChildFrame DEF OrderInv, Typed, TypeOK, launcherVars
<1>1. StagesInOrder'
  <2> SUFFICES ASSUME NEW st \in Stages, Started(st)'
               PROVE  Started(st) \/ Earlier(st) \cap Required \subseteq marker
    BY <1>0, OrderKept
  <2>1. CASE st \in marker
    BY <2>1 DEF Started
  <2>2. ASSUME NEW m \in Launchers, Running(m)', child'[m].stage = st
        PROVE  Started(st)
    BY <1>0, <2>2, ChildStarts DEF Started
  <2>3. CASE Valid(st)' /\ ~Valid(st)
    <3>1. st = cs \/ (Kind[st] = "generate" /\ Kind[cs] = "validate")
      BY <1>0, <2>3, OneStage
    <3>2. Earlier(st) \subseteq Earlier(cs)
      BY <1>0, <3>1, GenerateFirst
    <3> QED BY <1>0, <3>2, RunningInOrder
  <2> QED BY <1>0, <2>1, <2>2, <2>3 DEF Started
<1> QED BY <1>0, <1>1 DEF OrderInv, PlanKept

LEMMA LauncherInOrder ==
    ASSUME OrderInv, Typed', NEW l \in Launchers, LauncherStep(l)
    PROVE  PlanKept' /\ StagesInOrder'
<1> DEFINE Same(st) == Valid(st)' = Valid(st)
<1>0. Typed /\ TypeOK /\ PlanKept /\ StagesInOrder /\ (pc[l] # "idle" => args[l] \in Args)
  BY DEF OrderInv, Typed, ArgsKnown
<1>1. \A st \in Stages : UNCHANGED artifacts => Same(st)
  BY SameArtifacts DEF artifacts
\* A launcher that goes on without a child, or gives up.
<1>2. ASSUME UNCHANGED <<args, child, marker, artifacts>>,
             \A m \in Launchers : m # l => pc'[m] = pc[m] /\ todo'[m] = todo[m],
             \/ pc'[l] = "idle"
             \/ pc'[l] \notin {"idle", "locked", "wait"} /\ pc[l] # "idle"
                /\ \/ Required \ todo'[l] \subseteq marker
                   \/ todo'[l] = todo[l] /\ pc[l] # "locked"
      PROVE  PlanKept' /\ StagesInOrder'
  <2>1. PlanKept'
    BY <1>0, <1>2 DEF PlanKept
  <2>2. StagesInOrder'
    BY <1>0, <1>1, <1>2, OrderKept DEF Started, Running
  <2> QED BY <2>1, <2>2
\* A stage returns, marked unless the run is a dry one.
<1>3. ASSUME NEW st \in Stages, StageReturns(l, st), UNCHANGED <<args, artifacts>>,
             pc[l] \in {"stages", "wait"},
             marker \ {"train"} \subseteq marker', marker' \subseteq marker \cup {st},
             st \in marker' => Started(st),
             st \in marker' \/ args[l].dryRun,
             \A m \in Launchers : Running(m)' => Running(m) /\ child'[m] = child[m]
      PROVE  PlanKept' /\ StagesInOrder'
  <2>1. PlanKept'
    <3>1. /\ \A m \in Launchers : m # l => pc'[m] = pc[m] /\ todo'[m] = todo[m]
          /\ todo'[l] = todo[l] \ {st} /\ pc'[l] = "stages"
      BY <1>0, <1>3 DEF StageReturns, TypeOK
    <3> QED BY <1>0, <1>3, <3>1 DEF PlanKept
  <2>2. StagesInOrder'
    <3>1. \A v \in Stages : Started(v)' => Started(v)
      BY <1>1, <1>3 DEF Started
    <3> QED BY <1>0, <1>3, <3>1, OrderKept
  <2> QED BY <2>1, <2>2
<1>4. CASE WriteRunManifest(l)
  <2>1. Required \ args[l].stages = {}
    BY <1>0, <1>4, RequiredStages DEF WriteRunManifest
  <2> QED BY <1>0, <1>2, <1>4, <2>1 DEF WriteRunManifest, Exit, TypeOK
<1>5. CASE StartServers(l) \/ ServersReady(l)
  BY <1>0, <1>2, <1>5 DEF StartServers, ServersReady, TypeOK
<1>6. CASE Finish(l)
  BY <1>0, <1>2, <1>6 DEF Finish, Exit, TypeOK
<1>7. ASSUME NEW st \in Stages, RefuseStage(l, st)
      PROVE  PlanKept' /\ StagesInOrder'
  BY <1>0, <1>2, <1>7 DEF RefuseStage, Exit, TypeOK
<1>8. ASSUME NEW st \in Stages, SkipStage(l, st) \/ RecoverStage(l, st) \/ DryStage(l, st)
      PROVE  PlanKept' /\ StagesInOrder'
  <2>1. st \in marker /\ MustRun(st) => st = "train"
    BY StageFacts DEF MustRun
  <2>2. /\ StageReturns(l, st) /\ pc[l] = "stages" /\ UNCHANGED <<args, child, artifacts>>
        /\ marker' = marker \/ (Valid(st) /\ marker' = marker \cup {st})
             \/ (MustRun(st) /\ marker' = marker \ {st})
        /\ st \in marker' \/ args[l].dryRun
    BY <1>8 DEF SkipStage, RecoverStage, DryStage, AtStage, artifacts
  <2> QED BY <1>3, <2>1, <2>2 DEF Started, Running
<1>9. ASSUME NEW st \in Stages, SpawnStage(l, st)
      PROVE  PlanKept' /\ StagesInOrder'
  <2>1. marker \ {"train"} \subseteq marker' /\ marker' \subseteq marker
    BY <1>9, StageFacts DEF SpawnStage, MustRun
  <2>2. Earlier(st) \cap Required \subseteq marker
    BY <1>0, <1>9, StageFacts DEF SpawnStage, AtStage, PlanKept
  <2>3. \A m \in Launchers : Running(m)' => \/ Running(m) /\ child'[m] = child[m]
                                            \/ child'[m].stage = st
    BY <1>0, <1>9 DEF SpawnStage, Running, TypeOK
  <2>4. StagesInOrder'
    <3>1. \A v \in Stages : Started(v)' => Started(v) \/ v = st
      BY <1>1, <1>9, <2>1, <2>3 DEF Started, SpawnStage
    <3> QED BY <1>0, <2>1, <2>2, <3>1, OrderKept
  <2>5. PlanKept'
    BY <1>0, <1>9, <2>1 DEF SpawnStage, AtStage, PlanKept, TypeOK
  <2> QED BY <2>4, <2>5
<1>10. CASE StageEnds(l)
  <2>1. child[l].stage \in Stages /\ pc[l] = "wait" /\ ~args[l].dryRun
    BY <1>0, <1>10 DEF StageEnds, TypeOK, PlanKept
  <2>2. \A m \in Launchers : Running(m)' => Running(m) /\ child'[m] = child[m]
    BY <1>0, <1>10 DEF StageEnds, Running, NoChild, Live, TypeOK
  <2>3. UNCHANGED <<args, artifacts>>
    BY <1>10 DEF StageEnds, artifacts
  <2>4. CASE Exit(l) /\ UNCHANGED marker
    <3>1. StagesInOrder'
      BY <1>0, <1>1, <2>2, <2>3, <2>4, OrderKept DEF Started
    <3>2. PlanKept'
      BY <1>0, <2>3, <2>4 DEF Exit, PlanKept, TypeOK
    <3> QED BY <3>1, <3>2
  <2>5. CASE ~(Exit(l) /\ UNCHANGED marker)
    <3>1. /\ StageReturns(l, child[l].stage) /\ Valid(child[l].stage)
          /\ marker' = marker \cup {child[l].stage}
      BY <1>10, <2>5 DEF StageEnds
    <3> QED BY <1>3, <2>1, <2>2, <2>3, <3>1 DEF Started
  <2> QED BY <2>4, <2>5
<1> QED
  BY <1>4, <1>5, <1>6, <1>7, <1>8, <1>9, <1>10 DEF LauncherStep

LEMMA OtherInOrder ==
    ASSUME OrderInv,
           \/ \E l \in Launchers, a \in Args : Start(l, a)
           \/ \E l \in Launchers : ServersFail(l) \/ Signal(l) \/ Kill(l) \/ ChildCrash(l)
           \/ MachineCrash
    PROVE  PlanKept' /\ StagesInOrder'
<1>1. TypeOK /\ marker' = marker /\ UNCHANGED <<teacher, report, features, ckpt>>
  BY DEF OrderInv, Typed, Start, ServersFail, Signal, Kill, ChildCrash, MachineCrash, Debris,
         artifacts
<1>2. \A st \in Stages : Valid(st)' = Valid(st)
  BY <1>1, SameArtifacts
<1>3. \A m \in Launchers : Running(m)' => Running(m) /\ child'[m].stage = child[m].stage
  <2>1. CASE \E l \in Launchers : ChildCrash(l)
    BY <2>1, StepStarts DEF OrderInv, ChildCrash, End, Phases
  <2>2. CASE ~\E l \in Launchers : ChildCrash(l)
    BY <1>1, <2>2
    DEF Start, ServersFail, Signal, Kill, MachineCrash, TypeOK, NoChild, Running, Live
  <2> QED BY <2>1, <2>2
<1>4. \A m \in Launchers : /\ pc'[m] # pc[m] => pc'[m] \in {"idle", "locked"}
                           /\ pc'[m] \notin {"idle", "locked"}
                                => args'[m] = args[m] /\ todo'[m] = todo[m]
  BY <1>1
  DEF Start, ServersFail, Signal, Kill, ChildCrash, MachineCrash, Exit, TypeOK
<1>5. StagesInOrder'
  BY <1>1, <1>2, <1>3, OrderKept DEF OrderInv, Started
<1>6. PlanKept'
  BY <1>1, <1>4 DEF OrderInv, PlanKept
<1> QED BY <1>5, <1>6

LEMMA OrderStep == OrderInv /\ [Next]_vars => OrderInv'
<1> SUFFICES ASSUME OrderInv, [Next]_vars PROVE OrderInv'
  OBVIOUS
<1>1. Typed'
  BY TypedStep DEF OrderInv
<1>2. CASE UNCHANGED vars
  BY <1>1, <1>2, SameArtifacts
  DEF vars, files, OrderInv, PlanKept, StagesInOrder, Started, Running
<1>3. CASE \E l \in Launchers : LauncherStep(l)
  BY <1>1, <1>3, LauncherInOrder DEF OrderInv
<1>4. CASE \E l \in Launchers : ChildStep(l)
  BY <1>1, <1>4, ChildInOrder DEF OrderInv
<1> QED
  BY <1>1, <1>2, <1>3, <1>4, OtherInOrder DEF Next, OrderInv

LEMMA OrderInit == Init => OrderInv
<1> SUFFICES ASSUME Init PROVE OrderInv
  OBVIOUS
<1>1. PlanKept
  BY DEF Init, PlanKept
<1>2. \A st \in Stages : ~Valid(st) /\ st \notin marker
  BY StageFacts
  DEF Init, Valid, ValidJsonl, HasRows, ValidReport, ValidFeatures, ValidCheckpoint, Splits, Points
<1>3. \A l \in Launchers : ~Running(l)
  BY DEF Init, Running, NoChild, Live
<1>4. StagesInOrder
  BY <1>2, <1>3 DEF StagesInOrder, Started
<1> QED BY <1>1, <1>4, TypedInit DEF OrderInv

\* Whatever is interrupted and whoever is left over, no stage's work is found
\* before the earlier stages that every command line includes are marked.
THEOREM OrderCorrect == Spec => []StagesInOrder
<1>1. OrderInv => StagesInOrder
  BY DEF OrderInv
<1> QED BY OrderInit, OrderStep, <1>1, PTL DEF Spec

(***************************************************************************)
(* Pipeline implements StagedRun as long as no teacher file is hopeless:   *)
(* the filter would leave a hopeless one without a row, and the artifact   *)
(* of a completed stage would be gone.                                     *)
(***************************************************************************)

NothingHopeless == "hopeless" \notin Qualities

\* A file with rows has no .part file behind it, so nothing but a filter that
\* read it replaces it; and a marked generation or validation is still there.
RowsKept ==
    /\ \A s \in Splits : HasRows(s) => part[s] = None
    /\ \A l \in Launchers :
         /\ child[l].phase \in {"audited", "filtered", "reported"}
              => child[l].seen.quality # "empty"
         /\ child[l].phase = "audited" => HasRows(Split[child[l].stage])

MarkedValid ==
    \A st \in marker : Kind[st] \in {"generate", "validate"} => Valid(st)

RefineInv == OrderInv /\ RowsKept /\ MarkedValid

\* What a filter writes.
LEMMA FilterWrites ==
    ASSUME NothingHopeless, Typed, RowsKept, NEW l \in Launchers, ValidateFilter(l)
    PROVE  /\ Filtered(child[l].seen) # None /\ Filtered(child[l].seen).quality = "clean"
           /\ HasRows(Split[child[l].stage])
<1>1. child[l].seen \in TeacherFiles /\ child[l].phase = "audited"
  BY DEF ValidateFilter, At, Typed, SeenKnown
<1>2. child[l].seen.quality \notin {"hopeless", "empty"}
  BY <1>1, ArgsAssumption DEF RowsKept, NothingHopeless, TeacherFiles
<1>3. Filtered(child[l].seen).quality = "clean"
  BY <1>1, <1>2 DEF Filtered, TeacherFiles
<1> QED BY <1>1, <1>3, FileFields, NothingIsNone DEF RowsKept

\* A teacher file with rows is replaced by a clean one only, and the rows of a
\* .part file become one.
LEMMA TeacherChanges ==
    ASSUME NothingHopeless, Typed, RowsKept, NEW l \in Launchers, ChildStep(l), NEW t \in Splits
    PROVE  /\ \/ teacher'[t] = teacher[t]
              \/ teacher'[t] # None /\ teacher'[t].quality = "clean"
              \/ ~HasRows(t)
           /\ HasRows(t)' => part'[t] = None
<1> DEFINE s == Split[child[l].stage]
<1>0. s \in Splits /\ TypeOK /\ (HasRows(t) => part[t] = None)
  BY StageFacts DEF Typed, TypeOK, RowsKept
<1>1. CASE GeneratePublish(l)
  <2>1. CASE t = s /\ teacher'[t] # teacher[t]
    <3>1. part[s] # None /\ part'[s] = None
      BY <1>0, <1>1, <2>1 DEF GeneratePublish, TypeOK
    <3> QED BY <1>0, <2>1, <3>1
  <2>2. CASE t # s \/ teacher'[t] = teacher[t]
    <3>1. teacher'[t] = teacher[t] /\ (part'[t] = part[t] \/ part'[t] = None)
      BY <1>0, <1>1, <2>2 DEF GeneratePublish, TypeOK
    <3> QED BY <1>0, <3>1 DEF HasRows
  <2> QED BY <2>1, <2>2
<1>2. CASE ValidateFilter(l)
  <2>1. CASE t = s
    <3>1. teacher'[t] = Filtered(child[l].seen) /\ part' = part
      BY <1>0, <1>2, <2>1 DEF ValidateFilter, TypeOK
    <3> QED BY <1>0, <1>2, <2>1, <3>1, FilterWrites
  <2>2. CASE t # s
    <3>1. teacher'[t] = teacher[t] /\ part' = part
      BY <1>0, <1>2, <2>2 DEF ValidateFilter, TypeOK
    <3> QED BY <1>0, <3>1 DEF HasRows
  <2> QED BY <2>1, <2>2
<1>3. CASE UNCHANGED teacher
  <2>1. HasRows(t)' = HasRows(t)
    BY <1>3 DEF HasRows
  <2>2. HasRows(t) => part'[t] = part[t] \/ part'[t] = None
    <3>1. CASE GenerateStart(l)
      BY <1>0, <3>1 DEF GenerateStart, TypeOK
    <3>2. CASE GenerateFlush(l)
      BY <1>0, <3>2 DEF GenerateFlush, TypeOK
    <3>3. CASE GeneratePublish(l)
      BY <1>0, <3>3 DEF GeneratePublish, TypeOK
    <3>4. CASE Debris({l})
      BY <1>0, <3>4, DebrisTyped
    <3> QED BY <3>1, <3>2, <3>3, <3>4, ChildFrame
  <2> QED BY <1>0, <1>3, <2>1, <2>2
<1> QED BY <1>1, <1>2, <1>3, ChildFrame

LEMMA ChildKeepsRows ==
    ASSUME NothingHopeless, Typed, RowsKept, NEW l \in Launchers, ChildStep(l)
    PROVE  RowsKept'
<1> DEFINE s == Split[child[l].stage]
<1>0. s \in Splits /\ TypeOK
  BY StageFacts DEF Typed, TypeOK
<1>1. \A t \in Splits : HasRows(t) => HasRows(t)'
  BY TeacherChanges DEF HasRows
<1>2. ASSUME NEW m \in Launchers
      PROVE  /\ child'[m].phase \in {"audited", "filtered", "reported"}
                  => child'[m].seen.quality # "empty"
             /\ (child[m].phase = "audited" => HasRows(Split[child[m].stage]))'
  <2>1. CASE child'[m] = child[m]
    <3>1. Split[child[m].stage] \in Splits
      BY <1>0, StageFacts DEF TypeOK
    <3> QED BY <1>1, <2>1, <3>1 DEF RowsKept
  <2>2. CASE child'[m] # child[m] /\ CacheMove(l)
    BY <2>2, MoveTyped
  <2>3. CASE child'[m] # child[m] /\ ~CacheMove(l)
    <3>1. PICK phase \in Phases, seen \in TeacherFiles \cup {None} :
            /\ Step(l, phase, seen)
            /\ phase = "audited" => HasRows(s) /\ seen = teacher[s]
            /\ phase \in {"filtered", "reported"} =>
                 child[l].phase \in {"audited", "filtered"} /\ seen = child[l].seen
      BY <2>3, ChildMoves
    <3>2. /\ m = l
          /\ \/ child'[m] = NoChild
             \/ /\ child'[m].stage = child[m].stage
                /\ child'[m].phase = phase /\ child'[m].seen = seen
      BY <2>3, <3>1, StepTyped
    <3>3. CASE child'[m] = NoChild
      BY <3>3 DEF NoChild
    <3>4. CASE /\ child'[m].stage = child[m].stage
               /\ child'[m].phase = phase /\ child'[m].seen = seen
      <4>1. phase = "audited" => seen.quality # "empty" /\ HasRows(s)'
        <5>1. Split[child'[l].stage] = s
          BY <3>2, <3>4
        <5> HIDE DEF s
        <5>2. HasRows(s) => teacher[s].quality # "empty" /\ teacher'[s] # None
                              /\ teacher'[s].quality # "empty"
          BY <1>0, <1>1 DEF HasRows
        <5> QED BY <3>1, <5>1, <5>2 DEF s, HasRows
      <4>2. phase \in {"filtered", "reported"} => seen.quality # "empty"
        BY <3>1 DEF RowsKept
      <4> QED BY <3>2, <3>4, <4>1, <4>2
    <3> QED BY <3>2, <3>3, <3>4
  <2> QED BY <2>1, <2>2, <2>3
<1> QED BY <1>2, TeacherChanges DEF RowsKept

\* Files with rows are replaced by clean ones, and reports by reports.
LEMMA ChildKeepsValid ==
    ASSUME NothingHopeless, Typed, RowsKept, NEW l \in Launchers, ChildStep(l),
           NEW st \in Stages, Kind[st] \in {"generate", "validate"}, Valid(st)
    PROVE  Valid(st)'
<1> DEFINE t == Split[st]
<1>0. t \in Splits /\ TypeOK
  BY StageFacts DEF Typed, TypeOK
<1>1. CASE Kind[st] = "generate"
  <2>1. ValidJsonl(t)
    BY <1>1 DEF Valid
  <2>2. teacher'[t] = teacher[t] \/ (teacher'[t] # None /\ teacher'[t].quality = "clean")
    BY <1>0, <2>1, TeacherChanges DEF ValidJsonl
  <2>3. ValidJsonl(t)'
    BY <2>1, <2>2 DEF ValidJsonl, HasRows
  <2> QED BY <1>1, <2>3 DEF Valid
<1>2. CASE Kind[st] = "validate"
  <2>1. ValidReport(t)
    BY <1>2 DEF Valid
  <2>2. ValidReport(t)'
    <3>1. CASE ValidateReport(l)
      BY <1>0, <2>1, <3>1, NothingIsNone DEF ValidateReport, ValidReport, TypeOK
    <3>2. CASE UNCHANGED report
      BY <2>1, <3>2 DEF ValidReport
    <3> QED BY <3>1, <3>2, ChildFrame
  <2> QED BY <1>2, <2>2 DEF Valid
<1> QED BY <1>1, <1>2

done == {st \in Stages : Valid(st)}

\* Launchers and faults leave the artifacts alone, and what children have read;
\* they mark what is valid, and unmark a training that has to go on.
LEMMA OthersKeep ==
    ASSUME NothingHopeless, RefineInv, Typed',
           \/ \E l \in Launchers, a \in Args : Start(l, a)
           \/ \E l \in Launchers : LauncherStep(l)
           \/ \E l \in Launchers : ServersFail(l) \/ Signal(l) \/ Kill(l) \/ ChildCrash(l)
           \/ MachineCrash
    PROVE  /\ RowsKept' /\ MarkedValid' /\ done' = done
           /\ \/ marker' = marker
              \/ \E st \in Stages : \/ Valid(st) /\ marker' = marker \cup {st}
                                    \/ st = "train" /\ ~Valid(st) /\ marker' = marker \ {st}
<1>0. Typed /\ TypeOK /\ RowsKept /\ MarkedValid
  BY DEF RefineInv, OrderInv, Typed
<1>1. /\ UNCHANGED <<teacher, report, features, ckpt>>
      /\ \A s \in Splits : part'[s] = None <=> part[s] = None
  <2>1. CASE \E l \in Launchers : ChildCrash(l) \/ MachineCrash
    BY <1>0, <2>1, DebrisTyped DEF ChildCrash, MachineCrash
  <2>2. CASE MachineCrash
    BY <1>0, <2>2, DebrisTyped DEF MachineCrash
  <2> QED
    BY <2>1, <2>2
    DEF Start, LauncherStep, WriteRunManifest, StartServers, ServersReady, SkipStage,
        RefuseStage, RecoverStage, DryStage, SpawnStage, StageEnds, Finish, ServersFail, Signal,
        Kill, artifacts
<1>2. \A st \in Stages : Valid(st)' = Valid(st)
  BY <1>1, SameArtifacts
<1>3. RowsKept'
  <2>1. ASSUME NEW m \in Launchers
        PROVE  child'[m] = child[m] \/ child'[m].phase \in {"none", "start", "fail"}
    <3>1. CASE \E l \in Launchers : ChildCrash(l)
      BY <1>0, <3>1, StepTyped DEF ChildCrash, End, NoChild, Phases
    <3>2. CASE \E l \in Launchers, st \in Stages : SpawnStage(l, st)
      BY <1>0, <3>2 DEF SpawnStage, TypeOK
    <3>3. CASE \/ \E l \in Launchers : StageEnds(l) \/ Signal(l) \/ Kill(l)
               \/ MachineCrash
      BY <1>0, <3>3 DEF StageEnds, Signal, Kill, MachineCrash, NoChild, TypeOK
    <3> QED
      BY <3>1, <3>2, <3>3
      DEF Start, LauncherStep, WriteRunManifest, StartServers, ServersReady, SkipStage,
          RefuseStage, RecoverStage, DryStage, Finish, ServersFail
  <2>2. \A s \in Splits : HasRows(s)' = HasRows(s)
    BY <1>1 DEF HasRows
  <2>3. \A m \in Launchers : Split[child[m].stage] \in Splits
    BY <1>0, StageFacts DEF TypeOK
  <2> QED BY <1>0, <1>1, <2>1, <2>2, <2>3 DEF RowsKept
<1>4. \/ marker' = marker
      \/ \E st \in Stages : \/ Valid(st) /\ marker' = marker \cup {st}
                            \/ st = "train" /\ ~Valid(st) /\ marker' = marker \ {st}
  <2>1. CASE \E l \in Launchers, st \in Stages : DryStage(l, st) \/ SpawnStage(l, st)
    <3>1. PICK st \in Stages : MustRun(st) /\ marker' = marker \ {st}
      BY <2>1 DEF DryStage, SpawnStage
    <3>2. CASE st \in marker
      BY <3>1, <3>2, StageFacts DEF MustRun
    <3>3. CASE st \notin marker
      BY <3>1, <3>3
    <3> QED BY <3>2, <3>3
  <2>2. CASE \E l \in Launchers : StageEnds(l)
    BY <1>0, <2>2 DEF StageEnds, TypeOK
  <2> QED
    BY <2>1, <2>2
    DEF Start, LauncherStep, WriteRunManifest, StartServers, ServersReady, SkipStage,
        RefuseStage, RecoverStage, Finish, ServersFail, Signal, Kill, ChildCrash, MachineCrash
<1>5. MarkedValid'
  BY <1>0, <1>2, <1>4 DEF MarkedValid, TypeOK
<1> QED BY <1>2, <1>3, <1>4, <1>5 DEF done

\* A child's step completes a stage whose time has come, or takes a capture or
\* a training back.
LEMMA ChildCompletes ==
    ASSUME NothingHopeless, RefineInv, NEW l \in Launchers, ChildStep(l)
    PROVE  [Staged!Next]_<<done, marker>>
<1> DEFINE cs == child[l].stage
<1>0. /\ Typed /\ RowsKept /\ StagesInOrder /\ Running(l) /\ cs \in Stages
      /\ marker' = marker
  BY ChildFrame DEF RefineInv, OrderInv, Typed, TypeOK, launcherVars
<1>1. PICK v \in Stages :
        /\ \A w \in Stages \ {v} : Valid(w)' = Valid(w)
        /\ v = cs \/ (Kind[v] = "generate" /\ Kind[cs] = "validate")
  BY <1>0, OneStage
<1>2. CASE Valid(v)' = Valid(v)
  <2>1. done' = done
    BY <1>1, <1>2 DEF done
  <2> QED BY <1>0, <2>1
<1>3. CASE Valid(v)' /\ ~Valid(v)
  <2>1. done' = done \cup {v} /\ v \notin done
    BY <1>1, <1>3 DEF done
  <2>2. Earlier(v) \subseteq Earlier(cs)
    BY <1>0, <1>1, GenerateFirst
  <2>3. Earlier(v) \cap Required \subseteq marker
    BY <1>0, <2>2, RunningInOrder
  <2>4. Staged!Complete(v)
    BY <1>0, <2>1, <2>3 DEF Staged!Complete, done
  <2> QED BY <2>4 DEF Staged!Next
<1>4. CASE Valid(v) /\ ~Valid(v)'
  <2>1. done' = done \ {v}
    BY <1>1, <1>4 DEF done
  <2>2. Kind[v] \notin {"generate", "validate"}
    BY <1>0, <1>4, ChildKeepsValid
  <2>3. v \in {"cache_train", "cache_eval", "train"}
    BY <2>2, StageFacts DEF Kind
  <2>4. Staged!Withdraw(v)
    BY <1>0, <2>1, <2>3 DEF Staged!Withdraw, done
  <2> QED BY <2>4 DEF Staged!Next
<1>5. Valid(v) \in BOOLEAN /\ Valid(v)' \in BOOLEAN
  BY StageFacts DEF Valid, ValidJsonl, HasRows, ValidReport, ValidFeatures, ValidCheckpoint
<1> QED BY <1>2, <1>3, <1>4, <1>5

LEMMA RefineStep ==
    ASSUME NothingHopeless, RefineInv, [Next]_vars
    PROVE  RefineInv' /\ [Staged!Next]_<<done, marker>>
<1>1. OrderInv' /\ Typed'
  BY OrderStep DEF RefineInv, OrderInv
<1>2. CASE UNCHANGED vars
  <2>1. \A st \in Stages : Valid(st)' = Valid(st)
    BY <1>2, SameArtifacts DEF vars, files
  <2> QED
    BY <1>1, <1>2, <2>1 DEF vars, files, RefineInv, RowsKept, HasRows, MarkedValid, OrderInv,
                            Typed, TypeOK, done
<1>3. CASE \E l \in Launchers : ChildStep(l)
  <2>1. PICK l \in Launchers : ChildStep(l)
    BY <1>3
  <2>2. RowsKept' /\ marker' = marker
    BY <2>1, ChildKeepsRows, ChildFrame DEF RefineInv, OrderInv, launcherVars
  <2>3. MarkedValid'
    BY <2>1, <2>2, ChildKeepsValid DEF RefineInv, OrderInv, MarkedValid, Typed, TypeOK
  <2> QED BY <1>1, <2>1, <2>2, <2>3, ChildCompletes DEF RefineInv
<1>4. CASE ~UNCHANGED vars /\ ~\E l \in Launchers : ChildStep(l)
  <2>1. /\ RowsKept' /\ MarkedValid' /\ done' = done
        /\ \/ marker' = marker
           \/ \E st \in Stages : \/ Valid(st) /\ marker' = marker \cup {st}
                                 \/ st = "train" /\ ~Valid(st) /\ marker' = marker \ {st}
    BY <1>1, <1>4, OthersKeep DEF Next
  <2>2. ASSUME NEW st \in Stages, Valid(st), marker' = marker \cup {st}
        PROVE  Staged!Next
    BY <2>1, <2>2 DEF Staged!Next, Staged!Tick, done
  <2>3. ASSUME NEW st \in Stages, st = "train", ~Valid(st), marker' = marker \ {st}
        PROVE  Staged!Next
    BY <2>1, <2>3 DEF Staged!Next, Staged!Untick, done
  <2> QED BY <1>1, <2>1, <2>2, <2>3 DEF RefineInv
<1> QED BY <1>2, <1>3, <1>4

\* Seen from outside a run completes its stages in order, each after the ones
\* before it were marked, and marks what is complete; generation and validation
\* and every marker but the last stand for good, whatever interrupts it and
\* whoever is left over, as long as no teacher file is hopeless.
THEOREM Refinement == NothingHopeless => (Spec => ImplementsStagedRun)
<1> SUFFICES ASSUME NothingHopeless PROVE Spec => ImplementsStagedRun
  OBVIOUS
<1>1. Init => RefineInv /\ Staged!Init
  <2> SUFFICES ASSUME Init PROVE RefineInv /\ Staged!Init
    OBVIOUS
  <2>1. \A st \in Stages : ~Valid(st)
    BY StageFacts
    DEF Init, Valid, ValidJsonl, HasRows, ValidReport, ValidFeatures, ValidCheckpoint, Splits, Points
  <2>2. RowsKept /\ marker = {}
    BY DEF Init, RowsKept, NoChild, HasRows
  <2> QED BY <2>1, <2>2, OrderInit DEF RefineInv, MarkedValid, Staged!Init
<1>2. RefineInv /\ [Next]_vars => RefineInv' /\ [Staged!Next]_<<done, marker>>
  BY RefineStep
<1>3. done = {st \in Stages : Valid(st)}
  BY DEF done
<1> QED BY <1>1, <1>2, <1>3, PTL DEF Spec, ImplementsStagedRun, Staged!Spec, done

(***************************************************************************)
(* The run lock.                                                           *)
(***************************************************************************)

\* A launcher that lives holds the lock, and a child that works is waited for.
LockInv ==
    /\ Typed
    /\ \A l \in Launchers : pc[l] # "idle" => lock = l
    /\ \A l \in Launchers : Running(l) => pc[l] = "wait"

LEMMA LockStep ==
    ASSUME Faults \cap {"signal", "kill"} = {}, LockInv, [Next]_vars
    PROVE  LockInv'
<1>0. Typed /\ TypeOK /\ Typed'
  BY TypedStep DEF LockInv, Typed
<1>1. CASE UNCHANGED vars
  BY <1>0, <1>1 DEF vars, LockInv, Running
<1>2. ASSUME NEW l \in Launchers, ChildStep(l) PROVE LockInv'
  <2>1. UNCHANGED <<lock, pc>>
    BY <1>2, ChildFrame DEF launcherVars
  <2> QED BY <1>0, <1>2, <2>1, ChildStarts DEF LockInv
<1>3. ASSUME NEW l \in Launchers, ChildCrash(l) PROVE LockInv'
  BY <1>0, <1>3, StepStarts DEF ChildCrash, End, Phases, LockInv
<1>4. ASSUME NEW l \in Launchers, NEW st \in Stages, SpawnStage(l, st) PROVE LockInv'
  BY <1>0, <1>4 DEF SpawnStage, AtStage, TypeOK, LockInv, Running
<1>5. ASSUME NEW l \in Launchers, StageEnds(l) PROVE LockInv'
  <2>1. \A m \in Launchers : m # l => child'[m] = child[m] /\ pc'[m] = pc[m]
    BY <1>0, <1>5 DEF StageEnds, StageReturns, Exit, TypeOK
  <2>2. ~Running(l)' /\ pc[l] = "wait"
    BY <1>0, <1>5 DEF StageEnds, NoChild, Running, Live, TypeOK
  <2>3. lock' = lock \/ (lock' = None /\ pc'[l] = "idle")
    BY <1>0, <1>5 DEF StageEnds, Exit, TypeOK
  <2> QED BY <1>0, <2>1, <2>2, <2>3 DEF LockInv, Running
<1>6. ASSUME NEW l \in Launchers,
             \/ WriteRunManifest(l) \/ StartServers(l) \/ ServersReady(l) \/ Finish(l)
             \/ ServersFail(l)
             \/ \E st \in Stages : SkipStage(l, st) \/ RefuseStage(l, st) \/ RecoverStage(l, st)
                                   \/ DryStage(l, st)
      PROVE  LockInv'
  <2>1. UNCHANGED child /\ pc[l] \notin {"idle", "wait"}
    BY <1>6
    DEF WriteRunManifest, StartServers, ServersReady, Finish, ServersFail, SkipStage, RefuseStage,
        RecoverStage, DryStage, AtStage
  <2>2. /\ \A m \in Launchers : m # l => pc'[m] = pc[m]
        /\ lock' = lock \/ (lock' = None /\ pc'[l] = "idle")
    BY <1>0, <1>6
    DEF WriteRunManifest, StartServers, ServersReady, Finish, ServersFail, SkipStage, RefuseStage,
        RecoverStage, DryStage, StageReturns, Exit, TypeOK
  <2> QED BY <1>0, <2>1, <2>2 DEF LockInv, Running
<1>7. ASSUME NEW l \in Launchers, NEW a \in Args, Start(l, a) PROVE LockInv'
  BY <1>0, <1>7, ArgsAssumption DEF Start, TypeOK, LockInv, Running
<1>8. CASE MachineCrash
  BY <1>0, <1>8 DEF MachineCrash, NoChild, Running, Live, LockInv
<1>9. \A l \in Launchers : ~Signal(l) /\ ~Kill(l)
  BY DEF Signal, Kill, Fault
<1> QED
  BY <1>1, <1>2, <1>3, <1>4, <1>5, <1>6, <1>7, <1>8, <1>9 DEF Next, LauncherStep

\* As long as no launcher is signalled or killed on its own, the lock does keep
\* two children from working on one run: every other end of a launcher waits
\* for its child, or takes it along.
THEOREM LockCorrect == Faults \cap {"signal", "kill"} = {} => (Spec => []OneWriter)
<1> SUFFICES ASSUME Faults \cap {"signal", "kill"} = {} PROVE Spec => []OneWriter
  OBVIOUS
<1>1. Init => LockInv
  BY TypedInit DEF Init, LockInv, NoChild, Running, Live
<1>2. LockInv /\ [Next]_vars => LockInv'
  BY LockStep
<1>3. LockInv => OneWriter
  BY DEF LockInv, OneWriter
<1> QED BY <1>1, <1>2, <1>3, PTL DEF Spec

(***************************************************************************)
(* The quality gate, for runs that filter what they validate.              *)
(***************************************************************************)

\* Every command line validates both splits and filters anomalies.
Gated ==
    \A a \in Args : a.filter /\ {"validate_teacher_train", "validate_teacher_eval"} \subseteq a.stages

Clean(s) == teacher[s] # None /\ teacher[s].quality = "clean"

Captures(l) == At(l, "cache", "open") \/ At(l, "cache", "publishing")

\* A report is written of a file as the filter left it, which no generation
\* replaces; a capture works from such a file, or is left with nothing.
GateInv ==
    /\ RefineInv
    /\ \A l \in Launchers : child[l].phase = "filtered" => Clean(Split[child[l].stage])
    /\ \A s \in Splits : report[s] # None => Clean(s)
    /\ \A l \in Launchers : Captures(l) => child[l].seen.quality \in {"clean", "empty"}
    /\ CleanFeatures

LEMMA CleanKept ==
    ASSUME NothingHopeless, GateInv, NEW l \in Launchers, ChildStep(l), NEW t \in Splits, Clean(t)
    PROVE  Clean(t)'
<1>1. HasRows(t)
  BY DEF Clean, HasRows
<1>2. teacher'[t] = teacher[t] \/ (teacher'[t] # None /\ teacher'[t].quality = "clean")
  BY <1>1, TeacherChanges DEF GateInv, RefineInv, OrderInv
<1> QED BY <1>2 DEF Clean

\* A capture starts from a file the gate has let through.
LEMMA CapturesClean ==
    ASSUME Gated, GateInv, NEW l \in Launchers, Running(l), Kind[child[l].stage] = "cache"
    PROVE  Clean(Split[child[l].stage])
<1> DEFINE st == child[l].stage
           s == Split[st]
           v == IF s = "train" THEN "validate_teacher_train" ELSE "validate_teacher_eval"
<1>0. s \in Splits /\ st \in Stages /\ TypeOK /\ Typed
  BY StageFacts DEF GateInv, RefineInv, OrderInv, Typed, TypeOK
<1>1. v \in Earlier(st) /\ v \in Stages /\ Kind[v] = "validate" /\ Split[v] = s
  BY <1>0, StageFacts DEF Kind, Split, Earlier, Rank, Splits, Stages
<1>2. v \in Required
  BY <1>1 DEF Gated, Required
<1>3. v \in marker
  BY <1>0, <1>1, <1>2, RunningInOrder DEF GateInv, RefineInv, OrderInv
<1>4. report[s] # None
  BY <1>1, <1>3 DEF GateInv, RefineInv, MarkedValid, Valid, ValidReport
<1> QED BY <1>0, <1>4 DEF GateInv

\* What the child that goes on works from.
LEMMA ChildSettled ==
    ASSUME NothingHopeless, Gated, GateInv, NEW l \in Launchers, ChildStep(l), NEW m \in Launchers
    PROVE  /\ (child[m].phase = "filtered" => Clean(Split[child[m].stage]))'
           /\ (Captures(m) => child[m].seen.quality \in {"clean", "empty"})'
<1> DEFINE s == Split[child[l].stage]
<1>0. /\ TypeOK /\ Typed /\ RowsKept /\ Running(l) /\ s \in Splits
      /\ Split[child[m].stage] \in Splits
  BY StageFacts, ChildFrame DEF GateInv, RefineInv, OrderInv, Typed, TypeOK
<1>1. CASE child'[m] = child[m]
  BY <1>0, <1>1, CleanKept DEF GateInv, Captures, At
<1>2. CASE child'[m] # child[m] /\ CacheMove(l)
  <2>1. /\ At(m, "cache", "open") /\ child[m].seen \in TeacherFiles
        /\ \/ child'[m].phase = "publishing" /\ child'[m].seen = child[m].seen
           \/ /\ child'[m].phase = "open"
              /\ child'[m].seen = [child[m].seen EXCEPT !.quality = "empty"]
    BY <1>0, <1>2, MoveTyped
  <2>2. [child[m].seen EXCEPT !.quality = "empty"].quality = "empty"
    BY <2>1 DEF TeacherFiles
  <2> QED BY <2>1, <2>2 DEF GateInv, Captures
<1>3. CASE child'[m] # child[m] /\ ~CacheMove(l)
  <2>1. PICK phase \in Phases, seen \in TeacherFiles \cup {None} :
          /\ Step(l, phase, seen)
          /\ phase = "filtered" => ValidateFilter(l)
          /\ Kind[child[l].stage] = "cache" /\ phase \in {"open", "publishing"}
               => ValidJsonl(s) /\ seen = teacher[s]
    BY <1>0, <1>3, ChildMoves
  <2>2. /\ m = l
        /\ \/ child'[m] = NoChild
           \/ /\ child'[m].stage = child[m].stage
              /\ child'[m].phase = phase /\ child'[m].seen = seen
    BY <1>0, <1>3, <2>1, StepTyped
  <2>3. CASE child'[m] = NoChild
    BY <2>3 DEF NoChild, Captures, At
  <2>4. CASE /\ child'[m].stage = child[m].stage
             /\ child'[m].phase = phase /\ child'[m].seen = seen
    <3>1. phase = "filtered" => teacher'[s] # None /\ teacher'[s].quality = "clean"
      <4>1. ValidateFilter(l) => teacher'[s] = Filtered(child[l].seen)
        BY <1>0 DEF ValidateFilter, TypeOK
      <4> QED BY <1>0, <2>1, <4>1, FilterWrites
    <3>2. Kind[child[l].stage] = "cache" /\ phase \in {"open", "publishing"}
            => seen.quality = "clean"
      BY <1>0, <2>1, CapturesClean DEF Clean
    <3>3. Split[child'[m].stage] = s
      BY <2>2, <2>4
    <3>4. (Captures(m) => child[m].seen.quality \in {"clean", "empty"})'
      BY <2>2, <2>4, <3>2 DEF Captures, At
    <3>5. (child[m].phase = "filtered" => Clean(Split[child[m].stage]))'
      BY <2>4, <3>1, <3>3 DEF Clean
    <3> QED BY <3>4, <3>5
  <2> QED BY <2>2, <2>3, <2>4
<1> QED BY <1>1, <1>2, <1>3

LEMMA ChildGated ==
    ASSUME NothingHopeless, Gated, GateInv, RefineInv', NEW l \in Launchers, ChildStep(l)
    PROVE  GateInv'
<1> DEFINE s == Split[child[l].stage]
<1>0. s \in Splits /\ TypeOK /\ Typed
  BY StageFacts DEF GateInv, RefineInv, OrderInv, Typed, TypeOK
<1>1. \A t \in Splits : Clean(t) => Clean(t)'
  BY CleanKept
<1>2. \A t \in Splits : report'[t] # None => Clean(t)'
  <2>1. CASE ValidateReport(l)
    <3>1. args[l].filter
      BY <1>0, <2>1 DEF ValidateReport, At, Typed, ArgsKnown, Running, Live, Gated
    <3>2. child[l].phase = "filtered"
      BY <2>1, <3>1 DEF ValidateReport, At
    <3>3. Clean(s)
      BY <3>2 DEF GateInv
    <3>4. \A t \in Splits : t # s => report'[t] = report[t]
      BY <1>0, <2>1 DEF ValidateReport, TypeOK
    <3> QED BY <1>0, <1>1, <3>3, <3>4 DEF GateInv
  <2>2. CASE UNCHANGED report
    BY <1>1, <2>2 DEF GateInv
  <2> QED BY <2>1, <2>2, ChildFrame
<1>3. CleanFeatures'
  <2>1. CASE CachePublish(l)
    <3>1. child[l].seen.quality \in {"clean", "empty"}
      BY <2>1 DEF CachePublish, GateInv, Captures
    <3>2. \A t \in Splits : features'[t] = features[t] \/ features'[t] = child[l].seen
      BY <1>0, <2>1 DEF CachePublish, TypeOK
    <3> QED BY <3>1, <3>2 DEF GateInv, CleanFeatures, ValidFeatures
  <2>2. CASE UNCHANGED features
    BY <2>2 DEF GateInv, CleanFeatures, ValidFeatures
  <2> QED BY <2>1, <2>2, ChildFrame
<1>4. \A m \in Launchers :
        /\ (child[m].phase = "filtered" => Clean(Split[child[m].stage]))'
        /\ (Captures(m) => child[m].seen.quality \in {"clean", "empty"})'
  BY ChildSettled
<1> QED BY <1>2, <1>3, <1>4 DEF GateInv

\* Launchers and faults replace no file, and end a child or start one.
LEMMA OthersGated ==
    ASSUME GateInv, RefineInv',
           \/ \E l \in Launchers, a \in Args : Start(l, a)
           \/ \E l \in Launchers : LauncherStep(l)
           \/ \E l \in Launchers : ServersFail(l) \/ Signal(l) \/ Kill(l) \/ ChildCrash(l)
           \/ MachineCrash
    PROVE  GateInv'
<1>0. Typed /\ TypeOK
  BY DEF GateInv, RefineInv, OrderInv, Typed
<1>1. UNCHANGED <<teacher, report, features>>
  BY DEF Start, LauncherStep, WriteRunManifest, StartServers, ServersReady, SkipStage,
         RefuseStage, RecoverStage, DryStage, SpawnStage, StageEnds, Finish, ServersFail, Signal,
         Kill, ChildCrash, MachineCrash, Debris, artifacts
<1>2. ASSUME NEW m \in Launchers
      PROVE  child'[m] = child[m] \/ child'[m].phase \in {"none", "start", "fail"}
  <2>1. CASE \E l \in Launchers : ChildCrash(l)
    BY <1>0, <2>1, StepTyped DEF ChildCrash, End, NoChild, Phases
  <2>2. CASE \E l \in Launchers, st \in Stages : SpawnStage(l, st)
    BY <1>0, <2>2 DEF SpawnStage, TypeOK
  <2>3. CASE \/ \E l \in Launchers : StageEnds(l) \/ Signal(l) \/ Kill(l)
             \/ MachineCrash
    BY <1>0, <2>3 DEF StageEnds, Signal, Kill, MachineCrash, NoChild, TypeOK
  <2> QED
    BY <2>1, <2>2, <2>3
    DEF Start, LauncherStep, WriteRunManifest, StartServers, ServersReady, SkipStage,
        RefuseStage, RecoverStage, DryStage, Finish, ServersFail
<1>3. \A m \in Launchers :
        /\ child'[m].phase = "filtered" => Clean(Split[child'[m].stage])
        /\ Captures(m)' => child'[m].seen.quality \in {"clean", "empty"}
  BY <1>2 DEF GateInv, Captures, At
<1> QED BY <1>1, <1>3 DEF GateInv, Clean, CleanFeatures, ValidFeatures

\* Features are captured of validated trajectories only, if every run filters
\* what it validates and filtering leaves a row, whatever is interrupted and
\* whichever children of earlier launchers still work.
THEOREM OnlyCleanCached == NothingHopeless /\ Gated => (Spec => []CleanFeatures)
<1> SUFFICES ASSUME NothingHopeless, Gated PROVE Spec => []CleanFeatures
  OBVIOUS
<1>1. Init => GateInv
  <2> SUFFICES ASSUME Init PROVE GateInv
    OBVIOUS
  <2>1. RefineInv
    BY OrderInit DEF Init, RefineInv, RowsKept, MarkedValid, HasRows, NoChild
  <2> QED
    BY <2>1 DEF Init, GateInv, NoChild, Captures, At, CleanFeatures, ValidFeatures
<1>2. GateInv /\ [Next]_vars => GateInv'
  <2> SUFFICES ASSUME GateInv, [Next]_vars PROVE GateInv'
    OBVIOUS
  <2>1. RefineInv'
    BY RefineStep DEF GateInv
  <2>2. CASE UNCHANGED vars
    BY <2>1, <2>2 DEF vars, files, GateInv, Clean, CleanFeatures, ValidFeatures, Captures, At
  <2>3. CASE \E l \in Launchers : ChildStep(l)
    BY <2>1, <2>3, ChildGated
  <2> QED BY <2>1, <2>2, <2>3, OthersGated DEF Next
<1>3. GateInv => CleanFeatures
  BY DEF GateInv
<1> QED BY <1>1, <1>2, <1>3, PTL DEF Spec

(***************************************************************************)
(* The identity of the run.                                                *)
(***************************************************************************)

\* Whoever works, and whatever was trained, comes after a manifest.
ManifestInv ==
    /\ Typed
    /\ Latest # None => manifest # None
    /\ \A l \in Launchers :
          Running(l) \/ pc[l] \notin {"idle", "locked"} => manifest # None

\* A manifest is never taken away, and replaced only while nothing was trained.
LEMMA ManifestMoves ==
    ASSUME ManifestInv, Next
    PROVE  /\ manifest # None => manifest' # None
           /\ Latest # None => manifest' = manifest
<1>1. CASE \E l \in Launchers : WriteRunManifest(l)
  <2>1. PICK l \in Launchers : WriteRunManifest(l)
    BY <1>1
  <2>2. args[l] \in Args
    BY <2>1 DEF ManifestInv, Typed, ArgsKnown, WriteRunManifest
  <2> QED BY <2>1, <2>2, ArgFields, ArgsAssumption DEF WriteRunManifest, ManifestInv
<1>2. CASE ~\E l \in Launchers : WriteRunManifest(l)
  BY <1>2, ChildFrame
  DEF Next, Start, LauncherStep, StartServers, ServersReady, SkipStage, RefuseStage, RecoverStage,
      DryStage, SpawnStage, StageEnds, Finish, launcherVars, ServersFail, Signal, Kill, ChildCrash,
      MachineCrash
<1> QED BY <1>1, <1>2

\* The latest checkpoint is as the checkpoints are.
LEMMA SameLatest == UNCHANGED ckpt => Latest' = Latest
BY DEF Latest, ValidCheckpoint, Intermediate

LEMMA ManifestKept ==
    ASSUME ManifestInv, [Next]_vars
    PROVE  ManifestInv'
<1>0. Typed /\ TypeOK /\ Typed'
  BY TypedStep DEF ManifestInv, Typed
<1>1. CASE UNCHANGED vars
  BY <1>0, <1>1, SameLatest DEF vars, files, ManifestInv, Running
<1>2. ASSUME NEW l \in Launchers, ChildStep(l) PROVE ManifestInv'
  <2>1. UNCHANGED <<manifest, pc>>
    BY <1>2, ChildFrame DEF launcherVars
  <2>2. manifest # None
    BY <1>2, ChildFrame DEF ManifestInv
  <2> QED BY <1>0, <2>1, <2>2 DEF ManifestInv
<1>3. ASSUME NEW l \in Launchers, WriteRunManifest(l) PROVE ManifestInv'
  <2>1. UNCHANGED <<child, ckpt>> /\ \A m \in Launchers : m # l => pc'[m] = pc[m]
    BY <1>0, <1>3 DEF WriteRunManifest, Exit, TypeOK, artifacts
  <2>2. pc'[l] = "idle" \/ manifest' # None
    <3>1. args[l] \in Args
      BY <1>0, <1>3 DEF Typed, ArgsKnown, WriteRunManifest
    <3> QED BY <1>0, <1>3, <3>1, ArgFields, ArgsAssumption DEF WriteRunManifest, Exit, TypeOK
  <2>3. manifest # None => manifest' # None
    BY <1>3, ManifestMoves DEF Next, LauncherStep
  <2> QED BY <1>0, <2>1, <2>2, <2>3, SameLatest DEF ManifestInv, Running
<1>4. ASSUME NEW l \in Launchers, StageEnds(l) PROVE ManifestInv'
  <2>1. manifest # None /\ UNCHANGED <<manifest, ckpt>>
    BY <1>4 DEF StageEnds, ManifestInv, artifacts
  <2> QED BY <1>0, <2>1, SameLatest DEF ManifestInv
<1>5. ASSUME NEW l \in Launchers,
             \/ StartServers(l) \/ ServersReady(l) \/ Finish(l) \/ ServersFail(l)
             \/ \E st \in Stages : SkipStage(l, st) \/ RefuseStage(l, st) \/ RecoverStage(l, st)
                                   \/ DryStage(l, st) \/ SpawnStage(l, st)
      PROVE  ManifestInv'
  <2>1. manifest # None /\ UNCHANGED <<manifest, ckpt>>
    BY <1>5
    DEF StartServers, ServersReady, Finish, ServersFail, SkipStage, RefuseStage, RecoverStage,
        DryStage, SpawnStage, AtStage, ManifestInv, artifacts
  <2> QED BY <1>0, <2>1, SameLatest DEF ManifestInv
<1>6. ASSUME NEW l \in Launchers,
             Signal(l) \/ Kill(l) \/ ChildCrash(l) \/ MachineCrash \/ \E a \in Args : Start(l, a)
      PROVE  ManifestInv'
  <2>1. UNCHANGED <<manifest, ckpt>>
    BY <1>6 DEF Signal, Kill, ChildCrash, MachineCrash, Start, Debris, artifacts
  <2>2. \A m \in Launchers : /\ pc'[m] = pc[m] \/ pc'[m] \in {"idle", "locked"}
                             /\ Running(m)' => Running(m)
    <3>1. CASE ChildCrash(l)
      BY <1>0, <3>1, StepStarts DEF ChildCrash, End, Phases
    <3>2. CASE ~ChildCrash(l)
      BY <1>0, <1>6, <3>2
      DEF Signal, Kill, MachineCrash, Start, NoChild, Running, Live, TypeOK
    <3> QED BY <3>1, <3>2
  <2> QED BY <1>0, <2>1, <2>2, SameLatest DEF ManifestInv
<1> QED
  <2>1. CASE MachineCrash
    <3>1. CASE \E l \in Launchers : TRUE
      BY <1>6, <2>1, <3>1
    <3>2. CASE ~\E l \in Launchers : TRUE
      BY <1>0, <2>1, <3>2 DEF MachineCrash, ManifestInv, Debris, Latest, ValidCheckpoint, Intermediate
    <3> QED BY <3>1, <3>2
  <2> QED
    BY <1>1, <1>2, <1>3, <1>4, <1>5, <1>6, <2>1 DEF Next, LauncherStep

\* Whatever fails and whoever is left over, no step gives a run that has a
\* complete checkpoint another identity.
THEOREM IdentityFixed == Spec => ManifestFrozen
<1>1. Init => ManifestInv
  BY TypedInit DEF Init, ManifestInv, NoChild, Running, Live, Latest, ValidCheckpoint, Intermediate, Points
<1>2. ManifestInv /\ [Next]_vars => ManifestInv'
  BY ManifestKept
<1>3. ManifestInv /\ [Next]_vars => [Latest # None => manifest' = manifest]_vars
  BY ManifestMoves
<1> QED BY <1>1, <1>2, <1>3, PTL DEF Spec, ManifestFrozen

(***************************************************************************)
(* The generation servers.                                                 *)
(***************************************************************************)

\* A command line that starts the servers reaches the stage that stops them.
ServersGivenBack == \A a \in Args : a.servers => "generate_eval" \in a.stages

\* A launcher that has servers still has that stage ahead of it; the one whose
\* child is left working has none, or a generating child.
Holds(l) ==
    /\ Running(l) => pc[l] \in {"idle", "wait"}
    /\ Running(l) /\ servers[l] # "none" => Kind[child[l].stage] = "generate"
    /\ pc[l] \in {"locked", "planned"} => servers[l] = "none"
    /\ pc[l] = "planned" /\ args[l].servers => "generate_eval" \in todo[l]
    /\ pc[l] = "starting" \/ (pc[l] \in {"stages", "wait"} /\ servers[l] # "none")
          => "generate_eval" \in todo[l]

ServersInv == Typed /\ \A l \in Launchers : Holds(l)

LEMMA HoldsFrame ==
    ASSUME NEW m \in Launchers, Holds(m),
           Running(m)' => Running(m) /\ child'[m].stage = child[m].stage,
           pc'[m] = pc[m], servers'[m] = servers[m], todo'[m] = todo[m], args'[m] = args[m]
    PROVE  Holds(m)'
BY DEF Holds

\* The launcher that moves, or is interrupted.
LEMMA HoldsMover ==
    ASSUME ServersGivenBack, ServersInv, NEW l \in Launchers,
           \/ LauncherStep(l) \/ ServersFail(l) \/ Signal(l) \/ Kill(l)
           \/ \E a \in Args : Start(l, a)
    PROVE  Holds(l)'
<1>0. TypeOK /\ Typed /\ Holds(l)
  BY DEF ServersInv, Typed
<1>1. CASE WriteRunManifest(l)
  <2>1. args[l] \in Args /\ args'[l] = args[l] /\ child'[l] = child[l] /\ ~Running(l)
    BY <1>0, <1>1 DEF WriteRunManifest, Typed, ArgsKnown, Holds
  <2>2. \/ pc'[l] = "idle"
        \/ /\ pc'[l] = "planned" /\ servers'[l] = servers[l] /\ servers[l] = "none"
           /\ todo'[l] = args[l].stages
    BY <1>0, <1>1 DEF WriteRunManifest, Exit, TypeOK, Holds
  <2> QED BY <2>1, <2>2 DEF ServersGivenBack, Holds, Running
<1>2. CASE StartServers(l)
  <2>1. /\ pc[l] = "planned" /\ pc'[l] \in {"starting", "stages"}
        /\ args[l].servers \/ (servers'[l] = servers[l] /\ pc'[l] = "stages")
        /\ UNCHANGED <<child, todo>>
    BY <1>0, <1>2 DEF StartServers, TypeOK
  <2>2. servers'[l] # "none" \/ pc'[l] = "starting" => "generate_eval" \in todo[l]
    BY <1>0, <2>1 DEF Holds
  <2>3. ~Running(l)
    BY <1>0, <2>1 DEF Holds
  <2> QED BY <2>1, <2>2, <2>3 DEF Holds, Running
<1>3. CASE ServersReady(l)
  <2>1. pc[l] = "starting" /\ pc'[l] = "stages" /\ child' = child /\ todo' = todo
    BY <1>0, <1>3 DEF ServersReady, TypeOK
  <2>2. ~Running(l) /\ "generate_eval" \in todo[l]
    BY <1>0, <2>1 DEF Holds
  <2> QED BY <2>1, <2>2 DEF Holds, Running
<1>4. CASE Finish(l) \/ ServersFail(l) \/ \E st \in Stages : RefuseStage(l, st)
  BY <1>0, <1>4 DEF Finish, ServersFail, RefuseStage, AtStage, Exit, TypeOK, Holds, Running
<1>5. CASE \E st \in Stages : SkipStage(l, st) \/ RecoverStage(l, st) \/ DryStage(l, st)
  <2>1. PICK st \in Stages : SkipStage(l, st) \/ RecoverStage(l, st) \/ DryStage(l, st)
    BY <1>5
  <2>2. /\ pc[l] = "stages" /\ pc'[l] = "stages" /\ child'[l] = child[l]
        /\ todo'[l] = todo[l] \ {st}
        /\ servers'[l] = IF st = "generate_eval" THEN "none" ELSE servers[l]
    BY <1>0, <2>1 DEF SkipStage, RecoverStage, DryStage, AtStage, StageReturns, TypeOK
  <2> QED BY <1>0, <2>2 DEF Holds, Running
<1>6. CASE \E st \in Stages : SpawnStage(l, st)
  <2>1. PICK st \in Stages : SpawnStage(l, st)
    BY <1>6
  <2>2. /\ pc[l] = "stages" /\ pc'[l] = "wait" /\ child'[l].stage = st
        /\ todo'[l] = todo[l] /\ servers'[l] = servers[l] /\ Earlier(st) \cap todo[l] = {}
    BY <1>0, <2>1 DEF SpawnStage, AtStage, TypeOK
  <2>3. "generate_eval" \in todo[l] => Kind[st] = "generate"
    BY <2>2, StageFacts DEF Stages, Rank, Kind, Earlier
  <2> QED BY <1>0, <2>2, <2>3 DEF Holds
<1>7. CASE StageEnds(l)
  <2> DEFINE st == child[l].stage
  <2>1. pc[l] = "wait" /\ ~Running(l)'
    BY <1>0, <1>7 DEF StageEnds, NoChild, Running, Live, TypeOK
  <2>2. \/ pc'[l] = "idle"
        \/ /\ pc'[l] = "stages" /\ todo'[l] = todo[l] \ {st}
           /\ servers'[l] = IF st = "generate_eval" THEN "none" ELSE servers[l]
    BY <1>0, <1>7 DEF StageEnds, StageReturns, Exit, TypeOK
  <2> QED BY <1>0, <2>1, <2>2 DEF Holds
<1>8. CASE Signal(l) \/ Kill(l)
  <2>1. /\ pc'[l] = "idle" /\ (Running(l)' => Running(l) /\ child'[l] = child[l])
        /\ servers'[l] \in {servers[l], "none"}
    BY <1>0, <1>8 DEF Signal, Kill, NoChild, Running, Live, TypeOK
  <2> QED BY <1>0, <2>1 DEF Holds
<1>9. CASE \E a \in Args : Start(l, a)
  BY <1>0, <1>9 DEF Start, TypeOK, Holds, Running
<1> QED BY <1>1, <1>2, <1>3, <1>4, <1>5, <1>6, <1>7, <1>8, <1>9 DEF LauncherStep

\* The others.
LEMMA HoldsOther ==
    ASSUME ServersInv, NEW l \in Launchers, NEW m \in Launchers, m # l,
           \/ LauncherStep(l) \/ ServersFail(l) \/ Signal(l) \/ Kill(l)
           \/ \E a \in Args : Start(l, a)
    PROVE  Holds(m)'
<1>0. TypeOK /\ Holds(m)
  BY DEF ServersInv, Typed
<1>1. /\ child'[m] = child[m] /\ pc'[m] = pc[m] /\ servers'[m] = servers[m]
      /\ todo'[m] = todo[m] /\ args'[m] = args[m]
  BY <1>0
  DEF LauncherStep, WriteRunManifest, StartServers, ServersReady, SkipStage, RefuseStage,
      RecoverStage, DryStage, SpawnStage, StageEnds, Finish, ServersFail, Signal, Kill, Start,
      StageReturns, Exit, TypeOK
<1> QED BY <1>0, <1>1, HoldsFrame DEF Running

LEMMA ServersStep ==
    ASSUME ServersGivenBack, ServersInv, [Next]_vars
    PROVE  ServersInv'
<1>0. Typed /\ TypeOK /\ Typed'
  BY TypedStep DEF ServersInv, Typed
<1>1. CASE UNCHANGED vars
  BY <1>0, <1>1 DEF vars, ServersInv, Holds, Running
<1>2. ASSUME NEW l \in Launchers, ChildStep(l) \/ ChildCrash(l) PROVE ServersInv'
  <2>1. UNCHANGED <<pc, servers, todo, args>>
    BY <1>2, ChildFrame DEF launcherVars, ChildCrash
  <2>2. \A m \in Launchers : Running(m)' => Running(m) /\ child'[m].stage = child[m].stage
    <3>1. CASE ChildStep(l)
      BY <1>0, <3>1, ChildStarts
    <3>2. CASE ChildCrash(l)
      BY <1>0, <3>2, StepStarts DEF ChildCrash, End, Phases
    <3> QED BY <1>2, <3>1, <3>2
  <2> QED BY <1>0, <2>1, <2>2, HoldsFrame DEF ServersInv
<1>3. CASE MachineCrash
  BY <1>0, <1>3 DEF MachineCrash, NoChild, Running, Live, ServersInv, Holds
<1>4. ASSUME NEW l \in Launchers,
             \/ LauncherStep(l) \/ ServersFail(l) \/ Signal(l) \/ Kill(l)
             \/ \E a \in Args : Start(l, a)
      PROVE  ServersInv'
  BY <1>0, <1>4, HoldsMover, HoldsOther DEF ServersInv
<1> QED BY <1>1, <1>2, <1>3, <1>4 DEF Next

\* If the stage after which main stops the servers is among the stages of every
\* command line that starts them, no capture or training child ever works
\* beside the servers of its own launcher, interrupted or not.
THEOREM MemoryFreed == ServersGivenBack => (Spec => []GpusReleased)
<1> SUFFICES ASSUME ServersGivenBack PROVE Spec => []GpusReleased
  OBVIOUS
<1>1. Init => ServersInv
  BY TypedInit DEF Init, ServersInv, Holds, NoChild, Running, Live
<1>2. ServersInv /\ [Next]_vars => ServersInv'
  BY ServersStep
<1>3. ServersInv => GpusReleased
  BY DEF ServersInv, Holds, GpusReleased
<1> QED BY <1>1, <1>2, <1>3, PTL DEF Spec
=============================================================================
