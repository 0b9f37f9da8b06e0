-------------------------- MODULE FeatureStoreProofs --------------------------
(***************************************************************************)
(* What FeatureStore promises for all jobs, world sizes, launches and      *)
(* faults: without a clock that is set back, no generation a manifest has  *)
(* named ever changes; and if all captures are of one job, readers find    *)
(* the whole of it.                                                        *)
(***************************************************************************)
EXTENDS FeatureStore, TLAPS

\* The manifest of store n is not of the job that runs.
Old(n) == manifest[n] # None => manifest[n].gen < launches

Typed ==
    /\ job \in Jobs
    /\ world \in Worlds
    /\ launches \in 0 .. MaxLaunches
    /\ staging \in [Names \cup {Merged} -> SUBSET (Nat \X Jobs)]
    /\ gens \in [Names -> [Seconds -> SUBSET (Nat \X Jobs)]]
    /\ manifest \in [Names -> {None} \cup
          [gen : Seconds, contract : {Contract[j] : j \in Jobs}]]
    /\ filling \in [Ranks -> Nat]
    /\ merging \in BOOLEAN
    /\ pc \in [Ranks -> {"start", "capture", "sync", "merge"} \cup Publishing \cup Ended]

\* A process that publishes fills the generation of the present launch, which
\* no manifest names yet.
Fresh ==
    /\ \A n \in Names : manifest[n] # None => manifest[n].gen <= launches
    /\ \A r \in Job : pc[r] \in {"move", "temp", "replace"} =>
          filling[r] = launches /\ launches \in Seconds
    /\ \A r \in Job : pc[r] \in {"start", "capture"} \cup Publishing => Old(Target(r))
    /\ world > 1 /\ ~merging => Old(Whole)

\* Only rank 0 merges, when the others have nothing left to do.
Roles ==
    /\ \A r \in Ranks \ Job : pc[r] = "exit"
    /\ \A r \in Ranks : pc[r] = "merge" => r = 0 /\ world > 1
    /\ merging => world > 1 /\ Shards # {} /\ pc[0] \in Publishing \cup Ended
    /\ merging \/ pc[0] = "merge" =>
          \A r \in Job : r # 0 => pc[r] \in {"sync"} \cup Ended

Inv == Typed /\ Fresh /\ Roles

LEMMA JobFacts ==
    ASSUME world \in Worlds
    PROVE  /\ world \in Nat /\ world > 0
           /\ 0 \in Job /\ Job \subseteq Ranks /\ Ranks \subseteq Nat
           /\ \A k \in Nat : k < world => k \in Job
           /\ Whole \notin Ranks /\ Ranks \subseteq Names /\ Whole \in Names
           /\ \A r \in Ranks : RankedPath(r) = IF world = 1 THEN Whole ELSE r
           /\ world = 1 => Job = {0}
<1>1. world \in Nat /\ world > 0
  BY WorldsAssumption
<1>2. Ranks \subseteq Nat
  BY WorldsAssumption DEF Ranks
<1>3. \A k \in Nat : k < world => k \in Ranks
  BY <1>1 DEF Ranks
<1>4. 0 \in Job /\ Job \subseteq Ranks /\ \A k \in Nat : k < world => k \in Job
  BY <1>1, <1>3 DEF Job
<1>5. Whole \notin Nat
  BY NamesAssumption
<1>6. Whole \notin Ranks /\ Ranks \subseteq Names /\ Whole \in Names
  BY <1>2, <1>5 DEF Names
<1>7. world = 1 => Job = {0}
  <2>1. world = 1 => \A r \in Job : r = 0
    BY <1>2 DEF Job
  <2> QED
    BY <1>4, <2>1
<1> QED
  BY <1>1, <1>2, <1>4, <1>6, <1>7 DEF RankedPath

\* The stores two ranks publish to are different, as long as both publish.
LEMMA TargetFacts ==
    ASSUME Inv, NEW r \in Job
    PROVE  /\ Target(r) \in Names
           /\ Staged(r) \in Names \cup {Merged}
           /\ \A q \in Job :
                 (/\ pc[q] \in {"start", "capture"} \cup Publishing
                  /\ pc[r] \in {"start", "capture"} \cup Publishing
                  /\ q # r)
                 => Target(q) # Target(r)
           /\ Target(r) = Whole => world = 1 \/ merging
<1>1. /\ world \in Nat /\ Job \subseteq Ranks /\ Ranks \subseteq Names /\ Whole \in Names
      /\ Whole \notin Ranks
      /\ world = 1 => Job = {0}
      /\ \A q \in Job : RankedPath(q) = IF world = 1 THEN Whole ELSE q
  BY JobFacts DEF Inv, Typed
<1>2. ASSUME NEW q \in Job, pc[q] \in {"start", "capture"} \cup Publishing,
             pc[r] \in {"start", "capture"} \cup Publishing, q # r
      PROVE  Target(q) # Target(r)
  <2>1. ~merging
    BY <1>2 DEF Inv, Roles, Publishing, Ended
  <2> QED
    BY <1>1, <1>2, <2>1 DEF Target
<1>3. Target(r) \in Names /\ Staged(r) \in Names \cup {Merged}
  BY <1>1 DEF Target, Staged
<1>4. Target(r) = Whole => world = 1 \/ merging
  BY <1>1 DEF Target
<1> QED
  BY <1>2, <1>3, <1>4

\* Steps of one rank that only change where it is and leave no store.
LEMMA MoveOn ==
    ASSUME Inv, NEW r \in Ranks, NEW label, Goto(r, label), pc[r] \notin Ended,
           UNCHANGED <<job, world, launches, gens, manifest, filling, merging>>,
           staging' \in [Names \cup {Merged} -> SUBSET (Nat \X Jobs)],
           \/ pc[r] = "start" /\ label \in {"capture", "sync"}
           \/ pc[r] = "capture" /\ label \in {"capture", "name"}
           \/ pc[r] = "move" /\ label \in {"move", "temp"}
           \/ pc[r] = "temp" /\ label = "replace"
           \/ pc[r] = "sync" /\ label = "exit"
           \/ label = "dead"
    PROVE  Inv'
<1>1. r \in Job /\ pc' = [pc EXCEPT ![r] = label]
  BY DEF Inv, Roles, Goto, Ended
<1>2. Typed'
  BY <1>1 DEF Inv, Typed, Publishing, Ended
<1>3. Fresh'
  BY <1>1 DEF Inv, Typed, Fresh, Job, Old, Target, RankedPath, Publishing, Ended
<1>4. Roles'
  BY <1>1 DEF Inv, Typed, Roles, Job, Shards, Publishing, Ended
<1> QED
  BY <1>2, <1>3, <1>4 DEF Inv

LEMMA LaunchKeeps ==
    ASSUME Inv, NEW j \in Jobs, NEW w \in Worlds, Launch(j, w)
    PROVE  Inv'
<1> USE DEF Launch, disk
<1>1. Job' \subseteq Ranks /\ 0 \in Job' /\ Ranks \subseteq Names /\ Whole \in Names
  BY JobFacts, WorldsAssumption DEF Job, Ranks, Inv, Typed
<1>2. \A r \in Ranks : pc'[r] = IF r < w THEN "start" ELSE "exit"
  OBVIOUS
<1>3. Typed'
  <2>1. launches + 1 \in 0 .. MaxLaunches
    BY BoundsAssumption DEF Inv, Typed
  <2>2. pc' \in [Ranks -> {"start"} \cup Ended]
    BY <1>2 DEF Ended
  <2> QED
    BY <2>1, <2>2 DEF Inv, Typed
<1>4. \A n \in Names : Old(n)' /\ (manifest[n] # None => manifest[n].gen <= launches)'
  BY <1>3 DEF Inv, Typed, Fresh, Old, Seconds
<1>5. \A r \in Job' : Target(r)' \in Names
  BY <1>1 DEF Target, RankedPath
<1>6. Fresh'
  BY <1>1, <1>2, <1>4, <1>5 DEF Fresh, Publishing
<1>7. Roles'
  <2>1. \A r \in Ranks \ Job' : pc'[r] = "exit"
    BY <1>2 DEF Job
  <2>2. \A r \in Ranks : pc'[r] # "merge"
    BY <1>2
  <2> QED
    BY <1>1, <2>1, <2>2 DEF Roles
<1> QED
  BY <1>3, <1>6, <1>7 DEF Inv

LEMMA NameKeeps ==
    ASSUME "clock" \notin Faults, Inv, NEW r \in Ranks, Name(r)
    PROVE  /\ Inv'
           /\ gens' = [gens EXCEPT ![Target(r)][launches] = {}]
           /\ filling' = [filling EXCEPT ![r] = launches]
           /\ launches \in Seconds
<1> USE DEF Name
<1>1. /\ gens' = [gens EXCEPT ![Target(r)][launches] = {}]
      /\ filling' = [filling EXCEPT ![r] = launches]
      /\ launches \in 1 .. launches
  BY DEF Fault
<1>2. r \in Job /\ pc' = [pc EXCEPT ![r] = "move"] /\ pc[r] = "name"
  BY DEF Inv, Roles, Goto
<1>3. launches \in Seconds
  BY <1>1 DEF Inv, Typed, Seconds
<1>4. Typed'
  <2>1. gens' \in [Names -> [Seconds -> SUBSET (Nat \X Jobs)]]
    BY <1>1, <1>2, <1>3, TargetFacts DEF Inv, Typed
  <2>2. filling' \in [Ranks -> Nat]
    BY <1>1 DEF Inv, Typed
  <2>3. pc' \in [Ranks -> {"start", "capture", "sync", "merge"} \cup Publishing \cup Ended]
    BY <1>2 DEF Inv, Typed, Publishing
  <2> QED
    BY <2>1, <2>2, <2>3 DEF Inv, Typed
<1>5. Fresh'
  BY <1>1, <1>2, <1>3 DEF Inv, Typed, Fresh, Job, Old, Target, RankedPath, Publishing, Seconds
<1>6. Roles'
  BY <1>2 DEF Inv, Typed, Roles, Job, Shards, Publishing, Ended
<1> QED
  BY <1>1, <1>3, <1>4, <1>5, <1>6 DEF Inv

LEMMA MoveKeeps ==
    ASSUME Inv, NEW r \in Ranks, Move(r)
    PROVE  /\ Inv'
           /\ r \in Job
           /\ \E f \in staging[Staged(r)] :
                 /\ staging' = [staging EXCEPT ![Staged(r)] = @ \ {f}]
                 /\ gens' = [gens EXCEPT ![Target(r)][launches] = @ \cup {f}]
<1> USE DEF Move
<1>1. r \in Job
  BY DEF Inv, Roles
<1>2. filling[r] = launches /\ launches \in Seconds
  BY <1>1 DEF Inv, Fresh
<1>3. PICK f \in staging[Staged(r)] :
         /\ staging' = [staging EXCEPT ![Staged(r)] = @ \ {f}]
         /\ gens' = [gens EXCEPT ![Target(r)][launches] = @ \cup {f}]
  BY <1>2
<1>4. f \in Nat \X Jobs
  BY <1>1, TargetFacts DEF Inv, Typed
<1>5. Typed'
  <2>1. staging' \in [Names \cup {Merged} -> SUBSET (Nat \X Jobs)]
    BY <1>3 DEF Inv, Typed
  <2>2. gens' \in [Names -> [Seconds -> SUBSET (Nat \X Jobs)]]
    <3> DEFINE g == [gens[Target(r)] EXCEPT ![launches] = @ \cup {f}]
    <3>1. Target(r) \in Names /\ gens \in [Names -> [Seconds -> SUBSET (Nat \X Jobs)]]
      BY <1>1, TargetFacts DEF Inv, Typed
    <3>2. g \in [Seconds -> SUBSET (Nat \X Jobs)]
      <4>1. gens[Target(r)] \in [Seconds -> SUBSET (Nat \X Jobs)]
        BY <3>1
      <4>2. gens[Target(r)][launches] \cup {f} \in SUBSET (Nat \X Jobs)
        BY <1>2, <1>4, <4>1
      <4> QED
        BY <4>1, <4>2
    <3>3. gens' = [gens EXCEPT ![Target(r)] = g]
      BY <1>3
    <3> HIDE DEF g
    <3> QED
      BY <3>1, <3>2, <3>3
  <2> QED
    BY <2>1, <2>2 DEF Inv, Typed
<1>6. Fresh'
  BY DEF Inv, Fresh, Seconds, Job, Old, Target, RankedPath
<1>7. Roles'
  BY DEF Inv, Roles, Job, Shards
<1> QED
  BY <1>1, <1>3, <1>5, <1>6, <1>7 DEF Inv

\* Of the store whose manifest it is, Replace says what follows.
LEMMA ReplaceKeeps ==
    ASSUME Inv, NEW r \in Ranks, Replace(r)
    PROVE  /\ Inv'
           /\ r \in Job
           /\ \E c \in {Contract[j] : j \in Jobs} :
                 manifest' = [manifest EXCEPT ![Target(r)] = [gen |-> launches, contract |-> c]]
<1> USE DEF Replace
<1>1. r \in Job /\ filling[r] = launches
  BY DEF Inv, Roles, Fresh
<1> DEFINE c == IF merging THEN manifest[CHOOSE q \in Shards : TRUE].contract
                ELSE Contract[job]
<1>2. manifest' = [manifest EXCEPT ![Target(r)] = [gen |-> launches, contract |-> c]]
  BY <1>1
<1>3. pc' = [pc EXCEPT ![r] = IF merging THEN "exit" ELSE "sync"] /\ pc[r] = "replace"
  BY DEF Goto
<1>4. Target(r) \in Names /\ Job \subseteq Ranks /\ Ranks \subseteq Names /\ Whole \notin Ranks
  BY <1>1, TargetFacts, JobFacts DEF Inv, Typed
<1>5. c \in {Contract[j] : j \in Jobs}
  <2>1. CASE merging
    <3>1. (CHOOSE q \in Shards : TRUE) \in Shards
      BY <2>1 DEF Inv, Roles
    <3> DEFINE s == CHOOSE q \in Shards : TRUE
    <3>2. s \in Names /\ manifest[s] # None
      BY <1>4, <3>1 DEF Shards
    <3> QED
      BY <2>1, <3>2 DEF Inv, Typed
  <2>2. CASE ~merging
    BY <2>2 DEF Inv, Typed
  <2> QED
    BY <2>1, <2>2
<1>6. launches \in Seconds
  BY <1>1 DEF Inv, Fresh
<1> HIDE DEF c
<1>7. Typed'
  <2>1. [gen |-> launches, contract |-> c] \in [gen : Seconds, contract : {Contract[j] : j \in Jobs}]
    BY <1>5, <1>6
  <2>2. manifest' \in [Names -> {None} \cup [gen : Seconds, contract : {Contract[j] : j \in Jobs}]]
    BY <1>2, <2>1 DEF Inv, Typed
  <2>3. pc' \in [Ranks -> {"start", "capture", "sync", "merge"} \cup Publishing \cup Ended]
    BY <1>3 DEF Inv, Typed, Ended
  <2> QED
    BY <2>2, <2>3 DEF Inv, Typed
<1>8. Fresh'
  <2>1. \A n \in Names : n # Target(r) => manifest'[n] = manifest[n]
    BY <1>2 DEF Inv, Typed
  <2>2. (\A n \in Names : manifest[n] # None => manifest[n].gen <= launches)'
    BY <1>2, <1>4, <2>1 DEF Inv, Typed, Fresh
  <2>3. \A q \in Job : q # r => pc'[q] = pc[q]
    BY <1>3, <1>4 DEF Inv, Typed
  <2>4. pc'[r] \in {"exit", "sync"}
    BY <1>1, <1>3, <1>4 DEF Inv, Typed
  <2>5. ASSUME NEW q \in Job, pc'[q] \in {"start", "capture"} \cup Publishing
        PROVE  Old(Target(q))'
    <3>1. q # r /\ pc[q] \in {"start", "capture"} \cup Publishing
      BY <2>3, <2>4, <2>5 DEF Publishing
    <3>2. Target(q) # Target(r) /\ Target(q) \in Names
      BY <1>1, <1>3, <3>1, TargetFacts DEF Publishing
    <3>3. Old(Target(q))
      BY <3>1 DEF Inv, Fresh
    <3>4. manifest'[Target(q)] = manifest[Target(q)] /\ Target(q)' = Target(q)
      BY <2>1, <3>2 DEF Target, RankedPath
    <3> QED
      BY <3>3, <3>4 DEF Old
  <2>6. (world > 1 /\ ~merging => Old(Whole))'
    <3> SUFFICES ASSUME world > 1, ~merging PROVE Old(Whole)'
      OBVIOUS
    <3>1. Target(r) # Whole
      BY <1>1, TargetFacts
    <3>2. Whole \in Names
      BY DEF Names
    <3> QED
      BY <2>1, <3>1, <3>2 DEF Inv, Fresh, Old
  <2>7. Job' = Job
    BY DEF Job
  <2>8. (\A q \in Job : pc[q] \in {"move", "temp", "replace"} =>
           filling[q] = launches /\ launches \in Seconds)'
    BY <1>6, <2>3, <2>4, <2>7 DEF Inv, Fresh, Seconds
  <2> QED
    BY <2>2, <2>5, <2>6, <2>7, <2>8 DEF Fresh
<1>9. Roles'
  <2>1. merging => Shards' # {}
    <3> SUFFICES ASSUME merging PROVE Shards' # {}
      OBVIOUS
    <3>1. \A q \in Job : manifest'[q] = manifest[q]
      BY <1>2, <1>4 DEF Target, Inv, Typed
    <3> QED
      BY <3>1 DEF Inv, Roles, Shards, Job
  <2> QED
    BY <1>1, <1>3, <2>1 DEF Inv, Typed, Roles, Job, Publishing, Ended
<1> QED
  BY <1>1, <1>2, <1>5, <1>7, <1>8, <1>9 DEF Inv

LEMMA SyncKeeps ==
    ASSUME Inv, NEW r \in Ranks, Sync(r)
    PROVE  Inv'
<1> USE DEF Sync, disk
<1>1. CASE r = 0 /\ world > 1
  <2>1. pc' = [pc EXCEPT ![r] = "merge"] /\ pc[r] = "sync"
    BY <1>1 DEF Goto
  <2>2. r \in Job /\ Job \subseteq Ranks
    BY <2>1, JobFacts DEF Inv, Typed, Roles
  <2>3. ~merging
    BY <1>1, <2>1 DEF Inv, Roles, Publishing, Ended
  <2>4. \A q \in Job : q # r => pc[q] \in {"sync", "exit"}
    BY <1>1, <2>2, <2>3 DEF Inv, Typed, Roles
  <2>5. Typed'
    BY <2>1 DEF Inv, Typed
  <2>6. Fresh'
    BY <2>1, <2>2 DEF Inv, Typed, Fresh, Job, Old, Target, RankedPath, Publishing, Seconds
  <2>7. Roles'
    BY <1>1, <2>1, <2>2, <2>3, <2>4 DEF Inv, Typed, Roles, Job, Ended
  <2> QED
    BY <2>5, <2>6, <2>7 DEF Inv
<1>2. CASE ~(r = 0 /\ world > 1)
  <2>1. Goto(r, "exit") /\ pc[r] = "sync" /\ pc[r] \notin Ended
    BY <1>2 DEF Ended
  <2> QED
    BY <2>1, MoveOn DEF Inv, Typed
<1> QED
  BY <1>1, <1>2

\* The store of the job is old when its merge begins: nobody has published to it.
LEMMA MergeKeeps ==
    ASSUME Inv, NEW r \in Ranks, Merge(r)
    PROVE  Inv'
<1> USE DEF Merge
<1>1. pc[r] = "merge" /\ r = 0 /\ world > 1 /\ r \in Job /\ Job \subseteq Ranks
      /\ Ranks \subseteq Names /\ Whole \in Names
  BY JobFacts DEF Inv, Typed, Roles
<1>2. CASE Mergeable
  <2>1. /\ staging' = [staging EXCEPT ![Merged] = UNION {Behind(q) : q \in Shards}]
        /\ merging' = TRUE
        /\ pc' = [pc EXCEPT ![r] = "name"]
    BY <1>2 DEF Goto
  <2>2. Shards # {}
    BY <1>2 DEF Mergeable
  <2>3. ~merging
    BY <1>1 DEF Inv, Roles, Publishing, Ended
  <2>4. Old(Whole)
    BY <1>1, <2>3 DEF Inv, Fresh
  <2>5. \A q \in Job : q # r => pc[q] \in {"sync"} \cup Ended
    BY <1>1 DEF Inv, Roles
  <2>6. UNION {Behind(q) : q \in Shards} \in SUBSET (Nat \X Jobs)
    <3>1. \A q \in Shards : q \in Names /\ manifest[q] # None
      BY <1>1 DEF Shards
    <3>2. \A q \in Shards : manifest[q].gen \in Seconds
      BY <3>1 DEF Inv, Typed
    <3>3. \A q \in Shards : Behind(q) \in SUBSET (Nat \X Jobs)
      BY <3>1, <3>2 DEF Inv, Typed, Behind
    <3> QED
      BY <3>3
  <2>7. Typed'
    BY <2>1, <2>6 DEF Inv, Typed, Publishing
  <2>8. Fresh'
    <3>1. \A q \in Job : pc'[q] = IF q = r THEN "name" ELSE pc[q]
      BY <1>1, <2>1 DEF Inv, Typed
    <3>2. Job' = Job /\ Old(Whole)'
      BY <2>4 DEF Job, Old
    <3>3. \A q \in Job : pc'[q] \in {"start", "capture"} \cup Publishing => Target(q)' = Whole
      BY <2>1 DEF Target
    <3>4. \A q \in Job : pc'[q] \in {"move", "temp", "replace"} => pc[q] \in {"move", "temp", "replace"}
      BY <3>1
    <3> QED
      BY <2>1, <3>1, <3>2, <3>3, <3>4 DEF Inv, Fresh, Old, Seconds
  <2>9. Roles'
    BY <1>1, <2>1, <2>2, <2>5 DEF Inv, Typed, Roles, Job, Shards, Publishing, Ended
  <2> QED
    BY <2>7, <2>8, <2>9 DEF Inv
<1>3. CASE ~Mergeable
  <2>1. Goto(r, "dead") /\ UNCHANGED <<staging, merging>> /\ pc[r] \notin Ended
    BY <1>1, <1>3 DEF Ended
  <2> QED
    BY <2>1, MoveOn DEF Inv, Typed
<1> QED
  BY <1>2, <1>3

\* The steps that leave every generation and every manifest as it is.
LEMMA QuietSteps ==
    ASSUME Inv, NEW r \in Ranks,
           \/ Begin(r) \/ Capture(r) \/ Captured(r) \/ Moved(r) \/ Temp(r)
           \/ Raise(r) \/ Kill(r)
    PROVE  Inv'
<1>1. CASE Begin(r)
  <2>1. r \in Job
    BY <1>1 DEF Begin, Inv, Roles
  <2>2. CASE RankedPath(r) \notin stray /\ Owned(r) # {}
    <3>1. Goto(r, "capture") /\ pc[r] \notin Ended
      BY <1>1, <2>2 DEF Begin, Ended
    <3> QED
      BY <1>1, <3>1, MoveOn DEF Begin, disk, Inv, Typed
  <2>3. CASE RankedPath(r) \notin stray /\ Owned(r) = {} /\ world > 1
    <3>1. Goto(r, "sync") /\ pc[r] \notin Ended
      BY <1>1, <2>3 DEF Begin, Ended
    <3> QED
      BY <1>1, <3>1, MoveOn DEF Begin, disk, Inv, Typed
  <2>4. CASE RankedPath(r) \in stray \/ (Owned(r) = {} /\ ~(world > 1))
    <3>1. Goto(r, "dead") /\ pc[r] \notin Ended
      BY <1>1, <2>4 DEF Begin, Ended
    <3> QED
      BY <1>1, <3>1, MoveOn DEF Begin, disk, Inv, Typed
  <2> QED
    BY <2>2, <2>3, <2>4
<1>2. CASE Capture(r)
  <2>1. r \in Job /\ pc[r] = "capture"
    BY <1>2 DEF Capture, Inv, Roles
  <2>2. Goto(r, "capture") /\ pc[r] \notin Ended
    BY <1>2, <2>1 DEF Capture, Goto, Ended, Inv, Typed
  <2>3. PICK i \in Owned(r) : staging' = [staging EXCEPT ![RankedPath(r)] = @ \cup {<<i, job>>}]
    BY <1>2 DEF Capture
  <2>4. <<i, job>> \in Nat \X Jobs
    BY JobsAssumption DEF Owned, Inv, Typed
  <2>5. staging' \in [Names \cup {Merged} -> SUBSET (Nat \X Jobs)]
    BY <2>3, <2>4 DEF Inv, Typed
  <2> QED
    BY <1>2, <2>1, <2>2, <2>5, MoveOn DEF Capture
<1>3. CASE Captured(r)
  <2>1. Goto(r, "name") /\ pc[r] = "capture" /\ pc[r] \notin Ended
    BY <1>3 DEF Captured, Ended
  <2> QED
    BY <1>3, <2>1, MoveOn DEF Captured, disk, Inv, Typed
<1>4. CASE Moved(r)
  <2>1. Goto(r, "temp") /\ pc[r] = "move" /\ pc[r] \notin Ended
    BY <1>4 DEF Moved, Ended
  <2> QED
    BY <1>4, <2>1, MoveOn DEF Moved, disk, Inv, Typed
<1>5. CASE Temp(r)
  <2>1. Goto(r, "replace") /\ pc[r] = "temp" /\ pc[r] \notin Ended
    BY <1>5 DEF Temp, Ended
  <2> QED
    BY <1>5, <2>1, MoveOn DEF Temp, Inv, Typed
<1>6. CASE Raise(r)
  <2>1. Goto(r, "dead") /\ pc[r] \notin Ended
    BY <1>6 DEF Raise
  <2> QED
    BY <1>6, <2>1, MoveOn DEF Raise, Inv, Typed
<1>7. CASE Kill(r)
  <2>1. Goto(r, "dead") /\ pc[r] \notin Ended
    BY <1>7 DEF Kill
  <2> QED
    BY <1>7, <2>1, MoveOn DEF Kill, disk, Inv, Typed
<1> QED
  BY <1>1, <1>2, <1>3, <1>4, <1>5, <1>6, <1>7

LEMMA InitHolds == Init => Inv
<1> SUFFICES ASSUME Init PROVE Inv
  OBVIOUS
<1> USE DEF Init
<1>1. Job \subseteq Ranks /\ Ranks \subseteq Names /\ Whole \in Names /\ 0 \in Job
  BY JobFacts
<1>2. Typed
  <2>1. launches \in 0 .. MaxLaunches /\ filling \in [Ranks -> Nat]
    BY BoundsAssumption
  <2>2. gens \in [Names -> [Seconds -> SUBSET (Nat \X Jobs)]]
    OBVIOUS
  <2>3. pc \in [Ranks -> Ended]
    BY DEF Ended
  <2> QED
    BY <2>1, <2>2, <2>3 DEF Typed
<1>3. \A n \in Names : manifest[n] = None
  OBVIOUS
<1>4. \A r \in Ranks : pc[r] = "exit"
  OBVIOUS
<1>5. Fresh
  BY <1>1, <1>3, <1>4 DEF Fresh, Old, Publishing
<1>6. Roles
  BY <1>1, <1>4 DEF Roles
<1> QED
  BY <1>2, <1>5, <1>6 DEF Inv

LEMMA StepKeeps ==
    ASSUME "clock" \notin Faults, Inv, [Next]_vars
    PROVE  Inv'
<1>1. ASSUME NEW j \in Jobs, NEW w \in Worlds, Launch(j, w) PROVE Inv'
  BY <1>1, LaunchKeeps
<1>2. ASSUME NEW r \in Ranks, RankStep(r) \/ Raise(r) \/ Kill(r) PROVE Inv'
  BY <1>2, QuietSteps, NameKeeps, MoveKeeps, ReplaceKeeps, SyncKeeps, MergeKeeps DEF RankStep
<1>3. CASE UNCHANGED vars
  BY <1>3 DEF vars, Inv, Typed, Fresh, Roles, Old, Job, Shards, Target, RankedPath
<1> QED
  BY <1>1, <1>2, <1>3 DEF Next, Idle

LEMMA Untouched ==
    ASSUME "clock" \notin Faults, Inv, [Next]_vars
    PROVE  \A n \in Names : manifest[n] # None =>
              gens'[n][manifest[n].gen] = gens[n][manifest[n].gen]
<1>1. ASSUME NEW r \in Ranks, Name(r) \/ Move(r)
      PROVE  \A n \in Names : manifest[n] # None =>
                gens'[n][manifest[n].gen] = gens[n][manifest[n].gen]
  <2>1. r \in Job /\ pc[r] \in Publishing
    BY <1>1 DEF Name, Move, Inv, Roles, Publishing
  <2>2. Old(Target(r)) /\ Target(r) \in Names
    BY <2>1, TargetFacts DEF Inv, Fresh
  <2>3. \E F : gens' = [gens EXCEPT ![Target(r)][launches] = F]
    <3>1. CASE Name(r)
      BY <3>1, NameKeeps
    <3>2. CASE Move(r)
      <4>1. PICK f : gens' = [gens EXCEPT ![Target(r)][launches] = @ \cup {f}]
        BY <3>2, MoveKeeps
      <4> QED
        BY <4>1
    <3> QED
      BY <1>1, <3>1, <3>2
  <2>4. manifest[Target(r)] # None => manifest[Target(r)].gen # launches
    BY <2>2 DEF Inv, Typed, Old, Seconds
  <2>5. ASSUME NEW n \in Names, manifest[n] # None
        PROVE  gens'[n][manifest[n].gen] = gens[n][manifest[n].gen]
    <3>1. CASE n = Target(r)
      <4>1. PICK F : gens' = [gens EXCEPT ![n][launches] = F]
        BY <2>3, <3>1
      <4>2. manifest[n].gen \in Seconds /\ manifest[n].gen # launches
        BY <2>4, <2>5, <3>1 DEF Inv, Typed
      <4>3. gens'[n] = [gens[n] EXCEPT ![launches] = F] /\ DOMAIN gens[n] = Seconds
        BY <4>1 DEF Inv, Typed
      <4> QED
        BY <4>2, <4>3
    <3>2. CASE n # Target(r)
      BY <2>3, <3>2 DEF Inv, Typed
    <3> QED
      BY <3>1, <3>2
  <2> QED
    BY <2>5
<1>2. ASSUME NEW r \in Ranks,
             \/ Begin(r) \/ Capture(r) \/ Captured(r) \/ Moved(r) \/ Temp(r)
             \/ Replace(r) \/ Sync(r) \/ Merge(r) \/ Raise(r) \/ Kill(r)
      PROVE  gens' = gens
  BY <1>2 DEF Begin, Capture, Captured, Moved, Temp, Replace, Sync, Merge, Raise, Kill, disk
<1>3. ASSUME NEW j \in Jobs, NEW w \in Worlds, Launch(j, w) PROVE gens' = gens
  BY <1>3 DEF Launch, disk
<1> QED
  BY <1>1, <1>2, <1>3 DEF Next, RankStep, Idle, vars

\* For any jobs, ranks, launches, losses and errors: unless a clock is set
\* back, what a manifest names stays what it was when the manifest appeared.
THEOREM NamedGenerationsImmutable ==
    "clock" \notin Faults => (Spec => GenerationsImmutable)
<1> SUFFICES ASSUME "clock" \notin Faults PROVE Spec => GenerationsImmutable
  OBVIOUS
<1>1. Spec => []Inv
  BY InitHolds, StepKeeps, PTL DEF Spec
<1>2. Inv /\ [Next]_vars =>
         [\A n \in Names : manifest[n] # None =>
             gens'[n][manifest[n].gen] = gens[n][manifest[n].gen]]_vars
  BY Untouched
<1> QED
  BY <1>1, <1>2, PTL DEF Spec, GenerationsImmutable

-----------------------------------------------------------------------------
\* From here on all captures are of one job.

OneJob == "clock" \notin Faults /\ \A i, j \in Jobs : i = j

Due(r) == Owned(r) \X {job}

\* What a process publishes holds at least this.
Goal(r) == IF merging THEN Complete(job) ELSE Due(r)

\* The store of rank r, or with Whole the store itself, holds its share.
Held(r) == Owned(r) # {} => manifest[r] # None /\ Due(r) \subseteq Behind(r)

OnlyJob ==
    /\ \A n \in Names \cup {Merged} : staging[n] \subseteq Complete(job)
    /\ \A n \in Names : \A t \in Seconds : gens[n][t] \subseteq Complete(job)

\* Nothing of what a process publishes is lost on the way.
Ready(r) ==
    /\ pc[r] = "name" => Goal(r) \subseteq staging[Staged(r)]
    /\ pc[r] = "move" => Goal(r) \subseteq staging[Staged(r)] \cup gens[Target(r)][launches]
    /\ pc[r] \in {"temp", "replace"} => Goal(r) \subseteq gens[Target(r)][launches]
    /\ world > 1 /\ launches > 0 /\ pc[r] \in {"sync", "merge", "exit"} => Held(r)

\* When the merge begins every rank's share is behind its manifest, although
\* the rank may be dead by now.
AllHeld ==
    world > 1 /\ (pc[0] = "merge" \/ merging) => \A r \in Job : Held(r)

Stored == manifest[Whole] # None => Behind(Whole) = Complete(job)

\* Before the first launch nothing runs.
Started == launches = 0 => \A r \in Job : pc[r] = "exit"

Kept == Started /\ OnlyJob /\ (\A r \in Job : Ready(r)) /\ AllHeld /\ Stored

\* The staging directories of two processes that use theirs are different.
LEMMA StagedApart ==
    ASSUME Inv, NEW r \in Job, NEW q \in Job, q # r,
           pc[r] \in {"capture"} \cup Publishing, pc[q] \in {"capture"} \cup Publishing
    PROVE  Staged(q) # Staged(r) /\ Target(q) # Target(r) /\ ~merging
<1>1. ~merging
  BY DEF Inv, Roles, Publishing, Ended
<1> QED
  BY <1>1, JobFacts, TargetFacts DEF Staged, Inv, Typed

\* Steps of one rank that change no features.
LEMMA PcOnly ==
    ASSUME Inv, Kept, NEW r \in Job, NEW label, pc' = [pc EXCEPT ![r] = label],
           UNCHANGED <<job, world, launches, staging, gens, manifest, merging>>,
           pc[r] # "exit", Ready(r)', label = "merge" => \A q \in Job : Held(q)
    PROVE  Kept'
<1>1. Job' = Job /\ Job \subseteq Ranks /\ 0 \in Job
  BY JobFacts DEF Job, Inv, Typed
<1>2. \A q \in Job : q # r => pc'[q] = pc[q]
  BY <1>1 DEF Inv, Typed
<1>3. pc'[r] = label
  BY <1>1 DEF Inv, Typed
<1>4. \A q \in Job : Held(q) => Held(q)'
  BY DEF Held, Due, Owned, Behind
<1>5. ASSUME NEW q \in Job, q # r PROVE Ready(q)'
  <2>1. pc'[q] = pc[q]
    BY <1>2, <1>5
  <2>2. Ready(q)
    BY DEF Kept
  <2>3. Goal(q)' = Goal(q) /\ Staged(q)' = Staged(q) /\ Target(q)' = Target(q)
    BY DEF Goal, Due, Owned, Staged, Target, RankedPath
  <2>4. Held(q) => Held(q)'
    BY <1>4
  <2> HIDE DEF Goal, Staged, Target, Held
  <2> QED
    BY <2>1, <2>2, <2>3, <2>4 DEF Ready
<1>6. OnlyJob'
  BY DEF Kept, OnlyJob
<1>7. AllHeld'
  <2>1. pc'[0] = "merge" => pc[0] = "merge" \/ \A q \in Job : Held(q)
    BY <1>1, <1>2, <1>3
  <2> QED
    BY <1>1, <1>4, <2>1 DEF Kept, AllHeld
<1>8. Stored'
  BY DEF Kept, Stored, Behind
<1>9. Started'
  BY <1>1 DEF Kept, Started
<1> QED
  BY <1>1, <1>5, <1>6, <1>7, <1>8, <1>9 DEF Kept

LEMMA PcSteps ==
    ASSUME Inv, Kept, NEW r \in Ranks,
           Begin(r) \/ Captured(r) \/ Moved(r) \/ Temp(r) \/ Sync(r) \/ Raise(r) \/ Kill(r)
    PROVE  Kept'
<1>1. r \in Job
  BY DEF Inv, Roles, Begin, Captured, Moved, Temp, Sync, Raise, Kill, Ended
<1>2. world \in Nat /\ world > 0 /\ r \in DOMAIN pc
  BY JobFacts DEF Inv, Typed
<1> pc[r] # "exit"
  BY DEF Begin, Captured, Moved, Temp, Sync, Raise, Kill, Ended
<1>3. CASE Begin(r)
  <2>1. PICK label \in {"dead", "capture", "sync"} :
           /\ pc' = [pc EXCEPT ![r] = label]
           /\ label = "sync" => Owned(r) = {}
    BY <1>3 DEF Begin, Goto
  <2>2. UNCHANGED <<job, world, launches, staging, gens, manifest, merging>>
    BY <1>3 DEF Begin, disk
  <2>3. Ready(r)'
    BY <1>2, <2>1, <2>2 DEF Ready, Held, Owned
  <2> QED
    BY <1>1, <2>1, <2>2, <2>3, PcOnly
<1>4. CASE Captured(r)
  <2>1. pc' = [pc EXCEPT ![r] = "name"] /\ pc[r] = "capture"
    BY <1>4 DEF Captured, Goto
  <2>2. UNCHANGED <<job, world, launches, staging, gens, manifest, merging>>
    BY <1>4 DEF Captured, disk
  <2>3. ~merging
    BY <1>1, <2>1 DEF Inv, Roles, Publishing, Ended
  <2>4. Due(r) \subseteq staging[RankedPath(r)]
    <3>1. RankedPath(r) \in Names \cup {Merged}
      BY <1>1, <2>3, TargetFacts DEF Staged
    <3>2. ASSUME NEW i \in Owned(r) PROVE <<i, job>> \in staging[RankedPath(r)]
      <4>1. PICK f \in staging[RankedPath(r)] : f[1] = i
        BY <1>4, <3>2 DEF Captured, Indices
      <4>2. f \in Complete(job)
        BY <3>1, <4>1 DEF Kept, OnlyJob
      <4>3. f = <<i, job>>
        BY <4>1, <4>2 DEF Complete
      <4> QED
        BY <4>1, <4>3
    <3> QED
      BY <3>2 DEF Due
  <2>5. Goal(r) \subseteq staging[Staged(r)]
    BY <2>3, <2>4 DEF Goal, Staged
  <2>6. (Goal(r) \subseteq staging[Staged(r)])'
    BY <2>2, <2>5 DEF Goal, Due, Owned, Staged, RankedPath
  <2>7. Ready(r)'
    BY <1>2, <2>1, <2>6 DEF Ready
  <2> QED
    BY <1>1, <2>1, <2>2, <2>7, PcOnly
<1>5. CASE Moved(r)
  <2>1. pc' = [pc EXCEPT ![r] = "temp"] /\ pc[r] = "move" /\ staging[Staged(r)] = {}
    BY <1>5 DEF Moved, Goto
  <2>2. UNCHANGED <<job, world, launches, staging, gens, manifest, merging>>
    BY <1>5 DEF Moved, disk
  <2>3. Goal(r) \subseteq gens[Target(r)][launches]
    BY <1>1, <2>1 DEF Kept, Ready
  <2>4. (Goal(r) \subseteq gens[Target(r)][launches])'
    BY <2>2, <2>3 DEF Goal, Due, Owned, Target, RankedPath
  <2>5. Ready(r)'
    BY <1>2, <2>1, <2>4 DEF Ready
  <2> QED
    BY <1>1, <2>1, <2>2, <2>5, PcOnly
<1>6. CASE Temp(r)
  <2>1. pc' = [pc EXCEPT ![r] = "replace"] /\ pc[r] = "temp"
    BY <1>6 DEF Temp, Goto
  <2>2. UNCHANGED <<job, world, launches, staging, gens, manifest, merging>>
    BY <1>6 DEF Temp
  <2>3. Goal(r) \subseteq gens[Target(r)][launches]
    BY <1>1, <2>1 DEF Kept, Ready
  <2>4. (Goal(r) \subseteq gens[Target(r)][launches])'
    BY <2>2, <2>3 DEF Goal, Due, Owned, Target, RankedPath
  <2>5. Ready(r)'
    BY <1>2, <2>1, <2>4 DEF Ready
  <2> QED
    BY <1>1, <2>1, <2>2, <2>5, PcOnly
<1>7. CASE Sync(r)
  <2>1. PICK label \in {"merge", "exit"} :
           /\ pc' = [pc EXCEPT ![r] = label]
           /\ label = "merge" => world > 1 /\ r = 0
    BY <1>7 DEF Sync, Goto
  <2>2. pc[r] = "sync" /\ UNCHANGED <<job, world, launches, staging, gens, manifest, merging>>
    BY <1>7 DEF Sync, disk
  <2>3. Held(r) => Held(r)'
    BY <2>2 DEF Held, Due, Owned, Behind
  <2>4. Ready(r)'
    BY <1>1, <1>2, <2>1, <2>2, <2>3 DEF Kept, Ready
  <2>5. label = "merge" => \A q \in Job : Held(q)
    <3> SUFFICES ASSUME label = "merge", NEW q \in Job PROVE Held(q)
      OBVIOUS
    <3>1. world > 1 /\ ~merging
      BY <2>1, <2>2 DEF Inv, Roles, Publishing, Ended
    <3>2. pc[q] \in {"sync", "merge", "exit"}
      BY <1>7, <3>1 DEF Sync
    <3>3. launches > 0
      BY <1>1, <2>2 DEF Inv, Typed, Kept, Started
    <3> QED
      BY <3>1, <3>2, <3>3 DEF Kept, Ready
  <2> QED
    BY <1>1, <2>1, <2>2, <2>4, <2>5, PcOnly
<1>8. CASE Raise(r) \/ Kill(r)
  <2>1. pc' = [pc EXCEPT ![r] = "dead"]
    BY <1>8 DEF Raise, Kill, Goto
  <2>2. UNCHANGED <<job, world, launches, staging, gens, manifest, merging>>
    BY <1>8 DEF Raise, Kill, disk
  <2>3. Ready(r)'
    BY <1>2, <2>1 DEF Ready
  <2> QED
    BY <1>1, <2>1, <2>2, <2>3, PcOnly
<1> QED
  BY <1>3, <1>4, <1>5, <1>6, <1>7, <1>8

LEMMA LaunchKept ==
    ASSUME OneJob, Inv, Kept, NEW j \in Jobs, NEW w \in Worlds, Launch(j, w)
    PROVE  Kept'
<1> USE DEF Launch, disk
<1>1. job' = job
  BY DEF OneJob, Inv, Typed
<1>2. w \in Nat /\ w > 0 /\ launches' > 0 /\ Job' \subseteq Ranks /\ 0 \in Ranks
  BY WorldsAssumption, JobFacts DEF Job, Inv, Typed
<1>3. \A r \in Job' : pc'[r] = "start"
  BY <1>2 DEF Job
<1>4. \A r \in Job' : Ready(r)'
  BY <1>3 DEF Ready
<1>5. AllHeld'
  BY <1>2 DEF AllHeld
<1>6. OnlyJob' /\ Stored'
  BY <1>1 DEF Kept, OnlyJob, Stored, Behind
<1>7. Started'
  BY <1>2 DEF Started
<1> QED
  BY <1>4, <1>5, <1>6, <1>7 DEF Kept

LEMMA CaptureKept ==
    ASSUME OneJob, Inv, Kept, NEW r \in Ranks, Capture(r)
    PROVE  Kept'
<1> USE DEF Capture
<1>1. PICK i \in Owned(r) : staging' = [staging EXCEPT ![RankedPath(r)] = @ \cup {<<i, job>>}]
  OBVIOUS
<1>2. \A n \in Names \cup {Merged} : staging[n] \subseteq staging'[n]
  BY <1>1 DEF Inv, Typed
<1>3. OnlyJob'
  <2>1. <<i, job>> \in Complete(job)
    BY DEF Owned, Complete
  <2> QED
    BY <1>1, <2>1 DEF Inv, Typed, Kept, OnlyJob
<1>4. ASSUME NEW q \in Job PROVE Ready(q)'
  <2>1. Goal(q)' = Goal(q) /\ Staged(q)' = Staged(q) /\ Target(q)' = Target(q)
    BY DEF Goal, Due, Owned, Staged, Target, RankedPath
  <2>2. staging[Staged(q)] \subseteq staging'[Staged(q)]
    BY <1>2, TargetFacts
  <2>3. Held(q)' = Held(q) /\ Ready(q)
    BY DEF Held, Due, Owned, Behind, Kept
  <2> HIDE DEF Capture
  <2>4. UNCHANGED <<world, launches, pc, gens>>
    BY DEF Capture
  <2> QED
    BY <2>1, <2>2, <2>3, <2>4 DEF Ready
<1>5. AllHeld' /\ Stored' /\ Job' = Job /\ Started'
  BY DEF Kept, AllHeld, Stored, Held, Due, Owned, Behind, Job, Started
<1> QED
  BY <1>3, <1>4, <1>5 DEF Kept

\* What is behind an unchanged manifest stays there.
LEMMA HeldKept ==
    ASSUME OneJob, Inv, [Next]_vars, UNCHANGED <<job, world>>, NEW n \in Names,
           manifest'[n] = manifest[n]
    PROVE  /\ Held(n) => Held(n)'
           /\ manifest[n] # None => Behind(n)' = Behind(n)
<1>1. manifest[n] # None => Behind(n)' = Behind(n)
  BY Untouched DEF OneJob, Behind
<1> QED
  BY <1>1 DEF Held, Due, Owned

LEMMA NameKept ==
    ASSUME OneJob, Inv, Kept, NEW r \in Ranks, Name(r)
    PROVE  Kept'
<1>1. /\ r \in Job /\ pc[r] = "name" /\ pc' = [pc EXCEPT ![r] = "move"]
      /\ UNCHANGED <<job, world, launches, staging, manifest, merging>>
      /\ gens' = [gens EXCEPT ![Target(r)][launches] = {}]
  BY NameKeeps DEF Name, Goto, OneJob, Inv, Roles
<1>2. [Next]_vars
  BY DEF Next, RankStep
<1>3. Job' = Job /\ Job \subseteq Ranks /\ Job \subseteq Names /\ Whole \in Names /\ 0 \in Job
  BY <1>1, JobFacts DEF Job, Inv, Typed
<1>4. \A n \in Names : Held(n) => Held(n)'
  BY <1>1, <1>2, HeldKept
<1>5. OnlyJob'
  BY <1>1 DEF Inv, Typed, Kept, OnlyJob
<1>6. ASSUME NEW q \in Job PROVE Ready(q)'
  <2>1. /\ Goal(q)' = Goal(q) /\ Staged(q)' = Staged(q) /\ Target(q)' = Target(q)
        /\ Ready(q)
        /\ Held(q) => Held(q)'
    BY <1>1, <1>3, <1>4 DEF Goal, Due, Owned, Staged, Target, RankedPath, Kept
  <2> UNCHANGED <<world, launches, staging>>
    BY <1>1
  <2>2. CASE q = r
    <3>1. pc'[q] = "move" /\ pc[q] = "name"
      BY <1>1, <1>3, <2>2 DEF Inv, Typed
    <3> QED
      BY <2>1, <3>1 DEF Ready
  <2>3. CASE q # r
    <3>1. pc'[q] = pc[q]
      BY <1>1, <1>3, <2>3 DEF Inv, Typed
    <3>2. pc[q] \in {"move", "temp", "replace"} => gens'[Target(q)] = gens[Target(q)]
      BY <1>1, <2>3, StagedApart DEF Publishing, Inv, Typed
    <3> QED
      BY <2>1, <3>1, <3>2 DEF Ready
  <2> QED
    BY <2>2, <2>3
<1>7. AllHeld'
  BY <1>1, <1>3, <1>4 DEF Inv, Typed, Kept, AllHeld
<1>8. Stored'
  BY <1>1, <1>2, <1>3, HeldKept DEF Kept, Stored
<1>9. Started'
  BY <1>1, <1>3 DEF Kept, Started
<1> QED
  BY <1>3, <1>5, <1>6, <1>7, <1>8, <1>9 DEF Kept

LEMMA MoveKept ==
    ASSUME OneJob, Inv, Kept, NEW r \in Ranks, Move(r)
    PROVE  Kept'
<1>1. /\ r \in Job /\ pc[r] = "move"
      /\ UNCHANGED <<job, world, launches, manifest, merging, pc>>
  BY MoveKeeps DEF Move
<1>2. PICK f \in staging[Staged(r)] :
         /\ staging' = [staging EXCEPT ![Staged(r)] = @ \ {f}]
         /\ gens' = [gens EXCEPT ![Target(r)][launches] = @ \cup {f}]
  BY MoveKeeps
<1>3. [Next]_vars
  BY DEF Next, RankStep
<1>4. Job' = Job /\ Job \subseteq Ranks /\ Job \subseteq Names /\ Whole \in Names /\ 0 \in Job
  BY <1>1, JobFacts DEF Job, Inv, Typed
<1>5. /\ launches \in Seconds
      /\ Target(r) \in Names /\ Staged(r) \in Names \cup {Merged}
  BY <1>1, TargetFacts DEF Inv, Fresh
<1>6. \A n \in Names : Held(n) => Held(n)'
  BY <1>1, <1>3, HeldKept
<1>7. gens'[Target(r)][launches] = gens[Target(r)][launches] \cup {f}
      /\ staging'[Staged(r)] = staging[Staged(r)] \ {f}
  BY <1>2, <1>5 DEF Inv, Typed
<1>8. OnlyJob'
  <2>1. f \in Complete(job)
    BY <1>5 DEF Kept, OnlyJob
  <2>2. Complete(job)' = Complete(job)
    BY <1>1 DEF Complete
  <2>3. \A n \in Names \cup {Merged} : staging'[n] \subseteq staging[n]
    BY <1>2 DEF Inv, Typed
  <2>4. \A n \in Names, t \in Seconds : gens'[n][t] \subseteq gens[n][t] \cup {f}
    BY <1>2 DEF Inv, Typed
  <2> QED
    BY <2>1, <2>2, <2>3, <2>4 DEF Kept, OnlyJob
<1>9. ASSUME NEW q \in Job PROVE Ready(q)'
  <2>1. /\ Goal(q)' = Goal(q) /\ Staged(q)' = Staged(q) /\ Target(q)' = Target(q)
        /\ Ready(q)
        /\ Held(q) => Held(q)'
    BY <1>1, <1>4, <1>6 DEF Goal, Due, Owned, Staged, Target, RankedPath, Kept
  <2> UNCHANGED <<world, launches, pc>>
    BY <1>1
  <2>2. CASE q = r
    <3>1. /\ staging'[Staged(q)] \cup gens'[Target(q)][launches]
                = staging[Staged(q)] \cup gens[Target(q)][launches]
          /\ pc[q] = "move"
      BY <1>1, <1>7, <2>2
    <3> QED
      BY <2>1, <3>1 DEF Ready
  <2>3. CASE q # r
    <3>1. pc[q] \in {"name", "move", "temp", "replace"} =>
             gens'[Target(q)] = gens[Target(q)] /\ staging'[Staged(q)] = staging[Staged(q)]
      BY <1>1, <1>2, <2>3, StagedApart DEF Publishing, Inv, Typed
    <3> QED
      BY <2>1, <3>1 DEF Ready
  <2> QED
    BY <2>2, <2>3
<1>10. AllHeld'
  BY <1>1, <1>4, <1>6 DEF Kept, AllHeld
<1>11. Stored'
  BY <1>1, <1>3, <1>4, HeldKept DEF Kept, Stored
<1>12. Started'
  BY <1>1, <1>4 DEF Kept, Started
<1> QED
  BY <1>4, <1>8, <1>9, <1>10, <1>11, <1>12 DEF Kept

\* The manifest that appears names a generation with all it should have.
LEMMA ReplaceKept ==
    ASSUME OneJob, Inv, Kept, NEW r \in Ranks, Replace(r)
    PROVE  Kept'
<1>1. /\ r \in Job /\ pc[r] = "replace"
      /\ pc' = [pc EXCEPT ![r] = IF merging THEN "exit" ELSE "sync"]
      /\ UNCHANGED <<job, world, launches, staging, gens, merging>>
  BY ReplaceKeeps DEF Replace, Goto
<1>2. PICK c \in {Contract[j] : j \in Jobs} :
         manifest' = [manifest EXCEPT ![Target(r)] = [gen |-> launches, contract |-> c]]
  BY ReplaceKeeps
<1>3. [Next]_vars
  BY DEF Next, RankStep
<1>4. /\ Job' = Job /\ Job \subseteq Ranks /\ Job \subseteq Names /\ Whole \in Names
      /\ Whole \notin Ranks /\ 0 \in Job /\ world \in Nat /\ world > 0
  BY <1>1, JobFacts DEF Job, Inv, Typed
<1>5. Target(r) \in Names /\ launches \in Seconds
  BY <1>1, TargetFacts DEF Inv, Fresh
<1>6. /\ manifest'[Target(r)] = [gen |-> launches, contract |-> c]
      /\ \A n \in Names : n # Target(r) => manifest'[n] = manifest[n]
  BY <1>2, <1>5 DEF Inv, Typed
<1>7. manifest'[Target(r)] # None
  <2>1. launches \in Nat
    BY <1>5 DEF Seconds
  <2>2. [gen |-> launches, contract |-> c] \in [gen : Nat, contract : {Contract[j] : j \in Jobs}]
    BY <2>1
  <2> QED
    BY <1>6, <2>2, NamesAssumption
<1>8. Goal(r) \subseteq Behind(Target(r))'
  BY <1>1, <1>6 DEF Kept, Ready, Behind, Target, RankedPath
<1>9. \A n \in Names : n # Target(r) => (Held(n) => Held(n)')
  BY <1>1, <1>3, <1>6, HeldKept
<1>10. ~merging /\ world > 1 => Held(r)'
  <2> SUFFICES ASSUME ~merging, world > 1 PROVE Held(r)'
    OBVIOUS
  <2>1. Target(r) = r /\ Target(r)' = r /\ Goal(r) = Due(r) /\ Due(r)' = Due(r)
    BY <1>1 DEF Target, RankedPath, Goal, Due, Owned
  <2> QED
    BY <1>7, <1>8, <2>1 DEF Held
<1>11. \A q \in Job : world > 1 => (Held(q) => Held(q)')
  <2> SUFFICES ASSUME NEW q \in Job, world > 1, Held(q) PROVE Held(q)'
    OBVIOUS
  <2>1. q # Target(r) \/ (q = r /\ ~merging)
    BY <1>4 DEF Target, RankedPath
  <2> QED
    BY <1>4, <1>9, <1>10, <2>1
<1>12. OnlyJob'
  BY <1>1 DEF Kept, OnlyJob
<1>13. ASSUME NEW q \in Job PROVE Ready(q)'
  <2>1. /\ Goal(q)' = Goal(q) /\ Staged(q)' = Staged(q) /\ Target(q)' = Target(q)
        /\ Ready(q)
    BY <1>1 DEF Goal, Due, Owned, Staged, Target, RankedPath, Kept
  <2> UNCHANGED <<world, launches, staging, gens>>
    BY <1>1
  <2>2. CASE q = r
    <3>1. pc'[q] = IF merging THEN "exit" ELSE "sync"
      BY <1>1, <1>4, <2>2 DEF Inv, Typed
    <3>2. world > 1 => Held(q)'
      BY <1>10, <1>11, <2>2 DEF Kept, AllHeld
    <3> QED
      BY <3>1, <3>2 DEF Ready
  <2>3. CASE q # r
    <3>1. pc'[q] = pc[q]
      BY <1>1, <1>4, <2>3 DEF Inv, Typed
    <3> QED
      BY <1>11, <2>1, <3>1 DEF Ready
  <2> QED
    BY <2>2, <2>3
<1>14. AllHeld'
  <2>1. pc'[0] = "merge" => pc[0] = "merge"
    BY <1>1, <1>4 DEF Inv, Typed
  <2> QED
    BY <1>1, <1>4, <1>11, <2>1 DEF Kept, AllHeld
<1>15. Stored'
  <2>1. CASE Target(r) # Whole
    BY <1>1, <1>3, <1>4, <1>6, <2>1, HeldKept DEF Kept, Stored
  <2>2. CASE Target(r) = Whole
    <3>1. Goal(r) = Complete(job)
      <4>1. CASE merging
        BY <4>1 DEF Goal
      <4>2. CASE ~merging
        <5>1. world = 1
          BY <1>1, <2>2, <4>2, TargetFacts
        <5>2. Size[job] \in Nat /\ Owned(r) = {i \in 0 .. Size[job] - 1 : i % 1 = 0}
          BY <1>1, <5>1, JobFacts, JobsAssumption DEF Inv, Typed, Owned
        <5>3. Owned(r) = 0 .. Size[job] - 1
          BY <5>2
        <5> QED
          BY <4>2, <5>3 DEF Goal, Due, Complete
      <4> QED
        BY <4>1, <4>2
    <3>2. Behind(Whole)' \subseteq Complete(job)
      BY <1>1, <1>4, <1>5, <1>6, <2>2 DEF Kept, OnlyJob, Behind
    <3>3. Behind(Whole)' = Complete(job)
      <4>1. Target(r)' = Target(r)
        BY <1>1 DEF Target, RankedPath
      <4> QED
        BY <1>8, <2>2, <3>1, <3>2, <4>1 DEF Behind
    <3> QED
      BY <1>1, <3>3 DEF Stored
  <2> QED
    BY <2>1, <2>2
<1>16. Started'
  BY <1>1, <1>4, <1>5 DEF Started, Seconds
<1> QED
  BY <1>4, <1>12, <1>13, <1>14, <1>15, <1>16 DEF Kept

\* The shards of all ranks together are the whole.
LEMMA MergeKept ==
    ASSUME OneJob, Inv, Kept, NEW r \in Ranks, Merge(r)
    PROVE  Kept'
<1>1. pc[r] = "merge" /\ r = 0 /\ world > 1 /\ r \in Job /\ Job \subseteq Ranks
      /\ Ranks \subseteq Names /\ Whole \in Names /\ world \in Nat
      /\ \A k \in Nat : k < world => k \in Job
  BY JobFacts DEF Merge, Inv, Typed, Roles
<1>2. CASE ~Mergeable
  <2>1. pc' = [pc EXCEPT ![r] = "dead"]
    BY <1>2 DEF Merge, Goto
  <2>2. UNCHANGED <<job, world, launches, staging, gens, manifest, merging>>
    BY <1>2 DEF Merge
  <2>3. Ready(r)'
    <3>1. pc'[r] = "dead"
      BY <1>1, <2>1 DEF Inv, Typed
    <3> QED
      BY <3>1 DEF Ready
  <2> QED
    BY <1>1, <2>1, <2>2, <2>3, PcOnly
<1>3. CASE Mergeable
  <2> DEFINE All == UNION {Behind(q) : q \in Shards}
  <2>1. /\ staging' = [staging EXCEPT ![Merged] = All]
        /\ merging' = TRUE
        /\ pc' = [pc EXCEPT ![r] = "name"]
        /\ UNCHANGED <<job, world, launches, gens, manifest>>
    BY <1>3 DEF Merge, Goto
  <2>2. \A q \in Job : Held(q)
    BY <1>1 DEF Kept, AllHeld
  <2>3. All \subseteq Complete(job)
    <3>1. \A q \in Shards : q \in Names /\ manifest[q].gen \in Seconds
      BY <1>1 DEF Shards, Inv, Typed
    <3> QED
      BY <3>1 DEF Kept, OnlyJob, Behind
  <2>4. Complete(job) \subseteq All
    <3> SUFFICES ASSUME NEW i \in 0 .. Size[job] - 1 PROVE <<i, job>> \in All
      BY DEF Complete
    <3>1. i \in Nat /\ Size[job] \in Nat
      BY JobsAssumption DEF Inv, Typed
    <3>2. i % world \in Job
      BY <1>1, <3>1
    <3>3. i \in Owned(i % world)
      BY DEF Owned
    <3>4. i % world \in Shards /\ <<i, job>> \in Behind(i % world)
      BY <2>2, <3>2, <3>3 DEF Held, Due, Shards
    <3> QED
      BY <3>4
  <2>5. staging'[Merged] = Complete(job) /\ \A n \in Names : staging'[n] \in {staging[n], All}
    BY <2>1, <2>3, <2>4 DEF Inv, Typed
  <2>6. OnlyJob'
    BY <2>1, <2>3, <2>5 DEF Kept, OnlyJob, Complete
  <2>7. Job' = Job /\ \A q \in Job : Held(q)'
    BY <2>1, <2>2 DEF Job, Held, Due, Owned, Behind
  <2>8. ASSUME NEW q \in Job PROVE Ready(q)'
    <3>1. CASE q = r
      <4>1. pc'[q] = "name" /\ Staged(q)' = Merged /\ Goal(q)' = Complete(job)
        BY <1>1, <2>1, <3>1 DEF Staged, Goal, Complete, Inv, Typed
      <4> QED
        BY <2>5, <4>1 DEF Ready
    <3>2. CASE q # r
      <4>1. pc'[q] \in {"sync"} \cup Ended
        BY <1>1, <2>1, <3>2 DEF Inv, Typed, Roles
      <4> QED
        BY <2>7, <4>1 DEF Ready, Ended
    <3> QED
      BY <3>1, <3>2
  <2>9. AllHeld'
    BY <2>7 DEF AllHeld
  <2>10. Stored'
    BY <2>1 DEF Kept, Stored, Behind
  <2>11. Started'
    BY <1>1, <2>1 DEF Kept, Started
  <2> QED
    BY <2>6, <2>7, <2>8, <2>9, <2>10, <2>11 DEF Kept
<1> QED
  BY <1>2, <1>3

LEMMA InitKept == Init => Kept
<1> SUFFICES ASSUME Init PROVE Kept
  OBVIOUS
<1> USE DEF Init
<1>1. Job \subseteq Ranks /\ 0 \in Job /\ Whole \in Names
  BY JobFacts
<1>2. \A r \in Job : pc[r] = "exit"
  BY <1>1
<1>3. OnlyJob /\ Stored /\ Started
  BY <1>1, <1>2 DEF OnlyJob, Stored, Started
<1>4. AllHeld /\ \A r \in Job : Ready(r)
  BY <1>1, <1>2 DEF AllHeld, Ready
<1> QED
  BY <1>3, <1>4 DEF Kept

LEMMA StepKept ==
    ASSUME OneJob, Inv, Kept, [Next]_vars
    PROVE  Kept'
<1>1. ASSUME NEW j \in Jobs, NEW w \in Worlds, Launch(j, w) PROVE Kept'
  BY <1>1, LaunchKept
<1>2. ASSUME NEW r \in Ranks, RankStep(r) \/ Raise(r) \/ Kill(r) PROVE Kept'
  BY <1>2, PcSteps, CaptureKept, NameKept, MoveKept, ReplaceKept, MergeKept DEF RankStep
<1>3. CASE UNCHANGED vars
  BY <1>3 DEF vars, Kept, Started, OnlyJob, Ready, AllHeld, Stored, Held, Due, Goal, Owned,
        Behind, Job, Staged, Target, RankedPath
<1> QED
  BY <1>1, <1>2, <1>3 DEF Next, Idle

\* However many examples and ranks there are, however often world size changes
\* and whatever is lost: the store readers find has every feature of the job.
THEOREM OneJobStoreWhole ==
    OneJob => (Spec => []StoreWhole)
<1> SUFFICES ASSUME OneJob PROVE Spec => []StoreWhole
  OBVIOUS
<1>1. [Next]_vars /\ Inv => Inv'
  BY StepKeeps DEF OneJob
<1>2. [Next]_vars /\ Inv /\ Kept => Kept'
  BY StepKept
<1>3. Inv /\ Kept => StoreWhole
  <2> SUFFICES ASSUME Inv, Kept, manifest[Whole] # None PROVE StoreWhole
    BY DEF StoreWhole
  <2>1. Behind(Whole) = Complete(job) /\ job \in Jobs /\ Whole \in Names
    BY DEF Kept, Stored, Inv, Typed, Names
  <2>2. PICK j \in Jobs : manifest[Whole].contract = Contract[j]
    BY <2>1 DEF Inv, Typed
  <2>3. j = job
    BY <2>1 DEF OneJob
  <2> QED
    BY <2>1, <2>2, <2>3 DEF StoreWhole
<1> QED
  BY <1>1, <1>2, <1>3, InitHolds, InitKept, PTL DEF Spec

=============================================================================
