------------------------- MODULE BenchChildrenProofs -------------------------
(***************************************************************************)
(* A cell ends with a row for every sample and loses no result, its        *)
(* children fit the budget of their GPUs and a retry has them to itself:   *)
(* for all samples, groups and numbers of retries, whatever the children   *)
(* do.  The server of a child is gone when the runner goes on, for every   *)
(* number of servers and for all waits of which the adapter's is the       *)
(* shorter.                                                                *)
(***************************************************************************)
EXTENDS BenchChildren, FiniteSetTheorems, WellFoundedInduction, TLAPS

LEMMA SmallerOfTwo ==
    ASSUME NEW a \in Nat, NEW b \in Nat
    PROVE  Min({a, b}) = IF a <= b THEN a ELSE b
<1>1. CASE a <= b
  <2>1. a \in {a, b} /\ \A y \in {a, b} : a <= y
    BY <1>1
  <2>2. Min({a, b}) \in {a, b} /\ \A y \in {a, b} : Min({a, b}) <= y
    BY <2>1 DEF Min
  <2>3. Min({a, b}) <= a /\ a <= Min({a, b}) /\ Min({a, b}) \in Int
    BY <2>1, <2>2
  <2> QED
    BY <1>1, <2>3
<1>2. CASE ~(a <= b)
  <2>1. b \in {a, b} /\ \A y \in {a, b} : b <= y
    BY <1>2
  <2>2. Min({a, b}) \in {a, b} /\ \A y \in {a, b} : Min({a, b}) <= y
    BY <2>1 DEF Min
  <2>3. Min({a, b}) <= b /\ b <= Min({a, b}) /\ Min({a, b}) \in Int
    BY <2>1, <2>2
  <2> QED
    BY <1>2, <2>3
<1> QED
  BY <1>1, <1>2

----------------------------------------------------------------------------
\* The places of a plan.

Ahead(p, q) == p[1] < q[1] \/ (p[1] = q[1] /\ p[2] < q[2])
Earlier(P, p) == {q \in P : Ahead(q, p)}

LEMMA AheadOrders ==
    \A p, q, r \in Nat \X Nat :
        /\ ~Ahead(p, p)
        /\ p = q \/ Ahead(p, q) \/ Ahead(q, p)
        /\ Ahead(p, q) /\ Ahead(q, r) => Ahead(p, r)
BY DEF Ahead

\* Every place has a number of its own.
LEMMA NumbersDiffer ==
    ASSUME NEW P \in SUBSET (Nat \X Nat), IsFiniteSet(P)
    PROVE  /\ \A p \in P : Cardinality(Earlier(P, p)) \in 0 .. Cardinality(P) - 1
           /\ \A p, q \in P : p # q => Cardinality(Earlier(P, p)) # Cardinality(Earlier(P, q))
<1>1. \A p \in P : IsFiniteSet(Earlier(P, p)) /\ Cardinality(Earlier(P, p)) \in Nat
  BY FS_Subset, FS_CardinalityType DEF Earlier
<1>2. ASSUME NEW p \in P PROVE Cardinality(Earlier(P, p)) \in 0 .. Cardinality(P) - 1
  <2>1. Earlier(P, p) \in SUBSET P /\ Earlier(P, p) # P
    BY AheadOrders DEF Earlier
  <2>2. Cardinality(Earlier(P, p)) <= Cardinality(P) /\ Cardinality(Earlier(P, p)) # Cardinality(P)
    BY <2>1, FS_Subset
  <2>3. Cardinality(P) \in Nat
    BY FS_CardinalityType
  <2> QED
    BY <1>1, <2>2, <2>3
<1>3. ASSUME NEW p \in P, NEW q \in P, Ahead(p, q)
      PROVE  Cardinality(Earlier(P, p)) # Cardinality(Earlier(P, q))
  <2>1. Earlier(P, p) \in SUBSET Earlier(P, q) /\ p \in Earlier(P, q) /\ p \notin Earlier(P, p)
    BY <1>3, AheadOrders DEF Earlier
  <2> QED
    BY <1>1, <2>1, FS_Subset
<1> QED
  BY <1>2, <1>3, AheadOrders

\* Every number is that of a place.
LEMMA NumbersTaken ==
    ASSUME NEW P \in SUBSET (Nat \X Nat), IsFiniteSet(P), NEW v \in 0 .. Cardinality(P) - 1
    PROVE  \E p \in P : Cardinality(Earlier(P, p)) = v
<1> SUFFICES ASSUME \A p \in P : Cardinality(Earlier(P, p)) # v PROVE FALSE
  OBVIOUS
<1>1. PICK n \in Nat : n = Cardinality(P)
  BY FS_CardinalityType
<1> DEFINE All == 0 .. n - 1
           Others == All \ {v}
           number == [p \in P |-> Cardinality(Earlier(P, p))]
<1>2. IsFiniteSet(All) /\ Cardinality(All) = n
  <2> DEFINE last == n - 1
  <2>1. n >= 1
    BY <1>1
  <2>2. 0 \in Int /\ last \in Int /\ ~(0 > last) /\ last - 0 + 1 = n
    BY <2>1
  <2> HIDE DEF last
  <2>3. IsFiniteSet(0 .. last) /\ Cardinality(0 .. last) = n
    BY <2>2, FS_Interval
  <2> QED
    BY <2>3 DEF last
<1>3. IsFiniteSet(Others) /\ Cardinality(Others) = n - 1
  <2>1. v \in All
    BY <1>1
  <2> HIDE DEF All
  <2> QED
    BY <1>2, <2>1, FS_RemoveElement
<1>4. number \in [P -> Others]
  BY <1>1, NumbersDiffer
<1>5. \E p, q \in P : p # q /\ number[p] = number[q]
  <2>1. Cardinality(Others) < Cardinality(P)
    BY <1>1, <1>3
  <2> HIDE DEF Others, number
  <2> QED
    BY <1>3, <1>4, <2>1, FS_PigeonHole
<1> QED
  BY <1>5, NumbersDiffer

\* A plan has as many slots on a group as were asked for and fit there, at most.
LEMMA SlotsAre ==
    ASSUME NEW free \in [GroupIds -> Nat], NEW perGroup \in Nat, NEW count \in Nat
    PROVE  /\ SlotsFor(free, perGroup, count) \in Seq(GroupIds)
           /\ Len(SlotsFor(free, perGroup, count)) <= count
           /\ \A g \in GroupIds : \A S :
                  (\A k \in S : k \in 1 .. Len(SlotsFor(free, perGroup, count))
                                /\ SlotsFor(free, perGroup, count)[k] = g)
                  => IsFiniteSet(S) /\ Cardinality(S) <= perGroup /\ Cardinality(S) <= free[g]
<1> DEFINE P == {p \in GroupIds \X (1 .. perGroup) : p[2] <= free[p[1]]}
           PlaceAt(k) == CHOOSE p \in P : Cardinality(Earlier(P, p)) = k - 1
           s == SlotsFor(free, perGroup, count)
<1>1. GroupIds \subseteq Nat /\ IsFiniteSet(GroupIds)
  BY CellAssumption, FS_Interval DEF GroupIds
<1>2. P \in SUBSET (Nat \X Nat) /\ IsFiniteSet(P)
  <2>1. IsFiniteSet(1 .. perGroup)
    BY FS_Interval
  <2>2. IsFiniteSet(GroupIds \X (1 .. perGroup))
    BY <1>1, <2>1, FS_Product
  <2>3. P \in SUBSET (GroupIds \X (1 .. perGroup))
    OBVIOUS
  <2>4. P \in SUBSET (Nat \X Nat)
    <3>1. 1 .. perGroup \subseteq Nat
      OBVIOUS
    <3>2. \A p \in GroupIds \X (1 .. perGroup) : p \in Nat \X Nat
      BY <1>1, <3>1
    <3> QED
      BY <3>2
  <2> QED
    BY <2>2, <2>3, <2>4, FS_Subset
<1>3. PICK n \in Nat : n = Cardinality(P)
  BY <1>2, FS_CardinalityType
<1>4. PICK m \in Nat : m = Min({count, Cardinality(P)}) /\ m <= count /\ m <= n
  <2> DEFINE c == Cardinality(P)
  <2>1. c = n
    BY <1>3
  <2> HIDE DEF c
  <2>2. Min({count, c}) = IF count <= n THEN count ELSE n
    BY <2>1, SmallerOfTwo
  <2>3. Min({count, c}) \in Nat /\ Min({count, c}) <= count /\ Min({count, c}) <= n
    BY <2>2
  <2> QED
    BY <2>3 DEF c
<1>5. s = [k \in 1 .. m |-> PlaceAt(k)[1]]
  <2>1. \A k : PlaceAt(k) = (CHOOSE q \in P : Cardinality({r \in P : Ahead(r, q)}) = k - 1)
    BY DEF Earlier
  <2>2. s = [k \in 1 .. Min({count, Cardinality(P)}) |-> PlaceAt(k)[1]]
    BY <2>1 DEF SlotsFor, Earlier, Ahead
  <2> QED
    BY <1>4, <2>2
<1> HIDE DEF P, s
<1>6. ASSUME NEW k \in 1 .. m
      PROVE  PlaceAt(k) \in P /\ Cardinality(Earlier(P, PlaceAt(k))) = k - 1
  <2>1. k - 1 \in 0 .. Cardinality(P) - 1
    BY <1>3, <1>4
  <2>2. \E p \in P : Cardinality(Earlier(P, p)) = k - 1
    BY <1>2, <2>1, NumbersTaken
  <2> QED
    BY <2>2
<1> HIDE DEF PlaceAt
<1>7. \A p \in P : p[1] \in GroupIds /\ p[2] \in 1 .. perGroup /\ p[2] <= free[p[1]]
                   /\ p = <<p[1], p[2]>>
  BY DEF P
<1>8. s \in Seq(GroupIds) /\ Len(s) = m
  <2>1. s \in [1 .. m -> GroupIds]
    BY <1>5, <1>6, <1>7
  <2> QED
    BY <2>1
<1>9. ASSUME NEW g \in GroupIds, NEW S, \A k \in S : k \in 1 .. Len(s) /\ s[k] = g
      PROVE  IsFiniteSet(S) /\ Cardinality(S) <= perGroup /\ Cardinality(S) <= free[g]
  <2>1. S \in SUBSET (1 .. m)
    BY <1>8, <1>9
  <2>2. IsFiniteSet(S)
    <3>1. IsFiniteSet(1 .. m)
      BY FS_Interval
    <3> QED
      BY <2>1, <3>1, FS_Subset
  <2>3. PICK w \in Nat : w <= perGroup /\ w <= free[g] /\ (w = perGroup \/ w = free[g])
    <3>1. free[g] \in Nat
      OBVIOUS
    <3> QED
      BY <3>1
  <2> DEFINE T == 1 .. w
             index == [k \in S |-> PlaceAt(k)[2]]
  <2>4. index \in [S -> T]
    <3>1. ASSUME NEW k \in S PROVE PlaceAt(k)[2] \in 1 .. w
      <4>1. k \in 1 .. m /\ s[k] = g
        BY <1>8, <1>9
      <4>2. PlaceAt(k)[1] = g
        BY <1>5, <4>1
      <4> QED
        BY <1>6, <1>7, <2>3, <4>1, <4>2
    <3> QED
      BY <3>1
  <2>5. ASSUME NEW k \in S, NEW l \in S, index[k] = index[l] PROVE k = l
    <3>1. k \in 1 .. m /\ l \in 1 .. m /\ s[k] = g /\ s[l] = g
      BY <1>8, <1>9
    <3>2. PlaceAt(k)[1] = g /\ PlaceAt(l)[1] = g /\ PlaceAt(k)[2] = PlaceAt(l)[2]
      BY <1>5, <2>5, <3>1
    <3>3. PlaceAt(k) = PlaceAt(l)
      BY <1>6, <1>7, <3>1, <3>2
    <3>4. k - 1 = l - 1
      BY <1>6, <3>1, <3>3
    <3> QED
      BY <3>1, <3>4
  <2>6. IsFiniteSet(T) /\ Cardinality(T) = w
    <3>1. 1 \in Int /\ w \in Int /\ (IF 1 > w THEN 0 ELSE w - 1 + 1) = w
      BY <2>3
    <3> QED
      BY <3>1, FS_Interval
  <2> HIDE DEF T, index
  <2>7. Cardinality(S) \in Nat
    BY <2>2, FS_CardinalityType
  <2>8. Cardinality(S) <= w
    <3> SUFFICES ASSUME Cardinality(T) < Cardinality(S) PROVE FALSE
      BY <2>6, <2>7
    <3>1. \E k, l \in S : k # l /\ index[k] = index[l]
      BY <2>2, <2>4, <2>6, FS_PigeonHole
    <3> QED
      BY <2>5, <3>1
  <2> QED
    BY <2>2, <2>3, <2>7, <2>8
<1> QED
  BY <1>4, <1>8, <1>9 DEF s

----------------------------------------------------------------------------
\* The invariant of a cell.

CellTyped ==
    /\ mode \in {"single", "parallel"}
    /\ room \in [GroupIds -> Nat]
    /\ child \in [Children -> {None, "running", "exited", "crashed"}]
    /\ gpu \in [Children -> Int] /\ spot \in Int

\* Children of the first start, or the one that is awaited.
MayRun ==
    IF phase = "spawn" THEN 1 .. turn - 1
    ELSE IF phase = "await" THEN turn .. Len(slots)
    ELSE IF phase = "await shard" THEN {Min(queue)}
    ELSE IF phase = "await sample" THEN {Solo}
    ELSE {}

Started ==
    /\ phase \in {"spawn", "await"} => turn \in 1 .. Len(slots) /\ slots \in Seq(GroupIds)
    /\ phase = "await" /\ mode = "single" => Len(slots) = 1 /\ turn = 1
    /\ phase = "spawn" /\ mode = "single" => Len(slots) = 1
    /\ Running \subseteq MayRun

\* The plan is that of the last look; what is started later has room there.
OnItsGroup ==
    mode = "parallel" =>
        /\ phase \in {"spawn", "await"} =>
               slots = SlotsFor(room, PerGroup, N) /\ \A c \in Running : gpu[c] = slots[c]
        /\ phase \in {"shard", "await shard"} => spot \in GroupIds /\ room[spot] >= 1
        /\ phase = "await shard" => \A c \in Running : gpu[c] = spot
        /\ phase = "await sample" => \A c \in Running : \A g \in GroupIds : gpu[c] = g => room[g] >= 1

\* What the output file and the memory have of the results.
Results ==
    /\ phase \in {"plan", "spawn", "await", "rounds", "shard", "await shard", "merge"} =>
           output = NoRows /\ successful = {}
    /\ Accounted

CellInv == CellTyped /\ Started /\ OnItsGroup /\ Results

\* A plan for one child is on a group that has room for one.
LEMMA FirstSlot ==
    ASSUME NEW free \in [GroupIds -> Nat], SlotsFor(free, 1, 1) # << >>
    PROVE  SlotsFor(free, 1, 1)[1] \in GroupIds /\ free[SlotsFor(free, 1, 1)[1]] >= 1
<1> DEFINE s == SlotsFor(free, 1, 1)
<1>1. /\ s \in Seq(GroupIds)
      /\ \A g \in GroupIds : \A S :
             (\A k \in S : k \in 1 .. Len(s) /\ s[k] = g) => Cardinality(S) <= free[g]
  BY SlotsAre
<1>2. s # << >>
  OBVIOUS
<1> HIDE DEF s
<1>3. s[1] \in GroupIds /\ 1 \in 1 .. Len(s)
  BY <1>1, <1>2
<1>4. \A k \in {1} : k \in 1 .. Len(s) /\ s[k] = s[1]
  BY <1>3
<1>5. Cardinality({1}) <= free[s[1]] /\ Cardinality({1}) = 1
  BY <1>1, <1>3, <1>4, FS_Singleton
<1> QED
  BY <1>3, <1>5 DEF s

LEMMA CellIs ==
    /\ None \notin {"success", "failed", "omitted", "timeout", "running", "exited", "crashed"}
    /\ N \in Nat /\ PerGroup \in Nat /\ PerGroup >= 1 /\ \A g \in GroupIds : g \in Nat /\ g \in Int
    /\ \A free \in [GroupIds -> 0 .. MaxRoom] : free \in [GroupIds -> Nat]
    /\ Modes \subseteq {"single", "parallel"}
    /\ NoRows = [s \in Samples |-> None]
BY CellAssumption DEF GroupIds, NoRows

LEMMA CellInitInv == ASSUME Init PROVE CellInv
<1> USE DEF Init, Running
<1>1. CellTyped
  BY CellIs DEF CellTyped
<1>2. Running = {}
  BY CellIs
<1>3. Started
  BY <1>2 DEF Started
<1>4. OnItsGroup
  BY DEF OnItsGroup
<1>5. Results
  BY DEF Results, Accounted
<1> QED
  BY <1>1, <1>3, <1>4, <1>5 DEF CellInv

\* A step that neither starts nor ends a child, nor goes on to another phase.
LEMMA CellFramed ==
    ASSUME CellInv,
           UNCHANGED <<mode, phase, room, child, gpu, turn, slots, queue, spot, output, successful>>
    PROVE  CellInv'
BY DEF CellInv, CellTyped, Started, OnItsGroup, Results, Accounted, Running, MayRun

\* A child that ends by itself.
LEMMA EndingKeeps ==
    ASSUME CellInv, NEW c \in Children, Exit(c) \/ Crash(c)
    PROVE  CellInv'
<1>1. /\ UNCHANGED <<mode, phase, room, gpu, turn, slots, queue, spot, output, successful>>
      /\ child' = [child EXCEPT ![c] = "exited"] \/ child' = [child EXCEPT ![c] = "crashed"]
  BY DEF Exit, Crash, planVars, retryVars, resultVars
<1>2. CellTyped'
  BY <1>1 DEF CellInv, CellTyped
<1>3. Running' \subseteq Running
  BY <1>1 DEF CellInv, CellTyped, Running
<1>4. MayRun' = MayRun
  BY <1>1 DEF MayRun
<1>5. Started'
  BY <1>1, <1>3, <1>4 DEF CellInv, Started
<1>6. OnItsGroup'
  BY <1>1, <1>3 DEF CellInv, OnItsGroup
<1>7. Results'
  BY <1>1 DEF CellInv, Results, Accounted
<1> QED
  BY <1>2, <1>5, <1>6, <1>7 DEF CellInv

\* While nothing runs, a step to a phase in which nothing may run.
LEMMA QuietKeeps ==
    ASSUME CellInv, Running = {}, Running' = {}, CellTyped', Results',
           phase' \notin {"spawn", "await", "shard"},
           phase' # "await shard", phase' # "await sample"
    PROVE  CellInv'
<1>1. Started'
  BY DEF Started
<1>2. OnItsGroup'
  BY DEF OnItsGroup
<1> QED
  BY <1>1, <1>2 DEF CellInv

\* Nothing runs outside of the phases that start or await children.
LEMMA QuietIs ==
    ASSUME CellInv, phase \notin {"spawn", "await", "await shard", "await sample"}
    PROVE  Running = {}
BY DEF CellInv, Started, MayRun

LEMMA PlanKeeps ==
    ASSUME CellInv, Guarded \/ PlanSingle \/ PlanShards
    PROVE  CellInv'
<1>1. Running = {} /\ phase = "plan"
  BY QuietIs DEF Guarded, PlanSingle, PlanShards
<1>2. CASE Guarded
  <2>1. /\ UNCHANGED <<mode, room, child, gpu, turn, slots, queue, spot, successful>>
        /\ phase' = "done" /\ output' = [s \in Samples |-> "failed"]
    BY <1>2 DEF Guarded, planVars, childVars, retryVars
  <2>2. Running' = {} /\ CellTyped'
    BY <1>1, <2>1 DEF Running, CellInv, CellTyped
  <2>3. Results'
    BY <1>1, <2>1 DEF CellInv, Results, Accounted
  <2> QED
    BY <1>1, <2>1, <2>2, <2>3, QuietKeeps
<1>3. CASE PlanSingle
  <2>1. /\ UNCHANGED <<mode, room, child, gpu, queue, spot, output, successful>>
        /\ phase' = "spawn" /\ turn' = 1 /\ slots' = <<1>> /\ mode = "single"
    BY <1>3 DEF PlanSingle, childVars, retryVars, resultVars
  <2>2. Running' = {} /\ CellTyped'
    BY <1>1, <2>1 DEF Running, CellInv, CellTyped
  <2>3. Results'
    BY <1>1, <2>1 DEF CellInv, Results, Accounted
  <2>4. 1 \in GroupIds
    BY CellAssumption DEF GroupIds
  <2>5. Started'
    BY <2>1, <2>2, <2>4 DEF Started
  <2>6. OnItsGroup'
    BY <2>1 DEF OnItsGroup
  <2> QED
    BY <2>2, <2>3, <2>5, <2>6 DEF CellInv
<1>4. CASE PlanShards
  <2>1. PICK free \in [GroupIds -> 0 .. MaxRoom] :
            /\ room' = free /\ slots' = SlotsFor(free, PerGroup, N)
            /\ \/ slots' = << >> /\ phase' = "reconcile"
               \/ slots' # << >> /\ phase' = "spawn" /\ turn' = 1
    BY <1>4 DEF PlanShards
  <2>2. UNCHANGED <<mode, child, gpu, queue, spot, output, successful>> /\ mode = "parallel"
    BY <1>4 DEF PlanShards, childVars, retryVars, resultVars
  <2>3. Running' = {} /\ CellTyped'
    BY <1>1, <2>1, <2>2, CellIs DEF Running, CellInv, CellTyped
  <2>4. Results'
    BY <1>1, <2>1, <2>2 DEF CellInv, Results, Accounted
  <2>5. CASE phase' = "reconcile"
    BY <1>1, <2>3, <2>4, <2>5, QuietKeeps
  <2>6. CASE phase' = "spawn"
    <3>1. slots' \in Seq(GroupIds)
      BY <2>1, CellIs, SlotsAre
    <3>2. 1 \in 1 .. Len(slots')
      BY <2>1, <2>6, <3>1
    <3>3. Started'
      BY <2>1, <2>2, <2>3, <2>6, <3>1, <3>2 DEF Started
    <3>4. OnItsGroup'
      BY <2>1, <2>3, <2>6 DEF OnItsGroup
    <3> QED
      BY <2>3, <2>4, <3>3, <3>4 DEF CellInv
  <2> QED
    BY <2>1, <2>5, <2>6
<1> QED
  BY <1>2, <1>3, <1>4

LEMMA SpawnKeeps == ASSUME CellInv, Spawn PROVE CellInv'
<1>1. /\ UNCHANGED <<mode, room, slots, queue, spot, output, successful>> /\ phase = "spawn"
      /\ child' = [child EXCEPT ![turn] = "running"] /\ gpu' = [gpu EXCEPT ![turn] = slots[turn]]
      /\ \/ turn < Len(slots) /\ turn' = turn + 1 /\ phase' = "spawn"
         \/ ~(turn < Len(slots)) /\ turn' = 1 /\ phase' = "await"
  BY DEF Spawn, Spawned, planVars, retryVars, resultVars
<1>2. /\ turn \in 1 .. Len(slots) /\ slots \in Seq(GroupIds) /\ Len(slots) \in Nat
      /\ Running \subseteq 1 .. turn - 1
  BY <1>1 DEF CellInv, Started, MayRun
<1>3. slots[turn] \in Int
  <2>1. slots[turn] \in GroupIds
    BY <1>2
  <2> QED
    BY <2>1, CellIs
<1>4. CellTyped'
  BY <1>1, <1>3 DEF CellInv, CellTyped
<1>5. Running' \subseteq Running \cup {turn} /\ Running' \subseteq Children
  BY <1>1 DEF CellInv, CellTyped, Running
<1>6. Running' \subseteq 1 .. turn
  BY <1>2, <1>5
<1>7. Running' \subseteq MayRun'
  <2>1. CASE turn < Len(slots) /\ turn' = turn + 1 /\ phase' = "spawn"
    BY <1>2, <1>6, <2>1 DEF MayRun
  <2>2. CASE ~(turn < Len(slots)) /\ turn' = 1 /\ phase' = "await"
    <3>1. turn = Len(slots)
      BY <1>2, <2>2
    <3> QED
      BY <1>1, <1>6, <2>2, <3>1 DEF MayRun
  <2> QED
    BY <1>1, <2>1, <2>2
<1>8. Started'
  BY <1>1, <1>2, <1>7 DEF CellInv, Started
<1>9. OnItsGroup'
  <2> SUFFICES ASSUME mode = "parallel"
               PROVE  slots = SlotsFor(room, PerGroup, N) /\ \A c \in Running' : gpu'[c] = slots[c]
    BY <1>1 DEF OnItsGroup
  <2>1. slots = SlotsFor(room, PerGroup, N) /\ \A c \in Running : gpu[c] = slots[c]
    BY <1>1 DEF CellInv, OnItsGroup
  <2>2. \A c \in Running' : c \in Children /\ (c # turn => c \in Running)
    BY <1>5
  <2> QED
    BY <1>1, <2>1, <2>2 DEF CellInv, CellTyped
<1>10. Results'
  BY <1>1 DEF CellInv, Results, Accounted
<1> QED
  BY <1>4, <1>8, <1>9, <1>10 DEF CellInv

LEMMA SpawnFailsKeeps == ASSUME CellInv, SpawnFails PROVE CellInv'
<1>1. /\ UNCHANGED <<mode, room, gpu, turn, slots, queue, spot, output, successful>>
      /\ phase = "spawn" /\ phase' = "reconcile"
      /\ child' = [c \in Children |-> IF c \in Running THEN None ELSE child[c]]
  BY DEF SpawnFails, planVars, retryVars, resultVars
<1>2. CellTyped'
  BY <1>1 DEF CellInv, CellTyped
<1>3. Running' = {}
  BY <1>1, CellIs DEF Running
<1>4. Results'
  BY <1>1 DEF CellInv, Results, Accounted
<1>5. Started' /\ OnItsGroup'
  BY <1>1, <1>3 DEF Started, OnItsGroup
<1> QED
  BY <1>2, <1>4, <1>5 DEF CellInv

\* A child that was awaited does not run any more, and no other has started.
LEMMA CollectedIs ==
    ASSUME CellInv, NEW c, Collected(c)
    PROVE  /\ Running' = Running \ {c}
           /\ child' \in [Children -> {None, "running", "exited", "crashed"}]
<1>1. child' = [child EXCEPT ![c] = None]
  BY DEF Collected
<1> QED
  BY <1>1, CellIs DEF CellInv, CellTyped, Running

LEMMA AwaitSingleKeeps == ASSUME CellInv, AwaitSingle PROVE CellInv'
<1>1. /\ UNCHANGED <<mode, room, gpu, turn, slots, queue, spot, successful>>
      /\ phase = "await" /\ mode = "single" /\ phase' = "reconcile"
  BY DEF AwaitSingle, planVars, retryVars
<1>2. /\ Running' = Running \ {1}
      /\ child' \in [Children -> {None, "running", "exited", "crashed"}]
  BY CollectedIs DEF AwaitSingle
<1>3. Running \subseteq {1}
  <2>1. Running \subseteq turn .. Len(slots) /\ turn = 1 /\ Len(slots) = 1
    BY <1>1 DEF CellInv, Started, MayRun
  <2>2. \A k \in 1 .. 1 : k = 1
    OBVIOUS
  <2> QED
    BY <2>1, <2>2
<1>4. CellTyped'
  BY <1>1, <1>2 DEF CellInv, CellTyped
<1>5. Results'
  BY <1>1 DEF Results, Accounted
<1>6. Started' /\ OnItsGroup'
  BY <1>1, <1>2, <1>3 DEF Started, OnItsGroup
<1> QED
  BY <1>4, <1>5, <1>6 DEF CellInv

LEMMA AwaitShardsKeeps == ASSUME CellInv, AwaitShards PROVE CellInv'
<1>1. /\ UNCHANGED <<mode, room, gpu, slots, queue, spot, output, successful>>
      /\ phase = "await" /\ mode = "parallel"
      /\ \/ turn < Len(slots) /\ turn' = turn + 1 /\ phase' = "await"
         \/ ~(turn < Len(slots)) /\ turn' = turn /\ phase' = "rounds"
  BY DEF AwaitShards, planVars, retryVars, resultVars
<1>2. /\ Running' = Running \ {turn}
      /\ child' \in [Children -> {None, "running", "exited", "crashed"}]
  BY CollectedIs DEF AwaitShards
<1>3. /\ turn \in 1 .. Len(slots) /\ slots \in Seq(GroupIds) /\ Len(slots) \in Nat
      /\ Running \subseteq turn .. Len(slots)
  BY <1>1 DEF CellInv, Started, MayRun
<1>4. CellTyped'
  BY <1>1, <1>2 DEF CellInv, CellTyped
<1>5. Results'
  BY <1>1 DEF CellInv, Results, Accounted
<1>6. CASE turn < Len(slots) /\ turn' = turn + 1 /\ phase' = "await"
  <2>1. Running' \subseteq turn' .. Len(slots') /\ turn' \in 1 .. Len(slots')
    BY <1>1, <1>2, <1>3, <1>6
  <2>2. Started'
    BY <1>1, <1>3, <1>6, <2>1 DEF Started, MayRun
  <2>3. OnItsGroup'
    BY <1>1, <1>2, <1>6 DEF CellInv, OnItsGroup
  <2> QED
    BY <1>4, <1>5, <2>2, <2>3 DEF CellInv
<1>7. CASE ~(turn < Len(slots)) /\ turn' = turn /\ phase' = "rounds"
  <2>1. Running' = {}
    BY <1>2, <1>3, <1>7
  <2>2. Started' /\ OnItsGroup'
    BY <1>7, <2>1 DEF Started, OnItsGroup
  <2> QED
    BY <1>4, <1>5, <2>2 DEF CellInv
<1> QED
  BY <1>1, <1>6, <1>7

LEMMA OomRoundKeeps == ASSUME CellInv, OomRound PROVE CellInv'
<1>1. Running = {} /\ phase = "rounds"
  BY QuietIs DEF OomRound
<1>2. PICK free \in [GroupIds -> 0 .. MaxRoom] :
          /\ room' = free
          /\ \/ phase' = "merge" /\ spot' = spot
             \/ /\ SlotsFor(free, 1, 1) # << >>
                /\ phase' = "shard" /\ spot' = SlotsFor(free, 1, 1)[1]
  BY DEF OomRound
<1>3. UNCHANGED <<mode, child, gpu, turn, slots, output, successful>>
  BY DEF OomRound, planVars, childVars, resultVars
<1>4. Running' = {}
  BY <1>1, <1>3 DEF Running
<1>5. Results'
  BY <1>1, <1>2, <1>3 DEF CellInv, Results, Accounted
<1>6. CASE phase' = "merge" /\ spot' = spot
  <2>1. CellTyped'
    BY <1>2, <1>3, <1>6, CellIs DEF CellInv, CellTyped
  <2> QED
    BY <1>1, <1>4, <1>5, <1>6, <2>1, QuietKeeps
<1>7. CASE SlotsFor(free, 1, 1) # << >> /\ phase' = "shard" /\ spot' = SlotsFor(free, 1, 1)[1]
  <2>1. free \in [GroupIds -> Nat]
    BY CellIs
  <2>2. spot' \in GroupIds /\ free[spot'] >= 1
    BY <1>7, <2>1, FirstSlot
  <2>3. CellTyped'
    BY <1>2, <1>3, <2>1, <2>2, CellIs DEF CellInv, CellTyped
  <2>4. Started' /\ OnItsGroup'
    BY <1>2, <1>4, <1>7, <2>2 DEF Started, OnItsGroup
  <2> QED
    BY <1>5, <2>3, <2>4 DEF CellInv
<1> QED
  BY <1>2, <1>6, <1>7

LEMMA RetryShardKeeps == ASSUME CellInv, RetryShard PROVE CellInv'
<1>1. /\ UNCHANGED <<mode, room, turn, slots, queue, spot, output, successful>>
      /\ phase = "shard" /\ phase' = "await shard"
      /\ child' = [child EXCEPT ![Min(queue)] = "running"]
      /\ gpu' = [gpu EXCEPT ![Min(queue)] = spot]
  BY DEF RetryShard, Spawned, planVars, retryVars, resultVars
<1>2. Running = {}
  BY <1>1, QuietIs
<1>3. CellTyped'
  BY <1>1 DEF CellInv, CellTyped
<1>4. Running' \subseteq {Min(queue)} /\ Running' \subseteq Children
  BY <1>1, <1>2 DEF CellInv, CellTyped, Running
<1>5. Started'
  BY <1>1, <1>4 DEF Started, MayRun
<1>6. OnItsGroup'
  BY <1>1, <1>4 DEF CellInv, CellTyped, OnItsGroup
<1>7. Results'
  BY <1>1 DEF CellInv, Results, Accounted
<1> QED
  BY <1>3, <1>5, <1>6, <1>7 DEF CellInv

LEMMA RetryShardFailsKeeps == ASSUME CellInv, RetryShardFails PROVE CellInv'
<1>1. /\ UNCHANGED <<mode, room, child, gpu, turn, slots, queue, spot, output, successful>>
      /\ phase = "shard" /\ phase' = "reconcile"
  BY DEF RetryShardFails, planVars, retryVars, resultVars
<1>2. Running = {} /\ Running' = {}
  BY <1>1, QuietIs DEF Running
<1>3. CellTyped' /\ Results'
  BY <1>1 DEF CellInv, CellTyped, Results, Accounted
<1> QED
  BY <1>1, <1>2, <1>3 DEF CellInv, Started, OnItsGroup

LEMMA AwaitShardKeeps == ASSUME CellInv, AwaitShard PROVE CellInv'
<1>1. /\ UNCHANGED <<mode, room, gpu, turn, slots, spot, output, successful>>
      /\ phase = "await shard" /\ phase' \in {"rounds", "shard"}
  BY DEF AwaitShard, planVars, resultVars
<1>2. /\ Running' = Running \ {Min(queue)}
      /\ child' \in [Children -> {None, "running", "exited", "crashed"}]
  BY CollectedIs DEF AwaitShard
<1>3. Running' = {}
  BY <1>1, <1>2 DEF CellInv, Started, MayRun
<1>4. CellTyped' /\ Results'
  BY <1>1, <1>2 DEF CellInv, CellTyped, Results, Accounted
<1>5. Started' /\ OnItsGroup'
  BY <1>1, <1>3 DEF CellInv, Started, OnItsGroup
<1> QED
  BY <1>4, <1>5 DEF CellInv

LEMMA MergeKeeps == ASSUME CellInv, RoundsOver \/ Merge PROVE CellInv'
<1>1. /\ UNCHANGED <<mode, room, child, gpu, turn, slots, queue, spot, successful>>
      /\ \/ phase = "rounds" /\ phase' = "merge" /\ output' = output
         \/ phase = "merge" /\ phase' = "reconcile"
  BY DEF RoundsOver, Merge, planVars, childVars, retryVars, resultVars
<1>2. Running = {} /\ Running' = {}
  BY <1>1, QuietIs DEF Running
<1>3. CellTyped' /\ Results'
  BY <1>1 DEF CellInv, CellTyped, Results, Accounted
<1> QED
  BY <1>1, <1>2, <1>3 DEF CellInv, Started, OnItsGroup

LEMMA ReconcileKeeps == ASSUME CellInv, Reconcile PROVE CellInv'
<1>1. /\ UNCHANGED <<mode, output>>
      /\ phase = "reconcile" /\ phase' = (IF queue' = {} THEN "done" ELSE "sample")
      /\ successful' = IF Unreadable THEN {} ELSE {s \in Samples : output[s] = "success"}
      /\ queue' = Samples \ successful'
      /\ room' = [g \in GroupIds |-> 0] /\ spot' = 0
      /\ child' = [c \in Children |-> IF c \in Running THEN child[c] ELSE None]
      /\ gpu' = [c \in Children |-> IF c \in Running THEN gpu[c] ELSE 0]
  BY DEF Reconcile, Forget
<1>2. Running = {}
  BY <1>1, QuietIs
<1>3. CellTyped'
  BY <1>1, <1>2 DEF CellInv, CellTyped
<1>4. Running' = {}
  BY <1>1, <1>2, CellIs DEF Running
<1>5. Results'
  <2> SUFFICES ASSUME phase' = "done", NEW s \in Samples
               PROVE  output[s] = "success" /\ s \in successful'
    BY <1>1 DEF Results, Accounted
  <2>1. s \in successful'
    BY <1>1
  <2> QED
    BY <1>1, <2>1
<1> QED
  BY <1>1, <1>3, <1>4, <1>5 DEF CellInv, Started, OnItsGroup

LEMMA RetrySampleKeeps == ASSUME CellInv, RetrySample PROVE CellInv'
<1>1. UNCHANGED <<mode, turn, slots, spot, output, successful>> /\ phase = "sample"
  BY DEF RetrySample, planVars, resultVars
<1>2. Running = {}
  BY <1>1, QuietIs
<1>3. \/ /\ mode = "single" /\ phase' = "await sample" /\ room' = room
         /\ child' = [child EXCEPT ![Solo] = "running"] /\ gpu' = [gpu EXCEPT ![Solo] = 1]
      \/ \E free \in [GroupIds -> 0 .. MaxRoom] :
             /\ mode = "parallel" /\ room' = free /\ SlotsFor(free, 1, 1) # << >>
             /\ phase' = "await sample" /\ child' = [child EXCEPT ![Solo] = "running"]
             /\ gpu' = [gpu EXCEPT ![Solo] = SlotsFor(free, 1, 1)[1]]
      \/ \E free \in [GroupIds -> 0 .. MaxRoom] :
             mode = "parallel" /\ room' = free /\ UNCHANGED <<phase, child, gpu>>
  BY DEF RetrySample, Spawned
<1>4. phase' \in {"sample", "await sample"}
  BY <1>1, <1>3
<1>5. Results'
  BY <1>1, <1>4 DEF CellInv, Results, Accounted
<1>6. CASE /\ mode = "single" /\ phase' = "await sample" /\ room' = room
           /\ child' = [child EXCEPT ![Solo] = "running"] /\ gpu' = [gpu EXCEPT ![Solo] = 1]
  <2>1. CellTyped'
    <3>1. gpu \in [Children -> Int] /\ 1 \in Int
      BY DEF CellInv, CellTyped
    <3>2. [gpu EXCEPT ![Solo] = 1] \in [Children -> Int]
      BY <3>1
    <3> QED
      BY <1>1, <1>6, <3>2 DEF CellInv, CellTyped
  <2>2. Running' \subseteq {Solo}
    BY <1>2, <1>6 DEF CellInv, CellTyped, Running
  <2>3. Started' /\ OnItsGroup'
    BY <1>1, <1>6, <2>2 DEF Started, MayRun, OnItsGroup
  <2> QED
    BY <1>5, <2>1, <2>3 DEF CellInv
<1>7. ASSUME NEW free \in [GroupIds -> 0 .. MaxRoom],
             mode = "parallel", room' = free, SlotsFor(free, 1, 1) # << >>,
             phase' = "await sample", child' = [child EXCEPT ![Solo] = "running"],
             gpu' = [gpu EXCEPT ![Solo] = SlotsFor(free, 1, 1)[1]]
      PROVE  CellInv'
  <2> DEFINE place == SlotsFor(free, 1, 1)[1]
  <2>1. free \in [GroupIds -> Nat]
    BY CellIs
  <2>2. place \in GroupIds /\ free[place] >= 1
    BY <1>7, <2>1, FirstSlot
  <2>3. gpu' = [gpu EXCEPT ![Solo] = place]
    BY <1>7
  <2> HIDE DEF place
  <2>4. CellTyped'
    <3>1. gpu \in [Children -> Int] /\ place \in Int
      BY <2>2, CellIs DEF CellInv, CellTyped
    <3>2. [gpu EXCEPT ![Solo] = place] \in [Children -> Int]
      BY <3>1
    <3> QED
      BY <1>1, <1>7, <2>1, <2>3, <3>2 DEF CellInv, CellTyped
  <2>5. Running' \subseteq {Solo} /\ gpu'[Solo] = place
    BY <1>2, <1>7, <2>3 DEF CellInv, CellTyped, Running, Children
  <2>6. Started' /\ OnItsGroup'
    BY <1>1, <1>7, <2>2, <2>5 DEF Started, MayRun, OnItsGroup
  <2> QED
    BY <1>5, <2>4, <2>6 DEF CellInv
<1>8. ASSUME NEW free \in [GroupIds -> 0 .. MaxRoom],
             mode = "parallel", room' = free, UNCHANGED <<phase, child, gpu>>
      PROVE  CellInv'
  <2>1. CellTyped' /\ Running' = {}
    BY <1>1, <1>2, <1>8, CellIs DEF CellInv, CellTyped, Running
  <2> QED
    BY <1>1, <1>2, <1>5, <1>8, <2>1, QuietKeeps
<1> QED
  BY <1>3, <1>6, <1>7, <1>8

\* An attempt that fails, a sample that is given up, and the file of a cell.
LEMMA SampleKeeps ==
    ASSUME CellInv, RetrySampleFails \/ Exhausted \/ Publish
    PROVE  CellInv'
<1>1. /\ UNCHANGED <<mode, room, child, gpu, turn, slots, spot, successful>>
      /\ phase = "sample"
      /\ \/ phase' = "sample" /\ output' = output
         \/ /\ phase' = "done"
            /\ output' = [s \in Samples |-> IF s \in successful THEN "success" ELSE "failed"]
  BY DEF RetrySampleFails, Exhausted, Publish, planVars, childVars, retryVars, resultVars
<1>2. Running = {} /\ Running' = {}
  BY <1>1, QuietIs DEF Running
<1>3. CellTyped' /\ Results'
  BY <1>1 DEF CellInv, CellTyped, Results, Accounted
<1> QED
  BY <1>1, <1>2, <1>3, QuietKeeps

LEMMA AwaitSampleKeeps == ASSUME CellInv, AwaitSample PROVE CellInv'
<1>1. /\ UNCHANGED <<mode, room, gpu, turn, slots, spot, output>>
      /\ phase = "await sample" /\ phase' = "sample"
      /\ successful \subseteq successful'
  BY DEF AwaitSample, planVars
<1>2. /\ Running' = Running \ {Solo}
      /\ child' \in [Children -> {None, "running", "exited", "crashed"}]
  BY CollectedIs DEF AwaitSample
<1>3. Running' = {}
  BY <1>1, <1>2 DEF CellInv, Started, MayRun
<1>4. CellTyped' /\ Results'
  BY <1>1, <1>2 DEF CellInv, CellTyped, Results, Accounted
<1> QED
  BY <1>1, <1>3, <1>4 DEF CellInv, Started, OnItsGroup

LEMMA CellKeeps == ASSUME CellInv, [Next]_vars PROVE CellInv'
<1>1. CASE UNCHANGED vars
  BY <1>1, CellFramed DEF vars, planVars, childVars, retryVars, resultVars
<1>2. CASE Deadline
  BY <1>2, CellFramed DEF Deadline, planVars, childVars, retryVars, resultVars
<1>3. CASE Child
  <2>1. PICK c \in Children : Write(c) \/ Exit(c) \/ Crash(c)
    BY <1>3 DEF Child
  <2>2. CASE Write(c)
    BY <2>2, CellFramed DEF Write, planVars, retryVars, resultVars
  <2> QED
    BY <2>1, <2>2, EndingKeeps
<1>4. CASE Orchestrate
  BY <1>4, PlanKeeps, SpawnKeeps, SpawnFailsKeeps, AwaitSingleKeeps, AwaitShardsKeeps,
     OomRoundKeeps, RetryShardKeeps, RetryShardFailsKeeps, AwaitShardKeeps, MergeKeeps,
     ReconcileKeeps, RetrySampleKeeps, SampleKeeps, AwaitSampleKeeps DEF Orchestrate
<1> QED
  BY <1>1, <1>2, <1>3, <1>4 DEF Next

LEMMA ChildrenInitCell == ASSUME ChildrenInit PROVE CellInv
BY CellInitInv DEF ChildrenInit

LEMMA ChildrenKeepCell == ASSUME CellInv, [ChildrenNext]_allVars PROVE CellInv'
<1>1. [Next]_vars
  BY DEF ChildrenNext, CellStep, allVars
<1> QED
  BY <1>1, CellKeeps

\* A cell that is done has a row for every sample: the one of a success that was
\* measured, a failure row for every other, however its children ended
\* (docs/vietbench_evaluation.md:83-85).
THEOREM CellAccounted == ChildrenSpec => []Accounted
<1>1. CellInv => Accounted
  BY DEF CellInv, Results
<1> QED
  BY <1>1, ChildrenInitCell, ChildrenKeepCell, PTL DEF ChildrenSpec

\* A retry of a shard or of a sample has the machine to itself, and no child runs
\* while files are merged and published (_await_child, _cleanup_spawned_children).
THEOREM RetriesAlone == ChildrenSpec => []Alone
<1>1. ASSUME CellInv PROVE Alone
  <2>1. ASSUME phase \in {"await shard", "await sample"} PROVE Cardinality(Running) <= 1
    <3>1. PICK c : Running \subseteq {c}
      BY <1>1, <2>1 DEF CellInv, Started, MayRun
    <3>2. Running = {} \/ Running = {c}
      BY <3>1
    <3>3. CASE Running = {}
      <4>1. Cardinality(Running) = 0
        BY <3>3, FS_EmptySet
      <4> QED
        BY <4>1
    <3>4. CASE Running = {c}
      <4>1. Cardinality(Running) = 1
        BY <3>4, FS_Singleton
      <4> QED
        BY <4>1
    <3> QED
      BY <3>2, <3>3, <3>4
  <2> QED
    BY <1>1, <2>1, QuietIs DEF Alone
<1>2. CellInv => Alone
  BY <1>1
<1> QED
  BY <1>2, ChildrenInitCell, ChildrenKeepCell, PTL DEF ChildrenSpec

LEMMA BudgetFits == ASSUME CellInv PROVE FitsBudget
<1> SUFFICES ASSUME mode = "parallel", NEW g \in GroupIds
             PROVE  Cardinality({c \in Running : gpu[c] = g}) <= Min({PerGroup, room[g]})
  BY DEF FitsBudget
<1> DEFINE S == {c \in Running : gpu[c] = g}
<1>1. room \in [GroupIds -> Nat] /\ room[g] \in Nat /\ PerGroup \in Nat /\ PerGroup >= 1 /\ N \in Nat
  BY CellIs DEF CellInv, CellTyped
<1>2. PICK m \in Nat :
          m = Min({PerGroup, room[g]}) /\ (m = PerGroup \/ m = room[g])
  <2>1. Min({PerGroup, room[g]}) = IF PerGroup <= room[g] THEN PerGroup ELSE room[g]
    BY <1>1, SmallerOfTwo
  <2> QED
    BY <1>1, <2>1
<1>3. CASE S = {}
  BY <1>2, <1>3, FS_EmptySet
<1>4. CASE S # {} /\ phase \in {"spawn", "await"}
  <2>1. /\ slots = SlotsFor(room, PerGroup, N) /\ \A c \in Running : gpu[c] = slots[c]
        /\ turn \in 1 .. Len(slots) /\ slots \in Seq(GroupIds)
        /\ Running \subseteq 1 .. turn - 1 \/ Running \subseteq turn .. Len(slots)
    BY <1>4 DEF CellInv, OnItsGroup, Started, MayRun
  <2>2. Len(slots) \in Nat
    BY <2>1
  <2>3. \A c \in S : c \in 1 .. Len(slots) /\ slots[c] = g
    BY <2>1, <2>2
  <2> HIDE DEF S
  <2>4. IsFiniteSet(S) /\ Cardinality(S) <= PerGroup /\ Cardinality(S) <= room[g]
    BY SMTT(30), <1>1, <2>1, <2>3, SlotsAre
  <2> QED
    BY <1>2, <2>4 DEF S
<1>5. CASE S # {} /\ phase \notin {"spawn", "await"}
  <2>1. PICK c : c \in S
    BY <1>5
  <2>2. c \in Running /\ gpu[c] = g
    BY <2>1
  <2>3. phase \in {"await shard", "await sample"} /\ Running = {c}
    BY <1>5, <2>2 DEF CellInv, Started, MayRun
  <2>4. room[g] >= 1
    BY <2>2, <2>3 DEF CellInv, OnItsGroup
  <2>5. S = {c}
    BY <2>2, <2>3
  <2>6. Cardinality(S) = 1
    BY <2>5, FS_Singleton
  <2> QED
    BY <1>1, <1>2, <2>4, <2>6
<1> QED
  BY <1>3, <1>4, <1>5

\* No GPU group ever has more children than were asked for and fitted there when
\* the orchestrator last looked (plan_shard_slots).
THEOREM BudgetKept == ChildrenSpec => []FitsBudget
<1>1. CellInv => FitsBudget
  BY BudgetFits
<1> QED
  BY <1>1, ChildrenInitCell, ChildrenKeepCell, PTL DEF ChildrenSpec

----------------------------------------------------------------------------
\* Where the rows of the children are, while the orchestrator may still take
\* them up.

LEMMA MinOfNats ==
    ASSUME NEW S \in SUBSET Nat, S # {}
    PROVE  Min(S) \in S /\ \A n \in S : Min(S) <= n
<1> DEFINE Less == OpToRel(<, Nat)
<1>1. IsWellFoundedOn(Less, Nat)
  BY NatLessThanWellFounded
<1>2. \A i, j \in Nat : i < j => <<i, j>> \in Less
  BY DEF OpToRel
<1> HIDE DEF Less
<1>3. PICK m \in S : \A n \in S : <<n, m>> \notin Less
  BY <1>1, WFMin
<1>4. \A n \in S : m <= n
  <2> SUFFICES ASSUME NEW n \in S PROVE m <= n
    OBVIOUS
  <2>1. m \in Nat /\ n \in Nat /\ ~(n < m)
    BY <1>2, <1>3
  <2> QED
    BY <2>1
<1>5. \E x \in S : \A y \in S : x <= y
  BY <1>3, <1>4
<1> QED
  BY <1>5 DEF Min

LEMMA ShardsAre == Solo \notin Shards /\ Shards = Samples /\ Shards \subseteq Nat
<1>1. N \in Nat
  BY CellAssumption
<1> QED
  BY <1>1 DEF Solo, Shards, Samples

LEMMA FirstOf ==
    ASSUME NEW S \in SUBSET Samples, S # {}
    PROVE  Min(S) \in S
<1>1. S \in SUBSET Nat
  BY CellIs DEF Samples
<1> QED
  BY <1>1, MinOfNats

Planned == {"spawn", "await", "rounds", "shard", "await shard"}

FilesTyped ==
    /\ rows \in [Samples -> {None, "success", "failed", "omitted"}]
    /\ verdict \in [Shards -> {None, "success", "failed", "timeout"}]
    /\ phase \in Planned => slots \in Seq(GroupIds) /\ Len(slots) <= N
    /\ phase \in {"sample", "await sample"} => queue \subseteq Samples
    /\ phase = "await sample" => queue # {}

\* The shards that are run again are none that succeeded.
Again ==
    phase \in {"shard", "await shard"} =>
        /\ queue \subseteq Shards /\ queue # {}
        /\ \A b \in queue : verdict[b] # "success"

Vouched(s) == verdict[shard[s]] = "success"

\* The rows of shards that were started, and success rows where they are still
\* awaited, merged or read.
Held ==
    \A s \in Samples :
        /\ phase \in {"plan", "sample"} => rows[s] = None
        /\ phase = "spawn" /\ rows[s] # None => shard[s] \in 1 .. turn - 1
        /\ phase = "await" /\ rows[s] # None => shard[s] \in 1 .. Len(slots)
        /\ phase \in {"rounds", "shard", "await shard"} /\ rows[s] # None => shard[s] \in Shards
        /\ rows[s] = "success" =>
               /\ phase = "await" /\ mode = "parallel" /\ shard[s] < turn => Vouched(s)
               /\ phase \in {"rounds", "shard", "merge"} => Vouched(s)
               /\ phase = "await shard" => Vouched(s) \/ shard[s] = Min(queue)
               /\ phase = "reconcile" => output[s] = "success"
               /\ phase = "await sample" => s = Min(queue)

\* What was read of the output file, unless it could not be.
Recalled ==
    /\ phase = "reconcile" => successful = {}
    /\ phase \in {"sample", "await sample"} =>
           \A s \in Samples : output[s] = "success" => s \in successful \/ Unreadable

FilesInv == FilesTyped /\ Again /\ Held /\ Recalled

LEMMA FilesInitInv == ASSUME Init PROVE FilesInv
BY CellIs DEF Init, FilesInv, FilesTyped, Again, Held, Recalled, Planned

\* A step that changes none of the files.
LEMMA FilesFramed ==
    ASSUME FilesInv,
           UNCHANGED <<mode, phase, slots, shard, rows, torn, verdict, turn, queue,
                       successful, output>>
    PROVE  FilesInv'
BY DEF FilesInv, FilesTyped, Again, Held, Vouched, Recalled, Unreadable

LEMMA WriteKeepsFiles ==
    ASSUME CellInv, FilesInv, NEW c \in Children, Write(c)
    PROVE  FilesInv' /\ \A s \in Samples : rows[s] = "success" => rows'[s] = "success"
<1> DEFINE t == Min(Pending(c))
<1>1. /\ c \in Running /\ Pending(c) # {}
      /\ \E r \in {"success", "failed", "omitted"} : rows' = [rows EXCEPT ![t] = r]
      /\ UNCHANGED <<mode, phase, slots, shard, torn, verdict, turn, queue, successful, output>>
  BY DEF Write, Running, planVars, retryVars, resultVars
<1>2. c = Solo => phase = "await sample" /\ queue # {} /\ queue \subseteq Samples
  <2>1. ASSUME c = Solo PROVE phase = "await sample"
    <3>1. Solo \in MayRun
      BY <1>1, <2>1 DEF CellInv, Started
    <3>2. phase = "spawn" => Solo \notin 1 .. turn - 1
      <4> SUFFICES ASSUME phase = "spawn" PROVE Solo \notin 1 .. turn - 1
        OBVIOUS
      <4>1. turn \in 1 .. Len(slots) /\ slots \in Seq(GroupIds)
        BY DEF CellInv, Started
      <4> QED
        BY <4>1 DEF Solo
    <3>3. phase = "await" => Solo \notin turn .. Len(slots)
      <4> SUFFICES ASSUME phase = "await" PROVE Solo \notin turn .. Len(slots)
        OBVIOUS
      <4>1. turn \in 1 .. Len(slots) /\ slots \in Seq(GroupIds)
        BY DEF CellInv, Started
      <4> QED
        BY <4>1 DEF Solo
    <3>4. phase = "await shard" => Min(queue) \in Shards
      <4> SUFFICES ASSUME phase = "await shard" PROVE Min(queue) \in Shards
        OBVIOUS
      <4>1. queue \in SUBSET Samples /\ queue # {}
        BY ShardsAre DEF FilesInv, Again
      <4> QED
        BY <4>1, FirstOf, ShardsAre
    <3>5. phase = "await shard" => Solo # Min(queue)
      BY <3>4, ShardsAre
    <3> QED
      BY <3>1, <3>2, <3>3, <3>5 DEF MayRun
  <2> QED
    BY <2>1 DEF FilesInv, FilesTyped
<1>3. Pending(c) \in SUBSET Samples
  <2>1. c = Solo => Min(queue) \in Samples
    BY <1>2, FirstOf
  <2> QED
    BY <2>1 DEF Pending, FilesOf
<1>4. t \in Pending(c)
  BY <1>1, <1>3, FirstOf
<1>5. t \in Samples /\ rows[t] = None
  BY <1>3, <1>4 DEF Pending
<1>6. IF c = Solo THEN t = Min(queue) ELSE shard[t] = c
  BY <1>4 DEF Pending, FilesOf
<1> HIDE DEF t
<1>7. FilesTyped'
  BY <1>1, <1>5 DEF FilesInv, FilesTyped
<1>8. \A s \in Samples : s # t => rows'[s] = rows[s]
  BY <1>1 DEF FilesInv, FilesTyped
<1>9. Held'
  <2> SUFFICES ASSUME NEW s \in Samples PROVE Held!(s)'
    BY DEF Held
  <2>1. CASE s # t
    BY <1>1, <1>8, <2>1 DEF FilesInv, Held, Vouched
  <2>2. CASE s = t
    <3>1. c \in MayRun
      BY <1>1 DEF CellInv, Started
    <3>2. phase \in {"spawn", "await"} => turn \in 1 .. Len(slots) /\ slots \in Seq(GroupIds)
      BY DEF CellInv, Started
    <3>3. phase \in {"spawn", "await", "await shard"} => shard[s] = c
      BY <1>2, <1>6, <2>2
    <3>4. phase = "await sample" => s = Min(queue)
      BY <1>6, <2>2, <3>1 DEF MayRun
    <3>5. phase \in {"spawn", "await", "await shard", "await sample"}
      BY <3>1 DEF MayRun
    <3>6. phase = "await" => shard[s] \in turn .. Len(slots)
      BY <3>1, <3>3 DEF MayRun
    <3>7. phase = "await" => shard[s] \in 1 .. Len(slots) /\ ~(shard[s] < turn)
      BY <3>2, <3>6
    <3>8. phase = "spawn" => shard[s] \in 1 .. turn - 1
      BY <3>1, <3>3 DEF MayRun
    <3>9. phase = "await shard" => shard[s] = Min(queue)
      BY <3>1, <3>3 DEF MayRun
    <3>10. phase = "await shard" => shard[s] \in Shards
      BY <1>2, <3>3 DEF Children
    <3> QED
      BY <1>1, <3>4, <3>5, <3>7, <3>8, <3>9, <3>10
  <2> QED
    BY <2>1, <2>2
<1>10. Again' /\ Recalled'
  BY <1>1 DEF FilesInv, Again, Recalled, Unreadable
<1> QED
  BY <1>5, <1>7, <1>8, <1>9, <1>10, CellIs DEF FilesInv

\* What a step may do to what is known.
NoneLost == \A s \in Samples : Known(s) /\ ~Known(s)' => GivenUp(s)

LEMMA PlanKeepsFiles ==
    ASSUME CellInv, FilesInv, Guarded \/ PlanSingle \/ PlanShards
    PROVE  FilesInv' /\ NoneLost
<1>1. phase = "plan" /\ UNCHANGED <<mode, rows, torn, verdict, queue, successful>>
  BY DEF Guarded, PlanSingle, PlanShards, planVars, childVars, retryVars, resultVars
<1>2. successful = {} /\ \A s \in Samples : rows[s] = None /\ output[s] = None
  BY <1>1 DEF CellInv, Results, FilesInv, Held, NoRows
<1>3. \A s \in Samples : ~Known(s)
  BY <1>2, CellIs DEF Known
<1>4. \/ phase' = "done" \/ phase' = "reconcile"
      \/ phase' = "spawn" /\ slots' \in Seq(GroupIds) /\ Len(slots') <= N
  <2>1. CASE Guarded
    BY <2>1 DEF Guarded
  <2>2. CASE PlanSingle
    <3>1. 1 \in GroupIds /\ 1 <= N
      BY CellAssumption DEF GroupIds
    <3>2. slots' = <<1>> /\ phase' = "spawn"
      BY <2>2 DEF PlanSingle
    <3> QED
      BY <3>1, <3>2
  <2>3. CASE PlanShards
    <3>1. PICK free \in [GroupIds -> 0 .. MaxRoom] :
              slots' = SlotsFor(free, PerGroup, N) /\ phase' \in {"reconcile", "spawn"}
      BY <2>3 DEF PlanShards
    <3>2. slots' \in Seq(GroupIds) /\ Len(slots') <= N
      BY <3>1, CellIs, SlotsAre
    <3> QED
      BY <3>1, <3>2
  <2> QED
    BY <2>1, <2>2, <2>3
<1>5. FilesTyped'
  BY <1>1, <1>4 DEF FilesInv, FilesTyped, Planned
<1>6. Held'
  BY <1>1, <1>2, <1>4, CellIs DEF Held
<1>7. Again' /\ Recalled'
  BY <1>1, <1>2, <1>4 DEF Again, Recalled
<1> QED
  BY <1>3, <1>5, <1>6, <1>7 DEF FilesInv, NoneLost

\* The file of a child that is started is new.
LEMMA SpawnKeepsFiles == ASSUME CellInv, FilesInv, Spawn PROVE FilesInv' /\ NoneLost
<1>1. /\ phase = "spawn"
      /\ UNCHANGED <<mode, slots, shard, verdict, queue, successful, output>>
      /\ rows' = [s \in Samples |-> IF s \in FilesOf(turn) THEN None ELSE rows[s]]
      /\ \/ turn < Len(slots) /\ turn' = turn + 1 /\ phase' = "spawn"
         \/ ~(turn < Len(slots)) /\ turn' = 1 /\ phase' = "await"
  BY DEF Spawn, Spawned, planVars, retryVars, resultVars
<1>2. turn \in 1 .. Len(slots) /\ slots \in Seq(GroupIds) /\ Len(slots) \in Nat
  BY <1>1 DEF CellInv, Started
<1>3. ASSUME NEW s \in Samples
      PROVE  rows'[s] = rows[s] /\ (rows[s] # None => shard[s] \in 1 .. turn - 1)
  <2>1. rows[s] # None => shard[s] \in 1 .. turn - 1
    BY <1>1 DEF FilesInv, Held
  <2>2. s \in FilesOf(turn) => rows[s] = None
    <3>1. turn # Solo /\ turn \notin 1 .. turn - 1
      BY <1>2 DEF Solo
    <3> QED
      BY <2>1, <3>1 DEF FilesOf
  <2> QED
    BY <1>1, <2>1, <2>2
<1>4. FilesTyped'
  BY <1>1, <1>3 DEF FilesInv, FilesTyped, Planned
<1>5. Held'
  <2> SUFFICES ASSUME NEW s \in Samples, rows[s] # None, shard[s] \in 1 .. turn - 1
               PROVE  Held!(s)'
    BY <1>1, <1>3, CellIs DEF Held
  <2>1. shard[s] \in 1 .. turn /\ shard[s] \in 1 .. Len(slots) /\ ~(shard[s] < 1)
    BY <1>2
  <2>2. phase' = "spawn" => shard[s] \in 1 .. turn' - 1
    BY <1>1, <1>2, <2>1
  <2>3. phase' = "await" => turn' = 1
    BY <1>1
  <2> QED
    BY <1>1, <2>1, <2>2, <2>3
<1>6. Again' /\ Recalled' /\ NoneLost
  BY <1>1, <1>3 DEF Again, Recalled, NoneLost, Known
<1> QED
  BY <1>4, <1>5, <1>6 DEF FilesInv

\* A child that cannot be started: the rows of all are given up.
LEMMA FailuresKeepFiles ==
    ASSUME CellInv, FilesInv, SpawnFails \/ RetryShardFails
    PROVE  FilesInv' /\ NoneLost
<1>1. /\ phase \in {"spawn", "shard"} /\ phase' = "reconcile" /\ rows' = NoRows
      /\ UNCHANGED <<slots, verdict, queue, successful, output>>
  BY DEF SpawnFails, RetryShardFails, planVars, retryVars, resultVars
<1>2. \A s \in Samples : rows'[s] = None
  BY <1>1 DEF NoRows
<1>3. FilesTyped'
  BY <1>1 DEF FilesInv, FilesTyped, Planned, NoRows
<1>4. Again' /\ Held' /\ Recalled'
  BY <1>1, <1>2, CellIs DEF CellInv, Results, Again, Held, Recalled
<1> QED
  BY <1>1, <1>3, <1>4 DEF FilesInv, NoneLost, GivenUp

LEMMA AwaitSingleKeepsFiles ==
    ASSUME CellInv, FilesInv, AwaitSingle
    PROVE  FilesInv' /\ NoneLost
<1>1. /\ phase = "await" /\ phase' = "reconcile"
      /\ UNCHANGED <<slots, rows, verdict, queue, successful>>
      /\ output' = [s \in Samples |-> IF rows[s] = "omitted" THEN None ELSE rows[s]]
  BY DEF AwaitSingle, planVars, retryVars
<1>2. successful = {} /\ \A s \in Samples : output[s] = None
  BY <1>1 DEF CellInv, Results, NoRows
<1>3. FilesTyped'
  BY <1>1 DEF FilesInv, FilesTyped, Planned
<1>4. Again' /\ Held' /\ Recalled'
  BY <1>1, <1>2, CellIs DEF Again, Held, Recalled
<1>5. NoneLost
  BY <1>1, <1>2, CellIs DEF NoneLost, Known
<1> QED
  BY <1>3, <1>4, <1>5 DEF FilesInv

\* The file of a shard that has ended is vouched for, or given up.
LEMMA KeptIs ==
    ASSUME CellInv, FilesInv, NEW b \in Shards, Collected(b), Kept(b),
           UNCHANGED <<shard, successful, output>>,
           \/ phase = "await" /\ b = turn
           \/ phase = "await shard" /\ b = Min(queue)
    PROVE  /\ verdict' \in [Shards -> {None, "success", "failed", "timeout"}]
           /\ \A c \in Shards \ {b} : verdict'[c] = verdict[c]
           /\ rows' \in [Samples -> {None, "success", "failed", "omitted"}]
           /\ \A s \in Samples :
                  /\ shard[s] # b => rows'[s] = rows[s]
                  /\ shard[s] = b => rows'[s] = None \/ (rows'[s] = rows[s] /\ Vouched(s)')
           /\ NoneLost
<1>1. /\ Finalized(b) \in {"success", "failed", "timeout"}
      /\ verdict' = [verdict EXCEPT ![b] = Finalized(b)]
      /\ FilesOf(b) = {s \in Samples : shard[s] = b}
  <2>1. Finalized(b) \in {"success", "failed", "timeout"}
    BY DEF Finalized
  <2>2. b # Solo
    BY ShardsAre
  <2> QED
    BY <2>1, <2>2 DEF Kept, FilesOf
<1>2. /\ verdict \in [Shards -> {None, "success", "failed", "timeout"}]
      /\ rows \in [Samples -> {None, "success", "failed", "omitted"}]
  BY DEF FilesInv, FilesTyped
<1>3. verdict'[b] = Finalized(b)
  BY <1>1, <1>2
<1>4. CASE Finalized(b) = "success"
  <2>1. rows' = rows
    BY <1>4 DEF Kept
  <2> QED
    BY <1>1, <1>2, <1>3, <1>4, <2>1 DEF Vouched, NoneLost, Known
<1>5. CASE Finalized(b) # "success"
  <2>1. rows' = [s \in Samples |-> IF shard[s] = b THEN None ELSE rows[s]]
    BY <1>1, <1>5 DEF Kept
  <2>2. child'[b] = None
    BY DEF Collected, CellInv, CellTyped, Children
  <2>3. ASSUME NEW s \in Samples, Known(s), ~Known(s)' PROVE GivenUp(s)
    <3>1. shard[s] = b
      BY <1>2, <2>1, <2>3 DEF Known
    <3>2. verdict'[b] \in {"failed", "timeout"}
      BY <1>1, <1>3, <1>5
    <3> QED
      BY <2>2, <3>1, <3>2 DEF GivenUp
  <2> QED
    BY <1>1, <1>2, <1>3, <1>5, <2>1, <2>3 DEF NoneLost
<1> QED
  BY <1>4, <1>5

LEMMA AwaitShardsKeepsFiles ==
    ASSUME CellInv, FilesInv, AwaitShards
    PROVE  FilesInv' /\ NoneLost
<1>1. /\ phase = "await" /\ mode = "parallel" /\ Collected(turn) /\ Kept(turn)
      /\ UNCHANGED <<mode, slots, shard, queue, successful, output>>
      /\ \/ turn < Len(slots) /\ turn' = turn + 1 /\ phase' = "await"
         \/ ~(turn < Len(slots)) /\ turn' = turn /\ phase' = "rounds"
  BY DEF AwaitShards, planVars, retryVars, resultVars
<1>2. turn \in 1 .. Len(slots) /\ Len(slots) \in Nat /\ slots \in Seq(GroupIds) /\ Len(slots) <= N
  BY <1>1 DEF CellInv, Started, FilesInv, FilesTyped, Planned
<1>3. turn \in Shards /\ turn \in Nat
  BY <1>2, CellIs DEF Shards
<1>4. /\ verdict' \in [Shards -> {None, "success", "failed", "timeout"}]
      /\ \A c \in Shards \ {turn} : verdict'[c] = verdict[c]
      /\ rows' \in [Samples -> {None, "success", "failed", "omitted"}]
      /\ \A s \in Samples :
             /\ shard[s] # turn => rows'[s] = rows[s]
             /\ shard[s] = turn => rows'[s] = None \/ (rows'[s] = rows[s] /\ Vouched(s)')
      /\ NoneLost
  BY <1>1, <1>3, KeptIs
<1>5. FilesTyped'
  BY <1>1, <1>2, <1>4 DEF FilesTyped, Planned
<1>6. Held'
  <2> SUFFICES ASSUME NEW s \in Samples, rows'[s] # None PROVE Held!(s)'
    BY <1>1, CellIs DEF Held
  <2>1. rows'[s] = rows[s] /\ (shard[s] = turn => Vouched(s)')
    BY <1>4
  <2>2. shard[s] \in 1 .. Len(slots)
    BY <1>1, <2>1 DEF FilesInv, Held
  <2>3. shard[s] \in Shards
    BY <1>2, <2>2, CellIs DEF Shards
  <2>4. rows[s] = "success" /\ shard[s] < turn => Vouched(s)
    BY <1>1 DEF FilesInv, Held
  <2>5. shard[s] # turn => (Vouched(s)' <=> Vouched(s))
    BY <1>1, <1>4, <2>3 DEF Vouched
  <2>6. rows'[s] = "success" /\ shard[s] <= turn => Vouched(s)'
    BY <1>2, <2>1, <2>2, <2>4, <2>5
  <2>7. phase' = "await" /\ shard[s] < turn' => shard[s] <= turn
    BY <1>1, <1>2, <2>2
  <2>8. phase' = "rounds" => shard[s] <= turn
    BY <1>1, <1>2, <2>2
  <2>9. shard'[s] = shard[s] /\ slots' = slots /\ phase' \in {"await", "rounds"}
    BY <1>1
  <2> QED
    BY <2>2, <2>3, <2>6, <2>7, <2>8, <2>9
<1>7. Again' /\ Recalled'
  BY <1>1 DEF Again, Recalled
<1> QED
  BY <1>4, <1>5, <1>6, <1>7 DEF FilesInv

LEMMA AwaitShardKeepsFiles ==
    ASSUME CellInv, FilesInv, AwaitShard
    PROVE  FilesInv' /\ NoneLost
<1> DEFINE b == Min(queue)
<1>1. /\ phase = "await shard" /\ Collected(b) /\ Kept(b)
      /\ UNCHANGED <<mode, slots, shard, turn, successful, output>>
      /\ queue' = queue \ {b}
      /\ phase' = IF queue' = {} THEN "rounds" ELSE "shard"
  BY DEF AwaitShard, planVars, resultVars
<1>2. /\ queue \subseteq Shards /\ queue # {}
      /\ \A c \in queue : verdict[c] # "success"
      /\ slots \in Seq(GroupIds) /\ Len(slots) <= N
  BY <1>1 DEF FilesInv, Again, FilesTyped, Planned
<1>3. b \in Shards
  BY <1>2, FirstOf, ShardsAre
<1> HIDE DEF b
<1>4. /\ verdict' \in [Shards -> {None, "success", "failed", "timeout"}]
      /\ \A c \in Shards \ {b} : verdict'[c] = verdict[c]
      /\ rows' \in [Samples -> {None, "success", "failed", "omitted"}]
      /\ \A s \in Samples :
             /\ shard[s] # b => rows'[s] = rows[s]
             /\ shard[s] = b => rows'[s] = None \/ (rows'[s] = rows[s] /\ Vouched(s)')
      /\ NoneLost
  BY <1>1, <1>3, KeptIs DEF b
<1>5. FilesTyped'
  BY <1>1, <1>2, <1>4 DEF FilesTyped
<1>6. ASSUME NEW s \in Samples, rows'[s] = "success" PROVE Vouched(s)'
  <2>0. rows'[s] # None
    BY <1>6, CellIs
  <2>1. rows[s] = "success" /\ (shard[s] = b => Vouched(s)')
    BY <1>4, <1>6, <2>0
  <2>2. Vouched(s) \/ shard[s] = b
    BY <1>1, <2>1 DEF FilesInv, Held, b
  <2>3. CASE shard[s] # b
    <3>1. rows[s] # None
      BY <2>1, CellIs
    <3>2. shard[s] \in Shards \ {b}
      BY <1>1, <2>3, <3>1 DEF FilesInv, Held
    <3>3. verdict'[shard[s]] = verdict[shard[s]]
      BY <1>4, <3>2
    <3> QED
      BY <1>1, <2>2, <2>3, <3>3 DEF Vouched
  <2> QED
    BY <2>1, <2>3
<1>7. Held'
  <2>1. \A s \in Samples : rows'[s] # None => rows[s] # None
    BY <1>4
  <2> QED
    BY <1>1, <1>6, <2>1 DEF FilesInv, Held
<1>8. Again' /\ Recalled'
  BY <1>1, <1>2, <1>4 DEF Again, Recalled
<1> QED
  BY <1>4, <1>5, <1>6, <1>7, <1>8 DEF FilesInv

LEMMA RoundsKeepFiles ==
    ASSUME CellInv, FilesInv, OomRound \/ RoundsOver
    PROVE  FilesInv' /\ NoneLost
<1>1. /\ phase = "rounds"
      /\ UNCHANGED <<mode, slots, shard, turn, rows, verdict, successful, output>>
      /\ \/ phase' = "merge"
         \/ phase' = "shard" /\ queue' = OutOfMemory /\ OutOfMemory # {}
  BY DEF OomRound, RoundsOver, planVars, childVars, resultVars
<1>2. slots \in Seq(GroupIds) /\ Len(slots) <= N
  BY <1>1 DEF FilesInv, FilesTyped, Planned
<1>3. OutOfMemory \subseteq Shards
  BY <1>2, CellIs DEF OutOfMemory, Shards
<1>4. FilesTyped'
  BY <1>1, <1>2 DEF FilesInv, FilesTyped
<1>5. Again'
  BY <1>1, <1>3 DEF Again, OutOfMemory
<1>6. Held'
  BY <1>1, CellIs DEF FilesInv, Held, Vouched
<1>7. Recalled' /\ NoneLost
  BY <1>1 DEF Recalled, NoneLost, Known
<1> QED
  BY <1>4, <1>5, <1>6, <1>7 DEF FilesInv

LEMMA RetryShardKeepsFiles ==
    ASSUME CellInv, FilesInv, RetryShard
    PROVE  FilesInv' /\ NoneLost
<1> DEFINE b == Min(queue)
<1>1. /\ phase = "shard" /\ phase' = "await shard"
      /\ UNCHANGED <<mode, slots, shard, turn, queue, verdict, successful, output>>
      /\ rows' = [s \in Samples |-> IF s \in FilesOf(b) THEN None ELSE rows[s]]
  BY DEF RetryShard, Spawned, planVars, retryVars, resultVars
<1>2. /\ queue \subseteq Shards /\ queue # {}
      /\ \A c \in queue : verdict[c] # "success"
  BY <1>1 DEF FilesInv, Again
<1>3. b \in queue /\ b # Solo
  BY <1>2, FirstOf, ShardsAre
<1> HIDE DEF b
<1>4. ASSUME NEW s \in Samples, rows[s] = "success" PROVE rows'[s] = "success" /\ Vouched(s)
  <2>1. Vouched(s)
    BY <1>1, <1>4 DEF FilesInv, Held
  <2>2. shard[s] # b
    BY <1>2, <1>3, <2>1 DEF Vouched
  <2> QED
    BY <1>1, <1>3, <1>4, <2>1, <2>2 DEF FilesOf
<1>5. FilesTyped'
  BY <1>1 DEF FilesInv, FilesTyped, Planned
<1>6. ASSUME NEW s \in Samples, rows'[s] = "success" PROVE Vouched(s)'
  <2>1. rows[s] = "success"
    BY <1>1, <1>6, CellIs
  <2> QED
    BY <1>1, <1>4, <2>1 DEF Vouched
<1>7. Held'
  <2>1. \A s \in Samples : rows'[s] # None => rows[s] # None
    BY <1>1
  <2> QED
    BY <1>1, <1>6, <2>1 DEF FilesInv, Held
<1>8. Again' /\ Recalled' /\ NoneLost
  BY <1>1, <1>2, <1>4 DEF Again, Recalled, NoneLost, Known
<1> QED
  BY <1>5, <1>7, <1>8 DEF FilesInv

LEMMA MergeKeepsFiles == ASSUME CellInv, FilesInv, Merge PROVE FilesInv' /\ NoneLost
<1>1. /\ phase = "merge" /\ phase' = "reconcile"
      /\ UNCHANGED <<mode, slots, shard, turn, queue, rows, verdict, successful>>
      /\ output' = [s \in Samples |-> IF Vouched(s) THEN rows[s] ELSE None]
  BY DEF Merge, planVars, childVars, retryVars, Vouched
<1>2. successful = {} /\ \A s \in Samples : output[s] = None
  BY <1>1 DEF CellInv, Results, NoRows
<1>3. \A s \in Samples : rows[s] = "success" => Vouched(s)
  BY <1>1 DEF FilesInv, Held
<1>4. FilesTyped' /\ Again'
  BY <1>1 DEF FilesInv, FilesTyped, Planned, Again
<1>5. Held'
  BY <1>1, <1>3, CellIs DEF Held
<1>6. Recalled' /\ NoneLost
  BY <1>1, <1>2, CellIs DEF Recalled, NoneLost, Known
<1> QED
  BY <1>4, <1>5, <1>6 DEF FilesInv

----------------------------------------------------------------------------
\* The recovery sample by sample.

LEMMA ReconcileKeepsFiles ==
    ASSUME CellInv, FilesInv, Reconcile
    PROVE  FilesInv' /\ NoneLost
<1>1. /\ phase = "reconcile" /\ UNCHANGED <<mode, output>>
      /\ successful' = IF Unreadable THEN {} ELSE {s \in Samples : output[s] = "success"}
      /\ queue' = Samples \ successful'
      /\ phase' = IF queue' = {} THEN "done" ELSE "sample"
      /\ rows' = NoRows /\ verdict' = [b \in Shards |-> None]
      /\ torn' = IF Unreadable THEN {1} ELSE {}
  BY DEF Reconcile, Forget
<1>2. \A s \in Samples : rows[s] = "success" => output[s] = "success"
  BY <1>1 DEF FilesInv, Held
<1>3. successful = {}
  BY <1>1 DEF FilesInv, Recalled
<1>4. FilesTyped'
  BY <1>1 DEF FilesTyped, NoRows, Planned
<1>5. Again' /\ Held'
  BY <1>1, CellIs DEF Again, Held
<1>6. Recalled'
  BY <1>1 DEF Recalled, Unreadable
<1>7. NoneLost
  BY <1>1, <1>2, <1>3 DEF NoneLost, Known
<1> QED
  BY <1>4, <1>5, <1>6, <1>7 DEF FilesInv

\* The file of an attempt is new, and holds nothing yet.
LEMMA RetrySampleKeepsFiles ==
    ASSUME CellInv, FilesInv, RetrySample
    PROVE  FilesInv' /\ NoneLost
<1>1. /\ phase = "sample" /\ queue # {} /\ phase' \in {"sample", "await sample"}
      /\ UNCHANGED <<mode, slots, shard, turn, verdict, successful, output>>
  BY DEF RetrySample, planVars, resultVars
<1>2. /\ queue \subseteq Samples /\ rows \in [Samples -> {None, "success", "failed", "omitted"}]
      /\ \A s \in Samples : rows[s] = None
  BY <1>1 DEF FilesInv, FilesTyped, Held
<1>3. \/ /\ rows' = [s \in Samples |-> IF s \in FilesOf(Solo) THEN None ELSE rows[s]]
         /\ torn' = torn \ {Solo} /\ queue' = queue
      \/ /\ rows' = rows /\ torn' = torn
         /\ queue' \subseteq queue /\ phase' = "sample"
  <2>1. CASE Spawned(Solo, 1) /\ queue' = queue
    BY <2>1 DEF Spawned
  <2>2. ASSUME NEW free \in [GroupIds -> 0 .. MaxRoom],
               Spawned(Solo, SlotsFor(free, 1, 1)[1]) /\ queue' = queue
        PROVE  /\ rows' = [s \in Samples |-> IF s \in FilesOf(Solo) THEN None ELSE rows[s]]
               /\ torn' = torn \ {Solo} /\ queue' = queue
    BY <2>2 DEF Spawned
  <2>3. CASE UNCHANGED <<phase, rows, torn>> /\ NextSample(queue \ {Min(queue)})
    BY <1>1, <2>3 DEF NextSample
  <2>4. \/ Spawned(Solo, 1) /\ queue' = queue
        \/ \E free \in [GroupIds -> 0 .. MaxRoom] :
               Spawned(Solo, SlotsFor(free, 1, 1)[1]) /\ queue' = queue
        \/ UNCHANGED <<phase, rows, torn>> /\ NextSample(queue \ {Min(queue)})
    BY DEF RetrySample
  <2> QED
    BY <2>1, <2>2, <2>3, <2>4
<1>4. \A s \in Samples : rows'[s] = None
  BY <1>2, <1>3
<1>5. 1 \in torn => 1 \in torn'
  BY <1>3 DEF Solo
<1>6. rows' \in [Samples -> {None, "success", "failed", "omitted"}]
  BY <1>2, <1>3
<1>7. FilesTyped'
  BY <1>1, <1>2, <1>3, <1>6 DEF FilesInv, FilesTyped, Planned
<1>8. Again' /\ Held'
  BY <1>1, <1>4, CellIs DEF Again, Held
<1>9. Recalled' /\ NoneLost
  BY <1>1, <1>2, <1>5, CellIs DEF FilesInv, Recalled, Unreadable, NoneLost, Known
<1> QED
  BY <1>7, <1>8, <1>9 DEF FilesInv

LEMMA SampleKeepsFiles ==
    ASSUME CellInv, FilesInv, RetrySampleFails \/ Exhausted \/ Publish
    PROVE  FilesInv' /\ NoneLost
<1>1. /\ phase = "sample" /\ queue' \subseteq queue
      /\ UNCHANGED <<mode, slots, shard, turn, rows, torn, verdict, successful>>
      /\ \/ phase' = "sample" /\ output' = output
         \/ /\ phase' = "done"
            /\ output' = [s \in Samples |-> IF s \in successful THEN "success" ELSE "failed"]
  BY DEF RetrySampleFails, Exhausted, Publish, NextSample, planVars, childVars, retryVars,
         resultVars
<1>2. /\ \A s \in Samples : rows[s] = None
      /\ \A s \in Samples : output[s] = "success" => s \in successful \/ Unreadable
  BY <1>1 DEF FilesInv, Held, Recalled
<1>3. FilesTyped' /\ Again'
  BY <1>1 DEF FilesInv, FilesTyped, Planned, Again
<1>4. Held' /\ Recalled'
  BY <1>1, <1>2, CellIs DEF Held, Recalled, Unreadable
<1>5. NoneLost
  BY <1>1, <1>2, CellIs DEF NoneLost, Known, GivenUp
<1> QED
  BY <1>3, <1>4, <1>5 DEF FilesInv

LEMMA AwaitSampleKeepsFiles ==
    ASSUME CellInv, FilesInv, AwaitSample
    PROVE  FilesInv' /\ NoneLost
<1>1. /\ phase = "await sample" /\ phase' = "sample" /\ rows' = NoRows
      /\ UNCHANGED <<mode, slots, shard, turn, verdict, output>>
      /\ queue' \subseteq queue /\ torn \subseteq torn'
      /\ \/ successful' = successful \cup {Min(queue)}
         \/ /\ successful' = successful
            /\ Solo \in torn' \/ rows[Min(queue)] # "success"
  BY DEF AwaitSample, NextSample, Collected, Cut, planVars
<1>2. \A s \in Samples : rows[s] = "success" => s = Min(queue)
  BY <1>1 DEF FilesInv, Held
<1>3. \A s \in Samples : output[s] = "success" => s \in successful \/ Unreadable
  BY <1>1 DEF FilesInv, Recalled
<1>4. FilesTyped' /\ Again'
  BY <1>1 DEF FilesInv, FilesTyped, Planned, Again, NoRows
<1>5. Held' /\ Recalled'
  BY <1>1, <1>3, CellIs DEF Held, Recalled, Unreadable
<1>6. ASSUME NEW s \in Samples, Known(s), ~Known(s)' PROVE GivenUp(s)
  <2>1. rows[s] = "success" /\ s \notin successful'
    BY <1>1, <1>6 DEF Known
  <2> QED
    BY <1>1, <1>2, <2>1 DEF GivenUp
<1> QED
  BY <1>4, <1>5, <1>6 DEF FilesInv, NoneLost

LEMMA EndingKeepsFiles ==
    ASSUME FilesInv, NEW c \in Children, Exit(c) \/ Crash(c)
    PROVE  FilesInv' /\ NoneLost
<1>1. /\ torn \subseteq torn'
      /\ UNCHANGED <<mode, phase, slots, shard, rows, verdict, turn, queue, successful, output>>
  BY DEF Exit, Crash, Cut, planVars, retryVars, resultVars
<1> QED
  BY <1>1 DEF FilesInv, FilesTyped, Again, Held, Vouched, Recalled, Unreadable, NoneLost, Known

LEMMA FilesKeep == ASSUME CellInv, FilesInv, [Next]_vars PROVE FilesInv' /\ NoneLost
<1>1. CASE UNCHANGED vars \/ Deadline
  <2>1. UNCHANGED <<mode, phase, slots, shard, rows, torn, verdict, turn, queue,
                    successful, output>>
    BY <1>1 DEF Deadline, vars, planVars, childVars, retryVars, resultVars
  <2> QED
    BY <2>1, FilesFramed DEF NoneLost, Known
<1>2. CASE Child
  <2>1. PICK c \in Children : Write(c) \/ Exit(c) \/ Crash(c)
    BY <1>2 DEF Child
  <2>2. CASE Write(c)
    <3>1. UNCHANGED <<successful, output>>
      BY <2>2 DEF Write, resultVars
    <3> QED
      BY <2>2, <3>1, WriteKeepsFiles DEF NoneLost, Known
  <2> QED
    BY <2>1, <2>2, EndingKeepsFiles
<1>3. CASE Orchestrate
  BY <1>3, PlanKeepsFiles, SpawnKeepsFiles, FailuresKeepFiles, AwaitSingleKeepsFiles,
     AwaitShardsKeepsFiles, RoundsKeepFiles, RetryShardKeepsFiles, AwaitShardKeepsFiles,
     MergeKeepsFiles, ReconcileKeepsFiles, RetrySampleKeepsFiles, SampleKeepsFiles,
     AwaitSampleKeepsFiles DEF Orchestrate
<1> QED
  BY <1>1, <1>2, <1>3 DEF Next

\* A success row that the orchestrator may still take up, from the file of a
\* child, from the output file or from memory, is lost in no way but those that
\* GivenUp names (_run_data_parallel_cell, _retry_unresolved_samples,
\* _rewrite_safe_cell_output).
THEOREM NoResultLost == ChildrenSpec => ResultsKept
<1>1. ChildrenInit => FilesInv
  BY FilesInitInv DEF ChildrenInit
<1>2. CellInv /\ FilesInv /\ [ChildrenNext]_allVars => FilesInv' /\ [NoneLost]_vars
  <2> SUFFICES ASSUME CellInv, FilesInv, [ChildrenNext]_allVars
               PROVE  FilesInv' /\ [NoneLost]_vars
    OBVIOUS
  <2>1. [Next]_vars
    BY DEF ChildrenNext, CellStep, allVars
  <2> QED
    BY <2>1, FilesKeep
<1>3. ChildrenSpec => [][NoneLost]_vars
  BY <1>1, <1>2, ChildrenInitCell, ChildrenKeepCell, PTL DEF ChildrenSpec
<1> QED
  BY <1>3 DEF ResultsKept, NoneLost

----------------------------------------------------------------------------
\* A child from inside.

Serving == {"popen", "forked", "starting", "requests", "stopping"}

ServedTyped ==
    /\ runner \in {"wait", "grace", "returned"}
    /\ adapter \in Serving \cup {"outside", "unwinding", "ended"}
    /\ deferred \in BOOLEAN /\ leaving \in BOOLEAN /\ lost \in BOOLEAN
    /\ waited \in 0 .. TermWait /\ elapsed \in Nat

\* There is a server only where the adapter knows that it has to stop one.
Stopped == adapter \in {"outside", "popen", "unwinding", "ended"} /\ ~lost => server = {}

\* An adapter that was sent a SIGTERM only goes on to stop its server and end;
\* the runner's clock has not run longer than that of the stop.
OnItsWay ==
    runner = "grace" =>
        /\ adapter \notin {"outside", "starting", "requests"}
        /\ adapter \in {"popen", "forked"} => deferred /\ elapsed = 0
        /\ adapter = "stopping" => leaving /\ elapsed = waited

Gone == runner = "returned" => adapter = "ended"

\* An adapter that was killed by somebody else is not alive.
Killed == lost => adapter = "ended"

ServedInv == ServedTyped /\ Stopped /\ OnItsWay /\ Gone /\ Killed

LEMMA Waits == 0 \in 0 .. TermWait /\ 0 \in Nat /\ TermWait < Grace /\ TermWait \in Nat
BY GraceAssumption

LEMMA ServedInitInv == ServedInit => ServedInv
BY Waits DEF ServedInit, ServedInv, ServedTyped, Stopped, OnItsWay, Gone, Killed, Serving

\* What happens before the server is asked to stop, and after it has.
LEMMA PhaseKeeps ==
    ASSUME ServedInv,
           \/ EnterPhase \/ Fork \/ PopenRaises \/ PopenReturns \/ WaitReady
           \/ RequestsEnd \/ Unwound \/ WriteRows \/ ServerMoves \/ Lose \/ ChildEnded
    PROVE  ServedInv'
<1> USE DEF ServedInv, ServedTyped, Stopped, OnItsWay, Gone, Killed, Serving, AdapterAt
<1>1. CASE EnterPhase
  BY <1>1 DEF EnterPhase
<1>2. CASE Fork
  BY <1>2 DEF Fork
<1>3. CASE PopenRaises
  BY <1>3 DEF PopenRaises
<1>4. CASE PopenReturns
  BY Waits, <1>4 DEF PopenReturns, StopServer
<1>5. CASE WaitReady
  BY Waits, <1>5 DEF WaitReady, StopServer
<1>6. CASE RequestsEnd
  BY Waits, <1>6 DEF RequestsEnd, StopServer
<1>7. CASE Unwound
  BY <1>7 DEF Unwound
<1>8. CASE WriteRows
  BY <1>8 DEF WriteRows
<1>9. CASE ServerMoves
  BY <1>9 DEF ServerMoves
<1>10. CASE Lose
  BY <1>10 DEF Lose
<1>11. CASE ChildEnded
  BY <1>11 DEF ChildEnded
<1> QED
  BY <1>1, <1>2, <1>3, <1>4, <1>5, <1>6, <1>7, <1>8, <1>9, <1>10, <1>11

LEMMA ServerStoppedKeeps == ASSUME ServedInv, ServerStopped PROVE ServedInv'
BY Waits
   DEF ServerStopped, AdapterAt, ServedInv, ServedTyped, Stopped, OnItsWay, Gone, Killed, Serving

\* The SIGTERM finds no server, is noted, or begins a stop with both clocks at 0.
LEMMA TimeUpKeeps == ASSUME ServedInv, TimeUp PROVE ServedInv'
BY Waits
   DEF TimeUp, Terminated, StopServer, AdapterAt, ServedInv, ServedTyped, Stopped, OnItsWay, Gone, Killed,
       Serving

LEMMA TickKeeps == ASSUME ServedInv, Tick PROVE ServedInv'
<1> USE DEF ServedInv, ServedTyped, Stopped, OnItsWay, Gone, Killed, Serving
<1>1. elapsed' \in Nat
  BY DEF Tick
<1>2. CASE adapter = "stopping"
  <2>1. waited' = waited + 1 /\ waited' \in 0 .. TermWait
    BY <1>2, GraceAssumption DEF Tick
  <2> QED
    BY <1>1, <1>2, <2>1 DEF Tick
<1>3. CASE adapter = "unwinding"
  BY <1>1, <1>3 DEF Tick
<1> QED
  BY <1>2, <1>3 DEF Tick

\* The SIGKILL finds an adapter whose server is gone: the stop would have come
\* to its own SIGKILL before.
LEMMA KillChildKeeps == ASSUME ServedInv, KillChild PROVE ServedInv'
<1> USE DEF ServedInv, ServedTyped, Stopped, OnItsWay, Gone, Killed, Serving
<1>1. adapter = "unwinding"
  BY GraceAssumption DEF KillChild
<1> QED
  BY <1>1 DEF KillChild, AdapterAt

\* When the runner goes on after a child that nobody else has killed, no process
\* of its server is left (run_longbench_200.py:669-671), whatever the adapter
\* was at when the SIGTERM came and whether or not the server obeys its own.
THEOREM ServerGone == ChildrenSpec => []NothingLeft
<1>1. ServedInv /\ [ServedNext]_servedVars => ServedInv'
  <2> SUFFICES ASSUME ServedInv, [ServedNext]_servedVars PROVE ServedInv'
    OBVIOUS
  <2>1. CASE ServerStopped
    BY <2>1, ServerStoppedKeeps
  <2>2. CASE TimeUp
    BY <2>2, TimeUpKeeps
  <2>3. CASE Tick
    BY <2>3, TickKeeps
  <2>4. CASE KillChild
    BY <2>4, KillChildKeeps
  <2>5. CASE UNCHANGED servedVars
    BY <2>5 DEF servedVars, ServedInv, ServedTyped, Stopped, OnItsWay, Gone, Killed
  <2> QED
    BY <2>1, <2>2, <2>3, <2>4, <2>5, PhaseKeeps DEF ServedNext
<1>2. ChildrenInit => ServedInv
  BY ServedInitInv DEF ChildrenInit
<1>3. ServedInv /\ [ChildrenNext]_allVars => ServedInv'
  <2>1. [ChildrenNext]_allVars => [ServedNext]_servedVars
    BY DEF ChildrenNext, CellStep, allVars
  <2> QED
    BY <1>1, <2>1
<1>4. ServedInv => NothingLeft
  BY DEF ServedInv, Stopped, Gone, NothingLeft
<1> QED
  BY <1>2, <1>3, <1>4, PTL DEF ChildrenSpec
=============================================================================
