----------------------- MODULE WindowGenerationProofs -----------------------
(***************************************************************************)
(* For every range of sizes, number of ranks, servers and requests: the    *)
(* search for a batch size ends with the largest that fits, the ranks      *)
(* agree on one that fits them all, and no permit of a server is lost.     *)
(***************************************************************************)
EXTENDS WindowGeneration, SequenceTheorems, FiniteSetTheorems, WellFoundedInduction, TLAPS

\* Max and Min are what they choose.
LEMMA MaxIs ==
    ASSUME NEW S \in SUBSET Int, NEW m \in S, \A n \in S : n <= m
    PROVE  Max(S) = m
<1>1. m >= Max(S) /\ Max(S) >= m /\ Max(S) \in Int
  <2>1. \E x \in S : \A y \in S : x >= y
    OBVIOUS
  <2>2. Max(S) \in S /\ \A y \in S : Max(S) >= y
    BY <2>1 DEF Max
  <2> QED
    BY <2>2
<1> QED
  BY <1>1

LEMMA MinOfNats ==
    ASSUME NEW S \in SUBSET Nat, S # {}
    PROVE  Min(S) \in S /\ \A n \in S : Min(S) <= n
<1> DEFINE Less == OpToRel(<, Nat)
<1>1. IsWellFoundedOn(Less, Nat)
  BY NatLessThanWellFounded
<1>2. \A i, j \in Nat : i < j => <<i, j>> \in Less
  BY DEF OpToRel
<1> HIDE DEF Less
<1>3. PICK m \in S : \A n \in S : <<n, m>> \notin Less
  BY <1>1, WFMin
<1>4. \A n \in S : m <= n
  <2> SUFFICES ASSUME NEW n \in S PROVE m <= n
    OBVIOUS
  <2>1. m \in Nat /\ n \in Nat /\ ~(n < m)
    BY <1>2, <1>3
  <2> QED
    BY <2>1
<1> QED
  BY <1>4 DEF Min

----------------------------------------------------------------------------
\* The search.

SearchTyped ==
    /\ fits \in [Ranks -> SUBSET Sizes] /\ tried \in [Ranks -> SUBSET Int]
    /\ search \in [Ranks -> {"minimum", "failed", "double", "middle", "selected"}]
    /\ best \in [Ranks -> Int] /\ candidate \in [Ranks -> Int]
    /\ low \in [Ranks -> Int] /\ high \in [Ranks -> Int]

\* What has fitted, and what cannot fit if a larger batch never fits where a
\* smaller one does not.
SearchOf(r) ==
    /\ search[r] \in {"double", "middle", "selected"} => best[r] \in fits[r] \cap tried[r]
    /\ search[r] = "double" => candidate[r] > best[r]
    /\ search[r] = "middle" =>
           /\ low[r] = best[r] + 1 /\ high[r] <= Maximum
           /\ Monotone(r) => \A n \in fits[r] : n <= high[r]
    /\ search[r] = "selected" /\ Monotone(r) => \A n \in fits[r] : n <= best[r]

SearchInv == SearchTyped /\ \A r \in Ranks : SearchOf(r)

LEMMA SizesAre ==
    /\ \A n \in Sizes : n \in Nat \ {0} /\ MinBatch <= n /\ n <= Maximum
    /\ MinBatch \in Sizes /\ MinBatch \in Nat \ {0} /\ Maximum \in Nat
    /\ \A n \in Int : MinBatch <= n /\ n <= Maximum => n \in Sizes
BY SizesAssumption DEF Sizes

LEMMA SearchInitInv == ASSUME SearchInit PROVE SearchInv
BY DEF SearchInit, SearchInv, SearchTyped, SearchOf

\* A step of one rank's search leaves the others alone.
LEMMA OthersSearch ==
    ASSUME SearchInv, NEW r \in Ranks, Search(r), NEW s \in Ranks, s # r
    PROVE  SearchOf(s)'
BY DEF SearchInv, SearchTyped, SearchOf, Monotone, Search, ProbeMinimum, ProbeDouble,
       ProbeMiddle, Narrow, Enter, Tried

LEMMA ProbeMinimumKeeps ==
    ASSUME SearchInv, NEW r \in Ranks, ProbeMinimum(r)
    PROVE  SearchTyped' /\ SearchOf(r)'
BY SizesAre DEF SearchInv, SearchTyped, SearchOf, Monotone, ProbeMinimum, Enter, Tried

LEMMA ProbeDoubleKeeps ==
    ASSUME SearchInv, NEW r \in Ranks, ProbeDouble(r)
    PROVE  SearchTyped' /\ SearchOf(r)'
<1> USE DEF SearchInv, SearchTyped, SearchOf, Enter, Tried, Narrow
<1>1. best[r] \in fits[r] \cap tried[r] /\ best[r] \in Sizes /\ candidate[r] > best[r]
  BY DEF ProbeDouble
<1>2. CASE candidate[r] > Maximum
  <2>1. \A n \in fits[r] : n <= Maximum
    BY SizesAre
  <2>2. SearchTyped'
    BY <1>2, SizesAre DEF ProbeDouble
  <2> QED
    BY <1>1, <1>2, <2>1, <2>2, SizesAre DEF ProbeDouble, Monotone
<1>3. CASE candidate[r] <= Maximum /\ candidate[r] \in fits[r]
  BY <1>1, <1>3, SizesAre DEF ProbeDouble
<1>4. CASE candidate[r] <= Maximum /\ candidate[r] \notin fits[r]
  <2>1. candidate[r] \in Sizes
    BY <1>1, <1>4, SizesAre
  <2>2. Monotone(r) => \A n \in fits[r] : n <= candidate[r] - 1
    BY <1>4, <2>1, SizesAre DEF Monotone
  <2>3. SearchTyped'
    BY <1>4, <2>1, SizesAre DEF ProbeDouble
  <2> QED
    BY <1>1, <1>4, <2>1, <2>2, <2>3, SizesAre DEF ProbeDouble, Monotone
<1> QED
  BY <1>2, <1>3, <1>4, SizesAre

LEMMA ProbeMiddleKeeps ==
    ASSUME SearchInv, NEW r \in Ranks, ProbeMiddle(r)
    PROVE  SearchTyped' /\ SearchOf(r)'
<1> USE DEF SearchInv, SearchTyped, SearchOf, Enter, Tried
<1> DEFINE middle == (low[r] + high[r]) \div 2
<1>1. /\ best[r] \in fits[r] \cap tried[r] /\ best[r] \in Sizes
      /\ low[r] = best[r] + 1 /\ high[r] <= Maximum /\ high[r] \in Int
      /\ Monotone(r) => \A n \in fits[r] : n <= high[r]
  BY DEF ProbeMiddle
<1>2. CASE low[r] > high[r]
  <2>1. Monotone(r) => \A n \in fits[r] : n <= best[r]
    BY <1>1, <1>2, SizesAre
  <2> QED
    BY <1>1, <1>2, <2>1, SizesAre DEF ProbeMiddle, Monotone
<1>3. CASE ~(low[r] > high[r])
  <2>1. middle \in Int /\ low[r] <= middle /\ middle <= high[r]
    BY <1>1, <1>3, SizesAre
  <2>2. middle \in Sizes
    BY <1>1, <2>1, SizesAre
  <2>3. Monotone(r) /\ middle \notin fits[r] => \A n \in fits[r] : n <= middle - 1
    BY <2>2, SizesAre DEF Monotone
  <2> HIDE DEF middle
  <2>4. /\ search' = search /\ UNCHANGED <<fits, candidate>>
        /\ tried' = [tried EXCEPT ![r] = @ \cup {middle}]
        /\ IF middle \in fits[r]
           THEN /\ best' = [best EXCEPT ![r] = middle]
                /\ low' = [low EXCEPT ![r] = middle + 1] /\ UNCHANGED high
           ELSE high' = [high EXCEPT ![r] = middle - 1] /\ UNCHANGED <<best, low>>
    BY <1>3 DEF ProbeMiddle, middle
  <2>5. search[r] = "middle"
    BY DEF ProbeMiddle
  <2> QED
    BY <1>1, <2>1, <2>2, <2>3, <2>4, <2>5, SizesAre DEF Monotone
<1> QED
  BY <1>2, <1>3

LEMMA SearchKeeps == ASSUME SearchInv, NEW r \in Ranks, Search(r) PROVE SearchInv'
<1>1. SearchTyped' /\ SearchOf(r)'
  BY ProbeMinimumKeeps, ProbeDoubleKeeps, ProbeMiddleKeeps DEF Search
<1>2. \A s \in Ranks : SearchOf(s)'
  BY <1>1, OthersSearch
<1> QED
  BY <1>1, <1>2 DEF SearchInv

\* A search that has selected a size is over.
LEMMA SelectedIsLast ==
    ASSUME NEW r \in Ranks, Search(r)
    PROVE  search[r] \notin {"selected", "failed"}
BY DEF Search, ProbeMinimum, ProbeDouble, ProbeMiddle

----------------------------------------------------------------------------
\* The agreement.

\* The ranks agree when all have selected, on the least of their sizes.
Agreed ==
    agreed # 0 =>
        /\ user = "train" /\ AllSelected
        /\ agreed \in {best[r] : r \in Ranks}
        /\ \A r \in Ranks : agreed <= best[r]

Sized == SearchInv /\ Agreed

LEMMA InitSized == Init => Sized
BY SearchInitInv DEF Init, Sized, Agreed

LEMMA AgreeKeeps == ASSUME Sized, Agree PROVE Agreed'
<1>1. \A r \in Ranks : best[r] \in Nat
  BY SizesAre DEF Agree, Sized, SearchInv, SearchTyped, SearchOf, AllSelected
<1>2. {best[r] : r \in Ranks} \in SUBSET Nat /\ {best[r] : r \in Ranks} # {}
  <2>1. 0 \in Ranks
    BY SizesAssumption DEF Ranks
  <2> QED
    BY <1>1, <2>1
<1>3. /\ agreed' \in {best[r] : r \in Ranks}
      /\ \A n \in {best[r] : r \in Ranks} : agreed' <= n
  BY <1>2, MinOfNats DEF Agree, Agreement
<1> QED
  BY <1>3 DEF Agree, Agreed, AllSelected, searching, searchVars

LEMMA SizedKeeps == ASSUME Sized, [Next]_vars PROVE Sized'
<1>1. CASE Tune
  <2>1. PICK r \in Ranks : Search(r)
    BY <1>1 DEF Tune
  <2>2. search[r] # "selected"
    BY <2>1, SelectedIsLast
  <2>3. agreed = 0
    BY <2>2 DEF Sized, Agreed, AllSelected
  <2> QED
    BY <1>1, <2>1, <2>3, SearchKeeps DEF Sized, Agreed, Tune
<1>2. CASE Agree
  <2>1. SearchInv'
    BY <1>2 DEF Agree, Sized, SearchInv, SearchTyped, SearchOf, Monotone, searching, searchVars
  <2> QED
    BY <1>2, <2>1, AgreeKeeps DEF Sized
<1>3. CASE Generate
  <2>1. agreed = 0 /\ agreed' = 0
    BY <1>3 DEF Generate, Sized, Agreed
  <2>2. CASE Search(0)
    BY <2>1, <2>2, SearchKeeps, SizesAssumption DEF Sized, Agreed, Ranks
  <2>3. CASE UNCHANGED searching
    BY <2>1, <2>3
       DEF Sized, Agreed, SearchInv, SearchTyped, SearchOf, Monotone, searching, searchVars
  <2> QED
    BY <1>3, <2>2, <2>3 DEF Generate
<1>4. CASE Request \/ Prepare \/ UNCHANGED vars
  BY <1>4
     DEF Request, Prepare, vars, Sized, Agreed, AllSelected, SearchInv, SearchTyped, SearchOf, Monotone,
         searching, searchVars
<1> QED
  BY <1>1, <1>2, <1>3, <1>4 DEF Next

LEMMA SizedIsFit == Sized => SizesFit
<1> SUFFICES ASSUME Sized PROVE SizesFit
  OBVIOUS
<1>1. ASSUME NEW r \in Ranks, search[r] = "selected"
      PROVE  /\ best[r] \in fits[r] \cap tried[r] /\ best[r] \in Sizes
             /\ fits[r] \in SUBSET Int
             /\ Monotone(r) => \A n \in fits[r] : n <= best[r]
  <2>1. fits[r] \in SUBSET Sizes /\ SearchOf(r)
    BY DEF Sized, SearchInv, SearchTyped
  <2>2. Sizes \in SUBSET Int
    BY SizesAre
  <2> QED
    BY <1>1, <2>1, <2>2 DEF SearchOf
<1>2. ASSUME NEW r \in Ranks, search[r] = "selected", Monotone(r)
      PROVE  best[r] = Max(fits[r])
  <2>1. best[r] \in fits[r] /\ fits[r] \in SUBSET Int /\ \A n \in fits[r] : n <= best[r]
    BY <1>1, <1>2
  <2> QED
    BY <2>1, MaxIs
<1>3. LargestFit
  BY <1>1, <1>2 DEF LargestFit
<1>4. ASSUME agreed # 0, \A r \in Ranks : Monotone(r)
      PROVE  agreed = Max({n \in Sizes : \A r \in Ranks : n \in fits[r]})
  <2> DEFINE Common == {n \in Sizes : \A r \in Ranks : n \in fits[r]}
  <2>1. AllSelected /\ \A r \in Ranks : agreed <= best[r]
    BY <1>4 DEF Sized, Agreed
  <2>2. PICK least \in Ranks : agreed = best[least]
    BY <1>4 DEF Sized, Agreed
  <2>3. agreed \in Sizes /\ agreed \in Int
    BY <1>1, <2>1, <2>2, SizesAre DEF AllSelected
  <2>4. ASSUME NEW r \in Ranks PROVE agreed \in fits[r]
    <3>1. best[r] \in fits[r] /\ best[r] \in Sizes /\ best[r] \in Int
      BY <1>1, <2>1, SizesAre DEF AllSelected
    <3>2. agreed = best[r] \/ agreed < best[r]
      BY <2>1, <2>3, <3>1
    <3> QED
      BY <1>4, <2>3, <3>1, <3>2 DEF Monotone
  <2>5. \A n \in Common : n <= agreed
    <3>1. \A n \in fits[least] : n <= best[least]
      BY <1>1, <1>4, <2>1 DEF AllSelected
    <3> QED
      BY <2>2, <3>1
  <2>6. agreed \in Common /\ Common \in SUBSET Int
    <3>1. Sizes \in SUBSET Int
      BY SizesAre
    <3> QED
      BY <2>3, <2>4, <3>1
  <2> HIDE DEF Common
  <2>7. Max(Common) = agreed
    BY <2>5, <2>6, MaxIs
  <2> QED
    BY <2>7 DEF Common
<1> QED
  BY <1>3, <1>4 DEF SizesFit

\* A search ends with a size that was probed and fits, the largest one if what
\* fits a GPU is all that is small enough; and the size the ranks of a training
\* job agree on (adaptive_batch.py:262) fits each of them and is the largest
\* that does, for every range of sizes and number of ranks.
THEOREM LargestSizes == Spec => []SizesFit
<1>1. Sized /\ [Next]_vars => Sized'
  BY SizedKeeps
<1> QED
  BY InitSized, <1>1, SizedIsFit, PTL DEF Spec

----------------------------------------------------------------------------
\* The permits.

\* The requests that are at endpoint e.
At(e) == {i \in Indices : request[i] = "posted" /\ Endpoint(i) = e}

PoolTyped ==
    /\ request \in [Indices -> {"queued", "waiting", "posted", "answered", "failed"}]
    /\ attempt \in [Indices -> Nat]
    /\ taken \in [Urls -> Int]

Held == \A e \in Urls : taken[e] = Cardinality(At(e)) /\ taken[e] <= Concurrency

PoolInv == PoolTyped /\ Held

LEMMA FiniteAt == \A e : IsFiniteSet(At(e))
<1>1. IsFiniteSet(Indices)
  BY FS_Interval, PoolAssumption DEF Indices
<1> QED
  BY <1>1, FS_Subset DEF At

LEMMA Empty == Cardinality({}) = 0
BY FS_EmptySet

LEMMA PoolInitInv == ASSUME PoolInit PROVE PoolInv
<1>1. PoolTyped
  BY DEF PoolInit, PoolTyped
<1>2. \A e : At(e) = {}
  BY DEF PoolInit, At
<1> QED
  BY <1>1, <1>2, Empty, PoolAssumption DEF PoolInit, PoolInv, Held

LEMMA BeginKeeps == ASSUME PoolInv, NEW i \in Indices, Begin(i) PROVE PoolInv'
<1>1. PoolTyped'
  BY DEF PoolInv, PoolTyped, Begin, Becomes
<1>2. \A e : At(e)' = At(e)
  BY DEF PoolInv, PoolTyped, Begin, Becomes, Queued, At, Endpoint
<1> QED
  BY <1>1, <1>2 DEF PoolInv, Held, Begin

LEMMA AcquireKeeps == ASSUME PoolInv, NEW i \in Indices, Acquire(i) PROVE PoolInv'
<1>1. PoolTyped'
  <2>1. taken' \in [Urls -> Int]
    <3>1. taken \in [Urls -> Int]
      BY DEF PoolInv, PoolTyped
    <3>2. taken' = [taken EXCEPT ![Endpoint(i)] = @ + 1]
      BY DEF Acquire
    <3>3. CASE Endpoint(i) \in Urls
      <4>1. taken[Endpoint(i)] + 1 \in Int
        BY <3>1, <3>3
      <4> QED
        BY <3>1, <3>2, <4>1
    <3>4. CASE Endpoint(i) \notin Urls
      BY <3>1, <3>2, <3>4
    <3> QED
      BY <3>3, <3>4
  <2> QED
    BY <2>1 DEF PoolInv, PoolTyped, Acquire, Becomes
<1>2. ASSUME NEW e \in Urls
      PROVE  taken'[e] = Cardinality(At(e)') /\ taken'[e] <= Concurrency
  <2>1. taken[e] = Cardinality(At(e)) /\ taken[e] <= Concurrency /\ taken[e] \in Int
    BY DEF PoolInv, PoolTyped, Held
  <2>2. CASE e = Endpoint(i)
    <3>1. At(e)' = At(e) \cup {i} /\ i \notin At(e)
      BY <2>2 DEF PoolInv, PoolTyped, Acquire, Becomes, At, Endpoint
    <3>2. Cardinality(At(e)') = Cardinality(At(e)) + 1
      BY <3>1, FiniteAt, FS_AddElement
    <3>3. taken'[e] = taken[e] + 1 /\ taken[e] < Concurrency
      BY <2>2 DEF PoolInv, PoolTyped, Acquire
    <3> QED
      BY <2>1, <3>2, <3>3, PoolAssumption
  <2>3. CASE e # Endpoint(i)
    <3>1. At(e)' = At(e)
      BY <2>3 DEF PoolInv, PoolTyped, Acquire, Becomes, At, Endpoint
    <3>2. taken'[e] = taken[e]
      BY <2>3 DEF PoolInv, PoolTyped, Acquire
    <3> QED
      BY <2>1, <3>1, <3>2
  <2> QED
    BY <2>2, <2>3
<1> QED
  BY <1>1, <1>2 DEF PoolInv, Held

\* An answer and an error take the request from its endpoint and give the
\* permit back.
LEMMA LeaveKeeps ==
    ASSUME PoolInv, NEW i \in Indices, Answer(i) \/ Error(i)
    PROVE  PoolInv'
<1>1. PoolTyped'
  BY DEF PoolInv, PoolTyped, Answer, Error, Released, Becomes
<1>2. /\ request[i] = "posted" /\ request'[i] # "posted"
      /\ \A j \in Indices \ {i} :
             request'[j] = request[j] /\ attempt'[j] = attempt[j]
      /\ serving' = serving
      /\ taken' = [taken EXCEPT ![Endpoint(i)] = @ - 1]
  BY DEF PoolInv, PoolTyped, Answer, Error, Released, Becomes
<1>3. ASSUME NEW e \in Urls
      PROVE  taken'[e] = Cardinality(At(e)') /\ taken'[e] <= Concurrency
  <2>1. taken[e] = Cardinality(At(e)) /\ taken[e] <= Concurrency /\ taken[e] \in Int
    BY DEF PoolInv, PoolTyped, Held
  <2>2. At(e)' = At(e) \ {i}
    BY <1>2 DEF At, Endpoint
  <2>3. Cardinality(At(e)') = IF i \in At(e) THEN Cardinality(At(e)) - 1 ELSE Cardinality(At(e))
    BY <2>2, FiniteAt, FS_RemoveElement
  <2>4. i \in At(e) <=> Endpoint(i) = e
    BY <1>2 DEF At
  <2>5. taken'[e] = IF Endpoint(i) = e THEN taken[e] - 1 ELSE taken[e]
    BY <1>2 DEF PoolInv, PoolTyped
  <2> QED
    BY <2>1, <2>3, <2>4, <2>5, PoolAssumption
<1> QED
  BY <1>1, <1>3 DEF PoolInv, Held

LEMMA CollectKeeps == ASSUME PoolInv, Collect PROVE PoolInv'
<1>1. PoolTyped'
  BY DEF PoolInv, PoolTyped, Collect
<1>2. \A e : At(e) = {} /\ At(e)' = {}
  BY DEF Collect, Active, At
<1> QED
  BY <1>1, <1>2 DEF PoolInv, Held, Collect

\* A permit is held for each request that is posted, and for nothing else, and
\* no endpoint has more requests than it takes at a time (the semaphore in
\* server_pool.py), for every number of requests, endpoints, permits and
\* attempts, whatever fails.
THEOREM PermitsHeld == Spec => []PermitsExact
<1>1. Init => PoolInv
  BY PoolInitInv DEF Init
<1>2. PoolInv /\ [Next]_vars => PoolInv'
  <2> SUFFICES ASSUME PoolInv, [Next]_vars PROVE PoolInv'
    OBVIOUS
  <2>1. CASE UNCHANGED poolVars
    BY <2>1 DEF poolVars, PoolInv, PoolTyped, Held, At, Endpoint
  <2>2. CASE Request
    BY <2>2, BeginKeeps, AcquireKeeps, LeaveKeeps, CollectKeeps DEF Request, Serve
  <2> QED
    BY <2>1, <2>2 DEF Next, vars, Tune, Agree, Generate, Prepare
<1>3. PoolInv => PermitsExact
  BY DEF PoolInv, Held, At, PermitsExact
<1> QED
  BY <1>1, <1>2, <1>3, PTL DEF Spec

----------------------------------------------------------------------------
\* Division with remainder.

LEMMA Remainder ==
    ASSUME NEW e \in Nat, e > 0, NEW q \in Nat, NEW r \in 0 .. e - 1
    PROVE  (e * q + r) % e = r
OBVIOUS

LEMMA Division ==
    ASSUME NEW a \in Nat, NEW e \in Nat, e > 0
    PROVE  \E q \in Nat, r \in 0 .. e - 1 : a = e * q + r
<1>1. PICK q \in Int : q = a \div e
  OBVIOUS
<1>2. PICK r \in 0 .. e - 1 : r = a % e
  OBVIOUS
<1>3. a = e * q + r
  BY <1>1, <1>2
<1>4. q >= 0
  BY <1>1
<1> QED
  BY <1>3, <1>4

\* Counting on from b, every remainder is met within e numbers.
LEMMA Reached ==
    ASSUME NEW e \in Nat, e > 0, NEW b \in Nat, NEW t \in 0 .. e - 1
    PROVE  \E k \in 0 .. e - 1 : (b + k) % e = t
<1>1. PICK q \in Nat, m \in 0 .. e - 1 : b = e * q + m
  BY Division
<1>2. CASE m <= t
  <2>1. t - m \in 0 .. e - 1 /\ b + (t - m) = e * q + t
    BY <1>1, <1>2
  <2> QED
    BY <2>1, Remainder
<1>3. CASE m > t
  <2>1. t - m + e \in 0 .. e - 1 /\ b + (t - m + e) = e * (q + 1) + t /\ q + 1 \in Nat
    BY <1>1, <1>3
  <2> QED
    BY <2>1, Remainder
<1> QED
  BY <1>2, <1>3

----------------------------------------------------------------------------
\* The answers.

\* The first endpoint of a request.
Start(i) == IF serving = "single" THEN 0 ELSE i

\* The endpoints of the attempts before the k-th are all down.
DownBefore(i, k) == \A m \in 0 .. k - 1 : (Start(i) + m) % Endpoints \notin up

Reachable == glitches = 0 /\ up # {} /\ MaxRetries + 1 >= Endpoints

\* Without a post that fails for once, a request that is not bad is tried again
\* only because its endpoint is down, and its attempts go round the endpoints.
LossOf(i) ==
    /\ attempt[i] <= MaxRetries
    /\ request[i] = "answered" => i \notin bad
    /\ Reachable /\ request[i] = "failed" => i \in bad
    /\ serving = "served" => request[i] \in {"answered", "failed"}
    /\ glitches = 0 /\ i \notin bad /\ request[i] \in {"waiting", "posted"} =>
           DownBefore(i, attempt[i])
    /\ request[i] = "queued" => attempt[i] = 0

LossInv ==
    /\ PoolTyped
    /\ up \in SUBSET Urls /\ serving \in {"many", "single", "served"} /\ glitches \in Nat
    /\ \A i \in Indices : LossOf(i)

LEMMA StartIs == \A i \in Indices : Start(i) \in Nat /\ Endpoint(i) = (Start(i) + attempt[i]) % Endpoints
BY DEF Indices, Start, Endpoint

\* The attempts of a request reach every endpoint.
LEMMA AllTried ==
    ASSUME NEW i \in Indices, NEW k \in Nat, k >= Endpoints, DownBefore(i, k),
           up \in SUBSET Urls
    PROVE  up = {}
<1> SUFFICES ASSUME NEW e \in up PROVE FALSE
  OBVIOUS
<1>1. e \in 0 .. Endpoints - 1 /\ Start(i) \in Nat /\ Endpoints \in Nat /\ Endpoints > 0
  BY StartIs, PoolAssumption DEF Urls
<1>2. PICK m \in 0 .. Endpoints - 1 : (Start(i) + m) % Endpoints = e
  BY <1>1, Reached
<1>3. m \in 0 .. k - 1
  BY <1>1
<1> QED
  BY <1>2, <1>3 DEF DownBefore

LEMMA LossInitInv == ASSUME PoolInit PROVE LossInv
BY PoolInitInv, PoolAssumption DEF PoolInit, LossInv, LossOf, PoolInv

\* A step of one request leaves the others alone.
LEMMA OthersLoss ==
    ASSUME LossInv, NEW i \in Indices, NEW j \in Indices, j # i,
           Begin(i) \/ Acquire(i) \/ Answer(i) \/ Error(i)
    PROVE  LossOf(j)'
<1>1. /\ request'[j] = request[j] /\ attempt'[j] = attempt[j]
      /\ UNCHANGED <<up, bad, serving>> /\ glitches \in Nat
      /\ glitches' = glitches \/ glitches' = glitches + 1
  BY DEF LossInv, PoolTyped, Begin, Acquire, Answer, Error, Refused, Becomes
<1>2. glitches' = 0 => glitches = 0
  BY <1>1
<1> QED
  BY <1>1, <1>2 DEF LossInv, LossOf, Reachable, DownBefore, Start

LEMMA BeginLoss == ASSUME LossInv, NEW i \in Indices, Begin(i) PROVE LossOf(i)'
<1>1. /\ request[i] = "queued" /\ request'[i] = "waiting"
      /\ UNCHANGED <<up, bad, serving, attempt, glitches>>
  BY DEF LossInv, PoolTyped, Begin, Becomes, Queued
<1> QED
  BY <1>1 DEF LossInv, LossOf, Reachable, DownBefore, Start

LEMMA AcquireLoss == ASSUME LossInv, NEW i \in Indices, Acquire(i) PROVE LossOf(i)'
<1>1. /\ request[i] = "waiting" /\ request'[i] = "posted"
      /\ UNCHANGED <<up, bad, serving, attempt, glitches>>
  BY DEF LossInv, PoolTyped, Acquire, Becomes
<1> QED
  BY <1>1 DEF LossInv, LossOf, Reachable, DownBefore, Start

LEMMA AnswerLoss == ASSUME LossInv, NEW i \in Indices, Answer(i) PROVE LossOf(i)'
<1>1. /\ request[i] = "posted" /\ request'[i] = "answered" /\ i \notin bad
      /\ UNCHANGED <<up, bad, serving, attempt, glitches>>
  BY DEF LossInv, PoolTyped, Answer, Becomes
<1> QED
  BY <1>1 DEF LossInv, LossOf

LEMMA ErrorLoss == ASSUME LossInv, NEW i \in Indices, Error(i) PROVE LossOf(i)'
<1>1. /\ request[i] = "posted" /\ serving # "served" /\ UNCHANGED <<up, bad, serving>>
      /\ IF attempt[i] < MaxRetries
         THEN attempt'[i] = attempt[i] + 1 /\ request'[i] = "waiting"
         ELSE attempt'[i] = attempt[i] /\ request'[i] = "failed"
      /\ glitches' = 0 => glitches = 0 /\ (Endpoint(i) \notin up \/ i \in bad)
  BY DEF LossInv, LossOf, PoolTyped, Error, Refused, Becomes
<1>2. attempt[i] \in Nat /\ attempt[i] <= MaxRetries /\ MaxRetries \in Nat /\ up \in SUBSET Urls
  BY PoolAssumption DEF LossInv, LossOf, PoolTyped
<1>3. ASSUME glitches' = 0, i \notin bad PROVE DownBefore(i, attempt[i] + 1)
  <2>1. DownBefore(i, attempt[i]) /\ Endpoint(i) \notin up
    BY <1>1, <1>3 DEF LossInv, LossOf
  <2>2. ASSUME NEW m \in 0 .. (attempt[i] + 1) - 1
        PROVE  (Start(i) + m) % Endpoints \notin up
    <3>1. m = attempt[i] \/ m \in 0 .. attempt[i] - 1
      BY <1>2
    <3>2. CASE m = attempt[i]
      BY <2>1, <3>2, StartIs
    <3>3. CASE m \in 0 .. attempt[i] - 1
      BY <2>1, <3>3 DEF DownBefore
    <3> QED
      BY <3>1, <3>2, <3>3
  <2> QED
    BY <2>2 DEF DownBefore
<1>4. CASE attempt[i] < MaxRetries
  BY <1>1, <1>2, <1>3, <1>4 DEF LossOf, DownBefore, Start
<1>5. CASE ~(attempt[i] < MaxRetries)
  <2>1. attempt[i] + 1 \in Nat /\ attempt[i] = MaxRetries
    BY <1>2, <1>5
  <2>2. Reachable' => i \in bad
    <3> SUFFICES ASSUME Reachable', i \notin bad PROVE FALSE
      OBVIOUS
    <3>1. up # {} /\ attempt[i] + 1 >= Endpoints /\ glitches' = 0
      BY <1>1, <2>1 DEF Reachable
    <3> QED
      BY <1>2, <1>3, <2>1, <3>1, AllTried
  <2> QED
    BY <1>1, <1>2, <1>5, <2>2 DEF LossOf
<1> QED
  BY <1>4, <1>5

LEMMA CollectLoss == ASSUME LossInv, Collect PROVE LossInv'
<1>1. PoolTyped'
  BY DEF LossInv, PoolTyped, Collect
<1>2. /\ UNCHANGED <<up, bad, taken, glitches>> /\ serving # "served"
      /\ \A i \in Indices : request[i] \in {"answered", "failed"}
      /\ \/ /\ serving' = "single"
            /\ \A i \in Indices : request'[i] = "queued" /\ attempt'[i] = 0
         \/ serving' = "served" /\ UNCHANGED <<request, attempt>>
  <2>1. \A i \in Indices : request[i] \notin {"queued", "waiting", "posted"}
    BY DEF Collect, Active, Queued
  <2> QED
    BY <2>1 DEF Collect, LossInv, PoolTyped
<1>3. \A i \in Indices : LossOf(i)'
  BY <1>2, PoolAssumption DEF LossInv, LossOf, Reachable
<1> QED
  BY <1>1, <1>2, <1>3 DEF LossInv

LEMMA RequestLoss == ASSUME LossInv, PoolInv, Request PROVE LossInv'
<1>1. CASE Collect
  BY <1>1, CollectLoss
<1>2. ASSUME NEW i \in Indices, Begin(i) \/ Acquire(i) \/ Answer(i) \/ Error(i)
      PROVE  LossInv'
  <2>1. \A j \in Indices : LossOf(j)'
    BY <1>2, OthersLoss, BeginLoss, AcquireLoss, AnswerLoss, ErrorLoss
  <2>2. PoolTyped'
    BY <1>2, BeginKeeps, AcquireKeeps, LeaveKeeps DEF PoolInv
  <2>3. UNCHANGED <<up, serving>> /\ glitches' \in Nat
    BY <1>2 DEF LossInv, Begin, Acquire, Answer, Error, Refused
  <2> QED
    BY <2>1, <2>2, <2>3 DEF LossInv
<1> QED
  BY <1>1, <1>2 DEF Request, Serve

\* When every request has its answer or has failed, and no post failed for
\* once, the failed ones are the bad ones, as long as one server is up and the
\* attempts go round all of them: for every number of requests, servers and
\* attempts, and every set of servers that are down.
THEOREM BadAloneLost == Spec => []OnlyBadLost
<1>1. Init => LossInv /\ PoolInv
  BY LossInitInv, PoolInitInv DEF Init
<1>2. LossInv /\ PoolInv /\ [Next]_vars => LossInv' /\ PoolInv'
  <2> SUFFICES ASSUME LossInv, PoolInv, [Next]_vars PROVE LossInv' /\ PoolInv'
    OBVIOUS
  <2>1. CASE UNCHANGED poolVars
    BY <2>1
       DEF poolVars, PoolInv, PoolTyped, Held, At, Endpoint, LossInv, LossOf, Reachable, DownBefore, Start
  <2>2. CASE Request
    BY <2>2, RequestLoss, BeginKeeps, AcquireKeeps, LeaveKeeps, CollectKeeps DEF Request, Serve
  <2> QED
    BY <2>1, <2>2 DEF Next, vars, Tune, Agree, Generate, Prepare
<1>3. LossInv => OnlyBadLost
  BY DEF LossInv, LossOf, Reachable, OnlyBadLost
<1> QED
  BY <1>1, <1>2, <1>3, PTL DEF Spec

----------------------------------------------------------------------------
\* The window.

\* How many records, in the order of their lengths, are in the batches so far,
\* and in those before the present one.
Taken == Len(Lengths) - Len(rest)
Earlier == Taken - Len(batch)

\* The present batch and the records without one are the end of the order.
Cut ==
    /\ rest \in Seq(Records) /\ batch \in Seq(Records)
    /\ Earlier >= 0 /\ offset \in 0 .. Len(batch)
    /\ \A k \in 1 .. Len(rest) : rest[k] = ByLength[Taken + k]
    /\ \A k \in 1 .. Len(batch) : batch[k] = ByLength[Earlier + k]

\* What has been generated is its beginning.
Counted ==
    /\ answered \in [Records -> Nat]
    /\ \A k \in Records : answered[ByLength[k]] = IF k <= Earlier + offset THEN 1 ELSE 0

\* A batch of one record is not looked at again.
WithinLimit(b) == limit > 0 /\ Len(b) > 1 => Padded(b) <= limit

\* A flush that raised without an allocation failure had a size, and no record
\* it could begin with.
RaisedRightly ==
    /\ ooms \in Nat
    /\ flush = "raised" =>
          /\ search[0] \in {"selected", "failed"}
          /\ \/ search[0] = "failed" \/ ooms > 0
             \/ limit > 0 /\ \A i \in Records : Lengths[i] > limit

Trying ==
    /\ subset \in Seq(Records) /\ Len(subset) <= size /\ trial \in 1 .. Len(subset)
    /\ offset + Len(subset) <= Len(batch)
    /\ \A k \in 1 .. Len(subset) : subset[k] = batch[offset + k]

WindowInv ==
    /\ limit \in TokenLimits
    /\ flush \in {"probe", "batch", "work", "rows", "raised"}
    /\ Cut /\ Counted
    /\ flush \in {"batch", "work", "rows"} =>
           search[0] = "selected" /\ size \in 1 .. best[0] /\ WithinLimit(batch)
    /\ flush = "work" => Trying
    /\ flush = "rows" => rest = << >> /\ offset = Len(batch)
    /\ flush = "probe" => batch = << >>
    /\ batch = << >> => Taken = 0
    /\ RaisedRightly

LEMMA RecordsAre ==
    /\ Records = 1 .. Len(Lengths) /\ Len(Lengths) \in Nat \ {0}
    /\ \A i \in Records : Lengths[i] \in Nat \ {0}
    /\ \A t \in TokenLimits : t \in Nat
BY WindowAssumption, SizesAssumption DEF Records

LEMMA MaxOfBounded ==
    ASSUME NEW S \in SUBSET Nat, S # {}, NEW n \in Nat, \A k \in S : k <= n
    PROVE  Max(S) \in S /\ \A k \in S : k <= Max(S)
<1> DEFINE T == {n - k : k \in S}
<1>1. T \in SUBSET Nat /\ T # {}
  OBVIOUS
<1>2. PICK m \in S : Min(T) = n - m
  BY <1>1, MinOfNats
<1>3. \A k \in S : n - m <= n - k
  BY <1>1, <1>2, MinOfNats
<1>4. \A k \in S : k <= m
  BY <1>3
<1>5. Max(S) = m
  BY <1>4, MaxIs
<1> QED
  BY <1>4, <1>5

LEMMA MinOfTwo ==
    ASSUME NEW a \in Int, NEW b \in Int
    PROVE  Min({a, b}) = IF a <= b THEN a ELSE b
<1>1. \A m \in {a, b} : (\A n \in {a, b} : m <= n) => m = IF a <= b THEN a ELSE b
  OBVIOUS
<1>2. \E m \in {a, b} : \A n \in {a, b} : m <= n
  OBVIOUS
<1> QED
  BY <1>1, <1>2 DEF Min

LEMMA MaxOfTwo ==
    ASSUME NEW a \in Int, NEW b \in Int
    PROVE  Max({a, b}) = IF a <= b THEN b ELSE a
BY MaxIs

LEMMA ProductsGrow ==
    ASSUME NEW a \in Nat, NEW b \in Nat, NEW c \in Nat, NEW d \in Nat, a <= b, c <= d
    PROVE  a * c <= b * d
<1>1. PICK x \in Nat : b = a + x
  <2>1. b - a \in Nat /\ b = a + (b - a)
    OBVIOUS
  <2> QED
    BY <2>1
<1>2. PICK y \in Nat : d = c + y
  <2>1. d - c \in Nat /\ d = c + (d - c)
    OBVIOUS
  <2> QED
    BY <2>1
<1>3. b * d = a * c + a * y + x * c + x * y
  BY <1>1, <1>2
<1>4. a * c \in Nat /\ a * y \in Nat /\ x * c \in Nat /\ x * y \in Nat
  OBVIOUS
<1> QED
  BY <1>3, <1>4

\* The longest record of a batch.
LEMMA LongestRecord ==
    ASSUME NEW b \in Seq(Records), b # << >>
    PROVE  \E k \in 1 .. Len(b) : \A j \in 1 .. Len(b) : Lengths[b[j]] <= Lengths[b[k]]
<1> DEFINE Tops(n) == {k \in 1 .. n : \A j \in 1 .. n : Lengths[b[j]] <= Lengths[b[k]]}
           Topless == {n \in 1 .. Len(b) : Tops(n) = {}}
<1>1. Len(b) \in Nat /\ Len(b) >= 1 /\ \A j \in 1 .. Len(b) : Lengths[b[j]] \in Nat
  BY RecordsAre
<1>2. Topless = {}
  <2> SUFFICES ASSUME Topless # {} PROVE FALSE
    OBVIOUS
  <2>1. Topless \in SUBSET Nat
    OBVIOUS
  <2>2. PICK m \in Topless : \A n \in Topless : m <= n
    BY <2>1, MinOfNats
  <2>3. m \in 1 .. Len(b) /\ Tops(m) = {}
    BY <2>2
  <2>4. CASE m = 1
    <3>1. \A j \in 1 .. m : j = 1
      BY <2>4
    <3>2. m \in Tops(m)
      BY <1>1, <2>4, <3>1
    <3> HIDE DEF Tops
    <3> QED
      BY <2>3, <3>2
  <2>5. CASE m > 1
    <3>1. m - 1 \in 1 .. Len(b) /\ m - 1 \notin Topless
      <4>1. m \in Nat /\ ~(m <= m - 1) /\ m - 1 \in 1 .. Len(b)
        BY <1>1, <2>3, <2>5
      <4> HIDE DEF Topless
      <4> QED
        BY <2>2, <4>1
    <3>2. PICK k \in 1 .. m - 1 : \A j \in 1 .. m - 1 : Lengths[b[j]] <= Lengths[b[k]]
      BY <3>1
    <3>3. CASE Lengths[b[m]] <= Lengths[b[k]]
      <4>1. k \in Tops(m)
        <5>1. \A j \in 1 .. m : j = m \/ j \in 1 .. m - 1
          BY <2>3
        <5>2. k \in 1 .. m
          BY <2>3
        <5> QED
          BY <3>2, <3>3, <5>1, <5>2
      <4> QED
        BY <2>3, <4>1
    <3>4. CASE ~(Lengths[b[m]] <= Lengths[b[k]])
      <4>1. ASSUME NEW j \in 1 .. m PROVE Lengths[b[j]] <= Lengths[b[m]]
        <5>1. j \in 1 .. Len(b) /\ k \in 1 .. Len(b) /\ m \in 1 .. Len(b)
          BY <2>3
        <5>2. /\ Lengths[b[j]] \in Nat /\ Lengths[b[k]] \in Nat /\ Lengths[b[m]] \in Nat
          BY <1>1, <5>1
        <5>3. j = m \/ j \in 1 .. m - 1
          BY <2>3
        <5> QED
          BY <3>2, <3>4, <5>2, <5>3
      <4>2. m \in Tops(m)
        BY <2>3, <4>1
      <4> QED
        BY <2>3, <4>2
    <3> QED
      BY <3>3, <3>4
  <2> QED
    BY <2>3, <2>4, <2>5
<1>3. Len(b) \in 1 .. Len(b)
  BY <1>1
<1> QED
  BY <1>2, <1>3

\* What a batch takes is what its longest record takes, for every record.
LEMMA PaddedIs ==
    ASSUME NEW b \in Seq(Records), b # << >>
    PROVE  \E k \in 1 .. Len(b) :
               /\ \A j \in 1 .. Len(b) : Lengths[b[j]] <= Lengths[b[k]]
               /\ Padded(b) = Lengths[b[k]] * Len(b)
<1>1. PICK k \in 1 .. Len(b) : \A j \in 1 .. Len(b) : Lengths[b[j]] <= Lengths[b[k]]
  BY LongestRecord
<1> DEFINE S == {Lengths[i] : i \in Range(b)}
<1>2. Range(b) = {b[j] : j \in 1 .. Len(b)}
  BY DEF Range
<1>3. S \in SUBSET Int /\ Lengths[b[k]] \in S /\ \A n \in S : n <= Lengths[b[k]]
  BY <1>1, <1>2, RecordsAre
<1> HIDE DEF S
<1>4. Max(S) = Lengths[b[k]]
  BY <1>3, MaxIs
<1> QED
  BY <1>1, <1>4 DEF Padded, S

\* A part of a batch takes no more than the batch.
LEMMA PartsAreSmaller ==
    ASSUME NEW b \in Seq(Records), NEW c \in Seq(Records), c # << >>, Len(c) <= Len(b),
           \A k \in 1 .. Len(c) : \E j \in 1 .. Len(b) : c[k] = b[j]
    PROVE  Padded(c) <= Padded(b)
<1>1. b # << >> /\ Len(b) \in Nat /\ Len(c) \in Nat
  OBVIOUS
<1>2. PICK k \in 1 .. Len(c) : Padded(c) = Lengths[c[k]] * Len(c)
  BY PaddedIs
<1>3. PICK m \in 1 .. Len(b) :
          (\A j \in 1 .. Len(b) : Lengths[b[j]] <= Lengths[b[m]]) /\ Padded(b) = Lengths[b[m]] * Len(b)
  BY <1>1, PaddedIs
<1>4. Lengths[c[k]] <= Lengths[b[m]]
  BY <1>3
<1>5. Lengths[c[k]] \in Nat /\ Lengths[b[m]] \in Nat
  BY RecordsAre
<1> QED
  BY ZenonT(30), <1>1, <1>2, <1>3, <1>4, <1>5, ProductsGrow

----------------------------------------------------------------------------
\* The order of the records.

Preceding(i) == {j \in Records : Shorter(j, i)}

LEMMA ShorterOrders ==
    \A i, j, k \in Records :
        /\ ~Shorter(i, i)
        /\ i = j \/ Shorter(i, j) \/ Shorter(j, i)
        /\ Shorter(i, j) /\ Shorter(j, k) => Shorter(i, k)
BY RecordsAre DEF Shorter

\* A record has a place of its own.
LEMMA PlacesDiffer ==
    /\ \A i \in Records : Cardinality(Preceding(i)) \in 0 .. Len(Lengths) - 1
    /\ \A i, j \in Records : i # j => Cardinality(Preceding(i)) # Cardinality(Preceding(j))
<1>1. \A i \in Records : IsFiniteSet(Preceding(i)) /\ Cardinality(Preceding(i)) \in Nat
  <2>1. IsFiniteSet(Records)
    BY RecordsAre, FS_Interval
  <2> QED
    BY <2>1, FS_Subset, FS_CardinalityType DEF Preceding
<1>2. ASSUME NEW i \in Records PROVE Cardinality(Preceding(i)) \in 0 .. Len(Lengths) - 1
  <2>1. IsFiniteSet(Records) /\ Cardinality(Records) = Len(Lengths)
    BY RecordsAre, FS_Interval
  <2>2. Preceding(i) \in SUBSET Records /\ Preceding(i) # Records
    BY ShorterOrders DEF Preceding
  <2>3. Cardinality(Preceding(i)) <= Cardinality(Records) /\ Cardinality(Preceding(i)) # Cardinality(Records)
    BY <2>1, <2>2, FS_Subset
  <2> QED
    BY <1>1, <2>1, <2>3, RecordsAre
<1>3. ASSUME NEW i \in Records, NEW j \in Records, Shorter(i, j)
      PROVE  Cardinality(Preceding(i)) # Cardinality(Preceding(j))
  <2>1. Preceding(i) \in SUBSET Preceding(j) /\ i \in Preceding(j) /\ i \notin Preceding(i)
    BY <1>3, ShorterOrders DEF Preceding
  <2> QED
    BY <1>1, <2>1, FS_Subset
<1> QED
  BY <1>2, <1>3, ShorterOrders

\* Every place is taken.
LEMMA PlacesTaken ==
    ASSUME NEW v \in 0 .. Len(Lengths) - 1
    PROVE  \E i \in Records : Cardinality(Preceding(i)) = v
<1> SUFFICES ASSUME \A i \in Records : Cardinality(Preceding(i)) # v PROVE FALSE
  OBVIOUS
<1> DEFINE Places == (0 .. Len(Lengths) - 1) \ {v}
           place == [i \in Records |-> Cardinality(Preceding(i))]
<1>1. IsFiniteSet(Records) /\ Cardinality(Records) = Len(Lengths)
  BY RecordsAre, FS_Interval
<1>2. /\ IsFiniteSet(0 .. Len(Lengths) - 1)
      /\ Cardinality(0 .. Len(Lengths) - 1) = Len(Lengths)
  <2> DEFINE last == Len(Lengths) - 1
  <2>1. 0 \in Int /\ last \in Int /\ ~(0 > last) /\ last - 0 + 1 = Len(Lengths)
    BY RecordsAre
  <2> HIDE DEF last
  <2>2. IsFiniteSet(0 .. last) /\ Cardinality(0 .. last) = Len(Lengths)
    BY <2>1, FS_Interval
  <2> QED
    BY <2>2 DEF last
<1>3. IsFiniteSet(Places) /\ Cardinality(Places) = Len(Lengths) - 1
  <2> DEFINE All == 0 .. Len(Lengths) - 1
  <2>1. IsFiniteSet(All) /\ Cardinality(All) = Len(Lengths) /\ v \in All /\ Places = All \ {v}
    BY <1>2
  <2> HIDE DEF All, Places
  <2> QED
    BY <2>1, FS_RemoveElement
<1>4. place \in [Records -> Places]
  BY PlacesDiffer
<1>5. \E i, j \in Records : i # j /\ place[i] = place[j]
  <2>1. Cardinality(Places) < Cardinality(Records)
    BY <1>1, <1>3, RecordsAre
  <2> HIDE DEF Places, place
  <2> QED
    BY <1>1, <1>3, <1>4, <2>1, FS_PigeonHole
<1> QED
  BY <1>5, PlacesDiffer

\* The order by length is a permutation of the records.
LEMMA OrderIs ==
    /\ ByLength \in [Records -> Records]
    /\ \A k, m \in Records : ByLength[k] = ByLength[m] => k = m
    /\ \A i \in Records : \E k \in Records : ByLength[k] = i
    /\ \A i \in Records : Lengths[ByLength[1]] <= Lengths[i]
<1>1. ASSUME NEW k \in Records
      PROVE  ByLength[k] \in Records /\ Cardinality(Preceding(ByLength[k])) = k - 1
  <2>1. k - 1 \in 0 .. Len(Lengths) - 1
    BY RecordsAre
  <2>2. \E i \in Records : Cardinality(Preceding(i)) = k - 1
    BY <2>1, PlacesTaken
  <2>3. ByLength[k] = CHOOSE i \in Records : Cardinality(Preceding(i)) = k - 1
    BY DEF ByLength, Preceding
  <2> QED
    BY <2>2, <2>3
<1>2. ByLength \in [Records -> Records]
  <2> DEFINE at(k) == CHOOSE i \in Records : Cardinality({j \in Records : Shorter(j, i)}) = k - 1
  <2>1. ByLength = [k \in Records |-> at(k)]
    BY DEF ByLength
  <2> HIDE DEF at
  <2>2. \A k \in Records : at(k) \in Records
    BY <1>1, <2>1
  <2> QED
    BY <2>1, <2>2
<1>3. ASSUME NEW k \in Records, NEW m \in Records, ByLength[k] = ByLength[m] PROVE k = m
  <2>1. k - 1 = m - 1
    BY <1>1, <1>3
  <2> QED
    BY <2>1, RecordsAre
<1>4. ASSUME NEW i \in Records PROVE \E k \in Records : ByLength[k] = i
  <2> DEFINE p == Cardinality(Preceding(i))
  <2>1. p \in 0 .. Len(Lengths) - 1
    BY PlacesDiffer
  <2>2. p + 1 \in Records /\ (p + 1) - 1 = p
    <3> HIDE DEF p
    <3> QED
      BY <2>1, RecordsAre
  <2>3. ByLength[p + 1] \in Records /\ Cardinality(Preceding(ByLength[p + 1])) = p
    BY <1>1, <2>2
  <2> QED
    BY <2>2, <2>3, PlacesDiffer
<1>5. ASSUME NEW i \in Records PROVE Lengths[ByLength[1]] <= Lengths[i]
  <2> DEFINE first == ByLength[1]
  <2>1. 1 \in Records /\ 1 - 1 = 0
    BY RecordsAre
  <2>2. first \in Records /\ Cardinality(Preceding(first)) = 0
    BY <1>1, <2>1
  <2>3. IsFiniteSet(Preceding(first))
    <3>1. IsFiniteSet(Records)
      BY RecordsAre, FS_Interval
    <3> QED
      BY <3>1, FS_Subset DEF Preceding
  <2> HIDE DEF first
  <2>4. Preceding(first) = {}
    BY <2>2, <2>3, FS_EmptySet
  <2>5. ~Shorter(i, first)
    BY <2>4 DEF Preceding
  <2> QED
    BY <2>2, <2>5, RecordsAre DEF Shorter, first
<1> QED
  BY <1>2, <1>3, <1>4, <1>5

----------------------------------------------------------------------------
\* The steps of a window.

\* The size found is one that fits, and at least one record.
LEMMA SizeFound ==
    ASSUME SearchInv, search[0] = "selected"
    PROVE  best[0] \in Nat \ {0}
<1>1. 0 \in Ranks
  BY SizesAssumption DEF Ranks
<1> QED
  BY <1>1, SizesAre DEF SearchInv, SearchTyped, SearchOf

LEMMA WindowInitInv == ASSUME WindowInit PROVE WindowInv
<1>1. ByLength \in Seq(Records) /\ Len(ByLength) = Len(Lengths)
  <2>1. ByLength \in [1 .. Len(Lengths) -> Records] /\ Len(Lengths) \in Nat
    BY OrderIs, RecordsAre
  <2> QED
    BY <2>1
<1>2. rest = ByLength /\ batch = << >> /\ offset = 0 /\ flush = "probe"
  BY DEF WindowInit
<1>3. Taken = 0 /\ Earlier = 0
  BY <1>1, <1>2, RecordsAre DEF Taken, Earlier
<1>4. Cut
  BY <1>1, <1>2, <1>3 DEF Cut
<1>5. Counted
  <2>1. answered = [i \in Records |-> 0] /\ \A k \in Records : ~(k <= Earlier + offset)
    BY <1>2, <1>3, RecordsAre DEF WindowInit
  <2> QED
    BY <2>1, OrderIs DEF Counted
<1> QED
  BY <1>2, <1>3, <1>4, <1>5 DEF WindowInit, WindowInv, RaisedRightly

\* A step that leaves the window and the size of its search alone.
LEMMA WindowFramed ==
    ASSUME WindowInv, UNCHANGED <<limit, windowVars>>,
           search[0] \in {"selected", "failed"} => search'[0] = search[0] /\ best'[0] = best[0]
    PROVE  WindowInv'
BY DEF WindowInv, windowVars, Cut, Counted, Taken, Earlier, Trying, WithinLimit, Padded, RaisedRightly

LEMMA SearchFrames ==
    ASSUME SearchInv, NEW r \in Ranks, Search(r), search[0] \in {"selected", "failed"}
    PROVE  search'[0] = search[0] /\ best'[0] = best[0]
<1>1. r # 0 /\ 0 \in Ranks
  BY SelectedIsLast, SizesAssumption DEF Ranks
<1> QED
  BY <1>1 DEF SearchInv, SearchTyped, Search, ProbeMinimum, ProbeDouble, ProbeMiddle, Narrow, Enter

LEMMA SelectedKeeps ==
    ASSUME SearchInv, WindowInv, Selected, UNCHANGED <<limit, search, best>>
    PROVE  WindowInv'
<1>1. /\ UNCHANGED <<rest, batch, offset, subset, trial, answered, ooms>>
      /\ flush' = "raised" \/ (flush' = "batch" /\ size' = best[0] /\ search[0] = "selected")
      /\ flush = "probe"
  BY DEF Selected
<1>2. Cut' /\ Counted'
  BY <1>1 DEF WindowInv, Cut, Counted, Taken, Earlier
<1>3. flush' = "batch" => batch' = << >> /\ limit' \in Nat
  BY <1>1, RecordsAre DEF WindowInv
<1>4. flush' = "batch" => WithinLimit(batch)'
  BY <1>3 DEF WithinLimit, Padded
<1>5. RaisedRightly'
  BY <1>1 DEF WindowInv, RaisedRightly, Selected
<1> QED
  BY <1>1, <1>2, <1>4, <1>5, SizeFound DEF WindowInv, Taken

\* The first record of a window is the shortest.
LEMMA RefuseKeeps ==
    ASSUME WindowInv, Refuse, UNCHANGED <<limit, search, best>>
    PROVE  WindowInv'
<1>1. /\ flush = "batch" /\ flush' = "raised" /\ batch = << >>
      /\ UNCHANGED <<size, rest, batch, offset, subset, trial, answered, ooms>>
  BY DEF Refuse, FirstTooLong
<1>0. limit > 0 /\ Lengths[Head(rest)] > limit
  BY Zenon DEF Refuse, FirstTooLong
<1>2. /\ rest \in Seq(Records) /\ Taken = 0 /\ Taken = Len(Lengths) - Len(rest)
      /\ \A k \in 1 .. Len(rest) : rest[k] = ByLength[Taken + k]
      /\ Counted /\ Cut
  BY <1>1 DEF WindowInv, Cut, Taken
<1>3. Cut' /\ Counted'
  BY <1>1, <1>2 DEF Cut, Counted, Taken, Earlier
<1>4. rest[1] = ByLength[1] /\ Head(rest) = rest[1]
  <2>1. Len(rest) = Len(Lengths) /\ Len(rest) >= 1
    BY <1>2, RecordsAre
  <2>2. rest[1] = ByLength[Taken + 1]
    BY <1>2, <2>1
  <2> QED
    BY <1>2, <2>1, <2>2
<1>5. \A i \in Records : Lengths[i] > limit
  <2>1. limit \in Nat /\ ByLength[1] \in Records
    BY OrderIs, RecordsAre DEF WindowInv
  <2>2. Lengths[ByLength[1]] > limit
    BY <1>0, <1>4
  <2>3. \A i \in Records : Lengths[i] \in Nat /\ Lengths[ByLength[1]] <= Lengths[i]
    BY OrderIs, RecordsAre
  <2> QED
    BY <2>1, <2>2, <2>3
<1>6. RaisedRightly'
  BY <1>0, <1>1, <1>5 DEF WindowInv, RaisedRightly
<1> QED
  BY <1>1, <1>2, <1>3, <1>6 DEF WindowInv, Taken

\* A step that leaves the batches, the records done and the size alone.
LEMMA PartTaken ==
    ASSUME SearchInv, WindowInv, Take, offset < Len(batch), UNCHANGED <<limit, search, best>>
    PROVE  WindowInv'
<1> DEFINE last == Min({offset + size, Len(batch)})
<1>1. /\ flush = "batch" /\ flush' = "work" /\ trial' = Len(subset')
      /\ subset' = SubSeq(batch, offset + 1, last)
      /\ UNCHANGED <<rest, batch, offset, size, answered, ooms>>
  BY DEF Take
<1>2. /\ batch \in Seq(Records) /\ Len(batch) \in Nat /\ offset \in Nat
      /\ best[0] \in Nat /\ size \in Nat /\ size >= 1 /\ size <= best[0]
  BY <1>1, SizeFound DEF WindowInv, Cut
<1>3. /\ last = IF offset + size <= Len(batch) THEN offset + size ELSE Len(batch)
  BY <1>2, MinOfTwo
<1>4. /\ last \in Nat /\ last > offset /\ last <= Len(batch) /\ last <= offset + size
  BY <1>2, <1>3
<1> HIDE DEF last
<1>5. /\ subset' \in Seq(Records) /\ Len(subset') = last - offset
      /\ \A k \in 1 .. last - offset : subset'[k] = batch[offset + k]
  <2>1. \A k \in offset + 1 .. last : batch[k] \in Records
    BY <1>2, <1>4
  <2>2. /\ SubSeq(batch, offset + 1, last) \in Seq(Records)
        /\ Len(SubSeq(batch, offset + 1, last)) =
               IF offset + 1 <= last THEN last - (offset + 1) + 1 ELSE 0
        /\ \A k \in 1 .. last - (offset + 1) + 1 :
               SubSeq(batch, offset + 1, last)[k] = batch[(offset + 1) + k - 1]
    <3>1. offset + 1 \in Int /\ last \in Int
      BY <1>2, <1>4
    <3> QED
      BY <2>1, <3>1, SubSeqProperties
  <2>3. last - (offset + 1) + 1 = last - offset /\ offset + 1 <= last
    BY <1>2, <1>4
  <2>4. \A k \in 1 .. last - offset : (offset + 1) + k - 1 = offset + k
    BY <1>2, <1>4
  <2> QED
    BY <1>1, <2>2, <2>3, <2>4
<1>6. Trying'
  BY <1>1, <1>2, <1>4, <1>5 DEF Trying
<1>7. Cut' /\ Counted' /\ WithinLimit(batch)'
  BY <1>1 DEF WindowInv, Cut, Counted, Taken, Earlier, WithinLimit, Padded
<1> QED
  BY <1>1, <1>2, <1>6, <1>7 DEF WindowInv, RaisedRightly

\* A batch that is not full, or of one record, is within the limit.
LEMMA LongestIs ==
    ASSUME NEW rs \in Seq(Records), rs # << >>, limit \in TokenLimits
    PROVE  Longest(rs) \in 1 .. Len(rs) /\ WithinLimit(SubSeq(rs, 1, Longest(rs)))
<1> DEFINE S == {1} \cup {k \in DOMAIN rs : ~Full(SubSeq(rs, 1, k))}
<1>1. Len(rs) \in Nat /\ Len(rs) >= 1 /\ DOMAIN rs = 1 .. Len(rs) /\ \A j \in 1 .. Len(rs) : rs[j] \in Records
  OBVIOUS
<1>2. S \in SUBSET Nat /\ S # {} /\ \A k \in S : k <= Len(rs)
  BY <1>1
<1>3. Max(S) \in S
  <2> HIDE DEF S
  <2> QED
    BY <1>1, <1>2, MaxOfBounded
<1>4. Longest(rs) \in S
  BY <1>3 DEF Longest
<1>5. CASE ~Full(SubSeq(rs, 1, Longest(rs)))
  <2> DEFINE c == SubSeq(rs, 1, Longest(rs))
  <2>1. Longest(rs) \in 1 .. Len(rs)
    BY <1>1, <1>2, <1>4
  <2>2. c \in Seq(Records) /\ Len(c) = Longest(rs) /\ c # << >>
    BY <1>1, <2>1
  <2> HIDE DEF c
  <2>3. PICK k \in 1 .. Len(c) : Padded(c) = Lengths[c[k]] * Len(c)
    BY <2>2, PaddedIs
  <2>4. Padded(c) \in Nat
    BY <2>2, <2>3, RecordsAre
  <2>5. ~Full(c)
    BY <1>5 DEF c
  <2>6. WithinLimit(c)
    BY <2>4, <2>5, RecordsAre DEF Full, WithinLimit
  <2> QED
    BY <2>1, <2>6 DEF c
<1>6. CASE Longest(rs) = 1
  <2> DEFINE one == SubSeq(rs, 1, 1)
  <2>1. one \in Seq(Records) /\ Len(one) = 1 /\ one[1] = rs[1] /\ one # << >>
    BY <1>1
  <2> HIDE DEF one
  <2>4. WithinLimit(one)
    BY <2>1 DEF WithinLimit
  <2> QED
    BY <1>1, <1>6, <2>4 DEF one
<1> QED
  BY <1>4, <1>5, <1>6

LEMMA BatchTaken ==
    ASSUME SearchInv, WindowInv, Take, ~(offset < Len(batch)), rest # << >>,
           UNCHANGED <<limit, search, best>>
    PROVE  WindowInv'
<1> DEFINE n == Longest(rest)
<1>1. /\ flush = "batch" /\ flush' = "batch" /\ offset' = 0
      /\ batch' = SubSeq(rest, 1, n) /\ rest' = SubSeq(rest, n + 1, Len(rest))
      /\ UNCHANGED <<size, answered, ooms>>
  BY DEF Take
<1>2. /\ rest \in Seq(Records) /\ batch \in Seq(Records) /\ Len(rest) \in Nat /\ Len(batch) \in Nat
      /\ offset = Len(batch) /\ limit \in TokenLimits /\ Len(Lengths) \in Nat
      /\ \A k \in 1 .. Len(rest) : rest[k] = ByLength[Taken + k]
      /\ Earlier >= 0
  BY RecordsAre DEF WindowInv, Cut
<1>3. n \in 1 .. Len(rest) /\ WithinLimit(SubSeq(rest, 1, n))
  BY <1>2, LongestIs
<1> HIDE DEF n
<1>4. /\ batch' \in Seq(Records) /\ Len(batch') = n
      /\ \A k \in 1 .. n : batch'[k] = rest[k]
  BY <1>1, <1>2, <1>3
<1>5. /\ rest' \in Seq(Records) /\ Len(rest') = Len(rest) - n
      /\ \A k \in 1 .. Len(rest) - n : rest'[k] = rest[n + k]
  <2>1. \A k \in n + 1 .. Len(rest) : rest[k] \in Records
    BY <1>2, <1>3
  <2>2. n + 1 \in Int /\ Len(rest) \in Int
    BY <1>2, <1>3
  <2>3. /\ rest' \in Seq(Records)
        /\ Len(rest') = IF n + 1 <= Len(rest) THEN Len(rest) - (n + 1) + 1 ELSE 0
        /\ \A k \in 1 .. Len(rest) - (n + 1) + 1 : rest'[k] = rest[(n + 1) + k - 1]
    BY <1>1, <2>1, <2>2, SubSeqProperties
  <2>4. /\ Len(rest) - (n + 1) + 1 = Len(rest) - n
        /\ \A k \in 1 .. Len(rest) - n : (n + 1) + k - 1 = n + k
    BY <1>2, <1>3
  <2>5. Len(rest') = Len(rest) - n
    BY <1>2, <1>3, <2>3
  <2>6. \A k \in 1 .. Len(rest) - n : rest'[k] = rest[(n + 1) + k - 1]
    BY <2>3, <2>4
  <2> QED
    BY <2>3, <2>4, <2>5, <2>6
<1>6. Taken' = Taken + n /\ Earlier' = Taken /\ Earlier' = Earlier + offset /\ Taken \in Int
  BY <1>2, <1>3, <1>4, <1>5 DEF Taken, Earlier
<1>7. Cut'
  <2>1. Earlier' >= 0 /\ offset' \in 0 .. Len(batch')
    BY <1>1, <1>2, <1>3, <1>4, <1>6 DEF Earlier
  <2>2. ASSUME NEW k \in 1 .. Len(rest') PROVE rest'[k] = ByLength[Taken' + k]
    <3>1. rest'[k] = rest[n + k] /\ n + k \in 1 .. Len(rest)
      BY <1>2, <1>3, <1>5
    <3>2. Taken + (n + k) = Taken' + k
      BY <1>3, <1>6
    <3> QED
      BY <1>2, <3>1, <3>2
  <2>3. ASSUME NEW k \in 1 .. Len(batch') PROVE batch'[k] = ByLength[Earlier' + k]
    BY SMTT(30), <1>2, <1>3, <1>4, <1>6
  <2> QED
    BY <1>4, <1>5, <2>1, <2>2, <2>3 DEF Cut
<1>8. Counted'
  <2>1. Earlier' + offset' = Earlier + offset
    BY <1>1, <1>6
  <2> QED
    BY <1>1, <2>1 DEF WindowInv, Counted
<1>9. WithinLimit(batch)'
  BY <1>1, <1>3 DEF WithinLimit, Padded
<1>10. batch' # << >>
  BY <1>3, <1>4
<1> QED
  BY <1>1, <1>7, <1>8, <1>9, <1>10 DEF WindowInv, RaisedRightly

LEMMA WindowEnds ==
    ASSUME WindowInv, Take, ~(offset < Len(batch)), rest = << >>, UNCHANGED <<limit, search, best>>
    PROVE  WindowInv'
<1>1. /\ flush = "batch" /\ flush' = "rows"
      /\ UNCHANGED <<rest, batch, offset, size, answered, subset, trial, ooms>>
  BY DEF Take
<1>2. offset = Len(batch)
  BY DEF WindowInv, Cut
<1>3. Cut' /\ Counted' /\ WithinLimit(batch)'
  BY <1>1 DEF WindowInv, Cut, Counted, Taken, Earlier, WithinLimit, Padded
<1> QED
  BY <1>1, <1>2, <1>3 DEF WindowInv, RaisedRightly, Taken

\* The records that are generated are the next ones of the order.
LEMMA WorkKeeps ==
    ASSUME SearchInv, WindowInv, Work, UNCHANGED <<limit, search, best>>
    PROVE  WindowInv'
<1> DEFINE from == Earlier + offset
<1>1. /\ flush = "work" /\ flush' = "batch" /\ size' = Min({size, trial}) /\ offset' = offset + trial
      /\ UNCHANGED <<rest, batch, subset, trial>>
      /\ answered' = [i \in Records |-> IF \E k \in 1 .. trial : subset[k] = i
                                       THEN answered[i] + 1 ELSE answered[i]]
  BY DEF Work
<1>2. /\ Cut /\ Counted /\ Trying /\ WithinLimit(batch) /\ limit \in TokenLimits
      /\ search[0] = "selected" /\ size \in 1 .. best[0] /\ best[0] \in Nat
  BY <1>1, SizeFound DEF WindowInv
<1>3. /\ Len(batch) \in Nat /\ Len(rest) \in Nat /\ Len(subset) \in Nat /\ offset \in Nat /\ trial \in Nat
      /\ Earlier \in Nat /\ Earlier + Len(batch) = Len(Lengths) - Len(rest)
      /\ trial >= 1 /\ trial <= Len(subset) /\ offset + trial <= Len(batch)
  <2>1. /\ batch \in Seq(Records) /\ rest \in Seq(Records) /\ subset \in Seq(Records)
        /\ offset \in 0 .. Len(batch) /\ trial \in 1 .. Len(subset) /\ Earlier >= 0
        /\ offset + Len(subset) <= Len(batch)
    BY <1>2 DEF Cut, Trying
  <2>2. Len(batch) \in Nat /\ Len(rest) \in Nat /\ Len(subset) \in Nat
    BY <2>1
  <2>3. Earlier = Len(Lengths) - Len(rest) - Len(batch)
    BY DEF Earlier, Taken
  <2> QED
    BY <2>1, <2>2, <2>3, RecordsAre
<1>4. UNCHANGED <<Earlier, Taken>>
  BY <1>1 DEF Earlier, Taken
<1>5. \A k \in 1 .. trial : subset[k] = ByLength[from + k]
  <2> SUFFICES ASSUME NEW k \in 1 .. trial PROVE subset[k] = ByLength[from + k]
    OBVIOUS
  <2>1. k \in 1 .. Len(subset) /\ offset + k \in 1 .. Len(batch) /\ Earlier + (offset + k) = from + k
    BY <1>3
  <2>2. subset[k] = batch[offset + k]
    BY <1>2, <2>1 DEF Trying
  <2>3. batch[offset + k] = ByLength[Earlier + (offset + k)]
    BY <1>2, <2>1 DEF Cut
  <2> QED
    BY <2>1, <2>2, <2>3
<1>6. from \in Nat /\ from + trial <= Len(Lengths) /\ Earlier + offset' = from + trial
  BY <1>1, <1>3, RecordsAre
<1>7. \A p \in Records : answered[ByLength[p]] = IF p <= from THEN 1 ELSE 0
  BY <1>2 DEF Counted
<1> HIDE DEF from
<1>8. ASSUME NEW p \in Records
      PROVE  answered'[ByLength[p]] = IF p <= from + trial THEN 1 ELSE 0
  <2>1. p \in Nat /\ p >= 1 /\ ByLength[p] \in Records
    BY SMTT(30), OrderIs, RecordsAre
  <2>2. CASE p <= from
    <3>1. ASSUME NEW k \in 1 .. trial PROVE ByLength[from + k] # ByLength[p]
      <4>1. from + k \in Records /\ from + k # p
        BY <1>3, <1>6, <2>1, <2>2, RecordsAre
      <4> QED
        BY <4>1, OrderIs
    <3>2. answered'[ByLength[p]] = answered[ByLength[p]]
      BY <1>1, <1>5, <2>1, <3>1
    <3> QED
      BY <1>3, <1>6, <1>7, <2>1, <2>2, <3>2
  <2>3. CASE from < p /\ p <= from + trial
    <3>1. p - from \in 1 .. trial /\ from + (p - from) = p
      BY <1>3, <1>6, <2>1, <2>3
    <3>2. subset[p - from] = ByLength[p]
      BY <1>5, <3>1
    <3>3. answered'[ByLength[p]] = answered[ByLength[p]] + 1
      BY <1>1, <2>1, <3>1, <3>2
    <3>4. answered[ByLength[p]] = 0
      BY <1>6, <1>7, <2>1, <2>3
    <3> QED
      BY <2>3, <3>3, <3>4
  <2>4. CASE from + trial < p
    <3>1. ASSUME NEW k \in 1 .. trial PROVE ByLength[from + k] # ByLength[p]
      <4>1. from + k \in Records /\ from + k # p
        BY <1>3, <1>6, <2>1, <2>4, RecordsAre
      <4> QED
        BY <4>1, OrderIs
    <3>2. answered'[ByLength[p]] = answered[ByLength[p]]
      BY <1>1, <1>5, <2>1, <3>1
    <3> QED
      BY <1>3, <1>6, <1>7, <2>1, <2>4, <3>2
  <2> QED
    BY <1>3, <1>6, <2>1, <2>2, <2>3, <2>4
<1>9. Counted'
  <2>1. answered' \in [Records -> Nat]
    BY <1>1, <1>2 DEF Counted
  <2> QED
    BY <1>4, <1>6, <1>8, <2>1 DEF Counted
<1>10. Cut' /\ WithinLimit(batch)'
  <2>1. offset' \in 0 .. Len(batch')
    BY <1>1, <1>3
  <2> QED
    BY <1>1, <1>2, <1>4, <2>1 DEF Cut, WithinLimit, Padded
<1>11. size' \in 1 .. best'[0]
  BY <1>1, <1>2, <1>3, MinOfTwo
<1> QED
  BY <1>1, <1>2, <1>9, <1>10, <1>11 DEF WindowInv, RaisedRightly, Taken, Work

LEMMA OutOfMemoryKeeps ==
    ASSUME SearchInv, WindowInv, OutOfMemory, UNCHANGED <<limit, search, best>>
    PROVE  WindowInv'
<1> DEFINE smallest == Min({MinBatch, Len(subset)})
<1>1. /\ flush = "work" /\ UNCHANGED <<size, rest, batch, offset, subset, answered>>
      /\ \/ flush' = "raised"
         \/ /\ ~(trial <= smallest) /\ flush' = "work"
            /\ trial' = Max({smallest, trial \div 2})
  BY DEF OutOfMemory
<1>2. Trying /\ Cut /\ Counted /\ WithinLimit(batch)
  BY <1>1 DEF WindowInv
<1>3. Len(subset) \in Nat /\ trial \in Nat /\ trial >= 1 /\ trial <= Len(subset)
  BY <1>2 DEF Trying
<1>4. smallest \in Nat /\ smallest >= 1
  BY <1>3, MinOfTwo, SizesAre
<1> HIDE DEF smallest
<1>7. RaisedRightly'
  BY <1>1 DEF OutOfMemory, WindowInv, RaisedRightly
<1>5. CASE flush' = "work"
  <2>1. trial \div 2 \in Nat /\ trial \div 2 <= trial
    BY <1>3
  <2>2. trial' \in 1 .. Len(subset)
    BY <1>1, <1>3, <1>4, <1>5, <2>1, MaxOfTwo
  <2>3. Trying'
    BY <1>1, <1>2, <2>2 DEF Trying
  <2> QED
    BY <1>1, <1>5, <1>7, <2>3 DEF WindowInv, Cut, Counted, Taken, Earlier, WithinLimit, Padded
<1>6. CASE flush' = "raised"
  BY <1>1, <1>6, <1>7 DEF WindowInv, Cut, Counted, Taken, Earlier
<1> QED
  BY <1>1, <1>5, <1>6

LEMMA WindowKeeps == ASSUME SearchInv, WindowInv, [Next]_vars PROVE WindowInv'
<1>1. CASE Tune
  <2>1. PICK r \in Ranks : Search(r)
    BY <1>1 DEF Tune
  <2> QED
    BY <1>1, <2>1, SearchFrames, WindowFramed DEF Tune
<1>2. CASE Generate
  <2>1. CASE Search(0) /\ UNCHANGED windowVars
    <3>1. 0 \in Ranks
      BY SizesAssumption DEF Ranks
    <3> QED
      BY <1>2, <2>1, <3>1, SearchFrames, WindowFramed DEF Generate
  <2>2. CASE Flush /\ UNCHANGED searching
    <3>1. UNCHANGED <<limit, search, best>>
      BY <1>2, <2>2 DEF Generate, searching, searchVars
    <3>2. ASSUME Take PROVE WindowInv'
      BY <3>1, <3>2, PartTaken, BatchTaken, WindowEnds
    <3> QED
      BY <2>2, <3>1, <3>2, SelectedKeeps, RefuseKeeps, WorkKeeps, OutOfMemoryKeeps DEF Flush
  <2> QED
    BY <1>2, <2>1, <2>2 DEF Generate
<1>3. CASE Agree \/ Request \/ Prepare \/ UNCHANGED vars
  BY <1>3, WindowFramed DEF Agree, Request, Prepare, vars, searching, searchVars
<1> QED
  BY <1>1, <1>2, <1>3 DEF Next

LEMMA WindowIsServed == ASSUME SearchInv, WindowInv PROVE WindowServed
<1>1. ASSUME flush = "work"
      PROVE  /\ trial <= best[0] /\ trial <= Len(subset)
             /\ limit > 0 /\ trial > 1 => Padded(SubSeq(subset, 1, trial)) <= limit
  <2> DEFINE c == SubSeq(subset, 1, trial)
  <2>1. Trying /\ Cut /\ WithinLimit(batch) /\ size \in 1 .. best[0] /\ best[0] \in Nat /\ limit \in Nat
    BY <1>1, SizeFound, RecordsAre DEF WindowInv
  <2>2. /\ subset \in Seq(Records) /\ batch \in Seq(Records)
        /\ Len(subset) \in Nat /\ Len(batch) \in Nat /\ offset \in Nat
        /\ trial \in 1 .. Len(subset) /\ Len(subset) <= size /\ offset + Len(subset) <= Len(batch)
        /\ \A k \in 1 .. Len(subset) : subset[k] = batch[offset + k]
    BY <2>1 DEF Trying, Cut
  <2>3. /\ c \in Seq(Records) /\ Len(c) = trial /\ c # << >>
        /\ \A k \in 1 .. trial : c[k] = subset[k]
    <3>1. trial \in Nat /\ trial >= 1 /\ \A k \in 1 .. trial : subset[k] \in Records
      BY <2>2
    <3>2. /\ c \in Seq(Records) /\ Len(c) = IF 1 <= trial THEN trial - 1 + 1 ELSE 0
          /\ \A k \in 1 .. trial - 1 + 1 : c[k] = subset[1 + k - 1]
      BY <3>1, SubSeqProperties
    <3>3. trial - 1 + 1 = trial /\ \A k \in 1 .. trial : 1 + k - 1 = k
      BY <3>1
    <3> HIDE DEF c
    <3>4. Len(c) = trial /\ \A k \in 1 .. trial : c[k] = subset[k]
      BY <3>1, <3>2, <3>3
    <3> QED
      BY <3>1, <3>2, <3>4
  <2> HIDE DEF c
  <2>4. ASSUME NEW k \in 1 .. Len(c) PROVE \E j \in 1 .. Len(batch) : c[k] = batch[j]
    <3>1. k \in 1 .. Len(subset) /\ offset + k \in 1 .. Len(batch) /\ k \in 1 .. trial
      BY <2>2, <2>3
    <3> QED
      BY <2>2, <2>3, <3>1
  <2>5. Padded(c) <= Padded(batch) /\ Len(c) <= Len(batch)
    <3>1. Len(c) <= Len(batch)
      BY <2>2, <2>3
    <3> QED
      BY <2>2, <2>3, <2>4, <3>1, PartsAreSmaller
  <2>6. Padded(c) \in Nat /\ Padded(batch) \in Nat
    <3>1. batch # << >>
      BY <2>2, <2>3, <2>5
    <3>2. PICK k \in 1 .. Len(c) : Padded(c) = Lengths[c[k]] * Len(c)
      BY <2>3, PaddedIs
    <3>3. PICK m \in 1 .. Len(batch) : Padded(batch) = Lengths[batch[m]] * Len(batch)
      BY <2>2, <3>1, PaddedIs
    <3>4. Lengths[c[k]] \in Nat /\ Lengths[batch[m]] \in Nat
      <4>1. c[k] \in Records /\ batch[m] \in Records
        BY <2>2, <2>3
      <4> QED
        BY <4>1, RecordsAre
    <3>5. Len(c) \in Nat
      BY <2>3
    <3>6. \A x, y \in Nat : x * y \in Nat
      OBVIOUS
    <3>7. Lengths[c[k]] * Len(c) \in Nat /\ Lengths[batch[m]] * Len(batch) \in Nat
      BY <2>2, <3>4, <3>5, <3>6
    <3> QED
      BY <3>2, <3>3, <3>7
  <2>7. limit > 0 /\ trial > 1 => Padded(c) <= limit
    BY <2>1, <2>2, <2>3, <2>5, <2>6 DEF WithinLimit
  <2> QED
    BY <2>1, <2>2, <2>7 DEF c
<1>2. ASSUME NEW i \in Records
      PROVE  answered[i] <= 1 /\ (flush = "rows" => answered[i] = 1)
  <2>1. PICK k \in Records : ByLength[k] = i
    BY OrderIs
  <2>2. answered[i] = IF k <= Earlier + offset THEN 1 ELSE 0
    BY <2>1 DEF WindowInv, Counted
  <2>3. flush = "rows" => k <= Earlier + offset
    <3> SUFFICES ASSUME flush = "rows" PROVE k <= Earlier + offset
      OBVIOUS
    <3>1. rest = << >> /\ offset = Len(batch) /\ batch \in Seq(Records)
      BY DEF WindowInv, Cut
    <3>2. Earlier + offset = Len(Lengths)
      BY <3>1, RecordsAre DEF Earlier, Taken
    <3> QED
      BY <3>2, RecordsAre
  <2> QED
    BY <2>2, <2>3
<1>3. flush = "raised" /\ search[0] = "selected" /\ ooms = 0 =>
          limit > 0 /\ \A i \in Records : Lengths[i] > limit
  BY DEF WindowInv, RaisedRightly
<1> QED
  BY <1>1, <1>2, <1>3 DEF WindowServed

\* No batch that is tried is larger than the size that was probed, or than the
\* tokens allow unless it is a single record; every record of a window is
\* generated exactly once before its rows are written; and the limit ends a flush
\* only if all records are over it: for every window, limit and size, and
\* whatever runs out of memory (run_with_oom_backoff, _window_batches).
THEOREM WindowComplete == Spec => []WindowServed
<1>1. Init => Sized /\ WindowInv
  BY InitSized, WindowInitInv DEF Init
<1>2. Sized /\ WindowInv /\ [Next]_vars => Sized' /\ WindowInv'
  BY SizedKeeps, WindowKeeps DEF Sized
<1>3. Sized /\ WindowInv => WindowServed
  BY WindowIsServed DEF Sized
<1> QED
  BY <1>1, <1>2, <1>3, PTL DEF Spec

----------------------------------------------------------------------------
\* The parts of a chat.

\* An answer, which is stripped (generate_targets.py:287), begins with no token
\* of what the template puts before it and ends with none of what it puts behind.
AnswersApart ==
    \A a \in Answers : a # << >> =>
        /\ \A k \in 1 .. Len(Opening) : a[1] # Opening[k]
        /\ \A k \in 1 .. Len(Closing) : a[Len(a)] # Closing[k]

Rendered == IF record.budgeted THEN Masked(Budgeted) ELSE Masked(Unbudgeted)

Kept ==
    (record.budgeted => Fits) /\ \E p \in Rendered.mask : p + 1 \in Rendered.mask

Prompted ==
    /\ SourceStart # NotFound \/ record.document = << >>
    /\ MaxLength - MaxSummary - Template >= 0
    /\ prompt = IF record.document = << >> THEN Prefix
                ELSE Shortened(Min({Len(record.document), MaxSource,
                                    MaxLength - MaxSummary - Template}))

RenderInv ==
    /\ record \in RecordSpace
    /\ stage \in {"read", "rejected", "prompted", "answered", "example", "dropped"}
    /\ stage \in {"prompted", "answered", "example", "dropped"} => Prompted
    /\ stage \in {"answered", "example", "dropped"} => answer \in [tokens : Answers, joined : BOOLEAN]
    /\ stage = "example" => Kept /\ example = Rendered
    /\ stage = "dropped" => ~Kept

LEMMA RenderInitInv == ASSUME Init PROVE RenderInv
BY DEF Init, RenderInit, RenderInv

LEMMA PromptFramed ==
    ASSUME UNCHANGED record
    PROVE  /\ Prefix' = Prefix /\ SourceStart' = SourceStart /\ Template' = Template
           /\ \A u : Shortened(u)' = Shortened(u)
<1>1. Prefix' = Prefix
  BY DEF Prefix
<1>2. SourceStart' = SourceStart
  BY <1>1 DEF SourceStart
<1> QED
  BY <1>1, <1>2 DEF Template, Shortened

LEMMA PromptedStays == ASSUME UNCHANGED <<record, prompt>>, Prompted PROVE Prompted'
<1> DEFINE u == Min({Len(record.document), MaxSource, MaxLength - MaxSummary - Template})
<1>1. u' = u
  BY PromptFramed
<1>2. Shortened(u)' = Shortened(u)
  BY <1>1, PromptFramed DEF Shortened
<1> QED
  BY <1>2, PromptFramed DEF Prompted

LEMMA ExampleFramed ==
    ASSUME UNCHANGED <<record, answer>>
    PROVE  Rendered' = Rendered /\ (Kept <=> Kept')
<1>1. Chat' = Chat
  BY PromptFramed DEF Chat
<1>2. Located' = Located
  BY <1>1, PromptFramed DEF Located
<1>3. Fallback' <=> Fallback
  BY <1>2 DEF Fallback
<1>4. AnswerStart' = AnswerStart /\ AnswerEnd' = AnswerEnd
  BY <1>1, <1>2, <1>3, PromptFramed DEF AnswerStart, AnswerEnd
<1>5. Content' = Content /\ Rest' = Rest
  BY <1>1, <1>4 DEF Content, Rest
<1> DEFINE u == Min({Len(record.document), MaxSource, MaxLength - Template - Len(Content) - Len(Rest)})
<1>6. Shortened(u)' = Shortened(u)
  <2>1. u' = u
    BY <1>5, PromptFramed
  <2> QED
    BY <2>1, PromptFramed DEF Shortened
<1>7. Budgeted' = Budgeted /\ Unbudgeted' = Unbudgeted
  BY <1>1, <1>4, <1>5, <1>6 DEF Budgeted, Unbudgeted
<1>8. Fits' <=> Fits
  BY <1>5, PromptFramed DEF Fits
<1>9. ASSUME NEW whole PROVE Masked(whole)' = Masked(whole)
  BY <1>3 DEF Masked
<1>10. Rendered' = Rendered
  BY <1>3, <1>7 DEF Rendered, Masked
<1> QED
  BY <1>8, <1>10 DEF Kept

LEMMA TextsAre ==
    /\ Before \in Seq(Tokens) /\ After \in Seq(Tokens)
    /\ Opening \in Seq(Tokens) /\ Closing \in Seq(Tokens) /\ Len(Closing) >= 1
    /\ Joined \in Tokens
    /\ \A text \in Documents \cup Answers : text \in Seq(Tokens)
    /\ MaxSource \in Nat /\ MaxSummary \in Nat /\ MaxSummary >= 1 /\ MaxLength \in Nat
<1>1. /\ Before \in Seq(Tokens) /\ After \in Seq(Tokens)
      /\ Opening \in Seq(Tokens) /\ Closing \in Seq(Tokens)
      /\ \A text \in Documents \cup Answers : text \in Seq(Tokens)
  BY TextAssumption
<1>2. Len(Closing) >= 1
  BY <1>1, BudgetAssumption
<1>3. Joined \in Tokens /\ MaxSource \in Nat /\ MaxSummary \in Nat /\ MaxSummary >= 1
  BY TextAssumption, BudgetAssumption
<1> QED
  BY <1>1, <1>2, <1>3, BudgetAssumption

\* What is found is there.
LEMMA FindIs ==
    ASSUME NEW text \in Seq(Tokens), NEW part \in Seq(Tokens), NEW from \in Nat,
           Find(text, part, from) # NotFound
    PROVE  /\ part # << >> /\ Find(text, part, from) \in from .. Len(text) - Len(part)
           /\ SubSeq(text, Find(text, part, from) + 1, Find(text, part, from) + Len(part)) = part
<1> DEFINE at == {k \in from .. Len(text) - Len(part) : SubSeq(text, k + 1, k + Len(part)) = part}
<1>1. part # << >> /\ at # {} /\ Find(text, part, from) = Min(at)
  BY DEF Find
<1>2. at \in SUBSET Nat
  BY DEF at
<1>3. Min(at) \in at
  <2> HIDE DEF at
  <2> QED
    BY <1>1, <1>2, MinOfNats
<1> QED
  BY <1>1, <1>3

LEMMA WithinIs ==
    ASSUME NEW text \in Seq(Tokens), NEW joined \in BOOLEAN
    PROVE  /\ Within(text, joined) \in Seq(Tokens) /\ Len(Within(text, joined)) = Len(text)
           /\ ~joined => Within(text, joined) = text
<1>1. CASE joined /\ text # << >>
  <2>1. text \in [1 .. Len(text) -> Tokens] /\ Len(text) \in Nat /\ Joined \in Tokens
    BY TextsAre
  <2>2. [text EXCEPT ![1] = Joined] \in [1 .. Len(text) -> Tokens]
    BY <2>1
  <2> QED
    BY <1>1, <2>1, <2>2 DEF Within
<1>2. CASE ~(joined /\ text # << >>)
  BY <1>2 DEF Within
<1> QED
  BY <1>1, <1>2

LEMMA PrefixIs ==
    ASSUME RenderInv
    PROVE  /\ record.document \in Seq(Tokens) /\ record.joined \in BOOLEAN
           /\ Prefix \in Seq(Tokens) /\ Len(Prefix) \in Nat
           /\ Len(Prefix) = Len(Before) + Len(record.document) + Len(After)
           /\ Template = Len(Before) + Len(After) /\ Template \in Nat
<1>1. record.document \in Seq(Tokens) /\ record.joined \in BOOLEAN
  BY TextsAre DEF RenderInv, RecordSpace
<1> DEFINE text == Within(record.document, record.joined)
<1>2. text \in Seq(Tokens) /\ Len(text) = Len(record.document)
  BY <1>1, WithinIs
<1> HIDE DEF text
<1>3. Before \o text \in Seq(Tokens) /\ Len(Before \o text) = Len(Before) + Len(text)
  BY <1>2, TextsAre, ConcatProperties
<1>4. Prefix = Before \o text \o After
  BY DEF Prefix, text
<1>5. Prefix \in Seq(Tokens) /\ Len(Prefix) = Len(Before) + Len(text) + Len(After)
  BY <1>3, <1>4, TextsAre, ConcatProperties
<1>6. Len(Before) \in Nat /\ Len(After) \in Nat /\ Len(record.document) \in Nat
  BY <1>1, TextsAre
<1>7. /\ Len(Prefix) = Len(Before) + Len(record.document) + Len(After)
      /\ Len(Prefix) - Len(record.document) = Len(Before) + Len(After)
  <2> DEFINE b == Len(Before)
             d == Len(record.document)
             a == Len(After)
  <2>1. b \in Nat /\ d \in Nat /\ a \in Nat /\ Len(Prefix) = b + d + a
    BY <1>2, <1>5, <1>6
  <2> HIDE DEF a, b, d
  <2>2. Len(Prefix) - d = b + a
    BY <2>1
  <2> QED
    BY <2>1, <2>2 DEF a, b, d
<1>8. Template = Len(Before) + Len(After)
  BY <1>7 DEF Template
<1> QED
  BY <1>1, <1>5, <1>6, <1>7, <1>8

LEMMA RenderKeeps == ASSUME RenderInv, [Next]_vars PROVE RenderInv'
<1>1. CASE UNCHANGED renderVars
  BY <1>1, PromptedStays, ExampleFramed DEF RenderInv, renderVars
<1>2. CASE RenderPrompt
  <2>1. /\ UNCHANGED <<record, answer, example>> /\ stage = "read"
        /\ stage' = "rejected" \/ stage' = "prompted"
    BY <1>2 DEF RenderPrompt
  <2>2. stage' = "prompted" => Prompted'
    <3> DEFINE u == Min({Len(record.document), MaxSource, MaxLength - MaxSummary - Template})
    <3>1. u' = u
      BY <2>1, PromptFramed
    <3>2. Shortened(u)' = Shortened(u)
      BY <2>1, <3>1, PromptFramed DEF Shortened
    <3> SUFFICES ASSUME stage' = "prompted" PROVE Prompted'
      OBVIOUS
    <3>3. /\ SourceStart # NotFound \/ record.document = << >>
          /\ ~(MaxLength - MaxSummary - Template < 0)
          /\ prompt' = IF record.document = << >> THEN Prefix ELSE Shortened(u)
      BY <1>2 DEF RenderPrompt
    <3>4. MaxLength - MaxSummary - Template >= 0
      BY <3>3, PrefixIs, TextsAre
    <3> QED
      BY <2>1, <3>2, <3>3, <3>4, PromptFramed DEF Prompted
  <2> QED
    BY <2>1, <2>2 DEF RenderInv
<1>3. CASE Answered
  <2>1. /\ UNCHANGED <<record, prompt, example>> /\ stage = "prompted" /\ stage' = "answered"
        /\ answer' \in [tokens : Answers, joined : BOOLEAN]
    BY <1>3 DEF Answered
  <2> QED
    BY <2>1, PromptedStays DEF RenderInv
<1>4. CASE RenderExample
  <2>1. /\ UNCHANGED <<record, prompt, answer>> /\ stage = "answered"
        /\ \/ stage' = "example" /\ example' = Rendered /\ Kept
           \/ stage' = "dropped" /\ ~Kept
    BY <1>4 DEF RenderExample, Rendered, Kept
  <2> QED
    BY <2>1, PromptedStays, ExampleFramed DEF RenderInv
<1>5. Prepare => Render
  BY DEF Prepare
<1> QED
  BY <1>1, <1>2, <1>3, <1>4, <1>5 DEF Next, vars, Tune, Agree, Generate, Request, Render

\* The prompt with the first u tokens of the document.
LEMMA ShortenedIs ==
    ASSUME RenderInv, SourceStart # NotFound, NEW u \in 0 .. Len(record.document)
    PROVE  Shortened(u) \in Seq(Tokens) /\ Len(Shortened(u)) = Template + u
<1> DEFINE D == Len(record.document)
           P == Len(Prefix)
           m == SourceStart + u
           n == SourceStart + D + 1
           head == SubSeq(Prefix, 1, m)
           tail == SubSeq(Prefix, n, P)
<1>1. D \in Nat /\ P \in Nat /\ P = Template + D /\ Template \in Nat /\ u \in Nat /\ u <= D
      /\ Prefix \in Seq(Tokens) /\ \A k \in 1 .. P : Prefix[k] \in Tokens
  BY PrefixIs
<1>2. SourceStart \in 0 .. P - D
  BY PrefixIs, FindIs DEF SourceStart
<1>3. Shortened(u) = head \o tail
  BY DEF Shortened
<1>4. /\ m \in Nat /\ n \in Nat /\ n <= P + 1 /\ m <= P
      /\ m - 1 + 1 = m /\ P - n + 1 = Template - SourceStart /\ m + (Template - SourceStart) = Template + u
      /\ SourceStart \in Nat /\ SourceStart <= Template
  <2> HIDE DEF D, P
  <2> QED
    BY <1>1, <1>2
<1> HIDE DEF D, P, m, n
<1>5. head \in Seq(Tokens) /\ Len(head) = m
  <2>1. 1 \in Int /\ m \in Int /\ \A k \in 1 .. m : Prefix[k] \in Tokens
    BY <1>1, <1>4
  <2>2. head \in Seq(Tokens) /\ Len(head) = IF 1 <= m THEN m - 1 + 1 ELSE 0
    BY <2>1, SubSeqProperties
  <2> QED
    BY <1>4, <2>2
<1>6. tail \in Seq(Tokens) /\ Len(tail) = P - n + 1
  <2>1. n \in Int /\ P \in Int /\ \A k \in n .. P : Prefix[k] \in Tokens
    <3>1. \A k \in n .. P : k \in 1 .. P
      BY <1>1, <1>4 DEF n
    <3> QED
      BY <1>1, <1>4, <3>1
  <2>2. tail \in Seq(Tokens) /\ Len(tail) = IF n <= P THEN P - n + 1 ELSE 0
    BY <2>1, SubSeqProperties
  <2> QED
    BY <1>1, <1>4, <2>2
<1> HIDE DEF head, tail
<1>7. head \o tail \in Seq(Tokens) /\ Len(head \o tail) = Len(head) + Len(tail)
  BY <1>5, <1>6, ConcatProperties
<1> QED
  BY <1>3, <1>4, <1>5, <1>6, <1>7

LEMMA Joins ==
    ASSUME NEW s \in Seq(Tokens), NEW t \in Seq(Tokens), NEW m, m = Len(s), NEW n, n = Len(t)
    PROVE  /\ s \o t \in Seq(Tokens) /\ m \in Nat /\ n \in Nat /\ Len(s \o t) = m + n
           /\ \A k \in 1 .. m : (s \o t)[k] = s[k]
           /\ \A k \in 1 .. n : (s \o t)[m + k] = t[k]
<1>1. /\ s \o t \in Seq(Tokens) /\ m \in Nat /\ n \in Nat /\ Len(s \o t) = m + n
      /\ \A k \in 1 .. m + n : (s \o t)[k] = IF k <= m THEN s[k] ELSE t[k - m]
  BY ConcatProperties
<1>2. ASSUME NEW k \in 1 .. m PROVE (s \o t)[k] = s[k]
  <2>1. k \in 1 .. m + n /\ k <= m
    BY <1>1
  <2> QED
    BY <1>1, <2>1
<1>3. ASSUME NEW k \in 1 .. n PROVE (s \o t)[m + k] = t[k]
  <2>1. m + k \in 1 .. m + n /\ ~(m + k <= m) /\ (m + k) - m = k
    BY <1>1
  <2> QED
    BY <1>1, <2>1
<1> QED
  BY <1>1, <1>2, <1>3

LEMMA Slices ==
    ASSUME NEW s \in Seq(Tokens), NEW m \in Nat, NEW n \in Nat, m + n <= Len(s)
    PROVE  /\ SubSeq(s, m + 1, m + n) \in Seq(Tokens) /\ Len(SubSeq(s, m + 1, m + n)) = n
           /\ \A k \in 1 .. n : SubSeq(s, m + 1, m + n)[k] = s[m + k]
<1> DEFINE from == m + 1
           to == m + n
           part == SubSeq(s, from, to)
<1>1. from \in Int /\ to \in Int /\ \A i \in from .. to : s[i] \in Tokens
  <2>1. \A i \in from .. to : i \in 1 .. Len(s)
    OBVIOUS
  <2> QED
    BY <2>1
<1>2. to - from + 1 = n /\ (from <= to <=> n > 0) /\ \A k \in 1 .. n : from + k - 1 = m + k
  OBVIOUS
<1> HIDE DEF from, to
<1>3. /\ part \in Seq(Tokens) /\ Len(part) = IF from <= to THEN to - from + 1 ELSE 0
      /\ \A i \in 1 .. to - from + 1 : part[i] = s[from + i - 1]
  BY <1>1, SubSeqProperties
<1>4. Len(part) = n
  BY <1>2, <1>3
<1>5. \A k \in 1 .. n : part[k] = s[m + k]
  BY <1>2, <1>3
<1> QED
  BY <1>3, <1>4, <1>5 DEF from, to

\* The chat: its prefix, the opening, the answer, the closing.
LEMMA ChatIs ==
    ASSUME RenderInv, answer \in [tokens : Answers, joined : BOOLEAN]
    PROVE  /\ Len(Prefix) \in Nat /\ Len(Opening) \in Nat
           /\ Len(answer.tokens) \in Nat /\ Len(Closing) \in Nat
           /\ Chat \in Seq(Tokens)
           /\ Len(Chat) = Len(Prefix) + Len(Opening) + Len(answer.tokens) + Len(Closing)
           /\ \A k \in 1 .. Len(Opening) : Chat[Len(Prefix) + k] = Opening[k]
           /\ \A k \in 1 .. Len(Closing) :
                  Chat[Len(Prefix) + Len(Opening) + Len(answer.tokens) + k] = Closing[k]
<1> DEFINE text == Within(answer.tokens, answer.joined)
           front == Prefix \o Opening
           whole == front \o text
<1>1. answer.tokens \in Seq(Tokens) /\ answer.joined \in BOOLEAN
  BY TextsAre
<1>2. text \in Seq(Tokens) /\ Len(text) = Len(answer.tokens)
  BY <1>1, WithinIs
<1>3. PICK p, o, a, c \in Nat :
          p = Len(Prefix) /\ o = Len(Opening) /\ a = Len(answer.tokens) /\ c = Len(Closing)
  BY <1>1, PrefixIs, TextsAre
<1>4. Prefix \in Seq(Tokens) /\ Opening \in Seq(Tokens) /\ Closing \in Seq(Tokens)
  BY PrefixIs, TextsAre
<1>5. PICK x, y \in Nat : x = p + o /\ y = p + o + a
  OBVIOUS
<1>6. /\ front \in Seq(Tokens) /\ Len(front) = x
      /\ \A k \in 1 .. o : front[p + k] = Opening[k]
  BY <1>3, <1>4, <1>5, Joins
<1>7. Chat = whole \o Closing
  BY DEF Chat
<1> HIDE DEF text, front
<1>8. whole \in Seq(Tokens) /\ Len(whole) = x + a /\ \A k \in 1 .. x : whole[k] = front[k]
  <2>1. a = Len(text) /\ x = Len(front) /\ text \in Seq(Tokens) /\ front \in Seq(Tokens)
    BY <1>2, <1>3, <1>6
  <2>2. /\ front \o text \in Seq(Tokens) /\ Len(front \o text) = x + a
        /\ \A k \in 1 .. x : (front \o text)[k] = front[k]
    BY <2>1, Joins
  <2> QED
    BY <2>2
<1>9. y = Len(whole)
  BY <1>5, <1>8
<1> HIDE DEF whole
<1>10. /\ Chat \in Seq(Tokens) /\ Len(Chat) = y + c
       /\ \A k \in 1 .. y : Chat[k] = whole[k]
       /\ \A k \in 1 .. c : Chat[y + k] = Closing[k]
  <2>1. c = Len(Closing) /\ y = Len(whole) /\ whole \in Seq(Tokens) /\ Closing \in Seq(Tokens)
    BY <1>3, <1>4, <1>8, <1>9
  <2> QED
    BY <1>7, <2>1, Joins
<1>11. ASSUME NEW k \in 1 .. o PROVE Chat[p + k] = Opening[k]
  <2>1. p + k \in 1 .. x /\ p + k \in 1 .. y
    BY <1>5
  <2> QED
    BY <1>6, <1>8, <1>10, <2>1
<1>12. Len(Chat) = p + o + a + c /\ \A k \in 1 .. c : Chat[p + o + a + k] = Closing[k]
  BY <1>5, <1>10
<1> QED
  BY <1>3, <1>10, <1>11, <1>12

\* An answer that is found is found where it is.
LEMMA LocatedIs ==
    ASSUME AnswersApart, RenderInv, answer \in [tokens : Answers, joined : BOOLEAN], ~Fallback
    PROVE  /\ answer.tokens # << >> /\ Located = Len(Prefix) + Len(Opening)
           /\ \A k \in 1 .. Len(answer.tokens) : Chat[Located + k] = answer.tokens[k]
<1>0. PICK p, o, a, c \in Nat :
          p = Len(Prefix) /\ o = Len(Opening) /\ a = Len(answer.tokens) /\ c = Len(Closing)
  BY ChatIs
<1>1. /\ p = Len(Prefix) /\ o = Len(Opening) /\ a = Len(answer.tokens)
      /\ Chat \in Seq(Tokens) /\ Len(Chat) = p + o + a + c
      /\ \A k \in 1 .. o : Chat[p + k] = Opening[k]
      /\ \A k \in 1 .. c : Chat[p + o + a + k] = Closing[k]
  BY <1>0, ChatIs
<1>2. answer.tokens \in Seq(Tokens) /\ answer.tokens \in Answers
  BY TextsAre
<1>3. PICK L \in Nat :
          /\ L = Located /\ L >= p /\ L <= p + o + c
          /\ answer.tokens # << >> /\ SubSeq(Chat, L + 1, L + a) = answer.tokens
  <2>1. /\ answer.tokens # << >> /\ Located \in p .. Len(Chat) - a
        /\ SubSeq(Chat, Located + 1, Located + a) = answer.tokens
    BY <1>1, <1>2, FindIs DEF Fallback, Located
  <2>2. Len(Chat) - a = p + o + c
    BY <1>1
  <2>3. Located \in Nat /\ Located >= p /\ Located <= p + o + c
    BY <2>1, <2>2
  <2> QED
    BY <2>1, <2>3
<1>4. /\ \A k \in 1 .. o : answer.tokens[1] # Opening[k]
      /\ \A k \in 1 .. c : answer.tokens[a] # Closing[k]
  BY <1>0, <1>1, <1>2, <1>3 DEF AnswersApart
<1>5. a >= 1
  BY <1>1, <1>2, <1>3
<1>6. \A k \in 1 .. a : Chat[L + k] = answer.tokens[k]
  <2>1. L + a <= Len(Chat)
    BY <1>1, <1>3
  <2> QED
    BY <1>1, <1>3, <2>1, Slices
<1>7. ~(L < p + o)
  <2> SUFFICES ASSUME L < p + o PROVE FALSE
    OBVIOUS
  <2>1. L + 1 - p \in 1 .. o /\ p + (L + 1 - p) = L + 1 /\ 1 \in 1 .. a
    BY <1>3, <1>5
  <2>2. Chat[L + 1] = Opening[L + 1 - p]
    BY <1>1, <2>1
  <2> QED
    BY <1>4, <1>6, <2>1, <2>2
<1>8. ~(L > p + o)
  <2> SUFFICES ASSUME L > p + o PROVE FALSE
    OBVIOUS
  <2>1. L - p - o \in 1 .. c /\ p + o + a + (L - p - o) = L + a /\ a \in 1 .. a
    BY <1>3, <1>5
  <2>2. Chat[L + a] = Closing[L - p - o]
    BY <1>1, <2>1
  <2> QED
    BY <1>4, <1>6, <2>1, <2>2
<1>9. L = p + o
  BY <1>7, <1>8
<1> QED
  BY <1>1, <1>3, <1>6, <1>9

\* What is taken of an answer is its beginning.
LEMMA ContentIs ==
    ASSUME AnswersApart, RenderInv, answer \in [tokens : Answers, joined : BOOLEAN], ~Fallback,
           NEW n, n = Min({Len(answer.tokens), MaxSummary})
    PROVE  /\ answer.tokens \in Seq(Tokens) /\ answer.tokens # << >>
           /\ n \in Nat /\ n >= 1 /\ n <= Len(answer.tokens) /\ n <= MaxSummary
           /\ n = Len(answer.tokens) \/ n = MaxSummary
           /\ Content \in Seq(Tokens) /\ Len(Content) = n
           /\ \A k \in 1 .. n : Content[k] = answer.tokens[k]
           /\ Rest \in Seq(Tokens) /\ Len(Rest) = Len(Closing)
           /\ AnswerStart \in Nat /\ AnswerEnd = AnswerStart + Len(answer.tokens)
           /\ AnswerEnd < Len(Chat) /\ Chat \in Seq(Tokens)
           /\ \A k \in 1 .. Len(answer.tokens) : Chat[AnswerStart + k] = answer.tokens[k]
<1>1. PICK p, o, a, c \in Nat :
          p = Len(Prefix) /\ o = Len(Opening) /\ a = Len(answer.tokens) /\ c = Len(Closing)
  BY ChatIs
<1>2. Chat \in Seq(Tokens) /\ Len(Chat) = p + o + a + c /\ c >= 1
  BY <1>1, ChatIs, TextsAre
<1>3. PICK L, y, M \in Nat : L = p + o /\ y = L + a /\ M = MaxSummary /\ M >= 1
  BY TextsAre
<1>4. answer.tokens \in Seq(Tokens) /\ answer.tokens # << >> /\ a >= 1
  <2>1. answer.tokens \in Seq(Tokens) /\ answer.tokens # << >>
    BY TextsAre, LocatedIs
  <2> QED
    BY <1>1, <2>1
<1>5. AnswerStart = L /\ AnswerEnd = y /\ \A k \in 1 .. a : Chat[L + k] = answer.tokens[k]
  BY <1>1, <1>3, LocatedIs DEF AnswerStart, AnswerEnd
<1>6. n = IF a <= M THEN a ELSE M
  BY <1>1, <1>3, MinOfTwo
<1>7. n \in Nat /\ n >= 1 /\ n <= a /\ n <= M /\ (n = a \/ n = M)
  BY <1>3, <1>4, <1>6
<1>8. Min({y, L + M}) = L + n
  <2>1. Min({y, L + M}) = IF y <= L + M THEN y ELSE L + M
    BY <1>3, MinOfTwo
  <2> QED
    BY <1>3, <1>6, <2>1
<1>9. Content = SubSeq(Chat, L + 1, L + n)
  BY <1>3, <1>5, <1>8 DEF Content
<1>10. Content \in Seq(Tokens) /\ Len(Content) = n /\ \A k \in 1 .. n : Content[k] = Chat[L + k]
  <2> DEFINE s == Chat
  <2>1. L + n <= Len(s) /\ s \in Seq(Tokens) /\ n \in Nat
    BY <1>2, <1>3, <1>7
  <2> HIDE DEF s
  <2>2. /\ SubSeq(s, L + 1, L + n) \in Seq(Tokens) /\ Len(SubSeq(s, L + 1, L + n)) = n
        /\ \A k \in 1 .. n : SubSeq(s, L + 1, L + n)[k] = s[L + k]
    BY <2>1, Slices
  <2> QED
    BY <1>9, <2>2 DEF s
<1>11. Len(Chat) = y + c
  BY <1>2, <1>3
<1>12. Rest \in Seq(Tokens) /\ Len(Rest) = c
  <2>1. Rest = SubSeq(Chat, y + 1, y + c)
    BY <1>5, <1>11 DEF Rest
  <2>2. y + c <= Len(Chat)
    BY <1>11
  <2> QED
    BY <1>2, <2>1, <2>2, Slices
<1>13. ASSUME NEW k \in 1 .. n PROVE Content[k] = answer.tokens[k]
  <2>1. k \in 1 .. a
    BY <1>7
  <2> QED
    BY <1>5, <1>10, <2>1
<1>14. y < Len(Chat)
  BY <1>2, <1>11
<1> QED
  BY <1>1, <1>2, <1>3, <1>4, <1>5, <1>7, <1>10, <1>12, <1>13, <1>14

LEMMA MinOfThree ==
    ASSUME NEW a \in Nat, NEW b \in Nat, NEW c \in Nat, NEW m, m = Min({a, b, c})
    PROVE  m \in {a, b, c} /\ m <= a /\ m <= b /\ m <= c
<1>1. {a, b, c} \in SUBSET Nat /\ {a, b, c} # {}
  OBVIOUS
<1> QED
  BY <1>1, MinOfNats

\* An example within the budgets: the shortened prompt, what is taken of the
\* answer, and the rest.
LEMMA BudgetedIs ==
    ASSUME RenderInv, Fits, Content \in Seq(Tokens), Rest \in Seq(Tokens),
           NEW u, u = Min({Len(record.document), MaxSource,
                           MaxLength - Template - Len(Content) - Len(Rest)})
    PROVE  /\ u \in 0 .. Len(record.document)
           /\ Budgeted.from = Template + u /\ Budgeted.to = Template + u + Len(Content)
           /\ Budgeted.ids \in Seq(Tokens)
           /\ Len(Budgeted.ids) = Template + u + Len(Content) + Len(Rest)
           /\ Len(Budgeted.ids) <= MaxLength
           /\ \A k \in 1 .. Template + u : Budgeted.ids[k] = Shortened(u)[k]
           /\ \A k \in 1 .. Len(Content) : Budgeted.ids[Template + u + k] = Content[k]
<1> DEFINE before == Shortened(u)
           front == before \o Content
<1>1. Content \in Seq(Tokens) /\ Rest \in Seq(Tokens)
  OBVIOUS
<1>2. PICK t, d, n, c, S, M \in Nat :
          /\ t = Template /\ d = Len(record.document) /\ n = Len(Content) /\ c = Len(Rest)
          /\ S = MaxSource /\ M = MaxLength
  BY <1>1, PrefixIs, TextsAre
<1>3. SourceStart # NotFound /\ t + n + c <= M
  BY <1>2 DEF Fits
<1>4. PICK r \in Nat : r = M - t - n - c
  <2>1. M - t - n - c \in Nat
    BY <1>3
  <2> QED
    BY <2>1
<1>5. u = Min({d, S, r})
  BY <1>2, <1>4
<1>6. u \in Nat /\ u <= d /\ u <= r
  BY <1>5, MinOfThree
<1>7. before \in Seq(Tokens) /\ Len(before) = t + u
  <2>1. u \in 0 .. Len(record.document)
    BY <1>2, <1>6
  <2> QED
    BY <1>2, <1>3, <2>1, ShortenedIs
<1>8. PICK x \in Nat : x = t + u
  BY <1>6
<1>9. Budgeted = [ids |-> front \o Rest, from |-> Len(before), to |-> Len(before) + Len(Content)]
  BY DEF Budgeted
<1> HIDE DEF before
<1>10. /\ front \in Seq(Tokens) /\ Len(front) = x + n
       /\ \A k \in 1 .. x : front[k] = before[k]
       /\ \A k \in 1 .. n : front[x + k] = Content[k]
  <2>1. x = Len(before) /\ n = Len(Content)
    BY <1>2, <1>7, <1>8
  <2>2. /\ before \o Content \in Seq(Tokens) /\ Len(before \o Content) = x + n
        /\ \A k \in 1 .. x : (before \o Content)[k] = before[k]
        /\ \A k \in 1 .. n : (before \o Content)[x + k] = Content[k]
    <3>1. before \in Seq(Tokens) /\ Content \in Seq(Tokens)
      BY <1>1, <1>7
    <3> QED
      BY <2>1, <3>1, Joins
  <2> QED
    BY <2>2
<1> HIDE DEF front
<1>11. PICK y \in Nat : y = x + n
  BY <1>8
<1>12. /\ front \o Rest \in Seq(Tokens) /\ Len(front \o Rest) = y + c
       /\ \A k \in 1 .. y : (front \o Rest)[k] = front[k]
  <2>1. y = Len(front) /\ c = Len(Rest)
    BY <1>2, <1>10, <1>11
  <2>2. front \in Seq(Tokens) /\ Rest \in Seq(Tokens)
    BY <1>1, <1>10
  <2> QED
    BY <2>1, <2>2, Joins
<1>13. y + c = t + u + n + c /\ y + c <= M
  BY SMTT(30), <1>4, <1>6, <1>8, <1>11
<1>14. \A k \in 1 .. x : (front \o Rest)[k] = before[k]
  BY <1>10, <1>11, <1>12
<1>15. \A k \in 1 .. n : (front \o Rest)[x + k] = Content[k]
  <2>1. \A k \in 1 .. n : x + k \in 1 .. y
    BY <1>11
  <2> QED
    BY <1>10, <1>12, <2>1
<1>16. Budgeted.ids = front \o Rest /\ Budgeted.from = x /\ Budgeted.to = x + n
  BY <1>2, <1>7, <1>8, <1>9
<1>17. u \in 0 .. d /\ x = t + u
  BY <1>6, <1>8
<1> QED
  BY <1>1, <1>2, <1>12, <1>13, <1>14, <1>15, <1>16, <1>17 DEF before

LEMMA PartsAre ==
    ASSUME RenderInv, answer \in [tokens : Answers, joined : BOOLEAN]
    PROVE  /\ Content \in Seq(Tokens) /\ Rest \in Seq(Tokens)
           /\ Chat \in Seq(Tokens) /\ AnswerStart \in Nat /\ AnswerEnd \in Nat
<1>1. PICK p, o, a, c \in Nat :
          p = Len(Prefix) /\ o = Len(Opening) /\ a = Len(answer.tokens) /\ c = Len(Closing)
  BY ChatIs
<1>2. Chat \in Seq(Tokens) /\ Len(Chat) = p + o + a + c /\ answer.tokens \in Seq(Tokens)
  BY <1>1, ChatIs, TextsAre
<1>3. AnswerStart \in Nat /\ AnswerEnd \in Nat /\ AnswerStart <= AnswerEnd /\ AnswerEnd <= Len(Chat)
  <2>1. CASE Fallback
    <3> DEFINE S == {p} \cup {k \in p + 1 .. Len(Chat) : Chat[k] \notin Control}
    <3>1. S \in SUBSET Nat /\ S # {} /\ Len(Chat) \in Nat /\ p \in S /\ \A k \in S : k <= Len(Chat)
      BY <1>1, <1>2
    <3>2. AnswerStart = p /\ AnswerEnd = Max(S)
      BY <1>1, <2>1 DEF AnswerStart, AnswerEnd
    <3> HIDE DEF S
    <3>3. Max(S) \in S /\ \A k \in S : k <= Max(S)
      BY <3>1, MaxOfBounded
    <3> QED
      BY <3>1, <3>2, <3>3
  <2>2. CASE ~Fallback
    <3>1. Located \in p .. Len(Chat) - a
      BY <1>1, <1>2, <2>2, FindIs DEF Fallback, Located
    <3>2. Len(Chat) \in Nat
      BY <1>2
    <3>3. Located \in Nat /\ Located + a \in Nat /\ Located <= Located + a /\ Located + a <= Len(Chat)
      BY <3>1, <3>2
    <3> QED
      BY <1>1, <2>2, <3>3 DEF AnswerStart, AnswerEnd
  <2> QED
    BY <2>1, <2>2
<1>4. PICK L, y, z \in Nat : L = AnswerStart /\ y = AnswerEnd /\ z = Len(Chat) /\ L <= y /\ y <= z
  BY <1>2, <1>3
<1>5. Content \in Seq(Tokens)
  <2> DEFINE e == Min({y, L + MaxSummary})
  <2>1. e \in Nat /\ L <= e /\ e <= z
    <3>1. PICK M \in Nat : M = MaxSummary
      BY TextsAre
    <3>2. y \in Int /\ L + M \in Int
      OBVIOUS
    <3>3. e = IF y <= L + M THEN y ELSE L + M
      BY <3>1, <3>2, MinOfTwo
    <3> HIDE DEF e
    <3> QED
      BY <1>4, <3>3
  <2>2. PICK n \in Nat : e = L + n
    <3> HIDE DEF e
    <3>1. e - L \in Nat /\ e = L + (e - L)
      BY <2>1
    <3> QED
      BY <3>1
  <2>3. Content = SubSeq(Chat, L + 1, L + n)
    BY <1>4, <2>2 DEF Content
  <2>4. L + n <= Len(Chat)
    BY <1>4, <2>1, <2>2
  <2> QED
    BY <1>2, <2>3, <2>4, Slices
<1>6. Rest \in Seq(Tokens)
  <2>1. PICK n \in Nat : z = y + n
    <3>1. z - y \in Nat /\ z = y + (z - y)
      BY <1>4
    <3> QED
      BY <3>1
  <2>2. Rest = SubSeq(Chat, y + 1, y + n)
    BY <1>4, <2>1 DEF Rest
  <2>3. y + n <= Len(Chat)
    BY <1>4, <2>1
  <2> QED
    BY <1>2, <2>2, <2>3, Slices
<1> QED
  BY <1>2, <1>3, <1>5, <1>6

\* The ids that are kept, and the positions that are supervised.
LEMMA MaskedIs ==
    ASSUME NEW whole, whole.ids \in Seq(Tokens)
    PROVE  \E q \in Nat :
               /\ q = Min({MaxLength, Len(whole.ids)})
               /\ q = MaxLength \/ q = Len(whole.ids)
               /\ q <= MaxLength /\ q <= Len(whole.ids)
               /\ Masked(whole).ids \in Seq(Tokens) /\ Len(Masked(whole).ids) = q
               /\ \A k \in 1 .. q : Masked(whole).ids[k] = whole.ids[k]
               /\ Masked(whole).mask =
                      {p \in whole.from + 1 .. whole.to :
                           p < q /\ (Fallback => Masked(whole).ids[p] \notin Control)}
<1>1. PICK q \in Nat :
          /\ q = Min({MaxLength, Len(whole.ids)}) /\ q <= MaxLength /\ q <= Len(whole.ids)
          /\ q = MaxLength \/ q = Len(whole.ids)
  <2>1. MaxLength \in Nat /\ Len(whole.ids) \in Nat
    BY TextsAre
  <2> QED
    BY <2>1, MinOfTwo
<1> DEFINE ids == SubSeq(whole.ids, 1, q)
<1>2. ids \in Seq(Tokens) /\ Len(ids) = q /\ \A k \in 1 .. q : ids[k] = whole.ids[k]
  <2>1. 0 \in Nat /\ 0 + 1 = 1 /\ 0 + q = q /\ 0 + q <= Len(whole.ids) /\ \A k \in 1 .. q : 0 + k = k
    BY <1>1
  <2>2. /\ SubSeq(whole.ids, 0 + 1, 0 + q) \in Seq(Tokens)
        /\ Len(SubSeq(whole.ids, 0 + 1, 0 + q)) = q
        /\ \A k \in 1 .. q : SubSeq(whole.ids, 0 + 1, 0 + q)[k] = whole.ids[0 + k]
    BY <2>1, Slices
  <2> QED
    BY <2>1, <2>2
<1>3. Masked(whole) = [ids |-> ids,
                       mask |-> {p \in whole.from + 1 .. whole.to :
                                     p < Len(ids) /\ (Fallback => ids[p] \notin Control)}]
  BY <1>1 DEF Masked
<1> HIDE DEF ids
<1>4. /\ Masked(whole).ids = ids
      /\ Masked(whole).mask = {p \in whole.from + 1 .. whole.to :
                                   p < q /\ (Fallback => ids[p] \notin Control)}
  BY <1>2, <1>3
<1> QED
  BY <1>1, <1>2, <1>4

\* Where an interval of positions begins, and how many they are.
LEMMA IntervalIs ==
    ASSUME NEW b \in Nat, NEW n \in Nat, n >= 1, NEW S, S = b + 1 .. b + n
    PROVE  Min(S) - 1 = b /\ Cardinality(S) = n
<1>1. Min(S) = b + 1
  <2>1. S \in SUBSET Nat /\ S # {} /\ b + 1 \in S /\ \A k \in S : b + 1 <= k
    OBVIOUS
  <2>2. Min(S) \in S /\ Min(S) <= b + 1
    BY <2>1, MinOfNats
  <2> QED
    BY <2>1, <2>2
<1>2. Cardinality(S) = n
  <2> DEFINE x == b + 1
             y == b + n
  <2>1. x \in Int /\ y \in Int /\ ~(x > y) /\ y - x + 1 = n
    OBVIOUS
  <2> HIDE DEF x, y
  <2>2. Cardinality(x .. y) = n
    BY <2>1, FS_Interval
  <2> QED
    BY <2>2 DEF x, y
<1> QED
  BY <1>1, <1>2

\* The example of a found answer within the budgets.
LEMMA ExampleIs ==
    ASSUME AnswersApart, RenderInv, answer \in [tokens : Answers, joined : BOOLEAN], ~Fallback,
           record.budgeted, Fits,
           NEW u, u = Min({Len(record.document), MaxSource,
                           MaxLength - Template - Len(Content) - Len(Rest)})
    PROVE  /\ Rendered.mask = (Template + u) + 1 .. (Template + u) + Len(Content)
           /\ Rendered.ids \in Seq(Tokens)
           /\ Len(Rendered.ids) = Template + u + Len(Content) + Len(Rest)
           /\ \A k \in 1 .. Template + u : Rendered.ids[k] = Shortened(u)[k]
           /\ \A k \in 1 .. Len(Content) : Rendered.ids[Template + u + k] = Content[k]
<1>1. Content \in Seq(Tokens) /\ Rest \in Seq(Tokens)
  BY PartsAre
<1>2. Len(Rest) >= 1
  <2> DEFINE m == Min({Len(answer.tokens), MaxSummary})
  <2>1. PICK x : x = m
    OBVIOUS
  <2>2. Len(Rest) = Len(Closing)
    BY <2>1, ContentIs
  <2> QED
    BY <2>2, TextsAre
<1>3. /\ u \in 0 .. Len(record.document)
      /\ Budgeted.from = Template + u /\ Budgeted.to = Template + u + Len(Content)
      /\ Budgeted.ids \in Seq(Tokens)
      /\ Len(Budgeted.ids) = Template + u + Len(Content) + Len(Rest)
      /\ Len(Budgeted.ids) <= MaxLength
      /\ \A k \in 1 .. Template + u : Budgeted.ids[k] = Shortened(u)[k]
      /\ \A k \in 1 .. Len(Content) : Budgeted.ids[Template + u + k] = Content[k]
  BY <1>1, BudgetedIs
<1>4. PICK t, n, c, M, v \in Nat :
          /\ t = Template /\ n = Len(Content) /\ c = Len(Rest) /\ M = MaxLength /\ v = u
  <2>1. Template \in Nat /\ Len(record.document) \in Nat /\ MaxLength \in Nat
    BY PrefixIs, TextsAre
  <2>2. Len(Content) \in Nat /\ Len(Rest) \in Nat /\ u \in Nat
    BY <1>1, <1>3, <2>1
  <2> QED
    BY <2>1, <2>2
<1>5. PICK q \in Nat :
          /\ q = Min({MaxLength, Len(Budgeted.ids)})
          /\ q = MaxLength \/ q = Len(Budgeted.ids)
          /\ q <= MaxLength /\ q <= Len(Budgeted.ids)
          /\ Masked(Budgeted).ids \in Seq(Tokens) /\ Len(Masked(Budgeted).ids) = q
          /\ \A k \in 1 .. q : Masked(Budgeted).ids[k] = Budgeted.ids[k]
          /\ Masked(Budgeted).mask =
                 {p \in Budgeted.from + 1 .. Budgeted.to :
                      p < q /\ (Fallback => Masked(Budgeted).ids[p] \notin Control)}
  BY <1>3, MaskedIs
<1>6. q = t + v + n + c /\ c >= 1
  BY <1>2, <1>3, <1>4, <1>5
<1>7. Rendered = Masked(Budgeted)
  BY DEF Rendered
<1>8. Rendered.mask = {p \in (t + v) + 1 .. (t + v) + n : p < q}
  BY <1>3, <1>4, <1>5, <1>7
<1>9. Rendered.mask = (t + v) + 1 .. (t + v) + n
  <2>1. \A p \in (t + v) + 1 .. (t + v) + n : p < q
    BY <1>6
  <2> QED
    BY <1>8, <2>1
<1>10. \A k \in 1 .. t + v : Rendered.ids[k] = Shortened(u)[k]
  <2>1. \A k \in 1 .. t + v : k \in 1 .. q
    BY <1>6
  <2> QED
    BY <1>3, <1>4, <1>5, <1>7, <2>1
<1>11. \A k \in 1 .. n : Rendered.ids[t + v + k] = Content[k]
  <2>1. \A k \in 1 .. n : t + v + k \in 1 .. q
    BY <1>6
  <2> QED
    BY ZenonT(30), <1>3, <1>4, <1>5, <1>7, <2>1
<1> QED
  BY <1>4, <1>5, <1>6, <1>7, <1>9, <1>10, <1>11

LEMMA SourceKept == ASSUME AnswersApart, RenderInv PROVE TeacherSourceKept
<1> SUFFICES ASSUME stage \in {"example", "dropped"}, record.budgeted, record.document # << >>,
                    ~Fallback, Len(answer.tokens) >= 2,
                    Len(answer.tokens) + Len(Closing) <= MaxSummary
             PROVE  stage = "example" /\ Begins >= Len(prompt)
  BY DEF TeacherSourceKept
<1>1. answer \in [tokens : Answers, joined : BOOLEAN] /\ Prompted
  BY DEF RenderInv
<1>2. PICK m : m = Min({Len(answer.tokens), MaxSummary})
  OBVIOUS
<1>3. /\ m \in Nat /\ m >= 1 /\ m <= Len(answer.tokens) /\ m <= MaxSummary
      /\ m = Len(answer.tokens) \/ m = MaxSummary
      /\ Content \in Seq(Tokens) /\ Len(Content) = m
      /\ Rest \in Seq(Tokens) /\ Len(Rest) = Len(Closing)
      /\ answer.tokens \in Seq(Tokens)
  BY <1>1, <1>2, ContentIs
<1>4. PICK t, n, c, d, M, S, B \in Nat :
          /\ t = Template /\ n = Len(Content) /\ c = Len(Rest) /\ d = Len(record.document)
          /\ M = MaxLength /\ S = MaxSource /\ B = MaxSummary
  <2>1. Template \in Nat /\ Len(record.document) \in Nat
    BY PrefixIs
  <2>2. MaxLength \in Nat /\ MaxSource \in Nat /\ MaxSummary \in Nat
    BY TextsAre
  <2>3. Len(Content) \in Nat /\ Len(Rest) \in Nat
    BY <1>3
  <2> QED
    BY <2>1, <2>2, <2>3
<1>5. n + c <= B /\ n >= 2
  BY <1>3, <1>4, TextsAre
<1>6. SourceStart # NotFound /\ M - B - t >= 0
  BY <1>1, <1>4 DEF Prompted
<1>7. Fits
  BY <1>4, <1>5, <1>6 DEF Fits
<1>8. PICK r, s \in Nat : r = M - t - n - c /\ s = M - B - t /\ s <= r
  <2>1. M - t - n - c \in Nat /\ M - B - t \in Nat /\ M - B - t <= M - t - n - c
    BY <1>5, <1>6
  <2> QED
    BY <2>1
<1>9. PICK u : u = Min({d, S, r})
  OBVIOUS
<1>10. PICK v : v = Min({d, S, s})
  OBVIOUS
<1>11. u \in {d, S, r} /\ v <= d /\ v <= S /\ v <= s /\ v \in {d, S, s}
  BY <1>9, <1>10, MinOfThree
<1>12. u \in Nat /\ v \in 0 .. d /\ v <= u
  BY <1>8, <1>11
<1>13. Rendered.mask = (t + u) + 1 .. (t + u) + n
  BY <1>1, <1>4, <1>7, <1>8, <1>9, ExampleIs
<1>14. Kept
  <2>1. (t + u) + 1 \in Rendered.mask /\ ((t + u) + 1) + 1 \in Rendered.mask
    BY <1>5, <1>12, <1>13
  <2> QED
    BY <1>7, <2>1 DEF Kept
<1>15. stage = "example" /\ example = Rendered
  BY <1>14 DEF RenderInv
<1>16. Begins = t + u
  <2>1. t + u \in Nat /\ n \in Nat /\ n >= 1
    BY <1>5, <1>12
  <2> QED
    BY <1>13, <1>15, <2>1, IntervalIs DEF Begins
<1>17. Len(prompt) = t + v
  <2>1. prompt = Shortened(v)
    BY <1>1, <1>4, <1>8, <1>10 DEF Prompted
  <2> QED
    BY <1>4, <1>6, <1>12, <2>1, ShortenedIs
<1> QED
  BY <1>12, <1>15, <1>16, <1>17

\* When the answer leaves the template room for its closing within the budget
\* of the answer, an example is trained on, and the draft sees all of the
\* document that the teacher has seen (render_summary_example,
\* render_summary_prompt): for all templates, budgets, documents and answers,
\* unless an answer begins or ends with a token the template puts around it.
THEOREM DraftSeesSource ==
    ASSUME AnswersApart
    PROVE  Spec => []TeacherSourceKept
<1>1. Init => RenderInv
  BY RenderInitInv DEF Init
<1>2. RenderInv /\ [Next]_vars => RenderInv'
  BY RenderKeeps
<1>3. RenderInv => TeacherSourceKept
  BY SourceKept
<1> QED
  BY <1>1, <1>2, <1>3, PTL DEF Spec

\* The document is where the template puts it: it does not occur earlier.
DocumentsApart ==
    \A d \in Documents : d # << >> => Find(Before \o d \o After, d, 0) = Len(Before)

\* Positions b + 1 to b + n of an example are the beginning of the answer.
LEMMA Supervised ==
    ASSUME NEW ids \in Seq(Tokens), NEW mask, NEW b \in Nat, NEW n \in Nat, n >= 1,
           answer.tokens \in Seq(Tokens), n <= Len(answer.tokens), b + n <= Len(ids),
           mask = b + 1 .. b + n, \A k \in 1 .. n : ids[b + k] = answer.tokens[k],
           example.ids = ids, example.mask = mask
    PROVE  /\ Begins = b /\ Cardinality(example.mask) = n
           /\ SubSeq(example.ids, Begins + 1, Begins + n) = SubSeq(answer.tokens, 1, n)
<1>1. Begins = b /\ Cardinality(example.mask) = n
  BY IntervalIs DEF Begins
<1> DEFINE s == SubSeq(ids, b + 1, b + n)
           t == SubSeq(answer.tokens, 0 + 1, 0 + n)
<1>2. s \in Seq(Tokens) /\ Len(s) = n /\ \A k \in 1 .. n : s[k] = ids[b + k]
  BY Slices
<1>3. t \in Seq(Tokens) /\ Len(t) = n /\ \A k \in 1 .. n : t[k] = answer.tokens[0 + k]
  <2>1. 0 \in Nat /\ 0 + n <= Len(answer.tokens)
    OBVIOUS
  <2> QED
    BY <2>1, Slices
<1>4. 0 + 1 = 1 /\ 0 + n = n /\ \A k \in 1 .. n : 0 + k = k
  OBVIOUS
<1> HIDE DEF s, t
<1>5. ASSUME NEW k \in 1 .. Len(s) PROVE s[k] = t[k]
  <2>1. k \in 1 .. n /\ 0 + k = k
    BY <1>2, <1>4
  <2>2. s[k] = ids[b + k] /\ t[k] = answer.tokens[k] /\ ids[b + k] = answer.tokens[k]
    BY <1>2, <1>3, <2>1
  <2> QED
    BY <2>2
<1>6. s = t
  BY <1>2, <1>3, <1>5, SeqEqual
<1> QED
  BY <1>1, <1>4, <1>6 DEF s, t

\* The prompt of an example lacks nothing but the end of its document.
LEMMA ShortenedAt ==
    ASSUME DocumentsApart, RenderInv, ~record.joined, record.document # << >>,
           NEW u \in 0 .. Len(record.document)
    PROVE  Shortened(u) = Before \o SubSeq(record.document, 1, u) \o After
<1> DEFINE D == record.document
           front == Before \o D
           part == SubSeq(D, 1, u)
           head == SubSeq(Prefix, 0 + 1, 0 + (Len(Before) + u))
           tail == SubSeq(Prefix, (Len(Before) + Len(D)) + 1, (Len(Before) + Len(D)) + Len(After))
<1>1. /\ D \in Seq(Tokens) /\ D \in Documents /\ Before \in Seq(Tokens) /\ After \in Seq(Tokens)
      /\ Prefix = front \o After
  BY TextsAre, PrefixIs, WithinIs DEF RenderInv, RecordSpace, Prefix
<1>2. SourceStart = Len(Before)
  <2>1. Prefix = Before \o D \o After
    BY <1>1
  <2> QED
    BY <1>1, <2>1 DEF SourceStart, DocumentsApart
<1>3. PICK b, d, a, y, x \in Nat :
          /\ b = Len(Before) /\ d = Len(D) /\ a = Len(After) /\ y = b + d /\ x = b + u
  <2>1. Len(Before) \in Nat /\ Len(D) \in Nat /\ Len(After) \in Nat /\ u \in Nat
    BY <1>1
  <2> QED
    BY <2>1
<1>4. u \in Nat /\ u <= d
  BY <1>3
<1>5. /\ front \in Seq(Tokens) /\ Len(front) = y
      /\ \A k \in 1 .. b : front[k] = Before[k]
      /\ \A k \in 1 .. d : front[b + k] = D[k]
  BY <1>1, <1>3, Joins
<1> HIDE DEF front
<1>6. /\ Prefix \in Seq(Tokens) /\ Len(Prefix) = y + a
      /\ \A k \in 1 .. y : Prefix[k] = front[k]
      /\ \A k \in 1 .. a : Prefix[y + k] = After[k]
  <2>1. y = Len(front) /\ a = Len(After) /\ front \in Seq(Tokens) /\ After \in Seq(Tokens)
    BY <1>1, <1>3, <1>5
  <2> QED
    BY <1>1, <2>1, Joins
<1>7. Shortened(u) = SubSeq(Prefix, 0 + 1, 0 + x) \o SubSeq(Prefix, y + 1, y + a)
  <2>1. /\ SourceStart + u = 0 + x /\ 1 = 0 + 1
        /\ SourceStart + Len(D) + 1 = y + 1 /\ Len(Prefix) = y + a
    BY <1>2, <1>3, <1>6
  <2> QED
    BY <2>1 DEF Shortened
<1>8. SubSeq(Prefix, y + 1, y + a) = After
  <2>1. /\ SubSeq(Prefix, y + 1, y + a) \in Seq(Tokens) /\ Len(SubSeq(Prefix, y + 1, y + a)) = a
        /\ \A k \in 1 .. a : SubSeq(Prefix, y + 1, y + a)[k] = Prefix[y + k]
    <3>1. y + a <= Len(Prefix)
      BY <1>6
    <3> QED
      BY <1>6, <3>1, Slices
  <2> QED
    <3> DEFINE s == SubSeq(Prefix, y + 1, y + a)
    <3>1. s \in Seq(Tokens) /\ After \in Seq(Tokens) /\ Len(s) = Len(After)
      BY <1>1, <1>3, <2>1
    <3>2. \A k \in 1 .. Len(s) : s[k] = After[k]
      BY <1>6, <2>1
    <3> HIDE DEF s
    <3>3. s = After
      BY <3>1, <3>2, SeqEqual
    <3> QED
      BY <3>3 DEF s
<1>9. /\ part \in Seq(Tokens) /\ Len(part) = u /\ \A k \in 1 .. u : part[k] = D[k]
  <2>1. 0 \in Nat /\ 0 + u <= Len(D) /\ 0 + 1 = 1 /\ 0 + u = u /\ \A k \in 1 .. u : 0 + k = k
    BY <1>3, <1>4
  <2>2. /\ SubSeq(D, 0 + 1, 0 + u) \in Seq(Tokens) /\ Len(SubSeq(D, 0 + 1, 0 + u)) = u
        /\ \A k \in 1 .. u : SubSeq(D, 0 + 1, 0 + u)[k] = D[0 + k]
    BY <1>1, <1>4, <2>1, Slices
  <2> QED
    BY <2>1, <2>2
<1> HIDE DEF part
<1>10. /\ Before \o part \in Seq(Tokens) /\ Len(Before \o part) = x
       /\ \A k \in 1 .. b : (Before \o part)[k] = Before[k]
       /\ \A k \in 1 .. u : (Before \o part)[b + k] = part[k]
  <2>1. Len(part) = u
    BY <1>9
  <2> QED
    BY <1>1, <1>3, <1>9, <2>1, Joins
<1>11. SubSeq(Prefix, 0 + 1, 0 + x) = Before \o part
  <2> DEFINE s == SubSeq(Prefix, 0 + 1, 0 + x)
             t == Before \o part
  <2>1. s \in Seq(Tokens) /\ Len(s) = x /\ \A k \in 1 .. x : s[k] = Prefix[0 + k]
    <3>1. 0 \in Nat /\ 0 + x <= Len(Prefix)
      BY <1>3, <1>4, <1>6
    <3> QED
      BY <1>6, <3>1, Slices
  <2> HIDE DEF s
  <2>2. ASSUME NEW k \in 1 .. x PROVE s[k] = t[k]
    <3>1. s[k] = front[k]
      <4>1. k \in 1 .. y /\ 0 + k = k
        BY <1>3, <1>4
      <4> QED
        BY <1>6, <2>1, <4>1
    <3>2. CASE k <= b
      <4>1. k \in 1 .. b
        BY <3>2
      <4> QED
        BY <1>5, <1>10, <3>1, <4>1
    <3>3. CASE ~(k <= b)
      <4>1. k - b \in 1 .. u /\ k - b \in 1 .. d /\ b + (k - b) = k
        BY <1>3, <1>4, <3>3
      <4> QED
        BY <1>5, <1>9, <1>10, <3>1, <4>1
    <3> QED
      BY <3>2, <3>3
  <2> HIDE DEF t
  <2>3. t \in Seq(Tokens) /\ Len(t) = x
    BY <1>10 DEF t
  <2>4. s = t
    BY <2>1, <2>2, <2>3, SeqEqual
  <2> QED
    BY <2>4 DEF s, t
<1> QED
  BY <1>7, <1>8, <1>11 DEF part

\* An example is within the length of a sequence, and nothing that is not found
\* is supervised on a control token.
LEMMA WholeIs ==
    ASSUME RenderInv, answer \in [tokens : Answers, joined : BOOLEAN], record.budgeted => Fits
    PROVE  /\ Rendered.ids \in Seq(Tokens) /\ Len(Rendered.ids) <= MaxLength
           /\ Fallback => \A p \in Rendered.mask : Rendered.ids[p] \notin Control
<1> DEFINE whole == IF record.budgeted THEN Budgeted ELSE Unbudgeted
<1>1. whole.ids \in Seq(Tokens)
  <2>1. CASE record.budgeted
    BY <2>1, PartsAre, BudgetedIs
  <2>2. CASE ~record.budgeted
    BY <2>2, PartsAre DEF Unbudgeted
  <2> QED
    BY <2>1, <2>2
<1>2. Rendered = Masked(whole)
  BY DEF Rendered
<1> HIDE DEF whole
<1>3. PICK q \in Nat :
          /\ q <= MaxLength /\ Masked(whole).ids \in Seq(Tokens) /\ Len(Masked(whole).ids) = q
          /\ Masked(whole).mask = {p \in whole.from + 1 .. whole.to :
                                       p < q /\ (Fallback => Masked(whole).ids[p] \notin Control)}
  BY <1>1, MaskedIs
<1> QED
  BY <1>2, <1>3

\* An example without budgets begins with the chat, and what is supervised of it
\* is the answer up to the last position but one.
LEMMA ChatSupervised ==
    ASSUME AnswersApart, RenderInv, answer \in [tokens : Answers, joined : BOOLEAN], ~Fallback,
           ~record.budgeted, Rendered.mask # {}
    PROVE  \E n \in Nat :
               /\ n >= 1 /\ n <= Len(answer.tokens) /\ AnswerStart + n <= Len(Rendered.ids)
               /\ Rendered.mask = AnswerStart + 1 .. AnswerStart + n
               /\ \A k \in 1 .. n : Rendered.ids[AnswerStart + k] = answer.tokens[k]
<1>1. /\ answer.tokens \in Seq(Tokens) /\ AnswerStart \in Nat
      /\ AnswerEnd = AnswerStart + Len(answer.tokens) /\ Chat \in Seq(Tokens)
      /\ \A k \in 1 .. Len(answer.tokens) : Chat[AnswerStart + k] = answer.tokens[k]
  BY ContentIs
<1>2. Unbudgeted.ids = Chat /\ Unbudgeted.from = AnswerStart /\ Unbudgeted.to = AnswerEnd
  BY DEF Unbudgeted
<1>3. PICK q \in Nat :
          /\ Len(Masked(Unbudgeted).ids) = q
          /\ \A k \in 1 .. q : Masked(Unbudgeted).ids[k] = Unbudgeted.ids[k]
          /\ Masked(Unbudgeted).mask =
                 {p \in Unbudgeted.from + 1 .. Unbudgeted.to :
                      p < q /\ (Fallback => Masked(Unbudgeted).ids[p] \notin Control)}
  BY <1>1, <1>2, MaskedIs
<1>4. PICK b, l \in Nat : b = AnswerStart /\ l = Len(answer.tokens)
  BY <1>1
<1>5. Rendered = Masked(Unbudgeted)
  BY DEF Rendered
<1> DEFINE ids == Rendered.ids
           mask == Rendered.mask
<1>6. /\ Len(ids) = q /\ \A k \in 1 .. q : ids[k] = Chat[k]
      /\ mask = {p \in b + 1 .. b + l : p < q}
  BY <1>1, <1>2, <1>3, <1>4, <1>5
<1> HIDE DEF ids, mask
<1>7. PICK n \in Nat : n = IF l <= q - 1 - b THEN l ELSE q - 1 - b
  <2>1. PICK p \in mask : TRUE
    BY DEF mask
  <2>2. p \in b + 1 .. b + l /\ p < q
    BY <1>6, <2>1
  <2>3. b \in Nat /\ l \in Nat /\ q \in Nat /\ b + 1 <= p /\ p <= b + l /\ p \in Int
    BY <2>2
  <2>4. q - 1 - b \in Nat
    BY <2>2, <2>3
  <2> QED
    BY <2>3, <2>4
<1>8. mask = b + 1 .. b + n
  BY <1>4, <1>6, <1>7
<1>9. n >= 1
  <2>1. PICK p \in mask : TRUE
    BY DEF mask
  <2> QED
    BY <1>4, <1>7, <1>8, <2>1
<1>10. n <= l /\ b + n <= q
  BY <1>4, <1>7
<1>11. ASSUME NEW k \in 1 .. n PROVE ids[b + k] = answer.tokens[k]
  <2>1. b + k \in 1 .. q /\ k \in 1 .. l
    BY <1>4, <1>10
  <2> QED
    BY <1>1, <1>4, <1>6, <2>1
<1> QED
  BY <1>4, <1>6, <1>8, <1>9, <1>10, <1>11 DEF ids, mask

\* Behind a budgeted prompt stands the answer within its budget.
LEMMA BudgetSupervised ==
    ASSUME AnswersApart, RenderInv, answer \in [tokens : Answers, joined : BOOLEAN], ~Fallback,
           record.budgeted, Fits,
           NEW u, u = Min({Len(record.document), MaxSource,
                           MaxLength - Template - Len(Content) - Len(Rest)}),
           NEW n, n = Min({Len(answer.tokens), MaxSummary})
    PROVE  /\ u \in 0 .. Len(record.document) /\ Template + u \in Nat
           /\ n \in Nat /\ n >= 1 /\ n <= Len(answer.tokens)
           /\ Template + u + n <= Len(Rendered.ids)
           /\ Rendered.mask = (Template + u) + 1 .. (Template + u) + n
           /\ \A k \in 1 .. n : Rendered.ids[Template + u + k] = answer.tokens[k]
           /\ \A k \in 1 .. Template + u : Rendered.ids[k] = Shortened(u)[k]
<1>1. /\ n \in Nat /\ n >= 1 /\ n <= Len(answer.tokens)
      /\ Content \in Seq(Tokens) /\ Len(Content) = n
      /\ \A k \in 1 .. n : Content[k] = answer.tokens[k]
      /\ Rest \in Seq(Tokens)
  BY ContentIs
<1>2. u \in 0 .. Len(record.document)
  BY <1>1, BudgetedIs
<1>3. Template \in Nat /\ Len(Rest) \in Nat
  BY <1>1, PrefixIs
<1>4. /\ Rendered.mask = (Template + u) + 1 .. (Template + u) + Len(Content)
      /\ Len(Rendered.ids) = Template + u + Len(Content) + Len(Rest)
      /\ \A k \in 1 .. Template + u : Rendered.ids[k] = Shortened(u)[k]
      /\ \A k \in 1 .. Len(Content) : Rendered.ids[Template + u + k] = Content[k]
  BY ExampleIs
<1>5. Template + u + n <= Len(Rendered.ids) /\ Template + u \in Nat
  <2> DEFINE t == Template
             c == Len(Rest)
  <2>1. t \in Nat /\ c \in Nat /\ u \in Nat /\ n \in Nat
    <3>1. \A l \in Nat : 0 .. l \subseteq Nat
      OBVIOUS
    <3>2. Len(record.document) \in Nat
      BY PrefixIs
    <3> QED
      BY <1>1, <1>2, <1>3, <3>1, <3>2
  <2>2. Len(Rendered.ids) = t + u + n + c
    BY <1>1, <1>4
  <2> HIDE DEF t, c
  <2>3. t + u + n <= Len(Rendered.ids) /\ t + u \in Nat
    BY <2>1, <2>2
  <2> QED
    BY <2>3 DEF t
<1>6. ASSUME NEW k \in 1 .. n PROVE Rendered.ids[Template + u + k] = answer.tokens[k]
  BY <1>1, <1>4
<1> QED
  BY <1>1, <1>2, <1>4, <1>5, <1>6

LEMMA AnswerSupervised ==
    ASSUME AnswersApart, DocumentsApart, RenderInv PROVE SupervisesAnswer
<1> SUFFICES ASSUME stage = "example" PROVE SupervisesAnswer
  BY DEF SupervisesAnswer
<1>1. /\ answer \in [tokens : Answers, joined : BOOLEAN] /\ Kept /\ example = Rendered
      /\ record.budgeted => Fits
  BY DEF RenderInv, Kept
<1>2. /\ example.ids \in Seq(Tokens) /\ Len(example.ids) <= MaxLength
      /\ Fallback => \A p \in example.mask : example.ids[p] \notin Control
  BY <1>1, WholeIs
<1>3. CASE Fallback
  BY <1>2, <1>3 DEF SupervisesAnswer
<1>4. CASE ~Fallback /\ ~record.budgeted
  <2>1. Rendered.mask # {}
    BY <1>1 DEF Kept
  <2>2. PICK n \in Nat :
            /\ n >= 1 /\ n <= Len(answer.tokens) /\ AnswerStart + n <= Len(Rendered.ids)
            /\ Rendered.mask = AnswerStart + 1 .. AnswerStart + n
            /\ \A k \in 1 .. n : Rendered.ids[AnswerStart + k] = answer.tokens[k]
    BY <1>1, <1>4, <2>1, ChatSupervised
  <2>3. AnswerStart \in Nat /\ answer.tokens \in Seq(Tokens)
    <3>1. ~Fallback /\ Min({Len(answer.tokens), MaxSummary}) = Min({Len(answer.tokens), MaxSummary})
      BY <1>4
    <3> QED
      BY <1>1, <3>1, ContentIs
  <2> DEFINE ids == Rendered.ids
             mask == Rendered.mask
             b == AnswerStart
  <2>4. /\ ids \in Seq(Tokens) /\ b \in Nat /\ n \in Nat /\ n >= 1
        /\ answer.tokens \in Seq(Tokens) /\ n <= Len(answer.tokens) /\ b + n <= Len(ids)
        /\ mask = b + 1 .. b + n /\ \A k \in 1 .. n : ids[b + k] = answer.tokens[k]
        /\ example.ids = ids /\ example.mask = mask
    BY <1>1, <1>2, <2>2, <2>3
  <2> HIDE DEF ids, mask, b
  <2>5. /\ Begins = b /\ Cardinality(example.mask) = n
        /\ SubSeq(example.ids, Begins + 1, Begins + n) = SubSeq(answer.tokens, 1, n)
    BY ZenonT(60), <2>4, Supervised
  <2> QED
    BY <1>2, <1>4, <2>4, <2>5 DEF SupervisesAnswer
<1>5. CASE ~Fallback /\ record.budgeted
  <2> DEFINE D == record.document
             u == Min({Len(record.document), MaxSource, MaxLength - Template - Len(Content) - Len(Rest)})
             n == Min({Len(answer.tokens), MaxSummary})
             b == Template + u
             ids == Rendered.ids
             mask == Rendered.mask
             s == Shortened(u)
  <2>1. /\ u \in 0 .. Len(D) /\ b \in Nat /\ n \in Nat /\ n >= 1 /\ n <= Len(answer.tokens)
        /\ b + n <= Len(ids) /\ mask = b + 1 .. b + n
        /\ \A k \in 1 .. n : ids[b + k] = answer.tokens[k]
        /\ \A k \in 1 .. b : ids[k] = s[k]
    BY <1>1, <1>5, BudgetSupervised
  <2>2. answer.tokens \in Seq(Tokens)
    BY <1>1, <1>5, ContentIs
  <2>3. /\ D \in Seq(Tokens) /\ Template = Len(Before) + Len(After)
        /\ Before \in Seq(Tokens) /\ After \in Seq(Tokens)
    BY PrefixIs, TextsAre
  <2>4. D # << >>
    <3>1. Prefix \in Seq(Tokens) /\ 0 \in Nat
      BY PrefixIs
    <3>2. Find(Prefix, D, 0) # NotFound
      BY <1>1, <1>5 DEF Fits, SourceStart
    <3> QED
      BY <2>3, <3>1, <3>2, FindIs
  <2>5. ~record.joined => s = Before \o SubSeq(D, 1, u) \o After
    BY <2>1, <2>4, ShortenedAt
  <2>6. example.ids = ids /\ example.mask = mask /\ ids \in Seq(Tokens)
    BY <1>1, <1>2
  <2>7. b = Template + u /\ n = Min({Len(answer.tokens), MaxSummary})
    OBVIOUS
  <2> HIDE DEF u, n, b, ids, mask, s
  <2>8. /\ Begins = b /\ Cardinality(example.mask) = n
        /\ SubSeq(example.ids, Begins + 1, Begins + n) = SubSeq(answer.tokens, 1, n)
    <3>1. /\ ids \in Seq(Tokens) /\ b \in Nat /\ n \in Nat /\ n >= 1
          /\ answer.tokens \in Seq(Tokens) /\ n <= Len(answer.tokens) /\ b + n <= Len(ids)
          /\ mask = b + 1 .. b + n /\ \A k \in 1 .. n : ids[b + k] = answer.tokens[k]
          /\ example.ids = ids /\ example.mask = mask
      BY <2>1, <2>2, <2>6
    <3> QED
      BY ZenonT(60), <3>1, Supervised
  <2>9. Begins - Len(Before) - Len(After) = u
    <3>1. Len(Before) \in Nat /\ Len(After) \in Nat /\ u \in Int
      BY <2>1, <2>3
    <3> QED
      BY <2>3, <2>7, <2>8, <3>1
  <2>10. ASSUME ~record.joined PROVE SubSeq(ids, 1, b) = Before \o SubSeq(D, 1, u) \o After
    <3> DEFINE part == SubSeq(D, 1, u)
               t == Before \o part \o After
               h == SubSeq(ids, 0 + 1, 0 + b)
    <3>1. part \in Seq(Tokens) /\ Len(part) = u
      <4>1. 0 \in Nat /\ u \in Nat /\ 0 + u <= Len(D) /\ 0 + 1 = 1 /\ 0 + u = u
        BY <2>1
      <4>2. SubSeq(D, 0 + 1, 0 + u) \in Seq(Tokens) /\ Len(SubSeq(D, 0 + 1, 0 + u)) = u
        BY <2>3, <4>1, Slices
      <4> QED
        BY <4>1, <4>2
    <3> HIDE DEF part
    <3>2. t \in Seq(Tokens) /\ Len(t) = b
      <4>1. Before \o part \in Seq(Tokens) /\ Len(Before \o part) = Len(Before) + u
        <5>1. u = Len(part) /\ Len(Before) = Len(Before)
          BY <3>1
        <5> QED
          BY <2>3, <3>1, <5>1, Joins
      <4> DEFINE front == Before \o part
      <4>2. front \in Seq(Tokens) /\ Len(front) = Len(Before) + u
        BY <4>1
      <4> HIDE DEF front
      <4>3. front \o After \in Seq(Tokens) /\ Len(front \o After) = Len(front) + Len(After)
        <5>1. PICK x, y : x = Len(front) /\ y = Len(After)
          OBVIOUS
        <5>2. front \o After \in Seq(Tokens) /\ Len(front \o After) = x + y
          BY <2>3, <4>2, <5>1, Joins
        <5> QED
          BY <5>1, <5>2
      <4>4. Len(Before) + u + Len(After) = b
        <5>1. Len(Before) \in Nat /\ Len(After) \in Nat /\ u \in Int
          BY <2>1, <2>3
        <5> QED
          BY <2>3, <2>7, <5>1
      <4> QED
        BY <4>2, <4>3, <4>4 DEF front
    <3>3. h \in Seq(Tokens) /\ Len(h) = b /\ \A k \in 1 .. b : h[k] = ids[0 + k]
      <4>1. 0 \in Nat /\ 0 + b <= Len(ids)
        <5>1. Len(ids) \in Nat
          BY <2>6
        <5> QED
          BY <2>1, <5>1
      <4> QED
        BY <2>1, <2>6, <4>1, Slices
    <3>4. s = t
      BY <2>5, <2>10 DEF part
    <3>5. 0 + 1 = 1 /\ 0 + b = b /\ \A k \in 1 .. b : 0 + k = k
      BY <2>1
    <3> HIDE DEF h, t
    <3>6. ASSUME NEW k \in 1 .. Len(h) PROVE h[k] = t[k]
      <4>1. k \in 1 .. b /\ 0 + k = k
        BY <3>3, <3>5
      <4>2. h[k] = ids[k] /\ ids[k] = s[k]
        BY <2>1, <3>3, <4>1
      <4> QED
        BY <3>4, <4>2
    <3>7. h = t
      BY <3>2, <3>3, <3>6, SeqEqual
    <3> QED
      BY <3>5, <3>7 DEF h, t, part
  <2> QED
    BY <1>2, <1>5, <2>1, <2>6, <2>7, <2>8, <2>9, <2>10 DEF SupervisesAnswer
<1> QED
  BY <1>3, <1>4, <1>5

\* What is supervised is the beginning of the teacher's summary, all that its
\* budget allows, behind a prompt that lacks nothing but the end of its document
\* (render_summary_example): for every template, document, answer and budget, if
\* a document and an answer are not found but where they are.
THEOREM AnswersSupervised ==
    ASSUME AnswersApart, DocumentsApart
    PROVE  Spec => []SupervisesAnswer
<1>1. Init => RenderInv
  BY RenderInitInv
<1>2. RenderInv /\ [Next]_vars => RenderInv'
  BY RenderKeeps
<1>3. RenderInv => SupervisesAnswer
  BY AnswerSupervised
<1> QED
  BY <1>1, <1>2, <1>3, PTL DEF Spec
=============================================================================
