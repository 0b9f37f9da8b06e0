------------------------ MODULE PreparedTeacherProofs ------------------------
(***************************************************************************)
(* What dataset preparation and teacher generation promise, proved for     *)
(* every corpus, every number of records and faults, every window and      *)
(* every set of world sizes that a theorem does not restrict.              *)
(*                                                                         *)
(* In this order: finite sets counted; a job of several ranks, its teacher *)
(* file (Inv) and its totals (Counted); what a job leaves on disk (Tidy);  *)
(* a single process, its rows (Solo) and their order (Ordered); jobs of    *)
(* either kind in turn (Relaunched); the splits of a preparation           *)
(* (SplitInv); and generation on such a split.                             *)
(***************************************************************************)
EXTENDS PreparedTeacher, FiniteSetTheorems, WellFoundedInduction, TLAPS

-----------------------------------------------------------------------------
\* Counting the members of finite sets.

\* Induction over a finite set, without an operator: a collection of its
\* subsets has a smallest one.
LEMMA SmallestSubset ==
    ASSUME NEW S, IsFiniteSet(S), NEW T, T \subseteq SUBSET S, T # {}
    PROVE  \E R \in T : \A Q \in T : Q \subseteq R => Q = R
<1>1. FiniteSubsetsOf(S) = SUBSET S
  BY FS_FiniteSubsetsOfFinite
<1>2. IsWellFoundedOn(StrictSubsetOrdering(S), SUBSET S)
  BY <1>1, FS_StrictSubsetOrderingWellFounded
<1>3. \E R \in T : \A Q \in T : ~ (<<Q, R>> \in StrictSubsetOrdering(S))
  BY <1>2, WFMin
<1> QED
  BY <1>3 DEF StrictSubsetOrdering

\* The same of numbers.
LEMMA SmallestNumber ==
    ASSUME NEW S, S \subseteq Nat, S # {}
    PROVE  \E m \in S : \A k \in S : m <= k
<1>1. PICK n \in S : TRUE
  OBVIOUS
<1> DEFINE U == 0 .. n
           T == {0 .. k : k \in {j \in S : j <= n}}
<1>2. IsFiniteSet(U) /\ T \subseteq SUBSET U /\ T # {}
  <2>1. n \in Nat /\ 0 .. n \in T
    BY <1>1
  <2>2. IsFiniteSet(U)
    BY <2>1, FS_Interval
  <2>3. ASSUME NEW k \in S, k <= n PROVE 0 .. k \subseteq U
    BY <1>1, <2>3
  <2> QED
    BY <2>1, <2>2, <2>3
<1> HIDE DEF U, T
<1>3. PICK R \in T : \A Q \in T : Q \subseteq R => Q = R
  BY <1>2, SmallestSubset
<1>4. PICK m \in S : m <= n /\ R = 0 .. m
  BY <1>3 DEF T
<1>5. ASSUME NEW k \in S PROVE m <= k
  <2>1. CASE k <= n
    <3>1. k < m => 0 .. k \in T /\ 0 .. k \subseteq 0 .. m /\ m \notin 0 .. k /\ m \in 0 .. m
      BY <2>1 DEF T
    <3> QED
      BY <1>3, <1>4, <3>1
  <2>2. CASE k > n
    BY <1>1, <1>4, <2>2
  <2> QED
    BY <1>1, <2>1, <2>2
<1> QED
  BY <1>5

\* The values of a function on a finite set.
LEMMA FiniteImage ==
    ASSUME NEW S, IsFiniteSet(S), NEW f
    PROVE  IsFiniteSet({f[x] : x \in S})
<1> DEFINE T == {f[x] : x \in S}
           g == [x \in S |-> f[x]]
<1>1. g \in Surjection(S, T)
  BY DEF Surjection
<1> HIDE DEF g, T
<1>2. IsFiniteSet(T)
  BY <1>1, FS_Surjection
<1> QED
  BY <1>2 DEF T

\* Every number of a finite set has a rank, and no two the same.
LEMMA RankFacts ==
    ASSUME NEW S, S \subseteq Nat, IsFiniteSet(S)
    PROVE  /\ Cardinality(S) \in Nat
           /\ \A i \in S : Rank(S, i) \in 1 .. Cardinality(S)
           /\ \A i, j \in S : i < j => Rank(S, i) < Rank(S, j)
           /\ \A k \in 1 .. Cardinality(S) : \E i \in S : Rank(S, i) = k
<1> DEFINE below(i) == {j \in S : j <= i}
           n == Cardinality(S)
<1>1. n \in Nat
  BY FS_CardinalityType
<1>2. \A i \in S : IsFiniteSet(below(i)) /\ Rank(S, i) = Cardinality(below(i))
  BY FS_Subset DEF Rank
<1>3. ASSUME NEW i \in S PROVE Rank(S, i) \in 1 .. n
  <2>1. Rank(S, i) \in Nat /\ Rank(S, i) <= n
    BY <1>2, FS_Subset, FS_CardinalityType
  <2>2. Rank(S, i) # 0
    <3>1. i \in below(i)
      OBVIOUS
    <3>2. below(i) # {}
      BY <3>1
    <3> HIDE DEF below
    <3> QED
      BY <1>2, <3>2, FS_EmptySet
  <2> QED
    BY <1>1, <2>1, <2>2
<1>4. ASSUME NEW i \in S, NEW j \in S, i < j PROVE Rank(S, i) < Rank(S, j)
  <2>1. below(i) \subseteq below(j) /\ j \in below(j) /\ j \notin below(i)
    <3>1. ASSUME NEW k \in below(i) PROVE k \in below(j)
      <4>1. k \in S /\ k \in Int /\ i \in Int /\ j \in Int /\ k <= i
        OBVIOUS
      <4>2. k <= j
        BY <1>4, <4>1
      <4> QED
        BY <4>1, <4>2
    <3>2. i \in Int /\ j \in Int /\ j <= j /\ ~(j <= i)
      BY <1>4
    <3> QED
      BY <3>1, <3>2
  <2>2. below(i) # below(j)
    BY <2>1
  <2>3. Rank(S, i) \in Int /\ Rank(S, j) \in Int
    BY <1>3, <1>1
  <2> HIDE DEF below
  <2>4. Cardinality(below(i)) <= Cardinality(below(j)) /\ Cardinality(below(i)) # Cardinality(below(j))
    BY <1>2, <2>1, <2>2, FS_Subset
  <2> QED
    BY <1>2, <2>3, <2>4
<1> DEFINE f == [i \in S |-> Rank(S, i)]
<1>5. f \in Injection(S, 1 .. n)
  <2>1. f \in [S -> 1 .. n]
    BY <1>3
  <2>2. ASSUME NEW i \in S, NEW j \in S, f[i] = f[j] PROVE i = j
    <3>1. Rank(S, i) = Rank(S, j) /\ Rank(S, i) \in Int
      BY <1>1, <1>3, <2>2
    <3> QED
      BY <1>4, <3>1
  <2> HIDE DEF f
  <2> QED
    BY <2>1, <2>2 DEF Injection, IsInjective
<1>6. IsFiniteSet(1 .. n) /\ Cardinality(1 .. n) = n
  BY <1>1, FS_Interval
<1> HIDE DEF f
<1>7. f \in Surjection(S, 1 .. n)
  BY <1>5, <1>6, FS_Injection
<1>8. \A k \in 1 .. n : \E i \in S : f[i] = k
  BY <1>7 DEF Surjection
<1> QED
  BY <1>1, <1>3, <1>4, <1>8 DEF f

\* The k-th number of a finite set is the one of rank k.
LEMMA NthFacts ==
    ASSUME NEW S, S \subseteq Nat, IsFiniteSet(S)
    PROVE  /\ \A k \in 1 .. Cardinality(S) : Nth(S, k) \in S /\ Rank(S, Nth(S, k)) = k
           /\ \A i \in S : Nth(S, Rank(S, i)) = i
<1>1. ASSUME NEW k \in 1 .. Cardinality(S)
      PROVE  Nth(S, k) \in S /\ Rank(S, Nth(S, k)) = k
  <2>1. \E i \in S : Rank(S, i) = k
    BY RankFacts
  <2> QED
    BY <2>1 DEF Nth
<1>2. ASSUME NEW i \in S PROVE Nth(S, Rank(S, i)) = i
  <2>1. Rank(S, i) \in 1 .. Cardinality(S)
    BY RankFacts
  <2> DEFINE j == Nth(S, Rank(S, i))
  <2>2. j \in S /\ Rank(S, j) = Rank(S, i)
    BY <1>1, <2>1
  <2> HIDE DEF j
  <2>3. ~(i < j) /\ ~(j < i)
    <3>1. (i < j => Rank(S, i) < Rank(S, j)) /\ (j < i => Rank(S, j) < Rank(S, i))
      BY <2>2, RankFacts
    <3>2. Cardinality(S) \in Nat
      BY RankFacts
    <3>3. Rank(S, i) \in Int
      BY <2>1, <3>2
    <3> QED
      BY <2>2, <3>1, <3>3
  <2>4. i \in Int /\ j \in Int
    BY <2>2
  <2>5. i = j
    BY <2>3, <2>4
  <2> QED
    BY <2>5 DEF j
<1> QED
  BY <1>1, <1>2

\* The numbers of a set in increasing order are those numbers, each once.
LEMMA AscendingFacts ==
    ASSUME NEW S, S \subseteq Nat, IsFiniteSet(S)
    PROVE  /\ Ascending(S) \in Seq(S)
           /\ Len(Ascending(S)) = Cardinality(S)
           /\ {Ascending(S)[k] : k \in DOMAIN Ascending(S)} = S
<1> DEFINE n == Cardinality(S)
<1>1. n \in Nat /\ \A k \in 1 .. n : Nth(S, k) \in S
  BY RankFacts, NthFacts
<1>2. Ascending(S) = [k \in 1 .. n |-> Nth(S, k)]
  BY DEF Ascending
<1> HIDE DEF n
<1>3. Ascending(S) \in Seq(S) /\ Len(Ascending(S)) = n /\ DOMAIN Ascending(S) = 1 .. n
  BY <1>1, <1>2
<1>4. ASSUME NEW i \in S PROVE \E k \in 1 .. n : Ascending(S)[k] = i
  <2>1. Rank(S, i) \in 1 .. n /\ Nth(S, Rank(S, i)) = i
    BY RankFacts, NthFacts DEF n
  <2> QED
    BY <1>2, <2>1
<1>5. \A k \in 1 .. n : Ascending(S)[k] \in S
  BY <1>1, <1>2
<1> QED
  BY <1>3, <1>4, <1>5 DEF n

\* The elements of a sequence at some of its positions are those elements.
LEMMA SelectionFacts ==
    ASSUME NEW A, NEW s \in Seq(A), NEW K, K \subseteq DOMAIN s
    PROVE  /\ IsFiniteSet(K)
           /\ Selection(s, K) \in Seq(A)
           /\ Len(Selection(s, K)) = Cardinality(K)
           /\ {Selection(s, K)[k] : k \in DOMAIN Selection(s, K)} = {s[k] : k \in K}
<1> DEFINE n == Cardinality(K)
<1>1. DOMAIN s = 1 .. Len(s) /\ Len(s) \in Nat /\ \A k \in K : s[k] \in A
  OBVIOUS
<1>2. K \subseteq Nat /\ IsFiniteSet(K)
  <2>1. IsFiniteSet(1 .. Len(s))
    BY <1>1, FS_Interval
  <2> QED
    BY <1>1, <2>1, FS_Subset
<1>3. n \in Nat /\ \A k \in 1 .. n : Nth(K, k) \in K
  BY <1>2, RankFacts, NthFacts
<1>4. Selection(s, K) = [k \in 1 .. n |-> s[Nth(K, k)]]
  BY DEF Selection
<1> HIDE DEF n
<1>5. /\ Selection(s, K) \in Seq(A) /\ Len(Selection(s, K)) = n
      /\ DOMAIN Selection(s, K) = 1 .. n
  BY <1>1, <1>3, <1>4
<1>6. ASSUME NEW i \in K PROVE \E k \in 1 .. n : Selection(s, K)[k] = s[i]
  <2>1. Rank(K, i) \in 1 .. n /\ Nth(K, Rank(K, i)) = i
    BY <1>2, RankFacts, NthFacts DEF n
  <2> QED
    BY <1>4, <2>1
<1>7. \A k \in 1 .. n : \E i \in K : Selection(s, K)[k] = s[i]
  BY <1>3, <1>4
<1>8. {Selection(s, K)[k] : k \in DOMAIN Selection(s, K)} = {s[k] : k \in K}
  <2> DEFINE t == Selection(s, K)
  <2>1. /\ DOMAIN t = 1 .. n
        /\ \A i \in K : \E k \in 1 .. n : t[k] = s[i]
        /\ \A k \in 1 .. n : \E i \in K : t[k] = s[i]
    BY <1>5, <1>6, <1>7
  <2> HIDE DEF t
  <2>2. {t[k] : k \in DOMAIN t} = {s[k] : k \in K}
    BY <2>1
  <2> QED
    BY <2>2 DEF t
<1> QED
  BY <1>2, <1>5, <1>8 DEF n

-----------------------------------------------------------------------------
\* A job of several ranks: what it owes, and where that is.
Busy == {"scan", "generate", "generate_last", "write"}
Past == {"reduce", "barrier", "merge"}

\* The rows rank r owes among the first k records.
Owed(r, k) == {i \in Good : i < k /\ i % world = r}

\* A file that holds what rank r owes among the first k records, but for some
\* that are still elsewhere; an unreadable file promises nothing, as the merge
\* refuses it.
Holds(f, r, k, elsewhere) ==
    f # None /\ (Readable(f) => Owed(r, k) \subseteq RowsOf(f.lines) \cup elsewhere)

\* The only content the teacher file ever gets.
Exact == [lines |-> InOrder(Good), open |-> FALSE]

Typed ==
    /\ world \in Worlds
    /\ file \in [Names -> File \cup {None, Exact}]
    /\ \A r \in Ranks : file[r] \in File \cup {None}
    /\ file[Whole] \in {None, Exact}
    /\ part \in [Names -> File \cup {None}]
    /\ pc \in [Ranks -> {"start"} \cup Busy \cup Past \cup {"unlink", "print"} \cup Ended]
    /\ next \in [Ranks -> 0 .. N]
    /\ window \in [Ranks -> Seq(Records)]
    /\ done \in [Ranks -> SUBSET (Records \cup Unreadable)]

OnlyGood == \A r \in Ranks : \A f \in {part[r], file[r]} :
                f # None => RowsOf(f.lines) \subseteq Good \cup Unreadable

\* A working rank has in its .part file or its window what it owes so far.
WorkKept == \A r \in Job :
    /\ pc[r] = "start" => next[r] = 0
    /\ pc[r] \in Busy =>
          /\ Holds(part[r], r, next[r], RowsOf(window[r]))
          /\ Readable(part[r]) => done[r] \subseteq RowsOf(part[r].lines)

\* Until rank 0 has merged, a rank past its work has its shard on disk, and
\* when rank 0 comes to merge, so have all, those included that died since.
ShardKept ==
    /\ pc[0] \notin {"unlink", "print"} \cup Ended =>
          \A r \in Job : pc[r] \in Past \cup {"exit"} => Holds(file[r], r, N, {})
    /\ pc[0] = "merge" => \A r \in Job : Holds(file[r], r, N, {})

\* Rank 0 is the one that merges, and no rank outside the job runs.
Roles ==
    /\ \A r \in Ranks : pc[r] \in {"merge", "unlink", "print"} => r = 0
    /\ \A r \in Ranks \ Job : pc[r] = "exit"

Inv == Typed /\ OnlyGood /\ WorkKept /\ ShardKept /\ Roles

-----------------------------------------------------------------------------
\* Two lines joined are not a row.
LEMMA JoinedUnreadable == \A j, i : Joined(j, i) \in Unreadable
BY DEF Joined, Unreadable

\* What appending row i to file f does: a file again, with no other row than
\* i, and readable only if f was and with every row it had and i.
LEMMA AppendedFacts ==
    ASSUME NEW f \in File, NEW i \in Records \cup Unreadable
    PROVE  /\ Appended(f, i) \in File
           /\ Appended(f, i).lines # <<>>
           /\ RowsOf(Appended(f, i).lines) \subseteq RowsOf(f.lines) \cup {i} \cup Unreadable
           /\ RowsOf(Appended(f, i).lines) \cap Unreadable = {} =>
                 /\ RowsOf(f.lines) \cap Unreadable = {}
                 /\ RowsOf(f.lines) \cup {i} \subseteq RowsOf(Appended(f, i).lines)
<1>1. f.lines \in Seq(Records \cup Unreadable) /\ f.open \in BOOLEAN
  BY DEF File
<1>2. CASE f.open
  <2>1. f.lines # <<>> /\ Len(f.lines) \in DOMAIN f.lines
    BY <1>1, <1>2 DEF File
  <2> DEFINE l == [f.lines EXCEPT ![Len(f.lines)] = Joined(@, i)]
  <2>2. /\ l \in Seq(Records \cup Unreadable) /\ Len(l) = Len(f.lines) /\ l # <<>>
        /\ DOMAIN l = DOMAIN f.lines
        /\ l[Len(f.lines)] \in Unreadable
        /\ \A k \in DOMAIN l : l[k] \in Unreadable \/ l[k] = f.lines[k]
    BY <1>1, <2>1, JoinedUnreadable
  <2>3. Appended(f, i) = [lines |-> l, open |-> FALSE]
    BY <1>2 DEF Appended
  <2> QED
    BY <2>1, <2>2, <2>3 DEF File, RowsOf
<1>3. CASE ~f.open
  <2> DEFINE l == Append(f.lines, i)
  <2>1. /\ l \in Seq(Records \cup Unreadable) /\ l # <<>>
        /\ DOMAIN l = 1 .. Len(f.lines) + 1 /\ DOMAIN f.lines = 1 .. Len(f.lines)
        /\ l[Len(f.lines) + 1] = i
        /\ \A k \in 1 .. Len(f.lines) : l[k] = f.lines[k]
    BY <1>1
  <2>2. Appended(f, i) = [lines |-> l, open |-> FALSE]
    BY <1>1, <1>3 DEF Appended, File
  <2> HIDE DEF l
  <2>3. RowsOf(l) = RowsOf(f.lines) \cup {i}
    BY <2>1, <1>1 DEF RowsOf
  <2> QED
    BY <2>1, <2>2, <2>3 DEF File
<1> QED
  BY <1>1, <1>2, <1>3

\* The same of a write that is cut short.
LEMMA TornFacts ==
    ASSUME NEW f \in File, NEW i \in Records, NEW g \in Torn(f, i)
    PROVE  /\ g \in File
           /\ RowsOf(g.lines) \subseteq RowsOf(f.lines) \cup {i} \cup Unreadable
           /\ RowsOf(g.lines) \cap Unreadable = {} =>
                 /\ RowsOf(f.lines) \cap Unreadable = {}
                 /\ RowsOf(f.lines) \subseteq RowsOf(g.lines)
<1>1. CASE g = f
  BY <1>1
<1>2. CASE g # f
  <2>1. PICK j \in {i} \cup Unreadable : g = [Appended(f, j) EXCEPT !.open = TRUE]
    BY <1>2 DEF Torn
  <2>2. /\ Appended(f, j) \in File
        /\ Appended(f, j).lines # <<>>
        /\ RowsOf(Appended(f, j).lines) \subseteq RowsOf(f.lines) \cup {j} \cup Unreadable
        /\ RowsOf(Appended(f, j).lines) \cap Unreadable = {} =>
              /\ RowsOf(f.lines) \cap Unreadable = {}
              /\ RowsOf(f.lines) \cup {j} \subseteq RowsOf(Appended(f, j).lines)
    <3>1. j \in Records \cup Unreadable
      OBVIOUS
    <3> QED
      BY <3>1, AppendedFacts
  <2>3. g \in File /\ g.lines = Appended(f, j).lines
    BY <2>1, <2>2 DEF File
  <2> QED
    BY <2>2, <2>3
<1> QED
  BY <1>1, <1>2

\* What a rank finds in a .part file is in it.
LEMMA LoadedFacts ==
    ASSUME NEW f \in File
    PROVE  RowsOf(Loaded(f)) \subseteq RowsOf(f.lines)
<1> DEFINE read == {k \in DOMAIN f.lines : \A l \in 1 .. k : f.lines[l] \notin Unreadable}
<1>1. f # None /\ f.lines \in Seq(Records \cup Unreadable)
  BY NamesAssumption DEF File
<1>2. Loaded(f) = SubSeq(f.lines, 1, Cardinality(read))
  BY <1>1 DEF Loaded
<1>3. read \subseteq 1 .. Len(f.lines) /\ Len(f.lines) \in Nat
  BY <1>1
<1> HIDE DEF read
<1>4. Cardinality(read) \in 0 .. Len(f.lines)
  <2>1. IsFiniteSet(1 .. Len(f.lines)) /\ Cardinality(1 .. Len(f.lines)) = Len(f.lines)
    BY <1>3, FS_Interval
  <2>2. Cardinality(read) <= Len(f.lines) /\ IsFiniteSet(read)
    BY <1>3, <2>1, FS_Subset
  <2> QED
    BY <1>3, <2>2, FS_CardinalityType
<1> QED
  BY <1>1, <1>2, <1>4 DEF RowsOf

-----------------------------------------------------------------------------
\* The ranks of a job and the files they write: with more than one, each has
\* files of its own.
LEMMA JobFacts ==
    ASSUME world \in Worlds
    PROVE  /\ world \in Nat /\ 0 \in Job /\ Job \subseteq Ranks /\ Ranks \subseteq Nat
           /\ \A k \in Nat : k < world => k \in Job
           /\ Whole \notin Ranks /\ Ranks \subseteq Names /\ Whole \in Names
           /\ world # 1 => (world > 1 /\ \A r \in Ranks : RankedPath(r) = r)
           /\ world = 1 => (Job = {0} /\ RankedPath(0) = Whole)
<1>1. world \in Nat /\ world > 0
  BY WorldsAssumption
<1>2. Ranks \subseteq Nat
  BY WorldsAssumption DEF Ranks
<1>3. \A k \in Nat : k < world => k \in Ranks
  BY <1>1 DEF Ranks
<1>4. 0 \in Job /\ Job \subseteq Ranks /\ \A k \in Nat : k < world => k \in Job
  BY <1>1, <1>3 DEF Job
<1>5. Whole \notin Nat
  BY NamesAssumption
<1>6. Whole \notin Ranks
  BY <1>2, <1>5
<1>7. Ranks \subseteq Names /\ Whole \in Names
  BY DEF Names
<1>8. world # 1 => (world > 1 /\ \A r \in Ranks : RankedPath(r) = r)
  BY <1>1 DEF RankedPath
<1>9. ASSUME world = 1 PROVE Job = {0} /\ RankedPath(0) = Whole
  <2>1. \A r \in Job : r \in Nat /\ r < 1
    BY <1>2, <1>9 DEF Job
  <2>2. \A r \in Job : r = 0
    BY <2>1
  <2>3. Job = {0}
    BY <1>4, <2>2
  <2> QED
    BY <1>9, <2>3 DEF RankedPath
<1> QED
  BY <1>1, <1>2, <1>4, <1>6, <1>7, <1>8, <1>9

\* Steps of one rank that only change where it is, and do not reach the merge.
LEMMA MoveKeeps ==
    ASSUME world # 1, Inv, NEW r \in Ranks, NEW label,
           UNCHANGED <<world, file, part, next, window, done>>, Goto(r, label),
           pc[r] \notin Ended,
           \/ pc[r] \in Busy /\ label \in Busy
           \/ pc[r] = "reduce" /\ label = "barrier"
           \/ pc[r] = "barrier" /\ r # 0 /\ label = "exit"
           \/ pc[r] = "print" /\ label = "exit"
           \/ label = "dead"
    PROVE  Inv'
<1>1. r \in Job
  BY DEF Inv, Roles, Ended
<1>2. pc' = [pc EXCEPT ![r] = label]
  BY DEF Goto
<1>3. Typed'
  BY <1>2 DEF Inv, Typed, Busy, Past, Ended, Ranks, Names
<1>4. OnlyGood'
  BY DEF Inv, OnlyGood
<1>5. WorkKept'
  BY <1>2 DEF Inv, WorkKept, Typed, Job, Holds, Owed, Busy
<1>6. ShardKept'
  BY <1>2, <1>1, JobFacts DEF Inv, ShardKept, Typed, Roles, Job, Holds, Owed, Busy, Past, Ended
<1>7. Roles'
  BY <1>2, <1>1 DEF Inv, Roles, Typed, Job, Busy
<1> QED
  BY <1>3, <1>4, <1>5, <1>6, <1>7 DEF Inv

\* A launched job has done nothing yet and owes nothing before record 0.
LEMMA LaunchKeeps ==
    ASSUME file \in [Names -> File \cup {None, Exact}],
           \A r \in Ranks : file[r] \in File \cup {None},
           file[Whole] \in {None, Exact}, part \in [Names -> File \cup {None}], OnlyGood,
           NEW w \in Worlds, Launch(w)
    PROVE  Inv'
<1> USE DEF Launch, disk
<1>1. 0 \in Job' /\ Job' \subseteq Ranks
  BY WorldsAssumption DEF Job, Ranks
<1>2. \A r \in Ranks : pc'[r] = IF r < w THEN "start" ELSE "exit"
  OBVIOUS
<1>3. Typed'
  <2>1. <<>> \in Seq(Records) /\ 0 \in 0 .. N
    BY RecordsAssumption
  <2>2. pc' \in [Ranks -> {"start"} \cup Ended]
    BY <1>2 DEF Ended
  <2> QED
    BY <2>1, <2>2 DEF Typed, Exact
<1>4. OnlyGood'
  BY DEF OnlyGood
<1>5. WorkKept'
  BY <1>1, <1>2 DEF WorkKept, Busy, Job
<1>6. ShardKept'
  BY <1>1, <1>2 DEF ShardKept, Past, Job
<1>7. Roles'
  BY <1>1, <1>2 DEF Roles, Job
<1> QED
  BY <1>3, <1>4, <1>5, <1>6, <1>7 DEF Inv

\* Rank 0 comes to merge when every rank of the job is past its work.
LEMMA BarrierKeeps ==
    ASSUME world # 1, Inv, Barrier(0)
    PROVE  Inv'
<1> USE DEF Barrier, disk
<1>1. /\ pc[0] = "barrier" /\ 0 \in Job /\ 0 \in Ranks /\ Job \subseteq Ranks
      /\ pc' = [pc EXCEPT ![0] = "merge"]
  BY JobFacts DEF Goto, Inv, Typed
<1>2. \A q \in Job : pc[q] \in Past \cup {"exit"}
  BY <1>1 DEF Entered, Past, Inv, Roles
<1>3. \A q \in Job : Holds(file[q], q, N, {})
  BY <1>1, <1>2 DEF Inv, ShardKept, Ended
<1>4. Typed'
  BY <1>1 DEF Inv, Typed, Past
<1>5. OnlyGood'
  BY DEF Inv, OnlyGood
<1>6. WorkKept'
  BY <1>1 DEF Inv, WorkKept, Typed, Job, Holds, Owed, Busy
<1>7. ShardKept'
  BY <1>3 DEF ShardKept, Job, Holds, Owed
<1>8. Roles'
  BY <1>1 DEF Inv, Roles, Typed, Job
<1> QED
  BY <1>4, <1>5, <1>6, <1>7, <1>8 DEF Inv

\* A rank goes on from the rows that it finds in its .part file.
LEMMA BeginKeeps ==
    ASSUME world # 1, Inv, NEW r \in Ranks, Begin(r)
    PROVE  Inv'
<1> USE DEF Begin
<1>1. /\ r \in Job /\ Job \subseteq Ranks /\ 0 \in Job /\ r \in Names
      /\ Ranks \subseteq Names /\ RankedPath(r) = r /\ world # 1
  BY JobFacts DEF Inv, Typed, Roles
<1>2. /\ pc[r] = "start" /\ pc' = [pc EXCEPT ![r] = "scan"]
      /\ done' = [done EXCEPT ![r] = RowsOf(Loaded(part[r]))]
      /\ part' = [part EXCEPT ![r] = IF @ = None THEN NoLines ELSE @]
      /\ UNCHANGED <<world, file, next, window>>
  BY <1>1 DEF Goto
<1>3. NoLines \in File /\ RowsOf(NoLines.lines) = {} /\ NoLines # None
  <2>1. <<>> \in Seq(Records \cup Unreadable) /\ RowsOf(<<>>) = {}
    BY DEF RowsOf
  <2>2. NoLines \in [lines : Seq(Records \cup Unreadable), open : BOOLEAN]
    BY <2>1 DEF NoLines
  <2> QED
    BY <2>1, <2>2, NamesAssumption DEF NoLines, File
<1>4. Typed'
  <2>1. RowsOf(Loaded(part[r])) \subseteq Records \cup Unreadable
    <3>1. CASE part[r] = None
      BY <3>1 DEF Loaded, RowsOf
    <3>2. CASE part[r] # None
      <4>1. part[r] \in File
        BY <1>1, <3>2 DEF Inv, Typed
      <4>2. RowsOf(part[r].lines) \subseteq Records \cup Unreadable
        BY <4>1 DEF RowsOf, File
      <4> QED
        BY <4>1, <4>2, LoadedFacts
    <3> QED
      BY <3>1, <3>2
  <2>2. part' \in [Names -> File \cup {None}]
    BY <1>1, <1>2, <1>3 DEF Inv, Typed
  <2>3. done' \in [Ranks -> SUBSET (Records \cup Unreadable)]
    BY <1>2, <2>1 DEF Inv, Typed
  <2>4. pc' \in [Ranks -> {"start"} \cup Busy \cup Past \cup {"unlink", "print"} \cup Ended]
    BY <1>2 DEF Inv, Typed, Busy
  <2> QED
    BY <1>2, <2>2, <2>3, <2>4 DEF Inv, Typed
<1>5. OnlyGood'
  BY <1>1, <1>2, <1>3 DEF Inv, Typed, OnlyGood
<1>6. WorkKept'
  <2>1. ASSUME NEW q \in Job, q # r, pc[q] \in Busy
        PROVE  /\ Holds(part[q], q, next[q], RowsOf(window[q]))'
               /\ (Readable(part[q]) => done[q] \subseteq RowsOf(part[q].lines))'
    BY <1>1, <1>2, <2>1 DEF Inv, WorkKept, Typed, Holds, Owed, Readable
  <2>2. part'[r] \in File /\ part'[r] # None
    BY <1>1, <1>2, <1>3 DEF Inv, Typed
  <2>3. (Readable(part[r]) => done[r] \subseteq RowsOf(part[r].lines))'
    <3>1. CASE part[r] = None
      BY <1>1, <1>2, <1>3, <3>1 DEF Inv, Typed, Loaded, RowsOf
    <3>2. CASE part[r] # None
      BY <1>1, <1>2, <2>2, <3>2, LoadedFacts DEF Inv, Typed, Readable
    <3> QED
      BY <3>1, <3>2
  <2>4. Holds(part[r], r, next[r], RowsOf(window[r]))'
    <3>1. next[r] = 0
      BY <1>1, <1>2 DEF Inv, WorkKept
    <3>2. next'[r] = 0 /\ Owed(r, 0)' = {}
      BY <1>2, <3>1, RecordsAssumption DEF Owed, Good, Records
    <3> QED
      BY <2>2, <3>2 DEF Holds, Owed
  <2> QED
    BY <1>1, <1>2, <2>1, <2>3, <2>4 DEF Inv, WorkKept, Typed, Job
<1>7. ShardKept'
  BY <1>1, <1>2 DEF Inv, ShardKept, Typed, Job, Holds, Owed, Past, Ended
<1>8. Roles'
  BY <1>1, <1>2 DEF Inv, Roles, Typed, Job
<1> QED
  BY <1>4, <1>5, <1>6, <1>7, <1>8 DEF Inv

\* A record that is not gathered is another rank's, has no row or is done
\* already.
LEMMA ScanKeeps ==
    ASSUME world # 1, Inv, NEW r \in Ranks, Scan(r)
    PROVE  Inv'
<1> USE DEF Scan, disk
<1> DEFINE i == next[r]
           taken == i % world = r /\ i \notin done[r] /\ Verdict[i] # "unrendered"
           gathered == IF taken THEN Append(window[r], i) ELSE window[r]
<1>1. /\ r \in Job /\ Job \subseteq Ranks /\ 0 \in Job /\ i \in Nat /\ i < N /\ i \in Records
      /\ pc[r] = "scan" /\ next[r] \in 0 .. N /\ window[r] \in Seq(Records)
  BY JobFacts, RecordsAssumption DEF Inv, Typed, Roles, Records
<1>2. PICK label \in {"scan", "generate"} :
      /\ pc' = [pc EXCEPT ![r] = label]
      /\ next' = [next EXCEPT ![r] = i + 1]
      /\ window' = [window EXCEPT ![r] = gathered]
      /\ UNCHANGED <<world, file, part, done>>
  BY DEF Goto
<1>3. /\ gathered \in Seq(Records)
      /\ RowsOf(gathered) = RowsOf(window[r]) \cup (IF taken THEN {i} ELSE {})
  <2> DEFINE l == Append(window[r], i)
  <2>1. /\ l \in Seq(Records)
        /\ DOMAIN l = 1 .. Len(window[r]) + 1
        /\ DOMAIN window[r] = 1 .. Len(window[r])
        /\ Len(window[r]) \in Nat
        /\ l[Len(window[r]) + 1] = i
        /\ \A k \in 1 .. Len(window[r]) : l[k] = window[r][k]
    BY <1>1
  <2> HIDE DEF l
  <2>2. RowsOf(l) = RowsOf(window[r]) \cup {i}
    BY <2>1 DEF RowsOf
  <2> QED
    BY <1>1, <2>1, <2>2 DEF l
<1> HIDE DEF gathered
<1>4. Typed'
  <2>1. i + 1 \in 0 .. N
    BY <1>1, RecordsAssumption
  <2>2. next' \in [Ranks -> 0 .. N]
    BY <1>2, <2>1 DEF Inv, Typed
  <2>3. window' \in [Ranks -> Seq(Records)]
    BY <1>2, <1>3 DEF Inv, Typed
  <2>4. pc' \in [Ranks -> {"start"} \cup Busy \cup Past \cup {"unlink", "print"} \cup Ended]
    BY <1>2 DEF Inv, Typed, Busy
  <2> QED
    BY <1>2, <2>2, <2>3, <2>4 DEF Inv, Typed
<1>5. OnlyGood'
  BY <1>2 DEF Inv, OnlyGood
<1>6. WorkKept'
  <2>1. ASSUME NEW q \in Job, q # r, pc[q] \in Busy
        PROVE  /\ Holds(part[q], q, next[q], RowsOf(window[q]))'
               /\ (Readable(part[q]) => done[q] \subseteq RowsOf(part[q].lines))'
    BY <1>1, <1>2, <2>1 DEF Inv, WorkKept, Typed, Holds, Owed
  <2>2. /\ Holds(part[r], r, i, RowsOf(window[r]))
        /\ Readable(part[r]) => done[r] \subseteq RowsOf(part[r].lines)
    BY <1>1 DEF Inv, WorkKept, Busy
  <2>3. Owed(r, i + 1) \subseteq Owed(r, i) \cup IF taken THEN {i} ELSE done[r]
    BY <1>1 DEF Owed, Good, Records
  <2>4. Holds(part[r], r, next[r], RowsOf(window[r]))'
    <3>1. next'[r] = i + 1 /\ window'[r] = gathered
      BY <1>1, <1>2 DEF Inv, Typed
    <3>2. Owed(r, next[r])' = Owed(r, i + 1)
      BY <1>2, <3>1 DEF Owed
    <3> HIDE DEF i
    <3> QED
      BY <1>2, <1>3, <2>2, <2>3, <3>1, <3>2 DEF Holds
  <2> QED
    BY <1>1, <1>2, <2>1, <2>2, <2>4 DEF Inv, WorkKept, Typed, Job
<1>7. ShardKept'
  BY <1>1, <1>2 DEF Inv, ShardKept, Typed, Job, Holds, Owed, Past, Ended
<1>8. Roles'
  BY <1>1, <1>2 DEF Inv, Roles, Typed, Job
<1> QED
  BY <1>4, <1>5, <1>6, <1>7, <1>8 DEF Inv

\* A row leaves the window for the .part file.
LEMMA WriteKeeps ==
    ASSUME world # 1, Inv, NEW r \in Ranks, Write(r)
    PROVE  Inv'
<1> USE DEF Write
<1> DEFINE i == Head(window[r])
           rest == Tail(window[r])
<1>1. /\ r \in Job /\ Job \subseteq Ranks /\ r \in Names /\ RankedPath(r) = r
      /\ Ranks \subseteq Names
  BY JobFacts DEF Inv, Typed, Roles
<1>2. /\ pc[r] = "write"
      /\ window' = [window EXCEPT ![r] = rest]
      /\ UNCHANGED <<world, file, pc, next, done>>
      /\ part' = IF i \in Good THEN [part EXCEPT ![r] = Appended(@, i)] ELSE part
  <2>1. window[r] \in Seq(Records) /\ window[r] # <<>>
    BY DEF Inv, Typed
  <2>2. i \in Records
    BY <2>1
  <2> QED
    BY <1>1, <2>2 DEF Good
<1>3. i \in Records /\ rest \in Seq(Records) /\ RowsOf(window[r]) = {i} \cup RowsOf(rest)
  <2>1. window[r] \in Seq(Records) /\ window[r] # <<>>
    BY DEF Inv, Typed
  <2>2. /\ i \in Records /\ rest \in Seq(Records)
        /\ Len(window[r]) \in Nat /\ Len(window[r]) > 0
        /\ DOMAIN window[r] = 1 .. Len(window[r])
        /\ DOMAIN rest = 1 .. Len(window[r]) - 1
        /\ \A k \in 1 .. Len(window[r]) - 1 : rest[k] = window[r][k + 1]
        /\ i = window[r][1]
    BY <2>1
  <2>3. \A k \in DOMAIN window[r] : window[r][k] \in {i} \cup RowsOf(rest)
    <3> SUFFICES ASSUME NEW k \in DOMAIN window[r], k # 1
                 PROVE  window[r][k] \in RowsOf(rest)
      BY <2>2
    <3>1. k - 1 \in DOMAIN rest /\ rest[k - 1] = window[r][k]
      BY <2>2
    <3> QED
      BY <3>1 DEF RowsOf
  <2>4. RowsOf(window[r]) \subseteq {i} \cup RowsOf(rest)
    BY <2>3 DEF RowsOf
  <2>5. \A k \in DOMAIN rest : k + 1 \in DOMAIN window[r] /\ rest[k] = window[r][k + 1]
    BY <2>2
  <2>6. {i} \cup RowsOf(rest) \subseteq RowsOf(window[r])
    BY <2>2, <2>5 DEF RowsOf
  <2> QED
    BY <2>2, <2>4, <2>6
<1> HIDE DEF i, rest
<1>4. part[r] \in File /\ Holds(part[r], r, next[r], RowsOf(window[r]))
  BY <1>1, <1>2 DEF Inv, Typed, WorkKept, Holds, Busy
<1>5. /\ part'[r] \in File
      /\ RowsOf(part'[r].lines) \subseteq RowsOf(part[r].lines) \cup (IF i \in Good THEN {i} \cup Unreadable ELSE {})
      /\ RowsOf(part'[r].lines) \cap Unreadable = {} =>
            /\ RowsOf(part[r].lines) \cap Unreadable = {}
            /\ RowsOf(part[r].lines) \cup (IF i \in Good THEN {i} ELSE {}) \subseteq RowsOf(part'[r].lines)
  <2>1. CASE i \in Good
    <3>1. part'[r] = Appended(part[r], i)
      BY <1>1, <1>2, <2>1 DEF Inv, Typed
    <3>2. part[r] \in File /\ i \in Records \cup Unreadable
      BY <1>3, <1>4
    <3>3. /\ Appended(part[r], i) \in File
          /\ RowsOf(Appended(part[r], i).lines) \subseteq RowsOf(part[r].lines) \cup {i} \cup Unreadable
          /\ RowsOf(Appended(part[r], i).lines) \cap Unreadable = {} =>
                /\ RowsOf(part[r].lines) \cap Unreadable = {}
                /\ RowsOf(part[r].lines) \cup {i} \subseteq RowsOf(Appended(part[r], i).lines)
      BY <3>2, AppendedFacts
    <3> QED
      BY <2>1, <3>1, <3>3
  <2>2. CASE i \notin Good
    BY <1>2, <1>4, <2>2
  <2> QED
    BY <2>1, <2>2
<1>6. \A q \in Names : q # r => part'[q] = part[q]
  BY <1>2 DEF Inv, Typed
<1>7. Typed'
  <2>1. part' \in [Names -> File \cup {None}]
    BY <1>1, <1>2, <1>5, <1>6 DEF Inv, Typed
  <2>2. window' \in [Ranks -> Seq(Records)]
    BY <1>2, <1>3 DEF Inv, Typed
  <2> QED
    BY <1>2, <2>1, <2>2 DEF Inv, Typed
<1>8. OnlyGood'
  BY <1>1, <1>2, <1>4, <1>5, <1>6, NamesAssumption DEF Inv, Typed, OnlyGood, Holds
<1>9. WorkKept'
  <2>1. ASSUME NEW q \in Job, q # r
        PROVE  /\ pc'[q] = "start" => next'[q] = 0
               /\ pc'[q] \in Busy =>
                     /\ Holds(part[q], q, next[q], RowsOf(window[q]))'
                     /\ (Readable(part[q]) => done[q] \subseteq RowsOf(part[q].lines))'
    BY <1>1, <1>2, <1>6, <2>1 DEF Inv, WorkKept, Typed, Holds, Owed, Readable
  <2>2. /\ Readable(part[r]) => done[r] \subseteq RowsOf(part[r].lines)
        /\ part[r] # None /\ part'[r] # None
    BY <1>1, <1>2, <1>4, <1>5, NamesAssumption DEF Inv, WorkKept, Busy, Holds, File
  <2>3. Readable(part[r])' => /\ Readable(part[r])
                              /\ RowsOf(part[r].lines) \subseteq RowsOf(part'[r].lines)
    BY <1>5, <2>2 DEF Readable
  <2>4. (Readable(part[r]) => done[r] \subseteq RowsOf(part[r].lines))'
    BY <1>2, <2>2, <2>3
  <2>5. Holds(part[r], r, next[r], RowsOf(window[r]))'
    <3>1. window'[r] = rest /\ Owed(r, next[r])' = Owed(r, next[r])
      BY <1>2 DEF Inv, Typed, Owed
    <3>2. Owed(r, next[r]) \subseteq Good
      BY DEF Owed
    <3>3. (Readable(part[r]) => Owed(r, next[r]) \subseteq RowsOf(part[r].lines) \cup RowsOf(window[r]))'
      BY <1>3, <1>4, <1>5, <2>2, <2>3, <3>1, <3>2 DEF Holds, Readable
    <3> QED
      BY <2>2, <3>3 DEF Holds
  <2> QED
    BY <1>1, <1>2, <2>1, <2>4, <2>5 DEF WorkKept, Job
<1>10. ShardKept'
  BY <1>2 DEF Inv, ShardKept, Job, Holds, Owed
<1>11. Roles'
  BY <1>2 DEF Inv, Roles, Job
<1> QED
  BY <1>7, <1>8, <1>9, <1>10, <1>11 DEF Inv

\* The .part file becomes the shard, with all that the rank owes.
LEMMA PublishKeeps ==
    ASSUME world # 1, Inv, NEW r \in Ranks, Publish(r)
    PROVE  Inv'
<1> USE DEF Publish
<1>1. /\ r \in Job /\ Job \subseteq Ranks /\ 0 \in Job /\ r \in Names /\ r # Whole
      /\ Ranks \subseteq Names /\ RankedPath(r) = r /\ world # 1
  BY JobFacts DEF Inv, Typed, Roles, Names
<1>2. /\ pc[r] = "scan" /\ next[r] = N /\ window[r] = <<>>
      /\ file' = [file EXCEPT ![r] = part[r]]
      /\ part' = [part EXCEPT ![r] = None]
      /\ pc' = [pc EXCEPT ![r] = "reduce"]
      /\ UNCHANGED <<world, next, window, done>>
  BY <1>1 DEF Goto
<1>3. part[r] \in File /\ Holds(part[r], r, N, {})
  <2>1. Holds(part[r], r, N, RowsOf(<<>>))
    BY <1>1, <1>2 DEF Inv, WorkKept, Busy
  <2>2. RowsOf(<<>>) = {}
    BY DEF RowsOf
  <2> QED
    BY <1>1, <2>1, <2>2 DEF Holds, Inv, Typed
<1>4. Typed'
  BY <1>1, <1>2, <1>3 DEF Inv, Typed, Past
<1>5. OnlyGood'
  BY <1>1, <1>2 DEF Inv, Typed, OnlyGood
<1>6. WorkKept'
  BY <1>1, <1>2 DEF Inv, WorkKept, Typed, Job, Holds, Owed, Busy
<1>7. ShardKept'
  <2>1. Holds(file[r], r, N, {})'
    BY <1>1, <1>2, <1>3 DEF Holds, Owed, Inv, Typed
  <2>2. \A q \in Job : q # r => file'[q] = file[q] /\ pc'[q] = pc[q]
    BY <1>1, <1>2 DEF Inv, Typed
  <2>3. r = 0 => pc'[0] = "reduce" /\ pc[0] = "scan"
    BY <1>1, <1>2 DEF Inv, Typed
  <2> QED
    BY <1>1, <1>2, <2>1, <2>2, <2>3 DEF Inv, ShardKept, Job, Holds, Owed, Ended
<1>8. Roles'
  BY <1>1, <1>2 DEF Inv, Roles, Typed, Job
<1> QED
  BY <1>4, <1>5, <1>6, <1>7, <1>8 DEF Inv

\* When rank 0 merges and the shards can be read, they hold together exactly
\* the records that have a row.
LEMMA MergeExact ==
    ASSUME world # 1, Inv, pc[0] = "merge", Mergeable
    PROVE  UNION {RowsOf(file[q].lines) : q \in Shards} = Good
<1>1. /\ world \in Nat /\ world > 1 /\ Job \subseteq Ranks
      /\ \A k \in Nat : k < world => k \in Job
  BY JobFacts DEF Inv, Typed
<1>2. \A q \in Job : Holds(file[q], q, N, {})
  BY DEF Inv, ShardKept
<1>3. Shards = Job
  BY <1>2 DEF Shards, Holds
<1>4. \A q \in Job : file[q] # None /\ Readable(file[q])
  BY <1>2, <1>3 DEF Mergeable, Holds
<1>5. \A q \in Job : RowsOf(file[q].lines) \subseteq Good
  BY <1>1, <1>4 DEF Inv, OnlyGood, Readable
<1>6. ASSUME NEW i \in Good PROVE \E q \in Job : i \in RowsOf(file[q].lines)
  <2>1. i \in Nat /\ i < N
    BY RecordsAssumption DEF Good, Records
  <2>2. i % world \in Nat /\ i % world < world
    BY <1>1, <2>1
  <2>3. i % world \in Job
    BY <1>1, <2>2
  <2>4. i \in Owed(i % world, N)
    BY <2>1 DEF Owed
  <2> QED
    BY <1>2, <1>4, <2>3, <2>4 DEF Holds
<1> QED
  BY <1>3, <1>5, <1>6

\* The merge writes the exact teacher file.
LEMMA MergeKeeps ==
    ASSUME world # 1, Inv, NEW r \in Ranks, Merge(r), Mergeable
    PROVE  Inv'
<1> USE DEF Merge
<1>1. r = 0 /\ pc[0] = "merge" /\ Whole \in Names /\ Whole \notin Ranks /\ Job \subseteq Ranks
      /\ 0 \in Job /\ Ranks \subseteq Names
  BY JobFacts DEF Inv, Roles, Typed
<1>2. /\ file' = [file EXCEPT ![Whole] = Exact]
      /\ pc' = [pc EXCEPT ![0] = "unlink"]
      /\ UNCHANGED <<world, part, next, window, done>>
  BY <1>1, MergeExact DEF Goto, Exact
<1>3. Typed'
  BY <1>1, <1>2 DEF Inv, Typed
<1>4. \A q \in Ranks : file'[q] = file[q]
  BY <1>1, <1>2 DEF Inv, Typed
<1>5. OnlyGood'
  BY <1>2, <1>4 DEF Inv, OnlyGood
<1>6. WorkKept'
  BY <1>1, <1>2 DEF Inv, WorkKept, Typed, Job, Holds, Owed, Busy
<1>7. ShardKept'
  BY <1>1, <1>2 DEF Inv, Typed, ShardKept
<1>8. Roles'
  BY <1>1, <1>2 DEF Inv, Roles, Typed, Job
<1> QED
  BY <1>3, <1>5, <1>6, <1>7, <1>8 DEF Inv

\* Unlinking removes shards only, when nothing is promised of them any more.
LEMMA UnlinkKeeps ==
    ASSUME world # 1, Inv, NEW r \in Ranks, Unlink(r)
    PROVE  Inv'
<1> USE DEF Unlink
<1>1. /\ r = 0 /\ pc[0] = "unlink" /\ Whole \notin Ranks /\ Job \subseteq Ranks
      /\ 0 \in Job /\ Ranks \subseteq Names
  BY JobFacts DEF Inv, Roles, Typed
<1>2. CASE Shards = {}
  <2>1. pc' = [pc EXCEPT ![0] = "print"] /\ UNCHANGED <<world, file, part, next, window, done>>
    BY <1>1, <1>2 DEF Goto
  <2>2. Typed'
    BY <2>1 DEF Inv, Typed
  <2>3. OnlyGood'
    BY <2>1 DEF Inv, OnlyGood
  <2>4. WorkKept'
    BY <1>1, <2>1 DEF Inv, WorkKept, Typed, Job, Holds, Owed, Busy
  <2>5. ShardKept'
    BY <1>1, <2>1 DEF Inv, Typed, ShardKept
  <2>6. Roles'
    BY <1>1, <2>1 DEF Inv, Roles, Typed, Job
  <2> QED
    BY <2>2, <2>3, <2>4, <2>5, <2>6 DEF Inv
<1>3. CASE Shards # {}
  <2>1. PICK s : file' = [file EXCEPT ![s] = None] /\ UNCHANGED <<world, pc, part, next, window, done>>
    BY <1>3
  <2>2. Typed'
    <3>1. file' \in [Names -> File \cup {None, Exact}]
      BY <2>1 DEF Inv, Typed
    <3>2. \A n \in Names : file'[n] \in {None, file[n]}
      BY <2>1 DEF Inv, Typed
    <3>3. Whole \in Names
      BY DEF Names
    <3> QED
      BY <1>1, <2>1, <3>1, <3>2, <3>3 DEF Inv, Typed
  <2>3. OnlyGood'
    BY <1>1, <2>1 DEF Inv, Typed, OnlyGood
  <2>4. WorkKept'
    BY <2>1 DEF Inv, WorkKept, Job, Holds, Owed
  <2>5. ShardKept'
    BY <1>1, <2>1 DEF ShardKept
  <2>6. Roles'
    BY <2>1 DEF Inv, Roles, Job
  <2> QED
    BY <2>2, <2>3, <2>4, <2>5, <2>6 DEF Inv
<1> QED
  BY <1>2, <1>3

\* A row that is cut short leaves a file that promises nothing, or the file
\* as it was.
LEMMA TornKeeps ==
    ASSUME world # 1, Inv, NEW r \in Ranks, Goto(r, "dead"),
           pc[r] = "write", window[r] # <<>>, Head(window[r]) \in Good,
           NEW f \in Torn(part[r], Head(window[r])),
           part' = [part EXCEPT ![r] = f],
           UNCHANGED <<world, file, next, window, done>>
    PROVE  Inv'
<1>1. /\ r \in Job /\ Job \subseteq Ranks /\ 0 \in Job /\ r \in Names
      /\ Ranks \subseteq Names
  BY JobFacts DEF Inv, Typed, Roles
<1>2. pc' = [pc EXCEPT ![r] = "dead"]
  BY DEF Goto
<1>3. part[r] \in File
  BY <1>1 DEF Inv, Typed, WorkKept, Holds, Busy
<1>4. Head(window[r]) \in Records
  BY DEF Good
<1>5. f \in File /\ RowsOf(f.lines) \subseteq RowsOf(part[r].lines) \cup {Head(window[r])} \cup Unreadable
  BY <1>3, <1>4, TornFacts
<1>6. \A q \in Names : part'[q] = IF q = r THEN f ELSE part[q]
  BY <1>1 DEF Inv, Typed
<1>7. Typed'
  BY <1>1, <1>2, <1>5 DEF Inv, Typed, Ended
<1>8. OnlyGood'
  <2>1. part[r] # None
    BY <1>3, NamesAssumption DEF File
  <2> QED
    BY <1>1, <1>5, <1>6, <2>1 DEF Inv, OnlyGood
<1>9. WorkKept'
  BY <1>1, <1>2, <1>6 DEF Inv, Typed, WorkKept, Job, Holds, Owed, Busy
<1>10. ShardKept'
  BY <1>1, <1>2 DEF Inv, ShardKept, Typed, Job, Holds, Owed, Past, Ended
<1>11. Roles'
  BY <1>1, <1>2 DEF Inv, Roles, Typed, Job
<1> QED
  BY <1>7, <1>8, <1>9, <1>10, <1>11 DEF Inv

\* A rank dies between writes or in one.
LEMMA DieKeeps ==
    ASSUME world # 1, Inv, NEW r \in Ranks, Die(r)
    PROVE  Inv'
<1> USE DEF Die
<1>1. RankedPath(r) = r /\ Goto(r, "dead") /\ UNCHANGED <<world, file, next, window, done>>
  BY JobFacts DEF Inv, Typed
<1>2. CASE UNCHANGED part
  BY <1>1, <1>2, MoveKeeps
<1>3. CASE ~UNCHANGED part
  <2>1. /\ pc[r] = "write" /\ window[r] # <<>> /\ Verdict[Head(window[r])] = "row"
        /\ \E f \in Torn(part[r], Head(window[r])) : part' = [part EXCEPT ![r] = f]
    BY <1>1, <1>3
  <2>2. Head(window[r]) \in Good
    <3>1. window[r] \in Seq(Records)
      BY DEF Inv, Typed
    <3>2. Head(window[r]) \in Records
      BY <2>1, <3>1
    <3> QED
      BY <2>1, <3>2 DEF Good
  <2> QED
    BY <1>1, <2>1, <2>2, TornKeeps
<1> QED
  BY <1>2, <1>3

\* Every step of a job of several ranks keeps the invariant.
LEMMA StepKeeps ==
    ASSUME world # 1, Inv, [Next]_vars
    PROVE  Inv'
<1>1. CASE \E w \in Worlds : Launch(w)
  BY <1>1, LaunchKeeps DEF Inv, Typed
<1>2. ASSUME NEW r \in Ranks, RankStep(r) PROVE Inv'
  <2>1. CASE Begin(r)
    BY <2>1, BeginKeeps
  <2>2. CASE Scan(r)
    BY <2>2, ScanKeeps
  <2>3. CASE LastWindow(r)
    BY <2>3, MoveKeeps DEF LastWindow, disk, Busy, Ended
  <2>4. CASE Generate(r)
    BY <2>4, MoveKeeps DEF Generate, disk, Busy, Ended
  <2>5. CASE Write(r)
    BY <2>5, WriteKeeps
  <2>6. CASE WindowWritten(r)
    BY <2>6, MoveKeeps DEF WindowWritten, disk, Busy, Ended
  <2>7. CASE Publish(r)
    BY <2>7, PublishKeeps
  <2>8. CASE AllReduce(r)
    BY <2>8, MoveKeeps DEF AllReduce, disk, Ended
  <2>9. CASE Barrier(r)
    <3>1. CASE r = 0
      BY <2>9, <3>1, BarrierKeeps
    <3>2. CASE r # 0
      <4>1. r > 0
        BY <3>2, JobFacts DEF Inv, Typed
      <4> QED
        BY <2>9, <3>2, <4>1, MoveKeeps DEF Barrier, disk, Ended
    <3> QED
      BY <3>1, <3>2
  <2>10. CASE Merge(r)
    <3>1. CASE Mergeable
      BY <2>10, <3>1, MergeKeeps
    <3>2. CASE ~Mergeable
      BY <2>10, <3>2, MoveKeeps DEF Merge, Ended
    <3> QED
      BY <3>1, <3>2
  <2>11. CASE Unlink(r)
    BY <2>11, UnlinkKeeps
  <2>12. CASE Summary(r)
    BY <2>12, MoveKeeps DEF Summary, disk, Ended
  <2>13. CASE Undecodable(r)
    BY <2>13, MoveKeeps DEF Undecodable, disk, Ended
  <2> QED
    BY <1>2, <2>1, <2>2, <2>3, <2>4, <2>5, <2>6, <2>7, <2>8, <2>9, <2>10, <2>11, <2>12, <2>13
       DEF RankStep
<1>3. Backend = "hf"
  BY BackendAssumption DEF Inv, Typed
<1>4. ASSUME NEW r \in Ranks, WindowFails(r) PROVE Inv'
  BY <1>3, <1>4, MoveKeeps DEF WindowFails, disk, Busy, Ended
<1>5. ASSUME NEW r \in Ranks, Die(r) PROVE Inv'
  BY <1>5, DieKeeps
<1>6. CASE UNCHANGED vars
  BY <1>6 DEF vars, Inv, Typed, OnlyGood, WorkKept, ShardKept, Roles, Job, Holds, Owed
<1> QED
  BY <1>1, <1>2, <1>4, <1>5, <1>6 DEF Next, SkipStage

\* No job has run yet.
LEMMA InitInv ==
    ASSUME Init
    PROVE  Inv
<1> USE DEF Init
<1>1. 0 \in Job /\ Job \subseteq Ranks /\ Ranks \subseteq Names /\ Whole \in Names
  BY JobFacts
<1>2. <<>> \in Seq(Records) /\ 0 \in 0 .. N
  BY RecordsAssumption
<1>3. Typed
  BY <1>1, <1>2 DEF Typed, Ended
<1>4. OnlyGood /\ WorkKept /\ ShardKept /\ Roles
  BY <1>1 DEF OnlyGood, WorkKept, ShardKept, Roles, Busy, Ended
<1> QED
  BY <1>3, <1>4 DEF Inv

-----------------------------------------------------------------------------
\* The teacher file of a job of several ranks is exact: it has the row of
\* every record that has one, once and in source order, for whatever crashes,
\* cut lines and changes of the world size came before (generate_targets.py,
\* merge_ranked_jsonl).
THEOREM MergedFileExact ==
    1 \notin Worlds => (Spec => []PublishedExact)
<1> SUFFICES ASSUME 1 \notin Worlds PROVE Spec => []PublishedExact
  OBVIOUS
<1>1. Init => Inv
  BY InitInv
<1>2. Inv /\ [Next]_vars => Inv'
  BY StepKeeps DEF Inv, Typed
<1>3. Inv => PublishedExact
  BY DEF Inv, Typed, PublishedExact, Exact
<1> QED
  BY <1>1, <1>2, <1>3, PTL DEF Spec

-----------------------------------------------------------------------------
\* The rows that the ranks count.

\* A file that can be read is loaded as a whole, and a row is appended to it
\* as one line more.
LEMMA LoadedWhole ==
    ASSUME NEW f \in File, Readable(f)
    PROVE  Loaded(f) = f.lines
<1> DEFINE read == {k \in DOMAIN f.lines : \A l \in 1 .. k : f.lines[l] \notin Unreadable}
           s == f.lines
<1>1. f # None /\ s \in Seq(Records \cup Unreadable)
  BY NamesAssumption DEF File
<1>2. Loaded(f) = SubSeq(s, 1, Cardinality(read))
  BY <1>1 DEF Loaded
<1>3. \A k \in DOMAIN s : s[k] \notin Unreadable
  BY <1>1 DEF Readable, RowsOf
<1>4. read = 1 .. Len(s) /\ Len(s) \in Nat
  BY <1>1, <1>3
<1> HIDE DEF read, s
<1>5. Cardinality(read) = Len(s)
  <2>1. Cardinality(1 .. Len(s)) = Len(s)
    BY <1>4, FS_Interval
  <2> QED
    BY <1>4, <2>1
<1>6. SubSeq(s, 1, Len(s)) = s
  BY <1>1
<1> QED
  BY <1>2, <1>5, <1>6 DEF s

\* What is loaded of a file is a sequence of rows.
LEMMA LoadedSeq ==
    ASSUME NEW f \in File
    PROVE  Loaded(f) \in Seq(Records \cup Unreadable)
<1> DEFINE read == {k \in DOMAIN f.lines : \A l \in 1 .. k : f.lines[l] \notin Unreadable}
           s == f.lines
<1>1. f # None /\ s \in Seq(Records \cup Unreadable)
  BY NamesAssumption DEF File
<1>2. Loaded(f) = SubSeq(s, 1, Cardinality(read))
  BY <1>1 DEF Loaded
<1>3. read \subseteq 1 .. Len(s) /\ Len(s) \in Nat
  BY <1>1
<1> HIDE DEF read
<1>4. Cardinality(read) \in 0 .. Len(s)
  <2>1. IsFiniteSet(1 .. Len(s)) /\ Cardinality(1 .. Len(s)) = Len(s)
    BY <1>3, FS_Interval
  <2>2. Cardinality(read) <= Len(s) /\ IsFiniteSet(read)
    BY <1>3, <2>1, FS_Subset
  <2> QED
    BY <1>3, <2>2, FS_CardinalityType
<1> HIDE DEF s
<1> QED
  BY <1>1, <1>2, <1>4

\* A row that can be read again was appended as a line of its own.
LEMMA AppendedOne ==
    ASSUME NEW f \in File, NEW i \in Records, Readable(Appended(f, i))
    PROVE  Len(Appended(f, i).lines) = Len(f.lines) + 1
<1>1. f.lines \in Seq(Records \cup Unreadable) /\ f.open \in BOOLEAN
  BY DEF File
<1>2. CASE f.open
  <2>1. f.lines # <<>> /\ Len(f.lines) \in DOMAIN f.lines
    BY <1>1, <1>2 DEF File
  <2> DEFINE l == [f.lines EXCEPT ![Len(f.lines)] = Joined(@, i)]
  <2>2. Len(f.lines) \in DOMAIN l /\ l[Len(f.lines)] \in Unreadable
    BY <1>1, <2>1, JoinedUnreadable
  <2>3. Appended(f, i) = [lines |-> l, open |-> FALSE]
    BY <1>2 DEF Appended
  <2>4. Appended(f, i).lines = l /\ Appended(f, i) \in File
    <3> HIDE DEF l
    <3>1. Appended(f, i) \in File
      BY AppendedFacts
    <3> QED
      BY <2>3, <3>1
  <2> HIDE DEF l
  <2>5. RowsOf(Appended(f, i).lines) \cap Unreadable # {}
    BY <2>2, <2>4 DEF RowsOf
  <2>6. Appended(f, i) # None
    BY <2>4, NamesAssumption DEF File
  <2> QED
    BY <2>5, <2>6 DEF Readable
<1>3. CASE ~f.open
  <2>1. Appended(f, i).lines = Append(f.lines, i)
    BY <1>1, <1>3 DEF Appended, File
  <2> QED
    BY <1>1, <2>1
<1> QED
  BY <1>1, <1>2, <1>3

-----------------------------------------------------------------------------
\* The rows counted by the ranks of R, one by one.
Tally(R) == {t \in R \X (Nat \ {0}) : t[2] <= written[t[1]]}

\* The tally of some ranks is what one of them has counted and the tally of
\* the others.
LEMMA TallyFacts ==
    ASSUME written \in [Ranks -> Nat]
    PROVE  /\ Cardinality(Tally({})) = 0
           /\ \A R \in SUBSET Ranks : IsFiniteSet(R) =>
                 /\ IsFiniteSet(Tally(R))
                 /\ \A r \in R :
                       Cardinality(Tally(R)) = written[r] + Cardinality(Tally(R \ {r}))
<1>1. Tally({}) = {}
  BY DEF Tally
<1>2. ASSUME NEW r \in Ranks
      PROVE  IsFiniteSet(Tally({r})) /\ Cardinality(Tally({r})) = written[r]
  <2> DEFINE n == written[r]
             g == [k \in 1 .. n |-> <<r, k>>]
  <2>1. n \in Nat
    OBVIOUS
  <2>2. IsFiniteSet(1 .. n) /\ Cardinality(1 .. n) = n
    BY <2>1, FS_Interval
  <2>3. Tally({r}) = {<<r, k>> : k \in 1 .. n}
    <3>1. \A t \in Tally({r}) : t = <<r, t[2]>> /\ t[2] \in 1 .. n
      BY <2>1 DEF Tally
    <3>2. \A k \in 1 .. n : <<r, k>> \in Tally({r})
      BY <2>1 DEF Tally
    <3> QED
      BY <3>1, <3>2
  <2> HIDE DEF n
  <2>4. /\ \A k \in 1 .. n : g[k] \in {<<r, k2>> : k2 \in 1 .. n}
        /\ \A k, l \in 1 .. n : g[k] = g[l] => k = l
        /\ \A t \in {<<r, k2>> : k2 \in 1 .. n} : \E k \in 1 .. n : g[k] = t
    OBVIOUS
  <2>5. g \in [1 .. n -> Tally({r})]
    BY <2>3, <2>4
  <2> HIDE DEF g
  <2>6. g \in Bijection(1 .. n, Tally({r}))
    BY <2>3, <2>4, <2>5 DEF Bijection, Injection, Surjection, IsInjective
  <2> QED
    BY <2>2, <2>6, FS_Bijection DEF ExistsBijection, n
<1>3. ASSUME NEW R \in SUBSET Ranks, IsFiniteSet(R)
      PROVE  IsFiniteSet(Tally(R))
  <2> DEFINE f == [r \in R |-> Tally({r})]
             S == {f[r] : r \in R}
  <2>1. IsFiniteSet(S)
    BY <1>3, FiniteImage
  <2>2. \A T \in S : IsFiniteSet(T)
    BY <1>2
  <2>3. Tally(R) = UNION S
    <3>1. \A r \in R : f[r] = Tally({r})
      OBVIOUS
    <3> HIDE DEF f
    <3> QED
      BY <3>1 DEF Tally
  <2> HIDE DEF S
  <2> QED
    BY <2>1, <2>2, <2>3, FS_UNION
<1>4. ASSUME NEW R \in SUBSET Ranks, IsFiniteSet(R), NEW r \in R
      PROVE  Cardinality(Tally(R)) = written[r] + Cardinality(Tally(R \ {r}))
  <2> DEFINE A == Tally({r})
             B == Tally(R \ {r})
  <2>1. IsFiniteSet(R \ {r})
    BY <1>4, FS_Subset
  <2>2. IsFiniteSet(A) /\ IsFiniteSet(B) /\ Cardinality(A) = written[r]
    BY <1>2, <1>3, <2>1
  <2>3. Tally(R) = A \cup B /\ A \cap B = {}
    BY DEF Tally
  <2> HIDE DEF A, B
  <2>4. Cardinality(A \cup B) = Cardinality(A) + Cardinality(B) - Cardinality(A \cap B)
    BY <2>2, FS_Union
  <2>5. Cardinality(A \cap B) = 0
    BY <2>3, FS_EmptySet
  <2>6. Cardinality(A) \in Nat /\ Cardinality(B) \in Nat
    BY <2>2, FS_CardinalityType
  <2>7. Cardinality(A \cup B) = Cardinality(A) + Cardinality(B)
    BY <2>4, <2>5, <2>6
  <2> QED
    BY <2>2, <2>3, <2>7 DEF B
<1> QED
  BY <1>1, <1>3, <1>4, FS_EmptySet

\* There are finitely many ranks.
LEMMA FiniteRanks == IsFiniteSet(Ranks)
<1> DEFINE f == [w \in Worlds |-> 0 .. w - 1]
           S == {f[w] : w \in Worlds}
<1>1. IsFiniteSet(S)
  BY WorldsAssumption, FiniteImage
<1>2. \A T \in S : IsFiniteSet(T)
  <2> SUFFICES ASSUME NEW w \in Worlds PROVE IsFiniteSet(0 .. w - 1)
    OBVIOUS
  <2>1. w \in Nat
    BY WorldsAssumption
  <2>2. 0 \in Int /\ w - 1 \in Int
    BY <2>1
  <2> QED
    BY <2>2, FS_Interval
<1>3. Ranks = UNION S
  BY DEF Ranks
<1> HIDE DEF S
<1> QED
  BY <1>1, <1>2, <1>3, FS_UNION

\* The recursive sum of what the ranks have counted is the number of rows.
LEMMA TotalIsTally ==
    ASSUME written \in [Ranks -> Nat], NEW J \in SUBSET Ranks
    PROVE  Total[J] = Cardinality(Tally(J))
<1> DEFINE pick(R) == CHOOSE q \in R : TRUE
           Sums(f) == f = [R \in SUBSET Ranks |->
                             IF R = {} THEN 0 ELSE written[pick(R)] + f[R \ {pick(R)}]]
           h == [R \in SUBSET Ranks |-> Cardinality(Tally(R))]
<1>1. Total = CHOOSE f : Sums(f)
  BY DEF Total
<1>2. \A R \in SUBSET Ranks : IsFiniteSet(R)
  BY FiniteRanks, FS_Subset
<1>3. \A R : R # {} => pick(R) \in R
  OBVIOUS
<1> HIDE DEF pick
<1>4. \A R \in SUBSET Ranks :
         h[R] = IF R = {} THEN 0 ELSE written[pick(R)] + h[R \ {pick(R)}]
  <2> SUFFICES ASSUME NEW R \in SUBSET Ranks
               PROVE  h[R] = IF R = {} THEN 0 ELSE written[pick(R)] + h[R \ {pick(R)}]
    OBVIOUS
  <2>1. CASE R = {}
    BY <2>1, TallyFacts
  <2>2. CASE R # {}
    <3>1. pick(R) \in R /\ R \ {pick(R)} \in SUBSET Ranks
      BY <1>3, <2>2
    <3>2. Cardinality(Tally(R)) = written[pick(R)] + Cardinality(Tally(R \ {pick(R)}))
      BY <1>2, <3>1, TallyFacts
    <3> QED
      BY <2>2, <3>1, <3>2
  <2> QED
    BY <2>1, <2>2
<1>5. Sums(h)
  <2>1. h = [R \in SUBSET Ranks |-> h[R]]
    OBVIOUS
  <2> HIDE DEF h
  <2> QED
    BY <1>4, <2>1
<1>6. Sums(Total)
  <2> HIDE DEF Sums, h
  <2> QED
    BY <1>1, <1>5
<1>7. \A R \in SUBSET Ranks :
         Total[R] = IF R = {} THEN 0 ELSE written[pick(R)] + Total[R \ {pick(R)}]
  BY <1>6
<1> DEFINE T == {R \in SUBSET Ranks : Total[R] # h[R]}
<1> HIDE DEF h, Sums
<1>8. T = {}
  <2> SUFFICES ASSUME T # {} PROVE FALSE
    OBVIOUS
  <2>1. PICK R \in T : \A Q \in T : Q \subseteq R => Q = R
    <3>1. T \subseteq SUBSET Ranks
      OBVIOUS
    <3> HIDE DEF T
    <3> QED
      BY <3>1, FiniteRanks, SmallestSubset
  <2>2. R # {}
    BY <1>4, <1>7
  <2>3. pick(R) \in R /\ R \ {pick(R)} \in SUBSET Ranks
    BY <1>3, <2>2
  <2>4. R \ {pick(R)} \notin T
    BY <2>1, <2>3
  <2>5. Total[R \ {pick(R)}] = h[R \ {pick(R)}]
    BY <2>3, <2>4
  <2> QED
    BY <1>4, <1>7, <2>2, <2>5
<1> QED
  BY <1>8 DEF h

\* What a rank has counted is the length of the file that it writes or has
\* written, unless that has a line that cannot be read.
Counts == \A r \in Job :
    /\ pc[r] \in Busy /\ Readable(part[r]) => written[r] = Len(part[r].lines)
    /\ pc[0] \notin {"unlink", "print"} \cup Ended /\ pc[r] \in Past \cup {"exit"}
          /\ Readable(file[r]) => written[r] = Len(file[r].lines)
    /\ pc[0] = "merge" /\ Readable(file[r]) => written[r] = Len(file[r].lines)

\* No rank writes or counts any more when rank 0 merges.
Quiet == pc[0] \in {"merge", "unlink", "print"} =>
             \A r \in Job : pc[r] \notin {"start"} \cup Busy

\* From the merge on, the ranks have counted the rows that there are.
Summed == pc[0] \in {"unlink", "print"} =>
              file[Whole] = Exact /\ Cardinality(Tally(Job)) = Cardinality(Good)

Counted == written \in [Ranks -> Nat] /\ Counts /\ Quiet /\ Summed

\* Steps of one rank that count nothing and change no file.
LEMMA MoveCounted ==
    ASSUME world # 1, Inv, Counted, NEW r \in Ranks, NEW label,
           UNCHANGED <<world, file, part, written>>, Goto(r, label),
           pc[r] \notin Ended,
           \/ pc[r] \in Busy /\ label \in Busy
           \/ pc[r] = "reduce" /\ label = "barrier"
           \/ pc[r] = "barrier" /\ r # 0 /\ label = "exit"
           \/ pc[r] = "unlink" /\ label = "print"
           \/ pc[r] = "print" /\ label = "exit"
           \/ label = "dead"
    PROVE  Counted'
<1>1. r \in Job /\ 0 \in Job /\ Job \subseteq Ranks /\ Job' = Job
  BY JobFacts DEF Inv, Typed, Roles, Ended, Job
<1>2. pc' = [pc EXCEPT ![r] = label] /\ \A q \in Ranks : pc'[q] = IF q = r THEN label ELSE pc[q]
  BY DEF Goto, Inv, Typed
<1>3. /\ r = 0 => (pc'[0] = "print" => pc[0] = "unlink") /\ pc'[0] \notin {"merge", "unlink"}
      /\ r # 0 => pc'[0] = pc[0]
  BY <1>1, <1>2 DEF Busy
<1>4. Counts'
  <2>1. ASSUME NEW q \in Job, pc'[q] \in Busy, Readable(part[q])
        PROVE  written[q] = Len(part[q].lines)
    BY <1>1, <1>2, <2>1 DEF Counted, Counts, Busy
  <2>2. ASSUME NEW q \in Job, pc'[0] \notin {"unlink", "print"} \cup Ended,
               pc'[q] \in Past \cup {"exit"}, Readable(file[q])
        PROVE  written[q] = Len(file[q].lines)
    <3>1. pc[0] \notin {"unlink", "print"} \cup Ended
      <4>1. CASE r = 0
        <5>1. pc[0] # "unlink" /\ pc[0] # "print"
          BY <1>1, <1>2, <2>2, <4>1 DEF Ended, Busy
        <5> QED
          BY <4>1, <5>1
      <4>2. CASE r # 0
        BY <1>3, <2>2, <4>2
      <4> QED
        BY <4>1, <4>2
    <3>2. pc[q] \in Past \cup {"exit"}
      BY <1>1, <1>2, <1>3, <2>2, <3>1 DEF Past, Busy, Ended, Inv, Roles
    <3> QED
      BY <2>2, <3>1, <3>2 DEF Counted, Counts
  <2>3. ASSUME NEW q \in Job, pc'[0] = "merge", Readable(file[q])
        PROVE  written[q] = Len(file[q].lines)
    BY <1>3, <2>3 DEF Counted, Counts
  <2> QED
    BY <1>1, <2>1, <2>2, <2>3 DEF Counts
<1>5. Quiet'
  BY <1>1, <1>2, <1>3 DEF Counted, Quiet, Busy
<1>6. Summed'
  <2>1. Tally(Job)' = Tally(Job) /\ Exact' = Exact
    BY <1>1 DEF Tally, Exact
  <2> QED
    BY <1>3, <2>1 DEF Counted, Summed
<1> QED
  BY <1>4, <1>5, <1>6 DEF Counted

\* A launched job has counted nothing, and its ranks have not begun.
LEMMA LaunchCounted ==
    ASSUME NEW w \in Worlds, Launch(w)
    PROVE  Counted'
<1>1. 0 \in Job' /\ 0 \in Ranks /\ Job' \subseteq Ranks
  BY WorldsAssumption DEF Job, Ranks, Launch
<1>2. /\ \A r \in Ranks : pc'[r] = IF r < w THEN "start" ELSE "exit"
      /\ world' = w /\ written' = [r \in Ranks |-> 0]
  BY DEF Launch
<1>3. \A r \in Job' : pc'[r] = "start"
  BY <1>1, <1>2 DEF Job
<1>4. pc'[0] = "start"
  BY <1>1, <1>3
<1>5. Counts'
  BY <1>3, <1>4 DEF Counts, Busy, Past
<1>6. Quiet' /\ Summed'
  BY <1>4 DEF Quiet, Summed
<1> QED
  BY <1>2, <1>5, <1>6 DEF Counted

\* When rank 0 comes to merge, every rank has published what it counted.
LEMMA BarrierCounted ==
    ASSUME world # 1, Inv, Counted, Barrier(0)
    PROVE  Counted'
<1> USE DEF Barrier, disk
<1>1. /\ pc[0] = "barrier" /\ 0 \in Job /\ 0 \in Ranks /\ Job \subseteq Ranks /\ Job' = Job
      /\ pc' = [pc EXCEPT ![0] = "merge"] /\ UNCHANGED <<world, file, part, written>>
  BY JobFacts DEF Goto, Inv, Typed, Job
<1>2. \A q \in Job : pc[q] \in {"barrier", "merge", "exit"}
  BY <1>1 DEF Entered, Inv, Roles
<1>3. \A q \in Job : Readable(file[q]) => written[q] = Len(file[q].lines)
  BY <1>1, <1>2 DEF Counted, Counts, Past, Ended
<1>4. \A q \in Ranks : pc'[q] = IF q = 0 THEN "merge" ELSE pc[q]
  BY <1>1 DEF Inv, Typed
<1>5. Counts'
  BY <1>1, <1>2, <1>3, <1>4 DEF Counts, Busy
<1>6. Quiet'
  BY <1>1, <1>2, <1>4 DEF Quiet, Busy
<1>7. Summed'
  BY <1>1, <1>4 DEF Summed
<1> QED
  BY <1>1, <1>5, <1>6, <1>7 DEF Counted

\* A rank counts the rows that it goes on from.
LEMMA BeginCounted ==
    ASSUME world # 1, Inv, Counted, NEW r \in Ranks, Begin(r)
    PROVE  Counted'
<1> USE DEF Begin
<1> DEFINE rows == Loaded(part[r])
<1>1. /\ r \in Job /\ Job \subseteq Ranks /\ 0 \in Job /\ r \in Names
      /\ Ranks \subseteq Names /\ RankedPath(r) = r /\ world # 1 /\ Job' = Job
  BY JobFacts DEF Inv, Typed, Roles, Job
<1>2. /\ pc[r] = "start" /\ pc' = [pc EXCEPT ![r] = "scan"]
      /\ written' = [written EXCEPT ![r] = Len(rows)]
      /\ part' = [part EXCEPT ![r] = IF @ = None THEN NoLines ELSE @]
      /\ UNCHANGED <<world, file>>
  BY <1>1 DEF Goto
<1>3. Len(rows) \in Nat /\ (Readable(part'[r]) => Len(rows) = Len(part'[r].lines))
  <2>1. CASE part[r] = None
    <3>1. part'[r] = NoLines
      BY <1>1, <1>2, <2>1 DEF Inv, Typed
    <3>2. rows = <<>>
      BY <2>1 DEF Loaded
    <3> QED
      BY <3>1, <3>2 DEF NoLines
  <2>2. CASE part[r] # None
    <3>1. part'[r] = part[r] /\ part[r] \in File
      BY <1>1, <1>2, <2>2 DEF Inv, Typed
    <3>2. rows \in Seq(Records \cup Unreadable)
      BY <3>1, LoadedSeq
    <3> QED
      BY <3>1, <3>2, LoadedWhole
  <2> QED
    BY <2>1, <2>2
<1> HIDE DEF rows
<1>4. \A q \in Ranks : /\ pc'[q] = IF q = r THEN "scan" ELSE pc[q]
                       /\ written'[q] = IF q = r THEN Len(rows) ELSE written[q]
                       /\ q # r => part'[q] = part[q]
  BY <1>1, <1>2 DEF Inv, Typed, Counted
<1>5. pc'[0] \notin {"merge", "unlink", "print"}
  BY <1>1, <1>2, <1>4 DEF Counted, Quiet
<1>6. Counts'
  <2>1. ASSUME NEW q \in Job, q # r, pc[q] \in Busy, Readable(part[q])
        PROVE  written[q] = Len(part[q].lines)
    BY <2>1 DEF Counted, Counts
  <2>2. ASSUME NEW q \in Job, q # r, pc'[0] \notin {"unlink", "print"} \cup Ended,
               pc[q] \in Past \cup {"exit"}, Readable(file[q])
        PROVE  written[q] = Len(file[q].lines)
    <3>1. pc[0] \notin {"unlink", "print"} \cup Ended
      BY <1>1, <1>2, <1>4, <2>2 DEF Ended
    <3> QED
      BY <2>2, <3>1 DEF Counted, Counts
  <2>3. ASSUME NEW q \in Job, q # r
        PROVE  /\ pc'[q] = pc[q] /\ part'[q] = part[q] /\ written'[q] = written[q]
               /\ file'[q] = file[q]
    BY <1>1, <1>2, <1>4, <2>3
  <2>4. /\ pc'[r] = "scan" /\ (Readable(part'[r]) => written'[r] = Len(part'[r].lines))
    BY <1>3, <1>4
  <2>5. ASSUME NEW q \in Job
        PROVE  /\ pc'[q] \in Busy /\ Readable(part'[q]) => written'[q] = Len(part'[q].lines)
               /\ pc'[0] \notin {"unlink", "print"} \cup Ended /\ pc'[q] \in Past \cup {"exit"}
                     /\ Readable(file'[q]) => written'[q] = Len(file'[q].lines)
    <3>1. CASE q = r
      BY <2>4, <3>1 DEF Past
    <3>2. CASE q # r
      BY <2>1, <2>2, <2>3, <3>2
    <3> QED
      BY <3>1, <3>2
  <2> QED
    BY <1>1, <1>5, <2>5 DEF Counts
<1>7. Quiet' /\ Summed'
  BY <1>5 DEF Quiet, Summed
<1>8. written' \in [Ranks -> Nat]
  BY <1>2, <1>3 DEF Counted
<1> QED
  BY <1>6, <1>7, <1>8 DEF Counted

\* A row that is written is counted; one cut short before it makes the file
\* unreadable, and nothing is promised of that.
LEMMA WriteCounted ==
    ASSUME world # 1, Inv, Counted, NEW r \in Ranks, Write(r)
    PROVE  Counted'
<1> USE DEF Write
<1> DEFINE i == Head(window[r])
<1>1. /\ r \in Job /\ Job \subseteq Ranks /\ 0 \in Job /\ r \in Names /\ RankedPath(r) = r
      /\ Ranks \subseteq Names /\ Job' = Job /\ Whole \notin Ranks
  BY JobFacts DEF Inv, Typed, Roles, Job
<1>2. i \in Records
  <2>1. window[r] \in Seq(Records) /\ window[r] # <<>>
    BY DEF Inv, Typed
  <2> QED
    BY <2>1
<1>3. /\ pc[r] = "write" /\ UNCHANGED <<world, file, pc>>
      /\ IF Verdict[i] = "row"
         THEN /\ part' = [part EXCEPT ![r] = Appended(@, i)]
              /\ written' = [written EXCEPT ![r] = @ + 1]
         ELSE UNCHANGED <<part, written>>
  BY <1>1
<1> HIDE DEF i
<1>4. CASE Verdict[i] # "row"
  <2>1. UNCHANGED <<world, file, pc, part, written>>
    BY <1>3, <1>4
  <2> QED
    BY <1>1, <2>1 DEF Counted, Counts, Quiet, Summed, Tally, Exact
<1>5. CASE Verdict[i] = "row"
  <2>1. \A q \in Ranks : /\ part'[q] = IF q = r THEN Appended(part[r], i) ELSE part[q]
                         /\ written'[q] = IF q = r THEN written[r] + 1 ELSE written[q]
    BY <1>1, <1>3, <1>5 DEF Inv, Typed, Counted
  <2>2. part[r] \in File
    BY <1>1, <1>3 DEF Inv, Typed, WorkKept, Holds, Busy
  <2>3. ASSUME Readable(part'[r]) PROVE written'[r] = Len(part'[r].lines)
    <3>1. Len(Appended(part[r], i).lines) = Len(part[r].lines) + 1
      BY <1>2, <2>1, <2>2, <2>3, AppendedOne
    <3>2. Readable(part[r])
      <4>1. RowsOf(Appended(part[r], i).lines) \cap Unreadable = {}
        <5>1. Appended(part[r], i) # None
          BY <1>2, <2>2, AppendedFacts, NamesAssumption DEF File
        <5> QED
          BY <2>1, <2>3, <5>1 DEF Readable
      <4> QED
        BY <1>2, <2>2, <4>1, AppendedFacts DEF Readable
    <3>3. written[r] = Len(part[r].lines)
      BY <1>1, <1>3, <3>2 DEF Counted, Counts, Busy
    <3> QED
      BY <2>1, <3>1, <3>3
  <2>4. pc[0] \notin {"merge", "unlink", "print"}
    BY <1>1, <1>3 DEF Counted, Quiet, Busy
  <2>5. Counts'
    BY <1>1, <1>3, <2>1, <2>3, <2>4 DEF Counted, Counts, Past
  <2>6. Quiet' /\ Summed'
    BY <1>3, <2>4 DEF Quiet, Summed
  <2>7. written' \in [Ranks -> Nat]
    BY <1>3, <1>5 DEF Counted
  <2> QED
    BY <2>5, <2>6, <2>7 DEF Counted
<1> QED
  BY <1>4, <1>5

\* The file that is published is the one whose lines were counted.
LEMMA PublishCounted ==
    ASSUME world # 1, Inv, Counted, NEW r \in Ranks, Publish(r)
    PROVE  Counted'
<1> USE DEF Publish
<1>1. /\ r \in Job /\ Job \subseteq Ranks /\ 0 \in Job /\ r \in Names /\ r # Whole
      /\ Ranks \subseteq Names /\ RankedPath(r) = r /\ world # 1 /\ Job' = Job
  BY JobFacts DEF Inv, Typed, Roles, Names, Job
<1>2. /\ pc[r] = "scan"
      /\ file' = [file EXCEPT ![r] = part[r]]
      /\ part' = [part EXCEPT ![r] = None]
      /\ pc' = [pc EXCEPT ![r] = "reduce"]
      /\ UNCHANGED <<world, written>>
  BY <1>1 DEF Goto
<1>3. \A q \in Ranks : /\ pc'[q] = IF q = r THEN "reduce" ELSE pc[q]
                       /\ file'[q] = IF q = r THEN part[r] ELSE file[q]
                       /\ q # r => part'[q] = part[q]
  BY <1>1, <1>2 DEF Inv, Typed
<1>4. pc[0] \notin {"merge", "unlink", "print"} /\ pc'[0] \notin {"merge", "unlink", "print"}
  BY <1>1, <1>2, <1>3 DEF Counted, Quiet, Busy
<1>5. Readable(part[r]) => written[r] = Len(part[r].lines)
  BY <1>1, <1>2 DEF Counted, Counts, Busy
<1>6. pc'[0] \notin Ended => pc[0] \notin Ended
  BY <1>1, <1>2, <1>3 DEF Ended
<1>7. Counts'
  <2>1. ASSUME NEW q \in Job, q # r, pc'[q] \in Busy, Readable(part'[q])
        PROVE  written'[q] = Len(part'[q].lines)
    BY <1>1, <1>2, <1>3, <2>1 DEF Counted, Counts
  <2>2. ASSUME NEW q \in Job, q # r, pc'[0] \notin {"unlink", "print"} \cup Ended,
               pc'[q] \in Past \cup {"exit"}, Readable(file'[q])
        PROVE  written'[q] = Len(file'[q].lines)
    BY <1>1, <1>2, <1>3, <1>4, <1>6, <2>2 DEF Counted, Counts
  <2>3. /\ pc'[r] = "reduce"
        /\ Readable(file'[r]) => written'[r] = Len(file'[r].lines)
    BY <1>1, <1>2, <1>3, <1>5
  <2>4. ASSUME NEW q \in Job
        PROVE  /\ pc'[q] \in Busy /\ Readable(part'[q]) => written'[q] = Len(part'[q].lines)
               /\ pc'[0] \notin {"unlink", "print"} \cup Ended /\ pc'[q] \in Past \cup {"exit"}
                     /\ Readable(file'[q]) => written'[q] = Len(file'[q].lines)
    <3>1. CASE q = r
      BY <2>3, <3>1 DEF Busy
    <3>2. CASE q # r
      BY <2>1, <2>2, <3>2
    <3> QED
      BY <3>1, <3>2
  <2> QED
    BY <1>1, <1>4, <2>4 DEF Counts
<1>8. Quiet' /\ Summed'
  BY <1>4 DEF Quiet, Summed
<1> QED
  BY <1>2, <1>7, <1>8 DEF Counted

\* What is merged is as much as has been counted: a record of each pair of a
\* shard and a line of it.
LEMMA MergeCounts ==
    ASSUME world # 1, Inv, Counted, pc[0] = "merge", Mergeable
    PROVE  Cardinality(Tally(Job)) = Cardinality(Good)
<1>1. /\ Job \subseteq Ranks /\ 0 \in Job
      /\ \A q \in Job : Holds(file[q], q, N, {})
  BY JobFacts DEF Inv, Typed, ShardKept
<1>2. Shards = Job
  BY <1>1 DEF Shards, Holds
<1>3. \A q \in Job : written[q] = Len(file[q].lines) /\ file[q] \in File
  BY <1>1, <1>2 DEF Mergeable, Counted, Counts, Inv, Typed, Holds
<1> DEFINE row(t) == file[t[1]].lines[t[2]]
           g == [t \in Tally(Job) |-> row(t)]
<1>4. \A t \in Tally(Job) : /\ t[1] \in Job /\ t[2] \in DOMAIN file[t[1]].lines
                            /\ t = <<t[1], t[2]>>
  <2> SUFFICES ASSUME NEW t \in Tally(Job)
               PROVE  t[1] \in Job /\ t[2] \in DOMAIN file[t[1]].lines /\ t = <<t[1], t[2]>>
    OBVIOUS
  <2>1. t \in Job \X (Nat \ {0}) /\ t[2] <= written[t[1]]
    BY DEF Tally
  <2>2. t[1] \in Job /\ t[2] \in Nat /\ t[2] >= 1 /\ t = <<t[1], t[2]>>
    BY <2>1
  <2>3. file[t[1]].lines \in Seq(Records \cup Unreadable) /\ t[2] <= Len(file[t[1]].lines)
    BY <1>3, <2>1, <2>2 DEF File
  <2> QED
    BY <2>2, <2>3
<1>5. \A q \in Job : \A k \in DOMAIN file[q].lines : <<q, k>> \in Tally(Job)
  <2> SUFFICES ASSUME NEW q \in Job, NEW k \in DOMAIN file[q].lines
               PROVE  <<q, k>> \in Tally(Job)
    OBVIOUS
  <2>1. file[q].lines \in Seq(Records \cup Unreadable) /\ written[q] = Len(file[q].lines)
    BY <1>3 DEF File
  <2>2. k \in Nat /\ k # 0 /\ k <= written[q]
    BY <2>1
  <2> QED
    BY <2>2 DEF Tally
<1>6. UNION {RowsOf(file[q].lines) : q \in Job} = Good
  BY <1>2, MergeExact
<1>7. \A t \in Tally(Job) : row(t) \in Good
  <2> SUFFICES ASSUME NEW t \in Tally(Job) PROVE row(t) \in Good
    OBVIOUS
  <2>1. row(t) \in RowsOf(file[t[1]].lines)
    BY <1>4 DEF RowsOf
  <2> QED
    BY <1>4, <1>6, <2>1
<1>8. \A s, t \in Tally(Job) : row(s) = row(t) => s = t
  <2> SUFFICES ASSUME NEW s \in Tally(Job), NEW t \in Tally(Job), row(s) = row(t), s # t
               PROVE  FALSE
    OBVIOUS
  <2>1. /\ s[1] \in Shards /\ s[2] \in DOMAIN file[s[1]].lines /\ s = <<s[1], s[2]>>
        /\ t[1] \in Shards /\ t[2] \in DOMAIN file[t[1]].lines /\ t = <<t[1], t[2]>>
    BY <1>2, <1>4
  <2>2. IndexTwice
    BY <2>1 DEF IndexTwice
  <2> QED
    BY <2>2 DEF Mergeable
<1>9. \A i \in Good : \E t \in Tally(Job) : row(t) = i
  <2> SUFFICES ASSUME NEW i \in Good PROVE \E t \in Tally(Job) : row(t) = i
    OBVIOUS
  <2>1. PICK q \in Job : i \in RowsOf(file[q].lines)
    BY <1>6
  <2>2. PICK k \in DOMAIN file[q].lines : file[q].lines[k] = i
    BY <2>1 DEF RowsOf
  <2>3. <<q, k>> \in Tally(Job) /\ row(<<q, k>>) = i
    BY <1>5, <2>2
  <2> QED
    BY <2>3
<1> HIDE DEF row
<1>10. g \in Bijection(Tally(Job), Good)
  <2>1. g \in [Tally(Job) -> Good]
    BY <1>7
  <2>2. \A s, t \in Tally(Job) : g[s] = g[t] => s = t
    BY <1>8
  <2>3. \A i \in Good : \E t \in Tally(Job) : g[t] = i
    BY <1>9
  <2> HIDE DEF g
  <2> QED
    BY <2>1, <2>2, <2>3 DEF Bijection, Injection, Surjection, IsInjective
<1>11. IsFiniteSet(Tally(Job))
  <2>1. IsFiniteSet(Job)
    BY <1>1, FiniteRanks, FS_Subset
  <2> QED
    BY <1>1, <2>1, TallyFacts DEF Counted
<1> HIDE DEF g
<1> QED
  BY <1>10, <1>11, FS_Bijection DEF ExistsBijection

\* A merge that is accepted has the rows that the ranks have counted.
LEMMA MergeCounted ==
    ASSUME world # 1, Inv, Counted, NEW r \in Ranks, Merge(r), Mergeable
    PROVE  Counted'
<1>1. /\ r = 0 /\ pc[0] = "merge" /\ Whole \in Names /\ Whole \notin Ranks /\ Job \subseteq Ranks
      /\ 0 \in Job /\ Ranks \subseteq Names /\ Job' = Job
  BY JobFacts DEF Inv, Roles, Typed, Merge, Job
<1>2. /\ file' = [file EXCEPT ![Whole] = Exact]
      /\ pc' = [pc EXCEPT ![0] = "unlink"]
      /\ UNCHANGED <<world, part, written>>
  BY <1>1, MergeExact DEF Goto, Exact, Merge
<1>3. Cardinality(Tally(Job)) = Cardinality(Good)
  BY <1>1, MergeCounts
<1>4. \A q \in Ranks : pc'[q] = (IF q = 0 THEN "unlink" ELSE pc[q]) /\ file'[q] = file[q]
  BY <1>1, <1>2 DEF Inv, Typed
<1>5. file'[Whole] = Exact /\ Exact' = Exact
  BY <1>1, <1>2 DEF Inv, Typed, Exact
<1>6. Counts'
  BY <1>1, <1>2, <1>4 DEF Counted, Counts, Busy
<1>7. Quiet'
  BY <1>1, <1>2, <1>4 DEF Counted, Quiet, Busy
<1>8. Summed'
  <2>1. Cardinality(Tally(Job))' = Cardinality(Tally(Job))
    BY <1>1, <1>2 DEF Tally
  <2> QED
    BY <1>3, <1>5, <2>1 DEF Summed
<1> QED
  BY <1>2, <1>6, <1>7, <1>8 DEF Counted

\* The shard that is unlinked next, the first, is the shard of a rank.
LEMMA FirstShard ==
    ASSUME world # 1, Inv, Shards # {}
    PROVE  (CHOOSE q \in Shards : \A p \in Shards : q <= p) \in Ranks
<1>1. Shards \subseteq Ranks /\ Ranks \subseteq Nat
  BY JobFacts DEF Shards, Inv, Typed
<1>2. PICK m \in Shards : \A k \in Shards : m <= k
  BY <1>1, SmallestNumber
<1>3. (CHOOSE q \in Shards : \A p \in Shards : q <= p) \in Shards
  BY <1>2
<1> QED
  BY <1>1, <1>3

\* Unlinking changes no count and not the teacher file.
LEMMA UnlinkCounted ==
    ASSUME world # 1, Inv, Counted, NEW r \in Ranks, Unlink(r)
    PROVE  Counted'
<1> USE DEF Unlink
<1>1. /\ r = 0 /\ pc[0] = "unlink" /\ Whole \in Names /\ Whole \notin Ranks /\ Job \subseteq Ranks
      /\ 0 \in Job /\ Ranks \subseteq Names /\ Job' = Job
  BY JobFacts DEF Inv, Roles, Typed, Job
<1>2. CASE Shards = {}
  BY <1>1, <1>2, MoveCounted DEF Ended
<1>3. CASE Shards # {}
  <2> DEFINE s == CHOOSE q \in Shards : \A p \in Shards : q <= p
  <2>1. file' = [file EXCEPT ![s] = None] /\ UNCHANGED <<world, pc, part, written>>
    BY <1>3
  <2>2. s \in Ranks
    BY <1>3, FirstShard
  <2> HIDE DEF s
  <2>3. file'[Whole] = file[Whole] /\ Exact' = Exact
    BY <1>1, <2>1, <2>2 DEF Inv, Typed, Exact
  <2>4. Counts'
    BY <1>1, <2>1 DEF Counted, Counts
  <2>5. Quiet'
    BY <1>1, <2>1 DEF Counted, Quiet
  <2>6. Summed'
    BY <1>1, <2>1, <2>3 DEF Counted, Summed, Tally
  <2> QED
    BY <2>1, <2>4, <2>5, <2>6 DEF Counted
<1> QED
  BY <1>2, <1>3

\* A rank that dies is not asked for its count any more.
LEMMA DieCounted ==
    ASSUME world # 1, Inv, Counted, NEW r \in Ranks, Die(r)
    PROVE  Counted'
<1> USE DEF Die
<1>1. /\ RankedPath(r) = r /\ pc' = [pc EXCEPT ![r] = "dead"] /\ UNCHANGED <<world, file, written>>
      /\ r \in Job /\ 0 \in Job /\ Job \subseteq Ranks /\ Job' = Job /\ pc[r] \notin Ended
  BY JobFacts DEF Inv, Typed, Goto, Roles, Ended, Job
<1>2. CASE UNCHANGED part
  BY <1>1, <1>2, MoveCounted DEF Goto
<1>3. CASE ~UNCHANGED part
  <2>1. pc[r] = "write" /\ \E f : part' = [part EXCEPT ![r] = f]
    BY <1>1, <1>3
  <2>2. \A q \in Ranks : /\ pc'[q] = (IF q = r THEN "dead" ELSE pc[q])
                         /\ q # r => part'[q] = part[q]
    BY <1>1, <2>1 DEF Inv, Typed
  <2>3. pc[0] \notin {"merge", "unlink", "print"} /\ pc'[0] \notin {"merge", "unlink", "print"}
    BY <1>1, <2>1, <2>2 DEF Counted, Quiet, Busy
  <2>4. Counts'
    <3>1. pc'[r] = "dead" /\ (pc'[0] \notin Ended => pc[0] \notin Ended)
      BY <1>1, <2>2 DEF Ended
    <3>2. ASSUME NEW q \in Job
          PROVE  /\ pc'[q] \in Busy /\ Readable(part'[q]) => written'[q] = Len(part'[q].lines)
                 /\ pc'[0] \notin {"unlink", "print"} \cup Ended /\ pc'[q] \in Past \cup {"exit"}
                       /\ Readable(file'[q]) => written'[q] = Len(file'[q].lines)
      <4>1. CASE q = r
        BY <3>1, <4>1 DEF Busy, Past
      <4>2. CASE q # r
        <5>1. pc'[q] = pc[q] /\ part'[q] = part[q] /\ written'[q] = written[q] /\ file'[q] = file[q]
          BY <1>1, <2>2, <4>2
        <5> QED
          BY <2>3, <3>1, <5>1 DEF Counted, Counts
      <4> QED
        BY <4>1, <4>2
    <3> QED
      BY <1>1, <2>3, <3>2 DEF Counts
  <2>5. Quiet' /\ Summed'
    BY <2>3 DEF Quiet, Summed
  <2> QED
    BY <1>1, <2>4, <2>5 DEF Counted
<1> QED
  BY <1>2, <1>3

\* Every step of a job of several ranks keeps the counts.
LEMMA CountedStep ==
    ASSUME world # 1, Inv, Counted, [Next]_vars
    PROVE  Counted'
<1>1. CASE \E w \in Worlds : Launch(w)
  BY <1>1, LaunchCounted
<1>2. ASSUME NEW r \in Ranks, RankStep(r) PROVE Counted'
  <2>1. CASE Begin(r)
    BY <2>1, BeginCounted
  <2>2. CASE Scan(r)
    BY <2>2, MoveCounted DEF Scan, disk, Busy, Ended
  <2>3. CASE LastWindow(r)
    BY <2>3, MoveCounted DEF LastWindow, disk, Busy, Ended
  <2>4. CASE Generate(r)
    BY <2>4, MoveCounted DEF Generate, disk, Busy, Ended
  <2>5. CASE Write(r)
    BY <2>5, WriteCounted
  <2>6. CASE WindowWritten(r)
    BY <2>6, MoveCounted DEF WindowWritten, disk, Busy, Ended
  <2>7. CASE Publish(r)
    BY <2>7, PublishCounted
  <2>8. CASE AllReduce(r)
    BY <2>8, MoveCounted DEF AllReduce, disk, Ended
  <2>9. CASE Barrier(r)
    <3>1. CASE r = 0
      BY <2>9, <3>1, BarrierCounted
    <3>2. CASE r # 0
      <4>1. r > 0
        BY <3>2, JobFacts DEF Inv, Typed
      <4> QED
        BY <2>9, <3>2, <4>1, MoveCounted DEF Barrier, disk, Ended
    <3> QED
      BY <3>1, <3>2
  <2>10. CASE Merge(r)
    <3>1. CASE Mergeable
      BY <2>10, <3>1, MergeCounted
    <3>2. CASE ~Mergeable
      BY <2>10, <3>2, MoveCounted DEF Merge, Ended
    <3> QED
      BY <3>1, <3>2
  <2>11. CASE Unlink(r)
    BY <2>11, UnlinkCounted
  <2>12. CASE Summary(r)
    BY <2>12, MoveCounted DEF Summary, disk, Ended
  <2>13. CASE Undecodable(r)
    BY <2>13, MoveCounted DEF Undecodable, disk, Ended
  <2> QED
    BY <1>2, <2>1, <2>2, <2>3, <2>4, <2>5, <2>6, <2>7, <2>8, <2>9, <2>10, <2>11, <2>12, <2>13
       DEF RankStep
<1>3. Backend = "hf"
  BY BackendAssumption DEF Inv, Typed
<1>4. ASSUME NEW r \in Ranks, WindowFails(r) PROVE Counted'
  BY <1>3, <1>4, MoveCounted DEF WindowFails, disk, Busy, Ended
<1>5. ASSUME NEW r \in Ranks, Die(r) PROVE Counted'
  BY <1>5, DieCounted
<1>6. CASE UNCHANGED vars
  BY <1>6 DEF vars, Counted, Counts, Quiet, Summed, Job, Tally, Exact
<1> QED
  BY <1>1, <1>2, <1>4, <1>5, <1>6 DEF Next, SkipStage

\* There are finitely many records that have a row.
LEMMA GoodFacts == Good \subseteq Nat /\ IsFiniteSet(Good)
<1>1. Records \subseteq Nat /\ IsFiniteSet(Records)
  <2>1. 0 \in Int /\ N - 1 \in Int
    BY RecordsAssumption
  <2> QED
    BY <2>1, RecordsAssumption, FS_Interval DEF Records
<1>2. Good \subseteq Records
  BY DEF Good
<1> QED
  BY <1>1, <1>2, FS_Subset

\* No job has counted anything yet.
LEMMA InitCounted ==
    ASSUME Init
    PROVE  Counted
<1>1. 0 \in Job /\ Job \subseteq Ranks
  BY JobFacts DEF Init
<1>2. \A r \in Ranks : pc[r] = "exit"
  BY DEF Init
<1>3. Counts /\ Quiet /\ Summed
  BY <1>1, <1>2 DEF Counts, Quiet, Summed, Busy, Ended
<1>4. written \in [Ranks -> Nat]
  BY DEF Init
<1> QED
  BY <1>3, <1>4 DEF Counted

-----------------------------------------------------------------------------
\* What stays on disk.

\* The rows of a sequence with one more, and of one without its first.
LEMMA RowsAppend ==
    ASSUME NEW A, NEW s \in Seq(A), NEW i
    PROVE  RowsOf(Append(s, i)) = RowsOf(s) \cup {i}
<1> DEFINE l == Append(s, i)
<1>1. /\ DOMAIN l = 1 .. Len(s) + 1 /\ DOMAIN s = 1 .. Len(s) /\ Len(s) \in Nat
      /\ l[Len(s) + 1] = i
      /\ \A k \in 1 .. Len(s) : l[k] = s[k]
  OBVIOUS
<1> HIDE DEF l
<1>2. RowsOf(l) = RowsOf(s) \cup {i}
  BY <1>1 DEF RowsOf
<1> QED
  BY <1>2 DEF l

\* Without its first row a sequence has no other rows.
LEMMA RowsTail ==
    ASSUME NEW A, NEW s \in Seq(A), s # <<>>
    PROVE  RowsOf(Tail(s)) \subseteq RowsOf(s) /\ Head(s) \in RowsOf(s)
<1> DEFINE t == Tail(s)
<1>1. /\ DOMAIN s = 1 .. Len(s) /\ Len(s) \in Nat /\ Len(s) > 0
      /\ DOMAIN t = 1 .. Len(s) - 1
      /\ \A k \in 1 .. Len(s) - 1 : t[k] = s[k + 1]
      /\ Head(s) = s[1]
  OBVIOUS
<1> HIDE DEF t
<1>2. \A k \in DOMAIN t : k + 1 \in DOMAIN s /\ t[k] = s[k + 1]
  BY <1>1
<1>3. RowsOf(t) \subseteq RowsOf(s) /\ Head(s) \in RowsOf(s)
  BY <1>1, <1>2 DEF RowsOf
<1> QED
  BY <1>3 DEF t

\* Files to which nothing unreadable was ever added.
Plain == [lines : Seq(Records), open : {FALSE}]

\* What is appended to such a file is a line of its own, and it stays one.
LEMMA PlainFacts ==
    /\ Records \subseteq Nat /\ Unreadable \cap Records = {}
    /\ Plain \subseteq File /\ None \notin Plain /\ NoLines \in Plain /\ NoLines.lines = <<>>
    /\ \A f \in Plain : /\ Readable(f) /\ f.lines \in Seq(Records)
                        /\ \A i \in Records :
                              /\ Appended(f, i) \in Plain
                              /\ Appended(f, i).lines = Append(f.lines, i)
<1>1. Records \subseteq Nat /\ Unreadable \cap Records = {}
  BY RecordsAssumption, NamesAssumption DEF Records
<1>2. Plain \subseteq File
  <2> SUFFICES ASSUME NEW f \in Plain PROVE f \in File
    OBVIOUS
  <2>1. f.lines \in Seq(Records) /\ f.open = FALSE /\ f = [lines |-> f.lines, open |-> f.open]
    BY DEF Plain
  <2>2. f.lines \in Seq(Records \cup Unreadable)
    BY <2>1
  <2>3. f \in [lines : Seq(Records \cup Unreadable), open : BOOLEAN]
    BY <2>1, <2>2
  <2> QED
    BY <2>1, <2>3 DEF File
<1>3. None \notin Plain
  BY <1>2, NamesAssumption DEF File
<1>4. NoLines \in Plain /\ NoLines.lines = <<>>
  <2>1. <<>> \in Seq(Records)
    OBVIOUS
  <2>2. [lines |-> <<>>, open |-> FALSE] \in Plain
    BY <2>1 DEF Plain
  <2>3. NoLines = [lines |-> <<>>, open |-> FALSE]
    BY DEF NoLines
  <2> QED
    BY <2>2, <2>3
<1>5. ASSUME NEW f \in Plain PROVE Readable(f) /\ f.lines \in Seq(Records)
  <2>1. f.lines \in Seq(Records)
    BY DEF Plain
  <2>2. RowsOf(f.lines) \subseteq Records
    BY <2>1 DEF RowsOf
  <2> QED
    BY <1>1, <2>1, <2>2 DEF Readable
<1>6. ASSUME NEW f \in Plain, NEW i \in Records
      PROVE  Appended(f, i) \in Plain /\ Appended(f, i).lines = Append(f.lines, i)
  <2>1. f.open = FALSE /\ f.lines \in Seq(Records) /\ f = [lines |-> f.lines, open |-> FALSE]
    BY DEF Plain
  <2>2. Appended(f, i) = [lines |-> Append(f.lines, i), open |-> FALSE]
    BY <2>1 DEF Appended
  <2>3. Append(f.lines, i) \in Seq(Records)
    BY <2>1
  <2> QED
    BY <2>2, <2>3 DEF Plain
<1> QED
  BY <1>1, <1>2, <1>3, <1>4, <1>5, <1>6

-----------------------------------------------------------------------------
\* Every row of a file is in another.
Kept(f, g) == f # None => g # None /\ RowsOf(f.lines) \subseteq RowsOf(g.lines)

\* Rows stay on disk when each file is kept in one that is there afterwards.
LEMMA RowsStay ==
    ASSUME \A n \in Names : /\ \E m \in Names : Kept(file[n], file'[m])
                            /\ \E m \in Names : Kept(part[n], file'[m]) \/ Kept(part[n], part'[m])
    PROVE  OnDisk \subseteq OnDisk'
<1> SUFFICES ASSUME NEW i \in OnDisk PROVE i \in OnDisk'
  OBVIOUS
<1>1. PICK d \in {file, part}, n \in Names : d[n] # None /\ i \in RowsOf(d[n].lines)
  BY DEF OnDisk
<1>2. \E e \in {file', part'}, m \in Names : e[m] # None /\ i \in RowsOf(e[m].lines)
  <2>1. CASE d = file
    BY <1>1, <2>1 DEF Kept
  <2>2. CASE d = part
    BY <1>1, <2>2 DEF Kept
  <2> QED
    BY <2>1, <2>2
<1> QED
  BY <1>2 DEF OnDisk

\* Rows stay on disk when no file changes.
LEMMA RowsStill ==
    ASSUME UNCHANGED <<file, part>>
    PROVE  OnDisk \subseteq OnDisk'
BY DEF OnDisk

-----------------------------------------------------------------------------
\* In jobs of one world size whose lines are never cut short, a rank only ever
\* has rows that are its own.
Own(r) == {i \in Records : i % world = r}
Tidy == \A r \in Ranks :
    /\ RowsOf(window[r]) \subseteq Own(r)
    /\ part[r] # None => part[r] \in Plain /\ RowsOf(part[r].lines) \subseteq Own(r)
    /\ file[r] # None => file[r] \in Plain /\ RowsOf(file[r].lines) \subseteq Own(r)

\* Every step keeps the rows of a rank its own.
LEMMA TidyStep ==
    ASSUME NEW w, Worlds = {w}, world # 1, "torn" \notin Faults, Inv, Tidy, [Next]_vars
    PROVE  Tidy'
<1>1. world = w /\ world' = w /\ \A r : Own(r)' = Own(r)
  <2>1. Inv'
    BY StepKeeps
  <2>2. world = w /\ world' = w
    BY <2>1 DEF Inv, Typed
  <2> QED
    BY <2>2 DEF Own
<1>2. RowsOf(<<>>) = {}
  BY DEF RowsOf
<1>3. CASE UNCHANGED <<file, part, window>>
  BY <1>1, <1>3 DEF Tidy
<1>4. ASSUME NEW v \in Worlds, Launch(v) PROVE Tidy'
  BY <1>1, <1>2, <1>4 DEF Launch, Tidy, disk
<1>5. ASSUME NEW r \in Ranks, Begin(r) PROVE Tidy'
  <2>1. /\ UNCHANGED <<file, window>> /\ RankedPath(r) = r /\ world # 1
        /\ part' = [part EXCEPT ![r] = IF @ = None THEN NoLines ELSE @]
    BY <1>5, JobFacts DEF Begin, Inv, Typed
  <2>2. \A q \in Ranks : part'[q] = part[q] \/ part'[q] = NoLines
    BY <2>1, JobFacts DEF Inv, Typed
  <2> QED
    BY <1>1, <1>2, <2>1, <2>2, PlainFacts DEF Tidy
<1>6. ASSUME NEW r \in Ranks, Scan(r) PROVE Tidy'
  <2> DEFINE i == next[r]
  <2>1. i \in Records /\ window[r] \in Seq(Records)
    BY <1>6, RecordsAssumption DEF Scan, Inv, Typed, Records
  <2>2. UNCHANGED <<file, part>>
    BY <1>6 DEF Scan, disk
  <2>3. window' = window \/ (i % world = r /\ window' = [window EXCEPT ![r] = Append(@, i)])
    <3> DEFINE taken == i % world = r /\ i \notin done[r] /\ Verdict[i] # "unrendered"
    <3>1. window' = [window EXCEPT ![r] = IF taken THEN Append(window[r], i) ELSE window[r]]
      BY <1>6 DEF Scan
    <3>2. CASE taken
      BY <3>1, <3>2
    <3>3. CASE ~taken
      <4> HIDE DEF taken
      <4>1. window' = [window EXCEPT ![r] = window[r]]
        BY <3>1, <3>3
      <4> QED
        BY <4>1 DEF Inv, Typed
    <3> QED
      BY <3>2, <3>3
  <2> HIDE DEF i
  <2>4. RowsOf(Append(window[r], i)) = RowsOf(window[r]) \cup {i}
    BY <2>1, RowsAppend
  <2>5. \A q \in Ranks : RowsOf(window'[q]) \subseteq Own(q)
    <3>1. CASE window' = window
      BY <3>1 DEF Tidy
    <3>2. CASE i % world = r /\ window' = [window EXCEPT ![r] = Append(@, i)]
      <4>1. RowsOf(Append(window[r], i)) \subseteq Own(r)
        BY <2>1, <2>4, <3>2 DEF Tidy, Own
      <4>2. \A q \in Ranks : window'[q] = IF q = r THEN Append(window[r], i) ELSE window[q]
        BY <3>2 DEF Inv, Typed
      <4> QED
        BY <4>1, <4>2 DEF Tidy
    <3> QED
      BY <2>3, <3>1, <3>2
  <2> QED
    BY <1>1, <2>2, <2>5 DEF Tidy
<1>7. ASSUME NEW r \in Ranks, Write(r) PROVE Tidy'
  <2> DEFINE i == Head(window[r])
  <2>1. window[r] \in Seq(Records) /\ window[r] # <<>> /\ pc[r] = "write"
    BY <1>7 DEF Write, Inv, Typed
  <2>2. i \in Records /\ i \in Own(r) /\ RowsOf(Tail(window[r])) \subseteq Own(r)
    BY <2>1, RowsTail DEF Tidy
  <2>3. /\ UNCHANGED file
        /\ window' = [window EXCEPT ![r] = Tail(@)]
        /\ part' = part \/ part' = [part EXCEPT ![r] = Appended(@, i)]
    BY <1>7, JobFacts DEF Write, Inv, Typed
  <2>4. part[r] # None
    BY <2>1, JobFacts DEF Inv, Typed, WorkKept, Holds, Busy, Roles
  <2> HIDE DEF i
  <2>5. part[r] \in Plain /\ RowsOf(part[r].lines) \subseteq Own(r)
    BY <2>4 DEF Tidy
  <2>6. Appended(part[r], i) \in Plain /\ RowsOf(Appended(part[r], i).lines) \subseteq Own(r)
    <3>1. /\ Appended(part[r], i) \in Plain /\ part[r].lines \in Seq(Records)
          /\ Appended(part[r], i).lines = Append(part[r].lines, i)
      BY <2>2, <2>5, PlainFacts
    <3>2. RowsOf(Append(part[r].lines, i)) = RowsOf(part[r].lines) \cup {i}
      BY <3>1, RowsAppend
    <3> QED
      BY <2>2, <2>5, <3>1, <3>2
  <2>7. \A q \in Ranks : /\ window'[q] = window[q] \/ (q = r /\ window'[q] = Tail(window[q]))
                         /\ part'[q] = part[q] \/ (q = r /\ part'[q] = Appended(part[q], i))
    BY <2>3, JobFacts DEF Inv, Typed
  <2> QED
    BY <1>1, <2>2, <2>3, <2>6, <2>7 DEF Tidy
<1>8. ASSUME NEW r \in Ranks, Publish(r) PROVE Tidy'
  <2>1. /\ UNCHANGED window
        /\ file' = [file EXCEPT ![r] = part[r]]
        /\ part' = [part EXCEPT ![r] = None]
    BY <1>8, JobFacts DEF Publish, Inv, Typed
  <2>2. \A q \in Ranks : /\ file'[q] = file[q] \/ file'[q] = part[q]
                         /\ part'[q] = part[q] \/ part'[q] = None
    BY <2>1, JobFacts DEF Inv, Typed
  <2> QED
    BY <1>1, <2>1, <2>2 DEF Tidy
<1>9. ASSUME NEW r \in Ranks, Merge(r) PROVE Tidy'
  <2>1. UNCHANGED <<part, window>> /\ \E f : file' = [file EXCEPT ![Whole] = f] \/ file' = file
    BY <1>9 DEF Merge
  <2>2. \A q \in Ranks : file'[q] = file[q]
    BY <2>1, JobFacts DEF Inv, Typed
  <2> QED
    BY <1>1, <2>1, <2>2 DEF Tidy
<1>10. ASSUME NEW r \in Ranks, Unlink(r) PROVE Tidy'
  <2>1. UNCHANGED <<part, window>> /\ \E s : file' = [file EXCEPT ![s] = None] \/ file' = file
    BY <1>10 DEF Unlink
  <2>2. \A q \in Ranks : file'[q] = file[q] \/ file'[q] = None
    BY <2>1, JobFacts DEF Inv, Typed
  <2> QED
    BY <1>1, <2>1, <2>2 DEF Tidy
<1>11. Backend = "hf"
  BY BackendAssumption DEF Inv, Typed
<1>12. \A r \in Ranks : WindowFails(r) \/ Die(r) => UNCHANGED <<file, part, window>>
  BY <1>11 DEF WindowFails, Die, Fault, disk
<1>13. \A r \in Ranks : LastWindow(r) \/ Generate(r) \/ WindowWritten(r) \/ AllReduce(r)
          \/ Barrier(r) \/ Summary(r) \/ Undecodable(r) => UNCHANGED <<file, part, window>>
  BY DEF Undecodable, LastWindow, Generate, WindowWritten, AllReduce, Barrier, Summary, disk
<1> QED
  BY <1>3, <1>4, <1>5, <1>6, <1>7, <1>8, <1>9, <1>10, <1>12, <1>13
     DEF Next, RankStep, SkipStage, vars

\* No step of several ranks drops a row: a shard replaced by a .part file was
\* the work of the same rank, which has redone it, and a shard is unlinked after
\* its rows were merged.
LEMMA RanksKeepRows ==
    ASSUME world # 1, "torn" \notin Faults, Inv, Counted, Tidy, [Next]_vars
    PROVE  OnDisk \subseteq OnDisk'
<1>1. \A f : Kept(f, f)
  BY DEF Kept
<1>2. ASSUME NEW r \in Ranks, Begin(r) PROVE OnDisk \subseteq OnDisk'
  <2>1. /\ UNCHANGED file /\ RankedPath(r) = r /\ world # 1
        /\ part' = [part EXCEPT ![r] = IF @ = None THEN NoLines ELSE @]
    BY <1>2, JobFacts DEF Begin, Inv, Typed
  <2>2. \A n \in Names : part[n] = None \/ part'[n] = part[n]
    BY <2>1, JobFacts DEF Inv, Typed
  <2>3. \A n \in Names : Kept(file[n], file'[n]) /\ Kept(part[n], part'[n])
    BY <2>1, <2>2 DEF Kept
  <2> QED
    BY <2>3, RowsStay
<1>3. ASSUME NEW r \in Ranks, Write(r) PROVE OnDisk \subseteq OnDisk'
  <2> DEFINE i == Head(window[r])
  <2>1. window[r] \in Seq(Records) /\ window[r] # <<>> /\ pc[r] = "write"
    BY <1>3 DEF Write, Inv, Typed
  <2>2. i \in Records /\ r \in Names
    BY <2>1, JobFacts DEF Inv, Typed
  <2>3. /\ UNCHANGED file
        /\ part' = part \/ part' = [part EXCEPT ![r] = Appended(@, i)]
    BY <1>3, JobFacts DEF Write, Inv, Typed
  <2> HIDE DEF i
  <2>4. Kept(part[r], Appended(part[r], i))
    <3> SUFFICES ASSUME part[r] # None
                 PROVE  /\ Appended(part[r], i) # None
                        /\ RowsOf(part[r].lines) \subseteq RowsOf(Appended(part[r], i).lines)
      BY DEF Kept
    <3>1. part[r] \in Plain
      BY DEF Tidy
    <3>2. /\ Appended(part[r], i) \in Plain /\ part[r].lines \in Seq(Records)
          /\ Appended(part[r], i).lines = Append(part[r].lines, i)
      BY <2>2, <3>1, PlainFacts
    <3>3. RowsOf(Append(part[r].lines, i)) = RowsOf(part[r].lines) \cup {i}
      BY <3>2, RowsAppend
    <3> QED
      BY <3>2, <3>3, PlainFacts
  <2>5. \A n \in Names : part'[n] = part[n] \/ (n = r /\ part'[n] = Appended(part[n], i))
    BY <2>3 DEF Inv, Typed
  <2>6. \A n \in Names : Kept(file[n], file'[n]) /\ Kept(part[n], part'[n])
    BY <1>1, <2>3, <2>4, <2>5
  <2> QED
    BY <2>6, RowsStay
<1>4. ASSUME NEW r \in Ranks, Publish(r) PROVE OnDisk \subseteq OnDisk'
  <2>1. /\ file' = [file EXCEPT ![r] = part[r]]
        /\ part' = [part EXCEPT ![r] = None]
        /\ pc[r] = "scan" /\ next[r] = N /\ window[r] = <<>>
        /\ r \in Names /\ r \in Job
    BY <1>4, JobFacts DEF Publish, Inv, Typed, Roles
  <2>2. Holds(part[r], r, N, {})
    <3>1. Holds(part[r], r, N, RowsOf(<<>>))
      BY <2>1 DEF Inv, WorkKept, Busy
    <3>2. RowsOf(<<>>) = {}
      BY DEF RowsOf
    <3> QED
      BY <3>1, <3>2
  <2>3. Kept(file[r], part[r])
    <3> SUFFICES ASSUME file[r] # None
                 PROVE  part[r] # None /\ RowsOf(file[r].lines) \subseteq RowsOf(part[r].lines)
      BY DEF Kept
    <3>1. part[r] \in Plain /\ Readable(part[r])
      BY <2>2, PlainFacts DEF Holds, Tidy
    <3>2. Owed(r, N) \subseteq RowsOf(part[r].lines) /\ part[r] # None
      BY <2>2, <3>1 DEF Holds
    <3>3. RowsOf(file[r].lines) \subseteq Own(r) /\ RowsOf(file[r].lines) \subseteq Good \cup Unreadable
      BY DEF Tidy, Inv, OnlyGood
    <3>4. Own(r) \cap (Good \cup Unreadable) \subseteq Owed(r, N)
      <4>1. Unreadable \cap Own(r) = {}
        BY PlainFacts DEF Own
      <4>2. \A i \in Records : i < N
        BY RecordsAssumption DEF Records
      <4> QED
        BY <4>1, <4>2 DEF Own, Owed
    <3> QED
      BY <3>2, <3>3, <3>4
  <2>4. \A n \in Names : /\ file'[n] = file[n] \/ (n = r /\ file'[n] = part[r])
                         /\ part'[n] = part[n] \/ (n = r /\ file'[n] = part[n])
    BY <2>1 DEF Inv, Typed
  <2>5. \A n \in Names : /\ Kept(file[n], file'[n])
                         /\ Kept(part[n], file'[n]) \/ Kept(part[n], part'[n])
    BY <1>1, <2>3, <2>4
  <2> QED
    BY <2>5, RowsStay
<1>5. ASSUME NEW r \in Ranks, Merge(r) PROVE OnDisk \subseteq OnDisk'
  <2>1. CASE ~Mergeable
    BY <1>5, <2>1, RowsStill DEF Merge
  <2>2. CASE Mergeable
    <3>1. r = 0 /\ pc[0] = "merge"
      BY <1>5 DEF Merge, Inv, Roles
    <3>2. file' = [file EXCEPT ![Whole] = Exact] /\ UNCHANGED part
      BY <1>5, <2>2, <3>1, MergeExact DEF Merge, Exact
    <3>3. \A n \in Names : file'[n] = file[n] \/ file[n] = None
      BY <3>2 DEF Inv, Typed
    <3>4. \A n \in Names : Kept(file[n], file'[n]) /\ Kept(part[n], part'[n])
      BY <3>2, <3>3 DEF Kept
    <3> QED
      BY <3>4, RowsStay
  <2> QED
    BY <2>1, <2>2
<1>6. ASSUME NEW r \in Ranks, Unlink(r) PROVE OnDisk \subseteq OnDisk'
  <2>1. CASE Shards = {}
    BY <1>6, <2>1, RowsStill DEF Unlink
  <2>2. CASE Shards # {}
    <3> DEFINE s == CHOOSE q \in Shards : \A p \in Shards : q <= p
    <3>1. file' = [file EXCEPT ![s] = None] /\ UNCHANGED part /\ r = 0 /\ pc[0] = "unlink"
      BY <1>6, <2>2 DEF Unlink, Inv, Roles
    <3>2. s \in Ranks
      BY <2>2, FirstShard
    <3> HIDE DEF s
    <3>3. file[Whole] = Exact /\ Whole \in Names /\ s \in Names /\ s # Whole
      BY <3>1, <3>2, JobFacts DEF Counted, Summed, Inv, Typed
    <3>4. file'[Whole] = Exact
      BY <3>1, <3>3 DEF Inv, Typed
    <3>5. RowsOf(Exact.lines) = Good /\ Exact # None
      <4>1. Exact.lines \in Seq(Good) /\ RowsOf(Exact.lines) = Good
        <5>1. Exact.lines = Ascending(Good)
          BY DEF Exact, InOrder
        <5>2. /\ Ascending(Good) \in Seq(Good)
              /\ {Ascending(Good)[k] : k \in DOMAIN Ascending(Good)} = Good
          BY GoodFacts, AscendingFacts
        <5> QED
          BY <5>1, <5>2 DEF RowsOf
      <4>2. Exact \in [lines : Seq(Records \cup Unreadable), open : BOOLEAN]
        <5>1. InOrder(Good) \in Seq(Records \cup Unreadable)
          BY <4>1 DEF Exact, Good
        <5> QED
          BY <5>1 DEF Exact
      <4> QED
        BY <4>1, <4>2, NamesAssumption
    <3>6. Kept(file[s], Exact)
      BY <3>2, <3>5, PlainFacts DEF Kept, Tidy, Inv, OnlyGood, Own
    <3>7. \A n \in Names : file'[n] = file[n] \/ n = s
      BY <3>1 DEF Inv, Typed
    <3>8. \A n \in Names : \E m \in Names : Kept(file[n], file'[m])
      BY <1>1, <3>3, <3>4, <3>6, <3>7
    <3> QED
      BY <1>1, <3>1, <3>8, RowsStay
  <2> QED
    BY <2>1, <2>2
<1>7. \A r \in Ranks : WindowFails(r) \/ Die(r) => UNCHANGED <<file, part>>
  BY DEF WindowFails, Die, Fault, disk
<1>8. \A r \in Ranks : Scan(r) \/ LastWindow(r) \/ Generate(r) \/ WindowWritten(r) \/ AllReduce(r)
          \/ Barrier(r) \/ Summary(r) \/ Undecodable(r) => UNCHANGED <<file, part>>
  BY DEF Undecodable, Scan, LastWindow, Generate, WindowWritten, AllReduce, Barrier, Summary, disk
<1>9. \A w \in Worlds : Launch(w) => UNCHANGED <<file, part>>
  BY DEF Launch, disk
<1>10. CASE UNCHANGED vars
  BY <1>10, RowsStill DEF vars
<1>11. CASE Next
  BY <1>2, <1>3, <1>4, <1>5, <1>6, <1>7, <1>8, <1>9, <1>10, <1>11, RowsStill
     DEF Next, RankStep, SkipStage
<1> QED
  BY <1>10, <1>11

-----------------------------------------------------------------------------
\* A single process.

\* No file ever has an unreadable or an unfinished line.
AllPlain == file \in [Names -> Plain \cup {None}] /\ part \in [Names -> Plain \cup {None}]

\* A single process whose lines are never cut short: while it works, there is
\* no teacher file with rows, and what it has counted is the length of the file
\* that it writes or has written.  It never merges.
SoloLabels == {"start"} \cup Busy \cup {"reduce", "barrier", "print"} \cup Ended
Solo ==
    /\ world = 1 /\ 1 \in Worlds
    /\ AllPlain
    /\ pc \in [Ranks -> SoloLabels]
    /\ \A r \in Ranks \ {0} : pc[r] = "exit"
    /\ next \in [Ranks -> 0 .. N]
    /\ window \in [Ranks -> Seq(Records)]
    /\ written \in [Ranks -> Nat]
    /\ pc[0] \in Busy =>
          /\ file[Whole] # None => file[Whole].lines = <<>>
          /\ part[Whole] # None
          /\ written[0] = Len(part[Whole].lines)
    /\ pc[0] \in {"reduce", "barrier", "print"} =>
          file[Whole] # None /\ written[0] = Len(file[Whole].lines)

\* The only rank of a single process is 0, and its file the teacher file.
LEMMA SoloFacts ==
    ASSUME Solo
    PROVE  /\ 0 \in Ranks /\ Ranks \subseteq Nat /\ Whole \notin Ranks
           /\ Whole \in Names /\ Ranks \subseteq Names /\ Names = Ranks \cup {Whole}
           /\ Job = {0} /\ RankedPath(0) = Whole
<1>1. world \in Worlds /\ world = 1
  BY DEF Solo, AllPlain
<1> QED
  BY <1>1, JobFacts DEF Names

\* It begins with the files there are.
LEMMA SoloLaunch ==
    ASSUME AllPlain, 1 \in Worlds, Launch(1)
    PROVE  Solo'
<1>1. 0 \in Ranks /\ Ranks \subseteq Nat
  <2>1. 0 \in 0 .. 1 - 1
    OBVIOUS
  <2> QED
    BY <2>1, WorldsAssumption DEF Ranks
<1>2. /\ pc' = [r \in Ranks |-> IF r < 1 THEN "start" ELSE "exit"]
      /\ world' = 1 /\ UNCHANGED <<file, part>>
      /\ next' = [r \in Ranks |-> 0] /\ window' = [r \in Ranks |-> <<>>]
      /\ written' = [r \in Ranks |-> 0]
  BY DEF Launch, disk
<1>3. pc'[0] = "start" /\ \A r \in Ranks \ {0} : pc'[r] = "exit"
  <2>1. \A r \in Ranks \ {0} : ~(r < 1)
    BY <1>1
  <2> QED
    BY <1>1, <1>2, <2>1
<1>4. pc' \in [Ranks -> SoloLabels]
  BY <1>2 DEF SoloLabels, Ended
<1>5. <<>> \in Seq(Records) /\ 0 \in 0 .. N
  BY RecordsAssumption
<1> QED
  BY <1>2, <1>3, <1>4, <1>5 DEF Solo, AllPlain, Busy

\* No process has run yet.
LEMMA SoloInit ==
    ASSUME Init, world = 1
    PROVE  Solo
<1>1. <<>> \in Seq(Records) /\ 0 \in 0 .. N
  BY RecordsAssumption
<1>2. pc[0] = "exit"
  BY JobFacts DEF Init
<1> QED
  BY <1>1, <1>2 DEF Init, Solo, AllPlain, SoloLabels, AllPlain, Busy, Ended

\* Steps that write nothing.
LEMMA SoloMove ==
    ASSUME Solo, NEW label, Goto(0, label),
           UNCHANGED <<world, file, part, written>>,
           next' \in [Ranks -> 0 .. N], window' \in [Ranks -> Seq(Records)],
           \/ pc[0] \in Busy /\ label \in Busy
           \/ pc[0] \in {"reduce", "barrier", "print"}
                 /\ label \in {"reduce", "barrier", "print", "exit"}
           \/ label = "dead"
    PROVE  Solo'
<1>1. pc' = [pc EXCEPT ![0] = label]
  BY DEF Goto
<1>2. /\ label \in SoloLabels
      /\ label \in Busy => pc[0] \in Busy
      /\ label \in {"reduce", "barrier", "print"} => pc[0] \in {"reduce", "barrier", "print"}
  BY DEF SoloLabels, Busy, Ended
<1>3. pc' \in [Ranks -> SoloLabels]
      /\ pc'[0] = label /\ \A r \in Ranks \ {0} : pc'[r] = "exit"
  BY <1>1, <1>2, SoloFacts DEF Solo, AllPlain
<1> QED
  BY <1>2, <1>3 DEF Solo, AllPlain

\* A teacher file with rows is left alone; else the .part file is gone on from.
LEMMA SoloBegin ==
    ASSUME Solo, Begin(0)
    PROVE  Solo'
<1> DEFINE found == Loaded(file[Whole])
           rows == Loaded(IF found # <<>> THEN file[Whole] ELSE part[Whole])
<1>1. /\ 0 \in Ranks /\ Whole \in Names /\ world = 1 /\ RankedPath(0) = Whole
  BY SoloFacts DEF Solo, AllPlain
<1>2. /\ written' = [written EXCEPT ![0] = Len(rows)]
      /\ UNCHANGED <<world, file, next, window>>
      /\ IF found # <<>>
         THEN pc' = [pc EXCEPT ![0] = "reduce"] /\ UNCHANGED part
         ELSE /\ part' = [part EXCEPT ![Whole] = IF @ = None THEN NoLines ELSE @]
              /\ pc' = [pc EXCEPT ![0] = "scan"]
  BY <1>1 DEF Begin, Goto
<1>3. \A f \in Plain : Loaded(f) = f.lines /\ Len(f.lines) \in Nat
  <2> SUFFICES ASSUME NEW f \in Plain PROVE Loaded(f) = f.lines /\ Len(f.lines) \in Nat
    OBVIOUS
  <2>1. f \in File /\ Readable(f) /\ f.lines \in Seq(Records)
    BY PlainFacts
  <2> QED
    BY <2>1, LoadedWhole
<1>4. Loaded(None) = <<>>
  BY DEF Loaded
<1>5. CASE found # <<>>
  <2>1. file[Whole] # None /\ file[Whole] \in Plain
    BY <1>1, <1>4, <1>5 DEF Solo, AllPlain
  <2>2. Len(rows) = Len(file[Whole].lines) /\ Len(rows) \in Nat
    BY <1>3, <1>5, <2>1
  <2> HIDE DEF rows, found
  <2>3. /\ written' \in [Ranks -> Nat] /\ written'[0] = Len(file[Whole].lines)
        /\ pc' \in [Ranks -> SoloLabels] /\ \A r \in Ranks \ {0} : pc'[r] = "exit"
        /\ pc'[0] = "reduce"
    BY <1>1, <1>2, <1>5, <2>2 DEF Solo, SoloLabels, AllPlain
  <2> QED
    BY <1>2, <1>5, <2>1, <2>3 DEF Solo, AllPlain, Busy
<1>6. CASE found = <<>>
  <2>1. file[Whole] # None => file[Whole].lines = <<>>
    BY <1>1, <1>3, <1>6 DEF Solo, AllPlain
  <2>2. part'[Whole] = IF part[Whole] = None THEN NoLines ELSE part[Whole]
    BY <1>1, <1>2, <1>6 DEF Solo, AllPlain
  <2>3. part'[Whole] # None /\ Len(rows) = Len(part'[Whole].lines) /\ Len(rows) \in Nat
    <3>1. CASE part[Whole] = None
      <4>1. part'[Whole].lines = <<>> /\ part'[Whole] # None
        BY <2>2, <3>1, PlainFacts
      <4>2. rows = <<>>
        BY <1>4, <1>6, <3>1
      <4> QED
        BY <4>1, <4>2
    <3>2. CASE part[Whole] # None
      <4>1. part[Whole] \in Plain /\ part'[Whole] = part[Whole]
        BY <1>1, <2>2, <3>2 DEF Solo, AllPlain
      <4>2. rows = part[Whole].lines
        BY <1>3, <1>6, <4>1
      <4> QED
        BY <1>3, <3>2, <4>1, <4>2
    <3> QED
      BY <3>1, <3>2
  <2>4. part' \in [Names -> Plain \cup {None}]
    BY <1>1, <1>2, <1>6, PlainFacts DEF Solo, AllPlain
  <2> HIDE DEF rows, found
  <2>5. /\ written' \in [Ranks -> Nat] /\ written'[0] = Len(rows)
        /\ pc' \in [Ranks -> SoloLabels] /\ \A r \in Ranks \ {0} : pc'[r] = "exit"
        /\ pc'[0] = "scan"
    BY <1>1, <1>2, <1>6, <2>3 DEF Solo, SoloLabels, AllPlain, Busy
  <2> QED
    BY <1>2, <2>1, <2>3, <2>4, <2>5 DEF Solo, AllPlain
<1> QED
  BY <1>5, <1>6

\* Reading a record writes nothing.
LEMMA SoloScan ==
    ASSUME Solo, Scan(0)
    PROVE  Solo'
<1> DEFINE i == next[0]
           taken == i % world = 0 /\ i \notin done[0] /\ Verdict[i] # "unrendered"
           gathered == IF taken THEN Append(window[0], i) ELSE window[0]
<1>1. /\ 0 \in Ranks /\ i \in Records /\ i + 1 \in 0 .. N /\ window[0] \in Seq(Records)
      /\ pc[0] = "scan"
  BY SoloFacts, RecordsAssumption DEF Scan, Solo, AllPlain, Records
<1>2. PICK label \in {"scan", "generate"} :
      /\ Goto(0, label)
      /\ next' = [next EXCEPT ![0] = i + 1]
      /\ window' = [window EXCEPT ![0] = gathered]
      /\ UNCHANGED <<world, file, part, written>>
  BY DEF Scan, disk
<1>3. gathered \in Seq(Records)
  BY <1>1
<1> HIDE DEF gathered, i
<1>4. next' \in [Ranks -> 0 .. N] /\ window' \in [Ranks -> Seq(Records)]
  BY <1>1, <1>2, <1>3 DEF Solo, AllPlain
<1>5. pc[0] \in Busy /\ label \in Busy
  BY <1>1 DEF Busy
<1> QED
  BY <1>2, <1>4, <1>5, SoloMove

\* A window that fails writes nothing.
LEMMA SoloFails ==
    ASSUME Solo, WindowFails(0)
    PROVE  Solo'
<1>1. /\ pc[0] \in {"generate", "generate_last"} /\ 0 \in Ranks /\ window[0] \in Seq(Records)
      /\ UNCHANGED <<world, file, part, written, next>>
  BY SoloFacts DEF WindowFails, disk, Solo, AllPlain
<1>2. PICK label \in Busy \cup {"dead"} : Goto(0, label)
  BY <1>1 DEF WindowFails, Busy
<1>3. window' \in [Ranks -> Seq(Records)]
  <2>1. CASE Backend = "hf"
    BY <2>1 DEF WindowFails, Solo, AllPlain
  <2>2. CASE Backend # "hf"
    <3>1. PICK lost : window' = [window EXCEPT ![0] = Selection(@, {k \in DOMAIN @ : @[k] \notin lost})]
      BY <2>2 DEF WindowFails
    <3> DEFINE K == {k \in DOMAIN window[0] : window[0][k] \notin lost}
    <3>2. window' = [window EXCEPT ![0] = Selection(window[0], K)]
      BY <3>1
    <3>3. K \subseteq DOMAIN window[0]
      OBVIOUS
    <3> HIDE DEF K
    <3>4. Selection(window[0], K) \in Seq(Records)
      BY <1>1, <3>3, SelectionFacts
    <3> QED
      BY <3>2, <3>4 DEF Solo, AllPlain
  <2> QED
    BY <2>1, <2>2
<1>4. next' \in [Ranks -> 0 .. N] /\ pc[0] \in Busy
  BY <1>1 DEF Solo, AllPlain, Busy
<1> QED
  BY <1>1, <1>2, <1>3, <1>4, SoloMove

\* A row that is written is a line more and counted.
LEMMA SoloWrite ==
    ASSUME Solo, Write(0)
    PROVE  Solo'
<1> DEFINE i == Head(window[0])
<1>1. /\ 0 \in Ranks /\ Whole \in Names /\ RankedPath(0) = Whole
      /\ window[0] \in Seq(Records) /\ window[0] # <<>> /\ pc[0] = "write"
  BY SoloFacts DEF Write, Solo, AllPlain
<1>2. i \in Records /\ Tail(window[0]) \in Seq(Records)
  BY <1>1
<1>3. /\ part[Whole] \in Plain /\ written[0] = Len(part[Whole].lines) /\ written[0] \in Nat
      /\ file[Whole] # None => file[Whole].lines = <<>>
  BY <1>1 DEF Solo, AllPlain, Busy
<1>4. /\ window' = [window EXCEPT ![0] = Tail(@)]
      /\ UNCHANGED <<world, file, pc, next>>
      /\ \/ UNCHANGED <<part, written>>
         \/ /\ part' = [part EXCEPT ![Whole] = Appended(@, i)]
            /\ written' = [written EXCEPT ![0] = @ + 1]
  BY <1>1 DEF Write
<1> HIDE DEF i
<1>5. window' \in [Ranks -> Seq(Records)]
  BY <1>1, <1>2, <1>4 DEF Solo, AllPlain
<1>6. CASE UNCHANGED <<part, written>>
  BY <1>4, <1>5, <1>6 DEF Solo, AllPlain
<1>7. CASE /\ part' = [part EXCEPT ![Whole] = Appended(@, i)]
           /\ written' = [written EXCEPT ![0] = @ + 1]
  <2>1. part'[Whole] = Appended(part[Whole], i) /\ written'[0] = written[0] + 1
    BY <1>1, <1>7 DEF Solo, AllPlain
  <2>2. /\ Appended(part[Whole], i) \in Plain /\ part[Whole].lines \in Seq(Records)
        /\ Appended(part[Whole], i).lines = Append(part[Whole].lines, i)
    BY <1>2, <1>3, PlainFacts
  <2>3. Len(part'[Whole].lines) = written'[0] /\ part'[Whole] # None
    BY <1>3, <2>1, <2>2, PlainFacts
  <2>4. part' \in [Names -> Plain \cup {None}]
    BY <1>1, <1>7, <2>1, <2>2 DEF Solo, AllPlain
  <2>5. written' \in [Ranks -> Nat]
    BY <1>1, <1>3, <1>7 DEF Solo, AllPlain
  <2> QED
    BY <1>1, <1>3, <1>4, <1>5, <2>3, <2>4, <2>5 DEF Solo, AllPlain
<1> QED
  BY <1>4, <1>6, <1>7

\* The .part file becomes the teacher file unless it has no row.
LEMMA SoloPublish ==
    ASSUME Solo, Publish(0)
    PROVE  Solo'
<1>1. 0 \in Ranks /\ Whole \in Names /\ RankedPath(0) = Whole /\ pc[0] = "scan"
  BY SoloFacts DEF Publish, Solo, AllPlain
<1>2. CASE UNCHANGED <<file, part>> /\ Goto(0, "dead")
  BY <1>2, SoloMove DEF Publish, Solo, AllPlain
<1>3. CASE /\ file' = [file EXCEPT ![Whole] = part[Whole]]
           /\ part' = [part EXCEPT ![Whole] = None]
           /\ Goto(0, "reduce")
  <2>1. UNCHANGED <<world, next, window, written>>
    BY DEF Publish
  <2>2. /\ part[Whole] \in Plain /\ written[0] = Len(part[Whole].lines) /\ part[Whole] # None
    BY <1>1 DEF Solo, AllPlain, Busy
  <2>3. /\ file' \in [Names -> Plain \cup {None}] /\ file'[Whole] = part[Whole]
        /\ part' \in [Names -> Plain \cup {None}]
    BY <1>1, <1>3, <2>2 DEF Solo, AllPlain
  <2>4. /\ pc' \in [Ranks -> SoloLabels] /\ \A r \in Ranks \ {0} : pc'[r] = "exit"
        /\ pc'[0] = "reduce"
    BY <1>1, <1>3 DEF Solo, SoloLabels, AllPlain, Goto
  <2> QED
    BY <2>1, <2>2, <2>3, <2>4 DEF Solo, AllPlain, Busy
<1> QED
  BY <1>1, <1>2, <1>3 DEF Publish, disk

\* No other process runs.
LEMMA SoloNext ==
    ASSUME Solo, Next
    PROVE  \/ \E w \in Worlds : Launch(w)
           \/ RankStep(0) /\ ~Merge(0) /\ ~Unlink(0)
           \/ WindowFails(0)
           \/ Die(0)
           \/ UNCHANGED vars
<1>1. \A r \in Ranks : pc[r] \notin {"merge", "unlink"} /\ (r # 0 => pc[r] = "exit")
  BY DEF Solo, SoloLabels, Busy, Ended
<1>2. \A r \in Ranks : RankStep(r) => r = 0
  BY <1>1 DEF RankStep, Begin, Undecodable, Scan, LastWindow, Generate, Write, WindowWritten, Publish,
              AllReduce, Barrier, Merge, Unlink, Summary
<1>3. \A r \in Ranks : WindowFails(r) \/ Die(r) => r = 0
  BY <1>1 DEF WindowFails, Die, Ended
<1>4. ~Merge(0) /\ ~Unlink(0)
  BY <1>1, SoloFacts DEF Merge, Unlink
<1> QED
  BY <1>2, <1>3, <1>4 DEF Next, SkipStage

\* Every step of a single process keeps its invariant.
LEMMA SoloStep ==
    ASSUME "torn" \notin Faults, Solo, [Next]_vars, world' = 1
    PROVE  Solo'
<1>1. /\ 0 \in Ranks /\ world = 1
      /\ next \in [Ranks -> 0 .. N] /\ window \in [Ranks -> Seq(Records)]
  BY SoloFacts DEF Solo
<1>2. ASSUME NEW w \in Worlds, Launch(w) PROVE Solo'
  <2>1. w = 1
    BY <1>2 DEF Launch
  <2> QED
    BY <1>2, <2>1, SoloLaunch DEF Solo
<1>3. CASE RankStep(0) /\ ~Merge(0) /\ ~Unlink(0)
  <2>1. CASE LastWindow(0) \/ Generate(0) \/ WindowWritten(0)
    BY <1>1, <2>1, SoloMove DEF LastWindow, Generate, WindowWritten, disk, Busy
  <2>2. CASE AllReduce(0)
    BY <1>1, <2>2, SoloMove DEF AllReduce, disk
  <2>3. CASE Barrier(0)
    <3>1. Goto(0, "print") /\ pc[0] = "barrier"
      BY <1>1, <2>3 DEF Barrier
    <3> QED
      BY <1>1, <2>3, <3>1, SoloMove DEF Barrier, disk
  <2>4. CASE Summary(0)
    BY <1>1, <2>4, SoloMove DEF Summary, disk
  <2>5. CASE Undecodable(0)
    BY <1>1, <2>5, SoloMove DEF Undecodable, disk
  <2> QED
    BY <1>3, <2>1, <2>2, <2>3, <2>4, <2>5, SoloBegin, SoloScan, SoloWrite, SoloPublish DEF RankStep
<1>4. CASE WindowFails(0)
  BY <1>4, SoloFails
<1>5. CASE Die(0)
  BY <1>1, <1>5, SoloMove DEF Die, Fault
<1>6. CASE UNCHANGED vars
  BY <1>6 DEF vars, Solo, AllPlain
<1> QED
  BY <1>2, <1>3, <1>4, <1>5, <1>6, SoloNext

\* No step of a single process drops a row.
LEMMA SoloKeepsRows ==
    ASSUME "torn" \notin Faults, Solo, [Next]_vars
    PROVE  OnDisk \subseteq OnDisk'
<1>1. /\ 0 \in Ranks /\ Whole \in Names /\ RankedPath(0) = Whole /\ world = 1
      /\ \A f : Kept(f, f)
  BY SoloFacts DEF Solo, AllPlain, Kept
<1>2. CASE Begin(0)
  <2>1. \A n \in Names : UNCHANGED file /\ (part[n] = None \/ part'[n] = part[n])
    <3>1. /\ UNCHANGED file
          /\ \/ UNCHANGED part
             \/ part' = [part EXCEPT ![Whole] = IF @ = None THEN NoLines ELSE @]
      BY <1>1, <1>2 DEF Begin
    <3> QED
      BY <3>1 DEF Solo, AllPlain
  <2>2. \A n \in Names : Kept(file[n], file'[n]) /\ Kept(part[n], part'[n])
    BY <2>1 DEF Kept
  <2> QED
    BY <2>2, RowsStay
<1>3. CASE Write(0)
  <2> DEFINE i == Head(window[0])
  <2>1. window[0] \in Seq(Records) /\ window[0] # <<>> /\ pc[0] = "write"
    BY <1>1, <1>3 DEF Write, Solo, AllPlain
  <2>2. i \in Records
    BY <2>1
  <2>3. /\ UNCHANGED file
        /\ part' = part \/ part' = [part EXCEPT ![Whole] = Appended(@, i)]
    BY <1>1, <1>3 DEF Write
  <2> HIDE DEF i
  <2>4. Kept(part[Whole], Appended(part[Whole], i))
    <3>1. part[Whole] \in Plain
      BY <1>1, <2>1 DEF Solo, AllPlain, Busy
    <3>2. /\ Appended(part[Whole], i) \in Plain /\ part[Whole].lines \in Seq(Records)
          /\ Appended(part[Whole], i).lines = Append(part[Whole].lines, i)
      BY <2>2, <3>1, PlainFacts
    <3>3. RowsOf(Append(part[Whole].lines, i)) = RowsOf(part[Whole].lines) \cup {i}
      BY <3>2, RowsAppend
    <3> QED
      BY <3>2, <3>3, PlainFacts DEF Kept
  <2>5. \A n \in Names : part'[n] = part[n] \/ (n = Whole /\ part'[n] = Appended(part[n], i))
    BY <2>3 DEF Solo, AllPlain
  <2>6. \A n \in Names : Kept(file[n], file'[n]) /\ Kept(part[n], part'[n])
    BY <1>1, <2>3, <2>4, <2>5
  <2> QED
    BY <2>6, RowsStay
<1>4. CASE Publish(0)
  <2>1. CASE UNCHANGED <<file, part>>
    BY <2>1, RowsStill
  <2>2. CASE file' = [file EXCEPT ![Whole] = part[Whole]] /\ part' = [part EXCEPT ![Whole] = None]
    <3>1. pc[0] \in Busy
      BY <1>4 DEF Publish, Busy
    <3>2. RowsOf(<<>>) = {}
      BY DEF RowsOf
    <3>3. Kept(file[Whole], part[Whole])
      BY <3>1, <3>2 DEF Solo, AllPlain, Kept
    <3>4. \A n \in Names : /\ file'[n] = file[n] \/ (n = Whole /\ file'[n] = part[Whole])
                           /\ part'[n] = part[n] \/ (n = Whole /\ file'[n] = part[n])
      BY <2>2 DEF Solo, AllPlain
    <3>5. \A n \in Names : /\ Kept(file[n], file'[n])
                           /\ Kept(part[n], file'[n]) \/ Kept(part[n], part'[n])
      BY <1>1, <3>3, <3>4
    <3> QED
      BY <3>5, RowsStay
  <2> QED
    BY <1>1, <1>4, <2>1, <2>2 DEF Publish, disk
<1>5. WindowFails(0) \/ Die(0) => UNCHANGED <<file, part>>
  BY DEF WindowFails, Die, Fault, disk
<1>6. Scan(0) \/ LastWindow(0) \/ Generate(0) \/ WindowWritten(0) \/ AllReduce(0)
         \/ Barrier(0) \/ Summary(0) \/ Undecodable(0) => UNCHANGED <<file, part>>
  BY DEF Undecodable, Scan, LastWindow, Generate, WindowWritten, AllReduce, Barrier, Summary, disk
<1>7. \A w \in Worlds : Launch(w) => UNCHANGED <<file, part>>
  BY DEF Launch, disk
<1>8. CASE UNCHANGED vars
  BY <1>8, RowsStill DEF vars
<1>9. CASE Next
  BY <1>2, <1>3, <1>4, <1>5, <1>6, <1>7, <1>8, <1>9, SoloNext, RowsStill DEF RankStep
<1> QED
  BY <1>8, <1>9

\* The world size only changes at a launch.
LEMMA OneWorld ==
    ASSUME [Next]_vars, world' # world
    PROVE  \E w \in Worlds : Launch(w) /\ world' = w
BY DEF Next, vars, SkipStage, RankStep, Begin, Undecodable, Scan, LastWindow, Generate,
       WindowFails, Write, WindowWritten, Publish, AllReduce, Barrier, Merge, Unlink, Summary, Die, Launch

\* No step drops a row from the disk: not the rename that replaces a shard or
\* the teacher file, nor the merge and the unlinking after it
\* (generate_targets.py, merge_ranked_jsonl), in jobs of any one world size whose
\* lines are never cut short.
THEOREM NoRowDropped ==
    ASSUME NEW w, Worlds = {w}, "torn" \notin Faults
    PROVE  Spec => RowsKept
<1>1. CASE w = 1
  <2>1. Init => Solo
    BY <1>1, SoloInit DEF Init
  <2>2. Solo /\ [Next]_vars => Solo'
    <3>1. ASSUME Solo, [Next]_vars PROVE world' = 1
      BY <1>1, <3>1, SoloNext, OneWorld DEF Solo
    <3> QED
      BY <1>1, <3>1, SoloStep
  <2>3. Solo /\ [Next]_vars => [OnDisk \subseteq OnDisk']_disk
    BY <1>1, SoloKeepsRows
  <2> QED
    BY <2>1, <2>2, <2>3, PTL DEF Spec, RowsKept
<1>2. CASE w # 1
  <2>1. Init => Inv /\ Counted /\ Tidy
    <3> SUFFICES ASSUME Init PROVE Inv /\ Counted /\ Tidy
      OBVIOUS
    <3>1. \A r \in Ranks : part[r] = None /\ file[r] = None /\ RowsOf(window[r]) = {}
      BY JobFacts DEF Init, RowsOf
    <3> QED
      BY <3>1, InitInv, InitCounted DEF Tidy
  <2>2. Inv => world # 1
    BY <1>2 DEF Inv, Typed
  <2>3. Inv /\ Counted /\ Tidy /\ [Next]_vars => (Inv /\ Counted /\ Tidy)'
    BY <2>2, StepKeeps, CountedStep, TidyStep
  <2>4. Inv /\ Counted /\ Tidy /\ [Next]_vars => [OnDisk \subseteq OnDisk']_disk
    BY <2>2, RanksKeepRows
  <2> QED
    BY <2>1, <2>3, <2>4, PTL DEF Spec, RowsKept
<1> QED
  BY <1>1, <1>2

-----------------------------------------------------------------------------
\* The order of the rows of a single process.

\* A sequence of numbers that increase is its numbers in increasing order.
Increasing(s) == \A k, l \in DOMAIN s : k < l => s[k] < s[l]

\* Its k-th number is the one of rank k.
LEMMA IncreasingIsAscending ==
    ASSUME NEW A, A \subseteq Nat, NEW s \in Seq(A), Increasing(s)
    PROVE  s = Ascending(RowsOf(s))
<1> DEFINE S == RowsOf(s)
           n == Len(s)
<1>1. n \in Nat /\ DOMAIN s = 1 .. n /\ s = [k \in 1 .. n |-> s[k]] /\ \A k \in 1 .. n : s[k] \in Nat
  OBVIOUS
<1> HIDE DEF n
<1>2. \A k, l \in 1 .. n : s[k] <= s[l] <=> k <= l
  <2> SUFFICES ASSUME NEW k \in 1 .. n, NEW l \in 1 .. n PROVE s[k] <= s[l] <=> k <= l
    OBVIOUS
  <2>1. k \in Nat /\ l \in Nat /\ s[k] \in Nat /\ s[l] \in Nat
    BY <1>1
  <2>2. (k < l => s[k] < s[l]) /\ (l < k => s[l] < s[k])
    BY <1>1 DEF Increasing
  <2> DEFINE a == s[k]
             b == s[l]
  <2>3. a \in Nat /\ b \in Nat /\ (k < l => a < b) /\ (l < k => b < a) /\ (k = l => a = b)
    BY <2>1, <2>2
  <2> HIDE DEF a, b
  <2>4. a <= b <=> k <= l
    BY <2>1, <2>3
  <2> QED
    BY <2>4 DEF a, b
<1>3. ASSUME NEW m \in 0 .. n
      PROVE  /\ IsFiniteSet({s[k] : k \in 1 .. m})
             /\ Cardinality({s[k] : k \in 1 .. m}) = m
  <2> DEFINE T == {s[k] : k \in 1 .. m}
             g == [k \in 1 .. m |-> s[k]]
  <2>1. m \in Nat /\ \A k \in 1 .. m : k \in 1 .. n /\ k \in Nat
    BY <1>1
  <2>2. IsFiniteSet(1 .. m) /\ Cardinality(1 .. m) = m
    BY <2>1, FS_Interval
  <2>3. g \in [1 .. m -> T] /\ \A t \in T : \E k \in 1 .. m : g[k] = t
    OBVIOUS
  <2>4. ASSUME NEW k \in 1 .. m, NEW l \in 1 .. m, g[k] = g[l] PROVE k = l
    <3>1. s[k] = s[l] /\ s[k] \in Nat /\ s[l] \in Nat
      BY <1>1, <2>1, <2>4
    <3>2. k <= l /\ l <= k
      BY <1>2, <2>1, <3>1
    <3> QED
      BY <2>1, <3>2
  <2> HIDE DEF g, T
  <2>5. g \in Bijection(1 .. m, T)
    BY <2>3, <2>4 DEF Bijection, Injection, Surjection, IsInjective
  <2>6. IsFiniteSet(T) /\ Cardinality(T) = m
    BY <2>2, <2>5, FS_Bijection DEF ExistsBijection
  <2> QED
    BY <2>6 DEF T
<1>4. S = {s[k] : k \in 1 .. n} /\ S \subseteq Nat
  BY <1>1 DEF RowsOf
<1>5. IsFiniteSet(S) /\ Cardinality(S) = n
  BY <1>1, <1>3, <1>4, SMTT(30)
<1>6. ASSUME NEW k \in 1 .. n PROVE Rank(S, s[k]) = k
  <2>1. k \in 0 .. n /\ k \in Nat
    BY <1>1
  <2>2. {j \in S : j <= s[k]} = {s[l] : l \in 1 .. k}
    <3>1. \A l \in 1 .. n : s[l] <= s[k] <=> l \in 1 .. k
      BY <1>1, <1>2
    <3>2. \A l \in 1 .. k : l \in 1 .. n
      BY <1>1
    <3> QED
      BY <1>4, <3>1, <3>2
  <2> QED
    BY <1>3, <2>1, <2>2 DEF Rank
<1>7. \A k \in 1 .. n : Nth(S, k) = s[k]
  <2>1. \A k \in 1 .. n : s[k] \in S
    BY <1>4
  <2> HIDE DEF S
  <2>2. \A i \in S : Nth(S, Rank(S, i)) = i
    BY <1>4, <1>5, NthFacts
  <2> QED
    BY <1>6, <2>1, <2>2
<1>8. Ascending(S) = [k \in 1 .. n |-> Nth(S, k)]
  BY <1>5 DEF Ascending
<1> QED
  BY <1>1, <1>7, <1>8

\* A larger number may follow.
LEMMA IncreasingAppend ==
    ASSUME NEW s \in Seq(Records), NEW i \in Records, Increasing(s),
           \A k \in RowsOf(s) : k < i
    PROVE  Increasing(Append(s, i))
<1> DEFINE l == Append(s, i)
<1>1. /\ DOMAIN l = 1 .. Len(s) + 1 /\ DOMAIN s = 1 .. Len(s) /\ Len(s) \in Nat
      /\ l[Len(s) + 1] = i
      /\ \A k \in 1 .. Len(s) : l[k] = s[k]
  OBVIOUS
<1>2. \A k \in 1 .. Len(s) : s[k] < i
  BY <1>1 DEF RowsOf
<1> HIDE DEF l
<1>3. Increasing(l)
  <2> SUFFICES ASSUME NEW j \in DOMAIN l, NEW k \in DOMAIN l, j < k PROVE l[j] < l[k]
    BY DEF Increasing
  <2>1. j \in 1 .. Len(s)
    BY <1>1
  <2>2. CASE k = Len(s) + 1
    BY <1>1, <1>2, <2>1, <2>2
  <2>3. CASE k # Len(s) + 1
    <3>1. k \in 1 .. Len(s)
      BY <1>1, <2>3
    <3> QED
      BY <1>1, <2>1, <3>1 DEF Increasing
  <2> QED
    BY <2>2, <2>3
<1> QED
  BY <1>3 DEF l

\* Without its first, the numbers still increase.
LEMMA IncreasingTail ==
    ASSUME NEW s \in Seq(Records), s # <<>>
    PROVE  /\ RowsOf(s) = {Head(s)} \cup RowsOf(Tail(s))
           /\ Increasing(s) => /\ Increasing(Tail(s))
                               /\ \A k \in RowsOf(Tail(s)) : Head(s) < k
<1> DEFINE t == Tail(s)
           n == Len(s)
<1>1. /\ DOMAIN s = 1 .. n /\ n \in Nat /\ n > 0
      /\ DOMAIN t = 1 .. n - 1
      /\ \A k \in 1 .. n - 1 : t[k] = s[k + 1]
      /\ Head(s) = s[1]
  OBVIOUS
<1> HIDE DEF t, n
<1>2. \A k \in DOMAIN t : k + 1 \in DOMAIN s /\ t[k] = s[k + 1] /\ 1 < k + 1
  BY <1>1
<1>3. \A k \in DOMAIN s : k # 1 => k - 1 \in DOMAIN t /\ t[k - 1] = s[k]
  BY <1>1
<1>4. 1 \in DOMAIN s
  BY <1>1
<1>5. RowsOf(s) = {Head(s)} \cup RowsOf(t)
  <2>1. RowsOf(s) \subseteq {Head(s)} \cup RowsOf(t)
    BY <1>1, <1>3 DEF RowsOf
  <2>2. {Head(s)} \cup RowsOf(t) \subseteq RowsOf(s)
    BY <1>1, <1>2, <1>4 DEF RowsOf
  <2> QED
    BY <2>1, <2>2
<1>6. ASSUME Increasing(s) PROVE Increasing(t) /\ \A k \in RowsOf(t) : Head(s) < k
  <2>1. Increasing(t)
    <3> SUFFICES ASSUME NEW j \in DOMAIN t, NEW k \in DOMAIN t, j < k PROVE t[j] < t[k]
      BY DEF Increasing
    <3>1. j + 1 < k + 1
      BY <1>1
    <3> QED
      BY <1>2, <1>6, <3>1 DEF Increasing
  <2>2. \A k \in DOMAIN t : s[1] < t[k]
    BY <1>2, <1>4, <1>6 DEF Increasing
  <2> QED
    BY <1>1, <2>1, <2>2 DEF RowsOf
<1> QED
  BY <1>5, <1>6 DEF t

-----------------------------------------------------------------------------
\* The rows that a single process with a local model has written are the first
\* of those there are, in source order; what it has gathered comes after them.
Leading(S) == S \subseteq Good /\ \A i \in Good, j \in S : i < j => i \in S
Rows == RowsOf(part[Whole].lines)

\* What is in the teacher file and its .part file, whoever has written it.
WholeKept ==
    /\ file[Whole] # None => file[Whole].lines = InOrder(Good)
    /\ part[Whole] # None => Increasing(part[Whole].lines) /\ Leading(Rows)

Ordered ==
    /\ done \in [Ranks -> SUBSET Records]
    /\ WholeKept
    /\ pc[0] = "start" => next[0] = 0 /\ window[0] = <<>>
    /\ pc[0] \in Busy =>
          /\ Leading(done[0]) /\ done[0] \subseteq Rows
          /\ \A j \in Rows : j < next[0] \/ j \in done[0]
          /\ Increasing(window[0])
          /\ \A i \in RowsOf(window[0]) : i < next[0]
          /\ \A i \in RowsOf(window[0]) \cap Good, j \in Rows : j < i
          /\ \A i \in Good : i < next[0] => i \in Rows \cup RowsOf(window[0])

\* Steps that write and gather nothing.
LEMMA MoveOrdered ==
    ASSUME Solo, Ordered, NEW label, Goto(0, label),
           UNCHANGED <<world, file, part, next, window, done>>,
           label # "start", label \in Busy => pc[0] \in Busy
    PROVE  Ordered'
<1>1. pc'[0] = label
  BY SoloFacts DEF Goto, Solo, AllPlain
<1>2. Rows' = Rows /\ \A S : Leading(S)' = Leading(S)
  BY DEF Rows, Leading
<1> QED
  BY <1>1, <1>2 DEF Ordered, WholeKept

\* The rows that a process goes on from are the first of those there are.
LEMMA BeginOrdered ==
    ASSUME Solo, Ordered, Begin(0)
    PROVE  Ordered'
<1> DEFINE found == Loaded(file[Whole])
<1>1. /\ 0 \in Ranks /\ Whole \in Names /\ world = 1 /\ RankedPath(0) = Whole
      /\ pc[0] = "start"
  BY SoloFacts DEF Solo, AllPlain, Begin
<1>2. /\ UNCHANGED <<world, file, next, window>>
      /\ IF found # <<>>
         THEN pc' = [pc EXCEPT ![0] = "reduce"] /\ UNCHANGED <<part, done>>
         ELSE /\ part' = [part EXCEPT ![Whole] = IF @ = None THEN NoLines ELSE @]
              /\ done' = [done EXCEPT ![0] = RowsOf(Loaded(part[Whole]))]
              /\ pc' = [pc EXCEPT ![0] = "scan"]
  BY <1>1 DEF Begin, Goto
<1>3. CASE found # <<>>
  <2>1. Goto(0, "reduce")
    BY <1>2, <1>3 DEF Goto
  <2> QED
    BY <1>2, <1>3, <2>1, MoveOrdered DEF Busy
<1>4. CASE found = <<>>
  <2> DEFINE P == part'[Whole]
  <2>1. P = IF part[Whole] = None THEN NoLines ELSE part[Whole]
    BY <1>1, <1>2, <1>4 DEF Solo, AllPlain
  <2>2. Increasing(P.lines) /\ Leading(RowsOf(P.lines)) /\ RowsOf(P.lines) = RowsOf(Loaded(part[Whole]))
    <3>1. CASE part[Whole] = None
      <4>1. P.lines = <<>> /\ Loaded(part[Whole]) = <<>>
        BY <2>1, <3>1, PlainFacts DEF Loaded
      <4>2. Increasing(<<>>) /\ RowsOf(<<>>) = {}
        BY DEF Increasing, RowsOf
      <4> QED
        BY <4>1, <4>2 DEF Leading
    <3>2. CASE part[Whole] # None
      <4>1. part[Whole] \in Plain /\ P = part[Whole]
        BY <1>1, <2>1, <3>2 DEF Solo, AllPlain
      <4>2. Loaded(part[Whole]) = part[Whole].lines
        BY <4>1, PlainFacts, LoadedWhole
      <4> QED
        BY <3>2, <4>1, <4>2 DEF Ordered, WholeKept, Rows
    <3> QED
      BY <3>1, <3>2
  <2>3. /\ done'[0] = RowsOf(P.lines) /\ next'[0] = 0 /\ window'[0] = <<>>
        /\ pc'[0] = "scan"
    BY <1>1, <1>2, <1>4, <2>2 DEF Solo, AllPlain, Ordered, WholeKept
  <2>4. RowsOf(<<>>) = {} /\ Increasing(<<>>) /\ \A i \in Good : ~(i < 0)
    BY GoodFacts DEF RowsOf, Increasing
  <2>5. Rows' = RowsOf(P.lines) /\ \A S : Leading(S)' = Leading(S)
    BY DEF Rows, Leading
  <2>6. done' \in [Ranks -> SUBSET Records]
    <3>1. RowsOf(Loaded(part[Whole])) \subseteq Records
      BY <2>2 DEF Leading, Good
    <3> QED
      BY <1>2, <1>4, <3>1 DEF Ordered, WholeKept
  <2> HIDE DEF P
  <2> QED
    BY <1>2, <2>2, <2>3, <2>4, <2>5, <2>6 DEF Ordered, WholeKept, P
<1> QED
  BY <1>3, <1>4

\* A record that is gathered comes after all that were written or gathered.
LEMMA ScanOrdered ==
    ASSUME Solo, Ordered, Scan(0)
    PROVE  Ordered'
<1> DEFINE i == next[0]
           W == window[0]
           taken == i % world = 0 /\ i \notin done[0] /\ Verdict[i] # "unrendered"
           gathered == IF taken THEN Append(W, i) ELSE W
<1>1. /\ 0 \in Ranks /\ i \in Records /\ i \in Nat /\ W \in Seq(Records)
      /\ pc[0] = "scan" /\ world = 1
  BY SoloFacts, RecordsAssumption DEF Scan, Solo, AllPlain, Records
<1>2. i % world = 0
  BY <1>1
<1>3. /\ pc'[0] \in {"scan", "generate"} /\ next'[0] = i + 1 /\ window'[0] = gathered
      /\ UNCHANGED <<world, file, part, done>>
  BY <1>1 DEF Scan, disk, Goto, Solo, AllPlain
<1>4. /\ Leading(done[0]) /\ done[0] \subseteq Rows
      /\ \A j \in Rows : j < i \/ j \in done[0]
      /\ Increasing(W)
      /\ \A k \in RowsOf(W) : k < i
      /\ \A k \in RowsOf(W) \cap Good, j \in Rows : j < k
      /\ \A k \in Good : k < i => k \in Rows \cup RowsOf(W)
      /\ part[Whole] # None /\ Leading(Rows) /\ Rows \subseteq Nat
  BY <1>1, GoodFacts DEF Ordered, WholeKept, Solo, AllPlain, Busy, Leading
<1>5. Rows' = Rows /\ \A S : Leading(S)' = Leading(S)
  BY <1>3 DEF Rows, Leading
<1>6. i \in Good /\ ~taken => i \in done[0]
  BY <1>2 DEF Good
<1>7. RowsOf(W) \subseteq Nat
  BY <1>1, RecordsAssumption DEF RowsOf, Records
<1> HIDE DEF i, W
<1>8. CASE taken
  <2>1. i \notin done[0] /\ gathered = Append(W, i)
    BY <1>8
  <2>2. RowsOf(gathered) = RowsOf(W) \cup {i}
    BY <1>1, <2>1, RowsAppend
  <2>3. Increasing(gathered)
    BY <1>1, <1>4, <2>1, IncreasingAppend
  <2>4. ASSUME i \in Good, NEW j \in Rows PROVE j < i
    <3>1. CASE j \in done[0]
      <4>1. ~(i < j)
        BY <1>4, <2>1, <2>4, <3>1 DEF Leading
      <4>2. i # j /\ j \in Nat
        BY <1>4, <2>1, <3>1
      <4> QED
        BY <1>1, <4>1, <4>2
    <3> QED
      BY <1>4, <3>1
  <2> HIDE DEF taken, gathered
  <2>5. \A k \in RowsOf(gathered) : k < i + 1
    BY <1>1, <1>4, <1>7, <2>2
  <2>6. \A k \in RowsOf(gathered) \cap Good, j \in Rows : j < k
    BY <1>4, <2>2, <2>4
  <2>7. \A k \in Good : k < i + 1 => k \in Rows \cup RowsOf(gathered)
    <3>1. \A k \in Good : k < i + 1 => k < i \/ k = i
      BY <1>1, GoodFacts
    <3> QED
      BY <1>4, <2>2, <3>1
  <2>8. \A j \in Rows : j < i + 1 \/ j \in done[0]
    BY <1>1, <1>4
  <2> QED
    BY <1>3, <1>4, <1>5, <2>3, <2>5, <2>6, <2>7, <2>8 DEF Ordered, WholeKept, Busy
<1>9. CASE ~taken
  <2>1. gathered = W
    BY <1>9
  <2> HIDE DEF taken, gathered
  <2>2. \A k \in RowsOf(W) : k < i + 1
    BY <1>1, <1>4, <1>7
  <2>3. \A k \in Good : k < i + 1 => k \in Rows \cup RowsOf(W)
    <3>1. \A k \in Good : k < i + 1 => k < i \/ k = i
      BY <1>1, GoodFacts
    <3> QED
      BY <1>4, <1>6, <1>9, <3>1
  <2>4. \A j \in Rows : j < i + 1 \/ j \in done[0]
    BY <1>1, <1>4
  <2> QED
    BY <1>3, <1>4, <1>5, <2>1, <2>2, <2>3, <2>4 DEF Ordered, WholeKept, Busy
<1> QED
  BY <1>8, <1>9

\* The first record of the window is the next row.
LEMMA WriteOrdered ==
    ASSUME Solo, Ordered, Write(0)
    PROVE  Ordered'
<1> DEFINE i == Head(window[0])
           W == window[0]
           P == part[Whole].lines
<1>1. /\ 0 \in Ranks /\ Whole \in Names /\ RankedPath(0) = Whole
      /\ W \in Seq(Records) /\ W # <<>> /\ pc[0] = "write"
      /\ part[Whole] \in Plain /\ P \in Seq(Records) /\ part[Whole] # None
  BY SoloFacts, PlainFacts DEF Write, Solo, AllPlain, Busy
<1>2. i \in Records /\ i \in Nat
  <2>1. i \in Records
    BY <1>1
  <2> QED
    BY <2>1, PlainFacts
<1>3. /\ RowsOf(W) = {i} \cup RowsOf(Tail(W))
      /\ Increasing(W) => /\ Increasing(Tail(W))
                          /\ \A k \in RowsOf(Tail(W)) : i < k
  BY <1>1, IncreasingTail
<1>4. /\ Leading(done[0]) /\ done[0] \subseteq Rows
      /\ \A j \in Rows : j < next[0] \/ j \in done[0]
      /\ Increasing(W)
      /\ \A k \in RowsOf(W) : k < next[0]
      /\ \A k \in RowsOf(W) \cap Good, j \in Rows : j < k
      /\ \A k \in Good : k < next[0] => k \in Rows \cup RowsOf(W)
      /\ Increasing(P) /\ Leading(Rows) /\ Rows = RowsOf(P)
      /\ next[0] \in Nat
  BY <1>1, RecordsAssumption DEF Ordered, WholeKept, Busy, Rows, Solo, AllPlain
<1>5. /\ window'[0] = Tail(W)
      /\ UNCHANGED <<world, file, pc, next, done>>
      /\ IF i \in Good THEN part'[Whole] = Appended(part[Whole], i) ELSE part' = part
  BY <1>1, <1>2 DEF Write, Solo, AllPlain, Good
<1>6. \A S : Leading(S)' = Leading(S)
  BY DEF Leading
<1> HIDE DEF i, W, P
<1>7. CASE i \notin Good
  <2>1. Rows' = Rows /\ part' = part
    BY <1>5, <1>7 DEF Rows
  <2>2. \A k \in Good : k < next[0] => k \in Rows \cup RowsOf(Tail(W))
    BY <1>3, <1>4, <1>7
  <2>3. RowsOf(Tail(W)) \subseteq RowsOf(W)
    BY <1>3
  <2> QED
    BY <1>1, <1>3, <1>4, <1>5, <1>6, <2>1, <2>2, <2>3 DEF Ordered, WholeKept
<1>8. CASE i \in Good
  <2>1. part'[Whole] \in Plain /\ part'[Whole].lines = Append(P, i)
    BY <1>1, <1>2, <1>5, <1>8, PlainFacts DEF P
  <2>2. Rows' = Rows \cup {i}
    <3>1. RowsOf(Append(P, i)) = RowsOf(P) \cup {i}
      BY <1>1, RowsAppend
    <3> QED
      BY <1>4, <2>1, <3>1 DEF Rows
  <2>3. i \in RowsOf(W) /\ i < next[0] /\ \A j \in Rows : j < i
    BY <1>3, <1>4, <1>8
  <2>4. Increasing(Append(P, i))
    BY <1>1, <1>2, <1>4, <2>3, IncreasingAppend
  <2>5. Leading(Rows \cup {i})
    <3> SUFFICES ASSUME NEW k \in Good, NEW j \in Rows \cup {i}, k < j
                 PROVE  k \in Rows \cup {i}
      BY <1>4, <1>8 DEF Leading
    <3>1. CASE j \in Rows
      BY <1>4, <3>1 DEF Leading
    <3>2. CASE j = i
      <4>1. k < next[0]
        BY <1>2, <1>4, <2>3, <3>2, GoodFacts
      <4>2. k \notin RowsOf(Tail(W))
        BY <1>2, <1>3, <1>4, <3>2, GoodFacts
      <4> QED
        BY <1>3, <1>4, <4>1, <4>2
    <3> QED
      BY <3>1, <3>2
  <2>6. \A k \in RowsOf(Tail(W)) \cap Good, j \in Rows \cup {i} : j < k
    BY <1>3, <1>4
  <2>7. \A k \in Good : k < next[0] => k \in (Rows \cup {i}) \cup RowsOf(Tail(W))
    BY <1>3, <1>4
  <2>8. /\ \A j \in Rows \cup {i} : j < next[0] \/ j \in done[0]
        /\ \A k \in RowsOf(Tail(W)) : k < next[0]
        /\ done[0] \subseteq Rows \cup {i}
    BY <1>3, <1>4, <2>3
  <2>9. done' \in [Ranks -> SUBSET Records] /\ (file'[Whole] # None => file'[Whole].lines = InOrder(Good)')
        /\ pc'[0] = "write"
    BY <1>1, <1>5 DEF Ordered, WholeKept
  <2> QED
    BY <1>3, <1>4, <1>5, <1>6, <2>1, <2>2, <2>4, <2>5, <2>6, <2>7, <2>8, <2>9 DEF Ordered, WholeKept
<1> QED
  BY <1>7, <1>8

\* After the last record all the rows there are have been written.
LEMMA PublishOrdered ==
    ASSUME Solo, Ordered, Publish(0)
    PROVE  Ordered'
<1>1. /\ 0 \in Ranks /\ Whole \in Names /\ RankedPath(0) = Whole
      /\ pc[0] = "scan" /\ next[0] = N /\ window[0] = <<>>
  BY SoloFacts DEF Publish, Solo, AllPlain
<1>2. CASE UNCHANGED <<file, part>> /\ Goto(0, "dead")
  BY <1>2, MoveOrdered DEF Publish, Busy
<1>3. CASE /\ file' = [file EXCEPT ![Whole] = part[Whole]]
           /\ part' = [part EXCEPT ![Whole] = None]
           /\ Goto(0, "reduce")
  <2> DEFINE P == part[Whole].lines
  <2>1. part[Whole] \in Plain /\ part[Whole] # None /\ P \in Seq(Records)
    BY <1>1, PlainFacts DEF Solo, AllPlain, Busy
  <2>2. Increasing(P) /\ Leading(RowsOf(P)) /\ \A i \in Good : i < N => i \in RowsOf(P)
    <3>1. RowsOf(<<>>) = {}
      BY DEF RowsOf
    <3> QED
      BY <1>1, <2>1, <3>1 DEF Ordered, WholeKept, Rows, Busy
  <2>3. RowsOf(P) = Good
    <3>1. \A i \in Records : i < N
      BY RecordsAssumption DEF Records
    <3>2. \A i \in Good : i < N
      BY <3>1 DEF Good
    <3> HIDE DEF P
    <3> QED
      BY <2>2, <3>2 DEF Leading
  <2> HIDE DEF P
  <2>5. P = InOrder(Good)
    BY <2>1, <2>2, <2>3, PlainFacts, IncreasingIsAscending DEF InOrder
  <2>6. file'[Whole] = part[Whole] /\ part'[Whole] = None /\ pc'[0] = "reduce"
    BY <1>1, <1>3 DEF Solo, AllPlain, Goto
  <2>7. UNCHANGED done
    BY DEF Publish
  <2> QED
    BY <2>5, <2>6, <2>7 DEF Ordered, WholeKept, Busy, P
<1> QED
  BY <1>1, <1>2, <1>3 DEF Publish, disk

\* A job of one process begins with the files that were there.
LEMMA LaunchOrdered ==
    ASSUME 1 \in Worlds, WholeKept, Launch(1)
    PROVE  Ordered'
<1>1. 0 \in Ranks
  <2>1. 0 \in 0 .. 1 - 1
    OBVIOUS
  <2> QED
    BY <2>1 DEF Ranks
<1>2. pc'[0] = "start" /\ next'[0] = 0 /\ window'[0] = <<>>
  BY <1>1 DEF Launch
<1>3. done' \in [Ranks -> SUBSET Records] /\ UNCHANGED <<file, part>>
  BY DEF Launch, disk
<1>4. Rows' = Rows /\ \A S : Leading(S)' = Leading(S)
  BY <1>3 DEF Rows, Leading
<1> QED
  BY <1>2, <1>3, <1>4 DEF Ordered, WholeKept, Busy

\* Every step of a single process that loses no window keeps the order.
LEMMA OrderedStep ==
    ASSUME Backend = "hf" \/ "window" \notin Faults, "torn" \notin Faults,
           Solo, Ordered, [Next]_vars, world' = 1
    PROVE  Ordered'
<1>1. 0 \in Ranks /\ world = 1
  BY SoloFacts DEF Solo
<1>2. ASSUME NEW w \in Worlds, Launch(w) PROVE Ordered'
  <2>1. w = 1
    BY <1>2 DEF Launch
  <2> QED
    BY <1>2, <2>1, LaunchOrdered DEF Ordered
<1>3. CASE RankStep(0) /\ ~Merge(0) /\ ~Unlink(0)
  <2>1. CASE LastWindow(0) \/ Generate(0) \/ WindowWritten(0)
    BY <1>1, <2>1, MoveOrdered DEF LastWindow, Generate, WindowWritten, disk, Busy
  <2>2. CASE AllReduce(0)
    BY <1>1, <2>2, MoveOrdered DEF AllReduce, disk, Busy
  <2>3. CASE Barrier(0)
    <3>1. Goto(0, "print") /\ pc[0] = "barrier"
      BY <1>1, <2>3 DEF Barrier
    <3> QED
      BY <1>1, <2>3, <3>1, MoveOrdered DEF Barrier, disk, Busy
  <2>4. CASE Summary(0)
    BY <1>1, <2>4, MoveOrdered DEF Summary, disk, Busy
  <2>5. CASE Undecodable(0)
    BY <1>1, <2>5, MoveOrdered DEF Undecodable, disk, Busy
  <2> QED
    BY <1>3, <2>1, <2>2, <2>3, <2>4, <2>5, BeginOrdered, ScanOrdered, WriteOrdered, PublishOrdered
       DEF RankStep
<1>4. CASE WindowFails(0)
  <2>1. pc[0] \in Busy /\ Backend = "hf"
    BY <1>4 DEF WindowFails, Fault, Busy
  <2> QED
    BY <1>4, <2>1, MoveOrdered DEF WindowFails, disk, Busy
<1>5. CASE Die(0)
  BY <1>1, <1>5, MoveOrdered DEF Die, Fault, Busy
<1>6. CASE UNCHANGED vars
  <2>1. Rows' = Rows /\ \A S : Leading(S)' = Leading(S)
    BY <1>6 DEF Rows, Leading, vars
  <2> QED
    BY <1>6, <2>1 DEF vars, Ordered, WholeKept
<1> QED
  BY <1>2, <1>3, <1>4, <1>5, <1>6, SoloNext

-----------------------------------------------------------------------------
\* Jobs of any world sizes, one after the other.

\* Jobs of any world sizes, one after the other, whose lines are never cut
\* short: what a job leaves is what the next, of one process or several, can
\* begin with.
Relaunched ==
    /\ world \in Worlds
    /\ AllPlain
    /\ OnlyGood
    /\ WholeKept
    /\ world = 1 => Solo /\ Ordered
    /\ world # 1 => Inv /\ Counted

\* The teacher file that is merged is a file without unreadable lines.
LEMMA ExactPlain == Exact \in Plain
<1>1. /\ Ascending(Good) \in Seq(Good)
      /\ {Ascending(Good)[k] : k \in DOMAIN Ascending(Good)} = Good
  BY GoodFacts, AscendingFacts
<1>2. InOrder(Good) \in Seq(Records)
  BY <1>1 DEF InOrder, Good
<1> QED
  BY <1>2 DEF Exact, Plain

\* The ranks of a job leave the .part file of a single process alone, and all
\* they write can be read.
LEMMA RanksPlain ==
    ASSUME world # 1, "torn" \notin Faults, Inv, AllPlain, [Next]_vars
    PROVE  AllPlain' /\ part'[Whole] = part[Whole]
<1> USE JobFacts DEF AllPlain
<1>1. world \in Worlds
  BY DEF Inv, Typed
<1>2. CASE UNCHANGED <<file, part>>
  BY <1>2
<1>3. ASSUME NEW r \in Ranks, Begin(r) PROVE AllPlain' /\ part'[Whole] = part[Whole]
  <2>1. UNCHANGED file /\ part' = [part EXCEPT ![r] = IF @ = None THEN NoLines ELSE @]
    BY <1>1, <1>3 DEF Begin
  <2> QED
    BY <1>1, <2>1, PlainFacts
<1>4. ASSUME NEW r \in Ranks, Write(r) PROVE AllPlain' /\ part'[Whole] = part[Whole]
  <2> DEFINE i == Head(window[r])
  <2>1. window[r] \in Seq(Records) /\ window[r] # <<>> /\ pc[r] = "write" /\ r \in Names
    BY <1>1, <1>4 DEF Write, Inv, Typed
  <2>2. i \in Records
    BY <2>1
  <2>3. part[r] \in Plain
    BY <1>1, <2>1 DEF Inv, WorkKept, Holds, Busy, Roles
  <2>4. UNCHANGED file /\ (part' = part \/ part' = [part EXCEPT ![r] = Appended(@, i)])
    BY <1>1, <1>4 DEF Write
  <2> HIDE DEF i
  <2>5. Appended(part[r], i) \in Plain
    BY <2>2, <2>3, PlainFacts
  <2> QED
    BY <1>1, <2>4, <2>5
<1>5. ASSUME NEW r \in Ranks, Publish(r) PROVE AllPlain' /\ part'[Whole] = part[Whole]
  <2>1. /\ file' = [file EXCEPT ![r] = part[r]]
        /\ part' = [part EXCEPT ![r] = None]
    BY <1>1, <1>5 DEF Publish
  <2> QED
    BY <1>1, <2>1
<1>6. ASSUME NEW r \in Ranks, Merge(r) PROVE AllPlain' /\ part'[Whole] = part[Whole]
  <2>1. CASE Mergeable
    <3>1. r = 0 /\ pc[0] = "merge"
      BY <1>6 DEF Merge, Inv, Roles
    <3>2. file' = [file EXCEPT ![Whole] = Exact] /\ UNCHANGED part
      BY <1>6, <2>1, <3>1, MergeExact DEF Merge, Exact
    <3> QED
      BY <3>2, ExactPlain
  <2>2. CASE ~Mergeable
    BY <1>6, <2>2 DEF Merge
  <2> QED
    BY <2>1, <2>2
<1>7. ASSUME NEW r \in Ranks, Unlink(r) PROVE AllPlain' /\ part'[Whole] = part[Whole]
  <2>1. UNCHANGED part /\ \E s : file' = [file EXCEPT ![s] = None] \/ file' = file
    BY <1>7 DEF Unlink
  <2> QED
    BY <2>1
<1>8. \A r \in Ranks : WindowFails(r) \/ Die(r) => UNCHANGED <<file, part>>
  BY DEF WindowFails, Die, Fault, disk
<1>9. \A r \in Ranks : Scan(r) \/ LastWindow(r) \/ Generate(r) \/ WindowWritten(r) \/ AllReduce(r)
          \/ Barrier(r) \/ Summary(r) \/ Undecodable(r) => UNCHANGED <<file, part>>
  BY DEF Undecodable, Scan, LastWindow, Generate, WindowWritten, AllReduce, Barrier, Summary, disk
<1>10. \A w \in Worlds : Launch(w) => UNCHANGED <<file, part>>
  BY DEF Launch, disk
<1> QED
  BY <1>2, <1>3, <1>4, <1>5, <1>6, <1>7, <1>8, <1>9, <1>10 DEF Next, RankStep, SkipStage, vars

\* A single process leaves the files of the ranks alone.
LEMMA SoloElsewhere ==
    ASSUME "torn" \notin Faults, Solo, [Next]_vars
    PROVE  \A r \in Ranks : file'[r] = file[r] /\ part'[r] = part[r]
<1>1. Whole \notin Ranks /\ Ranks \subseteq Names /\ RankedPath(0) = Whole
  BY SoloFacts
<1>2. CASE UNCHANGED <<file, part>>
  BY <1>2
<1>3. CASE RankStep(0) /\ ~Merge(0) /\ ~Unlink(0)
  <2>1. \/ UNCHANGED <<file, part>>
        \/ \E f, g : /\ file' = [file EXCEPT ![Whole] = f] \/ file' = file
                     /\ part' = [part EXCEPT ![Whole] = g] \/ part' = part
    <3>1. CASE Begin(0)
      BY <1>1, <3>1 DEF Begin
    <3>2. CASE Write(0)
      BY <1>1, <3>2 DEF Write
    <3>3. CASE Publish(0)
      BY <1>1, <3>3 DEF Publish, disk
    <3>4. CASE Scan(0) \/ LastWindow(0) \/ Generate(0) \/ WindowWritten(0) \/ AllReduce(0)
                \/ Barrier(0) \/ Summary(0) \/ Undecodable(0)
      BY <3>4 DEF Undecodable, Scan, LastWindow, Generate, WindowWritten, AllReduce, Barrier, Summary, disk
    <3> QED
      BY <1>3, <3>1, <3>2, <3>3, <3>4 DEF RankStep
  <2> QED
    BY <1>1, <2>1 DEF Solo, AllPlain
<1>4. WindowFails(0) \/ Die(0) => UNCHANGED <<file, part>>
  BY DEF WindowFails, Die, Fault, disk
<1>5. \A w \in Worlds : Launch(w) => UNCHANGED <<file, part>>
  BY DEF Launch, disk
<1> QED
  BY <1>2, <1>3, <1>4, <1>5, SoloNext DEF vars

\* A job of any size begins well on what the jobs before it left.
LEMMA LaunchRelaunched ==
    ASSUME Relaunched, NEW w \in Worlds, Launch(w)
    PROVE  Relaunched'
<1>1. world' = w /\ UNCHANGED <<file, part>>
  BY DEF Launch, disk
<1>2. AllPlain' /\ OnlyGood' /\ WholeKept'
  BY <1>1 DEF Relaunched, AllPlain, OnlyGood, WholeKept, Rows, Leading
<1>3. w = 1 => Solo' /\ Ordered'
  BY SoloLaunch, LaunchOrdered DEF Relaunched
<1>4. Inv'
  <2>1. /\ \A n \in Names : file[n] \in Plain \cup {None} /\ part[n] \in Plain \cup {None}
        /\ Whole \in Names /\ Ranks \subseteq Names
    BY DEF Relaunched, AllPlain, Names
  <2>2. /\ file \in [Names -> File \cup {None, Exact}] /\ part \in [Names -> File \cup {None}]
        /\ \A r \in Ranks : file[r] \in File \cup {None}
    BY <2>1, PlainFacts DEF Relaunched, AllPlain
  <2>3. file[Whole] \in {None, Exact}
    <3> SUFFICES ASSUME file[Whole] # None PROVE file[Whole] = Exact
      OBVIOUS
    <3>1. file[Whole] \in Plain /\ file[Whole].lines = InOrder(Good)
      BY <2>1 DEF Relaunched, WholeKept
    <3> QED
      BY <3>1 DEF Plain, Exact
  <2> QED
    BY <2>2, <2>3, LaunchKeeps DEF Relaunched
<1>5. Counted'
  BY LaunchCounted
<1> QED
  BY <1>1, <1>2, <1>3, <1>4, <1>5 DEF Relaunched

\* Every step keeps what the next job can begin with.
LEMMA RelaunchedStep ==
    ASSUME "torn" \notin Faults, Backend = "hf" \/ "window" \notin Faults,
           Relaunched, [Next]_vars
    PROVE  Relaunched'
<1>1. CASE \E w \in Worlds : Launch(w)
  BY <1>1, LaunchRelaunched
<1>2. CASE ~\E w \in Worlds : Launch(w)
  <2>1. world' = world
    BY <1>2, OneWorld
  <2>2. CASE world = 1
    <3>1. Solo' /\ Ordered'
      BY <2>1, <2>2, SoloStep, OrderedStep DEF Relaunched
    <3>2. OnlyGood'
      BY <2>2, SoloElsewhere DEF Relaunched, OnlyGood
    <3> QED
      BY <2>1, <2>2, <3>1, <3>2 DEF Relaunched, Solo, Ordered
  <2>3. CASE world # 1
    <3>1. Inv' /\ Counted' /\ AllPlain' /\ part'[Whole] = part[Whole]
      BY <2>3, StepKeeps, CountedStep, RanksPlain DEF Relaunched
    <3>2. WholeKept'
      BY <3>1 DEF Relaunched, WholeKept, Rows, Leading, Inv, Typed, Exact
    <3> QED
      BY <2>1, <2>3, <3>1, <3>2 DEF Relaunched, Inv
  <2> QED
    BY <2>2, <2>3
<1> QED
  BY <1>1, <1>2

\* No job has run yet.
LEMMA InitRelaunched ==
    ASSUME Init
    PROVE  Relaunched
<1>1. world \in Worlds /\ file[Whole] = None /\ part[Whole] = None
  BY DEF Init, Names
<1>2. AllPlain /\ OnlyGood /\ WholeKept
  BY <1>1, InitInv DEF Init, AllPlain, Inv, WholeKept
<1>3. ASSUME world = 1 PROVE Ordered
  <2>1. pc[0] = "exit"
    BY <1>1, JobFacts DEF Init
  <2> QED
    BY <1>2, <2>1 DEF Init, Ordered, Busy
<1> QED
  BY <1>1, <1>2, <1>3, InitInv, InitCounted, SoloInit DEF Relaunched

\* The teacher file is exact after jobs of whatever world sizes, one process
\* included, any number of crashes and of windows that a local model fails on
\* (generate_targets.py: the window is kept); a server loses records of a window
\* that fails, and a single process appends to a line cut short.
THEOREM TeacherFileExact ==
    ASSUME "torn" \notin Faults, Backend = "hf" \/ "window" \notin Faults
    PROVE  Spec => []PublishedExact
<1>1. Init => Relaunched
  BY InitRelaunched
<1>2. Relaunched /\ [Next]_vars => Relaunched'
  BY RelaunchedStep
<1>3. Relaunched => PublishedExact
  BY DEF Relaunched, WholeKept, PublishedExact
<1> QED
  BY <1>1, <1>2, <1>3, PTL DEF Spec

\* The totals that rank 0 prints, of a job of several ranks and of one process.
LEMMA RanksTotal ==
    ASSUME Inv, Counted
    PROVE  TotalsMatch
<1> SUFFICES ASSUME pc[0] = "print"
             PROVE  Total[Job] = Len(file[Whole].lines)
  BY DEF TotalsMatch
<1>1. Job \subseteq Ranks
  BY JobFacts DEF Inv, Typed
<1>2. Total[Job] = Cardinality(Good) /\ file[Whole] = Exact
  BY <1>1, TotalIsTally DEF Counted, Summed
<1>3. Len(InOrder(Good)) = Cardinality(Good)
  BY GoodFacts, AscendingFacts DEF InOrder
<1> QED
  BY <1>2, <1>3 DEF Exact

\* The same of a single process.
LEMMA SoloTotal ==
    ASSUME Solo
    PROVE  TotalsMatch
<1> SUFFICES ASSUME pc[0] = "print"
             PROVE  Total[Job] = Len(file[Whole].lines)
  BY DEF TotalsMatch
<1>1. Job = {0} /\ {0} \subseteq Ranks /\ written \in [Ranks -> Nat] /\ written[0] \in Nat
  BY SoloFacts DEF Solo
<1>2. IsFiniteSet({0}) /\ {0} \ {0} = {}
  BY FS_Singleton
<1>3. Cardinality(Tally({0})) = written[0]
  <2>1. Cardinality(Tally({})) = 0
    BY <1>1, TallyFacts
  <2>2. Cardinality(Tally({0})) = written[0] + Cardinality(Tally({0} \ {0}))
    BY <1>1, <1>2, TallyFacts
  <2> QED
    BY <1>1, <1>2, <2>1, <2>2
<1>4. Total[{0}] = Cardinality(Tally({0}))
  BY <1>1, TotalIsTally
<1> QED
  BY <1>1, <1>3, <1>4 DEF Solo

\* The number of rows that rank 0 reports from its all-reduce is the number of
\* lines of the teacher file (generate_targets.py): of jobs of several ranks
\* whatever was cut short, and of jobs of any sizes as long as no line is, for a
\* row that a single process appends to such a line is counted and makes one line
\* of both.
THEOREM ReportedTotals ==
    1 \notin Worlds \/ "torn" \notin Faults => (Spec => []TotalsMatch)
<1>1. CASE 1 \notin Worlds
  <2>1. Init => Inv /\ Counted
    BY InitInv, InitCounted
  <2>2. Inv /\ Counted /\ [Next]_vars => (Inv /\ Counted)'
    BY <1>1, StepKeeps, CountedStep DEF Inv, Typed
  <2>3. Inv /\ Counted => TotalsMatch
    BY RanksTotal
  <2> QED
    BY <2>1, <2>2, <2>3, PTL DEF Spec
<1>2. CASE "torn" \notin Faults /\ Backend = "hf"
  <2>1. Init => Relaunched
    BY InitRelaunched
  <2>2. Relaunched /\ [Next]_vars => Relaunched'
    BY <1>2, RelaunchedStep
  <2>3. Relaunched => TotalsMatch
    BY RanksTotal, SoloTotal DEF Relaunched
  <2> QED
    BY <2>1, <2>2, <2>3, PTL DEF Spec
<1>3. CASE "torn" \notin Faults /\ Worlds = {1}
  <2>1. Init => Solo
    BY <1>3, SoloInit DEF Init
  <2>2. Solo /\ [Next]_vars => Solo'
    <3>1. ASSUME Solo, [Next]_vars PROVE world' = 1
      BY <1>3, <3>1, OneWorld DEF Solo
    <3> QED
      BY <1>3, <3>1, SoloStep
  <2>3. Solo => TotalsMatch
    BY SoloTotal
  <2> QED
    BY <2>1, <2>2, <2>3, PTL DEF Spec
<1> QED
  BY <1>1, <1>2, <1>3, BackendAssumption

-----------------------------------------------------------------------------
\* The splits of a preparation.

\* The id given to a line is not one that was given before.
LEMMA FreshId ==
    ASSUME NEW line, NEW k \in Nat, NEW seen, IsFiniteSet(seen),
           line.id = NoId \/ IsSequence(line.id)
    PROVE  RecordId(line, k, seen) \notin seen
<1> DEFINE base == IF line.id = NoId THEN <<"line", k>> ELSE line.id
           spare(m) == base \o (IF m = 1 THEN <<k>> ELSE <<k, m>>)
           n == Cardinality(seen) + 1
           free(m) == spare(m) \notin seen /\ \A q \in 1 .. m - 1 : spare(q) \in seen
<1>1. RecordId(line, k, seen) = IF base \notin seen THEN base ELSE spare(CHOOSE m \in 1 .. n : free(m))
  BY DEF RecordId
<1>2. Cardinality(seen) \in Nat /\ n \in Nat
  BY FS_CardinalityType
<1>3. PICK A : base \in Seq(A) /\ Nat \subseteq A
  <2>1. CASE line.id = NoId
    <3>1. base \in Seq(Nat \cup {"line"})
      BY <2>1
    <3> QED
      BY <3>1
  <2>2. CASE line.id # NoId
    <3> DEFINE A == Nat \cup {base[q] : q \in 1 .. Len(base)}
    <3>1. base = line.id /\ Len(base) \in Nat /\ base = [q \in 1 .. Len(base) |-> base[q]]
      BY <2>2 DEF IsSequence
    <3>2. \A q \in 1 .. Len(base) : base[q] \in A
      OBVIOUS
    <3> HIDE DEF base, A
    <3>3. base \in Seq(A)
      BY <3>1, <3>2
    <3> QED
      BY <3>3 DEF A
  <2> QED
    BY <2>1, <2>2
<1> HIDE DEF base
<1>4. ASSUME NEW l \in 1 .. n, NEW m \in 1 .. n, spare(l) = spare(m) PROVE l = m
  <2>1. /\ <<k>> \in Seq(A) /\ <<k, l>> \in Seq(A) /\ <<k, m>> \in Seq(A)
        /\ l \in Nat /\ m \in Nat
    BY <1>3
  <2>2. Len(base \o <<k>>) = Len(base) + 1 /\ Len(base) \in Nat
    BY <1>3, <2>1
  <2>3. \A q \in Nat : /\ Len(base \o <<k, q>>) = Len(base) + 2
                       /\ (base \o <<k, q>>)[Len(base) + 2] = q
    BY <1>3
  <2> QED
    BY <1>4, <2>1, <2>2, <2>3
<1>5. \E m \in 1 .. n : spare(m) \notin seen
  <2> SUFFICES ASSUME \A m \in 1 .. n : spare(m) \in seen PROVE FALSE
    OBVIOUS
  <2> HIDE DEF spare, n
  <2> DEFINE f == [m \in 1 .. n |-> spare(m)]
  <2>1. f \in [1 .. n -> seen]
    OBVIOUS
  <2>2. IsFiniteSet(1 .. n) /\ Cardinality(seen) < Cardinality(1 .. n)
    <3>1. IsFiniteSet(1 .. n) /\ Cardinality(1 .. n) = n
      BY <1>2, FS_Interval
    <3> QED
      BY <1>2, <3>1 DEF n
  <2>3. \E l, m \in 1 .. n : l # m /\ f[l] = f[m]
    <3> HIDE DEF f
    <3> QED
      BY <2>1, <2>2, FS_PigeonHole
  <2> QED
    BY <1>4, <2>3
<1>6. \E m \in 1 .. n : free(m)
  <2> DEFINE T == {m \in 1 .. n : spare(m) \notin seen}
  <2>1. T \subseteq Nat /\ T # {}
    BY <1>5
  <2> HIDE DEF T, spare, n
  <2>2. PICK m \in T : \A q \in T : m <= q
    BY <2>1, SmallestNumber
  <2>3. m \in 1 .. n /\ spare(m) \notin seen
    BY DEF T
  <2>4. \A q \in 1 .. m - 1 : spare(q) \in seen
    <3> SUFFICES ASSUME NEW q \in 1 .. m - 1 PROVE q \notin T /\ q \in 1 .. n
      BY DEF T
    <3>1. q \in Int /\ m \in Int /\ n \in Int /\ q < m /\ m <= n /\ 1 <= q
      BY <1>2, <2>3
    <3> QED
      BY <2>2, <3>1
  <2> QED
    BY <2>3, <2>4
<1> HIDE DEF n, spare, free
<1>7. free(CHOOSE m \in 1 .. n : free(m))
  BY <1>6
<1>8. spare(CHOOSE m \in 1 .. n : free(m)) \notin seen
  BY <1>7 DEF free
<1> QED
  BY <1>1, <1>8

\* The ids of the first n lines, each of which depends on those before it; there
\* are such.
Chain(lines, n, id) ==
    id = [k \in 1 .. n |-> RecordId(lines[k], k, {id[q] : q \in 1 .. k - 1})]

\* By induction on the number of lines: there is no smallest without ids.
LEMMA IdsExist ==
    ASSUME NEW n \in Nat, NEW lines
    PROVE  \E id : Chain(lines, n, id)
<1> DEFINE T == {m \in 0 .. n : ~ \E id : Chain(lines, m, id)}
<1> SUFFICES ASSUME T # {} PROVE FALSE
  OBVIOUS
<1>1. T \subseteq Nat
  OBVIOUS
<1>2. PICK m \in T : \A k \in T : m <= k
  <2> HIDE DEF T
  <2> QED
    BY <1>1, SmallestNumber
<1>3. Chain(lines, 0, [k \in 1 .. 0 |-> 0])
  BY DEF Chain
<1>4. m # 0
  BY <1>2, <1>3
<1>5. m - 1 \in 0 .. n /\ m - 1 \notin T /\ m \in 1 .. n
  BY <1>2, <1>4
<1>6. PICK g : Chain(lines, m - 1, g)
  BY <1>5
<1> DEFINE new == RecordId(lines[m], m, {g[q] : q \in 1 .. m - 1})
           h == [k \in 1 .. m |-> IF k < m THEN g[k] ELSE new]
<1>7. \A q \in 1 .. m - 1 : h[q] = g[q]
  BY <1>5
<1>8. ASSUME NEW k \in 1 .. m
      PROVE  h[k] = RecordId(lines[k], k, {h[q] : q \in 1 .. k - 1})
  <2>1. {h[q] : q \in 1 .. k - 1} = {g[q] : q \in 1 .. k - 1}
    <3>1. \A q \in 1 .. k - 1 : q \in 1 .. m - 1
      BY <1>5
    <3> HIDE DEF h
    <3> QED
      BY <1>7, <3>1
  <2>2. CASE k < m
    <3>1. k \in 1 .. m - 1
      BY <1>5, <2>2
    <3>2. g[k] = RecordId(lines[k], k, {g[q] : q \in 1 .. k - 1})
      BY <1>6, <3>1 DEF Chain
    <3> QED
      BY <1>7, <2>1, <3>1, <3>2
  <2>3. CASE ~(k < m)
    <3>1. k = m
      BY <1>5, <2>3
    <3>2. h[k] = new
      BY <3>1, <1>5
    <3> HIDE DEF h
    <3> QED
      BY <2>1, <3>1, <3>2
  <2> QED
    BY <2>2, <2>3
<1>9. Chain(lines, m, h)
  <2>1. h = [k \in 1 .. m |-> h[k]]
    OBVIOUS
  <2> HIDE DEF h
  <2> QED
    BY <1>8, <2>1 DEF Chain
<1> QED
  BY <1>2, <1>9

-----------------------------------------------------------------------------
\* Records with an id each of its own.
Apart(s) == \A k, l \in DOMAIN s : s[k].id = s[l].id => k = l

\* Normalised lines are as many records, with an id each of its own.
LEMMA NormalizedFacts ==
    ASSUME NEW lines, IsSequence(lines),
           \A k \in 1 .. Len(lines) : lines[k].id = NoId \/ IsSequence(lines[k].id)
    PROVE  /\ Len(Normalized(lines)) = Len(lines)
           /\ \E A : Normalized(lines) \in Seq(A)
           /\ Apart(Normalized(lines))
<1> DEFINE n == Len(lines)
           g == CHOOSE id : Chain(lines, n, id)
           record(k) == [doc |-> lines[k].doc, id |-> g[k]]
<1>1. n \in Nat
  BY DEF IsSequence
<1>2. Normalized(lines) = [k \in 1 .. n |-> record(k)]
  BY DEF Normalized, Chain
<1>3. Chain(lines, n, g)
  BY <1>1, IdsExist
<1> HIDE DEF g
<1>4. ASSUME NEW k \in 1 .. n PROVE g[k] \notin {g[q] : q \in 1 .. k - 1}
  <2> DEFINE seen == {g[q] : q \in 1 .. k - 1}
  <2>1. g[k] = RecordId(lines[k], k, seen)
    BY <1>3 DEF Chain
  <2>2. IsFiniteSet(seen)
    <3>1. k - 1 \in Int /\ IsFiniteSet(1 .. k - 1)
      BY <1>1, FS_Interval
    <3> QED
      BY <3>1, FiniteImage
  <2>3. k \in Nat /\ (lines[k].id = NoId \/ IsSequence(lines[k].id))
    BY <1>1
  <2> HIDE DEF seen
  <2>4. RecordId(lines[k], k, seen) \notin seen
    BY <2>2, <2>3, FreshId
  <2> QED
    BY <2>1, <2>4 DEF seen
<1>5. ASSUME NEW k \in 1 .. n, NEW l \in 1 .. n, g[k] = g[l] PROVE k = l
  <2>1. k \in Int /\ l \in Int
    BY <1>1
  <2>2. CASE k < l
    <3>1. k \in 1 .. l - 1
      BY <2>1, <2>2
    <3> QED
      BY <1>4, <1>5, <3>1
  <2>3. CASE l < k
    <3>1. l \in 1 .. k - 1
      BY <2>1, <2>3
    <3> QED
      BY <1>4, <1>5, <3>1
  <2> QED
    BY <2>1, <2>2, <2>3
<1> HIDE DEF n
<1> DEFINE A == {record(k) : k \in 1 .. n}
<1>6. Normalized(lines) \in Seq(A) /\ Len(Normalized(lines)) = n /\ DOMAIN Normalized(lines) = 1 .. n
  <2>1. \A k \in 1 .. n : record(k) \in A
    OBVIOUS
  <2> HIDE DEF A, record
  <2> QED
    BY <1>1, <1>2, <2>1
<1>7. \A k \in 1 .. n : Normalized(lines)[k].id = g[k]
  BY <1>2
<1> QED
  BY <1>5, <1>6, <1>7 DEF Apart, n

\* Records with ids of their own have as many ids.
LEMMA CountIds ==
    ASSUME NEW A, NEW s \in Seq(A), Apart(s)
    PROVE  Cardinality(Ids(s)) = Len(s)
<1> DEFINE n == Len(s)
           f == [k \in 1 .. n |-> s[k].id]
<1>1. n \in Nat /\ DOMAIN s = 1 .. n
  OBVIOUS
<1>2. IsFiniteSet(1 .. n) /\ Cardinality(1 .. n) = n
  BY <1>1, FS_Interval
<1> HIDE DEF n
<1>3. f \in [1 .. n -> Ids(s)]
  BY <1>1 DEF Ids
<1>4. \A k, l \in 1 .. n : f[k] = f[l] => k = l
  BY <1>1 DEF Apart
<1>5. \A i \in Ids(s) : \E k \in 1 .. n : f[k] = i
  BY <1>1 DEF Ids
<1> HIDE DEF f
<1>6. f \in Bijection(1 .. n, Ids(s))
  BY <1>3, <1>4, <1>5 DEF Bijection, Injection, Surjection, IsInjective
<1> QED
  BY <1>2, <1>6, FS_Bijection DEF ExistsBijection, n

-----------------------------------------------------------------------------
\* Records have no document exactly when there are none.
LEMMA NoDocs ==
    ASSUME NEW A, NEW s \in Seq(A)
    PROVE  DocsOf(s) = {} <=> s = <<>>
<1>1. CASE s = <<>>
  BY <1>1 DEF DocsOf
<1>2. CASE s # <<>>
  <2>1. 1 \in DOMAIN s
    BY <1>2
  <2>2. s[1].doc \in DocsOf(s)
    BY <2>1 DEF DocsOf
  <2> QED
    BY <1>2, <2>2
<1> QED
  BY <1>1, <1>2

\* The places of some documents, and the records there.
Places(s, S) == {k \in DOMAIN s : s[k].doc \in S}

\* They are the records at those places, with no other documents or ids.
LEMMA OfFacts ==
    ASSUME NEW A, NEW s \in Seq(A), NEW S
    PROVE  /\ Of(s, S) \in Seq(A)
           /\ IsFiniteSet(Places(s, S))
           /\ Len(Of(s, S)) = Cardinality(Places(s, S))
           /\ DocsOf(Of(s, S)) = DocsOf(s) \cap S
           /\ Ids(Of(s, S)) = {s[k].id : k \in Places(s, S)}
<1> DEFINE K == Places(s, S)
           t == Selection(s, K)
<1>1. Of(s, S) = t
  BY DEF Of, Places
<1>2. K \subseteq DOMAIN s
  BY DEF Places
<1> HIDE DEF K
<1>3. /\ IsFiniteSet(K) /\ t \in Seq(A) /\ Len(t) = Cardinality(K)
      /\ {t[k] : k \in DOMAIN t} = {s[k] : k \in K}
  BY <1>2, SelectionFacts
<1> HIDE DEF t
<1>4. /\ \A q \in DOMAIN t : \E k \in K : t[q] = s[k]
      /\ \A k \in K : \E q \in DOMAIN t : t[q] = s[k]
  <2>1. \A q \in DOMAIN t : t[q] \in {s[k] : k \in K}
    BY <1>3
  <2>2. \A k \in K : s[k] \in {t[q] : q \in DOMAIN t}
    BY <1>3
  <2> QED
    BY <2>1, <2>2
<1>5. DocsOf(t) = {s[k].doc : k \in K}
  BY <1>4 DEF DocsOf
<1>6. Ids(t) = {s[k].id : k \in K}
  BY <1>4 DEF Ids
<1>7. {s[k].doc : k \in K} = DocsOf(s) \cap S
  BY DEF K, Places, DocsOf
<1> QED
  BY <1>1, <1>3, <1>5, <1>6, <1>7 DEF K

\* Records divided by their documents: none is lost or doubled.
LEMMA DivideFacts ==
    ASSUME NEW A, NEW s \in Seq(A), NEW D
    PROVE  /\ Of(s, DocsOf(s) \ D) \in Seq(A) /\ Of(s, D) \in Seq(A)
           /\ Len(Of(s, DocsOf(s) \ D)) + Len(Of(s, D)) = Len(s)
           /\ Ids(Of(s, DocsOf(s) \ D)) \cup Ids(Of(s, D)) = Ids(s)
           /\ DocsOf(Of(s, DocsOf(s) \ D)) = DocsOf(s) \ D
           /\ DocsOf(Of(s, D)) = DocsOf(s) \cap D
<1> DEFINE E == DocsOf(s) \ D
           K == Places(s, E)
           L == Places(s, D)
<1>1. K \cap L = {} /\ K \cup L = DOMAIN s /\ DocsOf(s) \cap E = DocsOf(s) \ D
  BY DEF DocsOf, Places
<1> HIDE DEF E
<1>2. /\ Of(s, E) \in Seq(A) /\ IsFiniteSet(K) /\ Len(Of(s, E)) = Cardinality(K)
      /\ DocsOf(Of(s, E)) = DocsOf(s) \cap E
      /\ Ids(Of(s, E)) = {s[k].id : k \in K}
  BY OfFacts
<1>3. /\ Of(s, D) \in Seq(A) /\ IsFiniteSet(L) /\ Len(Of(s, D)) = Cardinality(L)
      /\ DocsOf(Of(s, D)) = DocsOf(s) \cap D
      /\ Ids(Of(s, D)) = {s[k].id : k \in L}
  BY OfFacts
<1>4. DOMAIN s = 1 .. Len(s) /\ Len(s) \in Nat
  OBVIOUS
<1>5. Cardinality(DOMAIN s) = Len(s)
  BY <1>4, FS_Interval
<1> HIDE DEF K, L
<1>6. Cardinality(K) + Cardinality(L) = Len(s)
  <2>1. Cardinality(K \cup L) = Cardinality(K) + Cardinality(L) - Cardinality(K \cap L)
    BY <1>2, <1>3, FS_Union
  <2>2. Cardinality(K) \in Nat /\ Cardinality(L) \in Nat
    BY <1>2, <1>3, FS_CardinalityType
  <2>3. Cardinality(K \cap L) = 0
    BY <1>1, FS_EmptySet
  <2>4. Cardinality(K \cup L) = Len(s)
    BY <1>1, <1>5
  <2> QED
    BY <2>1, <2>2, <2>3, <2>4
<1>7. {s[k].id : k \in K} \cup {s[k].id : k \in L} = Ids(s)
  BY <1>1 DEF Ids
<1> QED
  BY <1>1, <1>2, <1>3, <1>6, <1>7 DEF E

\* Two splits with no document in common and an id for every record.
Divided(t, e) ==
    /\ \E A : t \in Seq(A) /\ e \in Seq(A)
    /\ DocsOf(t) \cap DocsOf(e) = {}
    /\ Cardinality(Ids(t) \cup Ids(e)) = Len(t) + Len(e)

\* Dividing records with ids of their own gives such splits.
LEMMA DividedApart ==
    ASSUME NEW A, NEW s \in Seq(A), Cardinality(Ids(s)) = Len(s), NEW D
    PROVE  /\ Divided(Of(s, DocsOf(s) \ D), Of(s, D))
           /\ Divided(Of(s, D), Of(s, DocsOf(s) \ D))
<1> DEFINE t == Of(s, DocsOf(s) \ D)
           e == Of(s, D)
<1>1. /\ t \in Seq(A) /\ e \in Seq(A)
      /\ Len(t) + Len(e) = Len(s)
      /\ Ids(t) \cup Ids(e) = Ids(s)
      /\ DocsOf(t) = DocsOf(s) \ D
      /\ DocsOf(e) = DocsOf(s) \cap D
  BY DivideFacts
<1> HIDE DEF t, e
<1>2. Len(e) + Len(t) = Len(s) /\ Ids(e) \cup Ids(t) = Ids(s)
  BY <1>1
<1>3. Divided(t, e) /\ Divided(e, t)
  BY <1>1, <1>2 DEF Divided
<1> QED
  BY <1>3 DEF t, e

\* Moving the records of one of several documents leaves two such splits, both
\* with records.
LEMMA MoveGroupFacts ==
    ASSUME NEW A, NEW s \in Seq(A), Cardinality(Ids(s)) = Len(s),
           Cardinality(DocsOf(s)) > 1
    PROVE  /\ Divided(MoveGroup(s).remaining, MoveGroup(s).moved)
           /\ Divided(MoveGroup(s).moved, MoveGroup(s).remaining)
           /\ MoveGroup(s).moved # <<>> /\ MoveGroup(s).remaining # <<>>
           /\ Cardinality(DocsOf(MoveGroup(s).moved)) = 1
<1> DEFINE group == {Head(s).doc}
           moved == Of(s, group)
           remaining == Of(s, DocsOf(s) \ group)
<1>1. MoveGroup(s).moved = moved /\ MoveGroup(s).remaining = remaining
  BY DEF MoveGroup
<1>2. group \subseteq DocsOf(s) /\ group # {}
  <2>1. s # <<>>
    <3>1. Cardinality({}) = 0
      BY FS_EmptySet
    <3>2. DocsOf(s) # {}
      BY <3>1
    <3> QED
      BY <3>2, NoDocs
  <2>2. 1 \in DOMAIN s /\ Head(s) = s[1]
    BY <2>1
  <2> QED
    BY <2>2 DEF DocsOf
<1>3. DocsOf(s) # group
  <2>1. Cardinality(group) = 1
    BY FS_Singleton
  <2> HIDE DEF group
  <2> QED
    BY <2>1
<1>8. Cardinality(group) = 1
  BY FS_Singleton
<1> HIDE DEF group
<1>4. Divided(remaining, moved) /\ Divided(moved, remaining)
  BY DividedApart
<1> HIDE DEF moved, remaining
<1>5. /\ moved \in Seq(A) /\ remaining \in Seq(A)
      /\ DocsOf(moved) = DocsOf(s) \cap group
      /\ DocsOf(remaining) = DocsOf(s) \ group
  <2>1. Of(s, group) \in Seq(A) /\ Of(s, DocsOf(s) \ group) \in Seq(A)
    BY DivideFacts
  <2>2. DocsOf(Of(s, group)) = DocsOf(s) \cap group
    BY DivideFacts
  <2>3. DocsOf(Of(s, DocsOf(s) \ group)) = DocsOf(s) \ group
    BY DivideFacts, ZenonT(30)
  <2> QED
    BY <2>1, <2>2, <2>3 DEF moved, remaining
<1>6. DocsOf(moved) # {} /\ DocsOf(remaining) # {}
  BY <1>2, <1>3, <1>5
<1>7. moved # <<>> /\ remaining # <<>>
  BY <1>5, <1>6, NoDocs
<1>9. DocsOf(moved) = group
  BY <1>2, <1>5
<1> QED
  BY <1>1, <1>4, <1>7, <1>8, <1>9

\* What a preparation stages has everything that is asked of its splits.
LEMMA FilledSound ==
    ASSUME NEW p \in Preparations, Usable(p), NEW r, NEW c,
           r = Filled(p, Assigned(p, Normalized(Read(p)))),
           c = RecordedCounts(p, Assigned(p, Normalized(Read(p))))
    PROVE  /\ Divided(r.train, r.eval)
           /\ r.train # <<>>
           /\ r.eval = <<>> => ~p.ratio \/ Len(r.train) = 1
           /\ \/ c.train = Len(r.train) /\ c.eval = Len(r.eval)
              \/ /\ c.train = Len(r.eval) /\ c.eval = Len(r.train)
                 /\ Cardinality(DocsOf(r.train)) = 1
<1> DEFINE lines == Read(p)
           records == Normalized(lines)
           s == Assigned(p, records)
<1>1. /\ IsSequence(lines)
      /\ \A k \in 1 .. Len(lines) : lines[k].id = NoId \/ IsSequence(lines[k].id)
  <2> DEFINE all == p.lines
             m == IF p.limit < Len(all) THEN p.limit ELSE Len(all)
  <2>1. Len(all) \in Nat /\ all = [k \in 1 .. Len(all) |-> all[k]] /\ p.limit \in Nat
    BY PreparationsAssumption DEF IsSequence
  <2>2. lines = SubSeq(all, 1, m)
    BY DEF Read
  <2>3. m \in Nat /\ m <= Len(all)
    BY <2>1
  <2>4. \E B : all \in Seq(B)
    <3> DEFINE B == {all[k] : k \in 1 .. Len(all)}
    <3>1. \A k \in 1 .. Len(all) : all[k] \in B
      OBVIOUS
    <3> HIDE DEF B, all
    <3>2. all \in Seq(B)
      BY <2>1, <3>1
    <3> QED
      BY <3>2
  <2> HIDE DEF all, m, lines
  <2>5. /\ Len(lines) = m /\ lines = [k \in 1 .. m |-> all[k]]
        /\ \A k \in 1 .. m : lines[k] = all[k]
    BY <2>2, <2>3, <2>4
  <2>6. Malformed \notin {lines[k] : k \in 1 .. m}
    BY <2>5 DEF Usable, lines, ToSet
  <2>7. \A k \in 1 .. m : all[k] # Malformed /\ k \in DOMAIN all
    BY <2>1, <2>3, <2>5, <2>6
  <2>8. \A k \in 1 .. m : all[k].id = NoId \/ IsSequence(all[k].id)
    BY <2>7, PreparationsAssumption DEF all
  <2> QED
    BY <2>3, <2>5, <2>8 DEF IsSequence
<1>2. PICK A : records \in Seq(A)
  BY <1>1, NormalizedFacts
<1>3. Cardinality(Ids(records)) = Len(records)
  BY <1>1, <1>2, NormalizedFacts, CountIds
<1>4. /\ records # <<>>
      /\ p.ratio /\ NeedsGroup(s) => Cardinality(DocsOf(records)) > 1
      /\ c.train # 0
  BY DEF Usable
<1> HIDE DEF lines, records
<1>5. s.train = Of(records, DocsOf(records) \ p.evalDocs) /\ s.eval = Of(records, p.evalDocs)
  BY DEF Assigned
<1>6. /\ s.train \in Seq(A) /\ s.eval \in Seq(A)
      /\ Len(s.train) + Len(s.eval) = Len(records)
      /\ Ids(s.train) \cup Ids(s.eval) = Ids(records)
      /\ DocsOf(s.train) = DocsOf(records) \ p.evalDocs
      /\ DocsOf(s.eval) = DocsOf(records) \cap p.evalDocs
  BY <1>2, <1>5, DivideFacts
<1>7. Divided(s.train, s.eval)
  BY <1>2, <1>3, <1>5, DividedApart
<1>8. r = Filled(p, s) /\ c = RecordedCounts(p, s)
  BY DEF records, lines
<1> HIDE DEF s
<1>9. CASE ~NeedsGroup(s) \/ ~p.ratio
  <2>1. r = s
    BY <1>8, <1>9 DEF Filled
  <2>3. c.train = Len(r.train) /\ c.eval = Len(r.eval)
    BY <1>8, <1>9 DEF RecordedCounts
  <2>4. r.train # <<>>
    BY <1>4, <2>3
  <2>2. ASSUME s.eval = <<>>, p.ratio PROVE Len(s.train) = 1
    <3>1. ~(Len(s.train) + Len(s.eval) >= 2)
      BY <1>9, <2>2 DEF NeedsGroup
    <3>2. s.train # <<>>
      BY <2>1, <2>4
    <3>3. Len(s.eval) = 0 /\ Len(s.train) \in Nat /\ Len(s.train) # 0
      BY <1>6, <2>2, <3>2
    <3> DEFINE n == Len(s.train)
               m == Len(s.eval)
    <3>4. ~(n + m >= 2) /\ m = 0 /\ n \in Nat /\ n # 0
      BY <3>1, <3>3
    <3> HIDE DEF n, m
    <3>5. n = 1
      BY <3>4
    <3> QED
      BY <3>5 DEF n
  <2> QED
    BY <1>7, <2>1, <2>2, <2>3, <2>4
<1>10. CASE NeedsGroup(s) /\ p.ratio
  <2>1. Ids(<<>>) = {} /\ Len(<<>>) = 0 /\ DocsOf(<<>>) = {}
    BY DEF Ids, DocsOf
  <2>2. Len(s.train) \in Nat /\ Len(s.eval) \in Nat
    BY <1>6
  <2>3. Cardinality(DocsOf(records)) > 1
    BY <1>4, <1>10
  <2>4. CASE s.eval = <<>>
    <3>1. r = [train |-> MoveGroup(s.train).remaining, eval |-> MoveGroup(s.train).moved]
      BY <1>8, <1>10, <2>4 DEF Filled
    <3>2. /\ Len(s.train) = Len(records)
          /\ Ids(s.train) = Ids(records)
          /\ DocsOf(s.train) = DocsOf(records)
      <4>1. Len(s.eval) = 0 /\ Ids(s.eval) = {} /\ DocsOf(s.eval) = {}
        BY <2>1, <2>4
      <4>2. Len(s.train) = Len(records)
        BY <1>6, <2>2, <4>1, SMTT(30)
      <4>3. Ids(s.train) = Ids(records)
        BY <1>6, <4>1
      <4>4. DocsOf(records) \cap p.evalDocs = {}
        BY <1>6, <4>1
      <4>5. DocsOf(s.train) = DocsOf(records)
        BY <1>6, <4>1, <4>4
      <4> QED
        BY <4>2, <4>3, <4>5
    <3>3. /\ Divided(MoveGroup(s.train).remaining, MoveGroup(s.train).moved)
          /\ MoveGroup(s.train).moved # <<>> /\ MoveGroup(s.train).remaining # <<>>
      BY <1>3, <1>6, <2>3, <3>2, MoveGroupFacts
    <3>4. s.train # <<>>
      BY <1>10, <2>1, <2>2, <2>4 DEF NeedsGroup
    <3>5. c.train = Len(r.train) /\ c.eval = Len(r.eval)
      BY <1>8, <3>4 DEF RecordedCounts
    <3> QED
      BY <3>1, <3>3, <3>5
  <2>5. CASE s.eval # <<>>
    <3>1. s.train = <<>>
      BY <1>10, <2>5 DEF NeedsGroup
    <3>2. r = [train |-> MoveGroup(s.eval).moved, eval |-> MoveGroup(s.eval).remaining]
      BY <1>8, <1>10, <2>5 DEF Filled
    <3>3. /\ Len(s.eval) = Len(records)
          /\ Ids(s.eval) = Ids(records)
          /\ DocsOf(s.eval) = DocsOf(records)
      <4>1. Len(s.train) = 0 /\ Ids(s.train) = {} /\ DocsOf(s.train) = {}
        BY <2>1, <3>1
      <4>2. Len(s.eval) = Len(records)
        BY <1>6, <2>2, <4>1, SMTT(30)
      <4>3. Ids(s.eval) = Ids(records)
        BY <1>6, <4>1
      <4>4. DocsOf(records) \cap p.evalDocs = DocsOf(records)
        BY <1>6, <4>1
      <4>5. DocsOf(s.eval) = DocsOf(records)
        BY <1>6, <4>1, <4>4
      <4> QED
        BY <4>2, <4>3, <4>5
    <3>4. /\ Divided(MoveGroup(s.eval).moved, MoveGroup(s.eval).remaining)
          /\ MoveGroup(s.eval).moved # <<>> /\ MoveGroup(s.eval).remaining # <<>>
          /\ Cardinality(DocsOf(MoveGroup(s.eval).moved)) = 1
      BY <1>3, <1>6, <2>3, <3>3, MoveGroupFacts
    <3>5. c.train = Len(r.eval) /\ c.eval = Len(r.train)
      BY <1>8, <1>10, <3>1 DEF RecordedCounts
    <3> QED
      BY <3>2, <3>4, <3>5
  <2> QED
    BY <2>4, <2>5
<1> QED
  BY <1>9, <1>10

\* Each of two such splits has an id for every record.
LEMMA DividedIds ==
    ASSUME NEW t, NEW e, Divided(t, e)
    PROVE  Cardinality(Ids(t)) = Len(t)
<1>1. PICK A : t \in Seq(A) /\ e \in Seq(A)
  BY DEF Divided
<1>2. ASSUME NEW s \in Seq(A)
      PROVE  /\ IsFiniteSet(Ids(s)) /\ Cardinality(Ids(s)) \in Nat
             /\ Cardinality(Ids(s)) <= Len(s) /\ Len(s) \in Nat
  <2> DEFINE n == Len(s)
             g == [k \in 1 .. n |-> s[k].id]
  <2>1. n \in Nat /\ DOMAIN s = 1 .. n
    OBVIOUS
  <2>2. IsFiniteSet(1 .. n) /\ Cardinality(1 .. n) = n
    BY <2>1, FS_Interval
  <2> HIDE DEF n
  <2>3. g \in Surjection(1 .. n, Ids(s))
    BY <2>1 DEF Ids, Surjection
  <2> HIDE DEF g
  <2>4. IsFiniteSet(Ids(s)) /\ Cardinality(Ids(s)) <= Cardinality(1 .. n)
    BY <2>2, <2>3, FS_Surjection
  <2> QED
    BY <2>1, <2>2, <2>4, FS_CardinalityType DEF n
<1> DEFINE T == Ids(t)
           E == Ids(e)
<1>3. Cardinality(T \cup E) = Len(t) + Len(e)
  BY DEF Divided
<1>4. /\ IsFiniteSet(T) /\ Cardinality(T) \in Nat /\ Cardinality(T) <= Len(t) /\ Len(t) \in Nat
      /\ IsFiniteSet(E) /\ Cardinality(E) \in Nat /\ Cardinality(E) <= Len(e) /\ Len(e) \in Nat
  BY <1>1, <1>2
<1> HIDE DEF T, E
<1>5. Cardinality(T \cup E) = Cardinality(T) + Cardinality(E) - Cardinality(T \cap E)
  BY <1>4, FS_Union
<1>6. Cardinality(T \cap E) \in Nat
  <2>1. IsFiniteSet(T \cap E)
    BY <1>4, FS_Intersection
  <2> QED
    BY <2>1, FS_CardinalityType
<1>7. Cardinality(T) = Len(t)
  BY <1>3, <1>4, <1>5, <1>6
<1> QED
  BY <1>7 DEF T

\* What is staged is sound; what is published of it is what was staged; and
\* whatever training split is there has an id for every record.
Distinct(s) == Cardinality(Ids(s)) = Len(s)
SplitInv ==
    /\ toPublish \in {<<>>, <<"manifest">>, <<"eval", "manifest">>, Published}
    /\ split = [n \in {"train", "eval", "manifest"} |-> split[n]]
    /\ split.train # NoFile => Distinct(split.train)
    /\ toPublish # <<>> =>
          /\ Sound(staged) /\ Distinct(staged.train)
          /\ outcome # "done"
          /\ toPublish # Published => split.train = staged.train
          /\ toPublish = <<"manifest">> => split.eval = staged.eval
    /\ outcome = "done" => Sound(split)

\* The manifest is published last.
LEMMA PublishedFacts ==
    ToSet(Published) = {"train", "eval", "manifest"}
<1>1. DOMAIN Published = {1, 2, 3}
  BY DEF Published
<1> QED
  BY <1>1 DEF Published, ToSet

\* The four stages of a publication are different.
LEMMA RestFacts ==
    /\ <<>> # Published /\ <<>> # <<"manifest">> /\ <<>> # <<"eval", "manifest">>
    /\ <<"manifest">> # <<"eval", "manifest">>
    /\ <<"manifest">> # Published /\ <<"eval", "manifest">> # Published
<1>1. Len(<<>>) = 0 /\ Len(<<"manifest">>) = 1 /\ Len(<<"eval", "manifest">>) = 2
  OBVIOUS
<1>2. Len(Published) = 3
  BY DEF Published
<1> QED
  BY <1>1, <1>2, SMTT(30)

\* A preparation stages sound splits, and begins while no other is under way.
LEMMA PrepareKeeps ==
    ASSUME SplitInv, NEW p \in Preparations, Prepare(p)
    PROVE  SplitInv'
<1> USE DEF Prepare, Keep
<1>1. CASE Protected(p) \/ ~Usable(p)
  <2>1. outcome' \in {"refused", "raised"} /\ UNCHANGED <<split, staged, toPublish>> /\ toPublish = <<>>
    BY <1>1 DEF Idle
  <2> QED
    BY <2>1 DEF SplitInv
<1>2. CASE ~Protected(p) /\ Usable(p)
  <2> DEFINE r == Filled(p, Assigned(p, Normalized(Read(p))))
             c == RecordedCounts(p, Assigned(p, Normalized(Read(p))))
  <2>1. /\ staged' = [train |-> r.train, eval |-> r.eval, manifest |-> Manifest(c, p.ratio)]
        /\ toPublish' = Published /\ outcome' = "running" /\ split' = split
    BY <1>2 DEF Stage
  <2>2. /\ Divided(r.train, r.eval)
        /\ r.train # <<>>
        /\ r.eval = <<>> => ~p.ratio \/ Len(r.train) = 1
        /\ \/ c.train = Len(r.train) /\ c.eval = Len(r.eval)
           \/ /\ c.train = Len(r.eval) /\ c.eval = Len(r.train)
              /\ Cardinality(DocsOf(r.train)) = 1
    BY <1>2, FilledSound
  <2> HIDE DEF r, c
  <2>3. Cardinality(Ids(r.train)) = Len(r.train)
    BY <2>2, DividedIds
  <2>4. Sound(staged')
    BY <2>1, <2>2 DEF Sound, CountsMatch, Divided, Manifest
  <2>5. Distinct(staged'.train)
    BY <2>1, <2>3 DEF Distinct
  <2> QED
    BY <2>1, <2>4, <2>5, RestFacts DEF SplitInv
<1> QED
  BY <1>1, <1>2

\* A file that is published is what was staged; a manifest comes to splits that
\* are both the staged ones.
LEMMA PublishFileKeeps ==
    ASSUME SplitInv, PublishFile
    PROVE  SplitInv'
<1> DEFINE name == Head(toPublish)
<1>0. /\ toPublish # <<>>
      /\ split' = [split EXCEPT ![name] = staged[name]]
      /\ toPublish' = Tail(toPublish)
      /\ IF Len(toPublish) = 1 THEN outcome' = "done" /\ staged' = NoFiles
                               ELSE UNCHANGED <<outcome, staged>>
  BY DEF PublishFile, Idle
<1> HIDE DEF name
<1>1. toPublish \in {<<"manifest">>, <<"eval", "manifest">>, Published}
  BY <1>0 DEF SplitInv
<1>2. CASE toPublish = Published
  <2>1. toPublish' = <<"eval", "manifest">> /\ name = "train" /\ Len(toPublish) = 3
    BY <1>0, <1>2 DEF Published, name
  <2>2. split' = [split EXCEPT !["train"] = staged["train"]] /\ UNCHANGED <<outcome, staged>>
    BY <1>0, <2>1
  <2>3. split'.train = staged.train /\ split' = [n \in {"train", "eval", "manifest"} |-> split'[n]]
    BY <2>2 DEF SplitInv
  <2>4. Sound(staged) /\ Distinct(staged.train) /\ outcome # "done"
    BY <1>2, RestFacts DEF SplitInv
  <2> QED
    BY <2>1, <2>2, <2>3, <2>4, RestFacts DEF SplitInv
<1>3. CASE toPublish = <<"eval", "manifest">>
  <2>1. toPublish' = <<"manifest">> /\ name = "eval" /\ Len(toPublish) = 2
    BY <1>0, <1>3 DEF name
  <2>2. split' = [split EXCEPT !["eval"] = staged["eval"]] /\ UNCHANGED <<outcome, staged>>
    BY <1>0, <2>1
  <2>3. /\ split'.eval = staged.eval /\ split'.train = split.train
        /\ split' = [n \in {"train", "eval", "manifest"} |-> split'[n]]
    BY <2>2 DEF SplitInv
  <2>4. /\ Sound(staged) /\ Distinct(staged.train) /\ outcome # "done"
        /\ split.train = staged.train
    BY <1>3, RestFacts DEF SplitInv
  <2> QED
    BY <2>1, <2>2, <2>3, <2>4, RestFacts DEF SplitInv
<1>4. CASE toPublish = <<"manifest">>
  <2>1. toPublish' = <<>> /\ name = "manifest" /\ Len(toPublish) = 1
    BY <1>0, <1>4 DEF name
  <2>2. split' = [split EXCEPT !["manifest"] = staged["manifest"]] /\ outcome' = "done"
    BY <1>0, <2>1
  <2>3. /\ split'.manifest = staged.manifest /\ split'.eval = split.eval /\ split'.train = split.train
        /\ split' = [n \in {"train", "eval", "manifest"} |-> split'[n]]
    BY <2>2 DEF SplitInv
  <2>4. /\ split.train = staged.train /\ split.eval = staged.eval /\ Sound(staged)
        /\ Distinct(staged.train)
    BY <1>4, RestFacts DEF SplitInv
  <2>5. Sound(split')
    BY <2>3, <2>4 DEF Sound, CountsMatch
  <2>6. Distinct(split'.train)
    BY <2>3, <2>4
  <2> QED
    BY <2>1, <2>2, <2>3, <2>5, <2>6 DEF SplitInv
<1> QED
  BY <1>1, <1>2, <1>3, <1>4

\* Every step keeps the splits sound.
LEMMA SplitStep ==
    ASSUME SplitInv, [PreparedNext]_preparedVars
    PROVE  SplitInv'
<1>1. CASE PrepareNext
  <2>1. CASE \E p \in Preparations : Prepare(p)
    BY <2>1, PrepareKeeps
  <2>2. CASE PublishFile
    BY <2>2, PublishFileKeeps
  <2>3. CASE KillPreparation
    BY <2>3 DEF SplitInv, KillPreparation
  <2> QED
    BY <1>1, <2>1, <2>2, <2>3 DEF PrepareNext
<1>2. CASE UNCHANGED prepareVars
  BY <1>2 DEF prepareVars, SplitInv
<1> QED
  BY <1>1, <1>2 DEF PreparedNext, preparedVars

\* A preparation that is done has published splits that share no document and
\* have an id for every record (prepare_data.py), after any number of killed ones.
THEOREM PreparedSplitsSound ==
    PreparedSpec => []SplitsSound
<1>1. PreparedInit => SplitInv
  BY PublishedFacts DEF PreparedInit, PrepareInit, SplitInv, NoFiles
<1>2. SplitInv /\ [PreparedNext]_preparedVars => SplitInv'
  BY SplitStep
<1>3. SplitInv => SplitsSound
  BY DEF SplitInv, SplitsSound
<1> QED
  BY <1>1, <1>2, <1>3, PTL DEF PreparedSpec

\* Generation only ever reads records with an id each of its own.
GeneratesDistinct == Generating => Cardinality(Ids(split.train)) = N

\* Generation only ever reads a training split with an id for every record, that
\* of a preparation killed before its manifest included: what TeacherShards
\* takes for granted.
THEOREM GeneratedIdsDistinct ==
    PreparedSpec => []GeneratesDistinct
<1>1. PreparedInit => SplitInv
  BY PublishedFacts DEF PreparedInit, PrepareInit, SplitInv, NoFiles
<1>2. SplitInv /\ [PreparedNext]_preparedVars => SplitInv'
  BY SplitStep
<1>3. SplitInv => GeneratesDistinct
  BY DEF SplitInv, GeneratesDistinct, Generating, SplitNames, Distinct
<1> QED
  BY <1>1, <1>2, <1>3, PTL DEF PreparedSpec

-----------------------------------------------------------------------------
\* Generation on a prepared split.

\* The jobs on a prepared split are jobs.
LEMMA PreparedJobs == PreparedSpec => Spec
<1>1. PreparedInit => Init
  BY DEF PreparedInit
<1>2. [PreparedNext]_preparedVars => [Next]_vars
  BY DEF PreparedNext, preparedVars
<1> QED
  BY <1>1, <1>2, PTL DEF PreparedSpec, Spec

\* No row of a prepared split's records is dropped from the disk: NoRowDropped of
\* the jobs of the launcher.
THEOREM PreparedRowsKept ==
    ASSUME NEW w, Worlds = {w}, "torn" \notin Faults
    PROVE  PreparedSpec => RowsKept
<1>1. PreparedSpec => Spec
  BY PreparedJobs
<1>2. Spec => RowsKept
  BY NoRowDropped
<1> QED
  BY <1>1, <1>2

==============================================================================
