----------------------- MODULE ResumableBenchProofs -----------------------
(***************************************************************************)
(* Whatever fails, is killed and is started again: a run mixes no two      *)
(* configurations, reports for every cell what was measured last, leaves   *)
(* no gap unexplained and passes only with a success for every cell.  For  *)
(* all methods, samples, retries, faults and configurations.               *)
(***************************************************************************)
EXTENDS ResumableBench, FiniteSetTheorems, WellFoundedInduction, TLAPS

----------------------------------------------------------------------------
\* The invariant of a run.

Files == {None, Torn} \cup Seq(RowSpace)

Rowed(rs, c) == \E i \in DOMAIN rs : rs[i].cell = c

\* The last row of a cell says how.
Says(rs, c, how) ==
    \E i \in DOMAIN rs :
        /\ rs[i].cell = c /\ rs[i].status = how
        /\ \A j \in DOMAIN rs : j > i => rs[j].cell # c

\* Every cell of a method has a row, or one of them has failed.
Explained(rs, m) ==
    \/ \A s \in 1 .. Samples : Rowed(rs, <<m, s>>)
    \/ \E s \in 1 .. Samples : Says(rs, <<m, s>>, "failed")

Looping == {"load", "sample", "measure", "recorded", "close", "fail", "close_failed", "skip"}
Ending == {"finalize", "rewrite", "report", "sign_off"}
Ready == pc \in Looping \cup Ending

BenchTyped ==
    /\ partial \in Files /\ results \in Files
    /\ state \in Configs \cup {None, Torn}
    /\ pc \in {"ended", "create", "sign"} \cup Looping \cup Ending
    /\ config \in Configs \cup {None}
    /\ records \in Seq(RowSpace)
    /\ method \in Nat \ {0} /\ sample \in Nat \ {0}
    /\ last \in [Cells -> {None, "success", "failed"}]
    /\ pc # "ended" => config \in Configs /\ partial \in {None} \cup Seq(RowSpace)
    /\ pc \in {"sample", "measure", "recorded", "close", "fail", "close_failed"} => method <= Methods
    /\ pc \in {"measure", "recorded", "skip"} => sample <= Samples
    /\ pc \in {"sample", "fail"} => sample <= Samples + 1
    /\ pc \in {"create", "sign"} => method = 1
    /\ pc \in {"create", "sign", "load"} => sample = 1

\* What is read and written has the signature of the process and of the state.
Signed ==
    /\ pc \in {"create", "sign"} => partial \in {None, << >>} /\ results = None /\ records = << >>
    /\ Ready => state = config
    /\ OneConfiguration

\* The cells that the loop has not come to.
Ahead ==
    IF pc \in {"load", "sample"}
    THEN {c \in Cells : c[1] > method \/ (c[1] = method /\ c[2] >= sample)}
    ELSE IF pc \in {"measure", "recorded"}
    THEN {c \in Cells : c[1] > method \/ (c[1] = method /\ c[2] > sample)}
    ELSE IF pc \in {"close", "fail", "close_failed"} THEN {c \in Cells : c[1] > method}
    ELSE IF pc \in {"skip", "finalize", "rewrite", "report", "sign_off"} THEN {}
    ELSE Cells

Latest ==
    /\ \A c \in Ahead : last[c] = None
    /\ \A c \in Cells : last[c] # None => Says(records, c, last[c])

\* The methods and cells the loop is through with are accounted for.
Covered ==
    /\ pc \in Looping => \A m \in 1 .. Methods : m < method => Explained(records, m)
    /\ pc \in {"sample", "measure", "recorded", "fail", "skip"} =>
           \A s \in 1 .. sample - 1 : Rowed(records, <<method, s>>)
    /\ pc = "recorded" => Rowed(records, Cell)
    /\ pc \in {"close", "close_failed"} => Explained(records, method)
    /\ pc \in Ending => \A m \in 1 .. Methods : Explained(records, m)

\* The rows of a report: one for each cell that has any.
Reported ==
    /\ pc \in {"rewrite", "report", "sign_off"} =>
           \A i, j \in DOMAIN records : records[i].cell = records[j].cell => i = j
    /\ pc = "sign_off" => results = records /\ verdict = Status(records)

BenchInv == BenchTyped /\ Signed /\ Latest /\ Covered /\ Reported

----------------------------------------------------------------------------
\* What is done to the rows in memory.

LEMMA CellsAre ==
    /\ Methods \in Nat /\ Samples \in Nat /\ Methods >= 1 /\ Samples >= 1
    /\ None \notin Configs \cup Nat /\ Torn \notin Configs
    /\ \A m \in 1 .. Methods, s \in 1 .. Samples : <<m, s>> \in Cells
    /\ None \notin Seq(RowSpace) /\ Torn \notin Seq(RowSpace)
    /\ << >> \in Seq(RowSpace) /\ None # Torn /\ Torn # << >>
    /\ \A c \in Cells : c = <<c[1], c[2]>> /\ c[1] \in 1 .. Methods /\ c[2] \in 1 .. Samples
<1>1. << >> \in Seq(RowSpace)
  OBVIOUS
<1>2. None \notin Seq(RowSpace) /\ Torn \notin Seq(RowSpace)
  BY BenchAssumption
<1>3. Torn # << >>
  BY <1>1, <1>2
<1> QED
  BY <1>1, <1>2, <1>3, BenchAssumption DEF Cells

LEMMA AppendIs ==
    ASSUME NEW rs \in Seq(RowSpace), NEW row \in RowSpace, NEW new, new = Append(rs, row)
    PROVE  /\ new \in Seq(RowSpace)
           /\ \A i \in DOMAIN new : new[i] = row \/ \E j \in DOMAIN rs : new[i] = rs[j]
           /\ \A c : Rowed(rs, c) => Rowed(new, c)
           /\ Rowed(new, row.cell) /\ Says(new, row.cell, row.status)
           /\ \A c, how : c # row.cell /\ Says(rs, c, how) => Says(new, c, how)
<1>1. PICK n \in Nat : n = Len(rs)
  OBVIOUS
<1>2. /\ new \in Seq(RowSpace) /\ DOMAIN rs = 1 .. n /\ DOMAIN new = 1 .. n + 1
      /\ new[n + 1] = row /\ \A i \in 1 .. n : new[i] = rs[i]
  BY <1>1
<1> HIDE DEF Says
<1>3. \A i \in DOMAIN new : new[i] = row \/ \E j \in DOMAIN rs : new[i] = rs[j]
  <2> SUFFICES ASSUME NEW i \in 1 .. n + 1, i # n + 1 PROVE i \in 1 .. n
    BY <1>2
  <2> QED
    OBVIOUS
<1>4. ASSUME NEW c, Rowed(rs, c) PROVE Rowed(new, c)
  <2>1. PICK i \in 1 .. n : rs[i].cell = c
    BY <1>2, <1>4 DEF Rowed
  <2>2. i \in 1 .. n + 1 /\ new[i].cell = c
    BY <1>2, <2>1
  <2> QED
    BY <1>2, <2>2 DEF Rowed
<1>5. n + 1 \in 1 .. n + 1 /\ \A j \in 1 .. n + 1 : ~(j > n + 1)
  OBVIOUS
<1>6. Rowed(new, row.cell) /\ Says(new, row.cell, row.status)
  BY <1>2, <1>5 DEF Rowed, Says
<1>7. ASSUME NEW c, NEW how, c # row.cell, Says(rs, c, how) PROVE Says(new, c, how)
  <2>1. PICK i \in 1 .. n :
            rs[i].cell = c /\ rs[i].status = how /\ \A j \in 1 .. n : j > i => rs[j].cell # c
    BY <1>2, <1>7 DEF Says
  <2>2. i \in 1 .. n + 1 /\ new[i].cell = c /\ new[i].status = how
    BY <1>2, <2>1
  <2>3. ASSUME NEW j \in 1 .. n + 1, j > i PROVE new[j].cell # c
    <3>1. CASE j \in 1 .. n
      <4>1. new[j] = rs[j] /\ rs[j].cell # c
        BY <1>2, <2>1, <2>3, <3>1
      <4> QED
        BY <4>1
    <3>2. CASE j = n + 1
      BY <1>2, <1>7, <3>2
    <3>3. j \in 1 .. n \/ j = n + 1
      OBVIOUS
    <3> QED
      BY <3>1, <3>2, <3>3
  <2> QED
    BY <1>2, <2>2, <2>3 DEF Says
<1> QED
  BY <1>2, <1>3, <1>4, <1>6, <1>7

\* RemoveAt leaves all rows but one, in their order.
LEMMA RemovalIs ==
    ASSUME NEW rs \in Seq(RowSpace), NEW p \in DOMAIN rs, NEW new, new = RemoveAt(rs, p),
           NEW n \in Nat, n = Len(rs)
    PROVE  /\ new \in Seq(RowSpace) /\ p \in 1 .. n /\ DOMAIN rs = 1 .. n /\ DOMAIN new = 1 .. n - 1
           /\ \A i \in 1 .. n - 1 : new[i] = IF i < p THEN rs[i] ELSE rs[i + 1]
<1>1. p \in 1 .. n /\ DOMAIN rs = 1 .. n /\ n >= 1
  OBVIOUS
<1> DEFINE a == SubSeq(rs, 1, p - 1)
           b == SubSeq(rs, p + 1, n)
<1>2. a \in Seq(RowSpace) /\ Len(a) = p - 1 /\ \A i \in 1 .. p - 1 : a[i] = rs[i]
  BY <1>1
<1>3. b \in Seq(RowSpace) /\ Len(b) = n - p /\ \A i \in 1 .. n - p : b[i] = rs[p + i]
  <2>1. \A i \in 1 .. n - p : p + 1 + i - 1 = p + i
    BY <1>1
  <2> QED
    BY <1>1, <2>1
<1>4. new = a \o b
  BY DEF RemoveAt
<1> HIDE DEF a, b
<1>5. new \in Seq(RowSpace) /\ Len(new) = n - 1
  BY <1>1, <1>2, <1>3, <1>4
<1>6. ASSUME NEW i \in 1 .. n - 1 PROVE new[i] = IF i < p THEN rs[i] ELSE rs[i + 1]
  <2>1. CASE i < p
    <3>1. i \in 1 .. p - 1
      BY <1>1, <2>1
    <3> QED
      BY <1>2, <1>3, <1>4, <2>1, <3>1
  <2>2. CASE ~(i < p)
    <3>1. i - (p - 1) \in 1 .. n - p /\ p + (i - (p - 1)) = i + 1 /\ i \in (p - 1) + 1 .. n - 1
      BY <1>1, <2>2
    <3>2. new[i] = b[i - (p - 1)]
      BY SMTT(30), <1>1, <1>2, <1>3, <1>4, <3>1
    <3> QED
      BY <1>3, <2>2, <3>1, <3>2
  <2> QED
    BY <2>1, <2>2
<1> QED
  BY <1>1, <1>5, <1>6

LEMMA RemoveIs ==
    ASSUME NEW rs \in Seq(RowSpace), NEW p \in DOMAIN rs, NEW new, new = RemoveAt(rs, p)
    PROVE  /\ new \in Seq(RowSpace)
           /\ \A i \in DOMAIN new : \E j \in DOMAIN rs : new[i] = rs[j]
           /\ \A c : c # rs[p].cell /\ Rowed(rs, c) => Rowed(new, c)
           /\ \A c, how : c # rs[p].cell /\ Says(rs, c, how) => Says(new, c, how)
<1>1. PICK n \in Nat : n = Len(rs)
  OBVIOUS
<1>2. /\ new \in Seq(RowSpace) /\ p \in 1 .. n /\ DOMAIN rs = 1 .. n /\ DOMAIN new = 1 .. n - 1
      /\ \A i \in 1 .. n - 1 : new[i] = IF i < p THEN rs[i] ELSE rs[i + 1]
  BY SMTT(30), <1>1, RemovalIs
<1> DEFINE from(i) == IF i < p THEN i ELSE i + 1
           to(j) == IF j < p THEN j ELSE j - 1
<1>3. \A i \in 1 .. n - 1 : from(i) \in 1 .. n /\ new[i] = rs[from(i)]
  BY <1>2
<1>4. \A j \in 1 .. n : j # p => to(j) \in 1 .. n - 1 /\ from(to(j)) = j
  BY <1>2
<1>5. \A i, j \in 1 .. n - 1 : i > j => from(i) > from(j)
  BY <1>2
<1> HIDE DEF from, to
<1>6. ASSUME NEW c, c # rs[p].cell, Rowed(rs, c) PROVE Rowed(new, c)
  <2>1. PICK j \in 1 .. n : rs[j].cell = c
    BY <1>2, <1>6 DEF Rowed
  <2>2. to(j) \in 1 .. n - 1 /\ new[to(j)].cell = c
    BY <1>3, <1>4, <1>6, <2>1
  <2> QED
    BY <1>2, <2>2 DEF Rowed
<1>7. ASSUME NEW c, NEW how, c # rs[p].cell, Says(rs, c, how) PROVE Says(new, c, how)
  <2>1. PICK j \in 1 .. n :
            rs[j].cell = c /\ rs[j].status = how /\ \A k \in 1 .. n : k > j => rs[k].cell # c
    BY <1>2, <1>7 DEF Says
  <2>2. to(j) \in 1 .. n - 1 /\ from(to(j)) = j
    BY <1>4, <1>7, <2>1
  <2>3. new[to(j)].cell = c /\ new[to(j)].status = how
    BY <1>3, <2>1, <2>2
  <2>4. ASSUME NEW i \in 1 .. n - 1, i > to(j) PROVE new[i].cell # c
    <3>1. from(i) \in 1 .. n /\ from(i) > j
      BY <1>3, <1>5, <2>2, <2>4
    <3> QED
      BY <1>3, <2>1, <3>1
  <2> QED
    BY <1>2, <2>2, <2>3, <2>4 DEF Says
<1> QED
  BY <1>2, <1>3, <1>6, <1>7

----------------------------------------------------------------------------
\* The rows of a report.

LEMMA LeastOf ==
    ASSUME NEW S \in SUBSET Nat, S # {}
    PROVE  Min(S) \in S /\ \A n \in S : Min(S) <= n
<1> DEFINE Less == OpToRel(<, Nat)
<1>1. IsWellFoundedOn(Less, Nat)
  BY NatLessThanWellFounded
<1>2. \A i, j \in Nat : i < j => <<i, j>> \in Less
  BY DEF OpToRel
<1> HIDE DEF Less
<1>3. PICK m \in S : \A n \in S : <<n, m>> \notin Less
  BY <1>1, WFMin
<1>4. \A n \in S : m <= n
  <2> SUFFICES ASSUME NEW n \in S PROVE m <= n
    OBVIOUS
  <2>1. m \in Nat /\ n \in Nat /\ ~(n < m)
    BY <1>2, <1>3
  <2> QED
    BY <2>1
<1> QED
  BY <1>4 DEF Min

LEMMA GreatestOf ==
    ASSUME NEW n \in Nat, NEW S \in SUBSET (1 .. n), S # {}
    PROVE  Max(S) \in S /\ \A i \in S : i <= Max(S)
<1> DEFINE T == {n - i : i \in S}
<1>1. T \in SUBSET Nat /\ T # {}
  <2>1. \A i \in S : i \in 1 .. n /\ n - i \in Nat
    OBVIOUS
  <2> QED
    BY <2>1
<1>2. Min(T) \in T /\ \A k \in T : Min(T) <= k
  <2> HIDE DEF T
  <2> QED
    BY <1>1, LeastOf
<1>3. PICK m \in S : Min(T) = n - m
  BY <1>2
<1>4. \A i \in S : n - m <= n - i
  BY <1>2, <1>3
<1>5. \A i \in S : m >= i
  <2> SUFFICES ASSUME NEW i \in S PROVE m >= i
    OBVIOUS
  <2>1. n - m <= n - i /\ m \in 1 .. n /\ i \in 1 .. n
    BY <1>4
  <2> QED
    BY <2>1
<1>6. Max(S) \in S /\ \A i \in S : Max(S) >= i
  BY <1>5 DEF Max
<1> QED
  BY <1>6

Below(S, i) == {j \in S : j < i}

LEMMA NumbersDiffer ==
    ASSUME NEW S \in SUBSET Nat, IsFiniteSet(S)
    PROVE  /\ \A i \in S : Cardinality(Below(S, i)) \in 0 .. Cardinality(S) - 1
           /\ \A i, j \in S : i # j => Cardinality(Below(S, i)) # Cardinality(Below(S, j))
<1>1. \A i \in S : IsFiniteSet(Below(S, i)) /\ Cardinality(Below(S, i)) \in Nat
  BY FS_Subset, FS_CardinalityType DEF Below
<1>2. ASSUME NEW i \in S PROVE Cardinality(Below(S, i)) \in 0 .. Cardinality(S) - 1
  <2>1. Below(S, i) \in SUBSET S /\ Below(S, i) # S
    BY DEF Below
  <2>2. Cardinality(Below(S, i)) <= Cardinality(S) /\ Cardinality(Below(S, i)) # Cardinality(S)
    BY <2>1, FS_Subset
  <2>3. Cardinality(S) \in Nat
    BY FS_CardinalityType
  <2> QED
    BY <1>1, <2>2, <2>3
<1>3. ASSUME NEW i \in S, NEW j \in S, i < j
      PROVE  Cardinality(Below(S, i)) # Cardinality(Below(S, j))
  <2>1. Below(S, i) \in SUBSET Below(S, j) /\ i \in Below(S, j) /\ i \notin Below(S, i)
    <3>1. \A k \in S : k \in Nat
      OBVIOUS
    <3>2. \A k \in S : k < i => k < j
      BY <1>3, <3>1
    <3>3. ~(i < i)
      BY <3>1
    <3> QED
      BY <1>3, <3>2, <3>3 DEF Below
  <2> QED
    BY <1>1, <2>1, FS_Subset
<1>4. \A i, j \in S : i # j => i < j \/ j < i
  OBVIOUS
<1> QED
  BY <1>2, <1>3, <1>4

LEMMA NumbersTaken ==
    ASSUME NEW S \in SUBSET Nat, IsFiniteSet(S), NEW v \in 0 .. Cardinality(S) - 1
    PROVE  \E i \in S : Cardinality(Below(S, i)) = v
<1> SUFFICES ASSUME \A i \in S : Cardinality(Below(S, i)) # v PROVE FALSE
  OBVIOUS
<1>1. PICK n \in Nat : n = Cardinality(S)
  BY FS_CardinalityType
<1> DEFINE All == 0 .. n - 1
           Others == All \ {v}
           number == [i \in S |-> Cardinality(Below(S, i))]
<1>2. IsFiniteSet(All) /\ Cardinality(All) = n
  <2> DEFINE top == n - 1
  <2>1. n >= 1
    BY <1>1
  <2>2. 0 \in Int /\ top \in Int /\ ~(0 > top) /\ top - 0 + 1 = n
    BY <2>1
  <2> HIDE DEF top
  <2>3. IsFiniteSet(0 .. top) /\ Cardinality(0 .. top) = n
    BY <2>2, FS_Interval
  <2> QED
    BY <2>3 DEF top
<1>3. IsFiniteSet(Others) /\ Cardinality(Others) = n - 1
  <2>1. v \in All
    BY <1>1
  <2> HIDE DEF All
  <2> QED
    BY <1>2, <2>1, FS_RemoveElement
<1>4. number \in [S -> Others]
  BY <1>1, NumbersDiffer
<1>5. \E i, j \in S : i # j /\ number[i] = number[j]
  <2>1. Cardinality(Others) < Cardinality(S)
    BY <1>1, <1>3
  <2> HIDE DEF Others, number
  <2> QED
    BY <1>3, <1>4, <2>1, FS_PigeonHole
<1> QED
  BY <1>5, NumbersDiffer

\* Nth counts a finite set of numbers.
LEMMA NthIs ==
    ASSUME NEW S \in SUBSET Nat, IsFiniteSet(S), NEW n \in Nat, n = Cardinality(S)
    PROVE  /\ \A k \in 1 .. n : Nth(S, k) \in S
           /\ \A k, l \in 1 .. n : Nth(S, k) = Nth(S, l) => k = l
           /\ \A i \in S : \E k \in 1 .. n : Nth(S, k) = i
<1>1. ASSUME NEW k \in 1 .. n
      PROVE  Nth(S, k) \in S /\ Cardinality(Below(S, Nth(S, k))) = k - 1
  <2>1. k - 1 \in 0 .. Cardinality(S) - 1
    OBVIOUS
  <2>2. \E i \in S : Cardinality(Below(S, i)) = k - 1
    BY <2>1, NumbersTaken
  <2> QED
    BY <2>2 DEF Nth, Below
<1>2. ASSUME NEW k \in 1 .. n, NEW l \in 1 .. n, Nth(S, k) = Nth(S, l) PROVE k = l
  <2>1. k - 1 = l - 1
    BY <1>1, <1>2
  <2> QED
    BY <2>1
<1>3. ASSUME NEW i \in S PROVE \E k \in 1 .. n : Nth(S, k) = i
  <2> DEFINE p == Cardinality(Below(S, i))
  <2>1. p \in 0 .. n - 1
    BY NumbersDiffer
  <2>2. p + 1 \in 1 .. n /\ (p + 1) - 1 = p
    <3> HIDE DEF p
    <3> QED
      BY <2>1
  <2>3. Nth(S, p + 1) \in S /\ Cardinality(Below(S, Nth(S, p + 1))) = p
    BY <1>1, <2>2
  <2>4. Nth(S, p + 1) = i
    <3>1. \A j \in S : i # j => Cardinality(Below(S, i)) # Cardinality(Below(S, j))
      BY NumbersDiffer
    <3> QED
      BY <2>3, <3>1
  <2> QED
    BY <2>2, <2>4
<1> QED
  BY <1>1, <1>2, <1>3

LEMMA RowsAre ==
    ASSUME NEW rs \in Seq(RowSpace), NEW c, Rowed(rs, c)
    PROVE  /\ Min(RowsOf(rs, c)) \in RowsOf(rs, c)
           /\ Max(RowsOf(rs, c)) \in RowsOf(rs, c)
           /\ \A i \in RowsOf(rs, c) : i <= Max(RowsOf(rs, c))
<1>1. PICK n \in Nat : n = Len(rs)
  OBVIOUS
<1>2. RowsOf(rs, c) \in SUBSET (1 .. n) /\ RowsOf(rs, c) # {}
  BY <1>1 DEF RowsOf, Rowed
<1>3. RowsOf(rs, c) \in SUBSET Nat
  BY <1>2
<1> QED
  BY <1>2, <1>3, LeastOf, GreatestOf

\* A report has one row of each cell that has any, which says what the last did.
LEMMA CanonicalIs ==
    ASSUME NEW rs \in Seq(RowSpace), NEW new, new = Canonical(rs)
    PROVE  /\ new \in Seq(RowSpace)
           /\ \A i \in DOMAIN new : \E j \in DOMAIN rs : new[i] = rs[j]
           /\ \A i, j \in DOMAIN new : new[i].cell = new[j].cell => i = j
           /\ \A c : Rowed(rs, c) => Rowed(new, c)
           /\ \A c, how : Says(rs, c, how) => Says(new, c, how)
<1>1. PICK m \in Nat : m = Len(rs) /\ DOMAIN rs = 1 .. m
  OBVIOUS
<1> DEFINE F == Firsts(rs)
           cell(k) == rs[Nth(F, k)].cell
           end(k) == Max(RowsOf(rs, cell(k)))
<1>2. F \in SUBSET (1 .. m) /\ F \in SUBSET Nat /\ IsFiniteSet(F)
  <2>1. F \in SUBSET (1 .. m)
    BY <1>1 DEF Firsts
  <2>2. IsFiniteSet(1 .. m)
    BY FS_Interval
  <2> HIDE DEF F
  <2>3. F \in SUBSET Nat
    BY <2>1
  <2> QED
    BY <2>1, <2>2, <2>3, FS_Subset
<1>3. PICK n \in Nat : n = Cardinality(F)
  BY <1>2, FS_CardinalityType
<1>4. new = [k \in 1 .. n |-> rs[end(k)]]
  BY <1>3 DEF Canonical
<1>5. \A i \in F : i = Min(RowsOf(rs, rs[i].cell)) /\ i \in DOMAIN rs
  BY DEF Firsts
<1>6. \A i \in DOMAIN rs : i = Min(RowsOf(rs, rs[i].cell)) => i \in F
  BY DEF Firsts
<1> HIDE DEF F
<1>7. /\ \A k \in 1 .. n : Nth(F, k) \in F
      /\ \A k, l \in 1 .. n : Nth(F, k) = Nth(F, l) => k = l
      /\ \A i \in F : \E k \in 1 .. n : Nth(F, k) = i
  BY <1>2, <1>3, NthIs
<1>8. ASSUME NEW k \in 1 .. n
      PROVE  end(k) \in DOMAIN rs /\ rs[end(k)].cell = cell(k) /\ Nth(F, k) = Min(RowsOf(rs, cell(k)))
  <2>1. Nth(F, k) \in DOMAIN rs /\ Nth(F, k) = Min(RowsOf(rs, cell(k)))
    BY <1>5, <1>7
  <2>2. Rowed(rs, cell(k))
    BY <2>1 DEF Rowed
  <2> HIDE DEF cell
  <2>3. end(k) \in RowsOf(rs, cell(k))
    BY <2>2, RowsAre
  <2> QED
    BY <2>1, <2>3 DEF RowsOf, cell
<1>9. new \in Seq(RowSpace) /\ DOMAIN new = 1 .. n /\ \A k \in 1 .. n : new[k] = rs[end(k)]
  <2>1. \A k \in 1 .. n : rs[end(k)] \in RowSpace
    BY <1>1, <1>8
  <2> HIDE DEF end
  <2> QED
    BY <1>4, <2>1
<1>10. ASSUME NEW k \in 1 .. n, NEW l \in 1 .. n, new[k].cell = new[l].cell PROVE k = l
  <2>1. cell(k) = cell(l)
    BY <1>8, <1>9, <1>10
  <2>2. Nth(F, k) = Nth(F, l)
    <3> HIDE DEF cell
    <3> QED
      BY <1>8, <2>1
  <2> QED
    BY <1>7, <2>2
<1>11. ASSUME NEW c, Rowed(rs, c)
       PROVE  \E k \in 1 .. n : new[k].cell = c /\ new[k] = rs[Max(RowsOf(rs, c))]
  <2> DEFINE i == Min(RowsOf(rs, c))
  <2>1. i \in RowsOf(rs, c)
    BY <1>11, RowsAre
  <2>2. i \in DOMAIN rs /\ rs[i].cell = c /\ i = Min(RowsOf(rs, rs[i].cell))
    BY <2>1 DEF RowsOf
  <2> HIDE DEF i
  <2>3. PICK k \in 1 .. n : Nth(F, k) = i
    BY <1>6, <1>7, <2>2
  <2>4. cell(k) = c
    BY <2>2, <2>3
  <2> QED
    BY <1>8, <1>9, <2>4
<1>12. \A c : Rowed(rs, c) => Rowed(new, c)
  BY <1>9, <1>11 DEF Rowed
<1>13. ASSUME NEW c, NEW how, Says(rs, c, how) PROVE Says(new, c, how)
  <2>1. PICK i \in 1 .. m :
            rs[i].cell = c /\ rs[i].status = how /\ \A j \in 1 .. m : j > i => rs[j].cell # c
    BY <1>1, <1>13 DEF Says
  <2>2. Rowed(rs, c) /\ i \in RowsOf(rs, c)
    BY <1>1, <2>1 DEF Rowed, RowsOf
  <2> DEFINE top == Max(RowsOf(rs, c))
  <2>3. top \in RowsOf(rs, c) /\ i <= top
    BY <2>2, RowsAre
  <2>4. top \in 1 .. m /\ rs[top].cell = c
    BY <1>1, <2>3 DEF RowsOf
  <2>5. top = i
    <3> HIDE DEF top
    <3> QED
      BY <2>1, <2>3, <2>4
  <2>6. PICK k \in 1 .. n : new[k].cell = c /\ new[k] = rs[i]
    BY <1>11, <2>2, <2>5
  <2>7. \A l \in 1 .. n : l > k => new[l].cell # c
    BY <1>10, <2>6
  <2> QED
    BY <1>9, <2>1, <2>6, <2>7 DEF Says
<1>14. \A i \in DOMAIN new : \E j \in DOMAIN rs : new[i] = rs[j]
  BY <1>8, <1>9
<1>15. \A i, j \in DOMAIN new : new[i].cell = new[j].cell => i = j
  BY <1>9, <1>10
<1> QED
  BY <1>9, <1>12, <1>13, <1>14, <1>15

----------------------------------------------------------------------------
\* What a process writes.

LEMMA RowsInIs ==
    ASSUME NEW rs \in Seq(RowSpace), NEW r
    PROVE  r \in RowsIn(rs) <=> \E i \in DOMAIN rs : r = rs[i]
BY CellsAre DEF RowsIn

\* A row goes to the end of the file and of the memory.
LEMMA RecordedIs ==
    ASSUME BenchInv, Ready, Cell \in Cells, NEW how \in {"success", "failed"},
           Recorded(records, how)
    PROVE  /\ records' \in Seq(RowSpace) /\ partial' \in Seq(RowSpace)
           /\ last' \in [Cells -> {None, "success", "failed"}]
           /\ \A c : Rowed(records, c) => Rowed(records', c)
           /\ Rowed(records', Cell) /\ Says(records', Cell, how)
           /\ \A c, h : c # Cell /\ Says(records, c, h) => Says(records', c, h)
           /\ \A c \in Cells : c # Cell => last'[c] = last[c]
           /\ \A c \in Cells : last'[c] # None => Says(records', c, last'[c])
           /\ results' = results /\ state' = state /\ OneConfiguration'
<1> DEFINE row == Row(how)
           old == IF partial = None THEN << >> ELSE partial
<1>1. config \in Configs /\ state = config /\ records \in Seq(RowSpace)
      /\ partial \in {None} \cup Seq(RowSpace) /\ OneConfiguration
      /\ last \in [Cells -> {None, "success", "failed"}]
      /\ \A c \in Cells : last[c] # None => Says(records, c, last[c])
      /\ results \in Files
  BY DEF BenchInv, BenchTyped, Signed, Latest, Ready, Looping, Ending
<1>2. row \in RowSpace /\ row.cell = Cell /\ row.status = how /\ row.config = config
  BY <1>1 DEF Row, RowSpace
<1>3. /\ records' = Append(records, row) /\ last' = [last EXCEPT ![Cell] = how]
      /\ results' = results /\ state' = state
  BY DEF Recorded
<1>4. partial' = Append(old, row) /\ old \in Seq(RowSpace)
  <2>1. CASE partial = None
    <3>1. partial' = <<row>> /\ Append(<< >>, row) = <<row>> /\ << >> \in Seq(RowSpace)
      BY <1>2, <2>1 DEF Recorded, Append2
    <3> QED
      BY <2>1, <3>1
  <2>2. CASE partial # None
    BY <1>1, <2>2 DEF Recorded, Append2
  <2> QED
    BY <2>1, <2>2
<1> HIDE DEF row, old
<1>5. /\ records' \in Seq(RowSpace)
      /\ \A i \in DOMAIN records' : records'[i] = row \/ \E j \in DOMAIN records : records'[i] = records[j]
      /\ \A c : Rowed(records, c) => Rowed(records', c)
      /\ Rowed(records', Cell) /\ Says(records', Cell, how)
      /\ \A c, h : c # Cell /\ Says(records, c, h) => Says(records', c, h)
  <2> DEFINE new == records'
  <2>1. new = Append(records, row)
    BY <1>3
  <2> HIDE DEF new
  <2>2. /\ new \in Seq(RowSpace)
        /\ \A i \in DOMAIN new : new[i] = row \/ \E j \in DOMAIN records : new[i] = records[j]
    BY <1>1, <1>2, <2>1, AppendIs
  <2>3. \A c : Rowed(records, c) => Rowed(new, c)
    BY <1>1, <1>2, <2>1, AppendIs
  <2>4. Rowed(new, row.cell) /\ Says(new, row.cell, row.status)
    BY <1>1, <1>2, <2>1, AppendIs
  <2>5. Rowed(new, Cell) /\ Says(new, Cell, how)
    BY <1>2, <2>4
  <2>6. \A c, h : c # row.cell /\ Says(records, c, h) => Says(new, c, h)
    BY <1>1, <1>2, <2>1, AppendIs
  <2>7. \A c, h : c # Cell /\ Says(records, c, h) => Says(new, c, h)
    BY <1>2, <2>6
  <2> QED
    BY <2>2, <2>3, <2>5, <2>7 DEF new
<1>6. /\ partial' \in Seq(RowSpace)
      /\ \A i \in DOMAIN partial' : partial'[i] = row \/ \E j \in DOMAIN old : partial'[i] = old[j]
  BY <1>2, <1>4, AppendIs
<1>7. /\ last' \in [Cells -> {None, "success", "failed"}]
      /\ last'[Cell] = how /\ \A c \in Cells : c # Cell => last'[c] = last[c]
  BY <1>1, <1>3
<1>8. \A c \in Cells : last'[c] # None => Says(records', c, last'[c])
  BY <1>1, <1>5, <1>7
<1>9. ASSUME NEW r \in RowsIn(partial') \cup RowsIn(results') \cup RowsIn(records')
      PROVE  r = row \/ r \in RowsIn(partial) \cup RowsIn(results) \cup RowsIn(records)
  <2>1. CASE r \in RowsIn(results')
    BY <1>3, <2>1
  <2>2. CASE r \in RowsIn(records')
    BY <1>1, <1>5, <2>2, RowsInIs
  <2>3. CASE r \in RowsIn(partial')
    <3>1. PICK i \in DOMAIN partial' : r = partial'[i]
      BY <1>6, <2>3, RowsInIs
    <3>2. CASE partial = None
      BY <1>6, <3>1, <3>2 DEF old
    <3>3. CASE partial # None
      BY <1>1, <1>6, <3>1, <3>3, RowsInIs DEF old
    <3> QED
      BY <3>2, <3>3
  <2> QED
    BY <2>1, <2>2, <2>3
<1>10. OneConfiguration'
  <2> SUFFICES ASSUME NEW r \in RowsIn(partial') \cup RowsIn(results') \cup RowsIn(records')
               PROVE  state' \in {r.config, Torn}
    BY DEF OneConfiguration, RowsIn
  <2> QED
    BY <1>1, <1>2, <1>3, <1>9 DEF OneConfiguration
<1> QED
  BY <1>3, <1>5, <1>6, <1>7, <1>8, <1>10

----------------------------------------------------------------------------
\* The steps.

LEMMA FewerRows ==
    ASSUME OneConfiguration, state' \in {state, Torn},
           RowsIn(partial') \cup RowsIn(results') \cup RowsIn(records')
               \subseteq RowsIn(partial) \cup RowsIn(results) \cup RowsIn(records)
    PROVE  OneConfiguration'
<1> SUFFICES ASSUME NEW r \in RowsIn(partial') \cup RowsIn(results') \cup RowsIn(records')
             PROVE  state' \in {r.config, Torn}
  BY DEF OneConfiguration, RowsIn
<1> QED
  BY DEF OneConfiguration

LEMMA SameRows ==
    ASSUME OneConfiguration, UNCHANGED <<partial, results, records>>, state' \in {state, Torn}
    PROVE  OneConfiguration'
BY FewerRows

\* Without a row in memory and in the files there is nothing to mix.
LEMMA NoRows ==
    ASSUME partial' \in {None, << >>}, results' = None, records' = << >>
    PROVE  OneConfiguration'
BY DEF OneConfiguration, RowsIn

LEMMA ExplainedStays ==
    ASSUME BenchInv, Ready, Cell \in Cells, NEW how \in {"success", "failed"},
           Recorded(records, how)
    PROVE  /\ \A m \in 1 .. Methods : m # method /\ Explained(records, m) => Explained(records', m)
           /\ how = "failed" => Explained(records', method)
<1>1. /\ \A c : Rowed(records, c) => Rowed(records', c)
      /\ Says(records', Cell, how)
      /\ \A c, h : c # Cell /\ Says(records, c, h) => Says(records', c, h)
  BY RecordedIs
<1>2. method \in 1 .. Methods /\ sample \in 1 .. Samples
  BY CellsAre DEF Cell, Cells
<1>3. \A m, s : m # method => <<m, s>> # Cell
  BY DEF Cell
<1> QED
  BY <1>1, <1>2, <1>3 DEF Explained, Cell

LEMMA InitIs == Init => BenchInv
<1> SUFFICES ASSUME Init PROVE BenchInv
  OBVIOUS
<1>1. BenchTyped
  BY CellsAre DEF Init, BenchTyped, Files, Looping, Ending
<1>2. Signed
  BY DEF Init, Signed, Ready, Looping, Ending, OneConfiguration, RowsIn
<1>3. Latest
  BY DEF Init, Latest, Ahead
<1>4. Covered /\ Reported
  BY DEF Init, Covered, Reported, Looping, Ending
<1> QED
  BY <1>1, <1>2, <1>3, <1>4 DEF BenchInv

LEMMA BeginKeeps == ASSUME BenchInv, NEW c \in Configs, Begin(c) PROVE BenchInv'
<1>1. BenchTyped'
  BY CellsAre DEF BenchInv, BenchTyped, Begin, Start, Goto, fileVars, Files, Looping, Ending
<1>2. OneConfiguration'
  BY NoRows DEF Begin, Start, fileVars
<1>3. Signed'
  BY <1>2 DEF Begin, Start, Goto, fileVars, Signed, Ready, Looping, Ending
<1>4. Latest'
  <2>1. Ahead' \subseteq Cells
    BY DEF Ahead
  <2> QED
    BY <2>1 DEF Begin, Start, Latest
<1>5. Covered' /\ Reported'
  BY DEF Begin, Start, Goto, Covered, Reported, Looping, Ending
<1> QED
  BY <1>1, <1>3, <1>4, <1>5 DEF BenchInv

LEMMA ResumeKeeps == ASSUME BenchInv, NEW c \in Configs, Resume(c) PROVE BenchInv'
<1>1. records' = Saved /\ UNCHANGED <<partial, results, state>> /\ state = c /\ Saved # Torn
      /\ pc' = "load" /\ config' = c /\ method' = 1 /\ sample' = 1
      /\ last' = [x \in Cells |-> None]
  BY DEF Resume, Start, Goto, fileVars
<1>2. partial \in Files /\ results \in Files /\ OneConfiguration
  BY DEF BenchInv, BenchTyped, Signed
<1>3. /\ Saved \in Seq(RowSpace) /\ partial \in {None} \cup Seq(RowSpace)
      /\ Saved \in {<< >>, partial, results}
  <2>1. partial \in {None} \cup Seq(RowSpace) /\ (partial \in {None, << >>} => results # Torn)
    <3>1. partial # Torn
      BY <1>1, CellsAre DEF Saved
    <3> QED
      BY <1>1, <1>2, <3>1, CellsAre DEF Saved, Files
  <2>2. << >> \in Seq(RowSpace)
    OBVIOUS
  <2>3. CASE partial \in {None, << >>}
    BY <1>2, <2>1, <2>2, <2>3 DEF Saved, Files
  <2>4. CASE partial \notin {None, << >>}
    BY <2>1, <2>4 DEF Saved
  <2> QED
    BY <2>1, <2>3, <2>4
<1>4. BenchTyped'
  BY <1>1, <1>2, <1>3, CellsAre DEF BenchTyped, Files, Looping, Ending
<1>5. OneConfiguration'
  <2>1. RowsIn(records') \subseteq RowsIn(partial) \cup RowsIn(results)
    <3>1. RowsIn(<< >>) = {}
      BY DEF RowsIn
    <3> QED
      BY <1>1, <1>3, <3>1
  <2> QED
    BY <1>1, <1>2, <2>1, FewerRows
<1>6. Signed'
  BY <1>1, <1>5 DEF Signed
<1>7. Latest'
  <2>1. Ahead' \subseteq Cells
    BY DEF Ahead
  <2> QED
    BY <1>1, <2>1 DEF Latest
<1>8. Covered' /\ Reported'
  BY <1>1 DEF Covered, Reported, Ending
<1> QED
  BY <1>4, <1>6, <1>7, <1>8 DEF BenchInv

LEMMA CreateKeeps == ASSUME BenchInv, Create PROVE BenchInv'
<1>1. /\ pc = "create" /\ pc' = "sign" /\ partial' = << >>
      /\ UNCHANGED <<results, state, config, records, method, sample, last>>
      /\ results = None /\ records = << >>
  BY DEF Create, Goto, loopVars, BenchInv, Signed
<1>2. BenchTyped'
  BY <1>1, CellsAre DEF BenchInv, BenchTyped, Files, Looping, Ending
<1>3. Signed'
  BY <1>1, NoRows DEF Signed, Ready, Looping, Ending
<1>4. Latest' /\ Covered' /\ Reported'
  BY <1>1 DEF BenchInv, Latest, Ahead, Covered, Reported, Looping, Ending
<1> QED
  BY <1>2, <1>3, <1>4 DEF BenchInv

LEMMA SignKeeps == ASSUME BenchInv, Sign PROVE BenchInv'
<1>1. /\ pc = "sign" /\ pc' = "load" /\ state' = config
      /\ UNCHANGED <<partial, results, config, records, method, sample, last>>
      /\ partial \in {None, << >>} /\ results = None /\ records = << >>
      /\ method = 1 /\ sample = 1 /\ config \in Configs
  BY DEF Sign, Goto, loopVars, BenchInv, BenchTyped, Signed
<1>2. BenchTyped'
  BY <1>1, CellsAre DEF BenchInv, BenchTyped, Looping, Ending
<1>3. Signed'
  BY <1>1, NoRows DEF Signed
<1>4. Latest' /\ Covered' /\ Reported'
  BY <1>1 DEF BenchInv, Latest, Ahead, Covered, Reported, Ending
<1> QED
  BY <1>2, <1>3, <1>4 DEF BenchInv

LEMMA LoadKeeps == ASSUME BenchInv, Load PROVE BenchInv'
<1>1. /\ pc = "load" /\ pc' = IF method > Methods THEN "finalize" ELSE "sample"
      /\ UNCHANGED <<partial, results, state, config, records, method, sample, last, verdict>>
      /\ sample = 1 /\ method \in Nat \ {0} /\ BenchTyped
  BY DEF Load, Goto, fileVars, loopVars, BenchInv, BenchTyped
<1>2. BenchTyped'
  BY <1>1, CellsAre DEF BenchTyped, Looping, Ending
<1>3. Signed'
  BY <1>1, SameRows DEF BenchInv, Signed, Ready, Looping, Ending
<1>4. Latest'
  <2>1. Ahead' \subseteq Ahead
    BY <1>1 DEF Ahead
  <2> QED
    BY <1>1, <2>1 DEF BenchInv, Latest
<1>5. Covered'
  <2>1. \A m \in 1 .. Methods : m < method => Explained(records, m)
    BY <1>1 DEF BenchInv, Covered, Looping
  <2>2. CASE method > Methods
    <3>1. \A m \in 1 .. Methods : Explained(records, m)
      BY <1>1, <2>1, <2>2, CellsAre
    <3> QED
      BY <1>1, <2>2, <3>1 DEF Covered, Looping
  <2>3. CASE ~(method > Methods)
    <3>1. \A s \in 1 .. sample - 1 : Rowed(records, <<method, s>>)
      BY <1>1
    <3> QED
      BY <1>1, <2>1, <2>3 DEF Covered, Ending
  <2> QED
    BY <2>2, <2>3
<1>6. Reported'
  BY <1>1 DEF Reported
<1> QED
  BY <1>2, <1>3, <1>4, <1>5, <1>6 DEF BenchInv

LEMMA AfterRecordKeeps == ASSUME BenchInv, AfterRecord PROVE BenchInv'
<1>1. /\ pc = "recorded" /\ pc' = "sample" /\ sample' = sample + 1
      /\ UNCHANGED <<partial, results, state, config, records, method, last, verdict>>
      /\ method \in Nat \ {0} /\ sample \in Nat \ {0} /\ BenchTyped
  BY DEF AfterRecord, NextCell, Goto, fileVars, BenchInv, BenchTyped
<1>2. BenchTyped'
  BY <1>1, CellsAre DEF BenchTyped, Looping, Ending
<1>3. Signed'
  BY <1>1, SameRows DEF BenchInv, Signed, Ready, Looping, Ending
<1>4. Latest'
  <2>1. Ahead' \subseteq Ahead
    <3>1. \A c \in Cells : c[2] >= sample + 1 => c[2] > sample
      BY <1>1, CellsAre
    <3> QED
      BY <1>1, <3>1 DEF Ahead
  <2> QED
    BY <1>1, <2>1 DEF BenchInv, Latest
<1>5. Covered'
  <2>1. /\ \A m \in 1 .. Methods : m < method => Explained(records, m)
        /\ \A s \in 1 .. sample - 1 : Rowed(records, <<method, s>>)
        /\ Rowed(records, <<method, sample>>)
    BY <1>1 DEF BenchInv, Covered, Looping, Cell
  <2>2. \A s \in 1 .. sample' - 1 : Rowed(records, <<method, s>>)
    <3>1. \A s \in 1 .. sample' - 1 : s \in 1 .. sample - 1 \/ s = sample
      BY <1>1
    <3> QED
      BY <2>1, <3>1
  <2> QED
    BY <1>1, <2>1, <2>2 DEF Covered, Ending
<1>6. Reported'
  BY <1>1 DEF Reported
<1> QED
  BY <1>2, <1>3, <1>4, <1>5, <1>6 DEF BenchInv

LEMMA MethodFailsKeeps == ASSUME BenchInv, MethodFails PROVE BenchInv'
<1>1. /\ pc \in {"load", "measure", "close"} /\ pc' = "fail" /\ sample' = 1 /\ method <= Methods
      /\ UNCHANGED <<partial, results, state, config, records, method, last, verdict>>
      /\ method \in Nat \ {0} /\ sample \in Nat \ {0} /\ BenchTyped
  BY DEF MethodFails, Goto, fileVars, BenchInv, BenchTyped
<1>2. BenchTyped'
  BY <1>1, CellsAre DEF BenchTyped, Looping, Ending
<1>3. Signed'
  BY <1>1, SameRows DEF BenchInv, Signed, Ready, Looping, Ending
<1>4. Latest'
  <2>1. Ahead' \subseteq Ahead
    BY <1>1 DEF Ahead
  <2> QED
    BY <1>1, <2>1 DEF BenchInv, Latest
<1>5. Covered'
  <2>1. \A m \in 1 .. Methods : m < method => Explained(records, m)
    BY <1>1 DEF BenchInv, Covered, Looping
  <2>2. \A s \in 1 .. sample' - 1 : Rowed(records, <<method, s>>)
    BY <1>1
  <2> QED
    BY <1>1, <2>1, <2>2 DEF Covered, Ending
<1>6. Reported'
  BY <1>1 DEF Reported
<1> QED
  BY <1>2, <1>3, <1>4, <1>5, <1>6 DEF BenchInv

LEMMA CloseKeeps == ASSUME BenchInv, Close PROVE BenchInv'
<1>1. /\ pc \in {"close", "close_failed"} /\ pc' \in {"skip", "load"} /\ state' = config
      /\ method' = method + 1 /\ sample' = 1
      /\ UNCHANGED <<partial, results, config, records, last, verdict>>
      /\ method \in Nat \ {0} /\ sample \in Nat \ {0} /\ BenchTyped /\ state = config
  BY DEF Close, Goto, BenchInv, BenchTyped, Signed, Ready, Looping
<1>2. BenchTyped'
  BY <1>1, CellsAre DEF BenchTyped, Looping, Ending
<1>3. Signed'
  BY <1>1, SameRows DEF BenchInv, Signed
<1>4. Latest'
  <2>1. Ahead' \subseteq Ahead
    <3>1. \A c \in Cells : c[1] > method + 1 \/ c[1] = method + 1 => c[1] > method
      BY <1>1, CellsAre
    <3> QED
      BY <1>1, <3>1 DEF Ahead
  <2> QED
    BY <1>1, <2>1 DEF BenchInv, Latest
<1>5. Covered'
  <2>1. /\ \A m \in 1 .. Methods : m < method => Explained(records, m)
        /\ Explained(records, method)
    BY <1>1 DEF BenchInv, Covered, Looping
  <2>2. \A m \in 1 .. Methods : m < method' => Explained(records, m)
    <3>1. \A m \in 1 .. Methods : m < method' => m < method \/ m = method
      BY <1>1
    <3> QED
      BY <2>1, <3>1
  <2>3. \A s \in 1 .. sample' - 1 : Rowed(records, <<method', s>>)
    BY <1>1
  <2> QED
    BY <1>1, <2>2, <2>3 DEF Covered, Ending
<1>6. Reported'
  BY <1>1 DEF Reported
<1> QED
  BY <1>2, <1>3, <1>4, <1>5, <1>6 DEF BenchInv

LEMMA CellIsOne ==
    ASSUME BenchTyped, method <= Methods, sample <= Samples
    PROVE  Cell \in Cells /\ method \in 1 .. Methods /\ sample \in 1 .. Samples
BY CellsAre DEF BenchTyped, Cell

\* The loop goes past the cells that have a row.
LEMMA NextRowed ==
    ASSUME NEW rs, NEW m, NEW s \in Nat, NEW t, t = s + 1,
           \A k \in 1 .. s - 1 : Rowed(rs, <<m, k>>), Rowed(rs, <<m, s>>)
    PROVE  \A k \in 1 .. t - 1 : Rowed(rs, <<m, k>>)
<1>1. \A k \in 1 .. t - 1 : k \in 1 .. s - 1 \/ k = s
  OBVIOUS
<1> QED
  BY <1>1

LEMMA TakeCellKeeps == ASSUME BenchInv, TakeCell PROVE BenchInv'
<1>1. /\ pc = "sample" /\ BenchTyped /\ method \in Nat \ {0} /\ sample \in Nat \ {0}
      /\ UNCHANGED <<partial, results, state, config, method, last, verdict>>
      /\ records \in Seq(RowSpace) /\ method <= Methods /\ sample <= Samples + 1
      /\ OneConfiguration /\ state = config
  BY DEF TakeCell, fileVars, BenchInv, BenchTyped, Signed, Ready, Looping
<1>2. /\ \A c \in Ahead : last[c] = None
      /\ \A c \in Cells : last[c] # None => Says(records, c, last[c])
      /\ \A m \in 1 .. Methods : m < method => Explained(records, m)
      /\ \A s \in 1 .. sample - 1 : Rowed(records, <<method, s>>)
  BY <1>1 DEF BenchInv, Latest, Covered, Looping
<1>3. CASE sample > Samples
  <2>1. pc' = "close" /\ UNCHANGED <<records, sample>>
    BY <1>3 DEF TakeCell, Goto
  <2>2. BenchTyped'
    BY <1>1, <2>1, CellsAre DEF BenchTyped, Looping, Ending
  <2>3. Signed'
    BY <1>1, <2>1, SameRows DEF Signed, Ready, Looping, Ending
  <2>4. Latest'
    <3>1. Ahead' \subseteq Ahead
      BY <1>1, <2>1 DEF Ahead
    <3> QED
      BY <1>1, <1>2, <2>1, <3>1 DEF Latest
  <2>5. Explained(records, method)
    <3>1. \A s \in 1 .. Samples : s \in 1 .. sample - 1
      BY <1>1, <1>3, CellsAre
    <3> QED
      BY <1>2, <3>1 DEF Explained
  <2>6. Covered' /\ Reported'
    BY <1>1, <1>2, <2>1, <2>5 DEF Covered, Reported, Ending
  <2> QED
    BY <2>2, <2>3, <2>4, <2>6 DEF BenchInv
<1>4. CASE ~(sample > Samples)
  <2>1. Cell \in Cells /\ method \in 1 .. Methods /\ sample \in 1 .. Samples /\ sample <= Samples
    BY <1>1, <1>4, CellIsOne, CellsAre
  <2>2. Rowed(records, Cell) <=> Previous # None
    <3>1. RowsOf(records, Cell) = {} <=> ~Rowed(records, Cell)
      BY DEF RowsOf, Rowed
    <3>2. Rowed(records, Cell) => Min(RowsOf(records, Cell)) \in RowsOf(records, Cell)
      BY <1>1, RowsAre
    <3>3. \A i \in RowsOf(records, Cell) : i # None
      <4>1. \A i \in RowsOf(records, Cell) : i \in Nat
        BY <1>1 DEF RowsOf
      <4> QED
        BY <4>1, CellsAre
    <3> QED
      BY <3>1, <3>2, <3>3 DEF Previous
  <2>3. CASE Previous # None /\ records[Previous].status = "success"
    <3>1. sample' = sample + 1 /\ UNCHANGED <<pc, records>>
      BY <1>4, <2>3 DEF TakeCell
    <3>2. BenchTyped'
      BY <1>1, <2>1, <3>1, CellsAre DEF BenchTyped, Looping, Ending
    <3>3. Signed'
      BY <1>1, <3>1, SameRows DEF Signed, Ready, Looping, Ending
    <3>4. Latest'
      <4>1. Ahead' \subseteq Ahead
        <5>1. \A c \in Cells : c[2] >= sample + 1 => c[2] >= sample
          BY <1>1, CellsAre
        <5> QED
          BY <1>1, <3>1, <5>1 DEF Ahead
      <4> QED
        BY <1>1, <1>2, <3>1, <4>1 DEF Latest
    <3>5. \A s \in 1 .. sample' - 1 : Rowed(records, <<method, s>>)
      <4>1. Rowed(records, <<method, sample>>) /\ sample \in Nat
        BY <1>1, <2>2, <2>3 DEF Cell
      <4> DEFINE next == sample'
      <4>2. next = sample + 1
        BY <3>1
      <4> HIDE DEF next
      <4>3. \A s \in 1 .. next - 1 : Rowed(records, <<method, s>>)
        BY <1>2, <4>1, <4>2, NextRowed
      <4> QED
        BY <4>3 DEF next
    <3>6. Covered' /\ Reported'
      BY <1>1, <1>2, <3>1, <3>5 DEF Covered, Reported, Ending
    <3> QED
      BY <3>2, <3>3, <3>4, <3>6 DEF BenchInv
  <2>4. CASE ~(Previous # None /\ records[Previous].status = "success")
    <3>1. /\ pc' = "measure" /\ sample' = sample
          /\ records' = IF Previous = None THEN records ELSE RemoveAt(records, Previous)
      BY <1>4, <2>4 DEF TakeCell, Goto
    <3>2. /\ records' \in Seq(RowSpace)
          /\ \A i \in DOMAIN records' : \E j \in DOMAIN records : records'[i] = records[j]
          /\ \A c : c # Cell /\ Rowed(records, c) => Rowed(records', c)
          /\ \A c, how : c # Cell /\ Says(records, c, how) => Says(records', c, how)
      <4>1. CASE Previous = None
        BY <1>1, <3>1, <4>1
      <4>2. CASE Previous # None
        <5> DEFINE new == records'
        <5>1. Previous \in RowsOf(records, Cell)
          BY <1>1, <2>2, <4>2, RowsAre DEF Previous
        <5>2. Previous \in DOMAIN records /\ records[Previous].cell = Cell
          BY <5>1 DEF RowsOf
        <5>3. new = RemoveAt(records, Previous)
          BY <3>1, <4>2
        <5> HIDE DEF new
        <5>4. /\ new \in Seq(RowSpace)
              /\ \A i \in DOMAIN new : \E j \in DOMAIN records : new[i] = records[j]
          BY <1>1, <5>2, <5>3, RemoveIs
        <5>5. \A c : c # records[Previous].cell /\ Rowed(records, c) => Rowed(new, c)
          BY <1>1, <5>2, <5>3, RemoveIs
        <5>6. \A c, how : c # records[Previous].cell /\ Says(records, c, how) => Says(new, c, how)
          BY <1>1, <5>2, <5>3, RemoveIs
        <5> QED
          BY <5>2, <5>4, <5>5, <5>6 DEF new
      <4> QED
        BY <4>1, <4>2
    <3>3. BenchTyped'
      BY <1>1, <2>1, <3>1, <3>2, CellsAre DEF BenchTyped, Looping, Ending
    <3>4. Signed'
      <4>1. RowsIn(records') \subseteq RowsIn(records)
        BY <1>1, <3>2, RowsInIs
      <4>2. OneConfiguration'
        BY <1>1, <4>1, FewerRows
      <4> QED
        BY <1>1, <3>1, <4>2 DEF Signed, Ready, Looping, Ending
    <3>5. Latest'
      <4>1. Ahead' \subseteq Ahead
        <5>1. \A c \in Cells : c[2] > sample => c[2] >= sample
          BY <1>1, CellsAre
        <5> QED
          BY <1>1, <3>1, <5>1 DEF Ahead
      <4>2. last[Cell] = None
        <5>1. Cell[1] = method /\ Cell[2] = sample /\ sample >= sample
          BY <1>1 DEF Cell
        <5> QED
          BY <1>1, <1>2, <2>1, <5>1 DEF Ahead
      <4> QED
        BY <1>1, <1>2, <3>2, <4>1, <4>2 DEF Latest
    <3>6. \A m \in 1 .. Methods : m < method => Explained(records', m)
      <4>1. ASSUME NEW m \in 1 .. Methods, m < method PROVE Explained(records', m)
        <5>1. m # method
          BY <1>1, <4>1
        <5>2. \A s : <<m, s>> # Cell
          BY <5>1 DEF Cell
        <5> QED
          BY <1>2, <3>2, <4>1, <5>2 DEF Explained
      <4> QED
        BY <4>1
    <3>7. \A s \in 1 .. sample - 1 : Rowed(records', <<method, s>>)
      <4>1. \A s \in 1 .. sample - 1 : s # sample
        BY <1>1
      <4>2. \A s \in 1 .. sample - 1 : <<method, s>> # Cell
        BY <4>1 DEF Cell
      <4> QED
        BY <1>2, <3>2, <4>2
    <3>8. Covered' /\ Reported'
      BY <1>1, <3>1, <3>6, <3>7 DEF Covered, Reported, Ending
    <3> QED
      BY <3>3, <3>4, <3>5, <3>8 DEF BenchInv
  <2> QED
    BY <2>3, <2>4
<1> QED
  BY <1>3, <1>4

LEMMA MeasureKeeps == ASSUME BenchInv, Measure PROVE BenchInv'
<1>1. /\ pc = "measure" /\ BenchTyped /\ pc' = "recorded" /\ Ready
      /\ UNCHANGED <<config, method, sample, verdict>>
      /\ method \in Nat \ {0} /\ sample \in Nat \ {0} /\ method <= Methods /\ sample <= Samples
      /\ state = config
  BY DEF Measure, Goto, loopVars, BenchInv, BenchTyped, Signed, Ready, Looping
<1>2. PICK how \in {"success", "failed"} : Recorded(records, how)
  BY DEF Measure
<1>3. Cell \in Cells /\ method \in 1 .. Methods /\ sample \in 1 .. Samples
  BY <1>1, CellIsOne
<1>4. /\ records' \in Seq(RowSpace) /\ partial' \in Seq(RowSpace)
      /\ last' \in [Cells -> {None, "success", "failed"}]
      /\ \A c : Rowed(records, c) => Rowed(records', c)
      /\ Rowed(records', Cell)
      /\ \A c \in Cells : c # Cell => last'[c] = last[c]
      /\ \A c \in Cells : last'[c] # None => Says(records', c, last'[c])
      /\ results' = results /\ state' = state /\ OneConfiguration'
      /\ \A m \in 1 .. Methods : m # method /\ Explained(records, m) => Explained(records', m)
  BY <1>1, <1>2, <1>3, RecordedIs, ExplainedStays
<1>5. BenchTyped'
  BY <1>1, <1>4, CellsAre DEF BenchTyped, Files, Looping, Ending
<1>6. Signed'
  BY <1>1, <1>4 DEF Signed, Ready, Looping, Ending
<1>7. Latest'
  <2>1. Ahead' = Ahead /\ Ahead \subseteq Cells
    BY <1>1 DEF Ahead
  <2>2. Cell \notin Ahead
    <3>1. Cell[1] = method /\ Cell[2] = sample /\ ~(sample > sample) /\ ~(method > method)
      BY <1>1 DEF Cell
    <3> QED
      BY <1>1, <3>1 DEF Ahead
  <2> QED
    BY <1>4, <2>1, <2>2 DEF BenchInv, Latest
<1>8. Covered'
  <2>1. /\ \A m \in 1 .. Methods : m < method => Explained(records, m)
        /\ \A s \in 1 .. sample - 1 : Rowed(records, <<method, s>>)
    BY <1>1 DEF BenchInv, Covered, Looping
  <2>2. \A m \in 1 .. Methods : m < method => m # method
    BY <1>1
  <2>3. Cell' = Cell
    BY <1>1 DEF Cell
  <2> QED
    BY <1>1, <1>4, <2>1, <2>2, <2>3 DEF Covered, Ending
<1>9. Reported'
  BY <1>1 DEF Reported
<1> QED
  BY <1>5, <1>6, <1>7, <1>8, <1>9 DEF BenchInv

\* A failure is recorded, and the loop goes on in some way.
LEMMA FailureRecorded ==
    ASSUME BenchInv, Ready, method <= Methods, sample <= Samples, Recorded(records, "failed"),
           pc \in {"measure", "recorded", "fail", "skip"},
           config' = config
    PROVE  /\ records' \in Seq(RowSpace) /\ partial' \in Seq(RowSpace)
           /\ last' \in [Cells -> {None, "success", "failed"}]
           /\ \A s : Rowed(records, <<method, s>>) => Rowed(records', <<method, s>>)
           /\ Rowed(records', <<method, sample>>)
           /\ \A c \in Ahead : last'[c] = None
           /\ \A c \in Cells : last'[c] # None => Says(records', c, last'[c])
           /\ results' = results /\ state' = state /\ state' = config' /\ OneConfiguration'
           /\ \A m \in 1 .. Methods : m < method => Explained(records', m)
           /\ Explained(records', method)
<1>1. /\ method \in Nat \ {0} /\ sample \in Nat \ {0} /\ BenchTyped /\ state = config
      /\ \A m \in 1 .. Methods : m < method => Explained(records, m)
      /\ \A c \in Ahead : last[c] = None
  BY DEF BenchInv, BenchTyped, Signed, Covered, Latest, Looping
<1>2. Cell \in Cells
  BY <1>1, CellIsOne
<1>3. /\ records' \in Seq(RowSpace) /\ partial' \in Seq(RowSpace)
      /\ last' \in [Cells -> {None, "success", "failed"}]
      /\ \A c : Rowed(records, c) => Rowed(records', c)
      /\ Rowed(records', Cell)
      /\ \A c \in Cells : c # Cell => last'[c] = last[c]
      /\ \A c \in Cells : last'[c] # None => Says(records', c, last'[c])
      /\ results' = results /\ state' = state /\ OneConfiguration'
      /\ \A m \in 1 .. Methods : m # method /\ Explained(records, m) => Explained(records', m)
      /\ Explained(records', method)
  BY <1>2, RecordedIs, ExplainedStays
<1>4. \A c \in Ahead : last'[c] = None
  <2>1. Ahead \subseteq Cells
    BY DEF Ahead
  <2>2. Cell \notin Ahead
    <3>1. Cell[1] = method /\ Cell[2] = sample /\ ~(sample > sample) /\ ~(method > method)
      BY <1>1 DEF Cell
    <3> QED
      BY <3>1 DEF Ahead
  <2> QED
    BY <1>1, <1>3, <2>1, <2>2
<1>5. \A m \in 1 .. Methods : m < method => m # method
  BY <1>1
<1> QED
  BY <1>1, <1>3, <1>4, <1>5 DEF Cell

LEMMA AttemptFailsKeeps == ASSUME BenchInv, AttemptFails PROVE BenchInv'
<1>1. /\ pc \in {"measure", "recorded"} /\ BenchTyped /\ Ready
      /\ UNCHANGED <<config, method, verdict>>
      /\ method \in Nat \ {0} /\ sample \in Nat \ {0} /\ method <= Methods /\ sample <= Samples
      /\ state = config
  BY DEF AttemptFails, BenchInv, BenchTyped, Signed, Ready, Looping
<1>2. /\ \A m \in 1 .. Methods : m < method => Explained(records, m)
      /\ \A s \in 1 .. sample - 1 : Rowed(records, <<method, s>>)
  BY <1>1 DEF BenchInv, Covered, Looping
<1>3. CASE attempt < SampleRetries
  <2>1. pc' = "measure" /\ UNCHANGED <<partial, results, state, records, sample, last>>
    BY <1>3 DEF AttemptFails, Goto, fileVars
  <2>2. BenchTyped'
    BY <1>1, <2>1, CellsAre DEF BenchTyped, Looping, Ending
  <2>3. Signed'
    BY <1>1, <2>1, SameRows DEF BenchInv, Signed, Ready, Looping, Ending
  <2>4. Latest'
    <3>1. Ahead' \subseteq Ahead
      BY <1>1, <2>1 DEF Ahead
    <3> QED
      BY <2>1, <3>1 DEF BenchInv, Latest
  <2>5. Covered' /\ Reported'
    BY <1>1, <1>2, <2>1 DEF Covered, Reported, Ending
  <2> QED
    BY <2>2, <2>3, <2>4, <2>5 DEF BenchInv
<1>4. CASE ~(attempt < SampleRetries)
  <2>1. Recorded(records, "failed") /\ pc' = "sample" /\ sample' = sample + 1
    BY <1>4 DEF AttemptFails, NextCell, Goto
  <2>2. /\ records' \in Seq(RowSpace) /\ partial' \in Seq(RowSpace)
        /\ last' \in [Cells -> {None, "success", "failed"}]
        /\ \A s : Rowed(records, <<method, s>>) => Rowed(records', <<method, s>>)
        /\ Rowed(records', <<method, sample>>)
        /\ \A c \in Ahead : last'[c] = None
        /\ \A c \in Cells : last'[c] # None => Says(records', c, last'[c])
        /\ results' = results /\ state' = state /\ OneConfiguration'
        /\ \A m \in 1 .. Methods : m < method => Explained(records', m)
    BY <1>1, <2>1, FailureRecorded
  <2>3. BenchTyped'
    BY <1>1, <2>1, <2>2, CellsAre DEF BenchTyped, Files, Looping, Ending
  <2>4. Signed'
    BY <1>1, <2>1, <2>2 DEF Signed, Ready, Looping, Ending
  <2>5. Latest'
    <3>1. Ahead' \subseteq Ahead
      <4>1. \A c \in Cells : c[2] >= sample + 1 => c[2] > sample
        BY <1>1, CellsAre
      <4> QED
        BY <1>1, <2>1, <4>1 DEF Ahead
    <3> QED
      BY <2>2, <3>1 DEF Latest
  <2>6. Covered' /\ Reported'
    <3> DEFINE new == records'
               next == sample'
    <3>1. next = sample + 1
      BY <2>1
    <3>2. \A s \in 1 .. sample - 1 : Rowed(new, <<method, s>>)
      BY <1>2, <2>2
    <3>3. Rowed(new, <<method, sample>>)
      BY <2>2
    <3> HIDE DEF new, next
    <3>4. \A s \in 1 .. next - 1 : Rowed(new, <<method, s>>)
      BY <1>1, <3>1, <3>2, <3>3, NextRowed
    <3> USE DEF new, next
    <3> QED
      BY <1>1, <2>1, <2>2, <3>4 DEF Covered, Reported, Ending
  <2> QED
    BY <2>3, <2>4, <2>5, <2>6 DEF BenchInv
<1> QED
  BY <1>3, <1>4

LEMMA ContextLostKeeps == ASSUME BenchInv, ContextLost PROVE BenchInv'
<1>1. /\ pc \in {"measure", "recorded"} /\ BenchTyped /\ Ready
      /\ UNCHANGED <<config, method, sample, verdict>> /\ pc' = "close"
      /\ method \in Nat \ {0} /\ sample \in Nat \ {0} /\ method <= Methods /\ sample <= Samples
      /\ Recorded(records, "failed")
  BY DEF ContextLost, Goto, loopVars, BenchInv, BenchTyped, Ready, Looping
<1>2. /\ records' \in Seq(RowSpace) /\ partial' \in Seq(RowSpace)
      /\ last' \in [Cells -> {None, "success", "failed"}]
      /\ \A c \in Ahead : last'[c] = None
      /\ \A c \in Cells : last'[c] # None => Says(records', c, last'[c])
      /\ results' = results /\ state' = state /\ state' = config' /\ OneConfiguration'
      /\ \A m \in 1 .. Methods : m < method => Explained(records', m)
      /\ Explained(records', method)
  BY <1>1, FailureRecorded
<1>3. BenchTyped'
  BY <1>1, <1>2, CellsAre DEF BenchTyped, Files, Looping, Ending
<1>4. Signed'
  BY <1>1, <1>2 DEF Signed, Ready, Looping, Ending
<1>5. Latest'
  <2>1. Ahead' \subseteq Ahead
    BY <1>1 DEF Ahead
  <2> QED
    BY <1>2, <2>1 DEF Latest
<1>6. Covered' /\ Reported'
  BY <1>1, <1>2 DEF Covered, Reported, Ending
<1> QED
  BY <1>3, <1>4, <1>5, <1>6 DEF BenchInv

LEMMA FailKeeps == ASSUME BenchInv, Fail PROVE BenchInv'
<1>1. /\ pc = "fail" /\ BenchTyped /\ Ready /\ UNCHANGED <<config, method, verdict>>
      /\ method \in Nat \ {0} /\ sample \in Nat \ {0} /\ method <= Methods /\ sample <= Samples + 1
      /\ state = config
  BY DEF Fail, BenchInv, BenchTyped, Signed, Ready, Looping
<1>2. /\ \A m \in 1 .. Methods : m < method => Explained(records, m)
      /\ \A s \in 1 .. sample - 1 : Rowed(records, <<method, s>>)
      /\ \A c \in Ahead : last[c] = None
      /\ \A c \in Cells : last[c] # None => Says(records, c, last[c])
      /\ records \in Seq(RowSpace) /\ partial \in Files
      /\ last \in [Cells -> {None, "success", "failed"}] /\ OneConfiguration
  BY <1>1 DEF BenchInv, BenchTyped, Signed, Latest, Covered, Looping
<1>3. CASE sample > Samples
  <2>1. pc' = "close_failed" /\ UNCHANGED <<partial, results, state, records, sample, last>>
    BY <1>3 DEF Fail, Goto, fileVars
  <2>2. Explained(records, method)
    <3>1. \A s \in 1 .. Samples : s \in 1 .. sample - 1
      BY <1>1, <1>3, CellsAre
    <3> QED
      BY <1>2, <3>1 DEF Explained
  <2>3. BenchTyped'
    BY <1>1, <2>1, CellsAre DEF BenchTyped, Looping, Ending
  <2>4. Signed'
    BY <1>1, <1>2, <2>1, SameRows DEF Signed, Ready, Looping, Ending
  <2>5. Latest'
    <3>1. Ahead' \subseteq Ahead
      BY <1>1, <2>1 DEF Ahead
    <3> QED
      BY <1>2, <2>1, <3>1 DEF Latest
  <2>6. Covered' /\ Reported'
    BY <1>1, <1>2, <2>1, <2>2 DEF Covered, Reported, Ending
  <2> QED
    BY <2>3, <2>4, <2>5, <2>6 DEF BenchInv
<1>4. CASE ~(sample > Samples)
  <2>1. /\ sample' = sample + 1 /\ pc' = pc /\ sample <= Samples
        /\ IF Succeeded(records, Cell) THEN UNCHANGED <<fileVars, records, last>>
           ELSE Recorded(records, "failed")
    BY <1>1, <1>4, CellsAre DEF Fail
  <2>2. /\ records' \in Seq(RowSpace) /\ partial' \in Files
        /\ partial \in {None} \cup Seq(RowSpace) => partial' \in {None} \cup Seq(RowSpace)
        /\ last' \in [Cells -> {None, "success", "failed"}]
        /\ \A s \in 1 .. sample - 1 : Rowed(records', <<method, s>>)
        /\ Rowed(records', <<method, sample>>)
        /\ \A c \in Ahead : last'[c] = None
        /\ \A c \in Cells : last'[c] # None => Says(records', c, last'[c])
        /\ results' = results /\ state' = state /\ OneConfiguration'
        /\ \A m \in 1 .. Methods : m < method => Explained(records', m)
    <3>1. CASE Succeeded(records, Cell)
      <4>1. UNCHANGED <<partial, results, state, records, last>>
        BY <2>1, <3>1 DEF fileVars
      <4>2. Rowed(records, <<method, sample>>)
        BY <3>1 DEF Succeeded, RowsOf, Rowed, Cell
      <4>3. OneConfiguration'
        BY <1>2, <4>1, SameRows
      <4> QED
        BY <1>2, <4>1, <4>2, <4>3
    <3>2. CASE ~Succeeded(records, Cell)
      <4>1. Recorded(records, "failed")
        BY <2>1, <3>2
      <4> QED
        BY <1>1, <1>2, <2>1, <4>1, FailureRecorded DEF Files
    <3> QED
      BY <3>1, <3>2
  <2>3. BenchTyped'
    BY <1>1, <2>1, <2>2, CellsAre DEF BenchTyped, Looping, Ending
  <2>4. Signed'
    BY <1>1, <2>1, <2>2 DEF Signed, Ready, Looping, Ending
  <2>5. Latest'
    <3>1. Ahead' \subseteq Ahead
      BY <1>1, <2>1 DEF Ahead
    <3> QED
      BY <2>2, <3>1 DEF Latest
  <2>6. Covered' /\ Reported'
    <3> DEFINE new == records'
               next == sample'
    <3>1. next = sample + 1
      BY <2>1
    <3>2. \A s \in 1 .. sample - 1 : Rowed(new, <<method, s>>)
      BY <2>2
    <3>3. Rowed(new, <<method, sample>>)
      BY <2>2
    <3> HIDE DEF new, next
    <3>4. \A s \in 1 .. next - 1 : Rowed(new, <<method, s>>)
      BY <1>1, <3>1, <3>2, <3>3, NextRowed
    <3> USE DEF new, next
    <3> QED
      BY <1>1, <2>1, <2>2, <3>4 DEF Covered, Reported, Ending
  <2> QED
    BY <2>3, <2>4, <2>5, <2>6 DEF BenchInv
<1> QED
  BY <1>3, <1>4

LEMMA SkipKeeps == ASSUME BenchInv, Skip PROVE BenchInv'
<1>1. /\ pc = "skip" /\ BenchTyped /\ Ready /\ UNCHANGED <<config, verdict>>
      /\ method \in Nat \ {0} /\ sample \in Nat \ {0} /\ sample <= Samples
      /\ state = config
  BY DEF Skip, BenchInv, BenchTyped, Signed, Ready, Looping
<1>2. /\ \A m \in 1 .. Methods : m < method => Explained(records, m)
      /\ \A s \in 1 .. sample - 1 : Rowed(records, <<method, s>>)
      /\ \A c \in Cells : last[c] # None => Says(records, c, last[c])
      /\ records \in Seq(RowSpace) /\ partial \in Files
      /\ last \in [Cells -> {None, "success", "failed"}] /\ OneConfiguration
  BY <1>1 DEF BenchInv, BenchTyped, Signed, Latest, Covered, Looping
<1>3. CASE method > Methods
  <2>1. pc' = "finalize" /\ UNCHANGED <<partial, results, state, records, method, sample, last>>
    BY <1>3 DEF Skip, Goto, fileVars
  <2>2. \A m \in 1 .. Methods : Explained(records, m)
    <3>1. \A m \in 1 .. Methods : m < method
      BY <1>1, <1>3, CellsAre
    <3> QED
      BY <1>2, <3>1
  <2>3. BenchTyped'
    BY <1>1, <2>1, CellsAre DEF BenchTyped, Looping, Ending
  <2>4. Signed'
    BY <1>1, <1>2, <2>1, SameRows DEF Signed, Ready, Looping, Ending
  <2>5. Latest' /\ Covered' /\ Reported'
    BY <1>1, <1>2, <2>1, <2>2 DEF Latest, Ahead, Covered, Reported, Looping
  <2> QED
    BY <2>3, <2>4, <2>5 DEF BenchInv
<1>4. CASE ~(method > Methods)
  <2>1. /\ pc' = pc /\ method <= Methods
        /\ IF sample < Samples THEN sample' = sample + 1 /\ UNCHANGED method
           ELSE sample' = 1 /\ method' = method + 1
        /\ IF RowsOf(records, Cell) # {} THEN UNCHANGED <<fileVars, records, last>>
           ELSE Recorded(records, "failed")
    BY <1>1, <1>4, CellsAre DEF Skip
  <2>2. /\ records' \in Seq(RowSpace) /\ partial' \in Files
        /\ partial \in {None} \cup Seq(RowSpace) => partial' \in {None} \cup Seq(RowSpace)
        /\ last' \in [Cells -> {None, "success", "failed"}]
        /\ \A s \in 1 .. sample - 1 : Rowed(records', <<method, s>>)
        /\ Rowed(records', <<method, sample>>)
        /\ \A c \in Cells : last'[c] # None => Says(records', c, last'[c])
        /\ results' = results /\ state' = state /\ OneConfiguration'
        /\ \A m \in 1 .. Methods : m < method => Explained(records', m)
    <3>1. CASE RowsOf(records, Cell) # {}
      <4>1. UNCHANGED <<partial, results, state, records, last>>
        BY <2>1, <3>1 DEF fileVars
      <4>2. Rowed(records, <<method, sample>>)
        BY <3>1 DEF RowsOf, Rowed, Cell
      <4>3. OneConfiguration'
        BY <1>2, <4>1, SameRows
      <4> QED
        BY <1>2, <4>1, <4>2, <4>3
    <3>2. CASE ~(RowsOf(records, Cell) # {})
      <4>1. Recorded(records, "failed")
        BY <2>1, <3>2
      <4> QED
        BY <1>1, <1>2, <2>1, <4>1, FailureRecorded DEF Files
    <3> QED
      BY <3>1, <3>2
  <2>3. method' \in Nat \ {0} /\ sample' \in Nat \ {0} /\ sample' <= Samples
    BY <1>1, <2>1, CellsAre
  <2>4. BenchTyped'
    BY <1>1, <2>1, <2>2, <2>3, CellsAre DEF BenchTyped, Looping, Ending
  <2>5. Signed'
    BY <1>1, <2>1, <2>2 DEF Signed, Ready, Looping, Ending
  <2>6. Latest'
    BY <1>1, <2>1, <2>2 DEF Latest, Ahead
  <2> DEFINE new == records'
             next == sample'
  <2>7. ASSUME sample < Samples PROVE Covered'
    <3>1. next = sample + 1 /\ method' = method
      BY <2>1, <2>7
    <3>2. /\ \A s \in 1 .. sample - 1 : Rowed(new, <<method, s>>)
          /\ Rowed(new, <<method, sample>>)
      BY <2>2
    <3>3. \A s \in 1 .. next - 1 : Rowed(new, <<method, s>>)
      <4> HIDE DEF new, next
      <4> QED
        BY <1>1, <3>1, <3>2, NextRowed
    <3>4. /\ pc' = "skip"
          /\ \A m \in 1 .. Methods : m < method' => Explained(records', m)
          /\ \A s \in 1 .. sample' - 1 : Rowed(records', <<method', s>>)
      BY <1>1, <2>1, <2>2, <3>1, <3>3
    <3> QED
      BY <3>4 DEF Covered, Ending
  <2>8. ASSUME ~(sample < Samples) PROVE Covered'
    <3>1. next = 1 /\ method' = method + 1 /\ sample = Samples
      BY <1>1, <2>1, <2>8, CellsAre
    <3>2. Explained(new, method)
      <4>1. \A s \in 1 .. Samples : s \in 1 .. sample - 1 \/ s = sample
        BY <1>1, <3>1, CellsAre
      <4> QED
        BY <2>2, <4>1 DEF Explained
    <3>3. \A m \in 1 .. Methods : m < method' => Explained(new, m)
      <4>1. \A m \in 1 .. Methods : m < method' => m < method \/ m = method
        BY <1>1, <3>1
      <4> QED
        BY <2>2, <3>2, <4>1
    <3>4. \A s \in 1 .. next - 1 : Rowed(new, <<method', s>>)
      BY <3>1
    <3>5. /\ pc' = "skip"
          /\ \A m \in 1 .. Methods : m < method' => Explained(records', m)
          /\ \A s \in 1 .. sample' - 1 : Rowed(records', <<method', s>>)
      BY <1>1, <2>1, <3>3, <3>4
    <3> QED
      BY <3>5 DEF Covered, Ending
  <2>9. Reported'
    BY <1>1, <2>1 DEF Reported
  <2> QED
    BY <2>4, <2>5, <2>6, <2>7, <2>8, <2>9 DEF BenchInv
<1> QED
  BY <1>3, <1>4

LEMMA FinalizeKeeps == ASSUME BenchInv, Finalize PROVE BenchInv'
<1>1. /\ pc = "finalize" /\ pc' = "rewrite" /\ records' = Canonical(records)
      /\ UNCHANGED <<partial, results, state, config, method, sample, last, verdict>>
      /\ BenchTyped /\ OneConfiguration /\ state = config /\ records \in Seq(RowSpace)
      /\ \A c \in Cells : last[c] # None => Says(records, c, last[c])
      /\ \A m \in 1 .. Methods : Explained(records, m)
  BY DEF Finalize, Goto, fileVars, loopVars, BenchInv, BenchTyped, Signed, Latest, Covered, Ready, Ending
<1> DEFINE new == records'
<1>2. /\ new \in Seq(RowSpace)
      /\ \A i \in DOMAIN new : \E j \in DOMAIN records : new[i] = records[j]
      /\ \A i, j \in DOMAIN new : new[i].cell = new[j].cell => i = j
  <2>1. new = Canonical(records)
    BY <1>1
  <2> HIDE DEF new
  <2> QED
    BY <1>1, <2>1, CanonicalIs
<1>3. /\ \A c : Rowed(records, c) => Rowed(new, c)
      /\ \A c, how : Says(records, c, how) => Says(new, c, how)
  <2>1. new = Canonical(records)
    BY <1>1
  <2> HIDE DEF new
  <2>2. \A c : Rowed(records, c) => Rowed(new, c)
    BY <1>1, <2>1, CanonicalIs
  <2>3. \A c, how : Says(records, c, how) => Says(new, c, how)
    BY <1>1, <2>1, CanonicalIs
  <2> QED
    BY <2>2, <2>3
<1>4. BenchTyped'
  BY <1>1, <1>2, CellsAre DEF BenchTyped, Looping, Ending
<1>5. Signed'
  <2>1. RowsIn(records') \subseteq RowsIn(records)
    BY <1>1, <1>2, RowsInIs
  <2>2. OneConfiguration'
    BY <1>1, <2>1, FewerRows
  <2> QED
    BY <1>1, <2>2 DEF Signed
<1>6. Latest'
  BY <1>1, <1>3 DEF Latest, Ahead
<1>7. Covered'
  <2>1. \A m \in 1 .. Methods : Explained(records', m)
    BY <1>1, <1>3 DEF Explained
  <2> QED
    BY <1>1, <2>1 DEF Covered, Looping
<1>8. Reported'
  BY <1>1, <1>2 DEF Reported
<1> QED
  BY <1>4, <1>5, <1>6, <1>7, <1>8 DEF BenchInv

LEMMA RewriteKeeps == ASSUME BenchInv, Rewrite PROVE BenchInv'
<1>1. /\ pc = "rewrite" /\ pc' = "report" /\ partial' = records
      /\ UNCHANGED <<results, state, config, records, method, sample, last, verdict>>
      /\ BenchTyped /\ OneConfiguration /\ state = config /\ records \in Seq(RowSpace)
  BY DEF Rewrite, Goto, loopVars, BenchInv, BenchTyped, Signed, Ready, Ending
<1>2. BenchTyped'
  BY <1>1, CellsAre DEF BenchTyped, Files, Looping, Ending
<1>3. Signed'
  BY <1>1, FewerRows DEF Signed
<1>4. Latest' /\ Covered' /\ Reported'
  BY <1>1 DEF BenchInv, Latest, Ahead, Covered, Reported, Looping, Ending
<1> QED
  BY <1>2, <1>3, <1>4 DEF BenchInv

LEMMA ReportKeeps == ASSUME BenchInv, Report PROVE BenchInv'
<1>1. /\ pc = "report" /\ pc' = "sign_off" /\ results' = records /\ verdict' = Status(records)
      /\ UNCHANGED <<partial, state, config, records, method, sample, proved, last>>
      /\ BenchTyped /\ OneConfiguration /\ state = config /\ records \in Seq(RowSpace)
  BY DEF Report, Goto, loopVars, proofVars, BenchInv, BenchTyped, Signed, Ready, Ending
<1>2. BenchTyped'
  BY <1>1, CellsAre DEF BenchTyped, Files, Looping, Ending
<1>3. Signed'
  BY <1>1, FewerRows DEF Signed
<1>4. Latest' /\ Covered'
  BY <1>1 DEF BenchInv, Latest, Ahead, Covered, Looping, Ending
<1>5. Reported'
  BY <1>1 DEF BenchInv, Reported, Status
<1> QED
  BY <1>2, <1>3, <1>4, <1>5 DEF BenchInv

LEMMA SignOffKeeps == ASSUME BenchInv, SignOff PROVE BenchInv'
<1>1. /\ pc = "sign_off" /\ pc' = "ended" /\ state' = config /\ records' = << >> /\ config' = None
      /\ method' = 1 /\ sample' = 1 /\ last' = [c \in Cells |-> None]
      /\ UNCHANGED <<partial, results>>
      /\ BenchTyped /\ OneConfiguration /\ state = config
  BY DEF SignOff, Forgotten, Goto, BenchInv, BenchTyped, Signed, Ready, Ending
<1>2. BenchTyped'
  BY <1>1, CellsAre DEF BenchTyped, Looping, Ending
<1>3. Signed'
  <2>1. RowsIn(records') = {}
    BY <1>1 DEF RowsIn
  <2> QED
    BY <1>1, <2>1, FewerRows DEF Signed, Ready, Looping, Ending
<1>4. Latest'
  <2>1. Ahead' \subseteq Cells
    BY DEF Ahead
  <2> QED
    BY <1>1, <2>1 DEF Latest
<1>5. Covered' /\ Reported'
  BY <1>1 DEF Covered, Reported, Looping, Ending
<1> QED
  BY <1>2, <1>3, <1>4, <1>5 DEF BenchInv

\* What a killed process leaves of a file it was writing.
LEMMA PrefixedIs ==
    ASSUME NEW rs \in Seq(RowSpace), NEW left \in Prefixed(rs)
    PROVE  left \in Files /\ RowsIn(left) \subseteq RowsIn(rs)
<1>1. CASE left = Torn
  BY <1>1 DEF Files, RowsIn
<1>2. CASE left # Torn
  <2>1. PICK n \in Nat : n = Len(rs)
    OBVIOUS
  <2>2. PICK k \in 0 .. n : left = SubSeq(rs, 1, k)
    BY <1>2, <2>1 DEF Prefixed
  <2>3. left \in Seq(RowSpace) /\ DOMAIN left = 1 .. k /\ \A i \in 1 .. k : left[i] = rs[i]
    BY <2>1, <2>2
  <2>4. \A i \in 1 .. k : i \in 1 .. n /\ i \in DOMAIN rs
    BY <2>1
  <2> QED
    BY <2>3, <2>4, RowsInIs DEF Files
<1> QED
  BY <1>1, <1>2

LEMMA CrashKeeps == ASSUME BenchInv, Crash PROVE BenchInv'
<1>1. /\ pc' = "ended" /\ records' = << >> /\ config' = None
      /\ method' = 1 /\ sample' = 1 /\ last' = [c \in Cells |-> None]
      /\ partial' \in {partial, Torn} \cup Prefixed(records)
      /\ results' \in {results} \cup Prefixed(records) /\ state' \in {state, Torn}
  BY DEF Crash, Forgotten, Goto
<1>2. /\ records \in Seq(RowSpace) /\ partial \in Files /\ results \in Files
      /\ state \in Configs \cup {None, Torn} /\ OneConfiguration
  BY DEF BenchInv, BenchTyped, Signed
<1>3. Torn \in Files /\ RowsIn(Torn) = {}
  BY DEF Files, RowsIn
<1>4. /\ partial' \in Files /\ RowsIn(partial') \subseteq RowsIn(partial) \cup RowsIn(records)
      /\ results' \in Files /\ RowsIn(results') \subseteq RowsIn(results) \cup RowsIn(records)
  BY <1>1, <1>2, <1>3, PrefixedIs
<1>5. BenchTyped'
  BY <1>1, <1>2, <1>4, CellsAre DEF BenchTyped, Looping, Ending
<1>6. Signed'
  <2>1. RowsIn(records') = {}
    BY <1>1 DEF RowsIn
  <2> QED
    BY <1>1, <1>2, <1>4, <2>1, FewerRows DEF Signed, Ready, Looping, Ending
<1>7. Latest'
  <2>1. Ahead' \subseteq Cells
    BY DEF Ahead
  <2> QED
    BY <1>1, <2>1 DEF Latest
<1>8. Covered' /\ Reported'
  BY <1>1 DEF Covered, Reported, Looping, Ending
<1> QED
  BY <1>5, <1>6, <1>7, <1>8 DEF BenchInv

LEMMA StutterKeeps == ASSUME BenchInv, UNCHANGED vars PROVE BenchInv'
<1>1. UNCHANGED <<partial, results, state, pc, config, records, method, sample, proved, last,
                 verdict>>
  BY DEF vars, fileVars, loopVars, proofVars
<1>2. BenchTyped' /\ Reported'
  BY <1>1 DEF BenchInv, BenchTyped, Reported, Status
<1>3. Signed'
  BY <1>1, SameRows DEF BenchInv, Signed, Ready
<1>4. Latest' /\ Covered'
  BY <1>1 DEF BenchInv, Latest, Ahead, Covered, Cell
<1> QED
  BY <1>2, <1>3, <1>4 DEF BenchInv

LEMMA BenchKept == Spec => []BenchInv
<1>1. Init => BenchInv
  BY InitIs
<1>2. BenchInv /\ [Next]_vars => BenchInv'
  <2> SUFFICES ASSUME BenchInv, [Next]_vars PROVE BenchInv'
    OBVIOUS
  <2>1. CASE Run
    BY <2>1, CreateKeeps, SignKeeps, LoadKeeps, TakeCellKeeps, MeasureKeeps, AfterRecordKeeps,
       FailKeeps, CloseKeeps, SkipKeeps, FinalizeKeeps, RewriteKeeps, ReportKeeps, SignOffKeeps
       DEF Run
  <2>2. CASE Launch
    BY <2>2, BeginKeeps, ResumeKeeps DEF Launch
  <2>3. CASE AttemptFails \/ ContextLost \/ MethodFails
    BY <2>3, AttemptFailsKeeps, ContextLostKeeps, MethodFailsKeeps
  <2>4. CASE Crash
    BY <2>4, CrashKeeps
  <2>5. CASE UNCHANGED vars
    BY <2>5, StutterKeeps
  <2> QED
    BY <2>1, <2>2, <2>3, <2>4, <2>5 DEF Next
<1> QED
  BY <1>1, <1>2, PTL DEF Spec

----------------------------------------------------------------------------
\* What a run promises.

\* Whoever starts what with the run id of a run, killed or not: the rows in its
\* files and in memory have the signature that state.json names, so two
\* experiments are never mixed in one report.
THEOREM NeverMixed == Spec => []OneConfiguration
<1>1. BenchInv => OneConfiguration
  BY DEF BenchInv, Signed
<1> QED
  BY <1>1, BenchKept, PTL

\* For every cell that the process has measured, results.jsonl says what the
\* last measurement of it said: not a row of an earlier process, and not an
\* earlier attempt.
THEOREM LatestWins == Spec => []LatestReported
<1>1. BenchInv => LatestReported
  <2> SUFFICES ASSUME BenchInv, pc = "sign_off", NEW c \in Cells, last[c] # None
               PROVE  \E i \in DOMAIN results : results[i].cell = c /\ results[i].status = last[c]
    BY DEF LatestReported
  <2>1. Says(records, c, last[c]) /\ results = records
    BY DEF BenchInv, Latest, Reported
  <2> QED
    BY <2>1 DEF Says
<1> QED
  BY <1>1, BenchKept, PTL

\* A method that the report has no row of for some sample has a failure in the
\* report: neither a lost context nor a broken method leaves a silent gap.
THEOREM NoSilentGap == Spec => []GapsExplained
<1>1. BenchInv => GapsExplained
  <2> SUFFICES ASSUME BenchInv, pc = "sign_off", NEW c \in Cells, RowsOf(results, c) = {}
               PROVE  \E i \in Failures(results) : results[i].cell[1] = c[1]
    BY DEF GapsExplained
  <2>1. c = <<c[1], c[2]>> /\ c[1] \in 1 .. Methods /\ c[2] \in 1 .. Samples
    BY CellsAre
  <2>2. Explained(results, c[1])
    <3>1. results = records
      BY DEF BenchInv, Reported
    <3> QED
      BY <2>1, <3>1 DEF BenchInv, Covered, Ending
  <2>3. ~Rowed(results, c)
    BY DEF Rowed, RowsOf
  <2>4. PICK s \in 1 .. Samples : Says(results, <<c[1], s>>, "failed")
    BY <2>1, <2>2, <2>3 DEF Explained
  <2>5. PICK i \in DOMAIN results : results[i].cell = <<c[1], s>> /\ results[i].status = "failed"
    BY <2>4 DEF Says
  <2>6. i \in Failures(results) /\ results[i].cell[1] = c[1]
    BY <2>5 DEF Failures
  <2> QED
    BY <2>6
<1> QED
  BY <1>1, BenchKept, PTL

\* As many rows as cells, no two of one cell: every cell has its row.
LEMMA AllRowed ==
    ASSUME NEW rs \in Seq(RowSpace), Len(rs) = Methods * Samples,
           \A i, j \in DOMAIN rs : rs[i].cell = rs[j].cell => i = j
    PROVE  \A c \in Cells : Rowed(rs, c)
<1> SUFFICES ASSUME NEW c \in Cells, ~Rowed(rs, c) PROVE FALSE
  OBVIOUS
<1>1. PICK n \in Nat : n = Len(rs)
  OBVIOUS
<1> DEFINE Places == 1 .. n
           Others == Cells \ {c}
           of == [i \in Places |-> rs[i].cell]
<1>2. IsFiniteSet(Cells) /\ Cardinality(Cells) = n
  <2>1. Methods \in Nat /\ Samples \in Nat
    BY CellsAre
  <2>2. \A k \in Nat : IsFiniteSet(1 .. k) /\ Cardinality(1 .. k) = k
    <3> SUFFICES ASSUME NEW k \in Nat PROVE IsFiniteSet(1 .. k) /\ Cardinality(1 .. k) = k
      OBVIOUS
    <3>1. 1 \in Int /\ k \in Int /\ (1 > k => k = 0) /\ k - 1 + 1 = k
      OBVIOUS
    <3> QED
      BY <3>1, FS_Interval
  <2> DEFINE A == 1 .. Methods
             B == 1 .. Samples
  <2>3. IsFiniteSet(A) /\ IsFiniteSet(B) /\ Cardinality(A) = Methods /\ Cardinality(B) = Samples
    BY <2>1, <2>2
  <2>4. Cells = A \X B
    BY DEF Cells
  <2> HIDE DEF A, B
  <2>5. IsFiniteSet(A \X B) /\ Cardinality(A \X B) = Cardinality(A) * Cardinality(B)
    BY <2>3, FS_Product
  <2> QED
    BY <1>1, <2>3, <2>4, <2>5
<1>3. IsFiniteSet(Others) /\ Cardinality(Others) = n - 1
  BY <1>2, FS_RemoveElement
<1>4. IsFiniteSet(Places) /\ Cardinality(Places) = n
  <2>1. 1 \in Int /\ n \in Int /\ (1 > n => n = 0) /\ n - 1 + 1 = n
    OBVIOUS
  <2> QED
    BY <2>1, FS_Interval
<1>5. of \in [Places -> Others]
  <2>1. \A i \in 1 .. n : i \in DOMAIN rs /\ rs[i] \in RowSpace
    BY <1>1
  <2>2. \A i \in 1 .. n : rs[i].cell \in Cells /\ rs[i].cell # c
    BY <2>1 DEF RowSpace, Rowed
  <2> QED
    BY <2>2
<1>6. \E i, j \in Places : i # j /\ of[i] = of[j]
  <2>1. Cardinality(Others) < Cardinality(Places)
    BY <1>3, <1>4
  <2> HIDE DEF Others, of, Places
  <2> QED
    BY <1>3, <1>4, <1>5, <2>1, FS_PigeonHole
<1>7. DOMAIN rs = Places
  BY <1>1
<1> QED
  BY <1>6, <1>7

\* A report passes only with one row for each cell, a success: neither a count
\* of rows that a duplicate fills nor an old failure passes for it.
THEOREM PassIsComplete == Spec => []PassMeansAll
<1>1. BenchInv => PassMeansAll
  <2> SUFFICES ASSUME BenchInv, pc = "sign_off", verdict = "success", NEW c \in Cells
               PROVE  \E i \in DOMAIN results :
                          RowsOf(results, c) = {i} /\ results[i].status = "success"
    BY DEF PassMeansAll
  <2>1. /\ results = records /\ verdict = Status(records) /\ records \in Seq(RowSpace)
        /\ \A i, j \in DOMAIN records : records[i].cell = records[j].cell => i = j
    BY DEF BenchInv, BenchTyped, Reported
  <2>2. Len(records) = Methods * Samples /\ Failures(records) = {}
    BY <2>1 DEF Status
  <2>3. PICK i \in DOMAIN records : records[i].cell = c
    BY <2>1, <2>2, AllRowed DEF Rowed
  <2>4. RowsOf(records, c) = {i}
    BY <2>1, <2>3 DEF RowsOf
  <2>5. records[i].status = "success"
    BY <2>2, <2>3 DEF Failures
  <2> QED
    BY <2>1, <2>3, <2>4, <2>5
<1> QED
  BY <1>1, BenchKept, PTL
=============================================================================
