---------------------------- MODULE TeacherShards ----------------------------
(***************************************************************************)
(* Finetuning/generate_targets.py and the parts of distributed.py it uses: *)
(* how a teacher file is written.  One process writes it alone, or the     *)
(* ranks of a torchrun job each write a shard and rank 0 merges them.  A   *)
(* rank appends its rows to a .part file, renames that to its shard, and a *)
(* later job goes on from whatever files an earlier one left behind.       *)
(*                                                                         *)
(* A row is the index of its source record; what generation makes of a     *)
(* record is the constant Verdict (decoding is greedy).  Record ids are    *)
(* taken to be distinct.  Jobs run one at a time: Pipeline has the lock.   *)
(*                                                                         *)
(* An operator A_Change is action or operator A with a plausible mistake   *)
(* in it, to show that a property would notice; no action uses one.        *)
(***************************************************************************)
EXTENDS Integers, Sequences, FiniteSets, Selections

CONSTANTS
    N,           \* number of source records
    Verdict,     \* record -> "row", "empty" (summary) or "unrendered" (prompt)
    Worlds,      \* world sizes a job may be launched with
    Backend,     \* "hf" or "server"
    Window,      \* records gathered before a batch is generated
    Faults,      \* subset of {"die", "torn", "window"}
    MaxFaults,   \* bound on the number of faults in a behaviour
    Garbled,     \* a line that is not JSON
    Cut,         \* a line with a part of a character, which no reader decodes
    Whole,       \* the name of the teacher file itself, beside the shards
    None         \* an absent file

Records == 0 .. N - 1
Unreadable == {Garbled, Cut}

ASSUME WorldsAssumption == Worlds \subseteq Nat \ {0} /\ IsFiniteSet(Worlds)
ASSUME RecordsAssumption ==
    /\ N \in Nat
    /\ Window \in Nat \ {0}
    /\ Verdict \in [Records -> {"row", "empty", "unrendered"}]
ASSUME BackendAssumption ==
    Backend \in {"hf", "server"} /\ (Backend = "server" => Worlds = {1})
ASSUME FaultsAssumption == Faults \subseteq {"die", "torn", "window"} /\ MaxFaults \in Nat
ASSUME NamesAssumption ==
    /\ Unreadable \cap Int = {}
    /\ Whole \notin Int
    /\ None \notin [lines : Seq(Records \cup Unreadable), open : BOOLEAN]

VARIABLES
    world,     \* world size of the job that runs or ran last
    file,      \* published files: the shards and the teacher file
    part,      \* .part files
    pc,        \* where a rank is; "exit" and "dead" processes have ended
    next,      \* the next source record a rank reads
    window,    \* records a rank has gathered and not written
    done,      \* records a rank found in its .part file when it started
    written,   \* rows a rank counts as written
    faults     \* faults so far

vars == <<world, file, part, pc, next, window, done, written, faults>>
disk == <<file, part>>

Ranks == UNION {0 .. w - 1 : w \in Worlds}
Job == {r \in Ranks : r < world}
Names == Ranks \cup {Whole}
Ended == {"exit", "dead"}

\* A file is its lines; the last one may still lack its newline.
File == {f \in [lines : Seq(Records \cup Unreadable), open : BOOLEAN] :
            f.open => f.lines # <<>>}
NoLines == [lines |-> <<>>, open |-> FALSE]

\* Appending to a line without a newline makes one unreadable line of both.
Joined(line, i) == IF Cut \in {line, i} THEN Cut ELSE Garbled
Appended(f, i) ==
    IF f.open THEN [lines |-> [f.lines EXCEPT ![Len(f.lines)] = Joined(@, i)], open |-> FALSE]
              ELSE [f EXCEPT !.lines = Append(@, i)]

\* What a write that is cut short leaves: nothing, a piece of the row that ends
\* between or within two characters, or all of it but the newline.
Torn(f, i) ==
    {f} \cup {[Appended(f, j) EXCEPT !.open = TRUE] : j \in {i} \cup Unreadable}

\* _load_completed_records: the readable lines before the first that is not.
Loaded(f) ==
    IF f = None THEN <<>>
    ELSE LET read == {k \in DOMAIN f.lines : \A l \in 1 .. k : f.lines[l] \notin Unreadable}
         IN  SubSeq(f.lines, 1, Cardinality(read))

RowsOf(s) == {s[k] : k \in DOMAIN s}
Readable(f) == f = None \/ RowsOf(f.lines) \cap Unreadable = {}
HasCut(f) == f # None /\ Cut \in RowsOf(f.lines)

\* The loop that reads the lines of f decodes them, outside its try block, as
\* far as the first line that is not JSON.
Decodes(f) ==
    f # None => \A k \in DOMAIN f.lines :
                    f.lines[k] = Cut => \E l \in 1 .. k : f.lines[l] = Garbled

\* The records that generation makes a row of, and a set of records in source
\* order.
Good == {i \in Records : Verdict[i] = "row"}
InOrder(S) == Ascending(S)

\* ranked_path
RankedPath(r) == IF world = 1 THEN Whole ELSE r

\* The files a process reads when it starts: the one it is to write, and its
\* .part file unless it is done.
FilesRead(r) ==
    {file[RankedPath(r)]} \cup
    (IF world = 1 /\ Loaded(file[RankedPath(r)]) # <<>> THEN {} ELSE {part[RankedPath(r)]})

\* _valid_jsonl of the launcher: the stage needs no further run.
Accepted ==
    /\ file[Whole] # None
    /\ Readable(file[Whole])
    /\ file[Whole].lines # <<>>

Init ==
    /\ world \in Worlds
    /\ file = [n \in Names |-> None]
    /\ part = [n \in Names |-> None]
    /\ pc = [r \in Ranks |-> "exit"]
    /\ next = [r \in Ranks |-> 0]
    /\ window = [r \in Ranks |-> <<>>]
    /\ done = [r \in Ranks |-> {}]
    /\ written = [r \in Ranks |-> 0]
    /\ faults = 0

\* The launcher starts the stage again as long as its artifact is not valid.
Launch(w) ==
    /\ \A r \in Ranks : pc[r] \in Ended
    /\ ~Accepted
    /\ world' = w
    /\ pc' = [r \in Ranks |-> IF r < w THEN "start" ELSE "exit"]
    /\ next' = [r \in Ranks |-> 0]
    /\ window' = [r \in Ranks |-> <<>>]
    /\ done' = [r \in Ranks |-> {}]
    /\ written' = [r \in Ranks |-> 0]
    /\ UNCHANGED <<disk, faults>>

SkipStage ==
    /\ \A r \in Ranks : pc[r] \in Ended
    /\ Accepted
    /\ UNCHANGED vars

Goto(r, label) == pc' = [pc EXCEPT ![r] = label]
Fault(f) == f \in Faults /\ faults < MaxFaults /\ faults' = faults + 1

Begin_CountsFromZero(r) ==
    LET path == RankedPath(r)
        rows == Loaded(IF world = 1 /\ Loaded(file[path]) # <<>>
                       THEN file[path] ELSE part[path])
    IN  /\ pc[r] = "start" /\ \A f \in FilesRead(r) : Decodes(f)
        /\ IF world = 1 /\ Loaded(file[path]) # <<>>
           THEN /\ Goto(r, "reduce")
                /\ written' = [written EXCEPT ![r] = Len(rows)]
                /\ UNCHANGED <<part, done>>
           ELSE /\ done' = [done EXCEPT ![r] = RowsOf(rows)]
                /\ part' = [part EXCEPT ![path] = IF @ = None THEN NoLines ELSE @]
                /\ Goto(r, "scan")
                /\ UNCHANGED written
        /\ UNCHANGED <<world, file, next, window, faults>>

Begin_Truncates(r) ==
    LET path == RankedPath(r)
        rows == Loaded(IF world = 1 /\ Loaded(file[path]) # <<>>
                       THEN file[path] ELSE part[path])
    IN  /\ pc[r] = "start" /\ \A f \in FilesRead(r) : Decodes(f)
        /\ written' = [written EXCEPT ![r] = Len(rows)]
        /\ IF world = 1 /\ Loaded(file[path]) # <<>>
           THEN Goto(r, "reduce") /\ UNCHANGED <<part, done>>
           ELSE /\ done' = [done EXCEPT ![r] = RowsOf(rows)]
                /\ part' = [part EXCEPT ![path] = NoLines]
                /\ Goto(r, "scan")
        /\ UNCHANGED <<world, file, next, window, faults>>

Begin_TrustsShard(r) ==
    LET path == RankedPath(r)
        rows == Loaded(IF Loaded(file[path]) # <<>> THEN file[path] ELSE part[path])
    IN  /\ pc[r] = "start" /\ \A f \in FilesRead(r) : Decodes(f)
        /\ written' = [written EXCEPT ![r] = Len(rows)]
        /\ IF Loaded(file[path]) # <<>>
           THEN Goto(r, "reduce") /\ UNCHANGED <<part, done>>
           ELSE /\ done' = [done EXCEPT ![r] = RowsOf(rows)]
                /\ part' = [part EXCEPT ![path] = IF @ = None THEN NoLines ELSE @]
                /\ Goto(r, "scan")
        /\ UNCHANGED <<world, file, next, window, faults>>

\* A single process that finds a teacher file with rows does nothing; a rank
\* (allow_empty) starts over although its shard is there.
Begin(r) ==
    LET path == RankedPath(r)
        rows == Loaded(IF world = 1 /\ Loaded(file[path]) # <<>>
                       THEN file[path] ELSE part[path])
    IN  /\ pc[r] = "start" /\ \A f \in FilesRead(r) : Decodes(f)
        /\ written' = [written EXCEPT ![r] = Len(rows)]
        /\ IF world = 1 /\ Loaded(file[path]) # <<>>
           THEN Goto(r, "reduce") /\ UNCHANGED <<part, done>>
           ELSE /\ done' = [done EXCEPT ![r] = RowsOf(rows)]
                /\ part' = [part EXCEPT ![path] = IF @ = None THEN NoLines ELSE @]
                /\ Goto(r, "scan")
        /\ UNCHANGED <<world, file, next, window, faults>>

\* A character of a file it reads is cut: the process ends with an error, again
\* each time it is started.  The reader decodes some lines ahead, so one behind
\* a line that is not JSON may be met or not.
Undecodable(r) ==
    /\ pc[r] = "start"
    /\ \E f \in FilesRead(r) : HasCut(f)
    /\ Goto(r, "dead")
    /\ UNCHANGED <<world, disk, next, window, done, written, faults>>

\* Reads one record; it joins the window unless it is another rank's, done
\* already, or has no prompt.  A full window goes to the model.
Scan(r) ==
    LET i == next[r]
        taken == i % world = r /\ i \notin done[r] /\ Verdict[i] # "unrendered"
        gathered == IF taken THEN Append(window[r], i) ELSE window[r]
    IN  /\ pc[r] = "scan"
        /\ i < N
        /\ next' = [next EXCEPT ![r] = i + 1]
        /\ window' = [window EXCEPT ![r] = gathered]
        /\ Goto(r, IF taken /\ Len(gathered) >= Window THEN "generate" ELSE "scan")
        /\ UNCHANGED <<world, disk, done, written, faults>>

\* The last, shorter window is generated outside the loop and its try block.
LastWindow(r) ==
    /\ pc[r] = "scan"
    /\ next[r] = N
    /\ window[r] # <<>>
    /\ Goto(r, "generate_last")
    /\ UNCHANGED <<world, disk, next, window, done, written, faults>>

Generate(r) ==
    /\ pc[r] \in {"generate", "generate_last"}
    /\ Goto(r, "write")
    /\ UNCHANGED <<world, disk, next, window, done, written, faults>>

\* The model raises: in the loop the record that filled the window counts as
\* rejected and the window stays as it is, and the last window ends the process.
\* A server batch that fails has its requests sent one by one, and those that
\* fail again are rejected.
WindowFails(r) ==
    /\ pc[r] \in {"generate", "generate_last"}
    /\ Fault("window")
    /\ IF Backend = "hf"
       THEN Goto(r, IF pc[r] = "generate" THEN "scan" ELSE "dead") /\ UNCHANGED window
       ELSE /\ \E lost \in SUBSET RowsOf(window[r]) :
                  /\ lost # {}
                  /\ window' = [window EXCEPT ![r] =
                         Selection(@, {k \in DOMAIN @ : @[k] \notin lost})]
            /\ Goto(r, "write")
    /\ UNCHANGED <<world, disk, next, done, written>>

\* Writes and flushes the row of one record of the window, or rejects it.
Write(r) ==
    /\ pc[r] = "write"
    /\ window[r] # <<>>
    /\ LET i == Head(window[r])
       IN  IF Verdict[i] = "row"
           THEN /\ part' = [part EXCEPT ![RankedPath(r)] = Appended(@, i)]
                /\ written' = [written EXCEPT ![r] = @ + 1]
           ELSE UNCHANGED <<part, written>>
    /\ window' = [window EXCEPT ![r] = Tail(@)]
    /\ UNCHANGED <<world, file, pc, next, done, faults>>

WindowWritten(r) ==
    /\ pc[r] = "write"
    /\ window[r] = <<>>
    /\ Goto(r, "scan")
    /\ UNCHANGED <<world, disk, next, window, done, written, faults>>

\* All records read and written: the .part file becomes the shard.
Publish(r) ==
    LET path == RankedPath(r)
    IN  /\ pc[r] = "scan"
        /\ next[r] = N
        /\ window[r] = <<>>
        /\ IF written[r] = 0 /\ world = 1
           THEN Goto(r, "dead") /\ UNCHANGED disk
           ELSE /\ file' = [file EXCEPT ![path] = part[path]]
                /\ part' = [part EXCEPT ![path] = None]
                /\ Goto(r, "reduce")
        /\ UNCHANGED <<world, next, window, done, written, faults>>

Entered_Unsynchronized(label) ==
    {"scan", "generate", "generate_last", "write", "reduce", "barrier",
     "merge", "unlink", "print", "exit"}

\* A collective returns when every rank of the job has entered it.
Entered(label) ==
    CASE label = "reduce"  -> {"reduce", "barrier", "merge", "unlink", "print", "exit"}
      [] label = "barrier" -> {"barrier", "merge", "unlink", "print", "exit"}

AllReduce(r) ==
    /\ pc[r] = "reduce"
    /\ \A q \in Job : pc[q] \in Entered("reduce")
    /\ Goto(r, "barrier")
    /\ UNCHANGED <<world, disk, next, window, done, written, faults>>

Barrier(r) ==
    /\ pc[r] = "barrier"
    /\ \A q \in Job : pc[q] \in Entered("barrier")
    /\ Goto(r, IF r > 0 THEN "exit" ELSE IF world > 1 THEN "merge" ELSE "print")
    /\ UNCHANGED <<world, disk, next, window, done, written, faults>>

\* merge_ranked_jsonl: reads the shards there are, refuses an unreadable line
\* and a source index met twice, and replaces the teacher file in one step.
Shards == {r \in Job : file[r] # None}
IndexTwice ==
    \E r, q \in Shards : \E k \in DOMAIN file[r].lines, l \in DOMAIN file[q].lines :
        <<r, k>> # <<q, l>> /\ file[r].lines[k] = file[q].lines[l]
Mergeable ==
    /\ \A r \in Shards : Readable(file[r])
    /\ ~IndexTwice
    /\ file[Whole] # None \/ \E r \in Shards : file[r].lines # <<>>

Merge(r) ==
    /\ pc[r] = "merge"
    /\ IF Mergeable
       THEN /\ file' = [file EXCEPT ![Whole] =
                    [lines |-> InOrder(UNION {RowsOf(file[q].lines) : q \in Shards}),
                     open |-> FALSE]]
            /\ Goto(r, "unlink")
       ELSE Goto(r, "dead") /\ UNCHANGED file
    /\ UNCHANGED <<world, part, next, window, done, written, faults>>

Unlink(r) ==
    /\ pc[r] = "unlink"
    /\ IF Shards = {}
       THEN Goto(r, "print") /\ UNCHANGED file
       ELSE LET shard == CHOOSE q \in Shards : \A p \in Shards : q <= p
            IN  file' = [file EXCEPT ![shard] = None] /\ UNCHANGED pc
    /\ UNCHANGED <<world, part, next, window, done, written, faults>>

\* Rank 0 prints the totals of the all-reduce and the process ends.
Summary(r) ==
    /\ pc[r] = "print"
    /\ Goto(r, "exit")
    /\ UNCHANGED <<world, disk, next, window, done, written, faults>>

\* A rank is lost, by itself or because torchrun ends a job one of whose
\* ranks has failed; when it is in the middle of writing a row, it may leave a
\* piece of it.
Die(r) ==
    /\ pc[r] \notin Ended
    /\ Goto(r, "dead")
    /\ \/ /\ \/ Fault("die")
             \/ (\E q \in Job : pc[q] = "dead") /\ UNCHANGED faults
          /\ UNCHANGED part
       \/ /\ Fault("torn")
          /\ pc[r] = "write" /\ window[r] # <<>> /\ Verdict[Head(window[r])] = "row"
          /\ part' \in {[part EXCEPT ![RankedPath(r)] = f] :
                           f \in Torn(part[RankedPath(r)], Head(window[r]))}
    /\ UNCHANGED <<world, file, next, window, done, written>>

RankStep(r) ==
    \/ Begin(r) \/ Undecodable(r) \/ Scan(r) \/ LastWindow(r) \/ Generate(r)
    \/ Write(r) \/ WindowWritten(r) \/ Publish(r) \/ AllReduce(r) \/ Barrier(r)
    \/ Merge(r) \/ Unlink(r) \/ Summary(r)

Next ==
    \/ \E w \in Worlds : Launch(w)
    \/ \E r \in Ranks : RankStep(r) \/ WindowFails(r) \/ Die(r)
    \/ SkipStage

Spec == Init /\ [][Next]_vars

\* The stage is started again after an interruption, a process that can run
\* does, and torchrun ends the ranks left over by a failed one.
FairSpec ==
    /\ Spec
    /\ WF_vars(\E w \in Worlds : Launch(w))
    /\ \A r \in Ranks : WF_vars(RankStep(r))
    /\ \A r \in Ranks : WF_vars(Die(r) /\ faults' = faults)

-----------------------------------------------------------------------------
\* A teacher file that is there holds the row of every record that has one,
\* once and in source order, whatever was left behind by the jobs before:
\* rows of another world size, lines cut short, shards published early.
PublishedExact ==
    file[Whole] # None => file[Whole].lines = InOrder(Good)

\* A row stays on disk, in a .part file, a shard or the teacher file, until
\* the end: neither a rerun nor a rename nor the merge drops work.  Holds of
\* jobs with one world size whose lines are never cut short.
OnDisk == UNION {RowsOf(f.lines) :
                    f \in {d[n] : d \in {file, part}, n \in Names} \ {None}}
RowsKept == [][OnDisk \subseteq OnDisk']_disk

\* The number of rows rank 0 reports, which adds up what the ranks have found
\* in their .part files and what they have written since, is the number of
\* lines of the teacher file.
Total[R \in SUBSET Ranks] ==
    IF R = {} THEN 0 ELSE LET r == CHOOSE q \in R : TRUE IN written[r] + Total[R \ {r}]
TotalsMatch == pc[0] = "print" => Total[Job] = Len(file[Whole].lines)

\* A stage that is started again after each interruption gets to a teacher
\* file that the launcher accepts, for good (README.md:162-163: run the same
\* command again and the stage goes on), as long as no character was cut in a
\* file that it reads: the code does not get past one.  Nor does a single
\* process whose .part file ends in a line cut short.
EventuallyAccepted ==
    <>[]Accepted \/ []<>(\E r \in Job : \E f \in FilesRead(r) : HasCut(f))

=============================================================================
