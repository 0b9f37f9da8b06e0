--------------------------- MODULE ResumableBench ---------------------------
(***************************************************************************)
(* run_flashattn_benchmark of Benchmark/native_fa4_benchmark.py with       *)
(* finalize_fa4_records: methods are measured one after another, each on   *)
(* every sample, and a row is appended to results.partial.jsonl for every  *)
(* measurement.  A run that died is started again with --resume and the    *)
(* same run id, which reads the rows and measures what has no success.     *)
(*                                                                         *)
(* A cell is a method with a sample and a repetition of it; a row is its   *)
(* cell, how it went ("invalid_output" is a failure) and the configuration *)
(* it was measured with.  Audits, metrics and the other files are left     *)
(* out.  A file that was cut in the middle of a line or of a JSON value    *)
(* is Torn: reading it raises.  A method is proved when its configuration  *)
(* shows that its attention was dispatched to FA4 in a measurement.        *)
(*                                                                         *)
(* An operator A_Change is action or operator A with a plausible mistake   *)
(* in it, to show that a property would notice; no action uses one.        *)
(***************************************************************************)
EXTENDS Integers, Sequences, SequencesExt, FiniteSets, FiniteSetsExt

CONSTANTS
    Methods,        \* number of methods, which run in the order 1 .. Methods
    Samples,        \* number of samples, with their repetitions
    SampleRetries,  \* further attempts at a cell
    Configs,        \* experiment signatures somebody may start a run with
    MaxFaults,      \* bound on what goes wrong in a behaviour
    MaxLaunches,    \* bound on the processes of a behaviour
    None, Torn

Cells == (1 .. Methods) \X (1 .. Samples)
RowSpace == [cell : Cells, status : {"success", "failed"}, config : Configs]

ASSUME BenchAssumption ==
    /\ Methods \in Nat \ {0} /\ Samples \in Nat \ {0} /\ SampleRetries \in Nat
    /\ MaxFaults \in Nat /\ MaxLaunches \in Nat
    /\ None \notin Configs \cup Nat /\ Torn \notin Configs /\ None # Torn
    /\ {None, Torn} \cap Seq(RowSpace) = {}

VARIABLES
    partial,   \* results.partial.jsonl: rows, None without a file, or Torn
    results,   \* the rows of results.jsonl
    state,     \* the signature in state.json
    saved,     \* the methods its method_configs prove
    pc,        \* where the process is; "ended" without one
    config,    \* the signature of the process
    records,   \* its rows in memory
    method, sample, attempt,
    lost,      \* gpu_context_lost
    proved,    \* the methods that method_configs proves
    dispatched, \* dispatch_totals of the method is not zero
    verdict,   \* status in the last report, None without one
    last,      \* cell -> how its last measurement by the process went
    launches, faults

fileVars == <<partial, results, state, saved>>
loopVars == <<method, sample, attempt>>
proofVars == <<proved, dispatched>>
countVars == <<launches, faults>>
vars == <<fileVars, pc, config, records, loopVars, lost, proofVars, verdict, last, countVars>>

Cell == <<method, sample>>
Row(how) == [cell |-> Cell, status |-> how, config |-> config]

RowsOf(rs, c) == {i \in DOMAIN rs : rs[i].cell = c}
Succeeded(rs, c) == \E i \in RowsOf(rs, c) : rs[i].status = "success"

Goto(label) == pc' = label
Fault == faults < MaxFaults /\ faults' = faults + 1

Init ==
    /\ partial = None /\ results = None /\ state = None /\ saved = {}
    /\ pc = "ended" /\ config = None /\ records = << >>
    /\ method = 1 /\ sample = 1 /\ attempt = 0
    /\ lost = FALSE /\ proved = {} /\ dispatched = FALSE
    /\ verdict = None /\ last = [c \in Cells |-> None]
    /\ launches = 0 /\ faults = 0

----------------------------------------------------------------------------
(* The start of a process. *)

Start(c, label, rs, proofs) ==
    /\ pc = "ended" /\ launches < MaxLaunches
    /\ launches' = launches + 1
    /\ config' = c /\ records' = rs /\ Goto(label)
    /\ method' = 1 /\ sample' = 1 /\ attempt' = 0 /\ lost' = FALSE
    /\ proved' = proofs /\ dispatched' = FALSE
    /\ last' = [x \in Cells |-> None]
    /\ UNCHANGED <<fileVars, verdict, faults>>

\* A new run refuses a directory that has rows, and empties the file.
Begin(c) == partial = None /\ results = None /\ Start(c, "create", << >>, {})

Create ==
    /\ pc = "create"
    /\ partial' = << >> /\ Goto("sign")
    /\ UNCHANGED <<results, state, saved, config, records, loopVars, lost, proofVars, verdict, last,
                   countVars>>

Sign ==
    /\ pc = "sign"
    /\ state' = config /\ saved' = proved /\ Goto("load")
    /\ UNCHANGED <<partial, results, config, records, loopVars, lost, proofVars, verdict, last,
                   countVars>>

\* What a resumed run reads: the partial rows, or the last results when the
\* file has none.
Saved == IF partial \in {None, << >>} THEN IF results = None THEN << >> ELSE results
         ELSE partial

Resume_AnyConfig(c) == state \notin {None, Torn} /\ Saved # Torn /\ Start(c, "load", Saved, saved)

Resume(c) == state = c /\ Saved # Torn /\ Start(c, "load", Saved, saved)

----------------------------------------------------------------------------
(* The loop over methods and samples. *)

Append2(rs, row) == IF rs = None THEN <<row>> ELSE Append(rs, row)

\* A row goes to the memory, from which rs is left, and to the file.
Recorded(rs, how) ==
    /\ records' = Append(rs, Row(how))
    /\ partial' = Append2(partial, Row(how))
    /\ last' = [last EXCEPT ![Cell] = how]
    /\ UNCHANGED <<results, state, saved>>

\* Loading, warming up and their checks; what the configuration proved of the
\* method is forgotten.
Load ==
    /\ pc = "load"
    /\ dispatched' = FALSE
    /\ IF method > Methods THEN Goto("finalize") /\ UNCHANGED proved
       ELSE Goto("sample") /\ proved' = proved \ {method}
    /\ UNCHANGED <<fileVars, config, records, loopVars, lost, verdict, last, countVars>>

\* The earliest row of a cell decides whether it is measured; it is dropped
\* from the memory first if it is a failure.
Previous == IF RowsOf(records, Cell) = {} THEN None ELSE Min(RowsOf(records, Cell))

TakeCell_SkipRecorded ==
    /\ pc = "sample"
    /\ IF sample > Samples THEN Goto("close") /\ UNCHANGED <<records, sample>>
       ELSE IF Previous # None THEN sample' = sample + 1 /\ UNCHANGED <<pc, records>>
       ELSE Goto("measure") /\ UNCHANGED <<records, sample>>
    /\ attempt' = 0
    /\ UNCHANGED <<fileVars, config, method, lost, proofVars, verdict, last, countVars>>

TakeCell ==
    /\ pc = "sample"
    /\ IF sample > Samples THEN Goto("close") /\ UNCHANGED <<records, sample>>
       ELSE IF Previous # None /\ records[Previous].status = "success"
       THEN sample' = sample + 1 /\ UNCHANGED <<pc, records>>
       ELSE /\ Goto("measure") /\ UNCHANGED sample
            /\ records' = IF Previous = None THEN records ELSE RemoveAt(records, Previous)
    /\ attempt' = 0
    /\ UNCHANGED <<fileVars, config, method, lost, proofVars, verdict, last, countVars>>

Measure ==
    /\ pc = "measure"
    /\ \/ Recorded(records, "success") /\ UNCHANGED faults
       \/ Recorded(records, "failed") /\ Fault              \* no token came out
    /\ dispatched' = TRUE /\ Goto("recorded")
    /\ UNCHANGED <<config, loopVars, lost, proved, verdict, launches>>

NextCell == Goto("sample") /\ sample' = sample + 1 /\ UNCHANGED attempt

AfterRecord ==
    /\ pc = "recorded"
    /\ NextCell
    /\ UNCHANGED <<fileVars, config, records, method, lost, proofVars, verdict, last, countVars>>

\* An attempt fails; it may have recorded a result before.  After the last
\* one a failure is recorded.
AttemptFails ==
    /\ pc \in {"measure", "recorded"} /\ Fault
    /\ IF attempt < SampleRetries
       THEN /\ Goto("measure") /\ attempt' = attempt + 1
            /\ UNCHANGED <<fileVars, records, sample, last>>
       ELSE Recorded(records, "failed") /\ NextCell
    /\ dispatched' \in {dispatched, TRUE}
    /\ UNCHANGED <<config, method, lost, proved, verdict, launches>>

\* The CUDA context is gone: the method ends with a failure for this cell
\* and nothing for the cells after it.
ContextLost ==
    /\ pc \in {"measure", "recorded"} /\ Fault
    /\ Recorded(records, "failed")
    /\ lost' = TRUE /\ dispatched' \in {dispatched, TRUE} /\ Goto("close")
    /\ UNCHANGED <<config, loopVars, proved, verdict, launches>>

\* An exception of the method: loading, warming up, clearing the cache after
\* a failed attempt, the audits.  One that raises before the model is loaded keeps
\* its configuration.
MethodFails ==
    /\ pc \in {"load", "measure", "close"} /\ method <= Methods /\ Fault
    /\ Goto("fail") /\ sample' = 1
    /\ lost' \in BOOLEAN /\ proved' \in {proved, proved \ {method}}
    /\ UNCHANGED <<fileVars, config, records, method, attempt, dispatched, verdict, last, launches>>

\* Every cell of the method without a success gets a failure.
Fail ==
    /\ pc = "fail"
    /\ IF sample > Samples
       THEN Goto("close_failed") /\ UNCHANGED <<fileVars, records, sample, last>>
       ELSE /\ sample' = sample + 1 /\ UNCHANGED pc
            /\ IF Succeeded(records, Cell) THEN UNCHANGED <<fileVars, records, last>>
               ELSE Recorded(records, "failed")
    /\ UNCHANGED <<config, method, attempt, lost, proofVars, verdict, countVars>>

\* persist_state, and the cache is cleared, which may fail.  A method is proved by
\* what this process has measured of it.
Close ==
    /\ pc \in {"close", "close_failed"}
    /\ proved' = proved \cup (IF pc = "close" /\ dispatched THEN {method} ELSE {})
    /\ state' = config /\ saved' = proved'
    /\ \/ UNCHANGED <<lost, faults>>
       \/ Fault /\ lost' = TRUE
    /\ method' = method + 1 /\ sample' = 1
    /\ IF lost' THEN Goto("skip") ELSE Goto("load")
    /\ UNCHANGED <<partial, results, config, records, attempt, dispatched, verdict, last, launches>>

Skip_None ==
    /\ pc = "skip"
    /\ Goto("finalize")
    /\ UNCHANGED <<fileVars, config, records, loopVars, lost, proofVars, verdict, last, countVars>>

\* The cells of the later methods that have no row get a failure.
Skip ==
    /\ pc = "skip"
    /\ IF method > Methods
       THEN Goto("finalize") /\ UNCHANGED <<fileVars, records, method, sample, last>>
       ELSE /\ UNCHANGED pc
            /\ IF sample < Samples THEN sample' = sample + 1 /\ UNCHANGED method
               ELSE sample' = 1 /\ method' = method + 1
            /\ IF RowsOf(records, Cell) # {} THEN UNCHANGED <<fileVars, records, last>>
               ELSE Recorded(records, "failed")
    /\ UNCHANGED <<config, attempt, lost, proofVars, verdict, countVars>>

----------------------------------------------------------------------------
(* finalize_fa4_records, and the files of the report. *)

Firsts(rs) == {i \in DOMAIN rs : i = Min(RowsOf(rs, rs[i].cell))}
Nth(S, k) == CHOOSE i \in S : Cardinality({j \in S : j < i}) = k - 1

Canonical_First(rs) == [k \in 1 .. Cardinality(Firsts(rs)) |-> rs[Nth(Firsts(rs), k)]]

\* One row for each cell, where its first was, as the last of them says.
Canonical(rs) ==
    LET cell(k) == rs[Nth(Firsts(rs), k)].cell
    IN  [k \in 1 .. Cardinality(Firsts(rs)) |-> rs[Max(RowsOf(rs, cell(k)))]]

Failures(rs) == {i \in DOMAIN rs : rs[i].status # "success"}

Status_Complete(rs) == IF Len(rs) = Methods * Samples THEN "success" ELSE "failure"

\* native_run_status as far as validate_flashattn_runtime, completeness and failures
\* decide, without its gates on quality, schema, parity and speed.
Status(rs) ==
    IF proved = 1 .. Methods /\ Len(rs) = Methods * Samples /\ Failures(rs) = {}
    THEN "success" ELSE "failure"

Finalize ==
    /\ pc = "finalize"
    /\ records' = Canonical(records)
    /\ Goto("rewrite")
    /\ UNCHANGED <<fileVars, config, loopVars, lost, proofVars, verdict, last, countVars>>

Rewrite ==
    /\ pc = "rewrite"
    /\ partial' = records /\ Goto("report")
    /\ UNCHANGED <<results, state, saved, config, records, loopVars, lost, proofVars, verdict, last,
                   countVars>>

Report ==
    /\ pc = "report"
    /\ results' = records /\ verdict' = Status(records) /\ Goto("sign_off")
    /\ UNCHANGED <<partial, state, saved, config, records, loopVars, lost, proofVars, last,
                   countVars>>

Forgotten ==
    /\ records' = << >> /\ config' = None
    /\ method' = 1 /\ sample' = 1 /\ attempt' = 0 /\ lost' = FALSE
    /\ proved' = {} /\ dispatched' = FALSE
    /\ last' = [c \in Cells |-> None]

SignOff ==
    /\ pc = "sign_off"
    /\ state' = config /\ saved' = proved /\ Goto("ended") /\ Forgotten
    /\ UNCHANGED <<partial, results, verdict, countVars>>

\* The process is killed.  No file is replaced atomically: one that is being
\* written may be left empty, cut after a row or cut inside one.
Prefixed(rs) == {SubSeq(rs, 1, i) : i \in 0 .. Len(rs)} \cup {Torn}

Crash ==
    /\ pc # "ended" /\ Fault
    /\ partial' \in {partial} \cup (IF pc = "rewrite" THEN Prefixed(records)
                                   ELSE IF pc \in {"measure", "recorded", "fail", "skip"} THEN {Torn}
                                   ELSE {})
    /\ results' \in {results} \cup (IF pc = "report" THEN Prefixed(records) ELSE {})
    /\ state' \in {state} \cup (IF pc \in {"sign", "close", "close_failed", "sign_off"} THEN {Torn} ELSE {})
    /\ Goto("ended") /\ Forgotten
    /\ UNCHANGED <<saved, verdict, launches>>

----------------------------------------------------------------------------
Run == \/ Create \/ Sign \/ Load \/ TakeCell \/ Measure \/ AfterRecord \/ Fail \/ Close
       \/ Skip \/ Finalize \/ Rewrite \/ Report \/ SignOff

Launch == \E c \in Configs : Begin(c) \/ Resume(c)

Next == Run \/ Launch \/ AttemptFails \/ ContextLost \/ MethodFails \/ Crash

Spec == Init /\ [][Next]_vars

\* A process goes on, and somebody resumes a run that has not passed.
FairSpec == Spec /\ WF_vars(Run) /\ WF_vars(Launch)

----------------------------------------------------------------------------
(* Properties. *)

RowsIn(file) == IF file \in {None, Torn} THEN {} ELSE {file[i] : i \in DOMAIN file}

\* All rows of a run, in its files and in memory, were measured with one
\* configuration, the one state.json names: whatever the processes of a run id are
\* started with, one after another, two experiments are never mixed.
OneConfiguration ==
    \A r \in RowsIn(partial) \cup RowsIn(results) \cup RowsIn(records) : state \in {r.config, Torn}

\* A run that is reported as a success has one row for each cell, and it is a
\* success, whatever failed, was lost or was measured twice on the way.
PassMeansAll ==
    pc = "sign_off" /\ verdict = "success" =>
        \A c \in Cells : \E i \in DOMAIN results :
            RowsOf(results, c) = {i} /\ results[i].status = "success"

\* What a process measured is what it reports: for every cell the outcome of
\* its last measurement, never an older row it read or an earlier attempt.
LatestReported ==
    pc = "sign_off" =>
        \A c \in Cells : last[c] # None =>
            \E i \in DOMAIN results : results[i].cell = c /\ results[i].status = last[c]

\* A cell without a row in a report belongs to a method with a failure in it:
\* a gap is never unexplained.
GapsExplained ==
    pc = "sign_off" =>
        \A c \in Cells : RowsOf(results, c) = {} =>
            \E i \in Failures(results) : results[i].cell[1] = c[1]

\* A run that no process can take up again: a torn file, or a directory that
\* was claimed before its signature was written.
Stuck ==
    /\ pc = "ended"
    /\ state \in {None, Torn} \/ Saved = Torn
    /\ partial # None

\* A run that is resumed often enough reports a success for every cell in the end,
\* unless a crash has torn one of its files.
EventuallyMeasured ==
    <>(\/ pc = "sign_off" /\ \A c \in Cells : Succeeded(results, c)
       \/ Stuck)

\* It need not pass: a resumed process that finds nothing left to measure of a
\* method has no proof of its dispatch, and no later one ever has.
EventuallyPasses == <>(verdict = "success" \/ Stuck)
=============================================================================
