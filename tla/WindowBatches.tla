---------------------------- MODULE WindowBatches ----------------------------
(***************************************************************************)
(* How a rank that has the target model generates for a window of records: *)
(* flush_window of Finetuning/generate_targets.py with                     *)
(* length_bucket_batches and run_with_oom_backoff of adaptive_inference.py.*)
(* The records are sorted by length and cut into batches; a batch that     *)
(* runs out of memory is halved, and the size stays what it came to.  The  *)
(* limit of tokens is looked at when a record is added to a batch, and for *)
(* the first record of the window: one that is over it by itself ends the  *)
(* flush if it is the first, and else is generated alone.                  *)
(***************************************************************************)
EXTENDS BatchSizing, Sequences, Functions

CONSTANTS
    Lengths,     \* tokens of each record of the window, with its answer
    TokenLimits, \* choices of --max-tokens-per-batch; 0 is no limit
    MaxOoms      \* bound on the allocation failures of a behaviour

ASSUME WindowAssumption ==
    /\ Lengths \in Seq(Nat \ {0}) /\ Len(Lengths) >= Maximum
    /\ TokenLimits \in SUBSET Nat /\ TokenLimits # {}
    /\ MaxOoms \in Nat

VARIABLES
    limit,      \* max_tokens
    flush,      \* where the flush is
    size,       \* current_batch_size
    rest,       \* records that are in no batch yet
    batch,      \* the present batch
    offset,     \* records of the present batch that are done
    subset,     \* the records that are tried
    trial,      \* how many of them
    answered,   \* record -> times it was generated
    ooms

windowVars == <<flush, size, rest, batch, offset, subset, trial, answered, ooms>>

Records == DOMAIN Lengths

Shorter(i, j) == Lengths[i] < Lengths[j] \/ (Lengths[i] = Lengths[j] /\ i < j)

\* The records in the order of their lengths.
ByLength ==
    [k \in Records |->
        CHOOSE i \in Records : Cardinality({j \in Records : Shorter(j, i)}) = k - 1]

\* _padded_tokens: every record takes as much as the longest.
Padded(b) == IF b = << >> THEN 0 ELSE Max({Lengths[i] : i \in Range(b)}) * Len(b)

\* Too many records for the size the window was begun with, or too long.
Full(b) == Len(b) > best[0] \/ (limit > 0 /\ Padded(b) > limit)

\* _window_batches raises only when the first and shortest record of a window
\* is over the limit by itself.
FirstTooLong == batch = << >> /\ limit > 0 /\ Lengths[Head(rest)] > limit

\* _window_batches yields the longest run of records that is not too much, and
\* at least one record, which it does not look at again.
Longest(rs) ==
    Max({1} \cup {k \in DOMAIN rs : ~Full(SubSeq(rs, 1, k))})

WindowInit ==
    /\ limit \in TokenLimits
    /\ flush = "probe" /\ size = MinBatch
    /\ rest = ByLength /\ batch = << >> /\ offset = 0 /\ subset = << >> /\ trial = 0
    /\ answered = [i \in Records |-> 0] /\ ooms = 0

\* The size found by the search is what the window is begun with.
Selected ==
    /\ flush = "probe" /\ search[0] \in {"selected", "failed"}
    /\ IF search[0] = "failed" THEN flush' = "raised" /\ UNCHANGED size
       ELSE flush' = "batch" /\ size' = best[0]
    /\ UNCHANGED <<rest, batch, offset, subset, trial, answered, ooms>>

\* The ValueError of one prepared example that exceeds max_tokens_per_batch.
Refuse ==
    /\ flush = "batch" /\ FirstTooLong
    /\ flush' = "raised"
    /\ UNCHANGED <<size, rest, batch, offset, subset, trial, answered, ooms>>

\* The next part of the batch, or the next batch, or the end of the window.
Take ==
    /\ flush = "batch" /\ ~FirstTooLong
    /\ IF offset < Len(batch)
       THEN /\ subset' = SubSeq(batch, offset + 1, Min({offset + size, Len(batch)}))
            /\ trial' = Len(subset')
            /\ flush' = "work" /\ UNCHANGED <<rest, batch, offset>>
       ELSE /\ UNCHANGED <<subset, trial>>
            /\ IF rest = << >> THEN flush' = "rows" /\ UNCHANGED <<rest, batch, offset>>
               ELSE /\ batch' = SubSeq(rest, 1, Longest(rest))
                    /\ rest' = SubSeq(rest, Longest(rest) + 1, Len(rest))
                    /\ offset' = 0 /\ UNCHANGED flush
    /\ UNCHANGED <<size, answered, ooms>>

Work_SkipRest ==
    /\ flush = "work"
    /\ answered' = [i \in Records |-> IF \E k \in 1 .. trial : subset[k] = i
                                     THEN answered[i] + 1 ELSE answered[i]]
    /\ size' = Min({size, trial}) /\ offset' = offset + Len(subset)
    /\ flush' = "batch"
    /\ UNCHANGED <<rest, batch, subset, trial, ooms>>

Work ==
    /\ flush = "work"
    /\ answered' = [i \in Records |-> IF \E k \in 1 .. trial : subset[k] = i
                                     THEN answered[i] + 1 ELSE answered[i]]
    /\ size' = Min({size, trial}) /\ offset' = offset + trial
    /\ flush' = "batch"
    /\ UNCHANGED <<rest, batch, subset, trial, ooms>>

\* The smallest batch that does not fit ends the flush with an exception.
OutOfMemory ==
    LET smallest == Min({MinBatch, Len(subset)})
    IN  /\ flush = "work" /\ ooms < MaxOoms /\ ooms' = ooms + 1
        /\ IF trial <= smallest THEN flush' = "raised" /\ UNCHANGED trial
           ELSE trial' = Max({smallest, trial \div 2}) /\ UNCHANGED flush
        /\ UNCHANGED <<size, rest, batch, offset, subset, answered>>

Flush == Selected \/ Refuse \/ Take \/ Work \/ OutOfMemory

----------------------------------------------------------------------------
\* A batch that is tried is no larger than the size that was probed, and takes
\* no more padded tokens than allowed, whatever was halved before it, unless it
\* is one record, which may be over the limit by itself; when the rows are
\* written every record of the window has been generated, and once: a halved
\* batch skips none and repeats none; and the flush fails without an allocation
\* failure only if no record of the window is within the limit.
WindowServed ==
    /\ flush = "work" =>
          /\ trial <= best[0] /\ trial <= Len(subset)
          /\ limit > 0 /\ trial > 1 => Padded(SubSeq(subset, 1, trial)) <= limit
    /\ \A i \in Records : answered[i] <= 1 /\ (flush = "rows" => answered[i] = 1)
    /\ flush = "raised" /\ search[0] = "selected" /\ ooms = 0 =>
          limit > 0 /\ \A i \in Records : Lengths[i] > limit

\* Without an allocation failure the size stays the one that was selected
\* ("halving its batch size only when CUDA reports an OOM").
ShrinksOnlyOnOom == flush \in {"batch", "work", "rows"} /\ ooms = 0 => size = best[0]
=============================================================================
