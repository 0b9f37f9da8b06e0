----------------------------- MODULE BatchSizing -----------------------------
(***************************************************************************)
(* The search for the largest batch that fits a GPU: by every rank of a    *)
(* training job before it starts (Finetuning/adaptive_batch.py), which     *)
(* then agree on one size, and by a rank that generates (select_cuda_      *)
(* batch_size of Finetuning/adaptive_inference.py).  A probe is a real     *)
(* pass; what fits is the set chosen at the start.                         *)
(*                                                                         *)
(* An operator A_Change is action or operator A with a plausible mistake   *)
(* in it, to show that a property would notice; no action uses one.        *)
(***************************************************************************)
EXTENDS Integers, FiniteSets, FiniteSetsExt

CONSTANTS
    World,      \* number of ranks
    MinBatch,   \* settings.min_batch_size
    Maximum     \* largest size that may be tried

ASSUME SizesAssumption ==
    /\ World \in Nat \ {0}
    /\ MinBatch \in Nat \ {0} /\ Maximum \in Nat /\ MinBatch <= Maximum

Ranks == 0 .. World - 1
Sizes == MinBatch .. Maximum

VARIABLES
    fits,        \* rank -> the sizes that fit
    search,      \* rank -> where its search is
    best,        \* rank -> largest size that has fitted
    candidate,   \* rank -> next size of the doubling
    low, high,   \* rank -> bounds of the binary search
    tried        \* rank -> sizes probed

searchVars == <<search, best, candidate, low, high, tried>>

SearchInit ==
    /\ fits \in [Ranks -> SUBSET Sizes]
    /\ search = [r \in Ranks |-> "minimum"]
    /\ best = [r \in Ranks |-> 0] /\ candidate = [r \in Ranks |-> 0]
    /\ low = [r \in Ranks |-> 0] /\ high = [r \in Ranks |-> 0]
    /\ tried = [r \in Ranks |-> {}]

Enter(r, label) == search' = [search EXCEPT ![r] = label]
Tried(r, n) == tried' = [tried EXCEPT ![r] = @ \cup {n}]

ProbeMinimum(r) ==
    /\ search[r] = "minimum"
    /\ Tried(r, MinBatch)
    /\ IF MinBatch \in fits[r]
       THEN /\ Enter(r, "double")
            /\ best' = [best EXCEPT ![r] = MinBatch]
            /\ candidate' = [candidate EXCEPT ![r] = 2 * MinBatch]
       ELSE Enter(r, "failed") /\ UNCHANGED <<best, candidate>>
    /\ UNCHANGED <<fits, low, high>>

\* The binary search lies above the best size, up to the limit h.
Narrow(r, h) ==
    /\ Enter(r, "middle")
    /\ low' = [low EXCEPT ![r] = best[r] + 1] /\ high' = [high EXCEPT ![r] = h]
    /\ UNCHANGED <<best, candidate>>

ProbeDouble_StopAtFailure(r) ==
    /\ search[r] = "double"
    /\ IF candidate[r] > Maximum THEN Narrow(r, best[r]) /\ UNCHANGED tried
       ELSE /\ Tried(r, candidate[r])
            /\ IF candidate[r] \in fits[r]
               THEN /\ best' = [best EXCEPT ![r] = candidate[r]]
                    /\ candidate' = [candidate EXCEPT ![r] = 2 * @]
                    /\ UNCHANGED <<search, low, high>>
               ELSE Narrow(r, candidate[r] - 1)
    /\ UNCHANGED fits

ProbeDouble(r) ==
    /\ search[r] = "double"
    /\ IF candidate[r] > Maximum THEN Narrow(r, Maximum) /\ UNCHANGED tried
       ELSE /\ Tried(r, candidate[r])
            /\ IF candidate[r] \in fits[r]
               THEN /\ best' = [best EXCEPT ![r] = candidate[r]]
                    /\ candidate' = [candidate EXCEPT ![r] = 2 * @]
                    /\ UNCHANGED <<search, low, high>>
               ELSE Narrow(r, candidate[r] - 1)
    /\ UNCHANGED fits

ProbeMiddle(r) ==
    /\ search[r] = "middle"
    /\ LET middle == (low[r] + high[r]) \div 2
       IN  IF low[r] > high[r] THEN Enter(r, "selected") /\ UNCHANGED <<best, low, high, tried>>
           ELSE /\ Tried(r, middle)
                /\ IF middle \in fits[r]
                   THEN /\ best' = [best EXCEPT ![r] = middle]
                        /\ low' = [low EXCEPT ![r] = middle + 1] /\ UNCHANGED high
                   ELSE high' = [high EXCEPT ![r] = middle - 1] /\ UNCHANGED <<best, low>>
                /\ UNCHANGED search
    /\ UNCHANGED <<fits, candidate>>

Search(r) == ProbeMinimum(r) \/ ProbeDouble(r) \/ ProbeMiddle(r)

AllSelected == \A r \in Ranks : search[r] = "selected"

\* all_reduce_min
Agreement(sizes) == Min(sizes)

----------------------------------------------------------------------------
Monotone(r) == \A m, n \in Sizes : m < n /\ n \in fits[r] => m \in fits[r]

\* A search ends with a size that was probed and fitted; and with the largest
\* there is, whenever what fits is all that is small enough.
LargestFit ==
    \A r \in Ranks : search[r] = "selected" =>
        /\ best[r] \in fits[r] \cap tried[r]
        /\ Monotone(r) => best[r] = Max(fits[r])
=============================================================================
