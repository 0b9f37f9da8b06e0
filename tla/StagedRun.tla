----------------------------- MODULE StagedRun -----------------------------
(***************************************************************************)
(* What a resumable run promises: a step is completed after the steps it   *)
(* needs are ticked, and ticked when it is complete.  Neither is taken     *)
(* back, but for the steps that are named.                                 *)
(***************************************************************************)
CONSTANTS
    Steps,       \* the steps of a run
    Before,      \* the steps each of them needs
    Fragile,     \* the steps that may become incomplete again
    Redoable     \* the steps that may then be begun again

VARIABLES
    done,        \* the steps that are complete
    ticked       \* the steps that were seen to be

Init == done = {} /\ ticked = {}

Complete(st) ==
    /\ st \notin done
    /\ Before[st] \subseteq ticked
    /\ done' = done \cup {st}
    /\ UNCHANGED ticked

Tick(st) ==
    /\ st \in done
    /\ ticked' = ticked \cup {st}
    /\ UNCHANGED done

Withdraw(st) ==
    /\ st \in Fragile
    /\ done' = done \ {st}
    /\ UNCHANGED ticked

Untick(st) ==
    /\ st \in Redoable \ done
    /\ ticked' = ticked \ {st}
    /\ UNCHANGED done

Next == \E st \in Steps : Complete(st) \/ Tick(st) \/ Withdraw(st) \/ Untick(st)

Spec == Init /\ [][Next]_<<done, ticked>>
=============================================================================
