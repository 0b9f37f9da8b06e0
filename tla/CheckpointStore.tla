-------------------------- MODULE CheckpointStore --------------------------
(***************************************************************************)
(* Finetuning/checkpoint.py: the step directories of one run, the link to  *)
(* the latest of them, and the file operations of CheckpointManager.save   *)
(* one by one, since a crash may fall between any two of them.             *)
(*                                                                         *)
(* shutil.rmtree deletes the entries of a directory in the order in which  *)
(* the file system lists them; a directory is therefore the set of its     *)
(* entries, of which two kinds are told apart: the COMPLETE file and the   *)
(* rest.  Staging directories and the temporary link have hidden names     *)
(* that no reader looks for; what a crash leaves of them is left out.      *)
(***************************************************************************)
EXTENDS Integers, FiniteSets

CONSTANTS
    TotalSteps,    \* the last step of a run
    Keeps,         \* choices for max_checkpoints; the trainer passes 0
    MaxLaunches,   \* bound on the number of jobs
    None           \* no directory, no link

Steps == 1 .. TotalSteps
Jobs == 1 .. MaxLaunches
Files == {"COMPLETE", "rest"}
Directory == [files : SUBSET Files, job : Jobs]

ASSUME StoreAssumption ==
    /\ TotalSteps \in Nat \ {0}
    /\ Keeps \subseteq Nat
    /\ MaxLaunches \in Nat
    /\ None \notin Int \cup Directory

VARIABLES
    keep,      \* max_checkpoints
    dir,       \* step -> its directory: entries and the job that wrote it
    link,      \* the step the latest link names
    victims    \* steps a rotation has still to remove

disk == <<dir, link>>
storeVars == <<keep, disk, victims>>

Complete(s) == dir[s] # None /\ "COMPLETE" \in dir[s].files
Whole(s) == dir[s] # None /\ dir[s].files = Files

\* latest_dir: what the link names, unless that is incomplete.
LatestDir == IF link # None /\ Complete(link) THEN link ELSE None

StoreInit ==
    /\ keep \in Keeps
    /\ dir = [s \in Steps |-> None]
    /\ link = None
    /\ victims = {}

\* shutil.rmtree: some entries go, and with the last one the directory.
Shrink(s) ==
    \/ \E f \in SUBSET dir[s].files :
          f # dir[s].files /\ dir' = [dir EXCEPT ![s].files = f]
    \/ dir' = [dir EXCEPT ![s] = None]

\* os.replace(staging, destination)
Publish(s, j) ==
    /\ dir[s] = None
    /\ dir' = [dir EXCEPT ![s] = [files |-> Files, job |-> j]]

\* _rotate: all but the highest complete steps go.
Obsolete_Newest ==
    IF keep = 0 THEN {}
    ELSE {s \in Steps : Complete(s) /\ Cardinality({t \in Steps : Complete(t) /\ t < s}) >= keep}

Obsolete ==
    IF keep = 0 THEN {}
    ELSE {s \in Steps : Complete(s) /\ Cardinality({t \in Steps : Complete(t) /\ t > s}) >= keep}

StoreTypeOK ==
    /\ keep \in Keeps
    /\ dir \in [Steps -> Directory \cup {None}]
    /\ link \in Steps \cup {None}
    /\ victims \in SUBSET Steps
=============================================================================
