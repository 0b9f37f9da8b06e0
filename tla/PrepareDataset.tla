--------------------------- MODULE PrepareDataset ---------------------------
(***************************************************************************)
(* Finetuning/prepare_data.py: a corpus is normalised, its documents are   *)
(* assigned to a training or an evaluation split, and the two splits and   *)
(* their manifest are published.                                           *)
(*                                                                         *)
(* A line of a corpus is Malformed or its document and its id; NoId is a   *)
(* line without one, whose id is made of its line number.  What the hash   *)
(* of a document says of its split is part of a preparation: it is a       *)
(* function of the seed and the document; ratio tells whether any document *)
(* can be chosen for evaluation.  Preparations run one at a time.          *)
(*                                                                         *)
(* An operator A_Change is action or operator A with a plausible mistake   *)
(* in it, to show that a property would notice; no action uses one.        *)
(***************************************************************************)
EXTENDS Integers, SequencesExt, FiniteSets, Selections

CONSTANTS
    Preparations,   \* command lines: [lines, evalDocs, ratio, limit, force]
    MaxKills,       \* bound on the number of killed preparations
    Malformed,      \* a line that is refused
    NoId,           \* a line without an id
    NoFile          \* an absent file

SplitNames == {"train", "eval"}
Published == <<"train", "eval", "manifest">>

\* An id is a sequence, so that it can be made longer.
IsSequence(s) == Len(s) \in Nat /\ s = [k \in 1 .. Len(s) |-> s[k]]

ASSUME PreparationsAssumption ==
    /\ MaxKills \in Nat
    /\ \A p \in Preparations :
          /\ IsSequence(p.lines)
          /\ \A k \in DOMAIN p.lines : p.lines[k] # Malformed =>
                /\ DOMAIN p.lines[k] = {"doc", "id"}
                /\ p.lines[k].id = NoId \/ IsSequence(p.lines[k].id)
          /\ p.limit \in Nat /\ p.force \in BOOLEAN /\ p.ratio \in BOOLEAN
          /\ ~p.ratio => p.evalDocs = {}

VARIABLES
    split,      \* the published files
    staged,     \* the files of the preparation that runs, in its own directory
    toPublish,  \* the names it has still to replace
    outcome,    \* how the last preparation went
    kills       \* preparations killed so far

prepareVars == <<split, staged, toPublish, outcome, kills>>

NoFiles == [n \in ToSet(Published) |-> NoFile]

PrepareInit ==
    /\ split = NoFiles
    /\ staged = NoFiles
    /\ toPublish = <<>>
    /\ outcome = "none"
    /\ kills = 0

-----------------------------------------------------------------------------
DocsOf(s) == {s[k].doc : k \in DOMAIN s}
Of(s, S) == Selection(s, {k \in DOMAIN s : s[k].doc \in S})

\* The id of line k: its own or one of its number; if it is taken, with the
\* line's number, and then with the first number from 2 on that is free.
RecordId(line, k, seen) ==
    LET base == IF line.id = NoId THEN <<"line", k>> ELSE line.id
        spare(n) == base \o (IF n = 1 THEN <<k>> ELSE <<k, n>>)
    IN  IF base \notin seen THEN base
        ELSE spare(CHOOSE n \in 1 .. Cardinality(seen) + 1 :
                      /\ spare(n) \notin seen
                      /\ \A q \in 1 .. n - 1 : spare(q) \in seen)

\* iter_finetune_jsonl on the lines it reads, none of which is malformed.
Normalized(lines) ==
    LET id[k \in 1 .. Len(lines)] ==
            RecordId(lines[k], k, {id[q] : q \in 1 .. k - 1})
    IN  [k \in 1 .. Len(lines) |-> [doc |-> lines[k].doc, id |-> id[k]]]

MoveGroup_OneLine(source) ==
    [moved |-> <<Head(source)>>, remaining |-> Tail(source)]

\* _move_one_document_group, of a split with more than one document.
MoveGroup(source) ==
    LET group == {Head(source).doc}
    IN  [moved |-> Of(source, group), remaining |-> Of(source, DocsOf(source) \ group)]

\* The two splits as the documents' hashes give them, and with a group moved
\* to the one that would be empty (_write_non_empty_eval_fallback).
Assigned(p, records) ==
    [train |-> Of(records, DocsOf(records) \ p.evalDocs), eval |-> Of(records, p.evalDocs)]
NeedsGroup(s) == (s.train = <<>> \/ s.eval = <<>>) /\ Len(s.train) + Len(s.eval) >= 2
Filled(p, s) ==
    IF ~NeedsGroup(s) \/ ~p.ratio THEN s
    ELSE IF s.eval = <<>>
    THEN LET m == MoveGroup(s.train) IN [train |-> m.remaining, eval |-> m.moved]
    ELSE LET m == MoveGroup(s.eval) IN [train |-> m.moved, eval |-> m.remaining]

\* The counts that go with Filled.  The group moved to an empty training split is
\* counted for the evaluation split, and what remains there for training: the
\* result of _move_one_document_group is unpacked in the wrong order.
RecordedCounts(p, s) ==
    LET filled == Filled(p, s)
        lengths == [train |-> Len(filled.train), eval |-> Len(filled.eval)]
    IN  IF p.ratio /\ NeedsGroup(s) /\ s.train = <<>>
        THEN [train |-> lengths.eval, eval |-> lengths.train] ELSE lengths

\* max_samples ends the reading before the next line is looked at.
Read(p) == SubSeq(p.lines, 1, IF p.limit < Len(p.lines) THEN p.limit ELSE Len(p.lines))

-----------------------------------------------------------------------------
Idle == toPublish = <<>>
Keep == UNCHANGED <<split, staged, toPublish, kills>>

\* Files that are there are protected, the remains of a killed preparation
\* included.
Protected(p) == ~p.force /\ \E n \in DOMAIN split : split[n] # NoFile

\* Nothing is published of a malformed line, no line at all, documents that
\* cannot be separated, or a training split that stays empty.
Usable(p) ==
    /\ Malformed \notin ToSet(Read(p))
    /\ LET records == Normalized(Read(p))
           assigned == Assigned(p, records)
       IN  /\ records # <<>>
           /\ p.ratio /\ NeedsGroup(assigned) => Cardinality(DocsOf(records)) > 1
           /\ RecordedCounts(p, assigned).train # 0

Manifest(counts, ratio) == [train |-> counts.train, eval |-> counts.eval, ratio |-> ratio]

\* Reads the source into a directory of its own, which no other process sees.
Stage(p) ==
    LET assigned == Assigned(p, Normalized(Read(p)))
        splits == Filled(p, assigned)
    IN  /\ staged' = [train |-> splits.train, eval |-> splits.eval,
                      manifest |-> Manifest(RecordedCounts(p, assigned), p.ratio)]
        /\ toPublish' = Published
        /\ outcome' = "running"
        /\ UNCHANGED <<split, kills>>

\* prepare_finetune_dataset up to its first visible write.
Prepare(p) ==
    /\ Idle
    /\ IF Protected(p) THEN outcome' = "refused" /\ Keep
       ELSE IF ~Usable(p) THEN outcome' = "raised" /\ Keep
       ELSE Stage(p)

\* One of the three replacements.
PublishFile ==
    /\ ~Idle
    /\ split' = [split EXCEPT ![Head(toPublish)] = staged[Head(toPublish)]]
    /\ toPublish' = Tail(toPublish)
    /\ IF Len(toPublish) = 1
       THEN outcome' = "done" /\ staged' = NoFiles
       ELSE UNCHANGED <<outcome, staged>>
    /\ UNCHANGED kills

\* The process is killed between two of them.
KillPreparation ==
    /\ ~Idle
    /\ kills < MaxKills /\ kills' = kills + 1
    /\ toPublish' = <<>>
    /\ outcome' = "killed"
    /\ UNCHANGED <<split, staged>>

PrepareNext == (\E p \in Preparations : Prepare(p)) \/ PublishFile \/ KillPreparation

PrepareSpec == PrepareInit /\ [][PrepareNext]_prepareVars

-----------------------------------------------------------------------------
Ids(s) == {s[k].id : k \in DOMAIN s}

\* The manifest counts what is in the splits.  Its two counts may have changed
\* places, but only if all of the training split is one document, as it is when
\* the fall-back has filled it.
CountsMatch(s) ==
    \/ s.manifest.train = Len(s.train) /\ s.manifest.eval = Len(s.eval)
    \/ /\ s.manifest.train = Len(s.eval) /\ s.manifest.eval = Len(s.train)
       /\ Cardinality(DocsOf(s.train)) = 1

\* No document is in both splits, every record has an id of its own over both,
\* both splits have records if there are documents to share out, and the manifest
\* counts what is in them.
Sound(s) ==
    /\ DocsOf(s.train) \cap DocsOf(s.eval) = {}
    /\ Cardinality(Ids(s.train) \cup Ids(s.eval)) = Len(s.train) + Len(s.eval)
    /\ CountsMatch(s)
    /\ s.train # <<>>
    /\ s.eval = <<>> => ~s.manifest.ratio \/ Len(s.train) = 1

\* The files are sound after a preparation that ended well, whatever killed or
\* forced preparations of other corpora left behind.
SplitsSound == outcome = "done" => Sound(split)
=============================================================================
