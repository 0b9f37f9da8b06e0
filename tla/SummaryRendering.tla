-------------------------- MODULE SummaryRendering --------------------------
(***************************************************************************)
(* A record on its way through the tokenizer (Finetuning/data.py): the     *)
(* prompt the teacher generates from (render_summary_prompt), its answer,  *)
(* and the example the draft is trained on (render_summary_example), which *)
(* looks for document and answer in the tokens of the whole chat, cuts the *)
(* document to what its budget leaves and masks all but the answer.        *)
(*                                                                         *)
(* A chat is tokenised part by part, but the first token of a document or  *)
(* of an answer may be joined with what the template has before it.        *)
(***************************************************************************)
EXTENDS Integers, Sequences, FiniteSets, FiniteSetsExt

CONSTANTS
    Tokens,          \* the vocabulary of the tokenizer
    Before, After,   \* the template before and after the document
    Opening,      \* what it puts before an answer that is given
    Closing,      \* what it puts behind it
    Control,      \* special tokens of the tokenizer
    Joined,       \* a first token that was joined with the one before it
    Documents, Answers,
    MaxLength, MaxSource, MaxSummary   \* data.max_*_tokens

ASSUME BudgetAssumption ==
    /\ MaxSource \in Nat /\ MaxSummary \in Nat \ {0} /\ MaxLength \in Nat
    /\ MaxSource + MaxSummary <= MaxLength /\ MaxSummary < MaxLength
    /\ Closing # << >> /\ Control # {}

ASSUME TextAssumption ==
    /\ \A text \in {Before, After, Opening, Closing} \cup Documents \cup Answers : text \in Seq(Tokens)
    /\ Joined \in Tokens /\ Control \in SUBSET Tokens

VARIABLES
    record,    \* document, whether it is joined, whether budgets are passed
    stage,     \* "read", "rejected", "prompted", "answered", "example", "dropped"
    prompt,    \* what the teacher is given
    answer,    \* tokens of the teacher's summary, and whether it is joined
    example    \* input_ids, and the positions of loss_mask

renderVars == <<record, stage, prompt, answer, example>>

RecordSpace == [document : Documents, joined : BOOLEAN, budgeted : BOOLEAN]
NoAnswer == [tokens |-> << >>, joined |-> FALSE]

RenderInit ==
    /\ record \in RecordSpace /\ stage = "read"
    /\ prompt = << >> /\ answer = NoAnswer
    /\ example = [ids |-> << >>, mask |-> {}]

\* A text as a part of a chat.
Within(text, joined) ==
    IF joined /\ text # << >> THEN [text EXCEPT ![1] = Joined] ELSE text

\* prefix_ids
Prefix == Before \o Within(record.document, record.joined) \o After

\* _find_subsequence
NotFound == -1
Find(tokens, part, from) ==
    LET at == {k \in from .. Len(tokens) - Len(part) :
                   SubSeq(tokens, k + 1, k + Len(part)) = part}
    IN  IF part = << >> \/ at = {} THEN NotFound ELSE Min(at)

SourceStart == Find(Prefix, record.document, 0)

\* The prompt with the first tokens of the document only.
Shortened(used) ==
    SubSeq(Prefix, 1, SourceStart + used)
        \o SubSeq(Prefix, SourceStart + Len(record.document) + 1, Len(Prefix))

Template == Len(Prefix) - Len(record.document)

RenderPrompt_NoReserve ==
    LET capacity == MaxLength - Template
    IN  /\ stage = "read"
        /\ IF (SourceStart = NotFound /\ record.document # << >>) \/ capacity < 0
           THEN stage' = "rejected" /\ UNCHANGED prompt
           ELSE /\ stage' = "prompted"
                /\ prompt' = IF record.document = << >> THEN Prefix
                             ELSE Shortened(Min({Len(record.document), MaxSource, capacity}))
        /\ UNCHANGED <<record, answer, example>>

\* The prompt leaves room for max_summary_tokens.
RenderPrompt ==
    LET capacity == MaxLength - MaxSummary - Template
    IN  /\ stage = "read"
        /\ IF (SourceStart = NotFound /\ record.document # << >>) \/ capacity < 0
           THEN stage' = "rejected" /\ UNCHANGED prompt
           ELSE /\ stage' = "prompted"
                /\ prompt' = IF record.document = << >> THEN Prefix
                             ELSE Shortened(Min({Len(record.document), MaxSource, capacity}))
        /\ UNCHANGED <<record, answer, example>>

\* The teacher's summary, as its text is tokenised again.
Answered ==
    /\ stage = "prompted" /\ stage' = "answered"
    /\ answer' \in [tokens : Answers, joined : BOOLEAN]
    /\ UNCHANGED <<record, prompt, example>>

\* full_ids, and where the answer is in it: as it is found, or else all that
\* follows the prompt but the control tokens at its end.
Chat == Prefix \o Opening \o Within(answer.tokens, answer.joined) \o Closing
Located == Find(Chat, answer.tokens, Len(Prefix))
Fallback == Located = NotFound
AnswerStart == IF Fallback THEN Len(Prefix) ELSE Located
AnswerEnd ==
    IF Fallback
    THEN Max({Len(Prefix)} \cup {k \in Len(Prefix) + 1 .. Len(Chat) : Chat[k] \notin Control})
    ELSE Located + Len(answer.tokens)

\* The answer within its budget, and what follows it.
Content == SubSeq(Chat, AnswerStart + 1, Min({AnswerEnd, AnswerStart + MaxSummary}))
Rest == SubSeq(Chat, AnswerEnd + 1, Len(Chat))

\* The ids, and the offsets the answer begins and ends at.
Budgeted ==
    LET used == Min({Len(record.document), MaxSource,
                     MaxLength - Template - Len(Content) - Len(Rest)})
        before == Shortened(used)
    IN  [ids |-> before \o Content \o Rest,
         from |-> Len(before), to |-> Len(before) + Len(Content)]

Unbudgeted == [ids |-> Chat, from |-> AnswerStart, to |-> AnswerEnd]

Fits ==
    SourceStart # NotFound /\ Template + Len(Content) + Len(Rest) <= MaxLength

\* The last position is never supervised: it has no next token.
Masked(whole) ==
    LET ids == SubSeq(whole.ids, 1, Min({MaxLength, Len(whole.ids)}))
    IN  [ids |-> ids,
         mask |-> {p \in whole.from + 1 .. whole.to :
                       p < Len(ids) /\ (Fallback => ids[p] \notin Control)}]

RenderExample_OldSpan ==
    LET rendered ==
            IF record.budgeted
            THEN Masked([Unbudgeted EXCEPT !.ids = Budgeted.ids]) ELSE Masked(Unbudgeted)
    IN  /\ stage = "answered"
        /\ IF (record.budgeted => Fits) /\ \E p \in rendered.mask : p + 1 \in rendered.mask
           THEN stage' = "example" /\ example' = rendered
           ELSE stage' = "dropped" /\ UNCHANGED example
        /\ UNCHANGED <<record, prompt, answer>>

\* iter_summary_examples drops what cannot be rendered.
RenderExample ==
    LET rendered == IF record.budgeted THEN Masked(Budgeted) ELSE Masked(Unbudgeted)
    IN  /\ stage = "answered"
        /\ IF (record.budgeted => Fits) /\ \E p \in rendered.mask : p + 1 \in rendered.mask
           THEN stage' = "example" /\ example' = rendered
           ELSE stage' = "dropped" /\ UNCHANGED example
        /\ UNCHANGED <<record, prompt, answer>>

Render == RenderPrompt \/ Answered \/ RenderExample

----------------------------------------------------------------------------
\* Where the supervised tokens begin.
Begins == Min(example.mask) - 1

\* What is supervised is the beginning of the teacher's summary, all of it that
\* the budget allows, right behind a prompt that lacks nothing but the end of
\* its document; and no control token, where the summary is not found.
SupervisesAnswer ==
    stage = "example" =>
        /\ Len(example.ids) <= MaxLength
        /\ IF Fallback THEN \A p \in example.mask : example.ids[p] \notin Control
           ELSE LET n == Cardinality(example.mask)
                    source == Begins - Len(Before) - Len(After)
                IN  /\ example.mask = Begins + 1 .. Begins + n
                    /\ SubSeq(example.ids, Begins + 1, Begins + n)
                           = SubSeq(answer.tokens, 1, n)
                    /\ record.budgeted => n = Min({Len(answer.tokens), MaxSummary})
                    /\ record.budgeted /\ ~record.joined =>
                           SubSeq(example.ids, 1, Begins)
                               = Before \o SubSeq(record.document, 1, source) \o After

\* Behind an answer that leaves the template room for its closing within the
\* budget of the answer, an example is trained on, and the draft sees all of
\* the document that the teacher has seen.
TeacherSourceKept ==
    (/\ stage \in {"example", "dropped"} /\ record.budgeted /\ record.document # << >>
     /\ ~Fallback /\ Len(answer.tokens) >= 2
     /\ Len(answer.tokens) + Len(Closing) <= MaxSummary)
    => stage = "example" /\ Begins >= Len(prompt)

\* The draft is trained behind the prompt that the teacher answered
\* (render_summary_user_prompt_budgeted: "within the exact source/summary
\* budget used by offline feature caching").
SamePrompt ==
    stage = "example" /\ record.budgeted /\ ~Fallback =>
        SubSeq(example.ids, 1, Begins) = prompt
=============================================================================
