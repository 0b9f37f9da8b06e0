----------------------------- MODULE SpecDecode -----------------------------
(***************************************************************************)
(* DFlashDraftModel.spec_generate (Finetuning/model.py): a draft model     *)
(* proposes a block of tokens after the last accepted one, the target      *)
(* model scores the block in one pass, and the longest prefix it agrees    *)
(* with is kept, with one more token of its own.  Both models keep a cache *)
(* that is cropped to what was accepted.                                   *)
(*                                                                         *)
(* Decoding is greedy (temperature 0, as every caller asks for), the       *)
(* target a function of the tokens it has seen, and what the draft         *)
(* proposes arbitrary.  A cache is the sequence of tokens its entries were *)
(* computed from; a draft entry computed from the block itself and not     *)
(* from the target's features is Noise.  Position p of the code's buffer   *)
(* is ids[p + 1].                                                          *)
(*                                                                         *)
(* An operator A_Change is action or operator A with a plausible mistake   *)
(* in it, to show that a property would notice; no action uses one.        *)
(***************************************************************************)
EXTENDS Naturals, Sequences, FiniteSets

CONSTANTS
    Token,         \* the tokens of texts
    Mask,          \* the token that stands for "not decoded yet"
    Noise,         \* a draft cache entry of a block position
    Stop,          \* the stop tokens
    Models,        \* target models
    Greedy(_, _),  \* the token a model finds most likely after a context
    Prompts,       \* prompts
    Budgets,       \* values of max_new_tokens
    Blocks         \* values of block_size

ASSUME TokensAssumption == Stop \subseteq Token /\ Mask \notin Token /\ Noise \notin Token \cup {Mask}
ASSUME PromptsAssumption == \A p \in Prompts : p \in Seq(Token) /\ p # <<>>
ASSUME BudgetsAssumption == Budgets \subseteq Nat /\ Blocks \subseteq Nat \ {0}

VARIABLES
    call,      \* the arguments of the call
    ids,       \* output_ids
    start,     \* tokens accepted, without the one the target added last
    block,     \* the block that is scored next
    seen,      \* the target's cache
    context,   \* the draft's cache
    hidden,    \* target features the draft has not taken in yet
    pc         \* where the call is

vars == <<call, ids, start, block, seen, context, hidden, pc>>

Vocabulary == Token \cup {Mask}
Prompt == Len(call.prompt)
MaxLength == Prompt + call.new

\* DynamicCache.crop
Crop(cache, n) == IF Len(cache) <= n THEN cache ELSE SubSeq(cache, 1, n)

Init ==
    /\ call \in [model : Models, prompt : Prompts, new : Budgets, size : Blocks]
    /\ ids = [i \in 1 .. MaxLength + call.size |-> Mask]
    /\ start = 0
    /\ block = <<>>
    /\ seen = <<>>
    /\ context = <<>>
    /\ hidden = <<>>
    /\ pc = "prefill"

\* The target reads the prompt and adds the first token.
Prefill ==
    /\ pc = "prefill"
    /\ ids' = [i \in 1 .. Len(ids) |->
                  IF i <= Prompt THEN call.prompt[i]
                  ELSE IF i = Prompt + 1 THEN Greedy(call.model, call.prompt)
                  ELSE ids[i]]
    /\ seen' = call.prompt
    /\ hidden' = call.prompt
    /\ start' = Prompt
    /\ pc' = IF Prompt < MaxLength THEN "draft" ELSE "trim"
    /\ UNCHANGED <<call, block, context>>

\* The draft's cache keeps the entries of the block.
Draft_Uncropped ==
    /\ pc = "draft"
    /\ context' = context \o hidden \o [i \in 1 .. call.size |-> Noise]
    /\ \E guess \in [2 .. call.size -> Vocabulary] :
          block' = [i \in 1 .. call.size |-> IF i = 1 THEN ids[start + 1] ELSE guess[i]]
    /\ pc' = "verify"
    /\ UNCHANGED <<call, ids, start, seen, hidden>>

\* The draft takes in the target's features and proposes the block's other tokens.
Draft ==
    /\ pc = "draft"
    /\ context' = Crop(context \o hidden \o [i \in 1 .. call.size |-> Noise], start)
    /\ \E guess \in [2 .. call.size -> Vocabulary] :
          block' = [i \in 1 .. call.size |-> IF i = 1 THEN ids[start + 1] ELSE guess[i]]
    /\ pc' = "verify"
    /\ UNCHANGED <<call, ids, start, seen, hidden>>

\* What the target finds most likely after the first i tokens of the block.
Posterior(i) == Greedy(call.model, seen \o SubSeq(block, 1, i))

\* Agreements are counted wherever they are (a sum without the cumprod).
Accepted_Anywhere(n) ==
    n = Cardinality({i \in 1 .. call.size - 1 : block[i + 1] = Posterior(i)})

\* The first n proposals agree with the target and the next one, if any, does not.
Accepted(n) ==
    /\ \A i \in 1 .. n : block[i + 1] = Posterior(i)
    /\ n + 1 < call.size => block[n + 2] # Posterior(n + 1)

StopIn(s) == \E i \in Prompt + 1 .. Len(s) : s[i] \in Stop

\* The whole block is written to the buffer, rejected proposals and all.
Verify_WholeBlock ==
    /\ pc = "verify"
    /\ \E n \in 0 .. call.size - 1 :
          /\ Accepted(n)
          /\ ids' = [i \in 1 .. Len(ids) |->
                        IF i = start + n + 2 THEN Posterior(n + 1)
                        ELSE IF i \in start + 1 .. start + call.size THEN block[i - start]
                        ELSE ids[i]]
          /\ start' = start + n + 1
          /\ seen' = Crop(seen \o block, start + n + 1)
          /\ hidden' = SubSeq(block, 1, n + 1)
    /\ pc' = IF start' < MaxLength /\ ~StopIn(ids') THEN "draft" ELSE "trim"
    /\ UNCHANGED <<call, block, context>>

\* The position moves by the proposals accepted, without the target's token.
Verify_WithoutBonus ==
    /\ pc = "verify"
    /\ \E n \in 0 .. call.size - 1 :
          /\ Accepted(n)
          /\ ids' = [i \in 1 .. Len(ids) |->
                        IF i \in start + 1 .. start + n + 1 THEN block[i - start] ELSE ids[i]]
          /\ start' = start + n
          /\ seen' = Crop(seen \o block, start + n)
          /\ hidden' = SubSeq(block, 1, n)
    /\ pc' = IF start' < MaxLength /\ ~StopIn(ids') THEN "draft" ELSE "trim"
    /\ UNCHANGED <<call, block, context>>

Verify ==
    /\ pc = "verify"
    /\ \E n \in 0 .. call.size - 1 :
          /\ Accepted(n)
          /\ ids' = [i \in 1 .. Len(ids) |->
                        IF i \in start + 1 .. start + n + 1 THEN block[i - start]
                        ELSE IF i = start + n + 2 THEN Posterior(n + 1)
                        ELSE ids[i]]
          /\ start' = start + n + 1
          /\ seen' = Crop(seen \o block, start + n + 1)
          /\ hidden' = SubSeq(block, 1, n + 1)
    /\ pc' = IF start' < MaxLength /\ ~StopIn(ids') THEN "draft" ELSE "trim"
    /\ UNCHANGED <<call, block, context>>

\* The elements of s other than the mask, in their order.
Unmasked(s) ==
    LET at == {i \in 1 .. Len(s) : s[i] # Mask}
    IN  [k \in 1 .. Cardinality(at) |->
            s[CHOOSE i \in at : Cardinality({j \in at : j <= i}) = k]]

\* s up to and including its first stop token behind the prompt.
UpToStop(s) ==
    IF StopIn(s)
    THEN SubSeq(s, 1, CHOOSE i \in Prompt + 1 .. Len(s) :
             s[i] \in Stop /\ \A j \in Prompt + 1 .. i - 1 : s[j] \notin Stop)
    ELSE s

\* What was written beyond the budget is cut off before anything is looked for.
Trim ==
    /\ pc = "trim"
    /\ ids' = UpToStop(Unmasked(SubSeq(ids, 1, MaxLength)))
    /\ pc' = "returned"
    /\ UNCHANGED <<call, start, block, seen, context, hidden>>

Next == Prefill \/ Draft \/ Verify \/ Trim

Spec == Init /\ [][Next]_vars
FairSpec == Spec /\ WF_vars(Next)
-----------------------------------------------------------------------------
TypeOK ==
    /\ call \in [model : Models, prompt : Prompts, new : Budgets, size : Blocks]
    /\ ids \in Seq(Vocabulary) /\ Len(ids) <= MaxLength + call.size
    /\ pc = "returned" => ids \in Seq(Token) /\ Len(ids) <= MaxLength
    /\ start \in Nat
    /\ block \in Seq(Vocabulary) /\ Len(block) \in {0, call.size}
    /\ seen \in Seq(Vocabulary)
    /\ hidden \in Seq(Vocabulary)
    /\ context \in Seq(Vocabulary \cup {Noise})
    /\ pc \in {"prefill", "draft", "verify", "trim", "returned"}

\* Before a block is drafted both caches stand exactly at the accepted tokens:
\* the target has seen them all and nothing else, and the draft's cache with
\* the features it has not taken in covers them once, with no entry of an
\* earlier block left over (model.py:580, 610).
CachesAligned ==
    pc = "draft" =>
        /\ seen = SubSeq(ids, 1, start)
        /\ context \o hidden = SubSeq(ids, 1, start)

\* A block is drafted from one token the target has chosen and from masks, as
\* in training, however many tokens were written there before (model.py:567).
AnchorThenMasks ==
    pc = "draft" =>
        /\ start + call.size <= Len(ids)
        /\ ids[start + 1] # Mask
        /\ \A i \in start + 2 .. Len(ids) : ids[i] = Mask

\* Nothing of an earlier block is left when the next one begins: neither in the
\* caches nor in the buffer the block is read from.
RoundsSeparate == CachesAligned /\ AnchorThenMasks

\* The new tokens a caller would get if the call returned now.
Top == IF start < MaxLength THEN start + 1 ELSE MaxLength
Visible ==
    IF pc = "prefill" THEN <<>>
    ELSE LET shown == IF pc = "returned" THEN ids ELSE UpToStop(SubSeq(ids, 1, Top))
         IN  SubSeq(shown, Prompt + 1, Len(shown))

Reference == INSTANCE GreedyDecode WITH text <- Visible, done <- pc = "returned"

\* Whatever the draft proposes, the call returns what the target decodes
\* greedily on its own, and a caller that waits sees only prefixes of it
\* (generation_evaluation.py:252 compares the two).
ImplementsGreedy == Reference!Spec

\* Every round accepts at least the target's own token, so a call returns.
Returns == <>(pc = "returned")
=============================================================================
