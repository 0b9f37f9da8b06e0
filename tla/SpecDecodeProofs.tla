-------------------------- MODULE SpecDecodeProofs --------------------------
(***************************************************************************)
(* What SpecDecode promises for all targets, prompts, budgets and block    *)
(* sizes and whatever the draft proposes: the caches stand at the accepted *)
(* tokens, blocks are drafted from masks, and the call decodes what the    *)
(* target decodes greedily on its own.                                     *)
(***************************************************************************)
EXTENDS SpecDecode, SequenceTheorems, FiniteSetTheorems, WellFoundedInduction, TLAPS

\* The target's choice is a token of the vocabulary and never the mask, which
\* spec_generate removes from the text (model.py:622).
TargetsNeverMask ==
    \A m \in Models : \A c \in Seq(Vocabulary) : Greedy(m, c) \in Token

Args == call \in [model : Models, prompt : Prompts, new : Budgets, size : Blocks]

\* What the buffer holds: the prompt, then only tokens the target has chosen
\* after the tokens before them, then masks.
Written ==
    /\ ids \in Seq(Vocabulary) /\ Len(ids) = MaxLength + call.size
    /\ start \in Nat /\ Prompt <= start /\ start < Len(ids)
    /\ \A i \in 1 .. start + 1 : ids[i] \in Token
    /\ \A i \in start + 2 .. Len(ids) : ids[i] = Mask
    /\ \A i \in 1 .. Prompt : ids[i] = call.prompt[i]
    /\ \A i \in Prompt + 1 .. start + 1 :
          ids[i] = Greedy(call.model, SubSeq(ids, 1, i - 1))

Cached ==
    /\ pc \in {"draft", "verify"} =>
          /\ start < MaxLength
          /\ seen = SubSeq(ids, 1, start)
    /\ pc = "draft" => context \o hidden = SubSeq(ids, 1, start)
    /\ pc = "verify" =>
          /\ context = SubSeq(ids, 1, start)
          /\ block \in Seq(Vocabulary) /\ Len(block) = call.size
          /\ block[1] = ids[start + 1]
    /\ pc = "trim" => start >= MaxLength \/ StopIn(ids)

Returned ==
    pc = "returned" => ids \in Seq(Token) /\ Len(ids) <= MaxLength

Caches ==
    /\ block \in Seq(Vocabulary) /\ Len(block) \in {0, call.size}
    /\ start \in Nat
    /\ seen \in Seq(Vocabulary)
    /\ hidden \in Seq(Vocabulary)
    /\ context \in Seq(Vocabulary \cup {Noise})

Inv ==
    /\ Args
    /\ pc \in {"prefill", "draft", "verify", "trim", "returned"}
    /\ pc = "prefill" =>
          /\ ids = [i \in 1 .. MaxLength + call.size |-> Mask]
          /\ context = <<>>
    /\ pc \in {"draft", "verify", "trim"} => Written
    /\ Cached
    /\ Returned
    /\ Caches

LEMMA ArgFacts ==
    ASSUME Args
    PROVE  /\ call.prompt \in Seq(Token) /\ call.prompt \in Seq(Vocabulary)
           /\ Prompt \in Nat /\ Prompt >= 1
           /\ call.new \in Nat /\ MaxLength \in Nat /\ MaxLength = Prompt + call.new
           /\ call.size \in Nat /\ call.size >= 1
           /\ call.model \in Models
<1>1. /\ call.prompt \in Prompts /\ call.new \in Budgets /\ call.size \in Blocks
      /\ call.model \in Models
  BY DEF Args
<1>2. call.prompt \in Seq(Token) /\ call.prompt # <<>>
  BY <1>1, PromptsAssumption
<1>3. call.prompt \in Seq(Vocabulary)
  BY <1>2, SeqMonotonic DEF Vocabulary
<1>4. Len(call.prompt) \in Nat /\ Len(call.prompt) >= 1
  BY <1>2
<1>5. call.new \in Nat /\ call.size \in Nat /\ call.size >= 1
  <2>1. call.new \in Nat /\ call.size \in Nat \ {0}
    BY <1>1, BudgetsAssumption, Zenon
  <2> QED BY <2>1
<1> QED
  BY <1>1, <1>2, <1>3, <1>4, <1>5 DEF Prompt, MaxLength

LEMMA Least == \A T \in SUBSET Nat : T # {} => \E k \in T : \A j \in T : k <= j
<1> SUFFICES ASSUME NEW T \in SUBSET Nat, T # {} PROVE \E k \in T : \A j \in T : k <= j
  OBVIOUS
<1>1. PICK k \in T : \A j \in T : <<j, k>> \notin OpToRel(<, Nat)
  BY NatLessThanWellFounded, WFMin
<1>2. ASSUME NEW j \in T PROVE ~ (j < k)
  <2>1. <<j, k>> \in Nat \X Nat /\ <<j, k>>[1] = j /\ <<j, k>>[2] = k
    OBVIOUS
  <2> QED BY <1>1, <2>1 DEF OpToRel
<1>3. \A i \in T : i \in Nat
  OBVIOUS
<1> QED BY <1>2, <1>3

\* UpToStop keeps a prefix that ends with the first stop token, if there is one.
LEMMA Cut ==
    ASSUME Args, NEW s \in Seq(Vocabulary), Prompt <= Len(s)
    PROVE  \E k \in Prompt .. Len(s) :
              /\ UpToStop(s) = SubSeq(s, 1, k)
              /\ \A j \in Prompt + 1 .. k - 1 : s[j] \notin Stop
              /\ StopIn(s) => k > Prompt /\ s[k] \in Stop
              /\ ~StopIn(s) => k = Len(s)
<1>0. Prompt \in Nat /\ Len(s) \in Nat
  BY ArgFacts
<1>1. CASE StopIn(s)
  <2> DEFINE F(i) == s[i] \in Stop /\ \A j \in Prompt + 1 .. i - 1 : s[j] \notin Stop
  <2> DEFINE T == {i \in Prompt + 1 .. Len(s) : s[i] \in Stop}
  <2>1. T # {} /\ T \in SUBSET Nat
    BY <1>0, <1>1 DEF StopIn
  <2>2. PICK i \in T : \A j \in T : i <= j
    BY <2>1, Least
  <2>3. i \in Prompt + 1 .. Len(s) /\ F(i)
    BY <1>0, <2>2
  <2> DEFINE k == CHOOSE n \in Prompt + 1 .. Len(s) : F(n)
  <2>4. k \in Prompt + 1 .. Len(s) /\ F(k)
    BY <2>3
  <2>5. UpToStop(s) = SubSeq(s, 1, k)
    BY <1>1 DEF UpToStop
  <2> HIDE DEF k
  <2> QED BY <1>0, <1>1, <2>4, <2>5
<1>2. CASE ~StopIn(s)
  <2>1. UpToStop(s) = SubSeq(s, 1, Len(s))
    BY <1>2, SubSeqFull DEF UpToStop
  <2>2. \A j \in Prompt + 1 .. Len(s) - 1 : s[j] \notin Stop
    BY <1>0, <1>2 DEF StopIn
  <2> QED BY <1>0, <1>2, <2>1, <2>2
<1> QED BY <1>1, <1>2

\* Of tokens followed by masks, Unmasked keeps the tokens.
LEMMA UnmaskedPrefix ==
    ASSUME NEW s \in Seq(Vocabulary), NEW m \in 0 .. Len(s),
           \A i \in 1 .. m : s[i] \in Token, \A i \in m + 1 .. Len(s) : s[i] = Mask
    PROVE  Unmasked(s) = SubSeq(s, 1, m)
<1> DEFINE at == {i \in 1 .. Len(s) : s[i] # Mask}
<1> DEFINE rank(i) == Cardinality({j \in at : j <= i})
<1>1. at = 1 .. m
  BY TokensAssumption
<1>2. ASSUME NEW i \in 0 .. m PROVE Cardinality(1 .. i) = i
  <2>1. Cardinality(1 .. i) = IF 1 > i THEN 0 ELSE i - 1 + 1
    BY FS_Interval
  <2> QED BY <2>1
<1>3. ASSUME NEW i \in 1 .. m PROVE rank(i) = i
  <2>1. {j \in at : j <= i} = 1 .. i
    BY <1>1
  <2>2. Cardinality(1 .. i) = i
    BY <1>2
  <2> QED BY <2>1, <2>2, Zenon
<1>4. ASSUME NEW k \in 1 .. m PROVE (CHOOSE i \in at : rank(i) = k) = k
  BY <1>1, <1>3
<1>5. Unmasked(s) = [k \in 1 .. m |-> s[k]]
  <2>1. Unmasked(s) = [k \in 1 .. Cardinality(at) |-> s[CHOOSE i \in at : rank(i) = k]]
    BY DEF Unmasked
  <2>2. Cardinality(1 .. m) = m
    BY <1>2
  <2>3. Cardinality(at) = m
    BY <1>1, <2>2, Zenon
  <2> QED BY <1>1, <1>4, <2>1, <2>3
<1>6. SubSeq(s, 1, m) = [k \in 1 .. m |-> s[k]]
  OBVIOUS
<1> QED BY <1>5, <1>6

LEMMA FunctionIsSeq ==
    ASSUME NEW S, NEW n \in Nat, NEW f \in [1 .. n -> S]
    PROVE  f \in Seq(S) /\ Len(f) = n
<1>1. f \in Seq(S)
  BY SeqDef
<1>2. DOMAIN f = 1 .. Len(f) /\ Len(f) \in Nat
  BY <1>1, LenProperties
<1> QED BY <1>1, <1>2

LEMMA PrefixFacts ==
    ASSUME NEW S, NEW s \in Seq(S), NEW n \in 0 .. Len(s)
    PROVE  /\ SubSeq(s, 1, n) \in Seq(S) /\ Len(SubSeq(s, 1, n)) = n
           /\ \A i \in 1 .. n : SubSeq(s, 1, n)[i] = s[i]
<1>1. n \in Int /\ \A i \in 1 .. n : s[i] \in S
  BY ElementOfSeq
<1> QED BY <1>1, SubSeqProperties

LEMMA CropFacts ==
    ASSUME NEW S, NEW s \in Seq(S), NEW t \in Seq(S), NEW n \in 0 .. Len(s) + Len(t)
    PROVE  /\ Crop(s \o t, n) \in Seq(S) /\ Len(Crop(s \o t, n)) = n
           /\ \A i \in 1 .. n : Crop(s \o t, n)[i] =
                 IF i <= Len(s) THEN s[i] ELSE t[i - Len(s)]
<1>1. /\ s \o t \in Seq(S) /\ Len(s \o t) = Len(s) + Len(t)
      /\ \A i \in 1 .. Len(s) + Len(t) : (s \o t)[i] =
            IF i <= Len(s) THEN s[i] ELSE t[i - Len(s)]
  BY ConcatProperties
<1>2. Len(s) \in Nat /\ Len(t) \in Nat
  OBVIOUS
<1>3. CASE Len(s \o t) <= n
  <2>1. Crop(s \o t, n) = s \o t /\ n = Len(s) + Len(t)
    BY <1>1, <1>2, <1>3 DEF Crop
  <2> QED BY <1>1, <2>1
<1>4. CASE ~(Len(s \o t) <= n)
  <2>1. Crop(s \o t, n) = SubSeq(s \o t, 1, n) /\ n \in 0 .. Len(s \o t)
    BY <1>1, <1>2, <1>4 DEF Crop
  <2> QED BY <1>1, <1>2, <2>1, PrefixFacts
<1> QED BY <1>3, <1>4

-----------------------------------------------------------------------------
LEMMA InvInit == Init => Inv
<1> SUFFICES ASSUME Init PROVE Inv
  OBVIOUS
<1>1. Args
  BY DEF Init, Args
<1>2. 0 \in Nat /\ <<>> \in Seq(Vocabulary) /\ <<>> \in Seq(Vocabulary \cup {Noise}) /\ Len(<<>>) = 0
  OBVIOUS
<1> QED BY <1>1, <1>2 DEF Init, Inv, Cached, Returned, Caches

LEMMA PrefillStep ==
    ASSUME TargetsNeverMask, Inv, Prefill
    PROVE  Inv'
<1> USE DEF Prompt, MaxLength
<1>1. Args /\ call' = call /\ pc = "prefill" /\ Caches
  BY DEF Inv, Prefill
<1>2. /\ call.prompt \in Seq(Token) /\ call.prompt \in Seq(Vocabulary)
      /\ Prompt \in Nat /\ Prompt >= 1 /\ MaxLength \in Nat
      /\ call.new \in Nat /\ call.size \in Nat /\ call.size >= 1 /\ call.model \in Models
  BY <1>1, ArgFacts
<1> DEFINE n == MaxLength + call.size
<1>3. ids = [i \in 1 .. n |-> Mask] /\ ids \in [1 .. n -> Vocabulary] /\ context = <<>> /\ n \in Nat
  BY <1>1, <1>2 DEF Inv, Vocabulary
<1>4. Len(ids) = n
  BY <1>3, FunctionIsSeq
<1>5. Greedy(call.model, call.prompt) \in Token
  BY <1>2 DEF TargetsNeverMask
<1>6. \A i \in 1 .. Prompt : call.prompt[i] \in Token
  BY <1>2, ElementOfSeq
<1>7. ids' = [i \in 1 .. n |-> IF i <= Prompt THEN call.prompt[i]
                               ELSE IF i = Prompt + 1 THEN Greedy(call.model, call.prompt)
                               ELSE Mask]
  BY <1>3, <1>4 DEF Prefill
<1>8. ids' \in [1 .. n -> Vocabulary]
  BY <1>2, <1>5, <1>6, <1>7 DEF Vocabulary
<1>9. ids' \in Seq(Vocabulary) /\ Len(ids') = n
  BY <1>3, <1>8, FunctionIsSeq
<1>10. start' = Prompt /\ Prompt < n /\ Prompt + 1 <= n
  BY <1>2 DEF Prefill
<1>11. SubSeq(ids', 1, Prompt) = call.prompt
  <2>1. /\ SubSeq(ids', 1, Prompt) \in Seq(Vocabulary) /\ Len(SubSeq(ids', 1, Prompt)) = Prompt
        /\ \A i \in 1 .. Prompt : SubSeq(ids', 1, Prompt)[i] = ids'[i]
    BY <1>2, <1>9, <1>10, PrefixFacts
  <2>2. \A i \in 1 .. Prompt : ids'[i] = call.prompt[i]
    BY <1>2, <1>7, <1>10
  <2> QED BY <1>2, <2>1, <2>2, SeqEqual
<1>12. Written'
  <2>1. \A i \in 1 .. start' + 1 : ids'[i] \in Token
    BY <1>2, <1>5, <1>6, <1>7, <1>10
  <2>2. \A i \in start' + 2 .. Len(ids') : ids'[i] = Mask
    BY <1>2, <1>7, <1>9, <1>10
  <2>3. \A i \in 1 .. Prompt : ids'[i] = call.prompt[i]
    BY <1>2, <1>7, <1>10
  <2>4. \A i \in Prompt + 1 .. start' + 1 : ids'[i] = Greedy(call.model, SubSeq(ids', 1, i - 1))
    <3>1. \A i \in Prompt + 1 .. start' + 1 : i = Prompt + 1 /\ i - 1 = Prompt
      BY <1>2, <1>10
    <3>2. ids'[Prompt + 1] = Greedy(call.model, call.prompt)
      BY <1>2, <1>7, <1>10
    <3> QED BY <1>11, <3>1, <3>2
  <2> QED BY <1>1, <1>2, <1>9, <1>10, <2>1, <2>2, <2>3, <2>4 DEF Written
<1>13. Cached'
  <2>1. context' \o hidden' = call.prompt /\ seen' = call.prompt
    BY <1>2, <1>3, ConcatEmptySeq DEF Prefill
  <2>2. pc' = (IF Prompt < MaxLength THEN "draft" ELSE "trim")
    BY DEF Prefill
  <2> QED BY <1>1, <1>2, <1>10, <1>11, <2>1, <2>2 DEF Cached
<1>14. Caches' /\ pc' \in {"draft", "trim"}
  BY <1>1, <1>2, <1>10 DEF Prefill, Caches
<1> QED BY <1>1, <1>12, <1>13, <1>14 DEF Inv, Args, Returned

LEMMA DraftStep ==
    ASSUME Inv, Draft
    PROVE  Inv'
<1>1. Args /\ Written /\ Caches /\ pc = "draft" /\ start < MaxLength
      /\ seen = SubSeq(ids, 1, start) /\ context \o hidden = SubSeq(ids, 1, start)
  BY DEF Inv, Cached, Draft
<1>2. UNCHANGED <<call, ids, start, seen, hidden, Prompt, MaxLength>> /\ pc' = "verify"
  BY DEF Draft, Prompt, MaxLength
<1>3. /\ call.size \in Nat /\ call.size >= 1 /\ MaxLength \in Nat
      /\ Len(ids) = MaxLength + call.size /\ ids \in Seq(Vocabulary)
      /\ start \in 0 .. Len(ids)
  BY <1>1, ArgFacts DEF Written
<1> DEFINE V == Vocabulary \cup {Noise}
<1> DEFINE noise == [i \in 1 .. call.size |-> Noise]
<1> DEFINE s == SubSeq(ids, 1, start)
<1>4. s \in Seq(Vocabulary) /\ Len(s) = start
  BY <1>3, PrefixFacts
<1>5. s \in Seq(V)
  BY <1>4, SeqMonotonic
<1>6. noise \in Seq(V) /\ Len(noise) = call.size
  <2>1. noise \in [1 .. call.size -> V]
    OBVIOUS
  <2> QED BY <1>3, <2>1, FunctionIsSeq
<1>7. context' = s
  <2>1. context' = Crop(s \o noise, start)
    BY <1>1 DEF Draft
  <2>2. start \in 0 .. Len(s) + Len(noise)
    BY <1>3, <1>4, <1>6
  <2>3. /\ context' \in Seq(V) /\ Len(context') = start
        /\ \A i \in 1 .. start : context'[i] = IF i <= Len(s) THEN s[i] ELSE noise[i - Len(s)]
    <3> HIDE DEF s, noise, V
    <3> QED BY <1>5, <1>6, <2>1, <2>2, CropFacts
  <2>4. \A i \in 1 .. start : context'[i] = s[i]
    BY <1>4, <2>3
  <2> QED BY <1>4, <1>5, <2>3, <2>4, SeqEqual
<1>8. block' \in Seq(Vocabulary) /\ Len(block') = call.size /\ block'[1] = ids[start + 1]
  <2>1. PICK guess \in [2 .. call.size -> Vocabulary] :
            block' = [i \in 1 .. call.size |-> IF i = 1 THEN ids[start + 1] ELSE guess[i]]
    BY DEF Draft
  <2>2. ids[start + 1] \in Vocabulary
    BY <1>1, <1>3 DEF Written, Vocabulary
  <2>3. block' \in [1 .. call.size -> Vocabulary]
    BY <1>3, <2>1, <2>2
  <2>4. block'[1] = ids[start + 1]
    BY <1>3, <2>1
  <2> QED BY <1>3, <2>3, <2>4, FunctionIsSeq
<1>9. Written'
  BY <1>1, <1>2 DEF Written
<1>10. Cached'
  BY <1>1, <1>2, <1>7, <1>8 DEF Cached
<1>11. Caches'
  BY <1>1, <1>2, <1>5, <1>7, <1>8 DEF Caches
<1> QED BY <1>1, <1>2, <1>9, <1>10, <1>11 DEF Inv, Args, Returned

LEMMA VerifyStep ==
    ASSUME TargetsNeverMask, Inv, Verify
    PROVE  /\ Inv'
           /\ start' > start
           /\ \A i \in 1 .. start + 1 : ids'[i] = ids[i]
<1>1. /\ Args /\ Written /\ Caches /\ pc = "verify" /\ start < MaxLength
      /\ seen = SubSeq(ids, 1, start) /\ context = SubSeq(ids, 1, start)
      /\ block \in Seq(Vocabulary) /\ Len(block) = call.size /\ block[1] = ids[start + 1]
  BY DEF Inv, Cached, Verify
<1>2. UNCHANGED <<call, block, context, Prompt, MaxLength>>
  BY DEF Verify, Prompt, MaxLength
<1>3. /\ call.size \in Nat /\ call.size >= 1 /\ MaxLength \in Nat /\ Prompt \in Nat
      /\ Len(ids) = MaxLength + call.size /\ ids \in Seq(Vocabulary)
      /\ start \in Nat /\ Prompt <= start /\ start \in 0 .. Len(ids)
      /\ call.model \in Models
  BY <1>1, ArgFacts DEF Written
<1>4. PICK n \in 0 .. call.size - 1 :
          /\ Accepted(n)
          /\ ids' = [i \in 1 .. Len(ids) |->
                        IF i \in start + 1 .. start + n + 1 THEN block[i - start]
                        ELSE IF i = start + n + 2 THEN Posterior(n + 1)
                        ELSE ids[i]]
          /\ start' = start + n + 1
          /\ seen' = Crop(seen \o block, start + n + 1)
          /\ hidden' = SubSeq(block, 1, n + 1)
  BY DEF Verify
<1>5. /\ n \in Nat /\ n + 1 <= call.size /\ start + n + 2 <= Len(ids) /\ start' \in Nat
      /\ start' = start + n + 1 /\ start' + 1 = start + n + 2
  BY <1>1, <1>3, <1>4
<1>6. /\ \A i \in 1 .. start : ids'[i] = ids[i]
      /\ \A i \in start + 1 .. start + n + 1 : ids'[i] = block[i - start]
      /\ ids'[start + n + 2] = Posterior(n + 1)
      /\ \A i \in start + n + 3 .. Len(ids) : ids'[i] = ids[i]
  BY <1>3, <1>4, <1>5
<1>7. \A i \in 1 .. start + 1 : ids'[i] = ids[i]
  <2>1. start + 1 \in start + 1 .. start + n + 1 /\ (start + 1) - start = 1
    BY <1>3, <1>5
  <2>2. ids'[start + 1] = block[1]
    BY <1>6, <2>1
  <2>3. \A i \in 1 .. start + 1 : i \in 1 .. start \/ i = start + 1
    BY <1>3
  <2> QED BY <1>1, <1>6, <2>2, <2>3
<1>8. seen \in Seq(Vocabulary) /\ Len(seen) = start /\ \A i \in 1 .. start : seen[i] = ids[i]
  BY <1>1, <1>3, PrefixFacts
<1>9. ASSUME NEW k \in 1 .. call.size
      PROVE  /\ seen \o SubSeq(block, 1, k) \in Seq(Vocabulary)
             /\ Len(seen \o SubSeq(block, 1, k)) = start + k
             /\ \A i \in 1 .. start + k : (seen \o SubSeq(block, 1, k))[i] =
                   IF i <= start THEN ids[i] ELSE block[i - start]
  <2>1. /\ SubSeq(block, 1, k) \in Seq(Vocabulary) /\ Len(SubSeq(block, 1, k)) = k
        /\ \A i \in 1 .. k : SubSeq(block, 1, k)[i] = block[i]
    BY <1>1, <1>3, PrefixFacts
  <2> DEFINE b == SubSeq(block, 1, k)
  <2>2. /\ seen \o b \in Seq(Vocabulary) /\ Len(seen \o b) = start + k
        /\ \A i \in 1 .. start + k : (seen \o b)[i] = IF i <= start THEN seen[i] ELSE b[i - start]
    <3> HIDE DEF b
    <3>1. b \in Seq(Vocabulary) /\ Len(b) = k
      BY <2>1 DEF b
    <3>2. /\ seen \o b \in Seq(Vocabulary) /\ Len(seen \o b) = Len(seen) + Len(b)
          /\ \A i \in 1 .. Len(seen) + Len(b) : (seen \o b)[i] =
                IF i <= Len(seen) THEN seen[i] ELSE b[i - Len(seen)]
      BY <1>8, <3>1, ConcatProperties
    <3> QED BY <1>8, <3>1, <3>2
  <2> QED BY <1>3, <1>8, <2>1, <2>2
<1>10. \A k \in 1 .. call.size : Posterior(k) \in Token
  BY <1>3, <1>9 DEF Posterior, TargetsNeverMask
<1>11. \A i \in 1 .. n + 1 : block[i] \in Token
  <2>1. block[1] \in Token
    BY <1>1, <1>3 DEF Written
  <2>2. ASSUME NEW i \in 2 .. n + 1 PROVE block[i] \in Token
    <3>1. i - 1 \in 1 .. n /\ i - 1 \in 1 .. call.size /\ (i - 1) + 1 = i
      BY <1>5, <1>3
    <3>2. block[i] = Posterior(i - 1)
      BY <1>4, <3>1 DEF Accepted
    <3> QED BY <1>10, <3>1, <3>2
  <2> QED BY <1>5, <2>1, <2>2
<1>12. ids' \in Seq(Vocabulary) /\ Len(ids') = Len(ids)
  <2>1. Posterior(n + 1) \in Vocabulary
    BY <1>3, <1>5, <1>10 DEF Vocabulary
  <2>2. \A i \in 1 .. n + 1 : block[i] \in Vocabulary
    BY <1>11 DEF Vocabulary
  <2>3. \A i \in 1 .. Len(ids) : ids[i] \in Vocabulary
    BY <1>3, ElementOfSeq
  <2>4. ids' \in [1 .. Len(ids) -> Vocabulary]
    BY <1>3, <1>4, <1>5, <2>1, <2>2, <2>3
  <2> QED BY SMTT(30), <1>3, <2>4, FunctionIsSeq
<1>13. ASSUME NEW k \in 1 .. n + 1
       PROVE  seen \o SubSeq(block, 1, k) = SubSeq(ids', 1, start + k)
  <2>1. k \in 1 .. call.size /\ start + k \in 0 .. Len(ids')
    BY <1>3, <1>5, <1>12
  <2>2. /\ SubSeq(ids', 1, start + k) \in Seq(Vocabulary)
        /\ Len(SubSeq(ids', 1, start + k)) = start + k
        /\ \A i \in 1 .. start + k : SubSeq(ids', 1, start + k)[i] = ids'[i]
    BY <1>12, <2>1, PrefixFacts
  <2>3. \A i \in 1 .. start + k : ids'[i] = IF i <= start THEN ids[i] ELSE block[i - start]
    BY <1>3, <1>5, <1>6
  <2> DEFINE s == seen \o SubSeq(block, 1, k)
  <2> DEFINE t == SubSeq(ids', 1, start + k)
  <2>4. s \in Seq(Vocabulary) /\ Len(s) = Len(t) /\ \A i \in 1 .. Len(s) : s[i] = t[i]
    BY <1>9, <2>1, <2>2, <2>3
  <2> HIDE DEF s, t
  <2>5. s = t
    BY <2>2, <2>4, SeqEqual DEF t
  <2> QED BY <2>5 DEF s, t
<1>14. ASSUME NEW k \in 1 .. n + 1
       PROVE  Posterior(k) = Greedy(call.model, SubSeq(ids', 1, start + k))
  BY <1>13, Zenon DEF Posterior
<1>15. Written'
  <2>1. \A i \in 1 .. start' + 1 : ids'[i] \in Token
    <3>1. ASSUME NEW i \in 1 .. start' + 1 PROVE ids'[i] \in Token
      <4>1. CASE i <= start
        BY SMTT(30), <1>1, <1>3, <1>6, <4>1 DEF Written
      <4>2. CASE i > start /\ i <= start + n + 1
        BY <1>3, <1>5, <1>6, <1>11, <4>2
      <4>3. CASE i = start + n + 2
        BY <1>3, <1>5, <1>6, <1>10, <4>3
      <4> QED BY <1>3, <1>5, <4>1, <4>2, <4>3
    <3> QED BY <3>1
  <2>2. \A i \in start' + 2 .. Len(ids') : ids'[i] = Mask
    BY <1>1, <1>3, <1>5, <1>6, <1>12 DEF Written
  <2>3. \A i \in 1 .. Prompt : ids'[i] = call.prompt[i]
    <3>1. \A i \in 1 .. Prompt : i \in 1 .. start
      BY <1>3
    <3>2. \A i \in 1 .. Prompt : ids[i] = call.prompt[i]
      BY <1>1 DEF Written
    <3> QED BY <1>6, <3>1, <3>2
  <2>4. ASSUME NEW i \in Prompt + 1 .. start' + 1
        PROVE  ids'[i] = Greedy(call.model, SubSeq(ids', 1, i - 1))
    <3>1. CASE i <= start + 1
      <4>1. ids[i] = Greedy(call.model, SubSeq(ids, 1, i - 1)) /\ ids'[i] = ids[i]
        BY <1>1, <1>3, <1>7, <3>1 DEF Written
      <4>2. i - 1 \in 0 .. Len(ids) /\ i - 1 \in 0 .. Len(ids') /\ i - 1 <= start
        BY <1>3, <1>12, <3>1
      <4>3. /\ SubSeq(ids, 1, i - 1) \in Seq(Vocabulary) /\ Len(SubSeq(ids, 1, i - 1)) = i - 1
            /\ \A j \in 1 .. i - 1 : SubSeq(ids, 1, i - 1)[j] = ids[j]
        BY <1>3, <4>2, PrefixFacts
      <4>4. /\ SubSeq(ids', 1, i - 1) \in Seq(Vocabulary) /\ Len(SubSeq(ids', 1, i - 1)) = i - 1
            /\ \A j \in 1 .. i - 1 : SubSeq(ids', 1, i - 1)[j] = ids'[j]
        BY <1>12, <4>2, PrefixFacts
      <4>5. \A j \in 1 .. i - 1 : ids'[j] = ids[j]
        BY <1>3, <1>6, <4>2
      <4>6. SubSeq(ids', 1, i - 1) = SubSeq(ids, 1, i - 1)
        BY <4>3, <4>4, <4>5, SeqEqual
      <4> QED BY <4>1, <4>6
    <3>2. CASE i > start + 1
      <4> DEFINE k == i - 1 - start
      <4>1. k \in 1 .. n + 1 /\ k \in Nat /\ start + k = i - 1
        BY <1>3, <1>5, <3>2
      <4>2. Posterior(k) = Greedy(call.model, SubSeq(ids', 1, i - 1))
        BY <1>14, <4>1
      <4>3. ids'[i] = Posterior(k)
        <5>1. CASE k = n + 1
          BY <1>3, <1>5, <1>6, <4>1, <5>1
        <5>2. CASE k # n + 1
          <6>1. k \in 1 .. n /\ i \in start + 1 .. start + n + 1 /\ i - start = k + 1
            BY <1>3, <1>5, <4>1, <5>2
          <6>2. block[k + 1] = Posterior(k)
            BY <1>4, <6>1 DEF Accepted
          <6> QED BY <1>6, <6>1, <6>2
        <5> QED BY <5>1, <5>2
      <4> QED BY <4>2, <4>3
    <3> QED BY <1>3, <3>1, <3>2
  <2> QED BY <1>1, <1>2, <1>3, <1>5, <1>12, <2>1, <2>2, <2>3, <2>4 DEF Written
<1>16. seen' = SubSeq(ids', 1, start')
  <2>1. start' \in 0 .. Len(seen) + Len(block)
    BY <1>1, <1>3, <1>5, <1>8
  <2>2. seen' = Crop(seen \o block, start')
    BY <1>4
  <2>3. /\ seen' \in Seq(Vocabulary) /\ Len(seen') = start'
        /\ \A i \in 1 .. start' : seen'[i] = IF i <= Len(seen) THEN seen[i] ELSE block[i - Len(seen)]
    <3> DEFINE c == Crop(seen \o block, start')
    <3>1. /\ c \in Seq(Vocabulary) /\ Len(c) = start'
          /\ \A i \in 1 .. start' : c[i] = IF i <= Len(seen) THEN seen[i] ELSE block[i - Len(seen)]
      <4>1. seen \in Seq(Vocabulary) /\ block \in Seq(Vocabulary)
        BY <1>1, <1>8
      <4> QED BY ONLY <2>1, <4>1, CropFacts
    <3> HIDE DEF c
    <3> QED BY <2>2, <3>1 DEF c
  <2>4. ASSUME NEW i \in 1 .. start' PROVE seen'[i] = ids'[i]
    <3>1. CASE i <= start
      <4>1. i \in 1 .. start /\ i <= Len(seen)
        BY <1>3, <1>5, <1>8, <3>1
      <4>2. seen'[i] = seen[i] /\ seen[i] = ids[i] /\ ids'[i] = ids[i]
        BY <1>6, <1>8, <2>3, <4>1
      <4> QED BY <4>2
    <3>2. CASE i > start
      <4>1. i \in start + 1 .. start + n + 1 /\ ~(i <= Len(seen))
        BY <1>3, <1>5, <1>8, <3>2
      <4> QED BY <1>6, <1>8, <2>3, <4>1
    <3> QED BY <1>3, <3>1, <3>2
  <2>5. /\ SubSeq(ids', 1, start') \in Seq(Vocabulary) /\ Len(SubSeq(ids', 1, start')) = start'
        /\ \A i \in 1 .. start' : SubSeq(ids', 1, start')[i] = ids'[i]
    BY <1>3, <1>5, <1>12, PrefixFacts
  <2> QED BY <2>3, <2>4, <2>5, SeqEqual
<1>17. context' \o hidden' = SubSeq(ids', 1, start')
  <2>1. context' \o hidden' = seen \o SubSeq(block, 1, n + 1)
    BY <1>1, <1>2, <1>4
  <2>2. n + 1 \in 1 .. n + 1 /\ start + (n + 1) = start'
    BY <1>3, <1>5
  <2>3. seen \o SubSeq(block, 1, n + 1) = SubSeq(ids', 1, start + (n + 1))
    BY <1>13, <2>2
  <2> QED BY <2>1, <2>2, <2>3
<1>18. pc' = IF start' < MaxLength /\ ~StopIn(ids)' THEN "draft" ELSE "trim"
  BY DEF Verify, StopIn, MaxLength, Prompt
<1>19. Cached'
  BY <1>2, <1>3, <1>5, <1>16, <1>17, <1>18 DEF Cached
<1>20. Caches'
  <2>1. hidden' \in Seq(Vocabulary)
    BY <1>1, <1>3, <1>4, <1>5, PrefixFacts
  <2>2. seen' \in Seq(Vocabulary)
    BY <1>3, <1>5, <1>12, <1>16, PrefixFacts
  <2> QED BY <1>1, <1>2, <1>5, <2>1, <2>2 DEF Caches
<1>21. Inv'
  BY <1>1, <1>2, <1>15, <1>18, <1>19, <1>20 DEF Inv, Args, Returned
<1> QED BY <1>3, <1>5, <1>7, <1>21

Under == pc \in {"draft", "verify", "trim"}

LEMMA TopFacts ==
    ASSUME Inv, Under
    PROVE  /\ Prompt \in Nat /\ Prompt >= 1 /\ MaxLength \in Nat /\ MaxLength = Prompt + call.new
           /\ call.new \in Nat /\ start \in Nat /\ Prompt <= start
           /\ ids \in Seq(Vocabulary) /\ Len(ids) \in Nat /\ MaxLength <= Len(ids)
           /\ Top \in Prompt .. MaxLength /\ Top <= start + 1 /\ Top <= Len(ids)
           /\ Top = IF start < MaxLength THEN start + 1 ELSE MaxLength
<1>1. Args /\ Written
  BY DEF Inv, Under
<1>2. /\ Prompt \in Nat /\ Prompt >= 1 /\ MaxLength \in Nat /\ MaxLength = Prompt + call.new
      /\ call.new \in Nat /\ call.size \in Nat
  BY <1>1, ArgFacts
<1>3. /\ start \in Nat /\ Prompt <= start /\ start < Len(ids)
      /\ ids \in Seq(Vocabulary) /\ Len(ids) = MaxLength + call.size
  BY <1>1 DEF Written
<1> QED BY <1>2, <1>3 DEF Top

\* Visible is the buffer behind the prompt, up to k.
Shown(k) ==
    /\ UpToStop(SubSeq(ids, 1, Top)) = SubSeq(ids, 1, k)
    /\ Visible \in Seq(Vocabulary)
    /\ Len(Visible) = k - Prompt
    /\ \A i \in 1 .. k - Prompt : Visible[i] = ids[Prompt + i]
    /\ \A j \in Prompt + 1 .. k - 1 : ids[j] \notin Stop
    /\ (\E j \in Prompt + 1 .. Top : ids[j] \in Stop) => k > Prompt /\ ids[k] \in Stop
    /\ (\A j \in Prompt + 1 .. Top : ids[j] \notin Stop) => k = Top

LEMMA VisibleFacts ==
    ASSUME Inv, Under
    PROVE  \E k \in Prompt .. Top : Shown(k)
<1>1. /\ Prompt \in Nat /\ Prompt >= 1 /\ ids \in Seq(Vocabulary) /\ Top \in Prompt .. MaxLength
      /\ MaxLength \in Nat /\ Top \in 0 .. Len(ids) /\ Args
  BY TopFacts DEF Inv
<1> DEFINE s == SubSeq(ids, 1, Top)
<1>2. s \in Seq(Vocabulary) /\ Len(s) = Top /\ \A i \in 1 .. Top : s[i] = ids[i]
  BY <1>1, PrefixFacts
<1>3. PICK k \in Prompt .. Top :
              /\ UpToStop(s) = SubSeq(s, 1, k)
              /\ \A j \in Prompt + 1 .. k - 1 : s[j] \notin Stop
              /\ StopIn(s) => k > Prompt /\ s[k] \in Stop
              /\ ~StopIn(s) => k = Top
  <2>1. Prompt <= Len(s)
    BY <1>1, <1>2
  <2> HIDE DEF s
  <2> QED BY <1>1, <1>2, <2>1, Cut
<1>4. k \in Nat /\ Top \in Nat /\ k <= Top /\ k \in 0 .. Len(s) /\ k \in 0 .. Len(ids)
  BY <1>1, <1>2, <1>3
<1>5. SubSeq(s, 1, k) = SubSeq(ids, 1, k)
  <2>1. /\ SubSeq(s, 1, k) \in Seq(Vocabulary) /\ Len(SubSeq(s, 1, k)) = k
        /\ \A i \in 1 .. k : SubSeq(s, 1, k)[i] = s[i]
    <3> HIDE DEF s
    <3> QED BY <1>2, <1>4, PrefixFacts
  <2>2. /\ SubSeq(ids, 1, k) \in Seq(Vocabulary) /\ Len(SubSeq(ids, 1, k)) = k
        /\ \A i \in 1 .. k : SubSeq(ids, 1, k)[i] = ids[i]
    BY <1>1, <1>4, PrefixFacts
  <2>3. \A i \in 1 .. k : SubSeq(s, 1, k)[i] = SubSeq(ids, 1, k)[i]
    <3> HIDE DEF s
    <3> QED BY <1>2, <1>4, <2>1, <2>2
  <2> HIDE DEF s
  <2> QED BY <2>1, <2>2, <2>3, SeqEqual
<1>6. UpToStop(s) = SubSeq(ids, 1, k)
  BY <1>3, <1>5
<1> DEFINE t == SubSeq(ids, 1, k)
<1>7. t \in Seq(Vocabulary) /\ Len(t) = k /\ \A i \in 1 .. k : t[i] = ids[i]
  BY <1>1, <1>4, PrefixFacts
<1>8. Visible = SubSeq(t, Prompt + 1, Len(t))
  BY <1>6 DEF Visible, Under
<1>9. /\ Visible \in Seq(Vocabulary) /\ Len(Visible) = k - Prompt
      /\ \A i \in 1 .. k - Prompt : Visible[i] = ids[Prompt + i]
  <2>1. \A i \in Prompt + 1 .. k : t[i] \in Vocabulary
    <3> HIDE DEF t
    <3> QED BY <1>1, <1>3, <1>7, ElementOfSeq
  <2>2. /\ SubSeq(t, Prompt + 1, k) \in Seq(Vocabulary)
        /\ Len(SubSeq(t, Prompt + 1, k)) =
              IF Prompt + 1 <= k THEN k - (Prompt + 1) + 1 ELSE 0
        /\ \A i \in 1 .. k - (Prompt + 1) + 1 :
              SubSeq(t, Prompt + 1, k)[i] = t[Prompt + 1 + i - 1]
    <3> HIDE DEF t
    <3> QED BY <1>1, <1>4, <2>1, SubSeqProperties
  <2>3. k \in Nat /\ k >= Prompt
    BY <1>1, <1>3
  <2> HIDE DEF t
  <2>4. ASSUME NEW i \in 1 .. k - Prompt PROVE Visible[i] = ids[Prompt + i]
    <3>1. i \in 1 .. k - (Prompt + 1) + 1 /\ Prompt + 1 + i - 1 = Prompt + i /\ Prompt + i \in 1 .. k
      BY <1>1, <2>3
    <3> QED BY <1>7, <1>8, <2>2, <3>1
  <2> QED BY <1>1, <1>7, <1>8, <2>2, <2>3, <2>4
<1>10. \A j \in Prompt + 1 .. k - 1 : ids[j] \notin Stop
  BY <1>1, <1>2, <1>3, <1>4
<1>11. StopIn(s) <=> \E j \in Prompt + 1 .. Top : ids[j] \in Stop
  <2>1. \A j \in Prompt + 1 .. Top : s[j] = ids[j]
    BY <1>1, <1>2
  <2> QED BY <1>2, <2>1 DEF StopIn
<1>12. k > Prompt => s[k] = ids[k]
  BY <1>1, <1>2, <1>4
<1> QED BY <1>3, <1>6, <1>9, <1>10, <1>11, <1>12 DEF Shown

\* Within the budget, the filter keeps all the tokens and only them.
LEMMA TrimKeepsTop ==
    ASSUME Inv, Under
    PROVE  Unmasked(SubSeq(ids, 1, MaxLength)) = SubSeq(ids, 1, Top)
<1>1. Written
  BY DEF Inv, Under
<1>2. /\ MaxLength \in Nat /\ start \in Nat /\ ids \in Seq(Vocabulary)
      /\ MaxLength \in 0 .. Len(ids) /\ Top \in 0 .. MaxLength /\ Top <= start + 1
      /\ Top \in 0 .. Len(ids) /\ Top = IF start < MaxLength THEN start + 1 ELSE MaxLength
  BY TopFacts
<1> DEFINE s == SubSeq(ids, 1, MaxLength)
<1>3. s \in Seq(Vocabulary) /\ Len(s) = MaxLength /\ \A i \in 1 .. MaxLength : s[i] = ids[i]
  BY <1>2, PrefixFacts
<1>4. \A i \in 1 .. Top : s[i] \in Token
  BY <1>1, <1>2, <1>3 DEF Written
<1>5. \A i \in Top + 1 .. Len(s) : s[i] = Mask
  BY <1>1, <1>2, <1>3 DEF Written
<1>6. Unmasked(s) = SubSeq(s, 1, Top)
  <2> HIDE DEF s
  <2> QED BY <1>2, <1>3, <1>4, <1>5, UnmaskedPrefix
<1>7. /\ SubSeq(s, 1, Top) \in Seq(Vocabulary) /\ Len(SubSeq(s, 1, Top)) = Top
      /\ \A i \in 1 .. Top : SubSeq(s, 1, Top)[i] = s[i]
  <2> HIDE DEF s
  <2> QED BY <1>2, <1>3, PrefixFacts
<1>8. /\ SubSeq(ids, 1, Top) \in Seq(Vocabulary) /\ Len(SubSeq(ids, 1, Top)) = Top
      /\ \A i \in 1 .. Top : SubSeq(ids, 1, Top)[i] = ids[i]
  BY <1>2, PrefixFacts
<1>9. \A i \in 1 .. Top : SubSeq(s, 1, Top)[i] = SubSeq(ids, 1, Top)[i]
  <2> HIDE DEF s
  <2> QED BY <1>2, <1>3, <1>7, <1>8
<1> HIDE DEF s
<1>10. SubSeq(s, 1, Top) = SubSeq(ids, 1, Top)
  BY <1>7, <1>8, <1>9, SeqEqual
<1> QED BY <1>6, <1>10 DEF s

LEMMA TrimStep ==
    ASSUME Inv, Trim
    PROVE  Inv'
<1>1. Under /\ Args /\ Written /\ Caches /\ pc' = "returned"
  BY DEF Inv, Under, Trim
<1>2. UNCHANGED <<call, start, block, seen, context, hidden, Prompt, MaxLength>>
  BY DEF Trim, Prompt, MaxLength
<1>3. /\ Prompt \in Nat /\ MaxLength \in Nat /\ start \in Nat /\ ids \in Seq(Vocabulary)
      /\ MaxLength \in 0 .. Len(ids) /\ Top \in 0 .. MaxLength /\ Top <= start + 1
      /\ Top \in 0 .. Len(ids) /\ Top = IF start < MaxLength THEN start + 1 ELSE MaxLength
  BY <1>1, TopFacts
<1>4. Unmasked(SubSeq(ids, 1, MaxLength)) = SubSeq(ids, 1, Top)
  BY <1>1, TrimKeepsTop
<1>5. PICK k \in Prompt .. Top : Shown(k)
  BY <1>1, VisibleFacts
<1>6. ids' = SubSeq(ids, 1, k)
  <2>1. ids' = UpToStop(SubSeq(ids, 1, Top))
    BY <1>4 DEF Trim
  <2> QED BY <1>5, <2>1 DEF Shown
<1>7. ids' \in Seq(Token) /\ Len(ids') <= MaxLength
  <2>1. k \in Int /\ k <= MaxLength /\ k >= 0 /\ \A i \in 1 .. k : ids[i] \in Token
    BY <1>1, <1>3, <1>5 DEF Written
  <2>2. SubSeq(ids, 1, k) \in Seq(Token) /\ Len(SubSeq(ids, 1, k)) = IF 1 <= k THEN k - 1 + 1 ELSE 0
    BY <2>1, SubSeqProperties
  <2> QED BY <1>3, <1>6, <2>1, <2>2
<1>8. Returned' /\ Cached' /\ Caches'
  BY <1>1, <1>2, <1>7 DEF Returned, Cached, Caches
<1> QED BY <1>1, <1>2, <1>8 DEF Inv, Args

LEMMA InvStep == TargetsNeverMask /\ Inv /\ [Next]_vars => Inv'
<1> SUFFICES ASSUME TargetsNeverMask, Inv, [Next]_vars PROVE Inv'
  OBVIOUS
<1>1. CASE Prefill
  BY <1>1, PrefillStep
<1>2. CASE Draft
  BY <1>2, DraftStep
<1>3. CASE Verify
  BY <1>3, VerifyStep
<1>4. CASE Trim
  BY <1>4, TrimStep
<1>5. CASE UNCHANGED vars
  BY <1>5
  DEF vars, Inv, Args, Written, Cached, Returned, Caches, StopIn, Prompt, MaxLength
<1> QED BY <1>1, <1>2, <1>3, <1>4, <1>5 DEF Next

LEMMA Invariance == TargetsNeverMask /\ Spec => []Inv
<1> SUFFICES ASSUME TargetsNeverMask PROVE Spec => []Inv
  OBVIOUS
<1>1. Inv /\ [Next]_vars => Inv'
  BY InvStep
<1> QED BY InvInit, <1>1, PTL DEF Spec

\* Buffers, caches and blocks keep their types and lengths, and a returned text
\* holds no mask and is within the budget.
THEOREM TypeCorrect == TargetsNeverMask => (Spec => []TypeOK)
<1> SUFFICES ASSUME TargetsNeverMask PROVE Spec => []TypeOK
  OBVIOUS
<1>1. Inv => TypeOK
  <2> SUFFICES ASSUME Inv PROVE TypeOK
    OBVIOUS
  <2>1. Args /\ Caches /\ Returned
    BY DEF Inv
  <2>2. MaxLength \in Nat /\ call.size \in Nat
    BY <2>1, ArgFacts
  <2>3. ids \in Seq(Vocabulary) /\ Len(ids) <= MaxLength + call.size
    <3>1. CASE pc = "prefill"
      <4>1. ids = [i \in 1 .. MaxLength + call.size |-> Mask]
        BY <3>1 DEF Inv
      <4>2. ids \in [1 .. MaxLength + call.size -> Vocabulary] /\ MaxLength + call.size \in Nat
        BY <2>2, <4>1 DEF Vocabulary
      <4>3. ids \in Seq(Vocabulary) /\ Len(ids) = MaxLength + call.size
        BY <4>2, FunctionIsSeq
      <4> QED BY <2>2, <4>3
    <3>2. CASE Under
      BY <2>2, <3>2 DEF Inv, Written, Under
    <3>3. CASE pc = "returned"
      <4>1. ids \in Seq(Token) /\ Len(ids) <= MaxLength
        BY <2>1, <3>3 DEF Returned
      <4>2. ids \in Seq(Vocabulary)
        BY <4>1, SeqMonotonic DEF Vocabulary
      <4> QED BY <2>2, <4>1, <4>2
    <3> QED BY <3>1, <3>2, <3>3 DEF Inv, Under
  <2> QED BY <2>1, <2>3 DEF TypeOK, Inv, Args, Caches, Returned
<1> QED BY <1>1, Invariance, PTL

\* At every block both caches cover the accepted tokens exactly once, and the
\* block is drafted from the last token the target has chosen and from masks.
THEOREM CachesCorrect == TargetsNeverMask => (Spec => []RoundsSeparate)
<1> SUFFICES ASSUME TargetsNeverMask PROVE Spec => []RoundsSeparate
  OBVIOUS
<1>1. Inv => RoundsSeparate
  <2> SUFFICES ASSUME Inv, pc = "draft"
               PROVE  /\ seen = SubSeq(ids, 1, start) /\ context \o hidden = SubSeq(ids, 1, start)
                      /\ start + call.size <= Len(ids)
                      /\ ids[start + 1] # Mask
                      /\ \A i \in start + 2 .. Len(ids) : ids[i] = Mask
    BY DEF CachesAligned, AnchorThenMasks, RoundsSeparate
  <2>1. Args /\ Written /\ start < MaxLength
    BY DEF Inv, Cached
  <2>2. MaxLength \in Nat /\ call.size \in Nat /\ start \in Nat
    BY <2>1, ArgFacts DEF Written
  <2>3. ids[start + 1] \in Token
    BY <2>1, <2>2 DEF Written
  <2>4. start + call.size <= Len(ids)
    BY <2>1, <2>2 DEF Written
  <2> QED BY <2>1, <2>3, <2>4, TokensAssumption DEF Inv, Cached, Written
<1> QED BY <1>1, Invariance, PTL

-----------------------------------------------------------------------------
\* What is visible is what the target decodes greedily.
LEMMA VisibleGreedy ==
    ASSUME Inv, Under
    PROVE  Reference!Greedily(Visible)
<1>1. PICK k \in Prompt .. Top : Shown(k)
  BY VisibleFacts
<1>2. /\ Prompt \in Nat /\ Prompt >= 1 /\ ids \in Seq(Vocabulary) /\ Top \in Prompt .. MaxLength
      /\ MaxLength \in Nat /\ MaxLength = Prompt + call.new /\ call.new \in Nat
      /\ Top <= Len(ids) /\ Top <= start + 1 /\ start \in Nat /\ Len(ids) \in Nat
  BY TopFacts
<1>3. k \in Nat /\ k >= Prompt /\ k <= Top
  BY <1>1, <1>2
<1>4. /\ Visible \in Seq(Vocabulary) /\ Len(Visible) = k - Prompt
      /\ \A i \in 1 .. k - Prompt : Visible[i] = ids[Prompt + i]
  BY <1>1 DEF Shown
<1>5. Len(Visible) <= call.new
  BY <1>2, <1>3, <1>4
<1>6. ASSUME NEW i \in 1 .. Len(Visible)
      PROVE  Visible[i] = Greedy(call.model, call.prompt \o SubSeq(Visible, 1, i - 1))
  <2>1. /\ i \in 1 .. k - Prompt /\ i - 1 \in 0 .. Len(Visible) /\ Prompt + i \in Prompt + 1 .. start + 1
        /\ Prompt + i - 1 \in 0 .. Len(ids) /\ (Prompt + i) - 1 = Prompt + (i - 1)
    BY <1>2, <1>3, <1>4
  <2>2. Visible[i] = Greedy(call.model, SubSeq(ids, 1, Prompt + i - 1))
    <3>1. ids[Prompt + i] = Greedy(call.model, SubSeq(ids, 1, Prompt + i - 1))
      BY <2>1 DEF Inv, Written, Under
    <3> QED BY <1>4, <2>1, <3>1
  <2> DEFINE v == SubSeq(Visible, 1, i - 1)
  <2> DEFINE p == SubSeq(ids, 1, Prompt + i - 1)
  <2>3. v \in Seq(Vocabulary) /\ Len(v) = i - 1 /\ \A j \in 1 .. i - 1 : v[j] = Visible[j]
    BY <1>4, <2>1, PrefixFacts
  <2>4. p \in Seq(Vocabulary) /\ Len(p) = Prompt + i - 1 /\ \A j \in 1 .. Prompt + i - 1 : p[j] = ids[j]
    BY <1>2, <2>1, PrefixFacts
  <2>5. call.prompt \in Seq(Vocabulary) /\ Len(call.prompt) = Prompt
    BY ArgFacts DEF Inv, Prompt
  <2> HIDE DEF v, p
  <2>6. /\ call.prompt \o v \in Seq(Vocabulary) /\ Len(call.prompt \o v) = Prompt + (i - 1)
        /\ \A j \in 1 .. Prompt + (i - 1) : (call.prompt \o v)[j] =
              IF j <= Prompt THEN call.prompt[j] ELSE v[j - Prompt]
    <3>1. /\ call.prompt \o v \in Seq(Vocabulary)
          /\ Len(call.prompt \o v) = Len(call.prompt) + Len(v)
          /\ \A j \in 1 .. Len(call.prompt) + Len(v) : (call.prompt \o v)[j] =
                IF j <= Len(call.prompt) THEN call.prompt[j] ELSE v[j - Len(call.prompt)]
      BY <2>3, <2>5, ConcatProperties
    <3> QED BY <2>3, <2>5, <3>1
  <2>7. ASSUME NEW j \in 1 .. Prompt + i - 1 PROVE (call.prompt \o v)[j] = p[j]
    <3>1. CASE j <= Prompt
      <4>1. ids[j] = call.prompt[j]
        BY <1>2, <3>1 DEF Inv, Written, Under
      <4> QED BY <1>2, <2>1, <2>4, <2>6, <3>1, <4>1
    <3>2. CASE j > Prompt
      <4>1. /\ j - Prompt \in 1 .. i - 1 /\ j - Prompt \in 1 .. k - Prompt
            /\ Prompt + (j - Prompt) = j /\ ~(j <= Prompt) /\ j \in 1 .. Prompt + (i - 1)
        BY <1>2, <1>3, <2>1, <3>2
      <4>2. v[j - Prompt] = ids[j]
        BY <1>4, <2>3, <4>1
      <4> QED BY <2>4, <2>6, <4>1, <4>2
    <3>3. j <= Prompt \/ j > Prompt
      BY <1>2, <2>1
    <3> QED BY <3>1, <3>2, <3>3, Zenon
  <2>8. call.prompt \o v = p
    BY ZenonT(30), <1>2, <2>1, <2>4, <2>6, <2>7, SeqEqual
  <2> QED BY <2>2, <2>8 DEF v, p
<1>7. ASSUME NEW i \in 1 .. Len(Visible), Visible[i] \in Stop PROVE i = Len(Visible)
  <2>1. SUFFICES ASSUME i # Len(Visible) PROVE FALSE
    OBVIOUS
  <2>2. i \in 1 .. k - Prompt /\ Prompt + i \in Prompt + 1 .. k - 1
    BY <1>2, <1>3, <1>4, <2>1
  <2>3. ids[Prompt + i] \in Stop
    BY <1>4, <1>7, <2>2
  <2> QED BY <1>1, <2>2, <2>3 DEF Shown
<1> QED BY <1>5, <1>6, <1>7 DEF Reference!Greedily

\* The same facts as implications, to be used of the state after a step.
LEMMA VisibleState ==
    Inv /\ Under =>
        /\ \E k \in Prompt .. Top : Shown(k)
        /\ Reference!Greedily(Visible)
        /\ start \in Nat /\ Top \in Prompt .. MaxLength
        /\ Top = IF start < MaxLength THEN start + 1 ELSE MaxLength
BY VisibleFacts, VisibleGreedy, TopFacts

LEMMA PrefillMaps ==
    ASSUME TargetsNeverMask, Inv, Inv', Prefill
    PROVE  Reference!Emit \/ UNCHANGED <<call, Visible, pc = "returned">>
<1>1. Visible = <<>> /\ call' = call /\ pc # "returned" /\ pc' # "returned" /\ Under'
  BY DEF Prefill, Visible, Under
<1>2. /\ (\E k \in Prompt .. Top : Shown(k))'
      /\ Reference!Greedily(Visible)'
  <2>1. (Inv /\ Under =>
            /\ \E k \in Prompt .. Top : Shown(k)
            /\ Reference!Greedily(Visible)
            /\ start \in Nat /\ Top \in Prompt .. MaxLength
            /\ Top = IF start < MaxLength THEN start + 1 ELSE MaxLength)'
    BY VisibleState, PTL
  <2> QED BY <1>1, <2>1
<1>3. Visible' \in Seq(Vocabulary) /\ Reference!Greedily(Visible)'
  BY <1>2 DEF Shown
<1>4. CASE Len(Visible') = 0
  <2>1. Visible' = <<>>
    BY <1>3, <1>4
  <2> QED BY <1>1, <2>1
<1>5. CASE Len(Visible') # 0
  <2>1. Len(Visible) < Len(Visible') /\ SubSeq(Visible', 1, Len(Visible)) = Visible
    <3>1. Len(Visible) = 0 /\ Len(Visible') \in Nat
      BY <1>1, <1>3
    <3>2. SubSeq(Visible', 1, 0) = <<>>
      BY SubSeqEmpty
    <3> QED BY <1>1, <1>5, <3>1, <3>2
  <2> QED BY <1>1, <1>3, <2>1 DEF Reference!Emit, Reference!Greedily
<1> QED BY <1>4, <1>5

LEMMA DraftMaps ==
    ASSUME Draft
    PROVE  UNCHANGED <<call, Visible, pc = "returned">>
<1>1. /\ UNCHANGED <<call, ids, start>> /\ pc = "draft" /\ pc' = "verify"
  BY DEF Draft
<1> QED BY <1>1 DEF Visible, UpToStop, StopIn, Top, Prompt, MaxLength

LEMMA TopGrows ==
    ASSUME NEW p \in Nat, NEW m \in Nat, NEW s \in Nat, NEW s1 \in Nat, s1 > s,
           NEW t \in p .. m, t = IF s < m THEN s + 1 ELSE m,
           NEW t1 \in p .. m, t1 = IF s1 < m THEN s1 + 1 ELSE m
    PROVE  t <= t1 /\ t \in Nat /\ t1 \in Nat
OBVIOUS

LEMMA VerifyMaps ==
    ASSUME TargetsNeverMask, Inv, Inv', Verify
    PROVE  Reference!Emit \/ UNCHANGED <<call, Visible, pc = "returned">>
<1>1. /\ call' = call /\ pc # "returned" /\ pc' # "returned" /\ Under /\ Under'
      /\ UNCHANGED <<Prompt, MaxLength>>
  BY DEF Verify, Under, Prompt, MaxLength
<1>2. /\ (\E k \in Prompt .. Top : Shown(k))'
      /\ Reference!Greedily(Visible)'
      /\ (start \in Nat /\ Top \in Prompt .. MaxLength)'
      /\ (Top = IF start < MaxLength THEN start + 1 ELSE MaxLength)'
  <2>1. (Inv /\ Under =>
            /\ \E k \in Prompt .. Top : Shown(k)
            /\ Reference!Greedily(Visible)
            /\ start \in Nat /\ Top \in Prompt .. MaxLength
            /\ Top = IF start < MaxLength THEN start + 1 ELSE MaxLength)'
    BY VisibleState, PTL
  <2> QED BY <1>1, <2>1
<1>3. PICK k \in Prompt .. Top : Shown(k)
  BY <1>1, VisibleFacts
<1>4. PICK l \in (Prompt .. Top)' : Shown(l)'
  BY <1>2
<1>5. /\ Prompt \in Nat /\ MaxLength \in Nat /\ start \in Nat
      /\ Top \in Prompt .. MaxLength /\ Top <= start + 1
      /\ Top = IF start < MaxLength THEN start + 1 ELSE MaxLength
  BY <1>1, TopFacts
<1>6. /\ start' \in Nat /\ Top' \in Prompt .. MaxLength
      /\ Top' = IF start' < MaxLength THEN start' + 1 ELSE MaxLength
  BY <1>1, <1>2
<1>7. start' > start /\ \A i \in 1 .. start + 1 : ids'[i] = ids[i]
  BY VerifyStep
<1>8. Top <= Top' /\ Top \in Nat /\ Top' \in Nat
  BY <1>5, <1>6, <1>7, TopGrows
<1>9. /\ k \in Prompt .. Top /\ Visible \in Seq(Vocabulary) /\ Len(Visible) = k - Prompt
      /\ \A i \in 1 .. k - Prompt : Visible[i] = ids[Prompt + i]
      /\ \A j \in Prompt + 1 .. k - 1 : ids[j] \notin Stop
      /\ (\E j \in Prompt + 1 .. Top : ids[j] \in Stop) => k > Prompt /\ ids[k] \in Stop
      /\ (\A j \in Prompt + 1 .. Top : ids[j] \notin Stop) => k = Top
  BY <1>3 DEF Shown
<1>10. /\ l \in Prompt .. Top' /\ Visible' \in Seq(Vocabulary) /\ Len(Visible') = l - Prompt
       /\ \A i \in 1 .. l - Prompt : Visible'[i] = ids'[Prompt + i]
       /\ \A j \in Prompt + 1 .. l - 1 : ids'[j] \notin Stop
       /\ (\E j \in Prompt + 1 .. Top' : ids'[j] \in Stop) => l > Prompt /\ ids'[l] \in Stop
       /\ (\A j \in Prompt + 1 .. Top' : ids'[j] \notin Stop) => l = Top'
  BY <1>1, <1>4 DEF Shown
<1>11. l >= k
  <2>1. SUFFICES ASSUME l < k PROVE FALSE
    BY <1>5, <1>6, <1>9, <1>10
  <2>2. l \in Nat /\ k \in Nat /\ l < Top'
    <3>1. l \in Nat /\ k \in Nat /\ k <= Top
      BY <1>5, <1>8, <1>9, <1>10
    <3> QED BY <1>8, <2>1, <3>1
  <2>3. l > Prompt /\ ids'[l] \in Stop
    BY <1>10, <2>2
  <2>4. l \in Prompt + 1 .. k - 1 /\ l \in 1 .. start + 1
    BY <1>5, <1>9, <2>1, <2>2, <2>3
  <2> QED BY <1>7, <1>9, <2>3, <2>4
<1>12. k \in Nat /\ l \in Nat /\ \A i \in 1 .. k - Prompt : Visible'[i] = Visible[i]
  <2>1. k \in Nat /\ l \in Nat
    BY <1>5, <1>6, <1>9, <1>10
  <2>2. ASSUME NEW i \in 1 .. k - Prompt PROVE Visible'[i] = Visible[i]
    <3>1. i \in 1 .. l - Prompt /\ Prompt + i \in 1 .. start + 1
      BY <1>5, <1>9, <1>11, <2>1
    <3> QED BY <1>7, <1>9, <1>10, <3>1
  <2> QED BY <2>1, <2>2
<1>13. CASE l = k
  <2>1. Visible' = Visible
    BY <1>9, <1>10, <1>12, <1>13, SeqEqual
  <2> QED BY <1>1, <2>1
<1>14. CASE l # k
  <2>1. Len(Visible) < Len(Visible') /\ Len(Visible) \in 0 .. Len(Visible')
    BY <1>5, <1>9, <1>10, <1>11, <1>12, <1>14
  <2>2. SubSeq(Visible', 1, Len(Visible)) = Visible
    <3>1. /\ SubSeq(Visible', 1, Len(Visible)) \in Seq(Vocabulary)
          /\ Len(SubSeq(Visible', 1, Len(Visible))) = Len(Visible)
          /\ \A i \in 1 .. Len(Visible) : SubSeq(Visible', 1, Len(Visible))[i] = Visible'[i]
      BY <1>10, <2>1, PrefixFacts
    <3>2. \A i \in 1 .. Len(Visible) : SubSeq(Visible', 1, Len(Visible))[i] = Visible[i]
      BY <1>9, <1>12, <3>1
    <3> QED BY <1>9, <3>1, <3>2, SeqEqual
  <2> QED BY <1>1, <1>2, <2>1, <2>2 DEF Reference!Emit, Reference!Greedily
<1> QED BY <1>13, <1>14

LEMMA TrimMaps ==
    ASSUME Inv, Trim
    PROVE  Reference!Return
<1>1. /\ Under /\ pc = "trim" /\ pc' = "returned" /\ Written
      /\ UNCHANGED <<call, start, Prompt, MaxLength>>
  BY DEF Trim, Inv, Under, Prompt, MaxLength
<1>2. PICK k \in Prompt .. Top : Shown(k)
  BY <1>1, VisibleFacts
<1>3. /\ Prompt \in Nat /\ MaxLength \in Nat /\ start \in Nat /\ Prompt <= start
      /\ MaxLength = Prompt + call.new /\ call.new \in Nat /\ Len(ids) \in Nat
      /\ ids \in Seq(Vocabulary) /\ MaxLength \in 0 .. Len(ids)
      /\ Top \in Prompt .. MaxLength /\ Top <= start + 1 /\ Top \in 0 .. Len(ids)
      /\ Top = IF start < MaxLength THEN start + 1 ELSE MaxLength
  BY <1>1, TopFacts
<1>4. /\ k \in Prompt .. Top /\ Visible \in Seq(Vocabulary) /\ Len(Visible) = k - Prompt
      /\ \A i \in 1 .. k - Prompt : Visible[i] = ids[Prompt + i]
      /\ (\E j \in Prompt + 1 .. Top : ids[j] \in Stop) => k > Prompt /\ ids[k] \in Stop
      /\ (\A j \in Prompt + 1 .. Top : ids[j] \notin Stop) => k = Top
  BY <1>2 DEF Shown
<1>5. Visible' = Visible
  <2>1. Inv' /\ ids' = UpToStop(SubSeq(ids, 1, Top))
    <3>1. Unmasked(SubSeq(ids, 1, MaxLength)) = SubSeq(ids, 1, Top)
      BY <1>1, TrimKeepsTop
    <3> QED BY <3>1, TrimStep DEF Trim
  <2> QED BY <1>1, <2>1 DEF Visible
<1>6. Len(Visible) = call.new \/ \E i \in 1 .. Len(Visible) : Visible[i] \in Stop
  <2>1. CASE \E j \in Prompt + 1 .. Top : ids[j] \in Stop
    <3>1. k > Prompt /\ ids[k] \in Stop
      BY <1>4, <2>1
    <3>2. k - Prompt \in 1 .. Len(Visible) /\ k - Prompt \in 1 .. k - Prompt /\ Prompt + (k - Prompt) = k
      BY <1>3, <1>4, <3>1
    <3> QED BY <1>4, <3>1, <3>2
  <2>2. CASE \A j \in Prompt + 1 .. Top : ids[j] \notin Stop
    <3>1. start >= MaxLength
      <4>1. SUFFICES ASSUME start < MaxLength PROVE FALSE
        BY <1>3
      <4>2. StopIn(ids) /\ Top = start + 1
        BY <1>1, <1>3, <4>1 DEF Inv, Cached
      <4>3. PICK j \in Prompt + 1 .. Len(ids) : ids[j] \in Stop
        BY <4>2 DEF StopIn
      <4>4. j <= start + 1
        BY <1>1, <1>3, <4>3, TokensAssumption DEF Written
      <4> QED BY <1>3, <2>2, <4>2, <4>3, <4>4
    <3> QED BY <1>3, <1>4, <2>2, <3>1
  <2> QED BY <2>1, <2>2
<1> QED BY <1>1, <1>5, <1>6 DEF Reference!Return

\* spec_generate returns what the target alone decodes greedily, whatever the
\* draft proposes: for every target that never chooses the mask, every prompt,
\* budget and block size (generation_evaluation.py:252).
THEOREM Lossless == TargetsNeverMask => (Spec => ImplementsGreedy)
<1> SUFFICES ASSUME TargetsNeverMask PROVE Spec => ImplementsGreedy
  OBVIOUS
<1> DEFINE refVars == <<call, Visible, pc = "returned">>
<1>1. Init => Reference!Init
  BY DEF Init, Reference!Init, Visible
<1>2. Inv /\ Inv' /\ [Next]_vars => [Reference!Emit \/ Reference!Return]_refVars
  <2> SUFFICES ASSUME Inv, Inv', [Next]_vars
               PROVE  [Reference!Emit \/ Reference!Return]_refVars
    OBVIOUS
  <2>1. CASE Prefill
    BY <2>1, PrefillMaps
  <2>2. CASE Draft
    BY <2>2, DraftMaps
  <2>3. CASE Verify
    BY <2>3, VerifyMaps
  <2>4. CASE Trim
    BY <2>4, TrimMaps
  <2>5. CASE UNCHANGED vars
    BY <2>5 DEF vars, Visible, UpToStop, StopIn, Top, Prompt, MaxLength
  <2> QED BY <2>1, <2>2, <2>3, <2>4, <2>5 DEF Next
<1>3. Spec => []Inv
  BY Invariance
<1> QED BY <1>1, <1>2, <1>3, PTL DEF Spec, ImplementsGreedy, Reference!Spec
=============================================================================
