---------------------------- MODULE GreedyDecode ----------------------------
(***************************************************************************)
(* What a caller of speculative decoding relies on: the text that comes    *)
(* back is the one the target model alone decodes greedily, up to and      *)
(* including the first stop token or up to the budget.                     *)
(***************************************************************************)
EXTENDS Naturals, Sequences

CONSTANTS
    Greedy(_, _),  \* the token a model finds most likely after a context
    Stop           \* the stop tokens

VARIABLES
    call,    \* the model, the prompt and the budget of new tokens
    text,    \* the new tokens so far
    done     \* the call has returned

Greedily(t) ==
    /\ Len(t) <= call.new
    /\ \A i \in 1 .. Len(t) :
          t[i] = Greedy(call.model, call.prompt \o SubSeq(t, 1, i - 1))
    /\ \A i \in 1 .. Len(t) : t[i] \in Stop => i = Len(t)

Init == text = <<>> /\ done = FALSE

Emit ==
    /\ ~done
    /\ Len(text) < Len(text')
    /\ SubSeq(text', 1, Len(text)) = text
    /\ Greedily(text')
    /\ UNCHANGED <<call, done>>

Return ==
    /\ ~done
    /\ Len(text) = call.new \/ \E i \in 1 .. Len(text) : text[i] \in Stop
    /\ done' = TRUE
    /\ UNCHANGED <<call, text>>

Spec == Init /\ [][Emit \/ Return]_<<call, text, done>>
=============================================================================
