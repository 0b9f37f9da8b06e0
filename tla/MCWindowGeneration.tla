------------------------- MODULE MCWindowGeneration -------------------------
(* Six records, under limits of tokens that allow all of them, some or none; *)
(* a record of up to five tokens with an answer of up to five.              *)
EXTENDS WindowGeneration

\* A first word of the instruction may be one of a document.
MCBefore == <<"a", "p", "a">>
MCAfter == <<"q">>

\* The empty block of thoughts, the end of a turn and a newline.
MCOpening == <<"think">>
MCClosing == <<"end", "nl">>

Texts(n) == UNION {[1 .. k -> {"a", "b"}] : k \in 0 .. n}
MCDocuments == Texts(5)
MCAnswers == Texts(5) \ {<< >>}

\* Under a limit of 4 the longest record is too long by itself, under 1 all are.
MCLengths == <<3, 2, 5, 2, 3, 4>>
=============================================================================
