---------------------------- MODULE MCSpecDecode ----------------------------
(* SpecDecode with targets that look at the last token and at the length. *)
EXTENDS SpecDecode

CONSTANTS a, b, end

Tables == [{a, b} \X {0, 1} -> Token]
Table(m, c) ==
    LET last == c[Len(c)]
    IN  m[<<IF last \in {a, b} THEN last ELSE a, Len(c) % 2>>]
SomePrompts == {<<a>>, <<end, b>>}
=============================================================================
