------------------------- MODULE MCPreparedTeacher -------------------------
(* Corpora of up to six lines: a document twice, an id twice, an id that    *)
(* looks like one made up, lines without an id, a malformed line.           *)
EXTENDS PreparedTeacher

Line(d, i) == [doc |-> d, id |-> i]

Mixed == <<Line("a", <<"x">>), Line("b", <<"x", 3>>), Line("a", <<"x">>),
           Line("c", <<"x">>), Line("d", NoId), Line("e", <<"x", 3>>)>>
Same == <<Line("a", NoId), Line("a", NoId)>>
Bad == <<Line("a", NoId), Line("b", NoId), Malformed>>

Preps ==
    {[lines |-> s, evalDocs |-> e, ratio |-> TRUE, limit |-> n, force |-> f] :
        s \in {Mixed, Same, Bad, <<Line("a", NoId)>>}, e \in SUBSET {"a", "b"},
        n \in {0, 2, 6}, f \in BOOLEAN}
      \cup {[lines |-> Mixed, evalDocs |-> {}, ratio |-> FALSE, limit |-> 4, force |-> f] :
              f \in BOOLEAN}

\* One record whose prompt cannot be rendered.
NoPrompt == [i \in 0 .. 3 |-> IF i = 2 THEN "unrendered" ELSE "row"]
=============================================================================
