---------------------------- MODULE MCFindReplace ----------------------------
EXTENDS FindReplace

MCDocuments == <<<<"a", "A", " ">>, <<"b">>>>
MCQueries == {<<"a">>, <<"(">>}
MCReplacements == {<<"a", "a">>}
MCInserted == {<<"b">>}
MCRanges == {[begin |-> 0, end |-> 0], [begin |-> 1, end |-> 3]}
\* Every pattern of up to three signs, and longer ones that nest what those cannot.
MCPatterns ==
  UNION {[1..n -> {"a", "b", ".", "*", "?", "|", "(", ")", "$"}] : n \in 1..3}
    \cup {<<"(", "a", "|", "b", ")", "*">>, <<"(", "a", "*", ")", "*">>, <<"(", "a", "?", ")", "+", "b">>,
          <<"a", "|", "(", "a", ".", ")", "?">>, <<"[", "^", "a", "-", "b", "]">>, <<"[", "A", "-", "a", "]", "+">>,
          <<"^", "(", "|", "b", ")", "$">>, <<"(", ".", "|", "a", "b", ")", "a">>, <<"\\", "(", "*">>}
MCSearched == UNION {[1..n -> {"a", "A", "b", " "}] : n \in 0..2} \cup {<<"a", "b", "a">>, <<"a", " ", "b">>, <<"(", "(", "a">>}
=============================================================================
