--------------------------- MODULE MCDiffIngestion ---------------------------
EXTENDS DiffReview

Lines(x, y) == <<x, "NL", "SP", "NL", y, "NL">>
Clean == Lines("a", "b")
Large == Clean \o Clean
\* One line changed, or both, or a text with more lines than are compared.
MCContents == {Clean, Lines("A", "b"), Lines("A", "B"), Large}
MCEvents == {[file |-> 1, baseline |-> Clean, content |-> Lines("A", "B"), previous |-> 0],
             [file |-> 1, baseline |-> Clean, content |-> Absent, previous |-> 0],
             [file |-> 2, baseline |-> Clean, content |-> Large, previous |-> 1],
             [file |-> 2, baseline |-> Large, content |-> Clean, previous |-> 0]}
MCHeads == {[f \in Files |-> Clean], [f \in Files |-> IF f = 1 THEN Lines("A", "b") ELSE Absent]}
MCCodePoints == {"a", "b", "A", "B", "SP", "NL"}
MCLimits == [lines |-> 4, cells |-> 100, words |-> 100, block |-> 100]
\* Every text of up to two ended lines, equal, reworded or different, and a last that is not ended.
MCLines == {<<"a">>, <<"a", "SP", "b">>, <<"b">>, <<>>}
MCCompared == {FlattenSeq([k \in DOMAIN ls |-> Append(ls[k], "NL")]) \o end :
                 ls \in UNION {[1..n -> MCLines] : n \in 0..2}, end \in {<<>>, <<"a">>, <<"A", "SP", "b">>}}
=============================================================================
