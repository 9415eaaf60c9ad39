------------------------------ MODULE MCTextPane ------------------------------
(* Small texts for TLC: a line that wraps with a wide cluster, an unwrapped line  *)
(* longer than its pane with a terminator at the end, and the live differences of *)
(* a changed and of a removed line.                                               *)
EXTENDS TextPane

Wrapped(diff) == [columns |-> 2, rows |-> 2, wrap |-> TRUE, tab |-> 4, diff |-> diff]
Plain(diff) == [columns |-> 2, rows |-> 2, wrap |-> FALSE, tab |-> 4, diff |-> diff]

Removed == [hunks |-> <<[baseStart |-> 1, targetStart |-> 1, base |-> <<<<"b", "W">>>>, target |-> <<>>]>>,
            changed |-> <<>>]
Changed == [hunks |-> <<[baseStart |-> 0, targetStart |-> 0, base |-> <<<<"a", "b">>>>, target |-> <<<<"a", "A">>>>]>>,
            changed |-> <<[line |-> 0, baseline |-> 0, removed |-> <<[from |-> 1, to |-> 2]>>,
                           merged |-> <<[kind |-> "Same", text |-> <<"a">>], [kind |-> "Removed", text |-> <<"b">>],
                                        [kind |-> "Added", text |-> <<"A">>]>>]>>]

TheTexts == {[text |-> <<"a", "W", "NL", "b">>, pane |-> Wrapped(NoDiff)],
             [text |-> <<"W", "a", "NL">>, pane |-> Plain(NoDiff)],
             [text |-> <<"a", "NL", "W">>, pane |-> Wrapped(Removed)],
             [text |-> <<"a", "A", "NL">>, pane |-> Plain(Changed)]}
TheReplacements == {<<"b">>}
TheTyped == {<<"a">>}
Classes == {"a", "W", "TAB", "FMT", "MARK", "SPACING", "PREPEND", "ZWJ", "RI", "L", "V", "T", "LV", "LVT",
            "EMOJI", "TEXTEMOJI", "SKIN", "VS16", "BAD"}
TheClustered == UNION {[1..n -> Classes] : n \in 0..3} \cup UNION {[1..n -> {"a", "EMOJI", "MARK", "ZWJ", "RI"}] : n \in 4..5}
=============================================================================
