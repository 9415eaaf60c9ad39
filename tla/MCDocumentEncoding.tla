------------------------- MODULE MCDocumentEncoding -------------------------
EXTENDS DocumentEncoding

\* Lines that end in every way, with a letter or nothing on them, alike and mixed.
MCLines ==
    UNION {[1..n -> {65, NL, CR}] : n \in 0..2}
    \cup {<<CR, NL, 65>>, <<65, CR, NL>>, <<NL, CR, NL>>, <<CR, CR, NL>>, <<65, NL, CR>>, <<65, CR, 65>>, <<NL, 65, NL>>}
\* Bytes of every role: letters, line ends, a two and a three byte sequence, a
\* surrogate and an overlong spelling, marks, NUL.
MCBytes == [1..2 -> {NUL, CR, 169, 195, 224, 237, 130, 255, 254}] \cup [1..3 -> {CR, 169, 195, 224, 237, 130}]
\* Marked files, pairs of UTF-16 units, bytes of Windows-1252 and rejected sequences.
MCSamples ==
    {<<239, 187, 191>> \o s : s \in {<<>>, <<65>>, <<65, CR, NL>>, <<CR, 65, NL>>}}
    \cup {<<255, 254, 65, 66>>, <<254, 255, 66, 65>>, <<255, 254, 61, 216, 2, 222>>,
          <<254, 255, 216, 61, 222, 2>>, <<255, 254, 61, 216>>, <<255, 254, 2, 222>>,
          <<240, 159, 152, 130>>, <<240, 130, 130, 172>>, <<244, 144, 128, 128>>, <<226, 130, 172>>,
          <<128, 159>>, <<129>>, <<160, 255>>}
MCFiles == MCLines \cup MCBytes \cup MCSamples
MCRewrites == {<<65, CR, NL>>, <<NUL>>}
MCInsertions == {<<NL>>, <<66>>}
=============================================================================
