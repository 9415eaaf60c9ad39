--------------------------- MODULE PaletteSearcher ---------------------------
(***************************************************************************)
(* The ranking of a picker's candidates for a query (PaletteSearcher.cpp)  *)
(* and the edits of a one-line query (PromptEditState.cpp).  A label and   *)
(* an id are sequences of bytes; a byte is its number.                     *)
(***************************************************************************)
EXTENDS Integers, Sequences, FiniteSets, SequencesExt

folded(byte) == IF byte \in 65..90 THEN byte + 32 ELSE byte

\* The default weights of the matcher.
baseScore == 10
wordBoundaryBonus == 8
contiguityBonus == 6
exactCaseBonus == 1
lengthCap == 100
Separators == {47, 95, 45, 46}
NoScore == -1000

\* Where each byte of a query is first found after the one before; empty when one is not.
Found(candidate, query) ==
  FoldLeft(LAMBDA at, wanted :
      Append(at, Min({Len(candidate) + 1} \cup {i \in (IF at = <<>> THEN 0 ELSE Last(at)) + 1..Len(candidate) :
                                                  folded(candidate[i]) = folded(wanted)})),
    <<>>, query)

\* What the k-th byte of a query adds, found at `at[k]`.
matched(candidate, query, at, k) ==
  baseScore
  + (IF at[k] = 1 \/ candidate[at[k] - 1] \in Separators THEN wordBoundaryBonus ELSE 0)
  + (IF k > 1 /\ at[k] = at[k - 1] + 1 THEN contiguityBonus ELSE 0)
  + (IF candidate[at[k]] = query[k] THEN exactCaseBonus ELSE 0)
scoreAt(candidate, query, at) ==
  IF \E k \in DOMAIN at : at[k] > Len(candidate) THEN NoScore
  ELSE FoldLeft(LAMBDA sum, k : sum + matched(candidate, query, at, k), 0, [k \in DOMAIN query |-> k])
         - Min({Len(candidate), lengthCap})

fuzzyScore(candidate, query) ==
  IF query = <<>> THEN 0 ELSE scoreAt(candidate, query, Found(candidate, query))

\* Byte order of two sequences.
Before(left, right) ==
  \E n \in 0..Len(left) :
    /\ n <= Len(right) /\ \A i \in 1..n : left[i] = right[i]
    /\ n < Len(right) /\ (n = Len(left) \/ left[n + 1] < right[n + 1])

Score(candidate, query) == Max({fuzzyScore(candidate.label, query), fuzzyScore(candidate.id, query)})

\* The better score, or of the same score the one before by label, then by id.
outranks(row, other) ==
  CASE row.score # other.score                     -> row.score > other.score
    [] row.candidate.label # other.candidate.label -> Before(row.candidate.label, other.candidate.label)
    [] OTHER                                       -> Before(row.candidate.id, other.candidate.id)

\* The candidates a query selects, best first, and as they are listed where none outranks.
scored(candidates, query) ==
  [i \in DOMAIN candidates |-> [candidate |-> candidates[i], score |-> Score(candidates[i], query), listed |-> i]]
bestFirst(rows) ==
  SortSeq(rows, LAMBDA row, other : outranks(row, other) \/ (~outranks(other, row) /\ row.listed < other.listed))
candidatesOf(rows) == [k \in DOMAIN rows |-> rows[k].candidate]
rankPaletteCandidates(candidates, query) ==
  candidatesOf(bestFirst(SelectSeq(scored(candidates, query), LAMBDA row : row.score > NoScore)))

-----------------------------------------------------------------------------
(* A query and its cursor; every byte is a grapheme of its own here. *)

EmptyQuery == [text |-> <<>>, cursor |-> 0]
isWordByte(byte) == byte \in (48..57) \cup (65..90) \cup (97..122) \cup {95}

wordBoundaryBackward(text, cursor) ==
  LET word == Max({0} \cup {i \in 1..cursor : isWordByte(text[i])})
  IN  Max({0} \cup {i \in 1..word : ~isWordByte(text[i])})

Erased(state, from, to) ==
  [text |-> SubSeq(state.text, 1, from) \o SubSeq(state.text, to + 1, Len(state.text)), cursor |-> from]

applyPromptTextEdit(state, kind, text) ==
  LET size == Len(state.text) cursor == state.cursor
  IN  CASE kind = "Insert" ->
             [text |-> SubSeq(state.text, 1, cursor) \o text \o SubSeq(state.text, cursor + 1, size),
              cursor |-> cursor + Len(text)]
        [] kind = "MoveLeft" -> [state EXCEPT !.cursor = Max({0, cursor - 1})]
        [] kind = "MoveRight" -> [state EXCEPT !.cursor = Min({size, cursor + 1})]
        [] kind = "MoveToStart" -> [state EXCEPT !.cursor = 0]
        [] kind = "MoveToEnd" -> [state EXCEPT !.cursor = size]
        [] kind = "DeleteBackward" -> Erased(state, Max({0, cursor - 1}), cursor)
        [] kind = "DeleteForward" -> Erased(state, cursor, Min({size, cursor + 1}))
        [] kind = "DeleteWordBackward" -> Erased(state, wordBoundaryBackward(state.text, cursor), cursor)
        [] OTHER -> state
=============================================================================
