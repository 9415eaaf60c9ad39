----------------------------- MODULE TextEditing -----------------------------
(***************************************************************************)
(* The commands that change a text: the line, case and transpose commands  *)
(* (EditCommands.cpp), typing and deleting (TextInputCommands.cpp), and    *)
(* the clipboard register (ClipboardRegister.cpp).  Each turns a text and  *)
(* its selections into a list of edits [at, erased, inserted], in the      *)
(* order of their offsets, and the selections after them.                  *)
(***************************************************************************)
EXTENDS SelectionNavigation

CONSTANT TabWidth   \* the tab and indent width the editor passes, 4

ASSUME TabWidthAssumption == TabWidth \in 1..16

Refused == [sel |-> <<>>, text |-> <<>>, edits |-> <<>>, refused |-> TRUE]
Outcome(text, sel, edits) == [sel |-> sel, text |-> text, edits |-> edits, refused |-> FALSE]

Edit(at, erased, inserted) == [at |-> at, erased |-> erased, inserted |-> inserted]
Spaces(n) == [k \in 1..n |-> " "]

-----------------------------------------------------------------------------
(* Lines with their terminators: here a carriage return ends a line too.   *)

Terminated(text, i) == /\ At(text, i) \in {"NL", "CR"}
                       /\ ~(At(text, i) = "CR" /\ i + 1 < Len(text) /\ At(text, i + 1) = "NL")

terminatedLine(text, from, at) ==
  [start |-> from, end |-> at + 1,
   contentEnd |-> IF at > from /\ At(text, at) = "NL" /\ At(text, at - 1) = "CR" THEN at - 1 ELSE at]
lastLine(text, from) == [start |-> from, contentEnd |-> Len(text), end |-> Len(text)]
linesEnding(text, ends) ==
  [k \in DOMAIN ends |-> terminatedLine(text, IF k = 1 THEN 0 ELSE ends[k - 1] + 1, ends[k])]
    \o <<lastLine(text, IF ends = <<>> THEN 0 ELSE Last(ends) + 1)>>
linesOf(text) == linesEnding(text, SelectSeq(Numbers(0, Len(text) - 1), LAMBDA i : Terminated(text, i)))

lineForOffset(lines, offset) ==
  LET holds == {k \in DOMAIN lines : \/ offset < lines[k].end
                                     \/ offset = lines[k].contentEnd /\ lines[k].contentEnd < lines[k].end}
  IN IF holds = {} THEN Len(lines) ELSE Min(holds)

\* A selection that ends at the start of a line does not touch that line.
lastUnder(s, lines, first, at) ==
  IF isCaret(s) THEN first ELSE IF at > first /\ upper(s).byte = lines[at].start THEN at - 1 ELSE at
linesFrom(s, lines, first) == first..lastUnder(s, lines, first, lineForOffset(lines, upper(s).byte))
linesUnder(s, lines) == linesFrom(s, lines, lineForOffset(lines, lower(s).byte))

touchedLines(sel, lines) ==
  SelectSeq(Numbers(1, Len(lines)), LAMBDA l : \E k \in DOMAIN sel : l \in linesUnder(sel[k], lines))

\* The maximal runs of neighbouring lines.
runsOf(touched) ==
  LET Add(runs, l) == IF runs # <<>> /\ l = Last(runs).last + 1
                        THEN Append(Front(runs), [Last(runs) EXCEPT !.last = l])
                        ELSE Append(runs, [first |-> l, last |-> l])
  IN FoldLeft(Add, <<>>, touched)

content(text, line) == Slice(text, line.start, line.contentEnd)
contents(text, lines, run) == [k \in 1..(run.last - run.first + 1) |-> content(text, lines[run.first + k - 1])]

\* Mutant: every line gets a terminator, the last one too.
reorderedTerminated(text, lines, first, with) == FlattenSeq([k \in DOMAIN with |-> with[k] \o <<"NL">>])

\* New contents in the places of the lines from first on, each with the terminator of its place.
reorderedLines(text, lines, first, with) ==
  FlattenSeq([k \in DOMAIN with |->
    with[k] \o Slice(text, lines[first + k - 1].contentEnd, lines[first + k - 1].end)])

\* An edit that changes nothing is not made.
Kept(text, edits) ==
  SelectSeq(edits, LAMBDA e : Slice(text, e.at, e.at + e.erased) # e.inserted)

-----------------------------------------------------------------------------
(* The line commands. *)

indentEdits(lines, touched) == [k \in DOMAIN touched |-> Edit(lines[touched[k]].start, 0, Spaces(TabWidth))]

outdentEdits(text, lines, touched) ==
  LET Blank(l) == Max({n \in 0..TabWidth : /\ l.start + n <= l.contentEnd
                                           /\ \A i \in l.start..(l.start + n - 1) : At(text, i) = " "})
      Width(l) == IF l.start < l.contentEnd /\ At(text, l.start) = "TAB" THEN 1 ELSE Blank(l)
  IN [k \in DOMAIN touched |-> Edit(lines[touched[k]].start, Width(lines[touched[k]]), <<>>)]

\* The copy of a last line without a terminator brings one of its own.
duplicateEdits(text, lines, runs) ==
  LET Copy(r) ==
        LET last == lines[r.last]
            copy == Slice(text, lines[r.first].start, last.end)
        IN Edit(last.end, 0, IF last.contentEnd = last.end THEN <<"NL">> \o copy ELSE copy)
  IN [k \in DOMAIN runs |-> Copy(runs[k])]

moveUpEdits(text, lines, runs) ==
  LET movable == SelectSeq(runs, LAMBDA r : r.first > 1)
      Moved(r) ==
        LET first == r.first - 1
        IN Edit(lines[first].start, lines[r.last].end - lines[first].start,
                reorderedLines(text, lines, first, contents(text, lines, r) \o <<content(text, lines[first])>>))
  IN [k \in DOMAIN movable |-> Moved(movable[k])]

moveDownEdits(text, lines, runs) ==
  LET movable == SelectSeq(runs, LAMBDA r : r.last < Len(lines))
      Moved(r) ==
        LET last == r.last + 1
        IN Edit(lines[r.first].start, lines[last].end - lines[r.first].start,
                reorderedLines(text, lines, r.first, <<content(text, lines[last])>> \o contents(text, lines, r)))
  IN [k \in DOMAIN movable |-> Moved(movable[k])]

\* Deleting a last line without a terminator takes the terminator before it.
deleteEdits(text, lines, runs) ==
  LET Gone(r) ==
        LET unterminated == /\ r.last = Len(lines) /\ r.first > 1
                            /\ lines[r.last].contentEnd = lines[r.last].end
            from == IF unterminated THEN lines[r.first - 1].contentEnd ELSE lines[r.first].start
        IN Edit(from, lines[r.last].end - from, <<>>)
  IN [k \in DOMAIN runs |-> Gone(runs[k])]

joinEdits(lines, touched) ==
  LET joined == SelectSeq(touched, LAMBDA l : l < Len(lines))
  IN [k \in DOMAIN joined |-> Edit(lines[joined[k]].contentEnd, lines[joined[k]].end - lines[joined[k]].contentEnd, <<" ">>)]

\* The order of the code points' bytes.
Rank(cp) == CHOOSE k \in 1..13 : <<"TAB", " ", "(", ")", ".", "/", "A", "B", "a", "b", "MARK", "W", "EMOJI">>[k] = cp

RECURSIVE Precedes(_, _)
Precedes(x, y) ==
  /\ y # <<>>
  /\ \/ x = <<>>
     \/ Rank(x[1]) < Rank(y[1])
     \/ x[1] = y[1] /\ Precedes(Tail(x), Tail(y))

sortedIn(a, c) == insertedAt(a, c, Cardinality({k \in DOMAIN a : ~Precedes(c, a[k])}))
sortEdit(text, lines, r) ==
  Edit(lines[r.first].start, lines[r.last].end - lines[r.first].start,
       reorderedLines(text, lines, r.first, FoldLeft(sortedIn, <<>>, contents(text, lines, r))))
sortEdits(text, lines, runs) ==
  Each(SelectSeq(runs, LAMBDA r : r.first < r.last), LAMBDA r : sortEdit(text, lines, r))

\* Comments are removed when every line that is not blank has one, else added to all of these.
commentToken == <<"/", "/">>
indentOf(text, l) ==
  Max({i \in l.start..l.contentEnd : \A j \in l.start..(i - 1) : At(text, j) \in {" ", "TAB"}})
commented(text, at) == Slice(text, at, Least(at + 2, Len(text))) = commentToken
toggledAt(places, all) ==
  Each(places, LAMBDA at : Edit(at, IF all THEN 2 ELSE 0, IF all THEN <<>> ELSE commentToken))
toggled(text, places) == toggledAt(places, \A k \in DOMAIN places : commented(text, places[k]))
commentEdits(text, lines, touched) ==
  toggled(text, Each(SelectSeq(touched, LAMBDA k : indentOf(text, lines[k]) < lines[k].contentEnd),
                     LAMBDA k : indentOf(text, lines[k])))

LineCommandNames == {"Indent", "Outdent", "DuplicateLine", "MoveLineUp", "MoveLineDown", "DeleteLine",
                     "JoinLines", "SortLines", "ToggleComment"}

lineEditsIn(text, lines, touched, runs, command) ==
  CASE command = "Indent"        -> indentEdits(lines, touched)
    [] command = "Outdent"       -> outdentEdits(text, lines, touched)
    [] command = "DuplicateLine" -> duplicateEdits(text, lines, runs)
    [] command = "MoveLineUp"    -> moveUpEdits(text, lines, runs)
    [] command = "MoveLineDown"  -> moveDownEdits(text, lines, runs)
    [] command = "DeleteLine"    -> deleteEdits(text, lines, runs)
    [] command = "JoinLines"     -> joinEdits(lines, touched)
    [] command = "SortLines"     -> sortEdits(text, lines, runs)
    [] command = "ToggleComment" -> commentEdits(text, lines, touched)
lineEditsAt(text, lines, touched, command) == lineEditsIn(text, lines, touched, runsOf(touched), command)
lineEditsOf(text, sel, lines, command) == lineEditsAt(text, lines, touchedLines(sel, lines), command)
lineEdits(text, sel, command) == Kept(text, lineEditsOf(text, sel, linesOf(text), command))

-----------------------------------------------------------------------------
(* Case and transposition. *)

CaseCommandNames == {"Uppercase", "Lowercase", "SwapCase"}
Upper == [a |-> "A", b |-> "B"]
Lower == [A |-> "a", B |-> "b"]

recased(cp, command) ==
  IF command # "Lowercase" /\ cp \in DOMAIN Upper THEN Upper[cp]
  ELSE IF command # "Uppercase" /\ cp \in DOMAIN Lower THEN Lower[cp] ELSE cp

caseEdits(text, sel, command) ==
  LET ranges == SelectSeq(sel, LAMBDA s : ~isCaret(s))
      Recased(s) ==
        LET covered == Slice(text, lower(s).byte, upper(s).byte)
        IN Edit(lower(s).byte, Len(covered), [i \in DOMAIN covered |-> recased(covered[i], command)])
  IN Kept(text, [k \in DOMAIN ranges |-> Recased(ranges[k])])

\* The clusters around a caret change places; at the end of the document the last two.
swappedAt(text, from, middle, to) == <<Edit(from, to - from, Slice(text, middle, to) \o Slice(text, from, middle))>>
swapped(text, start, spans, lefts) ==
  IF Len(spans) < 2 \/ lefts = {} THEN <<>>
  ELSE swappedAt(text, start + spans[Min(lefts)].off, start + spans[Min(lefts) + 1].off,
                 start + spans[Min(lefts) + 1].off + spans[Min(lefts) + 1].len)
clustersSwapped(text, start, spans, caret) ==
  swapped(text, start, spans,
          IF caret = Len(text) THEN {Len(spans) - 1}
          ELSE {k \in 1..(Len(spans) - 1) : start + spans[k].off + spans[k].len = caret})
transposeIn(text, line, caret) == clustersSwapped(text, line.start, computeCellRun(content(text, line), 4).spans, caret)
transposedLine(text, lines, caret, found) ==
  IF caret = Len(text) /\ found > 1 /\ lines[found].start = lines[found].end THEN lines[found - 1] ELSE lines[found]
transposeAt(text, lines, caret) ==
  transposeIn(text, transposedLine(text, lines, caret, lineForOffset(lines, caret)), caret)

Overlaps(e, f) == e.at < f.at + f.erased /\ f.at < e.at + e.erased
transposeAdded(text, edits, made) ==
  IF made = <<>> \/ \E k \in DOMAIN edits : Overlaps(made[1], edits[k]) THEN edits ELSE edits \o Kept(text, made)
transposedIn(text, sel, lines) ==
  FoldLeft(LAMBDA edits, s : IF isCaret(s) THEN transposeAdded(text, edits, transposeAt(text, lines, s.active.byte))
                             ELSE edits, <<>>, sel)
transposeEdits(text, sel) == transposedIn(text, sel, linesOf(text))

-----------------------------------------------------------------------------
(* Edits and the selections after them. *)

\* From the last edit to the first, so that no edit moves the offset of another.
applyEdits(text, edits) ==
  FoldRight(LAMBDA e, t : Slice(t, 0, e.at) \o e.inserted \o Slice(t, e.at + e.erased, Len(t)), edits, text)

\* An offset inside replaced text keeps its distance from the start of it.
remapOffset(offset, edits) ==
  LET Step(a, e) ==
        IF a.done \/ offset < e.at THEN [a EXCEPT !.done = TRUE]
        ELSE IF e.erased = 0 /\ offset = e.at THEN [a EXCEPT !.at = @ + Len(e.inserted)]
        ELSE IF offset <= e.at + e.erased
          THEN [done |-> TRUE, at |-> a.at - offset + e.at + Least(offset - e.at, Len(e.inserted))]
        ELSE [a EXCEPT !.at = @ + Len(e.inserted) - e.erased]
  IN FoldLeft(Step, [done |-> FALSE, at |-> offset], edits).at

\* The first position of the text at or after the offset.
firstIn(m, places) == IF places = {} THEN NoPosition ELSE resolve(m, Min(places))
resolveForward(m, offset) == firstIn(m, {i \in offset..Len(m.text) : resolve(m, i) # NoPosition})

remapped(p, edits, m) == resolveForward(m, remapOffset(p.byte, edits))
allResolved(items) ==
  IF \E k \in DOMAIN items : NoPosition \in {items[k].anchor, items[k].active} THEN <<>> ELSE SelectionSet(items)
remapSelections(sel, edits, m) ==
  allResolved(Each(sel, LAMBDA s : [anchor |-> remapped(s.anchor, edits, m), active |-> remapped(s.active, edits, m)]))

outcomeOf(m, sel, edits, result, after) ==
  IF ~validSelections(m, sel) \/ result = m.text \/ after = <<>> THEN Refused ELSE Outcome(result, after, edits)
resultOf(m, sel, edits, result) ==
  outcomeOf(m, sel, edits, result, remapSelections(sel, edits, TextModel(result, TabWidth)))
editedBy(m, sel, edits) == resultOf(m, sel, edits, applyEdits(m.text, edits))
applyEditCommand(m, sel, command) ==
  editedBy(m, sel,
    SortSeq(CASE command \in LineCommandNames -> lineEdits(m.text, sel, command)
              [] command \in CaseCommandNames -> caseEdits(m.text, sel, command)
              [] command = "Transpose"        -> transposeEdits(m.text, sel),
            LAMBDA e, f : e.at < f.at))

-----------------------------------------------------------------------------
(* Typing and deleting.  Its own boundaries take a carriage return and a   *)
(* line feed as one.                                                       *)

boundariesIn(start, spans) == {start} \cup {start + spans[k].off + spans[k].len : k \in DOMAIN spans}
boundariesOf(text, lines) ==
  UNION {boundariesIn(lines[k].start, computeCellRun(content(text, lines[k]), TabWidth).spans) : k \in DOMAIN lines}
graphemeBoundaries(text) == boundariesOf(text, linesOf(text))

previousBoundary(bounds, offset) == LET less == {b \in bounds : b < offset} IN IF less = {} THEN 0 ELSE Max(less)
nextBoundary(bounds, offset) == LET more == {b \in bounds : b > offset} IN IF more = {} THEN offset ELSE Min(more)

category(text, at) == categoryOf(At(text, at))

\* The start of the word, or of the white space, before an offset; punctuation goes one by one.
runStart(text, bounds, at, kind) ==
  IF kind = "Punctuation" THEN at
  ELSE Min({b \in bounds : b <= at /\ \A c \in bounds : c >= b /\ c <= at => category(text, c) = kind})
runStartAt(text, bounds, at) == runStart(text, bounds, at, category(text, at))
wordStartBefore(text, bounds, offset) ==
  IF offset = 0 THEN 0 ELSE runStartAt(text, bounds, previousBoundary(bounds, offset))

\* The end of the run of one category after an offset.
runEnd(text, bounds, offset, kind) ==
  Min({b \in bounds : b > offset /\ (b = Len(text) \/ category(text, b) # kind)})
runEndAfter(text, bounds, offset) ==
  IF offset >= Len(text) THEN offset ELSE runEnd(text, bounds, offset, category(text, offset))

lineBounds(text, offset) ==
  LET Inside(i) == At(text, i) \notin {"NL", "CR"}
  IN [from |-> Min({i \in 0..offset : \A j \in i..(offset - 1) : Inside(j)}),
      to |-> Max({i \in offset..Len(text) : \A j \in offset..(i - 1) : Inside(j)})]

\* The blanks a line starts with, widened to spaces; past the caret too.
indentationFor(text, offset) ==
  LET from == lineBounds(text, offset).from
      to == Max({i \in from..Len(text) : \A j \in from..(i - 1) : At(text, j) \in {" ", "TAB"}})
      Wider(columns, cp) == IF cp = " " THEN columns + 1 ELSE columns + TabWidth - (columns % TabWidth)
  IN Spaces(FoldLeft(Wider, 0, Slice(text, from, to)))

\* What one selection asks for; the whole selection goes, or the part of a caret's command.
pendingEdit(text, bounds, s, command, typed) ==
  LET from == lower(s).byte
      to == upper(s).byte
  IN CASE command = "Insert"  -> Edit(from, to - from, typed)
       [] command = "Newline" -> Edit(from, to - from, <<"NL">> \o indentationFor(text, s.active.byte))
       [] ~isCaret(s)         -> Edit(from, to - from, <<>>)
       [] command = "DeleteBackward" -> LET b == previousBoundary(bounds, from) IN Edit(b, from - b, <<>>)
       [] command = "DeleteForward"  -> Edit(from, nextBoundary(bounds, from) - from, <<>>)
       [] command = "DeleteWordBackward" ->
            LET b == wordStartBefore(text, bounds, from) IN Edit(b, from - b, <<>>)
       [] command = "DeleteWordForward" -> Edit(from, runEndAfter(text, bounds, from) - from, <<>>)

TextInputNames == {"Insert", "Newline", "DeleteBackward", "DeleteForward", "DeleteWordBackward", "DeleteWordForward"}

\* Edits in order; of two that overlap or start together deletions are joined, else the
\* longer one at the same start wins.  Every edit knows the selection that made it.
normalizeEdits(edits) ==
  LET Less(e, f) == e.at < f.at \/ (e.at = f.at /\ e.erased < f.erased)
      Add(a, e) ==
        LET p == Last(a)
            joins == a # <<>> /\ (e.at < p.at + p.erased \/ e.at = p.at)
            to == Greatest(p.at + p.erased, e.at + e.erased)
        IN IF ~joins THEN Append(a, e)
           ELSE IF e.inserted = <<>> /\ p.inserted = <<>> THEN Append(Front(a), [p EXCEPT !.erased = to - p.at])
           ELSE IF e.at = p.at /\ e.erased > p.erased THEN Append(Front(a), e)
           ELSE a
  IN FoldLeft(Add, <<>>, SortSeq(edits, Less))

\* Where the start of a selection's edit is after all edits.
mapTarget(target, edits) ==
  LET Step(a, e) ==
        IF a.done \/ target < e.at THEN [a EXCEPT !.done = TRUE]
        ELSE IF target <= e.at + e.erased
          THEN [done |-> TRUE, at |-> a.at - target + e.at + Len(e.inserted)]
        ELSE [a EXCEPT !.at = @ + Len(e.inserted) - e.erased]
  IN FoldLeft(Step, [done |-> FALSE, at |-> target], edits).at

\* The end of what an edit inserted, in the text after all edits.
endOfInserted(edits, k) ==
  edits[k].at + Len(edits[k].inserted)
    + SumOf([j \in 1..(k - 1) |-> Len(edits[j].inserted) - edits[j].erased])

ownEdits(edits, k) == {j \in DOMAIN edits : edits[j].by = k}
caretAfter(edits, own, target) == IF own # {} THEN endOfInserted(edits, Min(own)) ELSE mapTarget(target, edits)
caretsOutcome(edits, result, carets) ==
  IF NoPosition \in ToSet(carets) THEN Refused ELSE Outcome(result, SelectionSet(Each(carets, LAMBDA p : Caret(p))), edits)
caretsResolved(edits, result, after, places) == caretsOutcome(edits, result, Each(places, LAMBDA at : resolve(after, at)))
withCarets(edits, result, places) == caretsResolved(edits, result, TextModel(result, TabWidth), places)

\* The command is refused as a whole when a caret would come to rest inside a cluster.
inputApplied(m, command, asked, edits) ==
  IF edits = <<>> THEN Refused
  ELSE withCarets(edits, applyEdits(m.text, edits),
         [k \in DOMAIN asked |-> caretAfter(edits, IF command \in {"Insert", "Newline"} THEN ownEdits(edits, k) ELSE {},
                                           asked[k].at)])
inputAsked(m, command, asked) ==
  inputApplied(m, command, asked, normalizeEdits(SelectSeq(asked, LAMBDA e : e.erased # 0 \/ e.inserted # <<>>)))
madeBy(edit, k) == [at |-> edit.at, erased |-> edit.erased, inserted |-> edit.inserted, by |-> k]
inputWithin(m, sel, command, typed, bounds) ==
  IF \E k \in DOMAIN sel : {sel[k].anchor.byte, sel[k].active.byte} \ bounds # {} THEN Refused
  ELSE inputAsked(m, command,
         Listed([k \in DOMAIN sel |-> madeBy(pendingEdit(m.text, bounds, sel[k], command, typed), k)]))
applyTextInput(m, sel, command, typed) ==
  IF ~validSelections(m, sel) THEN Refused ELSE inputWithin(m, sel, command, typed, graphemeBoundaries(m.text))

-----------------------------------------------------------------------------
(* The clipboard register: a fragment for every selection, or the line of  *)
(* a caret; a paste gives every selection its own fragment when the        *)
(* numbers agree, else all of them to each.                                *)

lineRange(text, offset) ==
  LET bounds == lineBounds(text, offset)
      crlf == bounds.to + 1 < Len(text) /\ At(text, bounds.to) = "CR" /\ At(text, bounds.to + 1) = "NL"
  IN [from |-> bounds.from,
      to |-> IF bounds.to = Len(text) THEN bounds.to ELSE IF crlf THEN bounds.to + 2 ELSE bounds.to + 1]

selectionRange(text, s) ==
  IF isCaret(s) THEN lineRange(text, s.active.byte) ELSE [from |-> lower(s).byte, to |-> upper(s).byte]

\* The register after a copy.
captured(text, sel) ==
  [k \in DOMAIN sel |-> LET r == selectionRange(text, sel[k]) IN Slice(text, r.from, r.to)]

\* The ranges of a cut: ranges that overlap or touch are one.
mergedCutRanges(text, sel) ==
  LET ranges == SelectSeq([k \in DOMAIN sel |-> selectionRange(text, sel[k])], LAMBDA r : r.from # r.to)
      Add(a, r) == IF a # <<>> /\ r.from <= Last(a).to
                     THEN Append(Front(a), [from |-> Last(a).from, to |-> Greatest(Last(a).to, r.to)])
                     ELSE Append(a, r)
  IN FoldLeft(Add, <<>>, SortSeq(ranges, LAMBDA r, q : r.from < q.from \/ (r.from = q.from /\ r.to < q.to)))

cutEdits(m, ranges, edits) ==
  withCarets(edits, applyEdits(m.text, edits),
             [k \in DOMAIN ranges |-> ranges[k].from - SumOf([j \in 1..(k - 1) |-> edits[j].erased])])
cutRanges(m, sel, ranges) ==
  IF ranges = <<>> THEN Outcome(m.text, sel, <<>>)
  ELSE cutEdits(m, ranges, Each(ranges, LAMBDA r : Edit(r.from, r.to - r.from, <<>>)))
cut(m, sel) == IF ~validSelections(m, sel) THEN Refused ELSE cutRanges(m, sel, mergedCutRanges(m.text, sel))

pasted(m, edits, result) ==
  IF result = m.text THEN Refused ELSE withCarets(edits, result, [k \in DOMAIN edits |-> endOfInserted(edits, k)])
pasteEdits(m, edits) == pasted(m, edits, applyEdits(m.text, edits))
replacedBy(s, inserted) == Edit(lower(s).byte, upper(s).byte - lower(s).byte, inserted)
paste(m, sel, register) ==
  IF ~validSelections(m, sel) \/ register = <<>> THEN Refused
  ELSE pasteEdits(m, Listed([k \in DOMAIN sel |->
         replacedBy(sel[k], IF Len(register) = Len(sel) THEN register[k] ELSE FlattenSeq(register))]))

\* The editor takes the selections down to boundaries of the text before it shows them.
clampSelectionsToActiveDocument(m, sel) ==
  LET Snapped(p) == resolve(m, Max({i \in 0..Least(p.byte, Len(m.text)) : resolve(m, i) # NoPosition}))
  IN SelectionSet([k \in DOMAIN sel |-> [anchor |-> Snapped(sel[k].anchor), active |-> Snapped(sel[k].active)]])

=============================================================================
