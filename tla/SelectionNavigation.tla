------------------------- MODULE SelectionNavigation -------------------------
(***************************************************************************)
(* Carets and selections over a text (Selection.cpp): the positions of the *)
(* text, the set of selections and the 38 commands that move them.         *)
(*                                                                         *)
(* A position is [byte, line, cell]; a selection is [anchor, active]; the  *)
(* view state of a pane is [sel, firstRow, firstColumn, desired], where    *)
(* desired is the column vertical motion keeps, or None.  A pane is        *)
(* [columns, rows, wrap, tab, diff]; a model of a text caches the layout   *)
(* of its lines.                                                           *)
(***************************************************************************)
EXTENDS TextGeometry

None == -1
NoPosition == [byte |-> None, line |-> None, cell |-> None]

\* Every code point above ASCII belongs to a word.
isWordByte(cp) == cp \notin {"(", ")", ".", "/", " ", "TAB", "NL", "CR", "CTL"}

-----------------------------------------------------------------------------
(* The model of a text: for every line its run and its positions. *)

cellOf(spans, k) == SumOf([j \in 1..(k - 1) |-> spans[j].width])
boundsOfRun(start, index, spans) ==
  <<[byte |-> start, line |-> index, cell |-> 0]>>
    \o Listed([k \in DOMAIN spans |-> [byte |-> start + spans[k].off + spans[k].len, line |-> index,
                                       cell |-> cellOf(spans, k + 1)]])
lineData(start, index, size, run) ==
  [start |-> start, end |-> start + size, run |-> run, bounds |-> boundsOfRun(start, index, run.spans)]

modelOf(text, starts, lines, tabWidth) ==
  [text |-> text, lines |-> Listed([k \in DOMAIN starts |->
                     lineData(starts[k], k - 1, Len(lines[k]), computeCellRun(lines[k], tabWidth))])]
TextModel(text, tabWidth) == modelOf(text, documentLineStarts(text), linesOfText(text), tabWidth)

lineCount(m) == Len(m.lines)
boundsOf(m, line) == At(m.lines, line).bounds
documentStart(m) == m.lines[1].bounds[1]
documentEnd(m) == Last(m.lines[Len(m.lines)].bounds)
lineStart(m, p) == Head(boundsOf(m, p.line))
lineEnd(m, p) == Last(boundsOf(m, p.line))

lineContaining(m, byte) == Max({k \in DOMAIN m.lines : m.lines[k].start <= byte}) - 1

\* The position at an offset, when the offset is on a cluster boundary.
firstPosition(found) == IF found = <<>> THEN NoPosition ELSE found[1]
resolve(m, byte) ==
  IF byte \notin 0..Len(m.text) THEN NoPosition
  ELSE firstPosition(SelectSeq(boundsOf(m, lineContaining(m, byte)), LAMBDA p : p.byte = byte))

boundaryIndex(m, p) == Cardinality({k \in DOMAIN boundsOf(m, p.line) : boundsOf(m, p.line)[k].byte < p.byte})

boundaryBefore(m, p, bounds, i) ==
  IF i > 0 THEN bounds[i]
  ELSE IF p.line = 0 THEN documentStart(m) ELSE Last(boundsOf(m, p.line - 1))
previous(m, p) == boundaryBefore(m, p, boundsOf(m, p.line), boundaryIndex(m, p))

boundaryAfter(m, p, bounds, i) ==
  IF i + 1 < Len(bounds) THEN bounds[i + 2]
  ELSE IF p.line + 1 >= lineCount(m) THEN Last(bounds) ELSE Head(boundsOf(m, p.line + 1))
next(m, p) == boundaryAfter(m, p, boundsOf(m, p.line), boundaryIndex(m, p))

-----------------------------------------------------------------------------
(* Words. *)

categoryOf(cp) ==
  IF isWordByte(cp) THEN "Word" ELSE IF cp \in {" ", "TAB", "NL", "CR"} THEN "Space" ELSE "Punctuation"
categoryAt(m, p) == categoryOf(At(m.text, p.byte))

\* Left and right over the positions of one category.
RECURSIVE runLeft(_, _, _)
runLeft(m, p, category) ==
  IF p = documentStart(m) \/ categoryAt(m, previous(m, p)) # category THEN p
  ELSE runLeft(m, previous(m, p), category)

RECURSIVE runRight(_, _, _)
runRight(m, p, category) ==
  IF p = documentEnd(m) \/ categoryAt(m, p) # category THEN p ELSE runRight(m, next(m, p), category)

leftOver(m, before, category) == IF category = "Punctuation" THEN before ELSE runLeft(m, before, category)
leftFrom(m, before) == leftOver(m, before, categoryAt(m, before))
wordLeft(m, p) == IF p = documentStart(m) THEN p ELSE leftFrom(m, previous(m, p))

wordRight(m, p) ==
  IF p = documentEnd(m) THEN p ELSE runRight(m, next(m, p), categoryAt(m, p))

wordRangeAt(m, p) ==
  IF p = documentEnd(m) THEN [anchor |-> p, active |-> p]
  ELSE [anchor |-> runLeft(m, p, categoryAt(m, p)), active |-> runRight(m, next(m, p), categoryAt(m, p))]

-----------------------------------------------------------------------------
(* Rows.  The model wraps its lines itself, beside wrapRows.              *)

\* The first span of every row of a line: the row is full before it.
headsThrough(spans, columns, a, k) ==
  IF rowOpens(a, spans[k].width, columns) THEN [heads |-> Append(a.heads, k), content |-> spans[k].width]
  ELSE [a EXCEPT !.content = @ + spans[k].width]
rowHeads(spans, columns) ==
  FoldLeft(LAMBDA a, k : headsThrough(spans, columns, a, k), [heads |-> <<1>>, content |-> 0],
           Numbers(1, Len(spans))).heads

wrappedRow(l, start, spans, first, last) ==
  [line |-> l - 1, start |-> start + spans[first].off, end |-> start + spans[last].off + spans[last].len,
   startCell |-> cellOf(spans, first), endCell |-> cellOf(spans, last + 1)]
wrappedRowsFrom(l, start, spans, heads) ==
  Listed([r \in DOMAIN heads |->
            wrappedRow(l, start, spans, heads[r], IF r = Len(heads) THEN Len(spans) ELSE heads[r + 1] - 1)])
wrappedRowsOf(l, line, columns) ==
  IF line.run.spans = <<>> THEN <<[line |-> l - 1, start |-> line.start, end |-> line.end, startCell |-> 0, endCell |-> 0]>>
  ELSE wrappedRowsFrom(l, line.start, line.run.spans, rowHeads(line.run.spans, columns))
wrappedRows(m, columns) == FlattenSeq([l \in DOMAIN m.lines |-> wrappedRowsOf(l, m.lines[l], columns)])

wrappedRowIndex(rows, p) ==
  LET Final(i) == i = Len(rows) \/ rows[i + 1].line # p.line
  IN Min({i \in DOMAIN rows : /\ rows[i].line = p.line /\ p.byte >= rows[i].start
                              /\ p.byte < rows[i].end \/ (Final(i) /\ p.byte = rows[i].end)}) - 1

\* The last of the boundaries up to a cell, of those the first that reaches its cell.
firstReaching(upTo) == SelectSeq(upTo, LAMBDA b : b.cell = Last(upTo).cell)[1]
positionForCell(m, line, cell) == firstReaching(SelectSeq(boundsOf(m, line), LAMBDA b : b.cell <= cell))

boundsInRow(m, row, cell) ==
  SelectSeq(boundsOf(m, row.line), LAMBDA b : b.byte >= row.start /\ b.byte <= row.end /\ b.cell <= cell)
firstOr(within, otherwise) == IF within = <<>> THEN otherwise ELSE firstReaching(within)
positionForWrappedCell(m, row, desired) ==
  firstOr(boundsInRow(m, row, Least(row.startCell + desired, row.endCell)), resolve(m, row.start))
lastOr(within, otherwise) == IF within = <<>> THEN otherwise ELSE Last(within)
positionForProjectedCell(m, row, desired) ==
  lastOr(boundsInRow(m, row, Least(row.startCell + desired, row.endCell)), Head(boundsOf(m, row.line)))

vertical(m, p, down, count, cell) ==
  LET last == lineCount(m) - 1
      target == IF down THEN Least(p.line + count, last) ELSE Greatest(p.line - count, 0)
  IN IF target # p.line THEN positionForCell(m, target, cell)
     ELSE IF down THEN lineEnd(m, p) ELSE lineStart(m, p)

\* A motion that cannot leave its row goes to the row's edge.
rowEdge(m, row, down) == resolve(m, IF down THEN row.end ELSE row.start)
toWrappedRow(m, rows, current, target, down, desired) ==
  IF target # current THEN positionForWrappedCell(m, At(rows, target), desired) ELSE rowEdge(m, At(rows, current), down)
fromWrappedRow(m, rows, current, down, count, desired) ==
  toWrappedRow(m, rows, current,
               IF down THEN Least(current + count, Len(rows) - 1) ELSE Greatest(current - count, 0), down, desired)
verticalWrapped(m, p, down, count, desired, rows) ==
  fromWrappedRow(m, rows, wrappedRowIndex(rows, p), down, count, desired)

toProjectedRow(m, rows, current, target, down, desired, wrap) ==
  IF ~At(rows, target).real \/ target = current THEN rowEdge(m, At(rows, current), down)
  ELSE IF wrap THEN positionForProjectedCell(m, At(rows, target), desired)
  ELSE positionForCell(m, At(rows, target).line, desired)
fromProjectedRow(m, rows, current, down, count, desired, wrap) ==
  toProjectedRow(m, rows, current, movedRealRow(rows, current, IF down THEN count ELSE -count), down, desired, wrap)
verticalProjected(m, p, down, count, desired, wrap, rows) ==
  fromProjectedRow(m, rows, visualRowForPosition(rows, p), down, count, desired, wrap)

-----------------------------------------------------------------------------
(* The rows of a pane as navigation sees them: with a diff the projection  *)
(* of its rows, else the wrapped rows or the lines.                        *)

HasDiff(pane) == "null" \notin DOMAIN pane.diff
runsOfModel(m) == Listed([l \in DOMAIN m.lines |-> m.lines[l].run])

paneRows(m, pane) ==
  IF ~HasDiff(pane) THEN IF pane.wrap THEN wrappedRows(m, pane.columns) ELSE <<>>
  ELSE IF pane.wrap THEN rowProjection(runsOfModel(m), pane.columns, pane.diff)
  ELSE projectedUnwrappedRows(m.text, pane.diff)

visualRow(pane, rows, p) ==
  IF HasDiff(pane) THEN visualRowForPosition(rows, p)
  ELSE IF pane.wrap THEN wrappedRowIndex(rows, p)
  ELSE p.line

visualColumn(pane, rows, p) ==
  p.cell - IF HasDiff(pane) \/ pane.wrap THEN At(rows, visualRow(pane, rows, p)).startCell ELSE 0

movedVertically(m, pane, rows, p, down, count, desired) ==
  IF HasDiff(pane) THEN verticalProjected(m, p, down, count, desired, pane.wrap, rows)
  ELSE IF pane.wrap THEN verticalWrapped(m, p, down, count, desired, rows)
  ELSE vertical(m, p, down, count, desired)

viewportOf(m, pane, firstRow) ==
  IF pane.wrap THEN computeViewport(runsOfModel(m), pane.columns, pane.rows, firstRow, pane.diff)
  ELSE computeUnwrappedViewport(m.text, pane.columns, pane.rows, firstRow, 0, pane.tab, pane.diff)

-----------------------------------------------------------------------------
(* The set of selections: ordered by offset, overlapping ones merged.  The *)
(* last one is the primary selection.                                      *)

Caret(p) == [anchor |-> p, active |-> p]
lower(s) == IF s.anchor.byte <= s.active.byte THEN s.anchor ELSE s.active
upper(s) == IF s.anchor.byte <= s.active.byte THEN s.active ELSE s.anchor
isCaret(s) == s.anchor.byte = s.active.byte
primary(sel) == Last(sel)

Before(s, t) ==
  \/ lower(s).byte < lower(t).byte
  \/ lower(s).byte = lower(t).byte /\ upper(s).byte < upper(t).byte

\* Before the first element of a that c precedes.
insertedAt(a, c, before) == SubSeq(a, 1, before) \o <<c>> \o SubSeq(a, before + 1, Len(a))
selectionAdded(a, s) == insertedAt(a, s, Cardinality({k \in DOMAIN a : ~Before(s, a[k])}))

joinedWith(p, s) == [anchor |-> lower(p), active |-> IF upper(s).byte > upper(p).byte THEN upper(s) ELSE upper(p)]
selectionMerged(a, s) ==
  IF a = <<>> THEN <<s>>
  ELSE IF s = Last(a) THEN a
  ELSE IF lower(s).byte < upper(Last(a)).byte THEN Append(Front(a), joinedWith(Last(a), s))
  ELSE Append(a, s)
SelectionSet(items) == FoldLeft(selectionMerged, <<>>, FoldLeft(selectionAdded, <<>>, Listed(items)))

\* The selected text, or the word the caret touches.
wordOrCoveredText(text, s) ==
  LET at == s.active.byte
      Word(i) == isWordByte(At(text, i))
      from == Min({i \in 0..at : \A j \in i..(at - 1) : Word(j)})
      to == Max({i \in at..Len(text) : \A j \in at..(i - 1) : Word(j)})
  IN IF isCaret(s) THEN Slice(text, from, to) ELSE Slice(text, lower(s).byte, upper(s).byte)

-----------------------------------------------------------------------------
(* Brackets: one stack for all pairs; a closing token that does not match  *)
(* the innermost open one is passed over.                                  *)

tokens(pairs, cp) == {k \in DOMAIN pairs : cp \in {pairs[k].opening, pairs[k].closing}}
bracketStep(a, i, k, opens) ==
  IF opens THEN [a EXCEPT !.stack = Append(@, [pair |-> k, at |-> i])]
  ELSE IF a.stack # <<>> /\ Last(a.stack).pair = k
    THEN [stack |-> Front(a.stack),
          found |-> a.found \cup {[from |-> Last(a.stack).at, mate |-> i, forward |-> TRUE],
                                  [from |-> i, mate |-> Last(a.stack).at, forward |-> FALSE]}]
  ELSE a
bracketToken(m, pairs, a, i, found) ==
  IF found = {} \/ resolve(m, i) = NoPosition \/ resolve(m, i + 1) = NoPosition THEN a
  ELSE bracketStep(a, i, Min(found), At(m.text, i) = pairs[Min(found)].opening)
bracketMatches(m, pairs) ==
  FoldLeft(LAMBDA a, i : bracketToken(m, pairs, a, i, tokens(pairs, At(m.text, i))),
           [stack |-> <<>>, found |-> {}], Numbers(0, Len(m.text) - 1)).found

-----------------------------------------------------------------------------
(* The commands.  navigateSelection takes the arguments [position,         *)
(* selections] and answers the view state after the command, or the one    *)
(* before when it rejects the command.                                     *)

validPosition(m, p) == p # NoPosition /\ resolve(m, p.byte) = p
validSelections(m, items) == \A k \in DOMAIN items : validPosition(m, items[k].anchor) /\ validPosition(m, items[k].active)

CursorMotions == {"CursorLeft", "CursorRight", "CursorWordLeft", "CursorWordRight", "CursorLineStart", "CursorLineEnd"}
SelectMotions == {"SelectLeft", "SelectRight", "SelectWordLeft", "SelectWordRight", "SelectLineStart",
                  "SelectLineEnd", "SelectDocumentStart", "SelectDocumentEnd"}
CursorVerticals == {"CursorLineUp", "CursorLineDown", "CursorPageUp", "CursorPageDown"}
SelectVerticals == {"SelectLineUp", "SelectLineDown", "SelectPageUp", "SelectPageDown"}
Placements == {"CursorSetPosition", "SelectSetRange", "SelectAddRange", "SelectSetRanges", "SelectWordAtPosition"}
WholeText == {"CursorDocumentStart", "CursorDocumentEnd", "SelectAll"}
Spreads == {"SelectAddNextOccurrence", "SelectAddCursorUp", "SelectAddCursorDown", "SelectSplitIntoLines"}
Brackets == {"SelectToMatchingBracket", "GotoMatchingBracket"}
Reveals == {"ViewRevealCaret", "ViewCenterCaret"}
SelectionCommands == CursorMotions \cup SelectMotions \cup CursorVerticals \cup SelectVerticals
                       \cup Placements \cup WholeText \cup Spreads \cup Brackets \cup Reveals

cursorMotion(m, command, s) ==
  CASE command = "CursorLeft"      -> IF isCaret(s) THEN previous(m, s.active) ELSE lower(s)
    [] command = "CursorRight"     -> IF isCaret(s) THEN next(m, s.active) ELSE upper(s)
    [] command = "CursorWordLeft"  -> wordLeft(m, lower(s))
    [] command = "CursorWordRight" -> wordRight(m, upper(s))
    [] command = "CursorLineStart" -> lineStart(m, lower(s))
    [] command = "CursorLineEnd"   -> lineEnd(m, upper(s))

selectMotion(m, command, p) ==
  CASE command = "SelectLeft"          -> previous(m, p)
    [] command = "SelectRight"         -> next(m, p)
    [] command = "SelectWordLeft"      -> wordLeft(m, p)
    [] command = "SelectWordRight"     -> wordRight(m, p)
    [] command = "SelectLineStart"     -> lineStart(m, p)
    [] command = "SelectLineEnd"       -> lineEnd(m, p)
    [] command = "SelectDocumentStart" -> documentStart(m)
    [] command = "SelectDocumentEnd"   -> documentEnd(m)

\* Up and down by a row or a page of the pane.  The column a caret left from is kept
\* for the next vertical motion unless the caret could not leave its row.
Downward == {"CursorLineDown", "CursorPageDown", "SelectLineDown", "SelectPageDown"}
Pagewise == {"CursorPageUp", "CursorPageDown", "SelectPageUp", "SelectPageDown"}
originOf(s, down, extend) == IF extend THEN s.active ELSE IF down THEN upper(s) ELSE lower(s)
desiredFrom(pane, rows, view, k, origin) ==
  IF k = Len(view.sel) /\ view.desired # None THEN view.desired ELSE visualColumn(pane, rows, origin)
moveFrom(m, pane, rows, down, count, origin, desired) ==
  [from |-> origin, desired |-> desired, to |-> movedVertically(m, pane, rows, origin, down, count, desired)]
moveOf(m, pane, rows, view, down, count, k, origin) ==
  moveFrom(m, pane, rows, down, count, origin, desiredFrom(pane, rows, view, k, origin))
keptColumn(pane, rows, move) ==
  IF visualRow(pane, rows, move.to) = visualRow(pane, rows, move.from) THEN visualColumn(pane, rows, move.to)
  ELSE move.desired
movedBy(pane, rows, sel, moves, extend) ==
  [sel |-> [k \in DOMAIN sel |-> IF extend THEN [sel[k] EXCEPT !.active = moves[k].to] ELSE Caret(moves[k].to)],
   desired |-> keptColumn(pane, rows, Last(moves))]
movedByRows(m, pane, rows, view, down, count, extend) ==
  movedBy(pane, rows, view.sel,
          Listed([k \in DOMAIN view.sel |->
                    moveOf(m, pane, rows, view, down, count, k, originOf(view.sel[k], down, extend))]), extend)
verticalMotion(m, pane, view, command, shown) ==
  movedByRows(m, pane, paneRows(m, pane), view, command \in Downward, IF command \in Pagewise THEN shown ELSE 1,
              command \in SelectVerticals)

placed(m, sel, command, arguments) ==
  CASE command = "CursorSetPosition"    -> <<Caret(arguments.position)>>
    [] command = "SelectWordAtPosition" -> <<wordRangeAt(m, arguments.position)>>
    [] command = "SelectAddRange"       -> Append(sel, arguments.selections[1])
    [] command = "SelectSetRange"       -> <<arguments.selections[1]>>
    [] command = "SelectSetRanges"      -> arguments.selections

\* An argument is missing or does not lie on the text.
rejected(m, command, arguments) ==
  CASE command \in {"CursorSetPosition", "SelectWordAtPosition"} -> ~validPosition(m, arguments.position)
    [] command \in {"SelectSetRange", "SelectAddRange", "SelectSetRanges"} ->
         arguments.selections = <<>> \/ ~validSelections(m, arguments.selections)
    [] OTHER -> FALSE

\* The next place of the primary selection's text: after it, else before it.
occurs(m, low, high, i) ==
  /\ Slice(m.text, i, i + high - low) = Slice(m.text, low, high)
  /\ resolve(m, i) # NoPosition /\ resolve(m, i + high - low) # NoPosition
selectedFrom(m, i, size) == <<[anchor |-> resolve(m, i), active |-> resolve(m, i + size)]>>
occurrenceOf(m, size, after, places) ==
  IF places = {} THEN <<>> ELSE selectedFrom(m, Min(IF after # {} THEN after ELSE places), size)
nextOccurrenceIn(m, low, high, places) ==
  occurrenceOf(m, high - low, {i \in places : i >= high}, places)
nextOccurrence(m, s) ==
  IF isCaret(s) THEN <<>>
  ELSE nextOccurrenceIn(m, lower(s).byte, upper(s).byte,
         {i \in 0..(Len(m.text) - (upper(s).byte - lower(s).byte)) :
            /\ i >= upper(s).byte \/ i <= lower(s).byte - (upper(s).byte - lower(s).byte)
            /\ occurs(m, lower(s).byte, upper(s).byte, i)})

addedCursors(m, sel, down) ==
  LET movable == SelectSeq(sel, LAMBDA s :
                   IF down THEN s.active.line + 1 # lineCount(m) ELSE s.active.line # 0)
  IN [k \in DOMAIN movable |-> Caret(vertical(m, movable[k].active, down, 1, movable[k].active.cell))]

\* One selection for the part of every line a selection covers.
partOf(s, l) == [from |-> Greatest(lower(s).byte, l.start), to |-> Least(upper(s).byte, l.end)]
partSelected(m, part) == [anchor |-> resolve(m, part.from), active |-> resolve(m, part.to)]
partsOf(m, s) ==
  Each(SelectSeq(Each(m.lines, LAMBDA l : partOf(s, l)), LAMBDA part : part.from < part.to),
       LAMBDA part : partSelected(m, part))
orElse(split, sel) == IF split = <<>> THEN sel ELSE split
splitIntoLines(m, sel) ==
  orElse(FlattenSeq([k \in DOMAIN sel |-> IF isCaret(sel[k]) THEN <<sel[k]>> ELSE partsOf(m, sel[k])]), sel)

toMatch(m, goto, s, match) ==
  IF goto THEN Caret(resolve(m, match.mate))
  ELSE [s EXCEPT !.active = resolve(m, IF match.forward THEN match.mate + 1 ELSE match.mate)]
toBracket(m, goto, found, s) == IF found = {} THEN s ELSE toMatch(m, goto, s, CHOOSE b \in found : TRUE)

movedSelections(m, view, command, arguments, pairs) ==
  LET sel == view.sel IN
  CASE command \in CursorMotions -> [k \in DOMAIN sel |-> Caret(cursorMotion(m, command, sel[k]))]
    [] command \in SelectMotions ->
         [k \in DOMAIN sel |-> [sel[k] EXCEPT !.active = selectMotion(m, command, sel[k].active)]]
    [] command \in Placements -> placed(m, sel, command, arguments)
    [] command = "CursorDocumentStart" -> <<Caret(documentStart(m))>>
    [] command = "CursorDocumentEnd" -> <<Caret(documentEnd(m))>>
    [] command = "SelectAll" -> <<[anchor |-> documentStart(m), active |-> documentEnd(m)]>>
    [] command = "SelectAddNextOccurrence" -> sel \o nextOccurrence(m, primary(sel))
    [] command \in {"SelectAddCursorUp", "SelectAddCursorDown"} ->
         sel \o addedCursors(m, sel, command = "SelectAddCursorDown")
    [] command = "SelectSplitIntoLines" -> splitIntoLines(m, sel)
    [] command \in Brackets -> [k \in DOMAIN sel |-> toBracket(m, command = "GotoMatchingBracket",
                                          {b \in bracketMatches(m, pairs) : b.from = sel[k].active.byte}, sel[k])]
    [] command \in Reveals -> sel

-----------------------------------------------------------------------------
(* The pane follows the primary caret, as little as it must. *)

revealedFirstRow(pane, target, center, viewport) ==
  IF center THEN Least(Greatest(target - pane.rows \div 2, 0), viewport.bar.maximumFirst)
  ELSE IF target < viewport.first THEN target
  ELSE IF target >= viewport.first + Len(viewport.rows)
    THEN Least(target - Len(viewport.rows) + 1, viewport.bar.maximumFirst)
  ELSE viewport.first

\* Mutant: a caret one cell beyond the right edge does not scroll the pane.
revealedFirstColumnShort(pane, p, firstColumn) ==
  IF pane.wrap THEN 0
  ELSE IF p.cell < firstColumn THEN p.cell
  ELSE IF p.cell > firstColumn + pane.columns THEN p.cell - pane.columns + 1
  ELSE firstColumn

revealedFirstColumn(pane, p, firstColumn) ==
  IF pane.wrap THEN 0
  ELSE IF p.cell < firstColumn THEN p.cell
  ELSE IF p.cell >= firstColumn + pane.columns THEN p.cell - pane.columns + 1
  ELSE firstColumn

selectionsAfter(m, pane, view, command, arguments, pairs, shown) ==
  IF command \in CursorVerticals \cup SelectVerticals THEN verticalMotion(m, pane, view, command, shown)
  ELSE [sel |-> movedSelections(m, view, command, arguments, pairs),
        desired |-> IF command \in Reveals THEN view.desired ELSE None]
revealedView(m, pane, view, command, viewport, sel, desired, caret) ==
  [sel |-> sel,
   firstRow |-> revealedFirstRow(pane, visualRow(pane, paneRows(m, pane), caret), command = "ViewCenterCaret", viewport),
   firstColumn |-> revealedFirstColumn(pane, caret, view.firstColumn),
   desired |-> desired]
selectedView(m, pane, view, command, viewport, sel, desired) ==
  revealedView(m, pane, view, command, viewport, sel, desired, primary(sel).active)
navigated(m, pane, view, command, viewport, after) ==
  selectedView(m, pane, view, command, viewport, SelectionSet(after.sel), after.desired)
navigatedFrom(m, pane, view, command, arguments, pairs, viewport) ==
  navigated(m, pane, view, command, viewport,
            selectionsAfter(m, pane, view, command, arguments, pairs, Len(viewport.rows)))
navigateSelection(m, pane, view, command, arguments, pairs) ==
  IF rejected(m, command, arguments) \/ ~validSelections(m, view.sel) THEN view
  ELSE navigatedFrom(m, pane, view, command, arguments, pairs, viewportOf(m, pane, view.firstRow))
=============================================================================
