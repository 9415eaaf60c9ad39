---------------------------- MODULE TextGeometry ----------------------------
(***************************************************************************)
(* From the text of a document to the rows of a pane (Viewport.cpp): word  *)
(* wrapping, the rows a diff adds for removed lines, the part of the rows  *)
(* a pane shows, the cells of it that answer a click, and the arithmetic   *)
(* of scrolling.                                                           *)
(*                                                                         *)
(* A text is a sequence of code points (see GraphemeLayout); offsets,      *)
(* lines, rows and cells count from 0 as they do in the code.  A diff is   *)
(* [hunks, changed]: hunks are [baseStart, targetStart, base, target] with *)
(* lines of code points, changed lines are [line, baseline, removed,       *)
(* merged] with the removed ranges of the baseline line and the segments   *)
(* of a line that is shown merged.  NoDiff stands for the null pointer.    *)
(***************************************************************************)
EXTENDS GraphemeLayout, FiniteSetsExt

Least(x, y) == IF x < y THEN x ELSE y
Greatest(x, y) == IF x > y THEN x ELSE y
Clamped(x, low, high) == Greatest(low, Least(x, high))
Numbers(low, high) == [k \in 1..(high - low + 1) |-> low + k - 1]
\* The element at a position counted from 0, and the part of s from one position to another.
At(s, i) == s[i + 1]
Slice(s, from, to) == SubSeq(s, from + 1, to)
RECURSIVE SumOf(_)
SumOf(s) == IF s = <<>> THEN 0 ELSE Head(s) + SumOf(Tail(s))
\* The sequence itself, with its elements worked out once.
Listed(s) == s \o <<>>
\* What f makes of each element.
Each(s, f(_)) == Listed([k \in DOMAIN s |-> f(s[k])])

NoDiff == [hunks |-> <<>>, changed |-> <<>>, null |-> TRUE]

-----------------------------------------------------------------------------
(* Lines. *)

documentLineStarts(text) ==
  <<0>> \o SelectSeq(Numbers(1, Len(text)), LAMBDA i : text[i] = "NL")

lineEndOf(text, starts, line) ==
  IF line + 1 < Len(starts) THEN At(starts, line + 1) - 1 ELSE Len(text)

linesBetween(text, starts) ==
  Listed([k \in DOMAIN starts |-> Slice(text, starts[k], lineEndOf(text, starts, k - 1))])
linesOfText(text) == linesBetween(text, documentLineStarts(text))

allRuns(text, tabWidth) == Each(linesOfText(text), LAMBDA line : computeCellRun(line, tabWidth))

\* The starts derived again from the widths of the runs, one separator after every line.
lengthOf(run) == SumOf([s \in DOMAIN run.spans |-> run.spans[s].len])
runLineStarts(runs) ==
  FoldLeft(LAMBDA starts, k : Append(starts, Last(starts) + lengthOf(runs[k]) + 1), <<0>>, Numbers(1, Len(runs) - 1))

-----------------------------------------------------------------------------
(* Wrapping: a span that does not fit what is left of the row opens the    *)
(* next row; a span without width never does.                              *)

emptyRow(line) ==
  [line |-> line, first |-> 0, count |-> 0, startCell |-> 0, content |-> 0, visible |-> 0, end |-> 0]

NoRows == [rows |-> <<>>, first |-> 0, count |-> 0, startCell |-> 0, content |-> 0]

rowClosed(line, spans, columns, a) ==
  Append(a.rows, [line |-> line, first |-> a.first, count |-> a.count,
                  startCell |-> a.startCell, content |-> a.content, visible |-> Least(a.content, columns),
                  end |-> At(spans, a.first + a.count - 1).off + At(spans, a.first + a.count - 1).len])
rowOpens(a, w, columns) == w > 0 /\ a.content > 0 /\ w > columns - Least(a.content, columns)
widened(a, w) == [a EXCEPT !.count = @ + 1, !.content = @ + w]
wrapSpan(line, spans, columns, a, k) ==
  widened(IF rowOpens(a, spans[k].width, columns)
            THEN [NoRows EXCEPT !.rows = rowClosed(line, spans, columns, a), !.first = k - 1,
                                !.startCell = a.startCell + a.content]
            ELSE a, spans[k].width)
wrapLine(line, run, columns) ==
  IF run.spans = <<>> THEN <<emptyRow(line)>>
  ELSE rowClosed(line, run.spans, columns,
                 FoldLeft(LAMBDA a, k : wrapSpan(line, run.spans, columns, a, k), NoRows, Numbers(1, Len(run.spans))))

wrapRows(runs, columns) ==
  FlattenSeq([k \in DOMAIN runs |-> wrapLine(k - 1, runs[k], columns)])

-----------------------------------------------------------------------------
(* Rows of a diff.  A block of removed lines stands above the line its     *)
(* hunk starts at; a changed pair of one line is shown merged when rows do *)
(* not wrap, and has no row of its own there.                              *)

FirstOf(s) == IF s = <<>> THEN s ELSE Head(s)
removedWordRangesFor(diff, baseline) ==
  FirstOf(Each(SelectSeq(diff.changed, LAMBDA c : c.baseline = baseline), LAMBDA c : c.removed))

removedLines(diff, hunk) ==
  [i \in DOMAIN hunk.base |->
     [baseline |-> hunk.baseStart + i - 1, text |-> hunk.base[i],
      ranges |-> removedWordRangesFor(diff, hunk.baseStart + i - 1)]]
removedBlock(diff, lineCount, skipMergedPairs, insertion) ==
  LET Shown(h) == /\ Least(h.targetStart, lineCount) = insertion
                  /\ ~(skipMergedPairs /\ Len(h.base) = 1 /\ Len(h.target) = 1)
  IN FlattenSeq([k \in DOMAIN diff.hunks |->
                   IF Shown(diff.hunks[k]) THEN removedLines(diff, diff.hunks[k]) ELSE <<>>])

mergedSegmentsFor(diff, line) ==
  FirstOf(Each(SelectSeq(diff.changed, LAMBDA c : c.line = line /\ c.merged # <<>>), LAMBDA c : c.merged))

followingOffset(insertion, starts, size) ==
  IF insertion < Len(starts) THEN At(starts, insertion) ELSE size

PhantomRow(removed, text, offset, ranges) ==
  [real |-> FALSE, baseline |-> removed.baseline, text |-> text, following |-> offset, ranges |-> ranges]

RealRow(line, visual, from, to, startCell, endCell, merged) ==
  [real |-> TRUE, line |-> line, visual |-> visual, start |-> from, end |-> to,
   startCell |-> startCell, endCell |-> endCell, merged |-> merged]

\* The ranges of a removed line that a wrapped segment of it shows, from the segment's start.
rangesWithin(ranges, from, to) ==
  Each(SelectSeq(ranges, LAMBDA r : Greatest(r.from, from) < Least(r.to, to)),
       LAMBDA r : [from |-> Greatest(r.from, from) - from, to |-> Least(r.to, to) - from])

\* The rows of one removed line above `line`, wrapped.
phantomRow(removed, line, offset, row, from) ==
  [geometry |-> [emptyRow(line) EXCEPT !.content = row.content, !.visible = row.visible, !.end = offset],
   source |-> PhantomRow(removed, Slice(removed.text, from, row.end), offset, rangesWithin(removed.ranges, from, row.end))]
phantomRowsOf(removed, line, offset, columns, run) ==
  Each(wrapLine(0, run, columns),
       LAMBDA row : phantomRow(removed, line, offset, row, IF row.count = 0 THEN 0 ELSE At(run.spans, row.first).off))
phantomRows(removed, line, offset, columns) ==
  phantomRowsOf(removed, line, offset, columns, computeCellRun(removed.text, 4))

\* The wrapped rows of one line that is there, from its row `first` of the pane.
realRows(run, base, rows, first) ==
  LET StartOf(row) == IF row.count = 0 THEN base ELSE base + At(run.spans, row.first).off
  IN Listed([k \in DOMAIN rows |->
       [geometry |-> [rows[k] EXCEPT !.end = @ + base],
        source |-> RealRow(rows[k].line, first + k - 1, StartOf(rows[k]), rows[k].end + base, rows[k].startCell,
                           rows[k].startCell + rows[k].content, <<>>)]])

wrappedAbove(removed, line, offset, columns) ==
  FlattenSeq([k \in DOMAIN removed |-> phantomRows(removed[k], line, offset, columns)])
\* The rows of line `line` below those that were removed above it; the last ones stand
\* below the whole text.
wrappedLine(runs, starts, columns, diff, line) ==
  wrappedAbove(removedBlock(diff, Len(runs), FALSE, line), Least(line, Len(runs) - 1),
               followingOffset(line, starts, Last(starts) + lengthOf(Last(runs))), columns)
    \o IF line = Len(runs) THEN <<>>
       ELSE realRows(At(runs, line), At(starts, line), wrapLine(line, At(runs, line), columns),
                     Len(wrapRows(Slice(runs, 0, line), columns)))
wrappedLines(runs, starts, columns, diff) ==
  FlattenSeq([k \in 1..(Len(runs) + 1) |-> wrappedLine(runs, starts, columns, diff, k - 1)])
projectedWrappedRows(runs, columns, diff) == wrappedLines(runs, runLineStarts(runs), columns, diff)

unwrappedAbove(removed, offset) == Each(removed, LAMBDA r : PhantomRow(r, r.text, offset, r.ranges))
unwrappedLines(text, starts, diff) ==
  LET Real(line) == RealRow(line, line, At(starts, line), lineEndOf(text, starts, line), 0, 0,
                            mergedSegmentsFor(diff, line))
  IN FlattenSeq([k \in 1..(Len(starts) + 1) |->
       unwrappedAbove(removedBlock(diff, Len(starts), TRUE, k - 1), followingOffset(k - 1, starts, Len(text)))
         \o IF k > Len(starts) THEN <<>> ELSE <<Real(k - 1)>>])
projectedUnwrappedRows(text, diff) == unwrappedLines(text, documentLineStarts(text), diff)

rowProjection(runs, columns, diff) == Each(projectedWrappedRows(runs, columns, diff), LAMBDA row : row.source)

\* The first row of the line that holds the offset, or the line's last row.
rowHolds(rows, mine, v, byte) ==
  /\ byte >= At(rows, v).start
  /\ byte < At(rows, v).end \/ (byte = At(rows, v).end /\ \A u \in mine : u <= v)
firstOrLast(holds, mine, otherwise) ==
  IF holds # {} THEN Min(holds) ELSE IF mine # {} THEN Max(mine) ELSE otherwise
rowAmong(rows, mine, byte) == firstOrLast({v \in mine : rowHolds(rows, mine, v, byte)}, mine, Len(rows))
visualRowForPosition(rows, position) ==
  rowAmong(rows, {v \in 0..(Len(rows) - 1) : At(rows, v).real /\ At(rows, v).line = position.line}, position.byte)

\* A move by rows lands on a real row: further on in its direction, else back again.
landed(ahead, behind, forward, edge) ==
  IF ahead # {} THEN IF forward THEN Min(ahead) ELSE Max(ahead)
  ELSE IF behind # {} THEN IF forward THEN Max(behind) ELSE Min(behind)
  ELSE edge
landsBeyond(reals, target, back, forward, last) ==
  landed({v \in reals : IF forward THEN v >= target ELSE v <= target},
         {v \in reals : IF forward THEN v <= back ELSE v >= back}, forward, IF forward THEN 0 ELSE last)
movedRealRow(rows, from, distance) ==
  IF rows = <<>> THEN 0
  ELSE landsBeyond({v \in 0..(Len(rows) - 1) : At(rows, v).real}, Clamped(from + distance, 0, Len(rows) - 1),
                   Clamped(from, 0, Len(rows) - 1), distance >= 0, Len(rows) - 1)

-----------------------------------------------------------------------------
(* Scrolling. *)

scrollScaleRounded(value, numerator, denominator) ==
  IF denominator = 0 THEN 0 ELSE (value * numerator + denominator \div 2) \div denominator

scrollThumbStart(firstRow, maximumFirst, travel) ==
  Least(travel, scrollScaleRounded(firstRow, travel, maximumFirst))

scrollFirstRow(thumbTop, travel, maximumFirst) ==
  Least(maximumFirst, scrollScaleRounded(maximumFirst, thumbTop, travel))

scrollbarMetrics(total, rows, first) ==
  LET maximumFirst == Greatest(total - rows, 0)
      thumb == Greatest(1, (rows * rows) \div total)
  IN IF maximumFirst = 0
       THEN [first |-> 0, maximumFirst |-> 0, thumbStart |-> 0, thumbSize |-> rows]
       ELSE [first |-> first, maximumFirst |-> maximumFirst,
             thumbStart |-> scrollThumbStart(first, maximumFirst, Greatest(rows - thumb, 0)),
             thumbSize |-> thumb]

keptFirst(first, rows, maximumFirst, target) ==
  IF target < 0 \/ maximumFirst = 0 THEN first
  ELSE IF target < first THEN target
  ELSE IF target >= first + rows THEN Least(target - rows + 1, maximumFirst)
  ELSE first

scrollView(total, rows, first) ==
  [first |-> first, count |-> Least(rows, total - first), bar |-> scrollbarMetrics(total, rows, first)]

\* selected is -1 when the list has no selection or the caller scrolls explicitly.
listScrollView(total, rows, requested, selected) ==
  IF rows = 0 THEN [first |-> 0, count |-> 0, bar |-> scrollbarMetrics(total, 0, 0)]
  ELSE scrollView(total, rows, keptFirst(Least(requested, Greatest(total - rows, 0)), rows,
                                         Greatest(total - rows, 0), Least(selected, total - 1)))

resolvedScroll(offset, total, rows) == listScrollView(total, rows, offset, -1)

\* The shift by any 64-bit distance saturates before it adds.
shiftedOffset(current, delta, maximumFirst) ==
  IF delta >= maximumFirst THEN maximumFirst
  ELSE IF delta <= -maximumFirst THEN 0
  ELSE Clamped(Least(current, maximumFirst) + delta, 0, maximumFirst)

byLines(offset, delta, total, rows) ==
  IF rows = 0 THEN 0
  ELSE shiftedOffset(offset, delta, resolvedScroll(offset, total, rows).bar.maximumFirst)

byPages(offset, pages, total, rows) == byLines(offset, pages * rows, total, rows)

toFraction(numerator, denominator, total, rows) ==
  IF denominator = 0 \/ rows = 0 THEN 0
  ELSE scrollFirstRow(numerator, denominator, Greatest(total - rows, 0))

revealSelection(offset, selected, total, rows) == listScrollView(total, rows, offset, selected).first
-----------------------------------------------------------------------------
(* What a pane shows: its rows, and the cells of them that answer a click  *)
(* with an offset of the document.  A cell of removed text answers with    *)
(* the place the text was removed from and has no bytes of its own.        *)

widthsOf(cells) == Each(cells, LAMBDA cell : cell.width)
cellsBefore(cells, k) == SumOf(SubSeq(widthsOf(cells), 1, k - 1))
targetCell(row, line, startCell, cell, before, c, byte) ==
  [row |-> row, column |-> before + c - 1, line |-> line, cell |-> startCell + before,
   byte |-> byte, len |-> cell.len, ghost |-> cell.ghost]

\* Mutant: every cell of a wide cluster is taken for a byte of its own.
cellTargetsByCell(row, line, startCell, columns, cell, before) ==
  [c \in 1..cell.width |-> targetCell(row, line, startCell, cell, before, c, cell.byte + c - 1)]

\* The cells a span takes, as many of them as the row has columns for.
cellTargets(row, line, startCell, columns, cell, before) ==
  [c \in 1..Least(cell.width, columns - Least(before, columns)) |->
     targetCell(row, line, startCell, cell, before, c, cell.byte)]

\* The cells of one row; cells are [width, byte, len, ghost] from the row's first span on.
rowTargets(row, line, startCell, cells, columns) ==
  FlattenSeq([k \in DOMAIN cells |->
                cellTargets(row, line, startCell, columns, cells[k], cellsBefore(cells, k))])

spanCells(spans, base) ==
  Each(spans, LAMBDA span : [width |-> span.width, byte |-> base + span.off, len |-> span.len, ghost |-> FALSE])

noDiff(diff) == "null" \in DOMAIN diff

\* Of the rows [geometry, source, cells], those from the scroll position on.
Pane(firstColumn, columns, rows, diff, total, scroll, shown) ==
  [first |-> scroll.first, firstColumn |-> firstColumn, total |-> total,
   rows |-> Each(shown, LAMBDA row : row.geometry),
   projection |-> IF noDiff(diff) THEN <<>> ELSE Each(shown, LAMBDA row : row.source),
   targets |-> FlattenSeq([k \in DOMAIN shown |->
                 rowTargets(k - 1, shown[k].geometry.line, shown[k].geometry.startCell, shown[k].cells, columns)]),
   bar |-> scrollbarMetrics(total, rows, scroll.first)]
shownPart(all, scroll) == SubSeq(all, scroll.first + 1, scroll.first + scroll.count)

\* Word wrap on.
plainRows(wrapped, starts) ==
  Each(wrapped, LAMBDA row : [geometry |-> [row EXCEPT !.end = @ + At(starts, row.line)], source |-> [real |-> TRUE]])
wrappedCells(runs, starts, row) ==
  IF row.source.real
    THEN spanCells(Slice(At(runs, row.geometry.line).spans, row.geometry.first, row.geometry.first + row.geometry.count),
                   At(starts, row.geometry.line))
    ELSE <<>>
wrappedPane(runs, starts, columns, rows, diff, all, scroll) ==
  Pane(0, columns, rows, diff, Len(all), scroll,
       Each(shownPart(all, scroll),
            LAMBDA row : [geometry |-> row.geometry, source |-> row.source, cells |-> wrappedCells(runs, starts, row)]))
wrappedPaneAt(runs, starts, columns, rows, requested, diff, all) ==
  wrappedPane(runs, starts, columns, rows, diff, all, resolvedScroll(requested, Len(all), rows))
wrappedPaneOf(runs, starts, columns, rows, requested, diff) ==
  wrappedPaneAt(runs, starts, columns, rows, requested, diff,
                IF noDiff(diff) THEN plainRows(wrapRows(runs, columns), starts) ELSE wrappedLines(runs, starts, columns, diff))
computeViewport(runs, columns, rows, requested, diff) ==
  wrappedPaneOf(runs, runLineStarts(runs), columns, rows, requested, diff)

\* The first span that starts at or after the column a pane is scrolled to, and its cell.
StartOf(widths, k) == SumOf(SubSeq(widths, 1, k))
firstSpanFrom(widths, column) ==
  Min({k \in 0..Len(widths) : k = Len(widths) \/ StartOf(widths, k) >= column})

\* The row of one line scrolled to the column: as many spans as fit, the last one cut.
rowFrom(line, end, columns, widths, first, startCell) ==
  [line |-> line, first |-> first, startCell |-> startCell, content |-> SumOf(widths), end |-> end,
   count |-> Cardinality({k \in (first + 1)..Len(widths) : SumOf(SubSeq(widths, first + 1, k - 1)) < columns}),
   visible |-> IF first >= Len(widths) THEN 0 ELSE Least(Greatest(SumOf(widths) - startCell, 0), columns)]
rowFromSpan(line, end, columns, widths, first) ==
  rowFrom(line, end, columns, widths, first, StartOf(widths, first))
unwrappedRow(line, end, columns, column, widths) ==
  rowFromSpan(line, end, columns, widths, firstSpanFrom(widths, column))

\* The cells of a line shown merged: text that was removed holds the place it was
\* removed from, and every span is drawn at least one cell wide.
IsGhost(segment) == segment.kind \in {"Removed", "Separator"}
beginOf(segments, k) == SumOf([j \in 1..(k - 1) |-> Len(segments[j].text)])
placeOf(segments, k) == SumOf([j \in 1..(k - 1) |-> IF IsGhost(segments[j]) THEN 0 ELSE Len(segments[j].text)])
segmentAt(segments, off) ==
  Min({Len(segments)} \cup {k \in DOMAIN segments : off < beginOf(segments, k) + Len(segments[k].text)})
mergedCell(segments, lineStart, span, k) ==
  [width |-> Greatest(span.width, 1),
   byte |-> lineStart + placeOf(segments, k) + IF IsGhost(segments[k]) THEN 0 ELSE span.off - beginOf(segments, k),
   len |-> IF IsGhost(segments[k]) THEN 0 ELSE span.len, ghost |-> IsGhost(segments[k])]
mergedCells(segments, lineStart, tabWidth) ==
  Each(computeCellRun(FlattenSeq([k \in DOMAIN segments |-> segments[k].text]), tabWidth).spans,
       LAMBDA span : mergedCell(segments, lineStart, span, segmentAt(segments, span.off)))

\* Word wrap off: one line is one row, and every row starts at the same column.
unwrappedCells(text, starts, row, tabWidth) ==
  IF row.merged # <<>> THEN mergedCells(row.merged, At(starts, row.line), tabWidth)
  ELSE spanCells(computeCellRun(Slice(text, At(starts, row.line), lineEndOf(text, starts, row.line)), tabWidth).spans,
                 At(starts, row.line))
realGeometry(geometry, row, cells) ==
  [geometry |-> geometry, source |-> row, cells |-> Slice(cells, geometry.first, geometry.first + geometry.count)]
realLine(text, starts, columns, column, row, cells) ==
  realGeometry(unwrappedRow(row.line, lineEndOf(text, starts, row.line), columns, column, widthsOf(cells)), row, cells)
phantomLine(starts, columns, row, total) ==
  [geometry |-> [emptyRow(Least(Cardinality({k \in DOMAIN starts : starts[k] < row.following}), Len(starts) - 1)) EXCEPT
                   !.content = total, !.visible = Least(total, columns), !.end = row.following],
   source |-> row, cells |-> <<>>]
unwrappedLine(text, starts, columns, column, tabWidth, row) ==
  IF row.real THEN realLine(text, starts, columns, column, row, unwrappedCells(text, starts, row, tabWidth))
  ELSE phantomLine(starts, columns, row, computeCellRun(row.text, tabWidth).total)
unwrappedPane(text, starts, columns, rows, column, tabWidth, diff, all, scroll) ==
  Pane(column, columns, rows, diff, Len(all), scroll,
       Each(shownPart(all, scroll), LAMBDA row : unwrappedLine(text, starts, columns, column, tabWidth, row)))
unwrappedPaneAt(text, starts, columns, rows, requested, column, tabWidth, diff, all) ==
  unwrappedPane(text, starts, columns, rows, column, tabWidth, diff, all, resolvedScroll(requested, Len(all), rows))
unwrappedPaneOf(text, starts, columns, rows, requested, column, tabWidth, diff) ==
  unwrappedPaneAt(text, starts, columns, rows, requested, column, tabWidth, diff, unwrappedLines(text, starts, diff))
computeUnwrappedViewport(text, columns, rows, requested, column, tabWidth, diff) ==
  unwrappedPaneOf(text, documentLineStarts(text), columns, rows, requested, column, tabWidth, diff)

\* The top bound is applied where the rows are counted.
scrollViewportBy(runs, columns, rows, current, delta, diff) ==
  computeViewport(runs, columns, rows, Greatest(current + delta, 0), diff)

\* Where a click in the empty part of a shown row lands.
editableOffset(pane, row) ==
  IF pane.projection # <<>> /\ ~At(pane.projection, row).real
    THEN At(pane.projection, row).following
    ELSE At(pane.rows, row).end
=============================================================================
