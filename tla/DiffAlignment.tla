---------------------------- MODULE DiffAlignment ----------------------------
(***************************************************************************)
(* The difference of two texts (DiffModel.cpp): a longest common           *)
(* subsequence of their lines, the lines of every changed block aligned by *)
(* the words they share, and the words of a changed line.                  *)
(*                                                                         *)
(* A text is a sequence of code points (see GraphemeLayout); a line keeps  *)
(* its line feed; lines, words and offsets count from 0.                   *)
(***************************************************************************)
EXTENDS TextGeometry

CONSTANTS Limits,     \* the work limits of a difference (DiffConfig)
          Compared    \* texts whose differences are compared with their definition

\* Lines with their terminators; no empty line at the end.
diffLines(content, ends) ==
  [k \in DOMAIN ends |-> SubSeq(content, IF k = 1 THEN 1 ELSE ends[k - 1] + 1, ends[k])]
splitDiffLines(content) ==
  diffLines(content, SelectSeq(Numbers(1, Len(content)), LAMBDA i : content[i] = "NL" \/ i = Len(content)))

-----------------------------------------------------------------------------
(* Longest common subsequences.  same holds <<i, j>> when element i of the *)
(* one side goes with element j of the other.                              *)

\* table[i + 1][j + 1] is the length of the longest one of the rests from i and j on.
commonLength(same, i, j, below, right) ==
  IF <<i, j>> \in same THEN At(below, j + 1) + 1 ELSE Greatest(At(below, j), right)
lengthsOfRow(m, same, i, below) ==
  FoldRight(LAMBDA j, row : <<commonLength(same, i, j, below, row[1])>> \o row, Numbers(0, m - 1), <<0>>)
commonLengths(n, m, same) ==
  FoldRight(LAMBDA i, table : <<lengthsOfRow(m, same, i, table[1])>> \o table,
            Numbers(0, n - 1), <<[j \in 1..(m + 1) |-> 0]>>)

Step(kind, i, j) == [kind |-> kind, old |-> i, new |-> j]

\* The walk from the start: what goes together is matched, else the side that keeps more is passed.
nextStep(i, j, n, m, same, table) ==
  IF <<i, j>> \in same THEN Step("Match", i, j)
  ELSE IF i < n /\ (j = m \/ At(At(table, i + 1), j) >= At(At(table, i), j + 1)) THEN Step("Remove", i, 0)
  ELSE Step("Add", 0, j)
RECURSIVE stepsFrom(_, _, _, _, _, _)
stepsAfter(i, j, n, m, same, table, step) ==
  <<step>> \o stepsFrom(IF step.kind = "Add" THEN i ELSE i + 1, IF step.kind = "Remove" THEN j ELSE j + 1,
                        n, m, same, table)
stepsFrom(i, j, n, m, same, table) ==
  IF i = n /\ j = m THEN <<>> ELSE stepsAfter(i, j, n, m, same, table, nextStep(i, j, n, m, same, table))
alignment(n, m, same) == stepsFrom(0, 0, n, m, same, commonLengths(n, m, same))

\* Neighbouring steps of one kind as one run; removed and added ones are one kind, or else
\* every kind and every match is apart.
kindOf(step, apart) == IF step.kind = "Match" \/ apart THEN step.kind ELSE "Change"
Together(x, y, apart) == kindOf(x, apart) = kindOf(y, apart) /\ (x.kind = "Match" => ~apart)
runAdded(runs, step, apart) ==
  IF runs # <<>> /\ Together(Last(Last(runs)), step, apart) THEN Append(Front(runs), Append(Last(runs), step))
  ELSE Append(runs, <<step>>)
runsOfSteps(steps, apart) == FoldLeft(LAMBDA runs, step : runAdded(runs, step, apart), <<>>, steps)

ofKind(run, kind) == SelectSeq(run, LAMBDA s : s.kind = kind)

-----------------------------------------------------------------------------
(* The words of a changed line. *)

isAsciiWordByte(cp) == cp \in {"a", "b", "A", "B"}

tokensFrom(line, starts) ==
  LET End(k) == IF k = Len(starts) THEN Len(line) ELSE starts[k + 1]
  IN Listed([k \in DOMAIN starts |-> [from |-> starts[k], to |-> End(k), text |-> Slice(line, starts[k], End(k))]])
wordTokens(line) ==
  tokensFrom(line, SelectSeq(Numbers(0, Len(line) - 1), LAMBDA i :
                     i = 0 \/ isAsciiWordByte(At(line, i)) # isAsciiWordByte(At(line, i - 1))))

\* Tokens that follow each other are one range: the tokens of a run always do.
rangeOf(tokens, steps, side) ==
  IF steps = <<>> THEN <<>>
  ELSE <<[from |-> At(tokens, Head(steps)[side]).from, to |-> At(tokens, Last(steps)[side]).to]>>
wordRun(old, new, run) ==
  [match |-> Head(run).kind = "Match", removed |-> rangeOf(old, ofKind(run, "Remove"), "old"),
   added |-> rangeOf(new, SelectSeq(run, LAMBDA s : s.kind # "Remove"), "new")]

withoutLast(text, terminator) == IF text # <<>> /\ Last(text) = terminator THEN Front(text) ELSE text
withoutTerminator(text) == withoutLast(withoutLast(text, "NL"), "CR")

Segment(kind, text) == [kind |-> kind, text |-> text]
spansOf(kind, line, ranges) == Each(ranges, LAMBDA r : Segment(kind, Slice(line, r.from, r.to)))
segmentsOf(baseline, target, run) ==
  IF run.match THEN spansOf("Unchanged", target, run.added)
  ELSE spansOf("Removed", baseline, run.removed)
         \o (IF run.removed = <<>> \/ run.added = <<>> THEN <<>> ELSE <<Segment("Separator", <<" ">>)>>)
         \o spansOf("Added", target, run.added)
\* Only the last segment loses its terminator.
ended(segments) ==
  IF segments = <<>> THEN <<>> ELSE Append(Front(segments), [Last(segments) EXCEPT !.text = withoutTerminator(@)])

\* The ranges and the merged segments of a line.
wordDiffOf(baseline, target, runs) ==
  LET added(r) == ~r.match /\ r.removed = <<>>
      modified(r) == ~r.match /\ r.removed # <<>>
  IN [removed |-> FlattenSeq(Each(runs, LAMBDA r : r.removed)),
      added |-> FlattenSeq(Each(SelectSeq(runs, added), LAMBDA r : r.added)),
      modified |-> FlattenSeq(Each(SelectSeq(runs, modified), LAMBDA r : r.added)),
      segments |-> ended(FlattenSeq(Each(runs, LAMBDA r : segmentsOf(baseline, target, r))))]
sameTokens(old, new) ==
  {p \in (0..(Len(old) - 1)) \X (0..(Len(new) - 1)) : At(old, p[1]).text = At(new, p[2]).text}
wordDiff(baseline, target, old, new) ==
  wordDiffOf(baseline, target, Each(runsOfSteps(alignment(Len(old), Len(new), sameTokens(old, new)), FALSE),
                                    LAMBDA run : wordRun(old, new, run)))
computeWordDiff(baseline, target) == wordDiff(baseline, target, wordTokens(baseline), wordTokens(target))

-----------------------------------------------------------------------------
(* The lines of a changed block.  Two lines can be the same line edited    *)
(* when they share six of ten of their words.                              *)

wordsOf(line) ==
  Each(SelectSeq(wordTokens(line), LAMBDA t : isAsciiWordByte(t.text[1])), LAMBDA t : t.text)

\* The words the two have in common, each as often as both of them have it.
timesIn(words, word) == Cardinality({k \in DOMAIN words : words[k] = word})
sharedWords(old, new) ==
  MapThenSumSet(LAMBDA word : Least(timesIn(old, word), timesIn(new, word)), ToSet(old))
wordsPair(old, new) == old # <<>> /\ new # <<>> /\ 10 * sharedWords(old, new) >= 3 * (Len(old) + Len(new))
linesAreSimilarEnoughToPair(baseline, target) == wordsPair(wordsOf(baseline), wordsOf(target))

alignHunkLines(baseline, target, maximumCells) ==
  LET n == Len(baseline)
      m == Len(target)
  IN IF n = 1 /\ m = 1 THEN <<Step("Match", 0, 0)>>
     ELSE IF n = 0 \/ m = 0 \/ n * m > maximumCells
       THEN [k \in 1..n |-> Step("Remove", k - 1, 0)] \o [k \in 1..m |-> Step("Add", 0, k - 1)]
     ELSE alignment(n, m, {p \in (0..(n - 1)) \X (0..(m - 1)) :
                             linesAreSimilarEnoughToPair(At(baseline, p[1]), At(target, p[2]))})

-----------------------------------------------------------------------------
(* The whole difference.  limits are [lines, cells, words, block]; beyond  *)
(* any of them there is none.                                              *)

NoDifference == [hunks |-> <<>>, changes |-> <<>>, limited |-> TRUE]
Hunk(baseStart, targetStart, base, target) ==
  [baseStart |-> baseStart, targetStart |-> targetStart, base |-> base, target |-> target]
Change(kind, old, new, words) == [kind |-> kind, old |-> old, new |-> new, words |-> words]
NoWords == [removed |-> <<>>, added |-> <<>>, modified |-> <<>>, segments |-> <<>>]

\* One hunk and its changes from one run of steps of a block: a matched pair, lines removed
\* above the target line the walk has come to, or lines added below the baseline line.
baseLines(block, run) == Each(run, LAMBDA s : At(block.base, s.old))
targetLines(block, run) == Each(run, LAMBDA s : At(block.target, s.new))
matchedPart(block, s) ==
  [hunk |-> Hunk(block.baseStart + s.old, block.targetStart + s.new, <<At(block.base, s.old)>>, <<At(block.target, s.new)>>),
   changes |-> <<Change("Modified", block.baseStart + s.old, block.targetStart + s.new,
                        computeWordDiff(At(block.base, s.old), At(block.target, s.new)))>>]
removedPart(block, run, anchor) ==
  [hunk |-> Hunk(block.baseStart + Head(run).old, block.targetStart + anchor, baseLines(block, run), <<>>),
   changes |-> Each(run, LAMBDA s : Change("Removed", block.baseStart + s.old, -1, NoWords))]
addedPart(block, run, anchor) ==
  [hunk |-> Hunk(block.baseStart + anchor, block.targetStart + Head(run).new, <<>>, targetLines(block, run)),
   changes |-> Each(run, LAMBDA s : Change("Added", -1, block.targetStart + s.new, NoWords))]
partOf(block, run, after) ==
  CASE Head(run).kind = "Match"  -> matchedPart(block, Head(run))
    [] Head(run).kind = "Remove" -> removedPart(block, run, IF after = <<>> THEN Len(block.target) ELSE after[1].new)
    [] Head(run).kind = "Add"    -> addedPart(block, run, IF after = <<>> THEN Len(block.base) ELSE after[1].old)

partsOfRuns(block, runs) ==
  [k \in DOMAIN runs |-> partOf(block, runs[k], IF k = Len(runs) THEN <<>> ELSE runs[k + 1])]
partsOf(block, limits) ==
  partsOfRuns(block, runsOfSteps(alignHunkLines(block.base, block.target, limits.block), TRUE))

\* The blocks of lines between the common ones: a run of steps that follows so many lines of
\* either side.
blockOf(oldLines, newLines, run, from) ==
  [Hunk(from.old, from.new, <<>>, <<>>) EXCEPT
     !.base = Each(ofKind(run, "Remove"), LAMBDA s : At(oldLines, s.old)),
     !.target = Each(ofKind(run, "Add"), LAMBDA s : At(newLines, s.new))]
passed(from, run) ==
  [old |-> from.old + Len(SelectSeq(run, LAMBDA s : s.kind # "Add")),
   new |-> from.new + Len(SelectSeq(run, LAMBDA s : s.kind # "Remove"))]
blocksFrom(oldLines, newLines, runs) ==
  FoldLeft(LAMBDA a, run :
             [from |-> passed(a.from, run),
              blocks |-> IF Head(run).kind = "Match" THEN a.blocks
                         ELSE Append(a.blocks, blockOf(oldLines, newLines, run, a.from))],
           [from |-> [old |-> 0, new |-> 0], blocks |-> <<>>], runs).blocks
sameLines(oldLines, newLines) ==
  {p \in (0..(Len(oldLines) - 1)) \X (0..(Len(newLines) - 1)) : At(oldLines, p[1]) = At(newLines, p[2])}
blocksOf(oldLines, newLines) ==
  blocksFrom(oldLines, newLines,
             runsOfSteps(alignment(Len(oldLines), Len(newLines), sameLines(oldLines, newLines)), FALSE))

wordCells(part) ==
  IF part.changes[1].kind # "Modified" THEN 0
  ELSE (Len(wordTokens(part.hunk.base[1])) + 1) * (Len(wordTokens(part.hunk.target[1])) + 1)
diffOf(oldLines, newLines, parts, limits) ==
  IF \/ Len(oldLines) > limits.lines \/ Len(newLines) > limits.lines
     \/ (Len(oldLines) + 1) * (Len(newLines) + 1) > limits.cells
     \/ SumOf(Each(parts, wordCells)) > limits.words
    THEN NoDifference
  ELSE [hunks |-> Each(parts, LAMBDA part : part.hunk),
        changes |-> FlattenSeq(Each(parts, LAMBDA part : part.changes)), limited |-> FALSE]
lineDiff(oldLines, newLines, limits) ==
  diffOf(oldLines, newLines,
         FlattenSeq(Each(blocksOf(oldLines, newLines), LAMBDA block : partsOf(block, limits))), limits)
computeDiff(baseline, target, limits) == lineDiff(splitDiffLines(baseline), splitDiffLines(target), limits)

\* Mutant: the hunk a review is at is found again.
nextDiffHunkFromHere(hunks, line) ==
  LET after == {k \in DOMAIN hunks : hunks[k].targetStart >= line}
  IN IF hunks = <<>> THEN -1 ELSE IF after = {} THEN 0 ELSE Min(after) - 1

\* The hunk a review goes to from a line, round the end of the file; -1 is no line and no hunk.
nextDiffHunk(hunks, line) ==
  LET after == {k \in DOMAIN hunks : hunks[k].targetStart > line}
  IN IF hunks = <<>> THEN -1 ELSE IF after = {} THEN 0 ELSE Min(after) - 1

previousDiffHunk(hunks, line) ==
  LET before == {k \in DOMAIN hunks : hunks[k].targetStart < line}
  IN IF hunks = <<>> THEN -1 ELSE IF line = -1 \/ before = {} THEN Len(hunks) - 1 ELSE Max(before) - 1

-----------------------------------------------------------------------------
(* Reference definitions. *)

Picked(lines, X) == Each(SetToSortSeq(X, <), LAMBDA k : lines[k])
IsCommonSubsequence(oldLines, newLines, size) ==
  \E X \in kSubset(size, DOMAIN oldLines), Y \in kSubset(size, DOMAIN newLines) : Picked(oldLines, X) = Picked(newLines, Y)

Patch(oldLines, a, h) ==
  [fits |-> /\ a.fits /\ h.baseStart >= a.at /\ Len(a.text) + h.baseStart - a.at = h.targetStart
            /\ Slice(oldLines, h.baseStart, h.baseStart + Len(h.base)) = h.base,
   text |-> a.text \o Slice(oldLines, a.at, h.baseStart) \o h.target, at |-> h.baseStart + Len(h.base)]
Patched(oldLines, hunks) ==
  FoldLeft(LAMBDA a, h : Patch(oldLines, a, h), [fits |-> TRUE, text |-> <<>>, at |-> 0], hunks)
PatchYields(patched, oldLines, newLines) ==
  patched.fits /\ patched.text \o Slice(oldLines, patched.at, Len(oldLines)) = newLines

\* The hunks, taken in order, turn the baseline into the target, and they name no more
\* lines than they must: what they leave out is a longest common subsequence.
HunksAreExact(oldLines, newLines, hunks) ==
  /\ PatchYields(Patched(oldLines, hunks), oldLines, newLines)
  /\ ~IsCommonSubsequence(oldLines, newLines, Len(oldLines) - SumOf(Each(hunks, LAMBDA h : Len(h.base))) + 1)

\* Going from hunk to hunk visits every one of them and comes round.
HunksAreAllVisited(hunks) ==
  LET Next(line) == hunks[nextDiffHunk(hunks, line) + 1].targetStart
      Previous(line) == hunks[previousDiffHunk(hunks, line) + 1].targetStart
  IN \A k \in DOMAIN hunks : /\ Previous(Next(hunks[k].targetStart)) = hunks[k].targetStart
                             /\ Next(Previous(hunks[k].targetStart)) = hunks[k].targetStart

SaysWhatChanged(baseline, target, hunks) == HunksAreExact(splitDiffLines(baseline), splitDiffLines(target), hunks)

\* The merged line a review shows spells the target line, less its terminator: what it
\* adds to it is marked as removed.
SpelledBy(segments) ==
  FlattenSeq(Each(SelectSeq(segments, LAMBDA s : s.kind \in {"Unchanged", "Added"}), LAMBDA s : s.text))
MergedLineSpellsTarget(baseline, target) ==
  withoutTerminator(SpelledBy(computeWordDiff(baseline, target).segments)) = withoutTerminator(target)

ComparesExactly(baseline, target, d) ==
  d.limited \/ (SaysWhatChanged(baseline, target, d.hunks) /\ HunksAreAllVisited(d.hunks))

\* Whatever two texts are compared, beyond a limit nothing is said of them.
ComparisonsAreExact ==
  \A baseline, target \in Compared :
    /\ ComparesExactly(baseline, target, computeDiff(baseline, target, Limits))
    /\ \A old \in ToSet(splitDiffLines(baseline)), new \in ToSet(splitDiffLines(target)) :
         MergedLineSpellsTarget(old, new)
=============================================================================
