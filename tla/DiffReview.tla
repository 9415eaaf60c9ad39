----------------------------- MODULE DiffReview -----------------------------
(***************************************************************************)
(* The editor's diffs (DiffIngestion) of what computeDiff compares         *)
(* (DiffAlignment), and the keys that go from hunk to hunk.                *)
(***************************************************************************)
EXTENDS DiffIngestion, DiffAlignment

\* What DiffIngestion is given for the difference of two texts,
computedDifference(baseline, target) == computeDiff(baseline, target, Limits)
\* and for the texts it refuses to seed.
tooManyLines(text) == Len(splitDiffLines(text)) > Limits.lines

\* What is compared is compared exactly: the hunks turn one text into the other and leave a
\* longest common subsequence, and the line a review merges spells the new one (computeDiff,
\* computeWordDiff).  And from every hunk of every file the editor knows, the next and the
\* previous one lead back to it and reach them all (nextDiffHunk, previousDiffHunk).
DifferencesAreExact ==
  /\ ComparisonsAreExact
  /\ \A id \in identified(diff) : HunksAreAllVisited(hunksOf(diff, id))
=============================================================================
