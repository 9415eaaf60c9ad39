--------------------------- MODULE GraphemeLayout ---------------------------
(***************************************************************************)
(* The layout of one logical line in cells (GraphemeLayout.cpp): the code  *)
(* points of the line are gathered into grapheme clusters by one left to   *)
(* right scan, and every cluster occupies a number of terminal cells.      *)
(*                                                                         *)
(* A code point is abstracted to what the tables of the source say of it:  *)
(* its Grapheme_Cluster_Break class, its East Asian width and whether it   *)
(* is pictographic or an emoji.  One name stands for every code point of   *)
(* the same classes; "BAD" is a byte that starts no well-formed sequence.  *)
(* An offset counts code points.                                           *)
(***************************************************************************)
EXTENDS Integers, Sequences, SequencesExt

Letters == {"a", "b", "A", "B", "(", ")", ".", "/", " "}

\* The lookup of the generated property tables, and the arithmetic Hangul classes.
gcbPropOf(cp) ==
  CASE cp \in {"TAB", "CTL", "FMT"}      -> "Control"
    [] cp \in {"MARK", "SKIN", "VS16"}   -> "Extend"
    [] cp = "SPACING"                    -> "SpacingMark"
    [] cp = "PREPEND"                    -> "Prepend"
    [] cp \in {"ZWJ", "RI", "L", "V", "T", "LV", "LVT"} -> cp
    [] cp = "NL"                         -> "LF"
    [] cp = "CR"                         -> "CR"
    [] OTHER                             -> "Other"

isEawWide(cp) == cp \in {"W", "SKIN", "L", "LV", "LVT"}
isEmojiPres(cp) == cp \in {"EMOJI", "RI"}
isEmoji(cp) == cp \in {"EMOJI", "TEXTEMOJI", "RI"}
isExtendedPictographic(cp) == cp \in {"EMOJI", "TEXTEMOJI"}

\* Only the C0 and C1 controls are drawn; a format control takes no cell.
controlWidth(cp) == IF cp = "FMT" THEN 0 ELSE 1

WidthIn(class, cp, wide) ==
  CASE class = "Extend"                            -> IF wide THEN 2 ELSE 0
    [] class \in {"ZWJ", "SpacingMark", "Prepend"} -> 0
    [] class \in {"Control", "CR", "LF"}           -> controlWidth(cp)
    [] OTHER                                       -> IF wide THEN 2 ELSE 1
displayWidthOf(cp) == WidthIn(gcbPropOf(cp), cp, isEawWide(cp) \/ isEmojiPres(cp))

hangulExtends(last, next) ==
  \/ last = "L" /\ next \in {"L", "V", "LV", "LVT"}
  \/ last \in {"LV", "V"} /\ next \in {"V", "T"}
  \/ last \in {"LVT", "T"} /\ next = "T"

-----------------------------------------------------------------------------
(* The scan.  A cluster remembers the class of its last code point, the    *)
(* state of a possible emoji sequence and whether it already holds a pair  *)
(* of regional indicators.                                                 *)

pictographic(cp) == IF isExtendedPictographic(cp) THEN "ExtPic" ELSE "None"

Opened(at, cp) ==
  [off |-> at, len |-> 1, width |-> displayWidthOf(cp), base |-> cp, last |-> gcbPropOf(cp),
   gb11 |-> pictographic(cp), riPaired |-> FALSE, vs16 |-> FALSE]

\* What the cluster becomes with cp of the class g, which one of the rules attaches to it.
Longer(c, longer, g, cp) ==
     CASE g = "Extend" -> [longer EXCEPT !.last = "Other", !.vs16 = @ \/ cp = "VS16",
                                         !.gb11 = IF @ = "ExtPic" THEN "ExtPic" ELSE "None"]
       [] g = "ZWJ" -> [longer EXCEPT !.last = "Other",
                                      !.gb11 = IF @ = "ExtPic" THEN "Zwj" ELSE "None"]
       [] g = "SpacingMark" -> [longer EXCEPT !.last = "Other", !.gb11 = "None"]
       [] c.gb11 = "Zwj" /\ isExtendedPictographic(cp) -> [longer EXCEPT !.gb11 = "ExtPic"]
       [] c.last = "RI" /\ ~c.riPaired /\ g = "RI" -> [longer EXCEPT !.riPaired = TRUE, !.gb11 = "None"]
       [] hangulExtends(c.last, g) -> [longer EXCEPT !.gb11 = "None"]
       [] c.last = "Prepend" /\ g # "Prepend" ->
            [longer EXCEPT !.base = cp, !.width = displayWidthOf(cp), !.gb11 = pictographic(cp)]
       [] OTHER -> longer
Absorbed(c, cp) == Longer(c, [c EXCEPT !.len = @ + 1, !.last = gcbPropOf(cp)], gcbPropOf(cp), cp)

Attaches(c, g, cp) ==
  /\ cp # "BAD"
  /\ \/ g \in {"Extend", "ZWJ", "SpacingMark"}
     \/ c.gb11 = "Zwj" /\ isExtendedPictographic(cp)
     \/ c.last = "RI" /\ ~c.riPaired /\ g = "RI"
     \/ hangulExtends(c.last, g)
     \/ c.last = "Prepend" /\ g \notin {"Control", "CR", "LF"}
Extends(c, cp) == Attaches(c, gcbPropOf(cp), cp)

\* A variation selector shows a text emoji as a picture, two cells wide.
Closed(c) ==
  [off |-> c.off, len |-> c.len,
   width |-> IF c.vs16 /\ c.width < 2 /\ isEmoji(c.base) THEN 2 ELSE c.width]

RECURSIVE Cluster(_, _)
Cluster(line, c) ==
  LET next == c.off + c.len IN
  IF next < Len(line) /\ Extends(c, line[next + 1])
    THEN Cluster(line, Absorbed(c, line[next + 1]))
    ELSE Closed(c)

\* One span: a tab reaches the next tab stop, a control or a malformed byte stands alone.
SpanAt(line, at, cell, tabWidth) ==
  LET cp == line[at + 1] IN
  CASE cp = "BAD" -> [off |-> at, len |-> 1, width |-> 1]
    [] cp = "TAB" -> [off |-> at, len |-> 1, width |-> tabWidth - (cell % tabWidth)]
    [] gcbPropOf(cp) \in {"Control", "CR", "LF"} -> [off |-> at, len |-> 1, width |-> controlWidth(cp)]
    [] OTHER -> Cluster(line, Opened(at, cp))

RECURSIVE SpansFrom(_, _, _, _)
SpansAfter(line, span, cell, tabWidth) ==
  <<span>> \o SpansFrom(line, span.off + span.len, cell + span.width, tabWidth)
SpansFrom(line, at, cell, tabWidth) ==
  IF at >= Len(line) THEN <<>> ELSE SpansAfter(line, SpanAt(line, at, cell, tabWidth), cell, tabWidth)

RunOf(spans) == [spans |-> spans, total |-> FoldLeft(LAMBDA n, s : n + s.width, 0, spans)]
computeCellRun(line, tabWidth) == RunOf(SpansFrom(line, 0, 0, tabWidth))

-----------------------------------------------------------------------------
(* The reference definition: the rules of Unicode's extended grapheme      *)
(* clusters, each stated over the whole line to the left of a position.    *)

\* GB6 to GB8.
HangulJoins(x, y) == hangulExtends(gcbPropOf(x), gcbPropOf(y))

\* The number of regional indicators that end at position i.
RECURSIVE Indicators(_, _)
Indicators(line, i) == IF i = 0 \/ line[i] # "RI" THEN 0 ELSE 1 + Indicators(line, i - 1)

\* GB11: a pictograph, any number of Extend, a joiner, then a pictograph.
EmojiJoins(line, i) ==
  /\ line[i] = "ZWJ" /\ isExtendedPictographic(line[i + 1])
  /\ \E p \in 1..(i - 1) : /\ isExtendedPictographic(line[p])
                           /\ \A q \in (p + 1)..(i - 1) : gcbPropOf(line[q]) = "Extend"

\* No cluster boundary lies between positions i and i + 1.
Joined(line, i) ==
  LET x == line[i]
      y == line[i + 1]
      controls == {"Control", "CR", "LF"}
  IN /\ "BAD" \notin {x, y}
     /\ gcbPropOf(x) \notin controls /\ gcbPropOf(y) \notin controls
     /\ \/ HangulJoins(x, y)
        \/ gcbPropOf(y) \in {"Extend", "ZWJ", "SpacingMark"}
        \/ gcbPropOf(x) = "Prepend"
        \/ EmojiJoins(line, i)
        \/ x = "RI" /\ y = "RI" /\ Indicators(line, i) % 2 = 1

\* The spans cover the line and start exactly where a boundary is.
SpansFollowUnicode(line, spans) ==
     /\ {spans[k].off : k \in DOMAIN spans} = {i \in 0..(Len(line) - 1) : i = 0 \/ ~Joined(line, i)}
     /\ \A k \in DOMAIN spans :
          spans[k].off + spans[k].len = IF k = Len(spans) THEN Len(line) ELSE spans[k + 1].off
ClustersFollowUnicode(line) == SpansFollowUnicode(line, computeCellRun(line, 4).spans)
=============================================================================
