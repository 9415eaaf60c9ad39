------------------------------ MODULE TextPane ------------------------------
(***************************************************************************)
(* One document in one pane: the editor's text and selections and the      *)
(* presenter's scroll position and desired column (GridPresenter.cpp),     *)
(* moved by keys, the mouse, the wheel, edit commands and by a change of   *)
(* the file that another program made (editing.cpp, input_routing.cpp).    *)
(*                                                                         *)
(* Every input is dispatched and presented before the next one is read     *)
(* (TerminalClient::consumeInput), so an action is an input with the       *)
(* projection that follows it.                                             *)
(***************************************************************************)
EXTENDS TextEditing

CONSTANTS Texts,          \* texts a document opens with, each with its panes and edits
          Replacements,   \* texts another program leaves in the file
          Typed,          \* texts an input inserts
          Clustered,      \* lines whose clusters are compared with Unicode's rules
          MaxInputs,      \* bound on the inputs
          MaxEdits,       \* bound on the changes of the document
          MaxLength,      \* bound on the length of the text
          MaxSelections   \* bound on the number of selections

VARIABLES text,      \* the document's text
          rev,       \* its revision: the number of its changes
          sel,       \* the editor's selections
          nav,       \* the presenter's navigation [firstRow, firstColumn, desired]
          gesture,   \* the drag in progress, or NoGesture
          register,  \* the clipboard register's fragments
          pane,      \* the pane: [columns, rows, wrap, tab, diff]
          inputs     \* the number of inputs so far

vars == <<text, rev, sel, nav, gesture, register, pane, inputs>>

NoGesture == [rev |-> None, anchor |-> NoPosition, additive |-> FALSE, baseline |-> <<>>]
NoArguments == [position |-> NoPosition, selections |-> <<>>]
\* bindSelection passes no bracket pairs, and the size of no pane.
NoPairs == <<>>
PointPane == [columns |-> 1, rows |-> 1, wrap |-> pane.wrap, tab |-> pane.tab, diff |-> pane.diff]

model(t) == TextModel(t, TabWidth)
viewOf(s, n) == [sel |-> s, firstRow |-> n.firstRow, firstColumn |-> n.firstColumn, desired |-> n.desired]
navOf(view) == [firstRow |-> view.firstRow, firstColumn |-> view.firstColumn, desired |-> view.desired]

\* What the pane shows.
displayed(t, n) ==
  IF pane.wrap
    THEN computeViewport(runsOfModel(model(t)), pane.columns, pane.rows, n.firstRow, pane.diff)
    ELSE computeUnwrappedViewport(t, pane.columns, pane.rows, n.firstRow, n.firstColumn, TabWidth, pane.diff)

-----------------------------------------------------------------------------
(* The projection: a changed document or selection scrolls the caret into  *)
(* view, unless the selection is the one a visual motion was waiting for,  *)
(* which brings its own position of the pane.  What is typed in the find   *)
(* bar (findGeneration) does so too, with the document and the selections  *)
(* as they were: that step is the command to reveal the caret.             *)

NoPending == [sel |-> <<>>, nav |-> [firstRow |-> 0, firstColumn |-> 0, desired |-> None]]

settled(n, shown) == [n EXCEPT !.firstRow = shown.first, !.firstColumn = shown.firstColumn]
frameOf(t, n) == settled(n, displayed(t, n))
projected(t, r, s, n, pending) ==
  frameOf(t, IF pending.sel = s THEN pending.nav
             ELSE IF r # rev \/ s # sel
               THEN navOf(navigateSelection(model(t), pane, viewOf(s, n), "ViewRevealCaret", NoArguments, NoPairs))
             ELSE n)

\* The end of every action: the new text, selections and the frame shown for them.
Presents(t, s, n, pending) ==
  /\ Len(t) <= MaxLength /\ Len(s) <= MaxSelections
  /\ text' = t
  /\ sel' = s
  /\ rev' = IF t = text THEN rev ELSE rev + 1
  /\ nav' = projected(t, rev', s, n, pending)
  /\ UNCHANGED pane

-----------------------------------------------------------------------------
(* Keys that move the selections. *)

\* A command without arguments that the editor resolves by itself (bindSelection).
Moves(command) ==
  /\ Presents(text, navigateSelection(model(text), PointPane, viewOf(sel, nav), command, NoArguments, NoPairs).sel,
              nav, NoPending)
  /\ UNCHANGED <<gesture, register>>

\* A motion by visual rows, resolved by the presenter on the frame it shows.
awaiting(expected, after) == IF expected = sel THEN NoPending ELSE [sel |-> expected, nav |-> navOf(after)]
MovedInFrame(after) == Presents(text, after.sel, nav, awaiting(after.sel, after))
MovesVertically(command) ==
  /\ MovedInFrame(navigateSelection(model(text), pane, viewOf(sel, nav), command, NoArguments, NoPairs))
  /\ UNCHANGED <<gesture, register>>

RevealsCaret(command) ==
  /\ Presents(text, sel, navOf(navigateSelection(model(text), pane, viewOf(sel, nav), command, NoArguments, NoPairs)),
              NoPending)
  /\ UNCHANGED <<gesture, register>>

-----------------------------------------------------------------------------
(* The wheel, the page keys and the scrollbar. *)

ScrollsTo(row) ==
  /\ Presents(text, sel, [nav EXCEPT !.firstRow = row], NoPending)
  /\ UNCHANGED <<gesture, register>>

ScrollsByLines(delta) == ScrollsTo(byLines(nav.firstRow, delta, displayed(text, nav).total, pane.rows))
ScrollsByPages(pages) == ScrollsTo(byPages(nav.firstRow, pages, displayed(text, nav).total, pane.rows))

\* A press or drag on the scrollbar holds the thumb where it was grabbed.
scrollbarGrabOffset(at, start, size) == IF at >= start /\ at < start + size THEN at - start ELSE size \div 2

gutterFraction(at, grab, travel) ==
  IF travel <= 0 THEN [numerator |-> 0, denominator |-> 1]
  ELSE [numerator |-> Clamped(at - grab, 0, travel), denominator |-> travel]

rowAtFraction(fraction, total) == toFraction(fraction.numerator, fraction.denominator, total, pane.rows)
rowGrabbed(shown, pressed, at) ==
  rowAtFraction(gutterFraction(at, scrollbarGrabOffset(pressed, shown.bar.thumbStart, shown.bar.thumbSize),
                               pane.rows - shown.bar.thumbSize), shown.total)
ScrollsBar(pressed, at) == ScrollsTo(rowGrabbed(displayed(text, nav), pressed, at))

-----------------------------------------------------------------------------
(* The mouse.  A cell past the end of a row answers with the end of the    *)
(* row, and a row below the text with the last one.                        *)

hitIn(shown, row, hits) ==
  IF hits # <<>> THEN hits[1].byte ELSE editableOffset(shown, Least(row, Len(shown.rows) - 1))
editorHit(shown, row, column) ==
  hitIn(shown, row, SelectSeq(shown.targets, LAMBDA t : t.row = row /\ t.column = column))
pointedAt(row, column) == resolve(model(text), editorHit(displayed(text, nav), row, column))

\* What the selection commands of the router answer; they know no pane.
routed(command, arguments) ==
  navigateSelection(model(text), PointPane, viewOf(sel, nav), command, arguments, NoPairs).sel
Selecting(selections) == [NoArguments EXCEPT !.selections = selections]
Pointing(at) == [NoArguments EXCEPT !.position = at]

accepted == validSelections(model(text), sel)

\* A press: a caret, with Alt one more, or one less where one is already.
HitsSelection(s, at) ==
  IF isCaret(s) THEN at.byte = lower(s).byte ELSE lower(s).byte <= at.byte /\ at.byte < upper(s).byte
PressesOn(at, additive, taken, hits) ==
  /\ Presents(text, routed(IF taken THEN "SelectSetRanges" ELSE IF additive THEN "SelectAddRange" ELSE "CursorSetPosition",
                           IF taken THEN Selecting(RemoveAt(sel, Min(hits)))
                           ELSE IF additive THEN Selecting(<<Caret(at)>>) ELSE Pointing(at)), nav, NoPending)
  /\ gesture' = IF taken \/ ~accepted \/ at = NoPosition THEN NoGesture
                ELSE [rev |-> rev, anchor |-> at, additive |-> additive, baseline |-> IF additive THEN sel ELSE <<>>]
  /\ UNCHANGED register
PressesAmong(at, additive, hits) == PressesOn(at, additive, additive /\ Len(sel) > 1 /\ hits # {}, hits)
PressesAt(at, additive) == PressesAmong(at, additive, {k \in DOMAIN sel : HitsSelection(sel[k], at)})
Presses(row, column, additive) == PressesAt(pointedAt(row, column), additive)

DoubleClicks(row, column) ==
  /\ Presents(text, routed("SelectWordAtPosition", Pointing(pointedAt(row, column))), nav, NoPending)
  /\ gesture' = NoGesture
  /\ UNCHANGED register

\* The selection a drag spans from where it began.
spannedBy(range) ==
  routed(IF gesture.additive THEN "SelectSetRanges" ELSE "SelectSetRange",
         Selecting(IF gesture.additive THEN Append(gesture.baseline, range) ELSE <<range>>))
spanned(to) == spannedBy([anchor |-> gesture.anchor, active |-> to])

\* A drag over a document that has changed since is refused and ends.
current == gesture.rev = rev /\ accepted
GestureGoesOn ==
  /\ gesture # NoGesture
  /\ gesture' = IF current THEN gesture ELSE NoGesture
  /\ UNCHANGED register

Drags(row, column) ==
  /\ GestureGoesOn
  /\ Presents(text, IF current THEN spanned(pointedAt(row, column)) ELSE sel, nav, NoPending)

\* Beyond an edge of the pane the primary selection grows by a row, and the pane with it.
DraggedInFrame(after) ==
  IF current
    THEN Presents(text, spanned(primary(after.sel).active), nav,
                  awaiting(SelectionSet(Append(Front(sel), primary(after.sel))), after))
    ELSE Presents(text, sel, nav, NoPending)
DragsPastEdge(down) ==
  /\ GestureGoesOn
  /\ DraggedInFrame(navigateSelection(model(text), pane, viewOf(<<primary(sel)>>, nav),
                                      IF down THEN "SelectLineDown" ELSE "SelectLineUp", NoArguments, NoPairs))

Releases ==
  /\ gesture # NoGesture
  /\ gesture' = NoGesture
  /\ UNCHANGED <<text, rev, sel, nav, register, pane>>

-----------------------------------------------------------------------------
(* Changes of the document.  A pane of a live difference refuses them.     *)

Editable == ~HasDiff(pane) /\ rev < MaxEdits

\* An accepted edit, with its selections taken down to the new text's boundaries.
Applies(outcome) ==
  /\ Editable /\ ~outcome.refused
  /\ Presents(outcome.text, clampSelectionsToActiveDocument(model(outcome.text), outcome.sel), nav, NoPending)
  /\ UNCHANGED gesture

Edits(command) ==
  /\ Applies(applyEditCommand(model(text), sel, command))
  /\ UNCHANGED register

Types(command, typed) ==
  /\ Applies(applyTextInput(model(text), sel, command, typed))
  /\ UNCHANGED register

Copies ==
  /\ accepted
  /\ register' = captured(text, sel)
  /\ UNCHANGED <<text, rev, sel, nav, gesture, pane>>

\* The carets of a cut or a paste are not taken down: they are on the text.
Leaves(outcome) ==
  /\ Editable /\ ~outcome.refused
  /\ Presents(outcome.text, outcome.sel, nav, NoPending)
  /\ UNCHANGED gesture

Cuts ==
  /\ Leaves(cut(model(text), sel))
  /\ register' = captured(text, sel)

Pastes ==
  /\ Leaves(paste(model(text), sel, register))
  /\ UNCHANGED register

\* Another program wrote the file of a clean document; the selections stay as they are.
AdoptsChange(t) ==
  /\ Editable /\ t # text
  /\ Presents(t, sel, nav, NoPending)
  /\ UNCHANGED <<gesture, register>>

-----------------------------------------------------------------------------
\* The user has opened the text and selected a part of it, or placed the caret.
Init ==
  /\ inputs = 0
  /\ rev = 0
  /\ \E opened \in Texts :
       /\ text = opened.text /\ pane = opened.pane
       /\ LET m == model(opened.text)
              positions == UNION {ToSet(m.lines[l].bounds) : l \in DOMAIN m.lines}
              top == [firstRow |-> 0, firstColumn |-> 0, desired |-> None]
          IN \E anchor, active \in positions :
               /\ sel = <<[anchor |-> anchor, active |-> active]>>
               /\ nav = navOf(navigateSelection(m, opened.pane, viewOf(sel, top), "ViewRevealCaret", NoArguments, NoPairs))
  /\ gesture = NoGesture
  /\ register = <<>>

MovesSelections ==
  \/ \E command \in CursorMotions \cup SelectMotions \cup WholeText \cup Spreads \cup Brackets : Moves(command)
  \/ \E command \in CursorVerticals \cup SelectVerticals : MovesVertically(command)

Scrolls ==
  \/ \E command \in Reveals : RevealsCaret(command)
  \/ \E delta \in {-1, 1} : ScrollsByLines(delta) \/ ScrollsByPages(delta)
  \/ \E pressed, at \in 0..(pane.rows - 1) : ScrollsBar(pressed, at)

Points ==
  \/ \E row \in 0..(pane.rows - 1), column \in 0..(pane.columns - 1) :
       \/ \E additive \in BOOLEAN : Presses(row, column, additive)
       \/ DoubleClicks(row, column)
       \/ Drags(row, column)
  \/ \E down \in BOOLEAN : DragsPastEdge(down)
  \/ Releases

Changes ==
  \/ \E command \in LineCommandNames \cup CaseCommandNames \cup {"Transpose"} : Edits(command)
  \/ \E command \in TextInputNames, typed \in Typed : Types(command, typed)
  \/ Copies \/ Cuts \/ Pastes
  \/ \E t \in Replacements : AdoptsChange(t)

Next ==
  /\ inputs < MaxInputs /\ inputs' = inputs + 1
  /\ MovesSelections \/ Scrolls \/ Points \/ Changes

Spec == Init /\ [][Next]_vars

-----------------------------------------------------------------------------
(* Properties. *)

Positions == [byte : 0..MaxLength, line : 0..MaxLength, cell : 0..(TabWidth * MaxLength)]
AreSelections(s) == /\ s # <<>>
                    /\ \A k \in DOMAIN s : {s[k].anchor, s[k].active} \subseteq Positions
                    /\ \A k \in 1..(Len(s) - 1) : upper(s[k]).byte <= lower(s[k + 1]).byte

\* The variables have their types, and the selections are in order and apart, as
\* SelectionSet leaves them.
TypeOK ==
  /\ Len(text) <= MaxLength /\ rev \in 0..MaxEdits
  /\ Len(sel) <= MaxSelections /\ AreSelections(sel)
  /\ nav.firstRow \in 0..(MaxLength * TabWidth) /\ nav.firstColumn \in 0..(MaxLength * TabWidth)
  /\ nav.desired \in {None} \cup 0..(MaxLength * TabWidth)
  /\ gesture # NoGesture => gesture.rev <= rev

OnText(t, s) == validSelections(model(t), s)

contentsOf(t) == [k \in DOMAIN linesOf(t) |-> content(t, linesOf(t)[k])]
Times(lines, line) == Cardinality({k \in DOMAIN lines : lines[k] = line})
Reorders(before, after) ==
  Len(after) = Len(before) /\ \A line \in ToSet(before) : Times(after, line) = Times(before, line)
Filled(lines) == SelectSeq(lines, LAMBDA line : line # <<>>)
LeavesOthers(others, after) == Filled(after) = Filled(others) /\ Len(after) - Len(others) \in {0, 1}
Untouched == SelectSeq(Numbers(1, Len(linesOf(text))), LAMBDA l : l \notin ToSet(touchedLines(sel, linesOf(text))))
IsTakenBack(outcome) ==
  outcome.refused \/ applyEditCommand(model(outcome.text), outcome.sel, "Outdent").text = text
IsReordered(outcome) == outcome.refused \/ Reorders(contentsOf(text), contentsOf(outcome.text))
LeavesUntouched(outcome) ==
  outcome.refused \/ LeavesOthers(Each(Untouched, LAMBDA l : content(text, linesOf(text)[l])), contentsOf(outcome.text))

\* Whatever is selected, moving or sorting lines only orders them anew, deleting them
\* leaves the others, and an indentation is taken back by the command for it: none of
\* them joins two lines or loses the end of the last one (EditCommands.cpp:284-403).
LineCommandsKeepLines ==
  OnText(text, sel) =>
    /\ \A command \in {"MoveLineUp", "MoveLineDown", "SortLines"} : IsReordered(applyEditCommand(model(text), sel, command))
    /\ LeavesUntouched(applyEditCommand(model(text), sel, "DeleteLine"))
    /\ IsTakenBack(applyEditCommand(model(text), sel, "Indent"))

\* The pane shows the row and the cell of the primary caret.
ShowsCaret(shown, p) ==
  \E k \in DOMAIN shown.rows :
    /\ shown.projection = <<>> \/ shown.projection[k].real
    /\ shown.rows[k].line = p.line /\ p.byte <= shown.rows[k].end
    /\ ~pane.wrap \/ p.cell >= shown.rows[k].startCell
CaretShown(t, s, n) ==
  /\ ShowsCaret(displayed(t, n), primary(s).active)
  /\ ~pane.wrap => primary(s).active.cell \in n.firstColumn..(n.firstColumn + pane.columns - 1)

\* Whatever moved the caret or changed the text, the frame that follows shows the caret;
\* a drag that adds to other selections shows the place it has reached instead.
ChangesShowTheCaret ==
  [][(sel' # sel \/ text' # text) /\ OnText(text', sel') /\ ~gesture.additive => CaretShown(text', sel', nav')]_vars

\* The clusters of a line are those of Unicode's rules (GraphemeLayout.cpp).
LinesClusterByUnicode == \A line \in Clustered : ClustersFollowUnicode(line)

CellAnswers(rows, first, row, t, p) ==
  /\ p # NoPosition /\ p.line = t.line
  /\ visualRow(pane, rows, p) = first + t.row
  /\ HasDiff(pane) \/ visualColumn(pane, rows, p) = t.cell - IF pane.wrap THEN row.startCell ELSE 0
CellsAnswer(m, shown, rows) ==
  \A k \in DOMAIN shown.targets :
    \/ shown.targets[k].ghost
    \/ CellAnswers(rows, shown.first, shown.rows[shown.targets[k].row + 1], shown.targets[k],
                   resolve(m, shown.targets[k].byte))

\* Every cell the pane shows answers a click with an offset that the editor accepts, and
\* that the keys that move by rows take to be in the row and column of that cell.
CellsAnswerTheirText ==
  TypeOK /\ LinesClusterByUnicode /\ CellsAnswer(model(text), displayed(text, nav), paneRows(model(text), pane))
=============================================================================
