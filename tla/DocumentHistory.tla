--------------------------- MODULE DocumentHistory ---------------------------
(***************************************************************************)
(* A document, its undo history and the commands that edit it through      *)
(* several selections (src/Document.cpp, src/DocumentHistory.cpp,          *)
(* src/TextInputCommands.cpp, src/ClipboardRegister.cpp, src/editing.cpp). *)
(*                                                                         *)
(* A text is a sequence of letters, each a grapheme of one byte, with      *)
(* Newline for a line's end; a selection has no direction.  The editor     *)
(* passes 0 for every time, so the coalescing window never closes.         *)
(***************************************************************************)
EXTENDS Integers, Sequences, FiniteSets, SequencesExt

CONSTANTS
    Letters, Newline,
    InitialTexts,
    Commands,       \* the commands the user may give
    ByteBudget,     \* SettingKey::UndoByteBudget
    SelectionBytes, \* sizeof(Selection)
    MaxRevision,    \* the largest revision
    MaxLength,      \* bound: text a command may leave
    MaxEdits,       \* bound: changes but for undo and redo
    MaxMoves        \* bound: selections made and texts copied

TextInput == {"Insert", "DeleteBackward", "DeleteForward",
              "DeleteWordBackward", "DeleteWordForward"}

ASSUME HistoryAssumption ==
    /\ Newline \in Letters
    /\ InitialTexts \subseteq Seq(Letters)
    /\ Commands \subseteq TextInput \cup {"Copy", "Cut", "Paste", "ReplaceAll"}
    /\ ByteBudget \in Nat /\ SelectionBytes \in Nat
    /\ MaxRevision \in Nat \ {0} /\ MaxLength \in Nat
    /\ MaxEdits \in Nat /\ MaxMoves \in Nat

VARIABLES
    text, revision, \* of the document
    selections,     \* of the editor
    register,       \* RegisterData::fragments
    undo, redo,     \* units, the newest last
    expected,       \* expectedRevision, NoRevision at first
    retained,       \* bytes charged for the units
    barrier,        \* the next edit starts a unit
    refused,        \* the last command was refused by the document
    made, moves

documentVars == <<text, revision>>
historyVars == <<undo, redo, expected, retained, barrier>>
vars == <<documentVars, selections, register, historyVars, refused, made, moves>>

NoRevision == 0

Plus(a, b) == a + b
Total(numbers) == FoldLeft(Plus, 0, numbers)

\* A selection runs from lo to hi; a set of them is disjoint, but may touch.
Selections(t) == {s \in [lo : 0..Len(t), hi : 0..Len(t)] : s.lo <= s.hi}
IsCaret(s) == s.lo = s.hi
Caret(at) == [lo |-> at, hi |-> at]
Before(s, other) == s.lo < other.lo \/ (s.lo = other.lo /\ s.hi < other.hi)
InOrder(S) == SetToSortSeq(S, Before)
Disjoint(S) ==
    \A s, other \in S : s # other => s.hi <= other.lo \/ other.hi <= s.lo
Valid(t, S) == S \subseteq Selections(t)

-----------------------------------------------------------------------------
(* Documents.  An edit erases letters from an offset on and inserts others *)
(* there; the edits of a transaction are in order.                         *)

Edit(at, erased, inserted) == [at |-> at, erased |-> erased, inserted |-> inserted]
End(e) == e.at + e.erased
Growth(e) == Len(e.inserted) - e.erased
Sizes(edits) == [i \in DOMAIN edits |-> Growth(edits[i])]
GrowthBefore(edits, i) == Total(SubSeq(Sizes(edits), 1, i - 1))

Slice(t, from, to) == SubSeq(t, from + 1, to)
Spliced(e, t) == Slice(t, 0, e.at) \o e.inserted \o Slice(t, End(e), Len(t))

\* From the last edit to the first, so that offsets stay good.
Applied(t, edits) == FoldRight(Spliced, edits, t)

Acceptable(t, edits) ==
    /\ edits # <<>>
    /\ \A i \in DOMAIN edits :
         /\ edits[i].erased > 0 \/ edits[i].inserted # <<>>
         /\ End(edits[i]) <= Len(t)
    /\ \A i \in DOMAIN edits \ {1} :
         /\ edits[i].at # edits[i - 1].at
         /\ edits[i].at >= End(edits[i - 1])

-----------------------------------------------------------------------------
(* The history.                                                            *)

\* Mutant: offsets of the text before the edits.
RevertingUnshifted(t, edits) ==
    [i \in DOMAIN edits |->
       Edit(edits[i].at, Len(edits[i].inserted), Slice(t, edits[i].at, End(edits[i])))]

\* What takes the text back, in the offsets of the text after the edits.
Reverting(t, edits) ==
    [i \in DOMAIN edits |->
       Edit(edits[i].at + GrowthBefore(edits, i), Len(edits[i].inserted),
            Slice(t, edits[i].at, End(edits[i])))]

Step(t, edits) == [forward |-> edits, inverse |-> Reverting(t, edits)]

PayloadBytes(edits) ==
    Total([i \in DOMAIN edits |-> Len(edits[i].inserted) + edits[i].erased])
SelectionCharge(S) == Cardinality(S) * SelectionBytes

Kinds == {"Typing", "DeleteBackward", "DeleteForward", "Other"}
KindOf(command) ==
    CASE command = "Insert" -> "Typing"
      [] command \in {"DeleteBackward", "DeleteWordBackward"} -> "DeleteBackward"
      [] command \in {"DeleteForward", "DeleteWordForward"} -> "DeleteForward"
      [] OTHER -> "Other"

\* One edit at each caret, of the kind's shape.
ShapeMatches(edits, S, kind) ==
    /\ kind # "Other"
    /\ \A s \in S : IsCaret(s)
    /\ Len(edits) = Cardinality(S)
    /\ \A i \in DOMAIN edits :
         LET e == edits[i]
             caret == InOrder(S)[i].lo
         IN CASE kind = "Typing" ->
                   e.erased = 0 /\ e.inserted # <<>> /\ e.at = caret
              [] kind = "DeleteBackward" ->
                   e.inserted = <<>> /\ e.erased > 0 /\ End(e) = caret
              [] kind = "DeleteForward" ->
                   e.inserted = <<>> /\ e.erased > 0 /\ e.at = caret

Charges(units) == [i \in DOMAIN units |-> units[i].charge]

\* The oldest units go until the rest fits.
WithinBudget(units, bytes) ==
    LET kept == {u \in Suffixes(units) :
                   bytes - Total(Charges(units)) + Total(Charges(u)) <= ByteBudget}
    IN IF kept = {} THEN <<>>
       ELSE CHOOSE u \in kept : \A other \in kept : Len(other) <= Len(u)

Coalesces(unit, open, kind) ==
    /\ ~barrier
    /\ unit.open /\ open
    /\ unit.kind = kind
    /\ unit.after = selections

\* DocumentHistory::applyEdit.  A change that bypassed the history has made the
\* units' offsets void; what was undone cannot be redone after an edit.
Record(edits, after, kind, seal) ==
    LET bypassed == expected # NoRevision /\ expected # revision
        known == IF bypassed THEN <<>> ELSE undo
        bytes == IF bypassed THEN 0 ELSE retained - Total(Charges(redo))
        step == Step(text, edits)
        open == ShapeMatches(edits, selections, kind)
        unit == [steps |-> <<step>>, before |-> selections, after |-> after,
                 kind |-> kind, open |-> open,
                 charge |-> PayloadBytes(edits) + SelectionCharge(selections)
                              + SelectionCharge(after),
                 from |-> text, to |-> text']
        continued == [Last(known) EXCEPT
                        !.steps = Append(@, step), !.after = after, !.to = text',
                        !.charge = @ + PayloadBytes(edits)]
        joins == known # <<>> /\ Coalesces(Last(known), open, kind)
        units == IF joins THEN Append(Front(known), continued)
                          ELSE Append(known, unit)
        added == IF joins THEN PayloadBytes(edits) ELSE unit.charge
    IN /\ undo' = WithinBudget(units, bytes + added)
       /\ retained' = bytes + added - Total(Charges(units)) + Total(Charges(undo'))
       /\ redo' = <<>>
       /\ expected' = revision'
       /\ barrier' = seal

Accepted(edits) == Acceptable(text, edits) /\ revision < MaxRevision

\* A selection whose ends the text still has.
Clamped(S, t) ==
    {[lo |-> Min({s.lo, Len(t)}), hi |-> Min({s.hi, Len(t)})] : s \in S}

\* An edit as the commands make it: all of it, or refused by the document.
Perform(edits, after, kind, seal) ==
    /\ made < MaxEdits /\ made' = made + 1
    /\ Len(Applied(text, edits)) <= MaxLength
    /\ UNCHANGED moves
    /\ IF Accepted(edits)
       THEN /\ text' = Applied(text, edits)
            /\ revision' = revision + 1
            /\ Record(edits, after, kind, seal)
            /\ selections' = Clamped(after, text')
            /\ refused' = FALSE
       ELSE /\ refused' = TRUE
            /\ UNCHANGED <<documentVars, historyVars, selections>>

\* The texts on the way back, or forth, until a step is refused.
Replay(stepEdits) ==
    FoldLeft(LAMBDA seen, edits :
               IF seen.stuck \/ ~Acceptable(seen.text, edits)
               THEN [seen EXCEPT !.stuck = TRUE]
               ELSE [seen EXCEPT !.text = Applied(@, edits), !.steps = @ + 1],
             [text |-> text, steps |-> 0, stuck |-> FALSE], stepEdits)

\* Each step of the unit is a transaction of its own.  When one is refused, those
\* before it stay done, and the history is left as it was.
Travel(unit, stepEdits, view) ==
    LET replay == Replay(stepEdits) IN
    /\ expected = revision
    /\ Len(unit.steps) <= MaxRevision - revision
    /\ text' = replay.text
    /\ revision' = revision + replay.steps
    /\ refused' = replay.stuck
    /\ UNCHANGED <<register, retained, made, moves>>
    /\ IF replay.stuck
       THEN UNCHANGED <<undo, redo, expected, barrier, selections>>
       ELSE /\ expected' = revision'
            /\ barrier' = TRUE
            /\ selections' = Clamped(view, text')

Undo ==
    /\ undo # <<>>
    /\ LET unit == Last(undo) IN
       /\ Travel(unit, Reverse([i \in DOMAIN unit.steps |-> unit.steps[i].inverse]),
                 unit.before)
       /\ ~refused' => undo' = Front(undo) /\ redo' = Append(redo, unit)

Redo ==
    /\ redo # <<>>
    /\ LET unit == Last(redo) IN
       /\ Travel(unit, [i \in DOMAIN unit.steps |-> unit.steps[i].forward],
                 unit.after)
       /\ ~refused' => redo' = Front(redo) /\ undo' = Append(undo, unit)

-----------------------------------------------------------------------------
(* Typing and deleting through several selections.                         *)

\* Line feeds and the rest are the two kinds of letters a word is made of.
SameWord(t, i, j) == (t[i] = Newline) = (t[j] = Newline)
WordLeft(t, at) ==
    IF at = 0 THEN 0
    ELSE Min({i \in 0..(at - 1) : \A j \in (i + 1)..at : SameWord(t, j, at)})
WordRight(t, at) ==
    IF at = Len(t) THEN at
    ELSE Max({i \in (at + 1)..Len(t) : \A j \in (at + 1)..i : SameWord(t, j, at + 1)})

\* What a command does at one selection.
Target(command, s) ==
    IF command = "Insert" \/ ~IsCaret(s) THEN s
    ELSE CASE command = "DeleteBackward" -> [s EXCEPT !.lo = Max({@ - 1, 0})]
           [] command = "DeleteForward" -> [s EXCEPT !.hi = Min({@ + 1, Len(text)})]
           [] command = "DeleteWordBackward" -> [s EXCEPT !.lo = WordLeft(text, @)]
           [] command = "DeleteWordForward" -> [s EXCEPT !.hi = WordRight(text, @)]

Covering(s, inserted) == Edit(s.lo, s.hi - s.lo, inserted)

\* normalizeEdits: an edit that overlaps the one before, or starts with it, is
\* joined to it when both only delete, replaces it when it reaches further, or goes.
Normalized(edits) ==
    FoldLeft(LAMBDA done, e :
               LET back == Last(done) IN
               IF done = <<>> \/ (e.at >= End(back) /\ e.at # back.at)
               THEN Append(done, e)
               ELSE IF e.inserted = <<>> /\ back.inserted = <<>>
               THEN Append(Front(done), Edit(back.at, Max({End(back), End(e)}) - back.at, <<>>))
               ELSE IF e.at = back.at /\ End(e) > End(back)
               THEN Append(Front(done), e)
               ELSE done,
             <<>>, edits)

\* Where an edit's insertion ends, in the text after the edits.
Behind(edits, i) == edits[i].at + GrowthBefore(edits, i) + Len(edits[i].inserted)

\* Where an offset of the text is after the edits; at an edit, behind it.
Mapped(edits, at) ==
    LET touching == {i \in DOMAIN edits : edits[i].at <= at /\ at <= End(edits[i])}
        passed == {i \in DOMAIN edits : End(edits[i]) < at}
    IN IF touching # {} THEN Behind(edits, Min(touching))
       ELSE at + GrowthBefore(edits, Cardinality(passed) + 1)

\* An insertion puts the caret behind its own edit, if that is among them.
CaretAfter(command, edits, s, inserted) ==
    LET own == {i \in DOMAIN edits : edits[i] = Covering(s, inserted)} IN
    Caret(IF command = "Insert" /\ own # {} THEN Behind(edits, Min(own))
          ELSE Mapped(edits, Target(command, s).lo))

Effective(edits) == SelectSeq(edits, LAMBDA e : e.erased > 0 \/ e.inserted # <<>>)

\* Typing a line's end closes the unit, so that undo goes by words.
ApplyText(command, inserted) ==
    LET order == InOrder({Target(command, s) : s \in selections})
        edits == Normalized(Effective(
                   [i \in DOMAIN order |-> Covering(order[i], inserted)]))
    IN /\ command \in Commands \cap TextInput
       /\ Valid(text, selections)
       /\ edits # <<>>
       /\ Perform(edits, {CaretAfter(command, edits, s, inserted) : s \in selections},
                  KindOf(command), inserted = <<Newline>>)
       /\ UNCHANGED register

Insert(letter) == ApplyText("Insert", <<letter>>)
Delete(command) == ApplyText(command, <<>>)

-----------------------------------------------------------------------------
(* The clipboard's register and replacing matches.                         *)

\* A caret stands for its line, with the line's end.
LineRange(at) ==
    LET after == {i \in (at + 1)..Len(text) : text[i] = Newline} IN
    [lo |-> Max({0} \cup {i \in 1..at : text[i] = Newline}),
     hi |-> IF after = {} THEN Len(text) ELSE Min(after)]
SelectionRange(s) == IF IsCaret(s) THEN LineRange(s.lo) ELSE s

Captured ==
    [i \in DOMAIN InOrder(selections) |->
       LET range == SelectionRange(InOrder(selections)[i]) IN
       Slice(text, range.lo, range.hi)]

\* mergedCutRanges: ranges that overlap or touch are cut as one.
CutEdits ==
    LET ranges == {SelectionRange(s) : s \in selections}
        filled == InOrder({r \in ranges : ~IsCaret(r)})
    IN FoldLeft(LAMBDA done, r :
                  LET back == Last(done) IN
                  IF done # <<>> /\ r.lo <= End(back)
                  THEN Append(Front(done), Edit(back.at, Max({End(back), r.hi}) - back.at, <<>>))
                  ELSE Append(done, Covering(r, <<>>)),
                <<>>, filled)

Copy ==
    /\ "Copy" \in Commands
    /\ moves < MaxMoves /\ moves' = moves + 1
    /\ Valid(text, selections)
    /\ register' = Captured
    /\ UNCHANGED <<documentVars, selections, historyVars, refused, made>>

Cut ==
    /\ "Cut" \in Commands
    /\ Valid(text, selections)
    /\ IF CutEdits = <<>>
       THEN /\ refused' = FALSE
            /\ UNCHANGED <<documentVars, selections, historyVars, made, moves>>
       ELSE Perform(CutEdits, {Caret(Behind(CutEdits, i)) : i \in DOMAIN CutEdits},
                    "Other", FALSE)
    /\ register' = IF refused' THEN register ELSE Captured

\* One fragment for each selection, or all of them at each.
Paste ==
    LET order == InOrder(selections)
        distribute == Len(register) = Len(order)
        edits == [i \in DOMAIN order |->
                    Covering(order[i], IF distribute THEN register[i]
                                       ELSE FlattenSeq(register))]
    IN /\ "Paste" \in Commands
       /\ Valid(text, selections)
       /\ register # <<>>
       /\ Applied(text, edits) # text
       /\ Perform(edits, {Caret(Behind(edits, i)) : i \in DOMAIN edits}, "Other", FALSE)
       /\ UNCHANGED register

\* All matches of a pattern of one letter; the selections stay where the text
\* allows it.
ReplaceMatches(letter, replacement) ==
    LET matches == SelectSeq([i \in DOMAIN text |-> i], LAMBDA i : text[i] = letter)
        edits == [i \in DOMAIN matches |-> Edit(matches[i] - 1, 1, replacement)]
    IN /\ "ReplaceAll" \in Commands
       /\ matches # <<>>
       /\ Perform(edits, selections, "Other", FALSE)
       /\ UNCHANGED register

-----------------------------------------------------------------------------
(* What the history hears of, or does not.                                 *)

\* Moving carets ends the run of edits that is undone as one.
Select(S) ==
    /\ moves < MaxMoves
    /\ Disjoint(S)
    /\ selections' = S
    /\ barrier' = TRUE
    /\ moves' = moves + 1
    /\ UNCHANGED <<documentVars, register, undo, redo, expected, retained, refused, made>>

\* Document::replace, on a reload or the adoption of a file that changed; only the
\* command to reload sets the caret to the start.
Bypass(t, reset) ==
    /\ made < MaxEdits /\ made' = made + 1
    /\ revision < MaxRevision
    /\ text' = t
    /\ revision' = revision + 1
    /\ selections' = IF reset THEN {Caret(0)} ELSE selections
    /\ refused' = FALSE
    /\ UNCHANGED <<register, historyVars, moves>>

Init ==
    /\ text \in InitialTexts
    /\ revision = 1
    /\ selections = {Caret(0)}
    /\ register = <<>>
    /\ undo = <<>> /\ redo = <<>>
    /\ expected = NoRevision
    /\ retained = 0
    /\ barrier = TRUE
    /\ refused = FALSE
    /\ made = 0 /\ moves = 0

Next ==
    \/ \E letter \in Letters : Insert(letter)
    \/ \E command \in TextInput \ {"Insert"} : Delete(command)
    \/ Copy \/ Cut \/ Paste
    \/ \E letter \in Letters, replacement \in {<<>>} \cup {<<l>> : l \in Letters} :
         ReplaceMatches(letter, replacement)
    \/ Undo \/ Redo
    \/ \E s, other \in Selections(text) : Select({s, other})
    \/ \E t \in InitialTexts, reset \in BOOLEAN : Bypass(t, reset)

Spec == Init /\ [][Next]_vars

-----------------------------------------------------------------------------
(* Properties.                                                             *)

EditsType == Seq([at : Nat, erased : Nat, inserted : Seq(Letters)])
SelectionsType == SUBSET [lo : Nat, hi : Nat]
UnitType ==
    [steps : Seq([forward : EditsType, inverse : EditsType]),
     before : SelectionsType, after : SelectionsType, kind : Kinds,
     open : BOOLEAN, charge : Nat, from : Seq(Letters), to : Seq(Letters)]

\* Types; revisions stay within their width, and what is retained is what the
\* units are charged, within the budget (enforceBudget, clearRedo).
TypeOK ==
    /\ text \in Seq(Letters) /\ Len(text) <= MaxLength
    /\ revision \in 1..MaxRevision
    /\ selections \in SelectionsType /\ selections # {}
    /\ register \in Seq(Seq(Letters))
    /\ undo \in Seq(UnitType) /\ redo \in Seq(UnitType)
    /\ expected \in NoRevision..revision
    /\ retained = Total(Charges(undo)) + Total(Charges(redo))
    /\ retained <= ByteBudget
    /\ barrier \in BOOLEAN /\ refused \in BOOLEAN
    /\ made \in 0..MaxEdits /\ moves \in 0..MaxMoves

Changes(units) ==
    [i \in DOMAIN units |->
       [before |-> [text |-> units[i].from,
                    selections |-> Clamped(units[i].before, units[i].from)],
        after |-> [text |-> units[i].to,
                   selections |-> Clamped(units[i].after, units[i].to)]]]
Remembered(units) == IF expected = revision THEN Changes(units) ELSE <<>>

History == INSTANCE EditHistory WITH
    Texts <- InitialTexts,
    selections <- Clamped(selections, text),
    past <- Remembered(undo),
    future <- Remembered(redo)

\* Whatever was edited, merged into one unit, evicted, bypassed, undone and redone
\* before: an undo returns exactly the text and the selections from before its
\* unit, a redo those from after it; and the units kept stay within the budget.
ImplementsEditHistory == []TypeOK /\ History!Spec
=============================================================================
