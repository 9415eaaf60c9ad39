----------------------------- MODULE FindReplace -----------------------------
(***************************************************************************)
(* The find bar (FindReplaceController in FindReplace.cpp) and what the    *)
(* editor does with it (Editor.cpp): it is opened over one document and    *)
(* keeps the matches of its text while the document is edited, replaced    *)
(* by another program's content, or left for another one, and while        *)
(* another prompt takes the place of its own.                              *)
(*                                                                         *)
(* Every operation of the editor ends with reconcileFindDocument, so an    *)
(* action is an operation with it.  A primary selection is [begin, end];   *)
(* further selections, the history and live diffs are left out.            *)
(***************************************************************************)
EXTENDS FindMatching

CONSTANTS Documents,     \* the documents with a tab, and the text each opens with
          Queries,       \* what is typed into the query
          Replacements,  \* what is typed into the replacement
          Inserted,      \* what an edit or another program puts into a document
          Ranges,        \* what the user selects
          Patterns,      \* queries compared with what they mean,
          Searched,      \* in these texts
          Budget,        \* the work budget of a search
          MaxRevision,   \* bound on the revision of a document
          MaxLength      \* bound on its length

VARIABLES files,      \* the documents [text, rev]
          active,     \* the document of the active tab
          range,      \* the primary selection
          bar,        \* the find controller
          prompt,     \* the prompt shown: None, Find, Replace or another one
          findId      \* findDocumentId: the document the bar belongs to, or NoDocument

vars == <<files, active, range, bar, prompt, findId>>

NoDocument == "no document"
NoOptions == [caseSensitive |-> FALSE, wholeWord |-> FALSE, regex |-> FALSE, selectionOnly |-> FALSE]
ClosedBar == [open |-> FALSE, replaceMode |-> FALSE, query |-> <<>>, options |-> NoOptions, selection |-> <<>>,
              replacement |-> <<>>, matches |-> <<>>, active |-> None, error |-> "None", source |-> 0]

text == files[active].text
findSelectionRange == IF range.begin = range.end THEN <<>> ELSE <<range>>

-----------------------------------------------------------------------------
(* The controller. *)

requestOf(b) == [query |-> b.query, options |-> b.options, selection |-> b.selection, budget |-> Budget]

\* Every search makes the first match the active one.
searched(b, rev, result) ==
  [b EXCEPT !.source = rev, !.matches = result.matches, !.error = result.error,
            !.active = IF result.matches = <<>> THEN None ELSE 0]
evaluate(b, file) == searched(b, file.rev, findTextMatches(file.text, requestOf(b)))

\* A closed bar keeps its query and its options; what it searched last is not read again.
closed(b) == [ClosedBar EXCEPT !.query = b.query, !.options = b.options]
stepped(b, by) == IF b.matches = <<>> THEN b ELSE [b EXCEPT !.active = (@ + by + Len(b.matches)) % Len(b.matches)]

\* The transaction of replacing some of the matches, an empty match by nothing excepted.
editsFor(matches, replacement) == SelectSeq(matches, LAMBDA x : x.begin # x.end \/ replacement # <<>>)
replacedTo(a, t, e, replacement) == [done |-> a.done \o Slice(t, a.at, e.begin) \o replacement, at |-> e.end]
withRest(a, t) == a.done \o Slice(t, a.at, Len(t))
applied(t, edits, replacement) ==
  withRest(FoldLeft(LAMBDA a, e : replacedTo(a, t, e, replacement), [done |-> <<>>, at |-> 0], edits), t)

-----------------------------------------------------------------------------
(* The end of an operation. *)

FindPrompts == {"Find", "Replace"}
findPromptActive == bar.open /\ prompt \in FindPrompts
replacePromptActive == bar.open /\ bar.replaceMode /\ prompt = "Replace"

clamped(r, file) == [begin |-> Least(r.begin, Len(file.text)), end |-> Least(r.end, Len(file.text))]

\* The active match is selected.
revealed(b, r) == IF b.open /\ b.active # None THEN At(b.matches, b.active) ELSE r

\* Mutants: one of the two conditions forgotten.
ReconciledByTab(b, p, id) ==
  LET stale == b.open /\ active' # id
  IN /\ bar' = IF stale THEN closed(b) ELSE b
     /\ prompt' = IF stale /\ p \in FindPrompts THEN "None" ELSE p
     /\ findId' = IF stale \/ ~b.open THEN NoDocument ELSE id
ReconciledByRevision(b, p, id) ==
  LET stale == b.open /\ files'[active'].rev # b.source
  IN /\ bar' = IF stale THEN closed(b) ELSE b
     /\ prompt' = IF stale /\ p \in FindPrompts THEN "None" ELSE p
     /\ findId' = IF ~bar'.open THEN NoDocument ELSE active'

\* The bar is closed, and its prompt with it, when its document is not the active one or
\* has changed since the search.
Reconciled(b, p, id) ==
  LET stale == b.open /\ (active' # id \/ files'[active'].rev # b.source)
  IN /\ bar' = IF stale THEN closed(b) ELSE b
     /\ prompt' = IF stale /\ p \in FindPrompts THEN "None" ELSE p
     /\ findId' = IF stale \/ ~b.open THEN NoDocument ELSE id

\* An operation of the bar that leaves the documents alone.
Searches(b, p, r) ==
  /\ UNCHANGED <<files, active>>
  /\ range' = r
  /\ Reconciled(b, p, active)

-----------------------------------------------------------------------------
(* Commands of the bar. *)

SearchesAndReveals(b, p) == Searches(b, p, revealed(b, range))
asPrompt(kind, b) ==
  [b EXCEPT !.open = TRUE, !.replaceMode = (kind = "Replace"), !.replacement = IF kind = "Replace" THEN <<>> ELSE @]
Opens(kind, b) == SearchesAndReveals(evaluate(asPrompt(kind, b), files[active]), kind)

FindOpen == Opens("Find", [bar EXCEPT !.selection = findSelectionRange])
ReplaceOpen == Opens("Replace", [bar EXCEPT !.selection = findSelectionRange])

\* The word at the caret, or what is selected, is searched for literally and everywhere.
WordAt(i) == i >= 0 /\ i < Len(text) /\ isWordByte(At(text, i))
coveredText ==
  IF range.end > Len(text) THEN <<>>
  ELSE IF range.begin < range.end THEN Slice(text, range.begin, range.end)
  ELSE Slice(text, Min({i \in 0..range.begin : \A k \in i..(range.begin - 1) : WordAt(k)}),
             Max({i \in range.begin..Len(text) : \A k \in range.begin..(i - 1) : WordAt(k)}))

OpensFor(query) ==
  /\ query # <<>>
  /\ Opens("Find", [bar EXCEPT !.query = query, !.options.regex = FALSE, !.options.selectionOnly = FALSE, !.selection = <<>>])
FindWordUnderCursor == OpensFor(coveredText)

FindClose == Searches(closed(bar), IF prompt \in FindPrompts THEN "None" ELSE prompt, range)

FindStep == \E by \in {1, -1} : findPromptActive /\ SearchesAndReveals(stepped(bar, by), prompt)

\* Switching an option searches again, but selects nothing.
Toggles(b) == findPromptActive /\ Searches(evaluate(b, files[active]), prompt, range)
FindToggleCase == Toggles([bar EXCEPT !.options.caseSensitive = ~@])
FindToggleWholeWord == Toggles([bar EXCEPT !.options.wholeWord = ~@])
FindToggleRegex == Toggles([bar EXCEPT !.options.regex = ~@])
FindToggleSelection == Toggles([bar EXCEPT !.options.selectionOnly = ~@, !.selection = findSelectionRange])

\* What is typed into the query is searched for at once, within what is selected now.
UpdateFindQuery ==
  \E q \in Queries :
    /\ prompt \in FindPrompts
    /\ SearchesAndReveals(evaluate([bar EXCEPT !.query = q, !.selection = findSelectionRange], files[active]), prompt)

UpdateReplacement ==
  \E r \in Replacements : replacePromptActive /\ Searches([bar EXCEPT !.replacement = r], prompt, range)

ReplacedIn(file, found) ==
  /\ file.rev <= MaxRevision /\ Len(file.text) <= MaxLength
  /\ files' = [files EXCEPT ![active] = file]
  /\ range' = revealed(found, clamped(range, file))
  /\ UNCHANGED active
  /\ Reconciled(found, prompt, active)
BecomesFile(file) == ReplacedIn(file, evaluate(bar, file))
MakesEdits(edits) ==
  edits # <<>> /\ BecomesFile([text |-> applied(text, edits, bar.replacement), rev |-> files[active].rev + 1])
Replaces(matches) ==
  /\ replacePromptActive
  /\ files[active].rev = bar.source
  /\ bar.matches # <<>> /\ bar.error = "None"
  /\ MakesEdits(editsFor(matches, bar.replacement))

ReplaceCurrent == Replaces(<<At(bar.matches, bar.active)>>)
ReplaceMatches == Replaces(bar.matches)

-----------------------------------------------------------------------------
(* What goes on around the bar. *)

\* A click or a motion in the document.
SelectRange ==
  \E r \in Ranges :
    /\ r.end <= Len(text) /\ range' = r
    /\ UNCHANGED <<files, active>>
    /\ Reconciled(bar, prompt, findId)

\* An edit of the active document, by typing, pasting, undoing...
Edit ==
  \E new \in Inserted :
    /\ UNCHANGED active
    /\ range.end <= Len(text)
    /\ files[active].rev < MaxRevision
    /\ files' = [files EXCEPT ![active] = [rev |-> @.rev + 1,
                   text |-> Slice(text, 0, range.begin) \o new \o Slice(text, range.end, Len(text))]]
    /\ text' # text /\ Len(text') <= MaxLength
    /\ range' = [begin |-> range.begin + Len(new), end |-> range.begin + Len(new)]
    /\ Reconciled(bar, prompt, findId)

\* Another program's content is adopted by a document, shown or not (Editor::pump).  The
\* selection stays as it is, within the new text or not.
Adopt ==
  \E d \in DOMAIN files, new \in Inserted :
    /\ new # files[d].text /\ files[d].rev < MaxRevision
    /\ files' = [files EXCEPT ![d] = [text |-> new, rev |-> @.rev + 1]]
    /\ UNCHANGED <<active, range>>
    /\ Reconciled(bar, prompt, findId)

\* The tabs share one selection: its active end goes along, or a file just opened begins at its start.
SwitchTab ==
  \E d \in DOMAIN files, caret \in {0, range.begin, range.end} :
    /\ d # active /\ active' = d
    /\ range' = clamped([begin |-> caret, end |-> caret], files[d])
    /\ UNCHANGED files
    /\ Reconciled(bar, prompt, findId)

\* The palette or another prompt takes the place of the bar's, or is left.
OtherPrompt ==
  /\ UNCHANGED <<files, active, range>>
  /\ Reconciled(bar, IF prompt = "Other" THEN "None" ELSE "Other", findId)

Init ==
  /\ files = [d \in DOMAIN Documents |-> [text |-> Documents[d], rev |-> 1]]
  /\ active \in DOMAIN Documents
  /\ range = [begin |-> 0, end |-> 0]
  /\ bar = ClosedBar /\ prompt = "None" /\ findId = NoDocument

Next ==
  \/ FindOpen \/ ReplaceOpen \/ FindWordUnderCursor \/ FindClose \/ FindStep
  \/ FindToggleCase \/ FindToggleWholeWord \/ FindToggleRegex \/ FindToggleSelection
  \/ UpdateFindQuery \/ UpdateReplacement \/ ReplaceCurrent \/ ReplaceMatches
  \/ SelectRange \/ Edit \/ Adopt \/ SwitchTab \/ OtherPrompt

Spec == Init /\ [][Next]_vars

-----------------------------------------------------------------------------
(* Properties. *)

ParsedIsReadBack(pattern) == pattern.valid => PatternsReadBack(pattern.node)
SearchIsExact(within, request, pattern) ==
  MatchesAreLeftmostLongest(within, request, pattern) /\ PlainQueriesAgree(within, request)

\* The matches of a pattern are those it means: leftmost and longest; a query without
\* signs is itself; and a pattern is read as it is written (FindReplace.cpp:30-590).
PatternsMatchWhatTheyMean ==
  \A query \in Patterns :
    /\ ParsedIsReadBack(parse(query))
    /\ \A within \in Searched, options \in [caseSensitive : BOOLEAN, wholeWord : BOOLEAN, regex : {TRUE}, selectionOnly : {FALSE}] :
         SearchIsExact(within, [query |-> query, options |-> options, selection |-> <<>>, budget |-> 10000], parse(query))

\* An open bar belongs to the document shown, and its matches are those that its query
\* has in the text as it is, whatever changed it (reconcileFindDocument, pump).  What
\* a pattern means depends on no state, so it is asked of the initial states only.
MatchesDescribeTheText ==
  /\ Init => PatternsMatchWhatTheyMean
  /\ bar.open =>
       /\ findId = active
       /\ bar.matches = findTextMatches(text, requestOf(bar)).matches
       /\ (bar.active = None) = (bar.matches = <<>>)

\* Replacing changes the document shown and no other one, and leaves everything outside
\* the matches of its text as it was: what is replaced is what a new search finds.
ReplacesWhatIsThere ==
  [][(ReplaceCurrent \/ ReplaceMatches) =>
        /\ \A d \in DOMAIN files \ {active} : files'[d] = files[d]
        /\ \E found \in {findTextMatches(text, requestOf(bar)).matches} :
             \/ text' = applied(text, found, bar.replacement)
             \/ \E k \in DOMAIN found : text' = applied(text, <<found[k]>>, bar.replacement)]_vars
=============================================================================
