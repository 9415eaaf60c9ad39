----------------------------- MODULE InputFocus -----------------------------
(***************************************************************************)
(* Where the keys go.  The screen's panel, prompt and external bar         *)
(* (ScreenState.cpp, PromptSurface.cpp), the route of a key through the    *)
(* keymap (input_routing.cpp), the commands it runs (ViewCommands.cpp,     *)
(* navigation.cpp), the client's own palette (TerminalClient.cpp) and the  *)
(* frame that shows the focus (UiInteractionState.h).                      *)
(*                                                                         *)
(* The client presents a frame after each key and adopts the editor's      *)
(* state with it; the worker's batches and the editor's own changes come   *)
(* in between.  Here a frame may also come late, after several keys.       *)
(***************************************************************************)
EXTENDS Keymap, PaletteSearcher

CONSTANTS Keys,           \* what is typed: [stroke, text]
          CommandLabels,  \* candidates of the command picker: [name, label, id]
          FileLists,      \* what an index of the workspace may hold, as candidates of the file picker
          MaxActivation,  \* the largest picker activation, 2^64 - 1 in the code
          MaxQuery        \* bound on the length of a query

ASSUME InputFocusAssumption == MaxActivation \in Nat \ {0}

VARIABLES screen,         \* ScreenState with its prompt, the tree's active provider and the find state
          files,          \* fileCandidates of the editor
          client,         \* PaletteView of the terminal client
          requested,      \* presentationRequested
          shown,          \* where the frame presented last shows the focus; Nowhere: it did not fit the terminal
          running,        \* the event loop has not ended with an exception
          ran             \* observer: the last candidate run, and the activation it was listed for

vars == <<screen, files, client, requested, shown, running, ran>>

Nowhere == "nowhere"
NoPrompt == [kind |-> "None", active |-> 0, completion |-> "None"]
NoActivation == [mode |-> "None", id |-> 0]
kPanelTreeProviders == <<"filesystem", "git", "symbols", "search">>
PickerModes == [picker \in {"command", "file"} |-> IF picker = "command" THEN "Command" ELSE "File"]

-----------------------------------------------------------------------------
(* ScreenState.  Each operation returns the screen it leaves. *)

promptFocusRegion(kind) == IF kind = "Palette" THEN "Header" ELSE "Footer"

visiblePicker(s) == IF s.prompt.kind = "Palette" THEN s.picker ELSE "None"
openPickerActivation(s) == IF visiblePicker(s) = "None" THEN NoActivation ELSE s.activation

effectiveFocusOfPanel(s) ==
  IF s.prompt.kind # "None" THEN "prompt"
  ELSE IF s.external /\ s.held THEN "external"
  ELSE IF s.base = "Panel" /\ s.panel THEN "panel" ELSE "editor"

effectiveFocus(s) ==
  IF s.prompt.kind # "None" THEN "prompt"
  ELSE IF s.external /\ s.held THEN "external"
  ELSE IF s.base = "Panel" /\ s.panel /\ ~s.distraction THEN "panel" ELSE "editor"

togglePanelKeepingFocus(s) ==
  IF s.panel THEN [s EXCEPT !.panel = FALSE]
  ELSE [s EXCEPT !.return = s.base, !.panel = TRUE, !.base = "Panel"]

togglePanel(s) ==
  IF s.panel THEN [s EXCEPT !.panel = FALSE, !.base = s.return]
  ELSE [s EXCEPT !.return = s.base, !.panel = TRUE, !.base = "Panel"]

showPanel(s) ==
  IF s.panel THEN [s EXCEPT !.distraction = FALSE]
  ELSE [s EXCEPT !.distraction = FALSE, !.return = s.base, !.panel = TRUE, !.base = "Panel"]

focusPanel(s) == IF s.panel THEN [s EXCEPT !.base = "Panel"] ELSE s
focusEditor(s) == [s EXCEPT !.base = "Editor"]
toggleDistractionFree(s) == [s EXCEPT !.distraction = ~@]

\* The first activation of the search provider creates it with its query being edited.
activatePanelProvider(s, provider) == [s EXCEPT !.provider = provider]

showPanelProvider(s, provider) ==
  IF s.panel /\ s.provider = provider THEN togglePanel(s)
  ELSE [activatePanelProvider(s, provider) EXCEPT
          !.panel = TRUE, !.base = "Panel", !.return = IF s.panel THEN s.return ELSE s.base]

switchPanelProvider(s, step) ==
  LET at == CHOOSE i \in 1..4 : kPanelTreeProviders[i] = s.provider
  IN  activatePanelProvider(s, kPanelTreeProviders[((at - 1 + step) % 4) + 1])

openPrompt(s, kind, completion) ==
  [s EXCEPT !.prompt = [kind |-> kind, active |-> IF kind = "Replace" THEN 1 ELSE 0, completion |-> completion]]
cancelPrompt(s) == [s EXCEPT !.prompt = NoPrompt]
inputsOf(prompt) == IF prompt.kind = "Replace" THEN 2 ELSE 1

focusNextInput(s) == [s EXCEPT !.prompt.active = (@ + 1) % inputsOf(s.prompt)]

canOpenFinder(s) == s.next < MaxActivation
openFinder(s, picker) ==
  [openPrompt(s, "Palette", "None") EXCEPT !.picker = picker,
     !.activation = [mode |-> PickerModes[picker], id |-> s.next], !.next = s.next + 1]
closeFinder(s) == [cancelPrompt(s) EXCEPT !.picker = "None", !.activation = NoActivation]

refreshExternalModificationPresence(s, present) ==
  [s EXCEPT !.external = present, !.held = present /\ @]

captureExternalFocus(s) == [s EXCEPT !.held = s.external \/ @]
releaseExternalFocus(s) == [s EXCEPT !.held = FALSE]

\* The find bar closes with its prompt when the document it searches is no longer the active one.
closeFind(s) ==
  [s EXCEPT !.find = FALSE, !.prompt = IF @.kind \in {"Find", "Replace"} THEN NoPrompt ELSE @]

documentChanges(s) == IF s.find THEN closeFind(s) ELSE s

-----------------------------------------------------------------------------
(* What the next frame projects: the hidden nodes and the focus path.      *)
(* A capture of a hidden or unknown node throws.                           *)

hidden(s) ==
  LET region == promptFocusRegion(s.prompt.kind)
  IN  (IF s.panel THEN {} ELSE {"panel"})
      \cup (IF ~s.distraction THEN {}
            ELSE {"externalmod", "panel", "tabbar", "footer"}
                 \cup (IF s.prompt.kind # "None" /\ region = "Header" THEN {} ELSE {"header", "input_line"})
                 \cup (IF s.prompt.kind # "None" /\ region = "Footer" THEN {} ELSE {"footer.prompt"}))
      \cup (IF visiblePicker(s) # "None" THEN {"editor", "tabbar"} ELSE {"find_results"})
      \cup (IF s.prompt.kind # "None" /\ region = "Header" THEN {} ELSE {"input_line"})
      \cup (IF s.prompt.kind # "None" /\ region = "Footer" THEN {"footer"} ELSE {"footer.prompt"})
      \cup (IF s.external THEN {} ELSE {"externalmod"})

focusPath(s) ==
  <<IF s.base = "Panel" /\ s.panel /\ ~s.distraction THEN "panel" ELSE "editor">>
  \o (IF s.external /\ s.held THEN <<"externalmod">> ELSE <<>>)
  \o (IF s.prompt.kind = "None" THEN <<>>
      ELSE IF promptFocusRegion(s.prompt.kind) = "Header" THEN <<"input_line">> ELSE <<"footer.prompt">>)

projects(s) ==
  /\ \A i \in 2..Len(focusPath(s)) : focusPath(s)[i] \notin hidden(s)
  /\ Last(focusPath(s)) \notin hidden(s)

focusContext(node) ==
  CASE node \in {"panel", "editor"}          -> node
    [] node = "externalmod"                  -> "external"
    [] node \in {"input_line", "footer.prompt"} -> "prompt"
effectiveUiFocus(s) == focusContext(Last(focusPath(s)))

-----------------------------------------------------------------------------
(* Commands.  Each has a set of outcomes: the screen it leaves and whether *)
(* it was accepted.                                                        *)

Accepted(s) == {[screen |-> s, ok |-> TRUE]}
Refused(s) == {[screen |-> s, ok |-> FALSE]}

shellCommand(s, id) ==
  CASE id = "panel.toggle" -> Accepted(togglePanel(s))
    [] id = "panel.focus" -> Accepted(focusPanel(s))
    [] id = "panel.toggle_focus" ->
         Accepted(IF effectiveFocus(s) = "panel" THEN focusEditor(s)
                  ELSE IF s.panel THEN focusPanel(s) ELSE focusPanel(togglePanel(s)))
    [] id = "panel.grow" -> Accepted(showPanel(s))
    [] id = "panel.show_files" -> Accepted(showPanelProvider(s, "filesystem"))
    [] id = "panel.show_search" -> Accepted(showPanelProvider(s, "search"))
    [] id = "panel.next_provider" -> Accepted(switchPanelProvider(s, 1))
    [] id = "panel.previous_provider" -> Accepted(switchPanelProvider(s, 3))
    [] OTHER -> Accepted(toggleDistractionFree(s))

\* A prompt that is submitted is gone, whether what it completes is then accepted or not.
promptCommand(s, id) ==
  CASE s.prompt.kind = "None" -> Refused(s)
    [] id = "prompt.focus_next_control" -> Accepted(focusNextInput(s))
    [] id = "prompt.cancel" ->
         Accepted(IF s.prompt.kind \in {"Find", "Replace"} THEN closeFind(s) ELSE cancelPrompt(s))
    [] id = "prompt.submit" /\ s.prompt.kind \notin {"Find", "Replace"} ->
         IF s.prompt.completion = "None" THEN Accepted(cancelPrompt(s))
         ELSE Refused(cancelPrompt(s)) \cup Accepted(cancelPrompt(s))
              \cup (IF s.prompt.completion = "FileOpen" THEN Accepted(documentChanges(cancelPrompt(s))) ELSE {})
    [] OTHER -> Accepted(s)

searchCommand(s, id) ==
  CASE id = "palette.open" -> IF canOpenFinder(s) THEN Accepted(openFinder(s, "command")) ELSE Refused(s)
    [] id = "file_finder.open" -> IF canOpenFinder(s) THEN Accepted(openFinder(s, "file")) ELSE Refused(s)
    [] id = "palette.close" -> IF s.prompt.kind = "None" THEN Refused(s) ELSE Accepted(closeFinder(s))
    [] OTHER -> Accepted(openPrompt(s, "CommandArgument", "GotoLine"))

\* The last conflict answered takes the bar away; one of several leaves it, and an answer may fail.
externalCommand(s, id) ==
  CASE id = "external.focus" -> Accepted(captureExternalFocus(s))
    [] id = "external.focus_return" -> Accepted(releaseExternalFocus(s))
    [] OTHER -> IF ~s.conflict THEN Refused(s)
                ELSE Refused(s) \cup Accepted(s) \cup Accepted([s EXCEPT !.conflict = FALSE])

\* A directory expands, a search hit or a file opens in the editor.
treeCommand(s) ==
  LET opened == focusEditor(documentChanges(s))
  IN  Refused(s) \cup Accepted(s) \cup Accepted(opened) \cup Refused(opened)

findCommand(s, id) ==
  LET kind == IF id = "replace.open" THEN "Replace" ELSE "Find"
  IN  Accepted([openPrompt(s, kind, "None") EXCEPT !.find = TRUE])

run(s, id) ==
  CASE id \in {"palette.open", "file_finder.open", "palette.close", "goto.line"} -> searchCommand(s, id)
    [] id \in {"prompt.submit", "prompt.cancel", "prompt.next", "prompt.previous",
               "prompt.focus_next_control"} -> promptCommand(s, id)
    [] id \in {"external.focus", "external.focus_return", "external.reload"} -> externalCommand(s, id)
    [] id \in {"find.open", "replace.open"} -> findCommand(s, id)
    [] id = "settings.open" -> Accepted(openPrompt(s, "Settings", "None"))
    [] id = "file.open" -> Accepted(openPrompt(s, "Path", "FileOpen"))
    [] id = "help.open" -> Accepted(focusEditor(documentChanges(s)))
    [] id = "tree.activate" -> treeCommand(s)
    [] id \in {"tree.select_next", "tree.select_previous", "cursor.line_down", "text.newline"} -> Accepted(s)
    [] OTHER -> shellCommand(s, id)

\* An operation ends with the bar shown exactly when a conflict is pending.
dispatchLocked(s, id) ==
  { [outcome EXCEPT !.screen = refreshExternalModificationPresence(@, @.conflict)] : outcome \in run(s, id) }

-----------------------------------------------------------------------------
(* The keymap the program starts with: its bindings that bear on the focus. *)

defaultTerminalKeymap ==
  LET bind(stroke, command, context) == Binding(<<stroke>>, command, context)
  IN  << bind(Mod("KeyP"), "file_finder.open", "*"), bind(ModShift("KeyP"), "palette.open", "*"),
         bind(ModShift("KeyF"), "panel.show_search", "*"), bind(Mod("KeyB"), "panel.toggle", "*"),
         bind(Mod("KeyH"), "help.open", "*"), bind(Mod("KeyO"), "panel.toggle_focus", "*"),
         bind(Mod("BracketRight"), "panel.grow", "*"), bind(ModShift("KeyT"), "settings.open", "*"),
         bind(Mod("Slash"), "find.open", "*"), bind(Mod("KeyR"), "replace.open", "*"),
         bind(Key("ArrowDown"), "cursor.line_down", "editor"),
         bind(ModShift("KeyG"), "goto.line", "editor"), bind(Key("Enter"), "text.newline", "editor"),
         bind(Key("ArrowDown"), "tree.select_next", "panel"), bind(Key("Enter"), "tree.activate", "panel"),
         bind(Key("Enter"), "prompt.submit", "prompt"), bind(Key("Escape"), "prompt.cancel", "prompt"),
         bind(Key("ArrowDown"), "prompt.next", "prompt"), bind(Key("Tab"), "prompt.focus_next_control", "prompt"),
         bind(Mod("KeyE"), "external.focus", "*"), bind(Key("Enter"), "external.reload", "external"),
         bind(Key("Escape"), "external.focus_return", "external") >>

inputKeymap == CompiledKeymap(defaultTerminalKeymap)

-----------------------------------------------------------------------------
(* The route of a key in the editor. *)

Route(to, command) == [to |-> to, command |-> command]
EditKinds == "Backspace" :> "DeleteBackward" @@ "ArrowLeft" :> "MoveLeft" @@ "Home" :> "MoveToStart"

searchPanel(s) == effectiveFocus(s) = "panel" /\ s.provider = "search"

\* A command the key is bound to: the palette's own ones stay with the client.
routeCommand(s, command) ==
  IF searchPanel(s) /\ s.editing /\ command \in {"tree.select_next", "tree.select_previous"}
    THEN Route("search move", command)
  ELSE IF searchPanel(s) /\ s.editing /\ command = "tree.activate" THEN Route("search submit", command)
  ELSE IF s.prompt.kind # "Palette" THEN Route("dispatch", command)
  ELSE CASE command = "prompt.submit" -> Route("submit", command)
         [] command \in {"prompt.next", "palette.next"} -> Route("next", command)
         [] command \in {"prompt.previous", "palette.previous"} -> Route("previous", command)
         [] command = "prompt.cancel" -> Route("dispatch", "palette.close")
         [] OTHER -> Route("dispatch", command)

\* Text and editing keys: the palette's query is the client's; other prompts' values and the text are not modelled here.
routeTextEdit(s, kind) == IF s.prompt.kind = "Palette" THEN Route("edit", kind) ELSE Route("text", kind)

routeInput(s, key) ==
  LET bound == IF key.stroke.code = "None" THEN <<>> ELSE resolve(inputKeymap, key.stroke, effectiveFocus(s))
      edit == IF key.stroke.code \in DOMAIN EditKinds THEN EditKinds[key.stroke.code] ELSE "Insert"
  IN  IF searchPanel(s) /\ key.text # <<>> THEN Route("search edit", "Insert")
      ELSE IF bound # <<>> THEN routeCommand(s, bound[1].command)
      ELSE IF edit = "Insert" /\ key.text = <<>> THEN Route("text", "None")
      ELSE IF searchPanel(s) THEN (IF s.editing THEN Route("search edit", edit) ELSE Route("text", "None"))
      ELSE routeTextEdit(s, edit)

-----------------------------------------------------------------------------
(* The client's palette. *)

candidatesFor(mode, listed) ==
  IF mode = "Command" THEN CommandLabels ELSE IF mode = "File" THEN listed ELSE <<>>

ranked(c) == rankPaletteCandidates(c.candidates, c.query.text)
selectionWithin(c, rows) == [c EXCEPT !.selected = IF @ >= rows THEN Max({0, rows - 1}) ELSE @]
revealSelection(c) == selectionWithin(c, Len(ranked(c)))

\* An edit of the text goes back to the first row.
ChangesText(kind) == kind \in {"Insert", "DeleteBackward", "DeleteForward"}
applyEdit(c, kind, text) ==
  [c EXCEPT !.query = applyPromptTextEdit(@, kind, text), !.selected = IF ChangesText(kind) THEN 0 ELSE @]

adopt(c, s, listed) ==
  LET activation == openPickerActivation(s)
      mode == IF activation = NoActivation THEN "Command" ELSE activation.mode
      open == s.prompt.kind = "Palette"
      fresh == open /\ ~c.open
  IN  [open |-> open, activation |-> activation, candidates |-> candidatesFor(mode, listed),
       query |-> IF fresh THEN EmptyQuery ELSE c.query, selected |-> IF fresh THEN 0 ELSE c.selected]

\* What is drawn of an open palette has its selection on a row.
report(c) == IF c.open THEN revealSelection(c) ELSE c

-----------------------------------------------------------------------------
(* Actions. *)

\* The screen after an operation; a file picker that opens reads the workspace again.
Leaves(s) ==
  /\ screen' = s /\ requested' = TRUE
  /\ IF s.next # screen.next /\ s.picker = "file" THEN files' \in FileLists ELSE files' = files

\* A key that runs a command.
KeyRuns(route) ==
  /\ running /\ route.to = "dispatch"
  /\ \E outcome \in dispatchLocked(screen, route.command) : Leaves(outcome.screen)
  /\ UNCHANGED <<client, shown, running, ran>>

\* A key in the query of the search panel.  Moving needs a result to move to.
KeySearches(route) ==
  /\ running
  /\ \/ route.to = "search edit" /\ Leaves([screen EXCEPT !.editing = TRUE])
     \/ route.to = "search submit" /\ Leaves(screen)
     \/ route.to = "search move" /\ \E results \in BOOLEAN : Leaves([screen EXCEPT !.editing = ~results])
  /\ UNCHANGED <<client, shown, running, ran>>

\* A key the client keeps for its palette.
stepped(c, down) == [c EXCEPT !.selected = IF down THEN @ + 1 ELSE Max({0, @ - 1})]
KeyStaysInPalette(key, route) ==
  /\ running
  /\ \/ /\ route.to \in {"next", "previous"}
        /\ client' = revealSelection(stepped(client, route.to = "next"))
     \/ /\ route.to = "edit" /\ Len(client.query.text) + Len(key.text) <= MaxQuery
        /\ client' = applyEdit(client, route.command, key.text)
  /\ requested' = TRUE
  /\ UNCHANGED <<screen, files, shown, running, ran>>

\* Editor.input(SubmitPicker): refused unless the candidate is still listed and its picker still open.
SubmitsWhateverIsOpen(activation, candidate) ==
  candidate \in ToSet(candidatesFor(activation.mode, files))
Submits(activation, candidate) ==
  candidate \in ToSet(candidatesFor(activation.mode, files)) /\ openPickerActivation(screen) = activation

AfterCandidate(activation, outcome) ==
  IF outcome.ok /\ openPickerActivation(outcome.screen) = activation
    THEN closeFinder(outcome.screen) ELSE outcome.screen

candidateOutcomes(activation, candidate) ==
  IF activation.mode = "Command" THEN dispatchLocked(screen, candidate.name)
  ELSE Refused(screen) \cup Accepted(documentChanges(screen))

SubmitPicker(activation, candidate) ==
  /\ activation # NoActivation
  /\ IF Submits(activation, candidate)
       THEN \E outcome \in candidateOutcomes(activation, candidate) :
              /\ Leaves(AfterCandidate(activation, outcome))
              /\ ran' = IF outcome.ok THEN [candidate |-> candidate.name, activation |-> activation] ELSE ran
       ELSE Leaves(screen) /\ ran' = ran

\* Enter in the palette submits the selected row; a click submits the row under it.
Chosen == { row \in DOMAIN ranked(client) : row = client.selected + 1 }
KeySubmits(route) ==
  /\ running /\ route.to = "submit"
  /\ \E row \in Chosen : SubmitPicker(client.activation, ranked(client)[row])
  /\ UNCHANGED <<client, shown, running>>

KeyPressed(key, route) ==
  KeyRuns(route) \/ KeySearches(route) \/ KeyStaysInPalette(key, route) \/ KeySubmits(route)

ClickCandidate(row) ==
  /\ running /\ client.open /\ row \in DOMAIN ranked(client)
  /\ SubmitPicker(client.activation, ranked(client)[row])
  /\ UNCHANGED <<client, shown, running>>

\* A click in the text focuses the editor; one in the search query the panel, unless it is gone.
ClickEditor ==
  /\ running /\ Leaves(focusEditor(screen))
  /\ UNCHANGED <<client, shown, running, ran>>
ClickSearchQuery ==
  /\ running /\ screen.provider = "search" /\ screen.panel
  /\ Leaves([focusPanel(screen) EXCEPT !.editing = TRUE])
  /\ UNCHANGED <<client, shown, running, ran>>

\* A batch from the worker leaves a conflict to answer, or reloads the document; or a save settles it.
ExternalChange(present) ==
  /\ running
  /\ Leaves(refreshExternalModificationPresence(documentChanges([screen EXCEPT !.conflict = present]), present))
  /\ UNCHANGED <<client, shown, running, ran>>

\* The next frame: the client adopts what it shows.  One that does not fit the terminal is
\* not shown and not asked for again; a screen that does not project ends the program.
Present ==
  /\ running /\ requested
  /\ \/ /\ projects(screen) /\ client' = adopt(report(client), screen, files)
        /\ shown' = effectiveUiFocus(screen) /\ requested' = FALSE /\ UNCHANGED running
     \/ /\ projects(screen) /\ client' = report(client)
        /\ shown' = Nowhere /\ requested' = FALSE /\ UNCHANGED running
     \/ ~projects(screen) /\ running' = FALSE /\ UNCHANGED <<client, shown, requested>>
  /\ UNCHANGED <<screen, files, ran>>

Init ==
  /\ screen = [panel |-> TRUE, return |-> "Editor", base |-> "Editor", distraction |-> FALSE,
               external |-> FALSE, held |-> FALSE, conflict |-> FALSE, picker |-> "None",
               activation |-> NoActivation, next |-> 1, prompt |-> NoPrompt,
               provider |-> "filesystem", editing |-> TRUE, find |-> FALSE]
  /\ files \in FileLists
  /\ client = [open |-> FALSE, activation |-> NoActivation, candidates |-> <<>>,
               query |-> EmptyQuery, selected |-> 0]
  /\ requested = TRUE /\ shown = "editor" /\ running = TRUE
  /\ ran = [candidate |-> "None", activation |-> NoActivation]

Next ==
  \/ \E key \in Keys : KeyPressed(key, routeInput(screen, key))
  \/ \E row \in 1..Len(CommandLabels) : ClickCandidate(row)
  \/ ClickEditor \/ ClickSearchQuery
  \/ \E present \in BOOLEAN : ExternalChange(present)
  \/ Present

Spec == Init /\ [][Next]_vars

-----------------------------------------------------------------------------
(* Properties. *)

Screens == [panel : BOOLEAN, return : {"Editor", "Panel"}, base : {"Editor", "Panel"},
            distraction : BOOLEAN, external : BOOLEAN, held : BOOLEAN, conflict : BOOLEAN,
            picker : {"None", "command", "file"},
            activation : [mode : {"None", "Command", "File"}, id : 0..MaxActivation],
            next : 1..MaxActivation,
            prompt : [kind : {"None", "Palette", "Find", "Replace", "Path", "Settings", "CommandArgument"},
                      active : 0..1, completion : {"None", "FileOpen", "GotoLine"}],
            provider : ToSet(kPanelTreeProviders), editing : BOOLEAN, find : BOOLEAN]

TypeOK ==
  /\ screen \in Screens /\ shown \in FocusTargets \cup {Nowhere}
  /\ requested \in BOOLEAN /\ running \in BOOLEAN

\* A hidden panel neither holds the focus nor gets it back when it closes again (ScreenState.cpp:220-253, 297-312).
HiddenPanelHoldsNoFocus == screen.return = "Editor" /\ (~screen.panel => screen.base = "Editor")

\* A frame fails only when the bar of external changes holds the keys while the
\* distraction-free mode hides it; and the focus a frame shows is the one that routes
\* the next key, whenever the frame is the state's and fits the terminal
\* (ScreenState.cpp:63-126 and 364-372, two ways to say where the focus is).
KeysGoWhereFocusIsShown ==
  /\ projects(screen) \/ (screen.distraction /\ screen.external /\ screen.held)
  /\ projects(screen) => effectiveUiFocus(screen) = effectiveFocus(screen)
  /\ (running /\ ~requested) => shown \in {effectiveFocus(screen), Nowhere}

\* The bar of external changes holds the keys only while a conflict is there to answer
\* (ScreenState.cpp:314-325, Editor.cpp:98-143).
BarHoldsKeysOnlyForConflicts ==
  /\ screen.external = screen.conflict
  /\ screen.held => screen.conflict

\* The find bar and its prompt: a prompt for a find is there only while the find is open.
FindPromptHasItsFind == screen.prompt.kind \in {"Find", "Replace"} => screen.find

\* Whoever holds the keys is there to take them: the panel is shown, the bar has
\* a conflict to answer, the prompt of a find has its find (ScreenState.cpp:201-341).
FocusHoldersAreThere ==
  TypeOK /\ HiddenPanelHoldsNoFocus /\ BarHoldsKeysOnlyForConflicts /\ FindPromptHasItsFind

\* A picker runs one candidate at most each time it opens, the one of the list the client
\* shows for that opening, however late the key or the click comes (Editor.cpp:521-588).
EachOpeningRunsOneCandidate ==
  [][ran' # ran => /\ ran'.activation.id > ran.activation.id
                   /\ ran'.activation = openPickerActivation(screen)
                   /\ openPickerActivation(screen') # ran'.activation]_vars
=============================================================================
